---------------------------- MODULE DisposeProofs ----------------------------
(***************************************************************************)
(* Proofs about disposable stacks (JsDispose), for any number of stacks    *)
(* and resources and any depth of re-entrant calls.                        *)
(***************************************************************************)
EXTENDS EngineControl, TLAPS

Things == Resources \union {Nothing}
UseFrames == [kind : {"use"}, s : Stacks, r : Resources]
MethodFrames ==
  [kind : {"method"}, s : Stacks, r : Resources, left : Seq(Things), error : Seq(Resources)]
Links ==
  [st : {"none", "calls", "awaits", "ready", "settled"}, left : Seq(Things), error : Seq(Resources)]

-----------------------------------------------------------------------------
(* What is called, over the resources ow of each disposed stack and the log of calls lg. *)

\* No resource is in two places.
Apart(ow) ==
  \A s, t \in Stacks : \A i \in 1..Len(ow[s]), j \in 1..Len(ow[t]) :
    ow[s][i] = ow[t][j] => s = t /\ i = j

Has(lg, r) == \E a \in 1..Len(lg) : lg[a] = r

\* Of the resources of s those behind place m have been called.
Down(ow, lg, s, m) ==
  \A i \in 1..Len(ow[s]) : ow[s][i] # Nothing => (Has(lg, ow[s][i]) <=> i > m)

Once(lg) == \A a, b \in 1..Len(lg) : lg[a] = lg[b] => a = b
\* A resource is called after those added later.
After(ow, lg) ==
  \A s \in Stacks : \A i, j \in 1..Len(ow[s]) : \A a \in 1..Len(lg) :
    i < j /\ ow[s][j] # Nothing /\ lg[a] = ow[s][i] => \E b \in 1..(a - 1) : lg[b] = ow[s][j]
Owed(ow, lg) == \A a \in 1..Len(lg) : \E s \in Stacks : \E i \in 1..Len(ow[s]) : lg[a] = ow[s][i]
Log(ow, lg) == Once(lg) /\ After(ow, lg) /\ Owed(ow, lg)

\* The next call of a disposal.
LEMMA NextCall ==
  ASSUME NEW ow \in [Stacks -> Seq(Things)], NEW lg \in Seq(Resources), Apart(ow), Log(ow, lg),
         NEW s \in Stacks, NEW k \in 1..Len(ow[s]), ow[s][k] \in Resources, Down(ow, lg, s, k),
         NEW lh, lh = Append(lg, ow[s][k])
  PROVE  /\ lh \in Seq(Resources)
         /\ Log(ow, lh)
         /\ Down(ow, lh, s, k - 1)
         /\ \A t \in Stacks, m \in Nat : t # s /\ Down(ow, lg, t, m) => Down(ow, lh, t, m)
<1> DEFINE r == ow[s][k]
<1>0. Nothing \notin Resources /\ \A t \in Stacks : ow[t] \in Seq(Things) /\ Len(ow[t]) \in Nat
  BY ControlAssumption DEF ControlAssumption, Dispose!NothingAssumption
<1>1. /\ lh \in Seq(Resources) /\ Len(lh) = Len(lg) + 1 /\ Len(lg) \in Nat
      /\ \A a \in 1..Len(lg) : lh[a] = lg[a]
      /\ lh[Len(lg) + 1] = r
  OBVIOUS
<1>2. \A x : Has(lh, x) <=> Has(lg, x) \/ x = r
  <2>1. ASSUME NEW x, Has(lh, x) PROVE Has(lg, x) \/ x = r
    <3>1. PICK a \in 1..Len(lh) : lh[a] = x
      BY <2>1 DEF Has
    <3>2. a \in 1..Len(lg) \/ a = Len(lg) + 1
      BY <1>1
    <3> QED
      BY <1>1, <3>1, <3>2 DEF Has
  <2>2. ASSUME NEW x, Has(lg, x) PROVE Has(lh, x)
    <3>1. PICK a \in 1..Len(lg) : lg[a] = x
      BY <2>2 DEF Has
    <3> QED
      BY <1>1, <3>1 DEF Has
  <2>3. Has(lh, r)
    BY <1>1 DEF Has
  <2> QED
    BY <2>1, <2>2, <2>3
<1>3. ~Has(lg, r)
  BY <1>0 DEF Down
<1>4. Down(ow, lh, s, k - 1)
  <2> SUFFICES ASSUME NEW i \in 1..Len(ow[s]), ow[s][i] # Nothing
               PROVE  Has(lh, ow[s][i]) <=> i > k - 1
    BY DEF Down
  <2>1. Has(lg, ow[s][i]) <=> i > k
    BY DEF Down
  <2>2. ow[s][i] = r <=> i = k
    BY <1>0 DEF Apart
  <2> QED
    BY <1>0, <1>2, <2>1, <2>2
<1>5. ASSUME NEW t \in Stacks, NEW m \in Nat, t # s, Down(ow, lg, t, m) PROVE Down(ow, lh, t, m)
  <2>1. \A i \in 1..Len(ow[t]) : ow[t][i] # r
    BY <1>0, <1>5 DEF Apart
  <2> QED
    BY <1>2, <1>5, <2>1 DEF Down
<1>6. Log(ow, lh)
  <2>1. ASSUME NEW a \in 1..Len(lh), NEW b \in 1..Len(lh), lh[a] = lh[b] PROVE a = b
    <3>1. (a \in 1..Len(lg) \/ a = Len(lg) + 1) /\ (b \in 1..Len(lg) \/ b = Len(lg) + 1)
      BY <1>1
    <3>2. \A c \in 1..Len(lg) : lg[c] # r
      BY <1>3 DEF Has
    <3> QED
      BY <1>1, <2>1, <3>1, <3>2 DEF Log, Once, After, Owed
  <2>2. ASSUME NEW t \in Stacks, NEW i \in 1..Len(ow[t]), NEW j \in 1..Len(ow[t]), i < j, ow[t][j] # Nothing,
               NEW a \in 1..Len(lh), lh[a] = ow[t][i]
        PROVE  \E b \in 1..(a - 1) : lh[b] = ow[t][j]
    <3>1. CASE a \in 1..Len(lg)
      <4>0. lg[a] = ow[t][i]
        BY <1>1, <2>2, <3>1
      <4>1. PICK b \in 1..(a - 1) : lg[b] = ow[t][j]
        BY <2>2, <3>1, <4>0 DEF Log, Once, After, Owed
      <4>2. b \in 1..Len(lg)
        BY <1>1, <3>1
      <4> QED
        BY <1>1, <4>1, <4>2
    <3>2. CASE a = Len(lg) + 1
      <4>1. t = s /\ i = k
        BY <1>0, <1>1, <2>2, <3>2 DEF Apart
      <4>2. Has(lg, ow[s][j])
        BY <1>0, <2>2, <4>1 DEF Down
      <4>3. PICK b \in 1..Len(lg) : lg[b] = ow[t][j]
        BY <4>1, <4>2 DEF Has
      <4>4. b \in 1..(a - 1) /\ lh[b] = ow[t][j]
        BY <1>1, <3>2, <4>3
      <4> QED
        BY <4>4
    <3> QED
      BY <1>1, <3>1, <3>2
  <2>3. ASSUME NEW a \in 1..Len(lh) PROVE \E t \in Stacks : \E i \in 1..Len(ow[t]) : lh[a] = ow[t][i]
    <3>1. CASE a \in 1..Len(lg)
      <4>1. lh[a] = lg[a]
        BY <1>1, <3>1
      <4> QED
        BY <3>1, <4>1 DEF Log, Once, After, Owed
    <3>2. CASE a = Len(lg) + 1
      BY <1>1, <3>2
    <3> QED
      BY <1>1, <3>1, <3>2
  <2>4. Once(lh)
    BY <2>1 DEF Once
  <2>5. After(ow, lh)
    BY <2>2 DEF After
  <2>6. Owed(ow, lh)
    BY <2>3 DEF Owed
  <2> QED
    BY <2>4, <2>5, <2>6 DEF Log
<1>7. \A t \in Stacks, m \in Nat : t # s /\ Down(ow, lg, t, m) => Down(ow, lh, t, m)
  BY <1>5
<1> HIDE DEF r
<1> QED
  BY <1>1, <1>4, <1>6, <1>7

\* l is the beginning of q: what is left of it.
Rest(l, q) == Len(l) <= Len(q) /\ \A i \in 1..Len(l) : l[i] = q[i]

LEMMA NoThing == Nothing \notin Resources
BY ControlAssumption DEF ControlAssumption, Dispose!NothingAssumption

\* The last of what is left is taken.
LEMMA TakeLast ==
  ASSUME NEW q \in Seq(Things), NEW left \in Seq(Things), left # <<>>, Rest(left, q)
  PROVE  /\ Dispose!Front(left) \in Seq(Things) /\ Len(Dispose!Front(left)) = Len(left) - 1
         /\ Rest(Dispose!Front(left), q)
         /\ Dispose!Last(left) = q[Len(left)] /\ Dispose!Last(left) \in Things
         /\ Len(left) \in 1..Len(q)
<1>1. Len(left) \in Nat /\ Len(left) > 0 /\ Len(q) \in Nat
  OBVIOUS
<1>2. /\ Dispose!Front(left) \in Seq(Things) /\ Len(Dispose!Front(left)) = Len(left) - 1
      /\ \A i \in 1..(Len(left) - 1) : Dispose!Front(left)[i] = left[i]
  <2>1. Dispose!Front(left) = SubSeq(left, 1, Len(left) - 1)
    BY DEF Dispose!Front
  <2> DEFINE k == Len(left) - 1
  <2>2. k \in 0..Len(left) /\ k \in Nat
    BY <1>1
  <2> HIDE DEF k
  <2>3. SubSeq(left, 1, k) \in Seq(Things)
    BY <2>2
  <2>4. Len(SubSeq(left, 1, k)) = k
    BY <2>2
  <2>5. \A i \in 1..k : SubSeq(left, 1, k)[i] = left[i]
    BY <1>1, <2>2
  <2> QED
    BY <2>1, <2>3, <2>4, <2>5 DEF k
<1>3. Dispose!Last(left) = left[Len(left)] /\ left[Len(left)] \in Things
  BY <1>1 DEF Dispose!Last
<1> QED
  BY <1>1, <1>2, <1>3 DEF Rest

\* The last of what is left is called.
LEMMA CallLast ==
  ASSUME NEW ow \in [Stacks -> Seq(Things)], NEW lg \in Seq(Resources), Apart(ow), Log(ow, lg),
         NEW s \in Stacks, NEW left \in Seq(Things), left # <<>>, Rest(left, ow[s]),
         Down(ow, lg, s, Len(left)), Dispose!Last(left) \in Resources,
         NEW lh, lh = Append(lg, Dispose!Last(left))
  PROVE  /\ lh \in Seq(Resources)
         /\ Log(ow, lh)
         /\ Down(ow, lh, s, Len(Dispose!Front(left)))
         /\ \A t \in Stacks, m \in Nat : t # s /\ Down(ow, lg, t, m) => Down(ow, lh, t, m)
<1>1. ow[s] \in Seq(Things)
  OBVIOUS
<1>2. /\ Dispose!Last(left) = ow[s][Len(left)] /\ Len(left) \in 1..Len(ow[s])
      /\ Len(Dispose!Front(left)) = Len(left) - 1
  BY <1>1, TakeLast
<1> DEFINE k == Len(left)
<1>3. /\ k \in 1..Len(ow[s]) /\ ow[s][k] \in Resources /\ lh = Append(lg, ow[s][k])
      /\ Down(ow, lg, s, k) /\ Len(Dispose!Front(left)) = k - 1
  BY <1>2
<1> HIDE DEF k
<1>4. /\ lh \in Seq(Resources) /\ Log(ow, lh) /\ Down(ow, lh, s, k - 1)
      /\ \A t \in Stacks, m \in Nat : t # s /\ Down(ow, lg, t, m) => Down(ow, lh, t, m)
  BY <1>3, NextCall
<1> QED
  BY <1>3, <1>4

\* The last of what is left is null: nothing is called for it.
LEMMA SkipLast ==
  ASSUME NEW ow \in [Stacks -> Seq(Things)], NEW lg, NEW s \in Stacks, NEW left \in Seq(Things),
         left # <<>>, Rest(left, ow[s]), Down(ow, lg, s, Len(left)), Dispose!Last(left) = Nothing
  PROVE  Down(ow, lg, s, Len(Dispose!Front(left)))
<1>1. ow[s] \in Seq(Things)
  OBVIOUS
<1>2. /\ Dispose!Last(left) = ow[s][Len(left)] /\ Len(left) \in 1..Len(ow[s])
      /\ Len(Dispose!Front(left)) = Len(left) - 1
  BY <1>1, TakeLast
<1>3. ASSUME NEW i \in 1..Len(ow[s]), ow[s][i] # Nothing
      PROVE  Has(lg, ow[s][i]) <=> i > Len(left) - 1
  <2>1. i # Len(left)
    BY <1>2, <1>3
  <2>2. Has(lg, ow[s][i]) <=> i > Len(left)
    BY <1>3 DEF Down
  <2> QED
    BY <1>1, <1>2, <2>1, <2>2
<1> QED
  BY <1>2, <1>3 DEF Down

\* A disposal begins: none of the resources of s has been called.
Taken(on, ow, s, l) == on = [ow EXCEPT ![s] = l]

LEMMA TakeOver ==
  ASSUME NEW ow \in [Stacks -> Seq(Things)], NEW lg \in Seq(Resources), Log(ow, lg),
         NEW s \in Stacks, ow[s] = <<>>, NEW l \in Seq(Things),
         NEW on, Taken(on, ow, s, l), Apart(on)
  PROVE  /\ on \in [Stacks -> Seq(Things)]
         /\ Log(on, lg)
         /\ Down(on, lg, s, Len(l)) /\ Rest(l, on[s])
         /\ \A t \in Stacks, m \in Nat : t # s /\ Down(ow, lg, t, m) => Down(on, lg, t, m)
<1>1. on \in [Stacks -> Seq(Things)] /\ on[s] = l /\ \A t \in Stacks : t # s => on[t] = ow[t]
  BY DEF Taken
<1>2. ASSUME NEW a \in 1..Len(lg)
      PROVE  \E t \in Stacks : t # s /\ \E i \in 1..Len(on[t]) : lg[a] = on[t][i]
  <2>1. PICK t \in Stacks : \E i \in 1..Len(ow[t]) : lg[a] = ow[t][i]
    BY DEF Log, Once, After, Owed
  <2>2. t # s
    BY <2>1
  <2> QED
    BY <1>1, <2>1, <2>2
<1>3. \A i \in 1..Len(l) : ~Has(lg, l[i])
  <2> SUFFICES ASSUME NEW i \in 1..Len(l), NEW a \in 1..Len(lg), lg[a] = l[i] PROVE FALSE
    BY DEF Has
  <2>1. PICK t \in Stacks : t # s /\ \E j \in 1..Len(on[t]) : lg[a] = on[t][j]
    BY <1>2
  <2> QED
    <3>1. PICK j \in 1..Len(on[t]) : lg[a] = on[t][j]
      BY <2>1
    <3>2. i \in 1..Len(on[s]) /\ on[s][i] = on[t][j]
      BY <1>1, <3>1
    <3> QED
      BY <2>1, <3>1, <3>2 DEF Apart
<1>4. Log(on, lg)
  <2>1. \A a, b \in 1..Len(lg) : lg[a] = lg[b] => a = b
    BY DEF Log, Once, After, Owed
  <2>2. ASSUME NEW t \in Stacks, NEW i \in 1..Len(on[t]), NEW j \in 1..Len(on[t]), i < j, on[t][j] # Nothing,
               NEW a \in 1..Len(lg), lg[a] = on[t][i]
        PROVE  \E b \in 1..(a - 1) : lg[b] = on[t][j]
    <3>1. t # s
      BY <1>1, <1>3, <2>2 DEF Has
    <3>2. on[t] = ow[t]
      BY <1>1, <3>1
    <3> QED
      BY <2>2, <3>2 DEF Log, Once, After, Owed
  <2>3. After(on, lg)
    BY <2>2 DEF After
  <2>4. Owed(on, lg)
    BY <1>2 DEF Owed
  <2> QED
    BY <2>1, <2>3, <2>4 DEF Log, Once
<1>5. Down(on, lg, s, Len(l))
  <2>1. Len(l) \in Nat
    OBVIOUS
  <2> QED
    BY <1>1, <1>3, <2>1 DEF Down
<1> QED
  BY <1>1, <1>4, <1>5 DEF Down, Rest

-----------------------------------------------------------------------------
(* The frames: code that waits for JavaScript. *)

Frames == UseFrames \union MethodFrames
In(fs, f) == \E a \in 1..Len(fs) : fs[a] = f
\* A resource is read in one frame, a stack is disposed of in one.
Same(f, g) == f.kind = g.kind /\ IF f.kind = "use" THEN f.r = g.r ELSE f.s = g.s
Distinct(fs) == \A a, b \in 1..Len(fs) : Same(fs[a], fs[b]) => a = b

Pushed(fn, x, fs) == fn = <<x>> \o fs

LEMMA Push ==
  ASSUME NEW fs \in Seq(Frames), Distinct(fs), NEW x \in Frames, NEW fn, Pushed(fn, x, fs),
         \A f \in Frames : In(fs, f) => ~Same(f, x)
  PROVE  /\ fn \in Seq(Frames) /\ Distinct(fn)
         /\ \A f : In(fn, f) <=> f = x \/ In(fs, f)
<1>1. /\ fn \in Seq(Frames) /\ Len(fn) = Len(fs) + 1 /\ fn[1] = x /\ Len(fs) \in Nat
      /\ \A a \in 1..Len(fs) : fn[a + 1] = fs[a] /\ fs[a] \in Frames
  BY DEF Pushed
<1>2. \A a \in 2..Len(fn) : a - 1 \in 1..Len(fs) /\ fn[a] = fs[a - 1]
  <2> SUFFICES ASSUME NEW a \in 2..Len(fn) PROVE a - 1 \in 1..Len(fs) /\ fn[a] = fs[a - 1]
    OBVIOUS
  <2>1. a - 1 \in 1..Len(fs) /\ (a - 1) + 1 = a
    BY <1>1
  <2> QED
    BY <1>1, <2>1
<1>3. \A f : In(fn, f) <=> f = x \/ In(fs, f)
  <2>1. ASSUME NEW f, In(fn, f) PROVE f = x \/ In(fs, f)
    <3>1. PICK a \in 1..Len(fn) : fn[a] = f
      BY <2>1 DEF In
    <3>2. a = 1 \/ a \in 2..Len(fn)
      BY <1>1
    <3> QED
      BY <1>1, <1>2, <3>1, <3>2 DEF In
  <2>2. ASSUME NEW f, In(fs, f) PROVE In(fn, f)
    <3>1. PICK a \in 1..Len(fs) : fs[a] = f
      BY <2>2 DEF In
    <3>2. a + 1 \in 1..Len(fn) /\ fn[a + 1] = f
      BY <1>1, <3>1
    <3> QED
      BY <3>2 DEF In
  <2>3. In(fn, x)
    <3>1. 1 \in 1..Len(fn)
      BY <1>1
    <3> QED
      BY <1>1, <3>1 DEF In
  <2> QED
    BY <2>1, <2>2, <2>3
<1>4. \A c \in 1..Len(fs) : ~Same(fs[c], x) /\ ~Same(x, fs[c])
  <2> SUFFICES ASSUME NEW c \in 1..Len(fs) PROVE ~Same(fs[c], x) /\ ~Same(x, fs[c])
    OBVIOUS
  <2>1. In(fs, fs[c]) /\ fs[c] \in Frames
    BY <1>1 DEF In
  <2>2. ~Same(fs[c], x)
    BY <2>1
  <2> QED
    BY <2>2 DEF Same
<1>5. ASSUME NEW a \in 1..Len(fn), NEW b \in 1..Len(fn), Same(fn[a], fn[b]) PROVE a = b
  <2>1. (a = 1 \/ a \in 2..Len(fn)) /\ (b = 1 \/ b \in 2..Len(fn))
    BY <1>1
  <2>2. CASE a = 1 /\ b \in 2..Len(fn)
    BY <1>1, <1>2, <1>4, <1>5, <2>2
  <2>3. CASE b = 1 /\ a \in 2..Len(fn)
    BY <1>1, <1>2, <1>4, <1>5, <2>3
  <2>4. CASE a \in 2..Len(fn) /\ b \in 2..Len(fn)
    <3>1. a - 1 \in 1..Len(fs) /\ b - 1 \in 1..Len(fs) /\ Same(fs[a - 1], fs[b - 1])
      BY <1>2, <1>5, <2>4
    <3>2. a - 1 = b - 1
      BY <3>1 DEF Distinct
    <3> QED
      BY <2>4, <3>2
  <2> QED
    BY <2>1, <2>2, <2>3, <2>4
<1> QED
  BY <1>1, <1>3, <1>5 DEF Distinct

LEMMA Pop ==
  ASSUME NEW fs \in Seq(Frames), Distinct(fs), fs # <<>>, NEW fn, fn = Tail(fs)
  PROVE  /\ fn \in Seq(Frames) /\ Distinct(fn)
         /\ fs[1] \in Frames /\ In(fs, fs[1])
         /\ \A f : In(fs, f) <=> f = fs[1] \/ In(fn, f)
         /\ \A f : In(fn, f) => ~Same(f, fs[1])
<1>1. /\ fn \in Seq(Frames) /\ Len(fn) = Len(fs) - 1 /\ Len(fs) \in Nat \ {0}
      /\ fs[1] \in Frames
      /\ \A a \in 1..Len(fn) : fn[a] = fs[a + 1]
  OBVIOUS
<1>2. \A a \in 1..Len(fn) : a + 1 \in 2..Len(fs)
  BY <1>1
<1>3. 1 \in 1..Len(fs) /\ In(fs, fs[1])
  <2>1. 1 \in 1..Len(fs)
    BY <1>1
  <2> QED
    BY <2>1 DEF In
<1>4. ASSUME NEW f, In(fs, f) PROVE f = fs[1] \/ In(fn, f)
  <2>1. PICK a \in 1..Len(fs) : fs[a] = f
    BY <1>4 DEF In
  <2>2. CASE a # 1
    <3>1. a - 1 \in 1..Len(fn) /\ (a - 1) + 1 = a
      BY <1>1, <2>2
    <3>2. fn[a - 1] = f
      BY <1>1, <2>1, <3>1
    <3> QED
      BY <3>1, <3>2 DEF In
  <2> QED
    BY <2>1, <2>2
<1>5. ASSUME NEW f, In(fn, f) PROVE In(fs, f) /\ ~Same(f, fs[1])
  <2>1. PICK a \in 1..Len(fn) : fn[a] = f
    BY <1>5 DEF In
  <2>2. a + 1 \in 1..Len(fs) /\ a + 1 # 1 /\ fs[a + 1] = f
    BY <1>1, <2>1
  <2> QED
    BY <1>3, <2>2 DEF In, Distinct
<1>6. ASSUME NEW a \in 1..Len(fn), NEW b \in 1..Len(fn), Same(fn[a], fn[b]) PROVE a = b
  <2>1. a + 1 \in 1..Len(fs) /\ b + 1 \in 1..Len(fs) /\ Same(fs[a + 1], fs[b + 1])
    BY <1>1, <1>6
  <2>2. a + 1 = b + 1
    BY <2>1 DEF Distinct
  <2> QED
    BY <2>2
<1> QED
  BY <1>1, <1>3, <1>4, <1>5, <1>6 DEF Distinct

-----------------------------------------------------------------------------
(* The inductive invariant. *)

DisposeTypes ==
  /\ made \subseteq Stacks /\ used \subseteq Things
  /\ disposed \in [Stacks -> BOOLEAN]
  /\ list \in [Stacks -> Seq(Things)] /\ owed \in [Stacks -> Seq(Things)]
  /\ frames \in Seq(Frames)
  /\ chain \in [Stacks -> Links]
  /\ log \in Seq(Resources) /\ failed \in [Stacks -> Seq(Resources)]

\* What a stack has or had to dispose of.
Here == [s \in Stacks |-> IF disposed[s] THEN owed[s] ELSE list[s]]
Holds(h, x) == \E s \in Stacks : \E i \in 1..Len(h[s]) : h[s][i] = x
NoNull(h) == \A s \in Stacks \ AsyncStacks : \A i \in 1..Len(h[s]) : h[s][i] # Nothing

\* Every resource that was added is in one place at most: in one stack, once, or in the frame
\* that reads its method.
Places ==
  /\ Apart(Here) /\ NoNull(Here)
  /\ \A x \in Things : Holds(Here, x) => x \in used
  /\ \A f \in UseFrames : In(frames, f) => f.r \in used /\ ~Holds(Here, f.r)
  /\ disposed \in [Stacks -> BOOLEAN] /\ \A s \in Stacks : disposed[s] => s \in made

\* A frame that waits for a method: the resources behind have been called.
Waiting(f, ow, lg) ==
  /\ Len(f.left) < Len(ow[f.s]) /\ Rest(f.left, ow[f.s])
  /\ f.r = ow[f.s][Len(f.left) + 1]
  /\ Down(ow, lg, f.s, Len(f.left))
Stopped(f) ==
  /\ disposed[f.s] /\ Waiting(f, owed, log)
  /\ f.error = failed[f.s] /\ chain[f.s].st \in {"none", "calls"}
Stops(s) == \E f \in MethodFrames : In(frames, f) /\ f.s = s

\* A stack that is or was disposed of.
Link(s) ==
  /\ chain[s].st \in {"ready", "awaits"} =>
       Rest(chain[s].left, owed[s]) /\ Down(owed, log, s, Len(chain[s].left))
  /\ chain[s].st = "awaits" =>
       Len(chain[s].left) < Len(owed[s]) /\ owed[s][Len(chain[s].left) + 1] \in Resources
  /\ chain[s].st \in {"none", "calls", "settled"} => Stops(s) \/ Down(owed, log, s, 0)
  /\ chain[s].st \in {"ready", "awaits", "settled"} => chain[s].error = failed[s]
Stage(s) ==
  /\ ~disposed[s] => owed[s] = <<>> /\ failed[s] = <<>> /\ chain[s].st = "none"
  /\ disposed[s] => Link(s)
  /\ \A f \in MethodFrames : In(frames, f) /\ f.s = s => Stopped(f)

Called ==
  /\ Distinct(frames)
  /\ Log(owed, log)
  /\ \A s \in Stacks : Stage(s)

DisposeInv == DisposeTypes /\ Places /\ Called

-----------------------------------------------------------------------------
(* Steps that leave parts of it alone. *)

LEMMA StageKept ==
  ASSUME DisposeTypes, NEW t \in Stacks, Stage(t),
         disposed'[t] = disposed[t], owed'[t] = owed[t], failed'[t] = failed[t],
         chain'[t] = chain[t],
         \A m \in Nat : Down(owed, log, t, m) => Down(owed', log', t, m),
         \A f \in MethodFrames : f.s = t => (In(frames', f) <=> In(frames, f))
  PROVE  Stage(t)'
<1>1. chain[t] \in Links /\ owed[t] \in Seq(Things)
  BY DEF DisposeTypes
<1>2. chain[t].left \in Seq(Things) /\ Len(chain[t].left) \in Nat
  BY <1>1 DEF Links
<1>3. ASSUME NEW f \in MethodFrames, In(frames', f), f.s = t PROVE Stopped(f)'
  <2>1. Stopped(f)
    BY <1>3 DEF Stage
  <2>2. Len(f.left) \in Nat
    BY DEF MethodFrames
  <2> QED
    BY <1>3, <2>1, <2>2 DEF Stopped, Waiting
<1>4. Stops(t)' <=> Stops(t)
  BY DEF Stops
<1>5. disposed[t] => Link(t)'
  BY <1>2, <1>4 DEF Stage, Link
<1> QED
  BY <1>3, <1>5 DEF Stage

LEMMA PlacesKept ==
  ASSUME Places, Here' = Here, used' = used, disposed' \in [Stacks -> BOOLEAN],
         \A s \in Stacks : disposed'[s] => s \in made',
         \A f \in UseFrames : In(frames', f) => In(frames, f)
  PROVE  Places'
BY DEF Places

\* A resource is added to a stack.
Added(g, h, s, r) == g = [h EXCEPT ![s] = Append(h[s], r)]

LEMMA Adding ==
  ASSUME NEW h \in [Stacks -> Seq(Things)], Apart(h), NoNull(h), NEW s \in Stacks, NEW r \in Things,
         r = Nothing => s \in AsyncStacks, ~Holds(h, r),
         NEW g, Added(g, h, s, r)
  PROVE  Apart(g) /\ NoNull(g) /\ \A x : Holds(g, x) => Holds(h, x) \/ x = r
<1>1. /\ \A t \in Stacks : t # s => g[t] = h[t]
      /\ Len(g[s]) = Len(h[s]) + 1 /\ Len(h[s]) \in Nat
      /\ \A i \in 1..Len(h[s]) : g[s][i] = h[s][i]
      /\ g[s][Len(h[s]) + 1] = r
  <2>1. h[s] \in Seq(Things) /\ g[s] = Append(h[s], r)
    BY DEF Added
  <2>2. \A t \in Stacks : t # s => g[t] = h[t]
    BY DEF Added
  <2> QED
    BY <2>1, <2>2
<1>2. ASSUME NEW t \in Stacks, NEW i \in 1..Len(g[t])
      PROVE  \/ i \in 1..Len(h[t]) /\ g[t][i] = h[t][i]
             \/ t = s /\ i = Len(h[s]) + 1 /\ g[t][i] = r
  <2>1. CASE t = s
    <3>1. i \in 1..Len(h[s]) \/ i = Len(h[s]) + 1
      BY <1>1, <2>1
    <3> QED
      BY <1>1, <2>1, <3>1
  <2> QED
    BY <1>1, <2>1
<1>3. \A t \in Stacks : \A i \in 1..Len(h[t]) : h[t][i] # r
  BY DEF Holds
<1>4. Apart(g)
  <2> SUFFICES ASSUME NEW t \in Stacks, NEW u \in Stacks, NEW i \in 1..Len(g[t]), NEW j \in 1..Len(g[u]),
                      g[t][i] = g[u][j]
               PROVE  t = u /\ i = j
    BY DEF Apart
  <2>1. CASE i \in 1..Len(h[t]) /\ g[t][i] = h[t][i] /\ j \in 1..Len(h[u]) /\ g[u][j] = h[u][j]
    <3>1. h[t][i] = h[u][j]
      BY <2>1
    <3> QED
      BY <2>1, <3>1 DEF Apart
  <2> QED
    BY <1>2, <1>3, <2>1
<1>5. NoNull(g)
  BY <1>2 DEF NoNull
<1>6. ASSUME NEW x, Holds(g, x) PROVE Holds(h, x) \/ x = r
  <2>1. PICK t \in Stacks : \E i \in 1..Len(g[t]) : g[t][i] = x
    BY <1>6 DEF Holds
  <2> QED
    BY <1>2, <2>1 DEF Holds
<1> QED
  BY <1>4, <1>5, <1>6

\* The resources of s move to t.
Moved(g, h, s, t) == g = [h EXCEPT ![t] = h[s], ![s] = <<>>]

LEMMA Moving ==
  ASSUME NEW h \in [Stacks -> Seq(Things)], Apart(h), NoNull(h), NEW s \in Stacks, NEW t \in Stacks,
         t # s, s \in AsyncStacks <=> t \in AsyncStacks,
         NEW g, Moved(g, h, s, t)
  PROVE  Apart(g) /\ NoNull(g) /\ \A x : Holds(g, x) => Holds(h, x)
<1> DEFINE from(u) == IF u = t THEN s ELSE u
<1>1. /\ g[t] = h[s] /\ g[s] = <<>> /\ \A u \in Stacks : u # t /\ u # s => g[u] = h[u]
  BY DEF Moved
<1>2. ASSUME NEW u \in Stacks, NEW i \in 1..Len(g[u])
      PROVE  u # s /\ from(u) \in Stacks /\ i \in 1..Len(h[from(u)]) /\ g[u][i] = h[from(u)][i]
  <2>1. u # s
    <3>1. Len(<<>>) = 0
      OBVIOUS
    <3> QED
      BY <1>1, <3>1
  <2>2. CASE u = t
    BY <1>1, <2>2
  <2> QED
    BY <1>1, <2>1, <2>2
<1>3. Apart(g)
  <2> SUFFICES ASSUME NEW u \in Stacks, NEW v \in Stacks, NEW i \in 1..Len(g[u]), NEW j \in 1..Len(g[v]),
                      g[u][i] = g[v][j]
               PROVE  u = v /\ i = j
    BY DEF Apart
  <2>1. from(u) = from(v) /\ i = j
    BY <1>2 DEF Apart
  <2> QED
    BY <1>2, <2>1
<1>4. NoNull(g)
  <2> SUFFICES ASSUME NEW u \in Stacks \ AsyncStacks, NEW i \in 1..Len(g[u]) PROVE g[u][i] # Nothing
    BY DEF NoNull
  <2>1. from(u) \in Stacks \ AsyncStacks /\ i \in 1..Len(h[from(u)]) /\ g[u][i] = h[from(u)][i]
    BY <1>2
  <2> QED
    BY <2>1 DEF NoNull
<1>5. ASSUME NEW x, Holds(g, x) PROVE Holds(h, x)
  <2>1. PICK u \in Stacks : \E i \in 1..Len(g[u]) : g[u][i] = x
    BY <1>5 DEF Holds
  <2>2. PICK i \in 1..Len(g[u]) : g[u][i] = x
    BY <2>1
  <2>3. from(u) \in Stacks /\ i \in 1..Len(h[from(u)]) /\ h[from(u)][i] = x
    BY <1>2, <2>2
  <2> HIDE DEF from
  <2> QED
    BY <2>3 DEF Holds
<1> QED
  BY <1>3, <1>4, <1>5

\* The frame x of the next method is pushed.
Calls(x, s, left, error, below, fs, lg, lh) ==
  /\ x = Dispose!Method(s, Dispose!Last(left), Dispose!Front(left), error)
  /\ Pushed(fs, x, below)
  /\ lh = Append(lg, Dispose!Last(left))

LEMMA CallPush ==
  ASSUME NEW ow \in [Stacks -> Seq(Things)], NEW lg \in Seq(Resources), Apart(ow), Log(ow, lg),
         NEW s \in Stacks, NEW left \in Seq(Things), left # <<>>, Rest(left, ow[s]),
         Down(ow, lg, s, Len(left)), Dispose!Last(left) \in Resources,
         NEW error \in Seq(Resources), NEW below \in Seq(Frames), Distinct(below),
         \A f \in MethodFrames : In(below, f) => f.s # s,
         NEW x, NEW fs, NEW lh, Calls(x, s, left, error, below, fs, lg, lh)
  PROVE  /\ fs \in Seq(Frames) /\ Distinct(fs) /\ \A f : In(fs, f) <=> f = x \/ In(below, f)
         /\ x \in MethodFrames /\ x.s = s /\ x.error = error /\ Waiting(x, ow, lh)
         /\ lh \in Seq(Resources) /\ Log(ow, lh)
         /\ \A t \in Stacks, m \in Nat : t # s /\ Down(ow, lg, t, m) => Down(ow, lh, t, m)
<1>1. ow[s] \in Seq(Things)
  OBVIOUS
<1>2. /\ Dispose!Front(left) \in Seq(Things) /\ Len(Dispose!Front(left)) = Len(left) - 1
      /\ Rest(Dispose!Front(left), ow[s])
      /\ Dispose!Last(left) = ow[s][Len(left)]
      /\ Len(left) \in 1..Len(ow[s])
  BY <1>1, TakeLast
<1>3. /\ x \in MethodFrames /\ x.s = s /\ x.error = error /\ x.kind = "method"
      /\ x.left = Dispose!Front(left) /\ x.r = Dispose!Last(left)
  BY <1>2 DEF Dispose!Method, MethodFrames, Calls
<1>4. /\ lh \in Seq(Resources) /\ Log(ow, lh) /\ Down(ow, lh, s, Len(Dispose!Front(left)))
      /\ \A t \in Stacks, m \in Nat : t # s /\ Down(ow, lg, t, m) => Down(ow, lh, t, m)
  BY CallLast DEF Calls
<1>5. Waiting(x, ow, lh)
  <2>1. Len(x.left) < Len(ow[s]) /\ Len(x.left) + 1 = Len(left)
    BY <1>1, <1>2, <1>3
  <2> QED
    BY <1>2, <1>3, <1>4, <2>1 DEF Waiting
<1>6. \A f \in Frames : In(below, f) => ~Same(f, x)
  BY <1>3 DEF Same, Frames, UseFrames
<1>7. fs \in Seq(Frames) /\ Distinct(fs) /\ \A f : In(fs, f) <=> f = x \/ In(below, f)
  <2>1. x \in Frames
    BY <1>3 DEF Frames
  <2>2. Pushed(fs, x, below)
    BY DEF Calls
  <2> QED
    BY <1>6, <2>1, <2>2, Push
<1> QED
  BY <1>3, <1>4, <1>5, <1>7

-----------------------------------------------------------------------------
(* The actions. *)

\* A disposal by calls goes on: what DisposeFrom does to the frames and the log.
GoesOn(s, left, error, below, fs, lg, lh) ==
  IF left = <<>> THEN fs = below /\ lh = lg
  ELSE \E x : Calls(x, s, left, error, below, fs, lg, lh)

LEMMA DisposeGoesOn ==
  ASSUME NEW ow \in [Stacks -> Seq(Things)], NEW lg \in Seq(Resources), Apart(ow), Log(ow, lg),
         NEW s \in Stacks, \A i \in 1..Len(ow[s]) : ow[s][i] # Nothing,
         NEW left \in Seq(Things), Rest(left, ow[s]), Down(ow, lg, s, Len(left)),
         NEW error \in Seq(Resources), NEW below \in Seq(Frames), Distinct(below),
         \A f \in MethodFrames : In(below, f) => f.s # s,
         NEW fs, NEW lh, GoesOn(s, left, error, below, fs, lg, lh)
  PROVE  /\ fs \in Seq(Frames) /\ Distinct(fs) /\ lh \in Seq(Resources) /\ Log(ow, lh)
         /\ \A f \in Frames : f \notin MethodFrames \/ f.s # s => (In(fs, f) <=> In(below, f))
         /\ \A f \in MethodFrames : In(fs, f) /\ f.s = s => Waiting(f, ow, lh) /\ f.error = error
         /\ (\E f \in MethodFrames : In(fs, f) /\ f.s = s) \/ Down(ow, lh, s, 0)
         /\ \A t \in Stacks, m \in Nat : t # s /\ Down(ow, lg, t, m) => Down(ow, lh, t, m)
<1>1. CASE left = <<>>
  <2>1. fs = below /\ lh = lg
    BY <1>1 DEF GoesOn
  <2>2. Down(ow, lh, s, 0)
    BY <1>1, <2>1
  <2> QED
    BY <2>1, <2>2
<1>2. CASE left # <<>>
  <2>1. PICK x : Calls(x, s, left, error, below, fs, lg, lh)
    BY <1>2 DEF GoesOn
  <2>2. Dispose!Last(left) \in Resources
    <3>1. ow[s] \in Seq(Things)
      OBVIOUS
    <3>2. /\ Dispose!Last(left) = ow[s][Len(left)] /\ Dispose!Last(left) \in Things
          /\ Len(left) \in 1..Len(ow[s])
      BY <1>2, <3>1, TakeLast
    <3> QED
      BY <3>2 DEF Things
  <2>3. /\ fs \in Seq(Frames) /\ Distinct(fs) /\ \A f : In(fs, f) <=> f = x \/ In(below, f)
        /\ x \in MethodFrames /\ x.s = s /\ x.error = error /\ Waiting(x, ow, lh)
        /\ lh \in Seq(Resources) /\ Log(ow, lh)
        /\ \A t \in Stacks, m \in Nat : t # s /\ Down(ow, lg, t, m) => Down(ow, lh, t, m)
    BY <1>2, <2>1, <2>2, CallPush
  <2> QED
    BY <2>3
<1> QED
  BY <1>1, <1>2

LEMMA DisposeStarts == Dispose!Init => DisposeInv
<1> SUFFICES ASSUME Dispose!Init PROVE DisposeInv
  OBVIOUS
<1>1. DisposeTypes
  <2>1. made \subseteq Stacks
    BY ControlAssumption DEF ControlAssumption, Dispose!StacksAssumption, Dispose!Init
  <2>2. Dispose!Idle \in Links
    BY DEF Dispose!Idle, Links
  <2> QED
    BY <2>1, <2>2 DEF Dispose!Init, DisposeTypes
<1>2. /\ \A s \in Stacks : owed[s] = <<>> /\ list[s] = <<>> /\ ~disposed[s] /\ failed[s] = <<>>
      /\ \A s \in Stacks : chain[s].st = "none"
      /\ frames = <<>> /\ log = <<>>
  BY DEF Dispose!Init, Dispose!Idle
<1>3. Len(<<>>) = 0 /\ \A f : ~In(frames, f)
  BY <1>2 DEF In
<1>4. Places
  <2>1. \A s \in Stacks : Len(Here[s]) = 0
    BY <1>2, <1>3 DEF Here
  <2> QED
    BY <1>1, <1>2, <1>3, <2>1 DEF Places, DisposeTypes, Apart, NoNull, Holds
<1>5. Called
  BY <1>2, <1>3 DEF Called, Distinct, Log, Once, After, Owed, Stage
<1> QED
  BY <1>1, <1>4, <1>5 DEF DisposeInv

\* What holds of Here.
LEMMA HereIs ==
  ASSUME DisposeTypes, Called
  PROVE  /\ Here \in [Stacks -> Seq(Things)]
         /\ Apart(Here) => Apart(owed)
         /\ \A s \in Stacks : Here[s] = IF disposed[s] THEN owed[s] ELSE list[s]
         /\ \A s \in Stacks : ~disposed[s] => owed[s] = <<>>
<1>1. /\ Here \in [Stacks -> Seq(Things)]
      /\ \A s \in Stacks : Here[s] = IF disposed[s] THEN owed[s] ELSE list[s]
  BY DEF Here, DisposeTypes
<1>2. \A s \in Stacks : ~disposed[s] => owed[s] = <<>>
  BY DEF Called, Stage
<1>3. \A s \in Stacks : \A i \in 1..Len(owed[s]) : disposed[s]
  <2>1. Len(<<>>) = 0
    OBVIOUS
  <2> QED
    BY <1>2, <2>1
<1> QED
  BY <1>1, <1>2, <1>3 DEF Apart

LEMMA AddStep ==
  ASSUME DisposeInv, NEW s \in Stacks, NEW r \in Things, Dispose!Add(s, r)
  PROVE  DisposeInv'
<1> USE DEF Dispose!Add, Dispose!Open
<1>0. DisposeTypes /\ Places /\ Called
  BY DEF DisposeInv
<1>1. DisposeTypes'
  BY <1>0 DEF DisposeTypes
<1>2. Called'
  BY <1>0 DEF Called, Stage, Link, Stops, Stopped, Waiting
<1>3. /\ Here \in [Stacks -> Seq(Things)] /\ Here[s] = list[s]
      /\ Here' = [Here EXCEPT ![s] = Append(Here[s], r)]
  BY <1>0, HereIs DEF Here, DisposeTypes
<1>4. ~Holds(Here, r)
  BY <1>0 DEF Places
<1>5. Apart(Here') /\ NoNull(Here') /\ \A x : Holds(Here', x) => Holds(Here, x) \/ x = r
  <2>1. Apart(Here) /\ NoNull(Here) /\ (r = Nothing => s \in AsyncStacks)
    BY <1>0 DEF Places
  <2>2. Added(Here', Here, s, r)
    BY <1>3 DEF Added
  <2>3. Here \in [Stacks -> Seq(Things)]
    BY <1>3
  <2> HIDE DEF Dispose!Add, Dispose!Open
  <2> QED
    BY <1>4, <2>1, <2>2, <2>3, Adding
<1>6. Places'
  BY <1>0, <1>5 DEF Places
<1> QED
  BY <1>1, <1>2, <1>6 DEF DisposeInv

LEMMA UseStep ==
  ASSUME DisposeInv, NEW s \in Stacks, NEW r \in Resources, Dispose!Use(s, r)
  PROVE  DisposeInv'
<1> USE DEF Dispose!Use, Dispose!Open
<1>0. DisposeTypes /\ Places /\ Called
  BY DEF DisposeInv
<1> DEFINE x == [kind |-> "use", s |-> s, r |-> r]
<1>1. x \in UseFrames /\ x \in Frames /\ x.r = r /\ x.kind = "use" /\ frames' = <<x>> \o frames
  BY DEF UseFrames, Frames
<1> HIDE DEF x
<1>2. \A f \in Frames : In(frames, f) => ~Same(f, x)
  <2> SUFFICES ASSUME NEW f \in Frames, In(frames, f), Same(f, x) PROVE FALSE
    OBVIOUS
  <2>1. f \in UseFrames /\ f.r = r
    BY <1>1 DEF Same, Frames, UseFrames, MethodFrames
  <2> QED
    BY <1>0, <2>1 DEF Places
<1>3. frames' \in Seq(Frames) /\ Distinct(frames') /\ \A f : In(frames', f) <=> f = x \/ In(frames, f)
  BY <1>0, <1>1, <1>2, Push DEF DisposeTypes, Called, Pushed
<1>4. DisposeTypes'
  BY <1>0, <1>3 DEF DisposeTypes, Things
<1>5. \A f \in MethodFrames : In(frames', f) <=> In(frames, f)
  BY <1>1, <1>3 DEF MethodFrames
<1>6. ASSUME NEW t \in Stacks PROVE Stage(t)'
  BY <1>0, <1>5, StageKept DEF Called
<1>7. Called'
  BY <1>0, <1>3, <1>6 DEF Called
<1>8. Places'
  <2>1. Here' = Here
    BY DEF Here
  <2>2. ~Holds(Here, r) /\ r \in Things
    BY <1>0 DEF Places, Things
  <2> QED
    BY <1>0, <1>1, <1>3, <2>1, <2>2 DEF Places
<1> QED
  BY <1>4, <1>7, <1>8 DEF DisposeInv

LEMMA UseReturnsStep ==
  ASSUME DisposeInv, NEW ok \in BOOLEAN, Dispose!UseReturns(ok)
  PROVE  DisposeInv'
<1> USE DEF Dispose!UseReturns
<1>0. DisposeTypes /\ Places /\ Called
  BY DEF DisposeInv
<1> DEFINE x == frames[1]
<1>1. /\ frames' \in Seq(Frames) /\ Distinct(frames') /\ In(frames, x)
      /\ \A f : In(frames, f) <=> f = x \/ In(frames', f)
      /\ \A f : In(frames', f) => ~Same(f, x)
      /\ x \in Frames /\ x.kind = "use"
  BY <1>0, Pop DEF DisposeTypes, Called
<1>2. x \in UseFrames /\ x.s \in Stacks /\ x.r \in Resources
  BY <1>1 DEF Frames, UseFrames, MethodFrames
<1>3. list' = IF ok THEN [list EXCEPT ![x.s] = Append(@, x.r)] ELSE list
  OBVIOUS
<1> HIDE DEF x
<1>4. DisposeTypes'
  <2>1. list' \in [Stacks -> Seq(Things)]
    <3>1. list[x.s] \in Seq(Things) /\ x.r \in Things
      BY <1>0, <1>2 DEF DisposeTypes, Things
    <3>2. Append(list[x.s], x.r) \in Seq(Things)
      BY <3>1
    <3> QED
      BY <1>0, <1>3, <3>2 DEF DisposeTypes
  <2> QED
    BY <1>0, <1>1, <2>1 DEF DisposeTypes
<1>5. \A f \in MethodFrames : In(frames', f) <=> In(frames, f)
  BY <1>1, <1>2 DEF MethodFrames
<1>6. ASSUME NEW t \in Stacks PROVE Stage(t)'
  BY <1>0, <1>5, StageKept DEF Called
<1>7. Called'
  BY <1>0, <1>1, <1>6 DEF Called
<1>8. Places'
  <2>1. CASE Here' = Here
    BY <1>0, <1>1, <2>1, PlacesKept DEF Places
  <2>2. CASE Here' # Here
    <3>1. Here \in [Stacks -> Seq(Things)] /\ \A t \in Stacks : ~disposed[t] => Here[t] = list[t]
      BY <1>0, HereIs
    <3>2. ok /\ ~disposed[x.s] /\ Here' = [Here EXCEPT ![x.s] = Append(Here[x.s], x.r)]
      <4>1. ok /\ ~disposed[x.s]
        BY <1>0, <1>2, <1>3, <2>2 DEF Here, DisposeTypes
      <4> QED
        BY <1>0, <1>2, <1>3, <4>1 DEF Here, DisposeTypes
    <3>3. ~Holds(Here, x.r) /\ x.r \in Things /\ x.r # Nothing
      BY <1>0, <1>1, <1>2, NoThing DEF Places, Things
    <3>4. Apart(Here') /\ NoNull(Here') /\ \A y : Holds(Here', y) => Holds(Here, y) \/ y = x.r
      <4>1. Apart(Here) /\ NoNull(Here)
        BY <1>0 DEF Places
      <4> QED
        <5>1. Added(Here', Here, x.s, x.r)
          BY <3>2 DEF Added
        <5> QED
          BY <1>2, <3>1, <3>3, <4>1, <5>1, Adding
    <3>5. \A f \in UseFrames : In(frames', f) => In(frames, f) /\ f.r # x.r
      BY <1>1, <1>2 DEF Same, UseFrames
    <3> QED
      BY <1>0, <1>1, <1>2, <3>4, <3>5 DEF Places
  <2> QED
    BY <2>1, <2>2
<1> QED
  BY <1>4, <1>7, <1>8 DEF DisposeInv

LEMMA MoveStep ==
  ASSUME DisposeInv, NEW s \in Stacks, NEW t \in Stacks, Dispose!Move(s, t)
  PROVE  DisposeInv'
<1> USE DEF Dispose!Move, Dispose!Open
<1>0. DisposeTypes /\ Places /\ Called
  BY DEF DisposeInv
<1>1. t # s /\ ~disposed[s] /\ ~disposed[t] /\ (s \in AsyncStacks <=> t \in AsyncStacks)
  BY <1>0 DEF Places
<1>2. DisposeTypes'
  <2>1. list[s] \in Seq(Things) /\ <<>> \in Seq(Things) /\ list \in [Stacks -> Seq(Things)]
    BY <1>0 DEF DisposeTypes
  <2>2. list' \in [Stacks -> Seq(Things)]
    BY <2>1
  <2>3. disposed' \in [Stacks -> BOOLEAN] /\ made' \subseteq Stacks
    BY <1>0 DEF DisposeTypes
  <2> QED
    BY <1>0, <2>2, <2>3 DEF DisposeTypes
<1>3. Stage(s)'
  <2>1. /\ owed[s] = <<>> /\ chain[s].st = "none"
        /\ \A f \in MethodFrames : In(frames, f) => f.s # s
    BY <1>0, <1>1 DEF Called, Stage, Stopped
  <2>2. disposed'[s]
    BY <1>0 DEF DisposeTypes
  <2>3. Down(owed', log', s, 0)
    BY <2>1 DEF Down
  <2> QED
    BY <2>1, <2>2, <2>3 DEF Stage, Link
<1>4. ASSUME NEW u \in Stacks, u # s PROVE Stage(u)'
  BY <1>0, <1>4, StageKept DEF Called, DisposeTypes
<1>5. Called'
  BY <1>0, <1>3, <1>4 DEF Called
<1>6. Moved(Here', Here, s, t) /\ Here \in [Stacks -> Seq(Things)]
  <2>1. /\ Here \in [Stacks -> Seq(Things)] /\ owed[s] = <<>>
        /\ \A u \in Stacks : Here[u] = IF disposed[u] THEN owed[u] ELSE list[u]
    BY <1>0, <1>1, HereIs
  <2>2. \A u \in Stacks : disposed'[u] = (disposed[u] \/ u = s)
    BY <1>0 DEF DisposeTypes
  <2>3. \A u \in Stacks : list'[u] = IF u = s THEN <<>> ELSE IF u = t THEN list[s] ELSE list[u]
    BY <1>0, <1>1 DEF DisposeTypes
  <2>4. Here' = [u \in Stacks |-> IF disposed'[u] THEN owed'[u] ELSE list'[u]]
    BY DEF Here
  <2>5. Here' = [u \in Stacks |-> IF u = s THEN <<>> ELSE IF u = t THEN Here[s] ELSE Here[u]]
    BY <1>1, <2>1, <2>2, <2>3, <2>4
  <2> QED
    BY <1>1, <2>1, <2>5 DEF Moved
<1>7. Places'
  <2>1. Apart(Here) /\ NoNull(Here)
    BY <1>0 DEF Places
  <2>2. Apart(Here') /\ NoNull(Here') /\ \A x : Holds(Here', x) => Holds(Here, x)
    <3> HIDE DEF Dispose!Move, Dispose!Open
    <3> QED
      BY <1>1, <1>6, <2>1, Moving
  <2> QED
    BY <1>0, <1>2, <2>2 DEF Places, DisposeTypes
<1> QED
  BY <1>2, <1>5, <1>7 DEF DisposeInv

\* What a disposal finds.
LEMMA DisposeBegins ==
  ASSUME DisposeInv, NEW s \in Stacks, Dispose!Open(s),
         disposed' = [disposed EXCEPT ![s] = TRUE], Taken(owed', owed, s, list[s]),
         \A t \in Stacks : t # s => list'[t] = list[t], UNCHANGED <<made, used, failed>>
  PROVE  /\ Here' = Here /\ disposed' \in [Stacks -> BOOLEAN] /\ disposed'[s]
         /\ \A t \in Stacks : disposed'[t] => t \in made'
         /\ \A t \in Stacks : t # s => disposed'[t] = disposed[t] /\ owed'[t] = owed[t]
         /\ \A f \in MethodFrames : In(frames, f) => f.s # s
         /\ chain[s].st = "none" /\ failed'[s] = <<>> /\ list[s] \in Seq(Things)
         /\ owed' \in [Stacks -> Seq(Things)] /\ Apart(owed') /\ Log(owed', log)
         /\ Down(owed', log, s, Len(list[s])) /\ Rest(list[s], owed'[s]) /\ owed'[s] = list[s]
         /\ s \notin AsyncStacks => \A i \in 1..Len(owed'[s]) : owed'[s][i] # Nothing
         /\ \A t \in Stacks, m \in Nat : t # s /\ Down(owed, log, t, m) => Down(owed', log, t, m)
<1>0. DisposeTypes /\ Places /\ Called
  BY DEF DisposeInv
<1>1. ~disposed[s] /\ s \in made
  BY DEF Dispose!Open
<1>2. /\ owed[s] = <<>> /\ failed[s] = <<>> /\ chain[s].st = "none"
      /\ \A f \in MethodFrames : In(frames, f) => f.s # s
  BY <1>0, <1>1 DEF Called, Stage, Stopped
<1>3. /\ disposed' \in [Stacks -> BOOLEAN] /\ owed' \in [Stacks -> Seq(Things)] /\ list[s] \in Seq(Things)
      /\ \A t \in Stacks : disposed'[t] = (disposed[t] \/ t = s)
      /\ \A t \in Stacks : owed'[t] = IF t = s THEN list[s] ELSE owed[t]
  BY <1>0 DEF DisposeTypes, Taken
<1>4. \A t \in Stacks : disposed'[t] => t \in made'
  BY <1>0, <1>1, <1>3 DEF Places
<1>5. Here' = Here
  BY <1>1, <1>3 DEF Here
<1>6. Apart(owed')
  <2>1. Here \in [Stacks -> Seq(Things)] /\ Apart(Here)
    BY <1>0, HereIs DEF Places
  <2>2. \A t \in Stacks : \A i \in 1..Len(owed'[t]) : owed'[t] = Here[t]
    <3> SUFFICES ASSUME NEW t \in Stacks, NEW i \in 1..Len(owed'[t]) PROVE owed'[t] = Here[t]
      OBVIOUS
    <3>1. Len(<<>>) = 0
      OBVIOUS
    <3>2. /\ Here[t] = IF disposed[t] THEN owed[t] ELSE list[t]
          /\ ~disposed[t] => owed[t] = <<>>
      BY <1>0, HereIs
    <3> QED
      BY <1>1, <1>3, <3>1, <3>2
  <2> QED
    BY <2>1, <2>2 DEF Apart
<1>7. /\ Log(owed', log) /\ Down(owed', log, s, Len(list[s])) /\ Rest(list[s], owed'[s])
      /\ \A t \in Stacks, m \in Nat : t # s /\ Down(owed, log, t, m) => Down(owed', log, t, m)
  <2>1. owed \in [Stacks -> Seq(Things)] /\ log \in Seq(Resources) /\ Log(owed, log)
    BY <1>0 DEF DisposeTypes, Called
  <2> QED
    BY <1>2, <1>3, <1>6, <2>1, TakeOver
<1>8. s \notin AsyncStacks => \A i \in 1..Len(owed'[s]) : owed'[s][i] # Nothing
  <2>1. Here[s] = list[s] /\ NoNull(Here)
    BY <1>0, <1>1, HereIs DEF Places
  <2> QED
    BY <1>3, <2>1 DEF NoNull
<1> QED
  BY <1>2, <1>3, <1>4, <1>5, <1>6, <1>7, <1>8

LEMMA DisposeSyncStep ==
  ASSUME DisposeInv, NEW s \in Stacks, Dispose!Dispose(s)
  PROVE  DisposeInv'
<1>0. DisposeTypes /\ Places /\ Called
  BY DEF DisposeInv
<1>1. /\ Dispose!Open(s) /\ s \notin AsyncStacks /\ UNCHANGED <<made, chain, used, failed>>
      /\ disposed' = [disposed EXCEPT ![s] = TRUE] /\ owed' = [owed EXCEPT ![s] = list[s]]
      /\ Dispose!DisposeFrom(s, list[s], <<>>, frames)
  BY DEF Dispose!Dispose
<1>2. list' = list \/ list' = [list EXCEPT ![s] = <<>>]
  BY <1>1 DEF Dispose!DisposeFrom
<1>3. list' \in [Stacks -> Seq(Things)] /\ \A t \in Stacks : t # s => list'[t] = list[t]
  <2>1. list \in [Stacks -> Seq(Things)] /\ <<>> \in Seq(Things)
    BY <1>0 DEF DisposeTypes
  <2> QED
    BY <1>2, <2>1
<1>4. /\ Here' = Here /\ disposed' \in [Stacks -> BOOLEAN] /\ disposed'[s]
      /\ \A t \in Stacks : disposed'[t] => t \in made'
      /\ \A t \in Stacks : t # s => disposed'[t] = disposed[t] /\ owed'[t] = owed[t]
      /\ \A f \in MethodFrames : In(frames, f) => f.s # s
      /\ chain[s].st = "none" /\ failed'[s] = <<>> /\ list[s] \in Seq(Things)
      /\ owed' \in [Stacks -> Seq(Things)] /\ Apart(owed') /\ Log(owed', log)
      /\ Down(owed', log, s, Len(list[s])) /\ Rest(list[s], owed'[s])
      /\ \A i \in 1..Len(owed'[s]) : owed'[s][i] # Nothing
      /\ \A t \in Stacks, m \in Nat : t # s /\ Down(owed, log, t, m) => Down(owed', log, t, m)
  BY <1>1, <1>3, DisposeBegins DEF Taken
<1>5. /\ frames' \in Seq(Frames) /\ Distinct(frames') /\ log' \in Seq(Resources) /\ Log(owed', log')
      /\ \A f \in Frames : f \notin MethodFrames \/ f.s # s => (In(frames', f) <=> In(frames, f))
      /\ \A f \in MethodFrames : In(frames', f) /\ f.s = s => Waiting(f, owed', log') /\ f.error = <<>>
      /\ (\E f \in MethodFrames : In(frames', f) /\ f.s = s) \/ Down(owed', log', s, 0)
      /\ \A t \in Stacks, m \in Nat : t # s /\ Down(owed', log, t, m) => Down(owed', log', t, m)
  <2>1. log \in Seq(Resources) /\ frames \in Seq(Frames) /\ Distinct(frames) /\ <<>> \in Seq(Resources)
    BY <1>0 DEF DisposeTypes, Called
  <2>2. GoesOn(s, list[s], <<>>, frames, frames', log, log')
    BY <1>1 DEF Dispose!DisposeFrom, GoesOn, Calls, Pushed
  <2> QED
    BY <1>4, <2>1, <2>2, DisposeGoesOn
<1>6. DisposeTypes'
  BY <1>0, <1>1, <1>3, <1>4, <1>5 DEF DisposeTypes
<1>7. Places'
  <2>1. \A f \in UseFrames : In(frames', f) => In(frames, f)
    BY <1>5 DEF UseFrames, MethodFrames, Frames
  <2> QED
    BY <1>0, <1>1, <1>4, <2>1, PlacesKept
<1>8. Stage(s)'
  <2>1. Stops(s)' \/ Down(owed', log', s, 0)
    BY <1>5 DEF Stops
  <2>2. \A f \in MethodFrames : In(frames', f) /\ f.s = s => Stopped(f)'
    BY <1>1, <1>4, <1>5 DEF Stopped
  <2>3. Link(s)'
    BY <1>1, <1>4, <2>1 DEF Link
  <2> QED
    BY <1>4, <2>2, <2>3 DEF Stage
<1>9. ASSUME NEW t \in Stacks, t # s PROVE Stage(t)'
  <2>1. \A f \in MethodFrames : f.s = t => (In(frames', f) <=> In(frames, f))
    BY <1>5, <1>9 DEF Frames
  <2>2. \A m \in Nat : Down(owed, log, t, m) => Down(owed', log', t, m)
    BY <1>4, <1>5, <1>9
  <2>3. /\ disposed'[t] = disposed[t] /\ owed'[t] = owed[t] /\ failed'[t] = failed[t] /\ chain'[t] = chain[t]
        /\ Stage(t)
    BY <1>0, <1>1, <1>4, <1>9 DEF Called
  <2> QED
    BY <1>0, <2>1, <2>2, <2>3, StageKept
<1> QED
  BY <1>5, <1>6, <1>7, <1>8, <1>9 DEF DisposeInv, Called

LEMMA DisposeAsyncStep ==
  ASSUME DisposeInv, NEW s \in Stacks, Dispose!DisposeAsync(s)
  PROVE  DisposeInv'
<1>0. DisposeTypes /\ Places /\ Called
  BY DEF DisposeInv
<1>1. /\ Dispose!Open(s) /\ UNCHANGED <<made, used, failed>>
      /\ disposed' = [disposed EXCEPT ![s] = TRUE] /\ owed' = [owed EXCEPT ![s] = list[s]]
  BY DEF Dispose!DisposeAsync
<1>2. list' = list \/ list' = [list EXCEPT ![s] = <<>>]
  BY DEF Dispose!DisposeAsync
<1>3. list' \in [Stacks -> Seq(Things)] /\ \A t \in Stacks : t # s => list'[t] = list[t]
  <2>1. list \in [Stacks -> Seq(Things)] /\ <<>> \in Seq(Things)
    BY <1>0 DEF DisposeTypes
  <2> QED
    BY <1>2, <2>1
<1>4. /\ Here' = Here /\ disposed' \in [Stacks -> BOOLEAN] /\ disposed'[s]
      /\ \A t \in Stacks : disposed'[t] => t \in made'
      /\ \A t \in Stacks : t # s => disposed'[t] = disposed[t] /\ owed'[t] = owed[t]
      /\ \A f \in MethodFrames : In(frames, f) => f.s # s
      /\ chain[s].st = "none" /\ failed'[s] = <<>> /\ list[s] \in Seq(Things)
      /\ owed' \in [Stacks -> Seq(Things)] /\ Apart(owed') /\ Log(owed', log)
      /\ Down(owed', log, s, Len(list[s])) /\ Rest(list[s], owed'[s]) /\ owed'[s] = list[s]
      /\ \A t \in Stacks, m \in Nat : t # s /\ Down(owed, log, t, m) => Down(owed', log, t, m)
  BY <1>1, <1>3, DisposeBegins DEF Taken
<1>5. /\ frames \in Seq(Frames) /\ Distinct(frames) /\ log \in Seq(Resources)
      /\ <<>> \in Seq(Resources) /\ <<>> \in Seq(Things) /\ Len(<<>>) = 0
  BY <1>0 DEF DisposeTypes, Called
<1>6. ASSUME NEW t \in Stacks, t # s, chain'[t] = chain[t],
             \A f \in MethodFrames : f.s = t => (In(frames', f) <=> In(frames, f)),
             \A m \in Nat : Down(owed', log, t, m) => Down(owed', log', t, m)
      PROVE  Stage(t)'
  <2>1. /\ disposed'[t] = disposed[t] /\ owed'[t] = owed[t] /\ failed'[t] = failed[t]
        /\ Stage(t)
    BY <1>0, <1>1, <1>4, <1>6 DEF Called
  <2>2. \A m \in Nat : Down(owed, log, t, m) => Down(owed', log', t, m)
    BY <1>4, <1>6
  <2> QED
    BY <1>0, <1>6, <2>1, <2>2, StageKept
<1>7. CASE list[s] = <<>> \/ Dispose!Last(list[s]) = Nothing
  <2> DEFINE left == IF list[s] = <<>> THEN <<>> ELSE Dispose!Front(list[s])
  <2>1. /\ chain' = [chain EXCEPT ![s] = [st |-> "ready", left |-> left, error |-> <<>>]]
        /\ UNCHANGED <<frames, log>>
    BY <1>7 DEF Dispose!DisposeAsync
  <2>2. left \in Seq(Things) /\ Rest(left, owed'[s]) /\ Down(owed', log, s, Len(left))
    <3>1. CASE list[s] = <<>>
      BY <1>4, <1>5, <3>1 DEF Rest
    <3>2. CASE list[s] # <<>>
      <4>1. owed'[s] \in Seq(Things) /\ Dispose!Last(list[s]) = Nothing /\ left = Dispose!Front(list[s])
        BY <1>4, <1>7, <3>2
      <4>2. Dispose!Front(list[s]) \in Seq(Things) /\ Rest(Dispose!Front(list[s]), owed'[s])
        BY <1>4, <3>2, <4>1, TakeLast
      <4>3. Down(owed', log, s, Len(Dispose!Front(list[s])))
        BY <1>4, <3>2, <4>1, SkipLast
      <4> QED
        BY <4>1, <4>2, <4>3
    <3> QED
      BY <3>1, <3>2
  <2> HIDE DEF left
  <2>3. /\ chain' \in [Stacks -> Links] /\ \A t \in Stacks : t # s => chain'[t] = chain[t]
        /\ chain'[s].st = "ready" /\ chain'[s].left = left /\ chain'[s].error = <<>>
    BY <1>0, <1>5, <2>1, <2>2 DEF DisposeTypes, Links
  <2>4. DisposeTypes'
    BY <1>0, <1>1, <1>3, <1>4, <2>1, <2>3 DEF DisposeTypes
  <2>5. Places'
    BY <1>0, <1>1, <1>4, <2>1, PlacesKept
  <2>6. Stage(s)'
    BY <1>1, <1>4, <2>1, <2>2, <2>3 DEF Stage, Link, Stopped
  <2>7. ASSUME NEW t \in Stacks, t # s PROVE Stage(t)'
    BY <1>6, <2>1, <2>3, <2>7
  <2> QED
    BY <1>4, <1>5, <2>1, <2>4, <2>5, <2>6, <2>7 DEF DisposeInv, Called
<1>8. CASE ~(list[s] = <<>> \/ Dispose!Last(list[s]) = Nothing)
  <2> DEFINE x == Dispose!Method(s, Dispose!Last(list[s]), Dispose!Front(list[s]), <<>>)
  <2>1. /\ Calls(x, s, list[s], <<>>, frames, frames', log, log')
        /\ UNCHANGED chain
    BY <1>8 DEF Dispose!DisposeAsync, Calls, Pushed
  <2>2. Dispose!Last(list[s]) \in Resources
    <3>1. owed'[s] \in Seq(Things)
      BY <1>4
    <3>2. Dispose!Last(list[s]) \in Things
      BY <1>4, <1>8, <3>1, TakeLast
    <3> QED
      BY <1>8, <3>2 DEF Things
  <2> HIDE DEF x
  <2>3. /\ frames' \in Seq(Frames) /\ Distinct(frames') /\ \A f : In(frames', f) <=> f = x \/ In(frames, f)
        /\ x \in MethodFrames /\ x.s = s /\ x.error = <<>> /\ Waiting(x, owed', log')
        /\ log' \in Seq(Resources) /\ Log(owed', log')
        /\ \A t \in Stacks, m \in Nat : t # s /\ Down(owed', log, t, m) => Down(owed', log', t, m)
    BY <1>4, <1>5, <1>8, <2>1, <2>2, CallPush
  <2>4. DisposeTypes'
    BY <1>0, <1>1, <1>3, <1>4, <2>1, <2>3 DEF DisposeTypes
  <2>5. Places'
    <3>1. \A f \in UseFrames : In(frames', f) => In(frames, f)
      BY <2>3 DEF UseFrames, MethodFrames
    <3> QED
      BY <1>0, <1>1, <1>4, <3>1, PlacesKept
  <2>6. Stage(s)'
    <3>1. \A f \in MethodFrames : In(frames', f) /\ f.s = s => Stopped(f)'
      BY <1>1, <1>4, <2>1, <2>3 DEF Stopped
    <3>2. Link(s)'
      BY <1>4, <2>1, <2>3 DEF Link, Stops
    <3> QED
      BY <1>4, <3>1, <3>2 DEF Stage
  <2>7. ASSUME NEW t \in Stacks, t # s PROVE Stage(t)'
    <3>1. \A f \in MethodFrames : f.s = t => (In(frames', f) <=> In(frames, f))
      BY <2>3, <2>7
    <3> QED
      BY <1>6, <2>1, <2>3, <2>7, <3>1
  <2> QED
    BY <2>3, <2>4, <2>5, <2>6, <2>7 DEF DisposeInv, Called
<1> QED
  BY <1>7, <1>8

LEMMA MethodReturnsStep ==
  ASSUME DisposeInv, NEW how \in {"done", "promise", "error"}, Dispose!MethodReturns(how)
  PROVE  DisposeInv'
<1>0. DisposeTypes /\ Places /\ Called
  BY DEF DisposeInv
<1>a. PICK x : x = frames[1]
  OBVIOUS
<1>b. PICK s : s = x.s
  OBVIOUS
<1>c. PICK error : error = IF how = "error" THEN <<x.r>> \o x.error ELSE x.error
  OBVIOUS
<1>d. PICK rest : rest = Tail(frames)
  OBVIOUS
<1>1. /\ frames # <<>> /\ x.kind = "method" /\ UNCHANGED <<made, disposed, used, owed>>
      /\ failed' = IF how = "error" THEN [failed EXCEPT ![s] = <<x.r>> \o failed[s]] ELSE failed
  BY <1>a, <1>b DEF Dispose!MethodReturns
<1>2. /\ rest \in Seq(Frames) /\ Distinct(rest) /\ In(frames, x)
      /\ \A f : In(frames, f) <=> f = x \/ In(rest, f)
      /\ \A f : In(rest, f) => ~Same(f, x)
      /\ x \in MethodFrames
  <2>1. frames \in Seq(Frames) /\ Distinct(frames)
    BY <1>0 DEF DisposeTypes, Called
  <2>2. /\ rest \in Seq(Frames) /\ Distinct(rest) /\ In(frames, x)
        /\ \A f : In(frames, f) <=> f = x \/ In(rest, f)
        /\ \A f : In(rest, f) => ~Same(f, x)
        /\ x \in Frames
    BY <1>1, <1>a, <1>d, <2>1, Pop
  <2>3. x \in MethodFrames
    BY <1>1, <2>2 DEF Frames, UseFrames
  <2> QED
    BY <2>2, <2>3
<1>3. s \in Stacks /\ x.r \in Resources /\ x.left \in Seq(Things) /\ x.error \in Seq(Resources)
  BY <1>2, <1>b DEF MethodFrames
<1>4. /\ disposed[s] /\ Waiting(x, owed, log) /\ x.error = failed[s] /\ chain[s].st \in {"none", "calls"}
  BY <1>0, <1>2, <1>3, <1>b DEF Called, Stage, Stopped
<1>5. /\ \A f \in MethodFrames : In(rest, f) => f.s # s
      /\ \A f \in Frames : f # x => (In(rest, f) <=> In(frames, f))
  <2>1. \A f \in MethodFrames : In(rest, f) => f.s # s
    BY <1>1, <1>2, <1>b DEF Same, MethodFrames
  <2> QED
    BY <1>2, <2>1
<1>6. /\ error \in Seq(Resources) /\ failed'[s] = error /\ failed' \in [Stacks -> Seq(Resources)]
      /\ \A t \in Stacks : t # s => failed'[t] = failed[t]
  <2>1. failed \in [Stacks -> Seq(Resources)]
    BY <1>0 DEF DisposeTypes
  <2>2. <<x.r>> \o x.error \in Seq(Resources)
    BY <1>3
  <2> QED
    BY <1>1, <1>3, <1>4, <1>c, <2>1, <2>2
<1>7. Here' = Here \/ ~(\A t \in Stacks : t # s => list'[t] = list[t])
  BY <1>1, <1>4 DEF Here
<1>8. /\ owed \in [Stacks -> Seq(Things)] /\ log \in Seq(Resources) /\ Apart(owed) /\ Log(owed, log)
      /\ owed[s] \in Seq(Things) /\ list \in [Stacks -> Seq(Things)] /\ <<>> \in Seq(Things)
      /\ Rest(x.left, owed[s]) /\ Down(owed, log, s, Len(x.left))
      /\ Len(x.left) < Len(owed[s]) /\ owed[s][Len(x.left) + 1] = x.r
  <2>1. Apart(owed)
    BY <1>0, HereIs DEF Places
  <2> QED
    BY <1>0, <1>3, <1>4, <1>b, <2>1 DEF DisposeTypes, Called, Waiting
<1>9. s \notin AsyncStacks => \A i \in 1..Len(owed[s]) : owed[s][i] # Nothing
  <2>1. Here[s] = owed[s] /\ NoNull(Here)
    BY <1>0, <1>3, <1>4, HereIs DEF Places
  <2> QED
    BY <1>3, <2>1 DEF NoNull
<1>10. CASE s \in AsyncStacks
  <2>1. /\ frames' = rest /\ log' = log
        /\ chain' = [chain EXCEPT ![s] = [st |-> IF how = "promise" THEN "awaits" ELSE "ready",
                                          left |-> x.left, error |-> error]]
        /\ list' = [list EXCEPT ![s] = IF chain[s].st = "none" THEN <<>> ELSE list[s]]
    BY <1>10, <1>a, <1>b, <1>c, <1>d DEF Dispose!MethodReturns
  <2>2. list' \in [Stacks -> Seq(Things)] /\ \A t \in Stacks : t # s => list'[t] = list[t]
    BY <1>3, <1>8, <2>1
  <2>3. /\ chain' \in [Stacks -> Links] /\ \A t \in Stacks : t # s => chain'[t] = chain[t]
        /\ chain'[s].st \in {"awaits", "ready"} /\ chain'[s].left = x.left /\ chain'[s].error = error
    <3>1. [st |-> IF how = "promise" THEN "awaits" ELSE "ready", left |-> x.left, error |-> error] \in Links
      BY <1>3, <1>6 DEF Links
    <3> QED
      BY <1>0, <1>3, <2>1, <3>1 DEF DisposeTypes
  <2>4. DisposeTypes'
    BY <1>0, <1>1, <1>2, <1>6, <2>1, <2>2, <2>3 DEF DisposeTypes
  <2>5. Places'
    <3>1. \A f \in UseFrames : In(frames', f) => In(frames, f)
      BY <1>2, <2>1
    <3>2. disposed' \in [Stacks -> BOOLEAN] /\ \A t \in Stacks : disposed'[t] => t \in made'
      BY <1>0, <1>1 DEF Places
    <3> QED
      BY <1>0, <1>1, <1>7, <2>2, <3>1, <3>2, PlacesKept
  <2>6. Stage(s)'
    <3>1. Link(s)'
      BY <1>1, <1>3, <1>6, <1>8, <2>1, <2>3 DEF Link
    <3>2. \A f \in MethodFrames : In(frames', f) => f.s # s
      BY <1>5, <2>1
    <3> QED
      BY <1>1, <1>4, <3>1, <3>2 DEF Stage
  <2>7. ASSUME NEW t \in Stacks, t # s PROVE Stage(t)'
    <3>1. \A f \in MethodFrames : f.s = t => (In(frames', f) <=> In(frames, f))
      BY <1>2, <1>b, <2>1, <2>7
    <3>2. /\ disposed'[t] = disposed[t] /\ owed'[t] = owed[t] /\ failed'[t] = failed[t]
          /\ chain'[t] = chain[t] /\ Stage(t)
      BY <1>0, <1>1, <1>6, <2>3, <2>7 DEF Called
    <3>3. \A m \in Nat : Down(owed, log, t, m) => Down(owed', log', t, m)
      BY <1>1, <2>1
    <3> QED
      BY <1>0, <3>1, <3>2, <3>3, StageKept
  <2> QED
    BY <1>1, <1>2, <1>8, <2>1, <2>4, <2>5, <2>6, <2>7 DEF DisposeInv, Called
<1>11. CASE s \notin AsyncStacks
  <2>1. GoesOn(s, x.left, error, rest, frames', log, log') /\ chain' = chain
    BY <1>11, <1>a, <1>b, <1>c, <1>d DEF Dispose!MethodReturns, Dispose!DisposeFrom, GoesOn, Calls, Pushed
  <2>2. list' = list \/ list' = [list EXCEPT ![s] = <<>>]
    BY <1>11, <1>a, <1>b, <1>c, <1>d DEF Dispose!MethodReturns, Dispose!DisposeFrom
  <2>3. list' \in [Stacks -> Seq(Things)] /\ \A t \in Stacks : t # s => list'[t] = list[t]
    BY <1>3, <1>8, <2>2
  <2>4. /\ frames' \in Seq(Frames) /\ Distinct(frames') /\ log' \in Seq(Resources) /\ Log(owed, log')
        /\ \A f \in Frames : f \notin MethodFrames \/ f.s # s => (In(frames', f) <=> In(rest, f))
        /\ \A f \in MethodFrames : In(frames', f) /\ f.s = s => Waiting(f, owed, log') /\ f.error = error
        /\ (\E f \in MethodFrames : In(frames', f) /\ f.s = s) \/ Down(owed, log', s, 0)
        /\ \A t \in Stacks, m \in Nat : t # s /\ Down(owed, log, t, m) => Down(owed, log', t, m)
    <3>1. error \in Seq(Resources)
      BY <1>6
    <3>2. \A f \in MethodFrames : In(rest, f) => f.s # s
      BY <1>5
    <3>3. \A i \in 1..Len(owed[s]) : owed[s][i] # Nothing
      BY <1>9, <1>11
    <3>4. GoesOn(s, x.left, error, rest, frames', log, log')
      BY <2>1
    <3>5. rest \in Seq(Frames) /\ Distinct(rest)
      BY <1>2
    <3> QED
      BY <1>3, <1>8, <3>1, <3>2, <3>3, <3>4, <3>5, DisposeGoesOn
  <2>5. DisposeTypes'
    BY <1>0, <1>1, <1>6, <2>1, <2>3, <2>4 DEF DisposeTypes
  <2>6. Places'
    <3>1. \A f \in UseFrames : In(frames', f) => In(frames, f)
      BY <1>2, <2>4 DEF UseFrames, MethodFrames, Frames
    <3>2. disposed' \in [Stacks -> BOOLEAN] /\ \A t \in Stacks : disposed'[t] => t \in made'
      BY <1>0, <1>1 DEF Places
    <3> QED
      BY <1>0, <1>1, <1>7, <2>3, <3>1, <3>2, PlacesKept
  <2>7. Stage(s)'
    <3>1. Stops(s)' \/ Down(owed', log', s, 0)
      BY <1>1, <2>4 DEF Stops
    <3>2. \A f \in MethodFrames : In(frames', f) /\ f.s = s => Stopped(f)'
      BY <1>1, <1>4, <1>6, <2>1, <2>4 DEF Stopped
    <3>3. Link(s)'
      BY <1>1, <1>4, <2>1, <3>1 DEF Link
    <3> QED
      BY <1>1, <1>4, <3>2, <3>3 DEF Stage
  <2>8. ASSUME NEW t \in Stacks, t # s PROVE Stage(t)'
    <3>1. \A f \in MethodFrames : f.s = t => (In(frames', f) <=> In(frames, f))
      BY <1>2, <1>b, <2>4, <2>8 DEF Frames
    <3>2. /\ disposed'[t] = disposed[t] /\ owed'[t] = owed[t] /\ failed'[t] = failed[t]
          /\ chain'[t] = chain[t] /\ Stage(t)
      BY <1>0, <1>1, <1>6, <2>1, <2>8 DEF Called
    <3>3. \A m \in Nat : Down(owed, log, t, m) => Down(owed', log', t, m)
      BY <1>1, <2>4, <2>8
    <3> QED
      BY <1>0, <3>1, <3>2, <3>3, StageKept
  <2> QED
    BY <1>1, <2>4, <2>5, <2>6, <2>7, <2>8 DEF DisposeInv, Called
<1> QED
  BY <1>10, <1>11

LEMMA AwaitEndsStep ==
  ASSUME DisposeInv, NEW s \in Stacks, NEW ok \in BOOLEAN, Dispose!AwaitEnds(s, ok)
  PROVE  DisposeInv'
<1>0. DisposeTypes /\ Places /\ Called
  BY DEF DisposeInv
<1>1. /\ frames = <<>> /\ chain[s].st = "awaits"
      /\ UNCHANGED <<made, disposed, list, frames, used, log, owed>>
  BY DEF Dispose!AwaitEnds
<1> DEFINE r == owed[s][Len(chain[s].left) + 1]
           error == IF ok THEN chain[s].error ELSE <<r>> \o chain[s].error
<1>2. /\ chain' = [chain EXCEPT ![s].st = "ready", ![s].error = error]
      /\ failed' = IF ok THEN failed ELSE [failed EXCEPT ![s] = <<r>> \o failed[s]]
  BY DEF Dispose!AwaitEnds
<1>3. disposed[s] /\ Link(s)
  BY <1>0, <1>1 DEF Called, Stage
<1>4. /\ Rest(chain[s].left, owed[s]) /\ Down(owed, log, s, Len(chain[s].left))
      /\ r \in Resources /\ chain[s].error = failed[s]
  BY <1>1, <1>3 DEF Link
<1> HIDE DEF r
<1>5. chain \in [Stacks -> Links] /\ failed \in [Stacks -> Seq(Resources)]
  BY <1>0 DEF DisposeTypes
<1>6. error \in Seq(Resources)
  BY <1>4, <1>5 DEF Links
<1>7. /\ failed' \in [Stacks -> Seq(Resources)] /\ failed'[s] = error
      /\ \A t \in Stacks : t # s => failed'[t] = failed[t]
  BY <1>2, <1>4, <1>5, <1>6
<1> HIDE DEF error
<1>8. /\ chain' \in [Stacks -> Links] /\ \A t \in Stacks : t # s => chain'[t] = chain[t]
      /\ chain'[s].st = "ready" /\ chain'[s].left = chain[s].left /\ chain'[s].error = error
  BY <1>2, <1>5, <1>6 DEF Links
<1>9. DisposeTypes'
  BY <1>0, <1>1, <1>7, <1>8 DEF DisposeTypes
<1>10. Places'
  <2>1. Here' = Here
    BY <1>1 DEF Here
  <2> QED
    BY <1>0, <1>1, <2>1, PlacesKept DEF Places
<1>11. Stage(s)'
  <2>1. \A f : ~In(frames', f)
    BY <1>1 DEF In
  <2> QED
    BY <1>1, <1>3, <1>4, <1>7, <1>8, <2>1 DEF Stage, Link
<1>12. ASSUME NEW t \in Stacks, t # s PROVE Stage(t)'
  BY <1>0, <1>1, <1>7, <1>8, <1>12, StageKept DEF Called
<1> QED
  BY <1>0, <1>1, <1>9, <1>10, <1>11, <1>12 DEF DisposeInv, Called

LEMMA JobStep ==
  ASSUME DisposeInv, NEW s \in Stacks, Dispose!DisposeStep(s)
  PROVE  DisposeInv'
<1>0. DisposeTypes /\ Places /\ Called
  BY DEF DisposeInv
<1>a. PICK left : left = chain[s].left
  OBVIOUS
<1>b. PICK error : error = chain[s].error
  OBVIOUS
<1>1. /\ frames = <<>> /\ chain[s].st = "ready"
      /\ UNCHANGED <<made, disposed, list, used, failed, owed>>
  BY DEF Dispose!DisposeStep
<1>2. disposed[s] /\ Link(s)
  BY <1>0, <1>1 DEF Called, Stage
<1>3. /\ owed \in [Stacks -> Seq(Things)] /\ log \in Seq(Resources) /\ Apart(owed) /\ Log(owed, log)
      /\ Rest(left, owed[s]) /\ Down(owed, log, s, Len(left)) /\ error = failed[s]
      /\ left \in Seq(Things) /\ error \in Seq(Resources) /\ owed[s] \in Seq(Things)
      /\ frames \in Seq(Frames) /\ Distinct(frames) /\ chain \in [Stacks -> Links]
  <2>1. Apart(owed)
    BY <1>0, HereIs DEF Places
  <2>2. chain \in [Stacks -> Links]
    BY <1>0 DEF DisposeTypes
  <2>3. left \in Seq(Things) /\ error \in Seq(Resources)
    BY <1>a, <1>b, <2>2 DEF Links
  <2> QED
    BY <1>0, <1>1, <1>2, <1>a, <1>b, <2>1, <2>2, <2>3 DEF DisposeTypes, Called, Link
<1>4. \A f : ~In(frames, f)
  BY <1>1 DEF In
<1>5. Here' = Here
  BY <1>1 DEF Here
<1>6. ASSUME NEW t \in Stacks, t # s, chain'[t] = chain[t],
             \A f \in MethodFrames : f.s = t => ~In(frames', f),
             \A m \in Nat : Down(owed, log, t, m) => Down(owed, log', t, m)
      PROVE  Stage(t)'
  BY <1>0, <1>1, <1>4, <1>6, StageKept DEF Called
<1>7. CASE left = <<>> \/ Dispose!Last(left) = Nothing
  <2>1. UNCHANGED <<frames, log>>
    BY <1>7, <1>a, <1>b DEF Dispose!DisposeStep
  <2>2. /\ chain' \in [Stacks -> Links] /\ \A t \in Stacks : t # s => chain'[t] = chain[t]
        /\ Link(s)'
    <3>1. CASE left = <<>>
      <4>1. chain' = [chain EXCEPT ![s].st = "settled"]
        BY <3>1, <1>a, <1>b DEF Dispose!DisposeStep
      <4>2. /\ chain' \in [Stacks -> Links] /\ \A t \in Stacks : t # s => chain'[t] = chain[t]
            /\ chain'[s].st = "settled" /\ chain'[s].error = error
        BY <1>3, <1>b, <4>1 DEF Links
      <4>3. Down(owed, log, s, 0)
        BY <1>3, <3>1
      <4> QED
        BY <1>1, <1>3, <2>1, <4>2, <4>3 DEF Link
    <3>2. CASE left # <<>>
      <4>1. chain' = [chain EXCEPT ![s].left = Dispose!Front(left)] /\ Dispose!Last(left) = Nothing
        BY <1>7, <3>2, <1>a, <1>b DEF Dispose!DisposeStep
      <4>2. Dispose!Front(left) \in Seq(Things) /\ Rest(Dispose!Front(left), owed[s])
        BY <1>3, <3>2, TakeLast
      <4>3. Down(owed, log, s, Len(Dispose!Front(left)))
        BY <1>3, <3>2, <4>1, SkipLast
      <4>4. /\ chain' \in [Stacks -> Links] /\ \A t \in Stacks : t # s => chain'[t] = chain[t]
            /\ chain'[s].st = "ready" /\ chain'[s].left = Dispose!Front(left) /\ chain'[s].error = error
        BY <1>1, <1>3, <1>b, <4>1, <4>2 DEF Links
      <4> QED
        BY <1>1, <1>3, <2>1, <4>2, <4>3, <4>4 DEF Link
    <3> QED
      BY <3>1, <3>2
  <2>3. DisposeTypes'
    BY <1>0, <1>1, <2>1, <2>2 DEF DisposeTypes
  <2>4. Places'
    BY <1>0, <1>1, <1>5, <2>1, PlacesKept DEF Places
  <2>5. Stage(s)'
    BY <1>1, <1>2, <1>4, <2>1, <2>2 DEF Stage, In
  <2>6. ASSUME NEW t \in Stacks, t # s PROVE Stage(t)'
    BY <1>4, <1>6, <2>1, <2>2, <2>6
  <2> QED
    BY <1>1, <1>3, <2>1, <2>3, <2>4, <2>5, <2>6 DEF DisposeInv, Called
<1>8. CASE ~(left = <<>> \/ Dispose!Last(left) = Nothing)
  <2> DEFINE x == Dispose!Method(s, Dispose!Last(left), Dispose!Front(left), error)
  <2>1. /\ frames' = <<x>> /\ log' = Append(log, Dispose!Last(left))
        /\ chain' = [chain EXCEPT ![s].st = "calls"]
    BY <1>8, <1>a, <1>b DEF Dispose!DisposeStep
  <2>2. Calls(x, s, left, error, frames, frames', log, log')
    BY <1>1, <2>1 DEF Calls, Pushed
  <2>3. Dispose!Last(left) \in Resources
    <3>1. Dispose!Last(left) \in Things
      BY <1>3, <1>8, TakeLast
    <3> QED
      BY <1>8, <3>1 DEF Things
  <2> HIDE DEF x
  <2>4. /\ frames' \in Seq(Frames) /\ Distinct(frames') /\ \A f : In(frames', f) <=> f = x \/ In(frames, f)
        /\ x \in MethodFrames /\ x.s = s /\ x.error = error /\ Waiting(x, owed, log')
        /\ log' \in Seq(Resources) /\ Log(owed, log')
        /\ \A t \in Stacks, m \in Nat : t # s /\ Down(owed, log, t, m) => Down(owed, log', t, m)
    <3>1. /\ owed \in [Stacks -> Seq(Things)] /\ log \in Seq(Resources) /\ Apart(owed) /\ Log(owed, log)
          /\ Rest(left, owed[s]) /\ Down(owed, log, s, Len(left))
          /\ left \in Seq(Things) /\ error \in Seq(Resources) /\ left # <<>>
          /\ frames \in Seq(Frames) /\ Distinct(frames)
      BY <1>3, <1>8
    <3>2. \A f \in MethodFrames : In(frames, f) => f.s # s
      BY <1>4
    <3> QED
      BY <2>2, <2>3, <3>1, <3>2, CallPush
  <2>5. /\ chain' \in [Stacks -> Links] /\ \A t \in Stacks : t # s => chain'[t] = chain[t]
        /\ chain'[s].st = "calls"
    BY <1>3, <2>1 DEF Links
  <2>6. DisposeTypes'
    BY <1>0, <1>1, <2>4, <2>5 DEF DisposeTypes
  <2>7. Places'
    <3>1. \A f \in UseFrames : In(frames', f) => In(frames, f)
      BY <2>4 DEF UseFrames, MethodFrames
    <3>2. disposed' \in [Stacks -> BOOLEAN] /\ \A t \in Stacks : disposed'[t] => t \in made'
      BY <1>0, <1>1 DEF Places
    <3> QED
      BY <1>0, <1>1, <1>5, <3>1, <3>2, PlacesKept
  <2>8. Stage(s)'
    <3>1. \A f \in MethodFrames : In(frames', f) /\ f.s = s => Stopped(f)'
      BY <1>1, <1>2, <1>3, <1>4, <2>4, <2>5 DEF Stopped
    <3>2. Link(s)'
      BY <2>4, <2>5 DEF Link, Stops
    <3> QED
      BY <1>1, <1>2, <3>1, <3>2 DEF Stage
  <2>9. ASSUME NEW t \in Stacks, t # s PROVE Stage(t)'
    <3>1. \A f \in MethodFrames : f.s = t => ~In(frames', f)
      BY <1>4, <2>4, <2>9
    <3> QED
      BY <1>6, <2>4, <2>5, <2>9, <3>1
  <2> QED
    BY <1>1, <2>4, <2>6, <2>7, <2>8, <2>9 DEF DisposeInv, Called
<1> QED
  BY <1>7, <1>8

LEMMA DisposeNext == DisposeInv /\ [Dispose!Next]_disposeVars => DisposeInv'
<1> SUFFICES ASSUME DisposeInv, [Dispose!Next]_disposeVars PROVE DisposeInv'
  OBVIOUS
<1>1. CASE UNCHANGED disposeVars
  BY <1>1 DEF disposeVars, DisposeInv, DisposeTypes, Places, Here, Called, Stage, Link, Stops, Stopped
<1>2. CASE Dispose!Next
  BY <1>2, AddStep, UseStep, UseReturnsStep, MoveStep, DisposeSyncStep, DisposeAsyncStep, JobStep,
     MethodReturnsStep, AwaitEndsStep DEF Dispose!Next, Things
<1> QED
  BY <1>1, <1>2

\* The methods of one stack are called in the reverse order of the addition of the
\* resources, each once, and all of them have been when its disposal ends: whatever they do,
\* throw, return promises that are rejected, move or dispose of other stacks; and the error a
\* disposal reports holds every failure.
THEOREM AllDisposed == Spec => []AllDisposedOnce
<1> DEFINE I == component = "dispose" => DisposeInv
<1>1. Init => I
  BY DisposeStarts DEF Init, disposeInit
<1>2. I /\ [Next]_vars => I'
  BY DisposeNext DEF Next, vars, disposeNext, disposeVars
<1>3. I => AllDisposedOnce
  <2> SUFFICES ASSUME DisposeTypes, Places, Called PROVE Dispose!AllDisposedOnce /\ Dispose!ErrorsKept
    BY DEF AllDisposedOnce, DisposeInv
  <2>1. Once(log) /\ After(owed, log) /\ Owed(owed, log) /\ \A s \in Stacks : Stage(s)
    BY DEF Called, Log
  <2>2. /\ log \in Seq(Resources) /\ DOMAIN log = 1..Len(log)
        /\ \A s \in Stacks : DOMAIN owed[s] = 1..Len(owed[s])
        /\ \A a \in 1..Len(log) : log[a] \in Resources
    BY DEF DisposeTypes
  <2>3. \A i \in DOMAIN frames : frames[i].kind = "method" =>
          frames[i] \in MethodFrames /\ Stopped(frames[i])
    <3> SUFFICES ASSUME NEW i \in DOMAIN frames, frames[i].kind = "method"
                 PROVE  frames[i] \in MethodFrames /\ Stopped(frames[i])
      OBVIOUS
    <3>1. DOMAIN frames = 1..Len(frames) /\ frames[i] \in Frames
      BY DEF DisposeTypes
    <3>2. frames[i] \in MethodFrames /\ In(frames, frames[i])
      BY <3>1 DEF Frames, UseFrames, In
    <3>3. frames[i].s \in Stacks
      BY <3>2 DEF MethodFrames
    <3> QED
      BY <2>1, <3>2, <3>3 DEF Stage
  <2>4. Dispose!ErrorsKept
    <3>1. \A s \in AsyncStacks : s \in Stacks
      BY ControlAssumption DEF ControlAssumption, Dispose!StacksAssumption
    <3>2. ASSUME NEW s \in Stacks, chain[s].st \in {"awaits", "ready", "settled"}
          PROVE  chain[s].error = failed[s]
      BY <2>1, <3>2 DEF Stage, Link
    <3> QED
      BY <2>3, <3>1, <3>2 DEF Dispose!ErrorsKept, Stopped
  <2>5. ASSUME NEW s \in Stacks, disposed[s], ~Dispose!Disposing(s), NEW i \in DOMAIN owed[s]
        PROVE  owed[s][i] = Nothing \/ Dispose!Called(owed[s][i])
    <3>1. chain[s].st \in {"none", "calls", "settled"}
      BY <2>5 DEF Dispose!Disposing, DisposeTypes, Links
    <3>2. ~Stops(s)
      <4> SUFFICES ASSUME NEW f \in MethodFrames, In(frames, f), f.s = s PROVE FALSE
        BY DEF Stops
      <4>1. PICK a \in 1..Len(frames) : frames[a] = f
        BY DEF In
      <4>2. a \in DOMAIN frames /\ frames[a].kind = "method"
        BY <4>1 DEF MethodFrames, DisposeTypes
      <4> QED
        BY <2>5, <4>1, <4>2 DEF Dispose!Disposing
    <3>3. Down(owed, log, s, 0)
      BY <2>1, <2>5, <3>1, <3>2 DEF Stage, Link
    <3> QED
      BY <2>2, <2>5, <3>3 DEF Down, Has, Dispose!Called
  <2>6. ~Dispose!Called(Nothing)
    BY <2>2, NoThing DEF Dispose!Called
  <2>7. \A a, b \in DOMAIN log : log[a] = log[b] => a = b
    BY <2>1, <2>2 DEF Once
  <2>8. \A s \in Stacks : \A i, j \in DOMAIN owed[s] : i < j /\ owed[s][j] # Nothing =>
          \A a \in DOMAIN log : log[a] = owed[s][i] => \E b \in 1..(a - 1) : log[b] = owed[s][j]
    BY <2>1, <2>2 DEF After
  <2> QED
    BY <2>4, <2>5, <2>6, <2>7, <2>8 DEF Dispose!AllDisposedOnce
<1> QED
  BY <1>1, <1>2, <1>3, PTL DEF Spec

==============================================================================
