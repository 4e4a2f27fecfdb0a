---------------------------- MODULE DirectProofs ----------------------------
(***************************************************************************)
(* Proofs about the receive loops of direct calls (DirectApi), for any     *)
(* number of contexts, calls and host calls.                               *)
(***************************************************************************)
EXTENDS EngineControl, SequenceTheorems, FiniteSetTheorems, WellFoundedInduction, TLAPS

Msgs == [kind : {"result", "callback", "async"}, ref : 1..MaxCalls, id : Nat, out : Direct!Results]
Waits == [ctx : Contexts, ref : 1..MaxCalls, serving : Nat]
Keys == [ctx : Contexts, ref : Nat, id : Nat]
Threads ==
  [state : {"idle", "running", "waiting", "awaiting"}, ref : Nat, asked : Nat,
   pending : SUBSET Nat, poisoned : BOOLEAN]

LEMMA CallsBound == MaxCalls \in Nat
BY ControlAssumption DEF ControlAssumption, Direct!BoundsAssumption

-----------------------------------------------------------------------------
(* The mailbox. *)

In(mb, m) == \E i \in 1..Len(mb) : mb[i] = m
\* A host call is named by its request and its number, a result by 0.
Same(m, o) == m.ref = o.ref /\ m.id = o.id
Distinct(mb) == \A i, j \in 1..Len(mb) : Same(mb[i], mb[j]) => i = j
\* Nothing of a request comes after its result.
ResultLast(mb) ==
  \A i, j \in 1..Len(mb) : mb[i].kind = "result" /\ mb[j].ref = mb[i].ref => j <= i
Mail(mb) == mb \in Seq(Msgs) /\ Distinct(mb) /\ ResultLast(mb)

Posted(mn, mb, m) == mn = Append(mb, m)
Taken(mn, mb, i) == mn = Direct!RemoveAt(mb, i)

LEMMA Post ==
  ASSUME NEW mb, Mail(mb), NEW m \in Msgs, NEW mn, Posted(mn, mb, m),
         \A o \in Msgs : In(mb, o) => ~Same(o, m) /\ (o.ref = m.ref => o.kind # "result")
  PROVE  Mail(mn) /\ \A o : In(mn, o) <=> o = m \/ In(mb, o)
<1>1. /\ mb \in Seq(Msgs) /\ mn \in Seq(Msgs) /\ Len(mn) = Len(mb) + 1 /\ Len(mb) \in Nat
      /\ \A i \in 1..Len(mb) : mn[i] = mb[i] /\ mb[i] \in Msgs
      /\ mn[Len(mb) + 1] = m
  BY DEF Mail, Posted
<1>2. \A i \in 1..Len(mn) : i \in 1..Len(mb) \/ i = Len(mb) + 1
  BY <1>1
<1>3. ASSUME NEW o PROVE In(mn, o) <=> o = m \/ In(mb, o)
  <2>1. ASSUME In(mn, o) PROVE o = m \/ In(mb, o)
    <3>1. PICK i \in 1..Len(mn) : mn[i] = o
      BY <2>1 DEF In
    <3> QED
      BY <1>1, <1>2, <3>1 DEF In
  <2>2. ASSUME In(mb, o) PROVE In(mn, o)
    <3>1. PICK i \in 1..Len(mb) : mb[i] = o
      BY <2>2 DEF In
    <3>2. i \in 1..Len(mn) /\ mn[i] = o
      BY <1>1, <3>1
    <3> QED
      BY <3>2 DEF In
  <2>3. In(mn, m)
    <3>1. Len(mb) + 1 \in 1..Len(mn)
      BY <1>1
    <3> QED
      BY <1>1, <3>1 DEF In
  <2> QED
    BY <2>1, <2>2, <2>3
<1>4. \A i \in 1..Len(mb) : ~Same(mb[i], m) /\ ~Same(m, mb[i]) /\ (mb[i].ref = m.ref => mb[i].kind # "result")
  <2> SUFFICES ASSUME NEW i \in 1..Len(mb)
               PROVE  ~Same(mb[i], m) /\ ~Same(m, mb[i]) /\ (mb[i].ref = m.ref => mb[i].kind # "result")
    OBVIOUS
  <2>1. In(mb, mb[i]) /\ mb[i] \in Msgs
    BY <1>1 DEF In
  <2>2. ~Same(mb[i], m) /\ (mb[i].ref = m.ref => mb[i].kind # "result")
    BY <2>1
  <2> QED
    BY <2>2 DEF Same
<1>5. Distinct(mn)
  <2> SUFFICES ASSUME NEW i \in 1..Len(mn), NEW j \in 1..Len(mn), Same(mn[i], mn[j]) PROVE i = j
    BY DEF Distinct
  <2>1. CASE i \in 1..Len(mb) /\ j \in 1..Len(mb)
    BY <1>1, <2>1 DEF Mail, Distinct
  <2> QED
    BY <1>1, <1>2, <1>4, <2>1
<1>6. ResultLast(mn)
  <2> SUFFICES ASSUME NEW i \in 1..Len(mn), NEW j \in 1..Len(mn),
                      mn[i].kind = "result", mn[j].ref = mn[i].ref
               PROVE  j <= i
    BY DEF ResultLast
  <2>1. CASE i \in 1..Len(mb) /\ j \in 1..Len(mb)
    BY <1>1, <2>1 DEF Mail, ResultLast
  <2>2. CASE i = Len(mb) + 1
    BY <1>1, <2>2
  <2>3. CASE i \in 1..Len(mb) /\ j = Len(mb) + 1
    BY <1>1, <1>4, <2>3
  <2> QED
    BY <1>2, <2>1, <2>2, <2>3
<1> QED
  BY <1>1, <1>3, <1>5, <1>6 DEF Mail

\* The first message of request r is taken.
First(mb, r, i) == mb[i].ref = r /\ \A j \in 1..Len(mb) : mb[j].ref = r => i <= j

LEMMA TakeFirst ==
  ASSUME NEW mb, Mail(mb), NEW i \in 1..Len(mb), NEW r, First(mb, r, i), NEW mn, Taken(mn, mb, i)
  PROVE  /\ Mail(mn) /\ mb[i] \in Msgs /\ In(mb, mb[i])
         /\ \A o : In(mb, o) <=> o = mb[i] \/ In(mn, o)
         /\ \A o : In(mn, o) => ~Same(o, mb[i])
         /\ mb[i].kind = "result" => \A o : In(mn, o) => o.ref # r
<1> DEFINE a == SubSeq(mb, 1, i - 1)
           b == SubSeq(mb, i + 1, Len(mb))
<1>1. mb \in Seq(Msgs) /\ Len(mb) \in Nat /\ mb[i] \in Msgs /\ i \in Nat /\ i > 0 /\ i <= Len(mb)
  BY DEF Mail
<1>2. a \in Seq(Msgs) /\ Len(a) = i - 1 /\ \A j \in 1..(i - 1) : a[j] = mb[j]
  <2> DEFINE k == i - 1
  <2>1. k \in 0..Len(mb) /\ k \in Nat
    BY <1>1
  <2> HIDE DEF k
  <2>2. SubSeq(mb, 1, k) \in Seq(Msgs)
    BY <1>1, <2>1
  <2>3. Len(SubSeq(mb, 1, k)) = k
    BY <1>1, <2>1
  <2>4. \A j \in 1..k : SubSeq(mb, 1, k)[j] = mb[j]
    BY <1>1, <2>1
  <2> QED
    BY <2>2, <2>3, <2>4 DEF k
<1>3. b \in Seq(Msgs) /\ Len(b) = Len(mb) - i /\ \A j \in 1..(Len(mb) - i) : b[j] = mb[i + j]
  <2>1. \A j \in (i + 1)..Len(mb) : mb[j] \in Msgs
    BY <1>1
  <2>2. i + 1 \in Int /\ Len(mb) \in Int
    BY <1>1
  <2>3. /\ b \in Seq(Msgs)
        /\ Len(b) = IF i + 1 <= Len(mb) THEN Len(mb) - (i + 1) + 1 ELSE 0
        /\ \A j \in 1..(Len(mb) - (i + 1) + 1) : b[j] = mb[(i + 1) + j - 1]
    BY <2>1, <2>2, SubSeqProperties
  <2>4. \A j \in 1..(Len(mb) - i) : j \in 1..(Len(mb) - (i + 1) + 1) /\ (i + 1) + j - 1 = i + j
    BY <1>1
  <2>5. \A j \in 1..(Len(mb) - i) : b[j] = mb[i + j]
    BY <2>3, <2>4
  <2> QED
    BY <1>1, <2>3, <2>5
<1>4. mn = a \o b
  BY DEF Taken, Direct!RemoveAt
<1> HIDE DEF a, b
<1>5. /\ mn \in Seq(Msgs) /\ Len(mn) = Len(mb) - 1
      /\ \A j \in 1..(i - 1) : mn[j] = mb[j]
      /\ \A j \in i..(Len(mb) - 1) : mn[j] = mb[j + 1]
  <2>1. mn \in Seq(Msgs) /\ Len(mn) = Len(a) + Len(b)
    <3>1. a \in Seq(Msgs) /\ b \in Seq(Msgs)
      BY <1>2, <1>3
    <3>2. a \o b \in Seq(Msgs) /\ Len(a \o b) = Len(a) + Len(b)
      BY <3>1
    <3> QED
      BY <1>4, <3>2
  <2>2. /\ \A j \in 1..Len(a) : mn[j] = a[j]
        /\ \A j \in 1..Len(b) : mn[Len(a) + j] = b[j]
    <3>1. a \in Seq(Msgs) /\ b \in Seq(Msgs)
      BY <1>2, <1>3
    <3>2. \A j \in 1..Len(a) : (a \o b)[j] = a[j]
      BY <3>1
    <3>3. \A j \in 1..Len(b) : (a \o b)[Len(a) + j] = b[j]
      BY <3>1
    <3> QED
      BY <1>4, <3>2, <3>3
  <2>3. ASSUME NEW j \in i..(Len(mb) - 1) PROVE mn[j] = mb[j + 1]
    <3>1. j - (i - 1) \in 1..Len(b) /\ Len(a) + (j - (i - 1)) = j /\ i + (j - (i - 1)) = j + 1
      BY <1>1, <1>2, <1>3
    <3>2. mn[Len(a) + (j - (i - 1))] = b[j - (i - 1)] /\ b[j - (i - 1)] = mb[i + (j - (i - 1))]
      BY <1>3, <2>2, <3>1
    <3> QED
      BY <3>1, <3>2
  <2> QED
    BY <1>1, <1>2, <1>3, <2>1, <2>2, <2>3
<1> DEFINE at(j) == IF j < i THEN j ELSE j + 1
<1>6. \A j \in 1..Len(mn) : at(j) \in 1..Len(mb) /\ at(j) # i /\ mn[j] = mb[at(j)]
  <2> SUFFICES ASSUME NEW j \in 1..Len(mn) PROVE at(j) \in 1..Len(mb) /\ at(j) # i /\ mn[j] = mb[at(j)]
    OBVIOUS
  <2>1. CASE j < i
    <3>1. j \in 1..(i - 1)
      BY <1>1, <1>5, <2>1
    <3> QED
      BY <1>1, <1>5, <2>1, <3>1
  <2>2. CASE ~(j < i)
    <3>1. j \in i..(Len(mb) - 1)
      BY <1>1, <1>5, <2>2
    <3> QED
      BY <1>1, <1>5, <2>2, <3>1
  <2> QED
    BY <2>1, <2>2
<1>7. \A j, k \in 1..Len(mn) : (at(j) = at(k) => j = k) /\ (at(j) <= at(k) => j <= k)
  BY <1>1, <1>5
<1>8. \A o : In(mb, o) <=> o = mb[i] \/ In(mn, o)
  <2>1. ASSUME NEW o, In(mb, o) PROVE o = mb[i] \/ In(mn, o)
    <3>1. PICK j \in 1..Len(mb) : mb[j] = o
      BY <2>1 DEF In
    <3>2. CASE j < i
      <4>1. j \in 1..Len(mn) /\ j \in 1..(i - 1)
        BY <1>1, <1>5, <3>2
      <4> QED
        BY <1>5, <3>1, <4>1 DEF In
    <3>3. CASE j > i
      <4>1. j - 1 \in 1..Len(mn) /\ j - 1 \in i..(Len(mb) - 1) /\ (j - 1) + 1 = j
        BY <1>1, <1>5, <3>3
      <4>2. mn[j - 1] = o
        BY <1>5, <3>1, <4>1
      <4> QED
        BY <4>1, <4>2 DEF In
    <3> QED
      BY <1>1, <3>1, <3>2, <3>3
  <2>2. ASSUME NEW o, In(mn, o) PROVE In(mb, o)
    <3>1. PICK j \in 1..Len(mn) : mn[j] = o
      BY <2>2 DEF In
    <3>2. at(j) \in 1..Len(mb) /\ mb[at(j)] = o
      BY <1>6, <3>1
    <3> HIDE DEF at
    <3> QED
      BY <3>2 DEF In
  <2>3. In(mb, mb[i])
    BY DEF In
  <2> QED
    BY <2>1, <2>2, <2>3
<1> HIDE DEF at
<1>9. ASSUME NEW o, In(mn, o) PROVE ~Same(o, mb[i]) /\ (mb[i].kind = "result" => o.ref # r)
  <2>1. PICK j \in 1..Len(mn) : mn[j] = o
    BY <1>9 DEF In
  <2>2. at(j) \in 1..Len(mb) /\ at(j) # i /\ mb[at(j)] = o
    BY <1>6, <2>1
  <2>3. ~Same(o, mb[i])
    BY <2>2 DEF Mail, Distinct
  <2>4. ASSUME mb[i].kind = "result", o.ref = r PROVE FALSE
    <3>1. i <= at(j) /\ at(j) <= i
      BY <2>2, <2>4 DEF Mail, ResultLast, First
    <3> QED
      BY <2>2, <3>1
  <2> QED
    BY <2>3, <2>4
<1>10. Distinct(mn)
  BY <1>6, <1>7 DEF Mail, Distinct
<1>11. ResultLast(mn)
  BY <1>6, <1>7 DEF Mail, ResultLast
<1> QED
  BY <1>1, <1>5, <1>8, <1>9, <1>10, <1>11 DEF Mail, In

-----------------------------------------------------------------------------
(* Least numbers and small sets. *)

LEMMA Least ==
  ASSUME NEW S, S \subseteq Nat, S # {}
  PROVE  Direct!Min(S) \in S /\ \A y \in S : Direct!Min(S) <= y
<1>1. PICK R : R = OpToRel(<, Nat)
  OBVIOUS
<1>2. IsWellFoundedOn(R, Nat)
  BY <1>1, NatLessThanWellFounded
<1>3. PICK x \in S : \A y \in S : ~(<<y, x>> \in R)
  BY <1>2, WFMin
<1>4. R = {ss \in Nat \X Nat : ss[1] < ss[2]}
  BY <1>1 DEF OpToRel
<1>5. \A y \in S : y < x => <<y, x>> \in R
  BY <1>4
<1>6. \A y \in S : y \in Nat /\ ~(y < x)
  BY <1>3, <1>5
<1>7. x \in Nat
  OBVIOUS
<1>8. \A y \in S : x <= y
  BY <1>6, <1>7
<1> QED
  BY <1>8 DEF Direct!Min

\* The library's Cardinality is the one the module uses.
LEMMA SameCardinality == ASSUME NEW S PROVE Direct!Cardinality(S) = Cardinality(S)
BY DEF Cardinality, Direct!Cardinality

\* A set all of whose elements are equal.
LEMMA AtMostOne ==
  ASSUME NEW S, \A x, y \in S : x = y
  PROVE  Cardinality(S) = IF S = {} THEN 0 ELSE 1
<1>1. CASE S = {}
  BY <1>1, FS_EmptySet
<1>2. CASE S # {}
  <2>1. PICK x : S = {x}
    BY <1>2
  <2> QED
    BY <2>1, FS_Singleton
<1> QED
  BY <1>1, <1>2

-----------------------------------------------------------------------------
(* The calls the process is in. *)

One(ws) == \A i, j \in 1..Len(ws) : ws[i].ctx = ws[j].ctx \/ ws[i].ref = ws[j].ref => i = j
Busy(ws) == \A i \in 1..(Len(ws) - 1) : ws[i].serving # 0
Nested(ws) == ws \in Seq(Waits) /\ One(ws) /\ Busy(ws)
Apart(f, g) == f.ctx # g.ctx /\ f.ref # g.ref

Pushed(wn, ws, f) == wn = Append(ws, f)
Popped(wn, ws) == wn = Direct!Front(ws)
Changed(wn, ws, u) == wn = [ws EXCEPT ![Len(ws)] = u]

LEMMA PushWait ==
  ASSUME NEW ws, Nested(ws), NEW f \in Waits, NEW wn, Pushed(wn, ws, f),
         \A g \in Waits : In(ws, g) => g.serving # 0 /\ Apart(g, f)
  PROVE  Nested(wn) /\ \A g : In(wn, g) <=> g = f \/ In(ws, g)
<1>1. /\ wn \in Seq(Waits) /\ Len(wn) = Len(ws) + 1 /\ Len(ws) \in Nat
      /\ \A i \in 1..Len(ws) : wn[i] = ws[i] /\ ws[i] \in Waits
      /\ wn[Len(ws) + 1] = f
  BY DEF Nested, Pushed
<1>2. \A i \in 1..Len(wn) : i \in 1..Len(ws) \/ i = Len(ws) + 1
  BY <1>1
<1>3. \A i \in 1..Len(ws) : In(ws, ws[i]) /\ ws[i].serving # 0 /\ Apart(ws[i], f)
  BY <1>1 DEF In
<1>4. ASSUME NEW g PROVE In(wn, g) <=> g = f \/ In(ws, g)
  <2>1. ASSUME In(wn, g) PROVE g = f \/ In(ws, g)
    <3>1. PICK i \in 1..Len(wn) : wn[i] = g
      BY <2>1 DEF In
    <3> QED
      BY <1>1, <1>2, <3>1 DEF In
  <2>2. ASSUME In(ws, g) PROVE In(wn, g)
    <3>1. PICK i \in 1..Len(ws) : ws[i] = g
      BY <2>2 DEF In
    <3>2. i \in 1..Len(wn) /\ wn[i] = g
      BY <1>1, <3>1
    <3> QED
      BY <3>2 DEF In
  <2>3. In(wn, f)
    <3>1. Len(ws) + 1 \in 1..Len(wn)
      BY <1>1
    <3> QED
      BY <1>1, <3>1 DEF In
  <2> QED
    BY <2>1, <2>2, <2>3
<1>5. One(wn)
  <2> SUFFICES ASSUME NEW i \in 1..Len(wn), NEW j \in 1..Len(wn),
                      wn[i].ctx = wn[j].ctx \/ wn[i].ref = wn[j].ref
               PROVE  i = j
    BY DEF One
  <2>1. CASE i \in 1..Len(ws) /\ j \in 1..Len(ws)
    BY <1>1, <2>1 DEF Nested, One
  <2> QED
    BY <1>1, <1>2, <1>3, <2>1 DEF Apart
<1>6. Busy(wn)
  BY <1>1, <1>3 DEF Busy
<1> QED
  BY <1>1, <1>4, <1>5, <1>6 DEF Nested

LEMMA TopWait ==
  ASSUME NEW ws, Nested(ws), ws # <<>>, NEW f, f = ws[Len(ws)]
  PROVE  /\ f \in Waits /\ In(ws, f)
         /\ \A g : In(ws, g) /\ g # f => g.serving # 0 /\ Apart(g, f)
<1>1. ws \in Seq(Waits) /\ Len(ws) \in Nat /\ Len(ws) \in 1..Len(ws)
  BY DEF Nested
<1>2. f \in Waits /\ In(ws, f)
  BY <1>1 DEF In
<1>3. ASSUME NEW g, In(ws, g), g # f PROVE g.serving # 0 /\ Apart(g, f)
  <2>1. PICK i \in 1..Len(ws) : ws[i] = g
    BY <1>3 DEF In
  <2>2. i # Len(ws) /\ i \in 1..(Len(ws) - 1)
    BY <1>1, <1>3, <2>1
  <2> QED
    BY <1>1, <2>1, <2>2 DEF Nested, Busy, One, Apart
<1> QED
  BY <1>2, <1>3

LEMMA PopWait ==
  ASSUME NEW ws, Nested(ws), ws # <<>>, NEW f, f = ws[Len(ws)], NEW wn, Popped(wn, ws)
  PROVE  Nested(wn) /\ \A g : In(wn, g) <=> In(ws, g) /\ g # f
<1>1. ws \in Seq(Waits) /\ Len(ws) \in Nat /\ Len(ws) \in 1..Len(ws)
  BY DEF Nested
<1>2. wn \in Seq(Waits) /\ Len(wn) = Len(ws) - 1 /\ \A i \in 1..(Len(ws) - 1) : wn[i] = ws[i]
  <2> DEFINE k == Len(ws) - 1
  <2>1. k \in 0..Len(ws) /\ k \in Nat /\ wn = SubSeq(ws, 1, k)
    BY <1>1 DEF Popped, Direct!Front
  <2> HIDE DEF k
  <2>2. wn \in Seq(Waits)
    BY <1>1, <2>1
  <2>3. Len(wn) = k
    BY <1>1, <2>1
  <2>4. \A i \in 1..k : wn[i] = ws[i]
    BY <1>1, <2>1
  <2> QED
    BY <2>2, <2>3, <2>4 DEF k
<1>3. ASSUME NEW g, In(wn, g) PROVE In(ws, g) /\ g # f
  <2>1. PICK i \in 1..Len(wn) : wn[i] = g
    BY <1>3 DEF In
  <2>2. i \in 1..Len(ws) /\ i # Len(ws) /\ ws[i] = g
    BY <1>1, <1>2, <2>1
  <2> QED
    BY <1>1, <2>2 DEF Nested, One, In
<1>4. ASSUME NEW g, In(ws, g), g # f PROVE In(wn, g)
  <2>1. PICK i \in 1..Len(ws) : ws[i] = g
    BY <1>4 DEF In
  <2>2. i \in 1..Len(wn) /\ wn[i] = g
    BY <1>1, <1>2, <1>4, <2>1
  <2> QED
    BY <2>2 DEF In
<1>5. One(wn)
  <2> SUFFICES ASSUME NEW i \in 1..Len(wn), NEW j \in 1..Len(wn),
                      wn[i].ctx = wn[j].ctx \/ wn[i].ref = wn[j].ref
               PROVE  i = j
    BY DEF One
  <2>1. i \in 1..Len(ws) /\ j \in 1..Len(ws) /\ wn[i] = ws[i] /\ wn[j] = ws[j]
    BY <1>1, <1>2
  <2> QED
    BY <2>1 DEF Nested, One
<1>6. Busy(wn)
  BY <1>1, <1>2 DEF Nested, Busy
<1> QED
  BY <1>2, <1>3, <1>4, <1>5, <1>6 DEF Nested

LEMMA ChangeWait ==
  ASSUME NEW ws, Nested(ws), ws # <<>>, NEW f, f = ws[Len(ws)],
         NEW u \in Waits, u.ctx = f.ctx, u.ref = f.ref, NEW wn, Changed(wn, ws, u)
  PROVE  Nested(wn) /\ \A g : In(wn, g) <=> g = u \/ (In(ws, g) /\ g # f)
<1>1. ws \in Seq(Waits) /\ Len(ws) \in Nat /\ Len(ws) \in 1..Len(ws)
  BY DEF Nested
<1>2. /\ wn \in Seq(Waits) /\ Len(wn) = Len(ws) /\ wn[Len(ws)] = u
      /\ \A i \in 1..(Len(ws) - 1) : wn[i] = ws[i]
  BY <1>1 DEF Changed
<1>3. ASSUME NEW g, In(wn, g) PROVE g = u \/ (In(ws, g) /\ g # f)
  <2>1. PICK i \in 1..Len(wn) : wn[i] = g
    BY <1>3 DEF In
  <2>2. CASE i # Len(ws)
    <3>1. i \in 1..Len(ws) /\ i # Len(ws) /\ ws[i] = g
      BY <1>1, <1>2, <2>1, <2>2
    <3> QED
      BY <1>1, <3>1 DEF Nested, One, In
  <2> QED
    BY <1>2, <2>1, <2>2
<1>4. ASSUME NEW g, In(ws, g), g # f PROVE In(wn, g)
  <2>1. PICK i \in 1..Len(ws) : ws[i] = g
    BY <1>4 DEF In
  <2>2. i \in 1..Len(wn) /\ wn[i] = g
    BY <1>1, <1>2, <1>4, <2>1
  <2> QED
    BY <2>2 DEF In
<1>5. In(wn, u)
  BY <1>1, <1>2 DEF In
<1>6. \A i \in 1..Len(ws) : wn[i].ctx = ws[i].ctx /\ wn[i].ref = ws[i].ref
  BY <1>1, <1>2
<1>7. One(wn) /\ Busy(wn)
  BY <1>1, <1>2, <1>6 DEF Nested, One, Busy
<1> QED
  BY <1>2, <1>3, <1>4, <1>5, <1>7 DEF Nested

-----------------------------------------------------------------------------
(* The inductive invariant. *)

DirectTypes ==
  /\ thread \in [Contexts -> Threads]
  /\ tasks \subseteq Keys /\ killed \subseteq Keys
  /\ marked \subseteq Contexts /\ refs \in 0..MaxCalls
  /\ sent \in [1..MaxCalls -> {"none", "ok", "oom"}]
  /\ got \in [1..MaxCalls -> {"none", "ok", "oom"}]

\* The async calls that have left the mailbox and have not been answered.
Away == tasks \union killed
KeyOf(c, r, id) == [ctx |-> c, ref |-> r, id |-> id]
Mailed(sort, r, id) == \E m \in Msgs : In(mailbox, m) /\ m.kind = sort /\ m.ref = r /\ m.id = id

\* A message of the call f.
MsgFits(m, f) ==
  /\ m.id <= thread[f.ctx].asked
  /\ m.kind = "result" => /\ m.id = 0 /\ thread[f.ctx].state = "idle"
                          /\ m.out = sent[f.ref] /\ (m.out = "oom" => thread[f.ctx].poisoned)
  /\ m.kind = "callback" => /\ thread[f.ctx].state = "waiting" /\ thread[f.ctx].asked = m.id
                            /\ f.serving = 0 /\ m.id # 0
  /\ m.kind = "async" => m.id # 0 /\ KeyOf(f.ctx, f.ref, m.id) \notin Away
\* A call the process is in.
CallFits(f) ==
  /\ thread[f.ctx].ref = f.ref /\ f.ref <= refs /\ got[f.ref] = "none"
  /\ thread[f.ctx].state = "idle" => Mailed("result", f.ref, 0)
  /\ f.serving # 0 => thread[f.ctx].state = "waiting" /\ thread[f.ctx].asked = f.serving
  /\ thread[f.ctx].state = "waiting" =>
       f.serving = thread[f.ctx].asked \/ Mailed("callback", f.ref, thread[f.ctx].asked)
  /\ \A m \in Msgs : In(mailbox, m) /\ m.ref = f.ref => MsgFits(m, f)
\* The thread of a context: an eval that runs has its call, and each of its pending async
\* calls is in the mailbox, with a task or was killed.
ThreadFits(c) ==
  /\ thread[c].ref <= refs
  /\ thread[c].state # "idle" => \E f \in Waits : In(waits, f) /\ f.ctx = c
  /\ thread[c].state = "idle" => thread[c].pending = {}
  /\ \A id \in thread[c].pending : id <= thread[c].asked /\ id # 0 /\
       (KeyOf(c, thread[c].ref, id) \in Away \/ Mailed("async", thread[c].ref, id))
Past ==
  /\ \A m \in Msgs : In(mailbox, m) => \E f \in Waits : In(waits, f) /\ f.ref = m.ref
  /\ \A k \in tasks : k \notin killed
  /\ \A k \in Away : k.ref <= refs /\ (k.ref = thread[k.ctx].ref => k.id <= thread[k.ctx].asked)
  /\ \A r \in 1..MaxCalls : got[r] # "none" => got[r] = sent[r] /\ r <= refs
  /\ \A c \in marked : thread[c].poisoned

DirectInv ==
  /\ DirectTypes /\ Nested(waits) /\ Mail(mailbox)
  /\ \A f \in Waits : In(waits, f) => CallFits(f)
  /\ \A c \in Contexts : ThreadFits(c)
  /\ Past

\* What a step that has to do with other calls leaves alone.
LEMMA CallKept ==
  ASSUME DirectTypes, refs' \in Nat, NEW f \in Waits, CallFits(f), refs <= refs',
         thread'[f.ctx].ref = thread[f.ctx].ref, thread'[f.ctx].asked = thread[f.ctx].asked,
         thread'[f.ctx].poisoned = thread[f.ctx].poisoned,
         \/ thread'[f.ctx].state = thread[f.ctx].state
         \/ {thread[f.ctx].state, thread'[f.ctx].state} \subseteq {"running", "awaiting"},
         got'[f.ref] = got[f.ref], sent'[f.ref] = sent[f.ref],
         \A m \in Msgs : m.ref = f.ref => (In(mailbox', m) <=> In(mailbox, m)),
         \A k \in Away' : k.ctx = f.ctx /\ k.ref = f.ref => k \in Away
  PROVE  CallFits(f)'
<1>1. \A sort, id : Mailed(sort, f.ref, id)' <=> Mailed(sort, f.ref, id)
  BY DEF Mailed
<1>2. ASSUME NEW m \in Msgs, In(mailbox', m), m.ref = f.ref PROVE MsgFits(m, f)'
  <2>1. MsgFits(m, f)
    BY <1>2 DEF CallFits
  <2>2. KeyOf(f.ctx, f.ref, m.id) \in Away' => KeyOf(f.ctx, f.ref, m.id) \in Away
    BY DEF KeyOf
  <2> QED
    BY <2>1, <2>2 DEF MsgFits
<1>3. f.ref \in Nat /\ refs \in Nat
  BY CallsBound DEF DirectTypes, Waits
<1> QED
  BY <1>1, <1>2, <1>3 DEF CallFits

LEMMA ThreadKept ==
  ASSUME DirectTypes, refs' \in Nat, NEW c \in Contexts, ThreadFits(c), refs <= refs', thread'[c] = thread[c],
         thread[c].state # "idle" =>
           /\ \E f \in Waits : In(waits', f) /\ f.ctx = c
           /\ \A m \in Msgs : In(mailbox, m) /\ m.kind = "async" /\ m.ref = thread[c].ref =>
                In(mailbox', m) \/ KeyOf(c, m.ref, m.id) \in Away'
           /\ \A id \in thread[c].pending :
                KeyOf(c, thread[c].ref, id) \in Away => KeyOf(c, thread[c].ref, id) \in Away'
  PROVE  ThreadFits(c)'
<1>1. thread[c].ref \in Nat /\ refs \in Nat
  BY CallsBound DEF DirectTypes, Threads
<1>2. thread'[c].ref <= refs'
  BY <1>1 DEF ThreadFits
<1>3. CASE thread[c].state = "idle"
  BY <1>2, <1>3 DEF ThreadFits
<1>4. CASE thread[c].state # "idle"
  <2>1. ASSUME NEW id \in thread[c].pending
        PROVE  KeyOf(c, thread[c].ref, id) \in Away' \/ Mailed("async", thread[c].ref, id)'
    BY <1>4, <2>1 DEF ThreadFits, Mailed
  <2> QED
    BY <1>2, <1>4, <2>1 DEF ThreadFits
<1> QED
  BY <1>3, <1>4

LEMMA DirectStarts == Direct!Init => DirectInv
<1> SUFFICES ASSUME Direct!Init PROVE DirectInv
  OBVIOUS
<1> USE CallsBound DEF Direct!Init
<1>1. DirectTypes
  BY DEF DirectTypes, Threads
<1>2. Nested(waits) /\ \A f : ~In(waits, f)
  BY DEF Nested, One, Busy, In
<1>3. Mail(mailbox) /\ \A m : ~In(mailbox, m)
  BY DEF Mail, Distinct, ResultLast, In
<1>4. \A c \in Contexts : ThreadFits(c)
  BY DEF ThreadFits
<1>5. Past
  BY <1>3 DEF Past, Away
<1> QED
  BY <1>1, <1>2, <1>3, <1>4, <1>5 DEF DirectInv

-----------------------------------------------------------------------------
(* The actions. *)

\* The parts of the invariant.
LEMMA Parts ==
  ASSUME DirectInv
  PROVE  /\ DirectTypes /\ Nested(waits) /\ Mail(mailbox) /\ Past
         /\ \A f \in Waits : In(waits, f) => CallFits(f)
         /\ \A c \in Contexts : ThreadFits(c)
         /\ refs \in Nat
         /\ \A f \in Waits : f.ctx \in Contexts /\ f.ref \in 1..MaxCalls /\ f.serving \in Nat
         /\ \A c \in Contexts : thread[c] \in Threads
         /\ \A c \in Contexts : thread[c].ref \in Nat /\ thread[c].asked \in Nat
                                /\ thread[c].pending \in SUBSET Nat
BY CallsBound DEF DirectInv, DirectTypes, Waits, Threads

\* The call of a thread that is not idle.
LEMMA CallOf ==
  ASSUME DirectInv, NEW c \in Contexts, thread[c].state # "idle"
  PROVE  \E f \in Waits : /\ In(waits, f) /\ f.ctx = c /\ f.ref = thread[c].ref /\ CallFits(f)
                          /\ \A g \in Waits : In(waits, g) /\ g # f => Apart(g, f)
                          /\ thread[c].state # "waiting" => f.serving = 0
<1>1. PICK f \in Waits : In(waits, f) /\ f.ctx = c
  BY Parts DEF ThreadFits
<1>2. CallFits(f)
  BY <1>1, Parts
<1>3. f.ref = thread[c].ref /\ (thread[c].state # "waiting" => f.serving = 0)
  BY <1>1, <1>2 DEF CallFits
<1>4. ASSUME NEW g \in Waits, In(waits, g), g # f PROVE Apart(g, f)
  <2>1. PICK i \in 1..Len(waits) : waits[i] = f
    BY <1>1 DEF In
  <2>2. PICK j \in 1..Len(waits) : waits[j] = g
    BY <1>4 DEF In
  <2>3. One(waits)
    BY Parts DEF Nested
  <2> QED
    BY <1>4, <2>1, <2>2, <2>3 DEF One, Apart
<1> QED
  BY <1>1, <1>2, <1>3, <1>4

\* The thread of c does something that no call sees.
LEMMA ThreadMoves ==
  ASSUME DirectInv, NEW c \in Contexts, thread' \in [Contexts -> Threads],
         \A d \in Contexts : d # c => thread'[d] = thread[d],
         thread'[c].ref = thread[c].ref, thread'[c].asked = thread[c].asked,
         thread'[c].poisoned = thread[c].poisoned,
         {thread[c].state, thread'[c].state} \subseteq {"running", "awaiting"},
         thread'[c].pending \subseteq thread[c].pending,
         tasks' \subseteq tasks,
         \A k \in tasks : k \notin tasks' => ~(k.ref = thread[k.ctx].ref /\ k.id \in thread'[k.ctx].pending),
         UNCHANGED <<waits, mailbox, marked, refs, sent, got, killed>>
  PROVE  DirectInv'
<1> USE Parts
<1>1. DirectTypes'
  BY DEF DirectTypes
<1>2. Nested(waits') /\ Mail(mailbox')
  OBVIOUS
<1>3. Away' \subseteq Away
  BY DEF Away
<1>4. ASSUME NEW f \in Waits, In(waits', f) PROVE CallFits(f)'
  <2>1. CallFits(f) /\ f.ctx \in Contexts
    BY <1>4
  <2>2. f.ctx = c \/ thread'[f.ctx] = thread[f.ctx]
    BY <2>1
  <2> QED
    BY <1>3, <2>1, <2>2, CallKept
<1>5. ASSUME NEW d \in Contexts PROVE ThreadFits(d)'
  <2>1. ThreadFits(d)
    OBVIOUS
  <2>2. /\ thread'[d].ref = thread[d].ref /\ thread'[d].asked = thread[d].asked
        /\ thread'[d].pending \subseteq thread[d].pending
    OBVIOUS
  <2>3. (thread'[d].state = "idle") <=> (thread[d].state = "idle")
    OBVIOUS
  <2>4. ASSUME NEW id \in thread'[d].pending, KeyOf(d, thread[d].ref, id) \in Away
        PROVE  KeyOf(d, thread[d].ref, id) \in Away'
    BY <2>4 DEF Away, KeyOf
  <2>5. \A sort, r, id : Mailed(sort, r, id)' <=> Mailed(sort, r, id)
    BY DEF Mailed
  <2> QED
    BY <2>1, <2>2, <2>3, <2>4, <2>5 DEF ThreadFits
<1>6. Past'
  <2>1. \A k \in Away' : k \in Away /\ k.ctx \in Contexts
    BY <1>3 DEF Away, DirectTypes, Keys
  <2>2. \A d \in Contexts : thread'[d].ref = thread[d].ref /\ thread'[d].asked = thread[d].asked
                            /\ thread'[d].poisoned = thread[d].poisoned
    OBVIOUS
  <2>3. \A k \in tasks' : k \notin killed'
    BY DEF Past
  <2>4. \A k \in Away' : k.ref <= refs' /\ (k.ref = thread'[k.ctx].ref => k.id <= thread'[k.ctx].asked)
    BY <2>1, <2>2 DEF Past
  <2>5. \A d \in marked' : thread'[d].poisoned
    BY <2>2 DEF Past, DirectTypes
  <2> QED
    BY <2>3, <2>4, <2>5 DEF Past
<1> QED
  BY <1>1, <1>2, <1>4, <1>5, <1>6 DEF DirectInv

LEMMA CallStep ==
  ASSUME DirectInv, NEW c \in Contexts, Direct!Call(c)
  PROVE  DirectInv'
<1> USE Parts
<1>0. UNCHANGED <<mailbox, tasks, sent, got, killed>> /\ (waits # <<>> => waits[Len(waits)].serving # 0)
  BY DEF Direct!Call, Direct!Runs, Direct!Top
<1>1. CASE thread[c].poisoned /\ marked' = marked \union {c} /\ UNCHANGED <<thread, waits, refs>>
  <2>1. DirectTypes' /\ Nested(waits') /\ Mail(mailbox')
    BY <1>0, <1>1 DEF DirectTypes
  <2>2. Past'
    BY <1>0, <1>1 DEF Past, Away
  <2>3. ASSUME NEW f \in Waits, In(waits', f) PROVE CallFits(f)'
    BY <1>0, <1>1, <2>3 DEF CallFits, MsgFits, Mailed, Away
  <2>4. ASSUME NEW d \in Contexts PROVE ThreadFits(d)'
    BY <1>0, <1>1, <2>4 DEF ThreadFits, Mailed, Away
  <2> QED
    BY <2>1, <2>2, <2>3, <2>4 DEF DirectInv
<1>2. CASE /\ ~thread[c].poisoned /\ thread[c].state = "idle" /\ refs < MaxCalls
           /\ refs' = refs + 1
           /\ thread' = [thread EXCEPT ![c] =
                [thread[c] EXCEPT !.state = "running", !.ref = refs + 1, !.asked = 0]]
           /\ waits' = Append(waits, [ctx |-> c, ref |-> refs + 1, serving |-> 0])
           /\ UNCHANGED marked
  <2>1. PICK f : f = [ctx |-> c, ref |-> refs + 1, serving |-> 0]
    OBVIOUS
  <2>2. f \in Waits /\ f.ctx = c /\ f.ref = refs + 1 /\ f.serving = 0 /\ Pushed(waits', waits, f)
    BY <1>2, <2>1, CallsBound DEF Waits, Pushed
  <2>3. ASSUME NEW g \in Waits, In(waits, g) PROVE g.serving # 0 /\ Apart(g, f) /\ g.ref <= refs
    <3>1. CallFits(g)
      BY <2>3
    <3>2. waits # <<>>
      BY <2>3 DEF In
    <3>3. g.serving # 0
      BY <1>0, <2>3, <3>2, TopWait
    <3> QED
      BY <1>2, <2>2, <3>1, <3>3 DEF CallFits, Apart
  <2>4. Nested(waits') /\ \A g : In(waits', g) <=> g = f \/ In(waits, g)
    BY <2>2, <2>3, PushWait
  <2>5. /\ thread' \in [Contexts -> Threads] /\ \A d \in Contexts : d # c => thread'[d] = thread[d]
        /\ thread'[c].state = "running" /\ thread'[c].ref = refs + 1 /\ thread'[c].asked = 0
        /\ thread'[c].pending = thread[c].pending /\ thread'[c].poisoned = thread[c].poisoned
    <3>1. PICK t \in Threads : t = thread[c]
      OBVIOUS
    <3>2. PICK u : u = [t EXCEPT !.state = "running", !.ref = refs + 1, !.asked = 0]
      OBVIOUS
    <3>3. thread' = [thread EXCEPT ![c] = u]
      BY <1>2, <3>1, <3>2
    <3>4. /\ u \in Threads /\ u.state = "running" /\ u.ref = refs + 1 /\ u.asked = 0
          /\ u.pending = t.pending /\ u.poisoned = t.poisoned
      <4>1. PICK num \in Nat : num = refs + 1
        OBVIOUS
      <4>2. u = [t EXCEPT !.state = "running", !.ref = num, !.asked = 0]
        BY <3>2, <4>1
      <4>3. u \in Threads
        BY <3>1, <4>2 DEF Threads
      <4>4. u.state = "running" /\ u.ref = num /\ u.asked = 0
        BY <3>1, <4>2 DEF Threads
      <4>5. u.pending = t.pending /\ u.poisoned = t.poisoned
        BY <3>1, <4>2 DEF Threads
      <4> QED
        BY <4>1, <4>3, <4>4, <4>5
    <3> QED
      BY <3>1, <3>3, <3>4 DEF DirectTypes
  <2>6. DirectTypes'
    BY <1>0, <1>2, <2>5, CallsBound DEF DirectTypes
  <2>7. CallFits(f)'
    <3>1. \A m \in Msgs : In(mailbox', m) => m.ref # f.ref
      BY <1>0, <2>2, <2>3 DEF Past
    <3>2. got'[f.ref] = "none"
      BY <1>0, <2>2, CallsBound DEF Past, DirectTypes, Waits
    <3> QED
      BY <1>2, <2>2, <2>5, <3>1, <3>2 DEF CallFits
  <2>8. ASSUME NEW g \in Waits, In(waits, g) PROVE CallFits(g)'
    <3>1. CallFits(g) /\ g.ctx # c /\ g.ctx \in Contexts /\ Away' = Away
      BY <1>0, <2>2, <2>3, <2>8 DEF Apart, Away
    <3> QED
      BY <1>0, <1>2, <2>5, <3>1, CallKept
  <2>9. ThreadFits(c)'
    BY <1>2, <2>2, <2>4, <2>5 DEF ThreadFits
  <2>10. ASSUME NEW d \in Contexts, d # c PROVE ThreadFits(d)'
    <3>1. thread[d].state # "idle" => \E g \in Waits : In(waits', g) /\ g.ctx = d
      BY <2>4 DEF ThreadFits
    <3>2. Away' = Away
      BY <1>0 DEF Away
    <3> QED
      BY <1>0, <1>2, <2>5, <2>10, <3>1, <3>2, ThreadKept
  <2>11. Past'
    <3>1. \A k \in Away' : k.ref <= refs' /\ (k.ref = thread'[k.ctx].ref => k.id <= thread'[k.ctx].asked)
      <4> SUFFICES ASSUME NEW k \in Away'
                   PROVE  k.ref <= refs' /\ (k.ref = thread'[k.ctx].ref => k.id <= thread'[k.ctx].asked)
        OBVIOUS
      <4>1. k \in Away /\ k.ctx \in Contexts /\ k.ref \in Nat
        BY <1>0 DEF Away, DirectTypes, Keys
      <4>2. k.ref <= refs /\ (k.ref = thread[k.ctx].ref => k.id <= thread[k.ctx].asked)
        BY <4>1 DEF Past
      <4> QED
        BY <1>2, <2>5, <4>1, <4>2
    <3>2. \A d \in marked' : thread'[d].poisoned
      BY <1>2, <2>5 DEF Past, DirectTypes
    <3>3. \A r \in 1..MaxCalls : got'[r] # "none" => got'[r] = sent'[r] /\ r <= refs'
      BY <1>0, <1>2, CallsBound DEF Past
    <3>4. \A m \in Msgs : In(mailbox', m) => \E g \in Waits : In(waits', g) /\ g.ref = m.ref
      BY <1>0, <2>4 DEF Past
    <3> QED
      BY <1>0, <3>1, <3>2, <3>3, <3>4 DEF Past
  <2> QED
    BY <1>0, <2>2, <2>4, <2>6, <2>7, <2>8, <2>9, <2>10, <2>11 DEF DirectInv
<1> QED
  BY <1>1, <1>2 DEF Direct!Call

LEMMA AwaitStep ==
  ASSUME DirectInv, NEW c \in Contexts, Direct!Await(c)
  PROVE  DirectInv'
<1>1. /\ thread[c].state = "running" /\ thread' = [thread EXCEPT ![c].state = "awaiting"]
      /\ UNCHANGED <<waits, mailbox, tasks, marked, refs, sent, got, killed>>
  BY DEF Direct!Await
<1>2. /\ thread' \in [Contexts -> Threads] /\ \A d \in Contexts : d # c => thread'[d] = thread[d]
      /\ thread'[c].ref = thread[c].ref /\ thread'[c].asked = thread[c].asked
      /\ thread'[c].poisoned = thread[c].poisoned /\ thread'[c].pending = thread[c].pending
      /\ thread'[c].state = "awaiting"
  BY <1>1, Parts DEF DirectTypes, Threads
<1> QED
  BY <1>1, <1>2, ThreadMoves

LEMMA KillStep ==
  ASSUME DirectInv, NEW t \in tasks, Direct!Kill(t)
  PROVE  DirectInv'
<1> USE Parts
<1>1. /\ tasks' = tasks \ {t} /\ killed' = killed \union {t}
      /\ UNCHANGED <<thread, waits, mailbox, marked, refs, sent, got>>
  BY DEF Direct!Kill
<1>2. Away' = Away
  BY <1>1 DEF Away
<1>3. DirectTypes' /\ Nested(waits') /\ Mail(mailbox')
  BY <1>1 DEF DirectTypes
<1>4. Past'
  BY <1>1, <1>2 DEF Past
<1>5. ASSUME NEW f \in Waits, In(waits', f) PROVE CallFits(f)'
  BY <1>1, <1>2, <1>5, CallKept
<1>6. ASSUME NEW d \in Contexts PROVE ThreadFits(d)'
  BY <1>1, <1>2, <1>6 DEF ThreadFits, Mailed
<1> QED
  BY <1>3, <1>4, <1>5, <1>6 DEF DirectInv

LEMMA ResolveStep ==
  ASSUME DirectInv, NEW t \in tasks, Direct!Resolve(t)
  PROVE  DirectInv'
<1> USE Parts
<1>0. t.ctx \in Contexts /\ t \in Keys
  BY DEF DirectTypes, Keys
<1>1. /\ tasks' = tasks \ {t}
      /\ UNCHANGED <<waits, mailbox, marked, refs, sent, got, killed>>
  BY DEF Direct!Resolve
<1>2. CASE thread[t.ctx].ref = t.ref /\ t.id \in thread[t.ctx].pending
  <2> PICK c \in Contexts : c = t.ctx
    BY <1>0
  <2>1. thread' = [thread EXCEPT ![c] = [thread[c] EXCEPT !.pending = @ \ {t.id},
                      !.state = IF @ = "awaiting" THEN "running" ELSE @]]
    BY <1>2 DEF Direct!Resolve
  <2>2. /\ thread' \in [Contexts -> Threads] /\ \A d \in Contexts : d # c => thread'[d] = thread[d]
        /\ thread'[c].ref = thread[c].ref /\ thread'[c].asked = thread[c].asked
        /\ thread'[c].poisoned = thread[c].poisoned /\ thread'[c].pending = thread[c].pending \ {t.id}
        /\ thread'[c].state = IF thread[c].state = "awaiting" THEN "running" ELSE thread[c].state
    <3>1. PICK p \in Threads : p = thread[c]
      OBVIOUS
    <3>2. PICK u : u = [p EXCEPT !.pending = @ \ {t.id},
                                 !.state = IF @ = "awaiting" THEN "running" ELSE @]
      OBVIOUS
    <3>3. thread' = [thread EXCEPT ![c] = u]
      BY <2>1, <3>1, <3>2
    <3>4. /\ u \in Threads /\ u.ref = p.ref /\ u.asked = p.asked
          /\ u.pending = p.pending \ {t.id} /\ u.poisoned = p.poisoned
          /\ u.state = IF p.state = "awaiting" THEN "running" ELSE p.state
      BY <3>2 DEF Threads
    <3> QED
      BY <3>1, <3>3, <3>4 DEF DirectTypes
  <2>3. CASE thread[c].state \in {"running", "awaiting"}
    <3>1. \A k \in tasks : k \notin tasks' => k = t
      BY <1>1
    <3> QED
      BY <1>1, <2>2, <2>3, <3>1, ThreadMoves
  <2>4. CASE thread[c].state \notin {"running", "awaiting"}
    <3>1. thread[c].state = "waiting"
      BY <1>2, <2>4 DEF ThreadFits, Threads
    <3>2. thread'[c].state = "waiting"
      BY <2>2, <3>1
    <3>3. DirectTypes' /\ Nested(waits') /\ Mail(mailbox')
      BY <1>1, <2>2 DEF DirectTypes
    <3>4. Away' \subseteq Away
      BY <1>1 DEF Away
    <3>5. ASSUME NEW f \in Waits, In(waits', f) PROVE CallFits(f)'
      <4>1. f.ctx = c \/ thread'[f.ctx] = thread[f.ctx]
        BY <2>2
      <4> QED
        BY <1>1, <2>2, <3>1, <3>2, <3>4, <3>5, <4>1, CallKept
    <3>6. ASSUME NEW d \in Contexts PROVE ThreadFits(d)'
      <4>1. ThreadFits(d)
        OBVIOUS
      <4>2. thread'[d].ref = thread[d].ref /\ thread'[d].asked = thread[d].asked
            /\ thread'[d].pending \subseteq thread[d].pending
        BY <2>2
      <4>3. (thread'[d].state = "idle") <=> (thread[d].state = "idle")
        BY <2>2, <3>1, <3>2
      <4>4. ASSUME NEW id \in thread'[d].pending, KeyOf(d, thread[d].ref, id) \in Away
            PROVE  KeyOf(d, thread[d].ref, id) \in Away'
        <5>1. KeyOf(d, thread[d].ref, id) # t
          BY <1>2, <2>2, <4>4 DEF KeyOf
        <5> QED
          BY <1>1, <4>4, <5>1 DEF Away
      <4>5. \A sort, r, id : Mailed(sort, r, id)' <=> Mailed(sort, r, id)
        BY <1>1 DEF Mailed
      <4> QED
        BY <1>1, <4>1, <4>2, <4>3, <4>4, <4>5 DEF ThreadFits
    <3>7. Past'
      <4>1. \A k \in Away' : k \in Away /\ k.ctx \in Contexts
        BY <3>4 DEF Away, DirectTypes, Keys
      <4>2. \A d \in Contexts : thread'[d].ref = thread[d].ref /\ thread'[d].asked = thread[d].asked
                                /\ thread'[d].poisoned = thread[d].poisoned
        BY <2>2
      <4>3. \A k \in tasks' : k \notin killed'
        BY <1>1 DEF Past
      <4>4. \A k \in Away' : k.ref <= refs' /\ (k.ref = thread'[k.ctx].ref => k.id <= thread'[k.ctx].asked)
        BY <1>1, <4>1, <4>2 DEF Past
      <4>5. \A d \in marked' : thread'[d].poisoned
        BY <1>1, <4>2 DEF Past, DirectTypes
      <4> QED
        BY <1>1, <4>3, <4>4, <4>5 DEF Past
    <3> QED
      BY <3>3, <3>5, <3>6, <3>7 DEF DirectInv
  <2> QED
    BY <2>3, <2>4
<1>3. CASE ~(thread[t.ctx].ref = t.ref /\ t.id \in thread[t.ctx].pending)
  <2>1. thread' = thread
    BY <1>3 DEF Direct!Resolve
  <2>2. DirectTypes' /\ Nested(waits') /\ Mail(mailbox') /\ Away' \subseteq Away
    BY <1>1, <2>1 DEF DirectTypes, Away
  <2>3. ASSUME NEW f \in Waits, In(waits', f) PROVE CallFits(f)'
    BY <1>1, <2>1, <2>2, <2>3, CallKept
  <2>4. ASSUME NEW d \in Contexts PROVE ThreadFits(d)'
    <3>1. ASSUME NEW id \in thread[d].pending, KeyOf(d, thread[d].ref, id) \in Away
          PROVE  KeyOf(d, thread[d].ref, id) \in Away'
      <4>1. KeyOf(d, thread[d].ref, id) # t
        BY <1>3, <3>1 DEF KeyOf
      <4> QED
        BY <1>1, <3>1, <4>1 DEF Away
    <3> QED
      BY <1>1, <2>1, <3>1 DEF ThreadFits, Mailed
  <2>5. Past'
    BY <1>1, <2>1, <2>2 DEF Past
  <2> QED
    BY <2>2, <2>3, <2>4, <2>5 DEF DirectInv
<1> QED
  BY <1>2, <1>3

\* A step that has to do with the call f leaves what it must of the others.
LEMMA OthersKept ==
  ASSUME DirectInv, NEW f \in Waits, In(waits, f), CallFits(f), refs' = refs,
         \A g \in Waits : In(waits, g) /\ g # f => Apart(g, f) /\ In(waits', g),
         \A d \in Contexts : d # f.ctx => thread'[d] = thread[d],
         \A r \in 1..MaxCalls : r # f.ref => got'[r] = got[r] /\ sent'[r] = sent[r],
         \A m \in Msgs : m.ref # f.ref => (In(mailbox', m) <=> In(mailbox, m)),
         \A k \in Away' : k \in Away \/ k.ctx = f.ctx, Away \subseteq Away'
  PROVE  /\ \A g \in Waits : In(waits, g) /\ g # f => CallFits(g)'
         /\ \A d \in Contexts : d # f.ctx => ThreadFits(d)'
<1> USE Parts
<1>1. ASSUME NEW g \in Waits, In(waits, g), g # f PROVE CallFits(g)'
  <2>1. CallFits(g) /\ Apart(g, f) /\ g.ctx \in Contexts /\ g.ref \in 1..MaxCalls
    BY <1>1
  <2>2. thread'[g.ctx] = thread[g.ctx] /\ got'[g.ref] = got[g.ref] /\ sent'[g.ref] = sent[g.ref]
    BY <2>1 DEF Apart
  <2>3. \A m \in Msgs : m.ref = g.ref => (In(mailbox', m) <=> In(mailbox, m))
    BY <2>1 DEF Apart
  <2>4. \A k \in Away' : k.ctx = g.ctx /\ k.ref = g.ref => k \in Away
    BY <2>1 DEF Apart
  <2> QED
    BY <2>1, <2>2, <2>3, <2>4, CallKept
<1>2. ASSUME NEW d \in Contexts, d # f.ctx PROVE ThreadFits(d)'
  <2>1. CASE thread[d].state = "idle"
    BY <1>2, <2>1, ThreadKept
  <2>2. CASE thread[d].state # "idle"
    <3>1. PICK g \in Waits : In(waits, g) /\ g.ctx = d /\ g.ref = thread[d].ref
      BY <2>2, CallOf
    <3>2. g # f /\ In(waits', g) /\ g.ref # f.ref
      BY <1>2, <3>1 DEF Apart
    <3>3. \A m \in Msgs : m.ref = thread[d].ref => (In(mailbox', m) <=> In(mailbox, m))
      BY <3>1, <3>2
    <3> QED
      BY <1>2, <3>1, <3>2, <3>3, ThreadKept
  <2> QED
    BY <2>1, <2>2
<1> QED
  BY <1>1, <1>2

LEMMA AskSyncStep ==
  ASSUME DirectInv, NEW c \in Contexts, Direct!AskSync(c)
  PROVE  DirectInv'
<1> USE Parts
<1>0. UNCHANGED <<waits, tasks, marked, refs, sent, got, killed>> /\ thread[c].state = "running" /\ Away' = Away
  BY DEF Direct!AskSync, Away
<1>1. PICK f \in Waits : /\ In(waits, f) /\ f.ctx = c /\ f.ref = thread[c].ref /\ CallFits(f)
                         /\ \A g \in Waits : In(waits, g) /\ g # f => Apart(g, f)
                         /\ f.serving = 0
  BY <1>0, CallOf
<1>2. PICK num \in Nat : num = thread[c].asked + 1
  OBVIOUS
<1>3. /\ thread' \in [Contexts -> Threads] /\ \A d \in Contexts : d # c => thread'[d] = thread[d]
      /\ thread'[c].state = "waiting" /\ thread'[c].ref = thread[c].ref /\ thread'[c].asked = num
      /\ thread'[c].pending = thread[c].pending /\ thread'[c].poisoned = thread[c].poisoned
  <2>1. PICK t \in Threads : t = thread[c]
    OBVIOUS
  <2>2. PICK u : u = [t EXCEPT !.state = "waiting", !.asked = @ + 1]
    OBVIOUS
  <2>3. thread' = [thread EXCEPT ![c] = u]
    BY <2>1, <2>2 DEF Direct!AskSync
  <2>4. /\ u \in Threads /\ u.state = "waiting" /\ u.ref = t.ref /\ u.asked = num
        /\ u.pending = t.pending /\ u.poisoned = t.poisoned
    BY <1>2, <2>1, <2>2 DEF Threads
  <2> QED
    BY <2>1, <2>3, <2>4 DEF DirectTypes
<1>4. PICK m : m = [kind |-> "callback", ref |-> f.ref, id |-> num, out |-> "ok"]
  OBVIOUS
<1>5. m \in Msgs /\ m.kind = "callback" /\ m.ref = f.ref /\ m.id = num /\ Posted(mailbox', mailbox, m)
  BY <1>1, <1>2, <1>4 DEF Direct!AskSync, Direct!Post, Direct!Results, Msgs, Posted
<1>6. \A o \in Msgs : In(mailbox, o) /\ o.ref = f.ref =>
        o.kind = "async" /\ o.id <= thread[c].asked /\ MsgFits(o, f)
  BY <1>0, <1>1 DEF CallFits, MsgFits, Msgs
<1>7. Mail(mailbox') /\ \A o : In(mailbox', o) <=> o = m \/ In(mailbox, o)
  <2>1. ASSUME NEW o \in Msgs, In(mailbox, o)
        PROVE  ~Same(o, m) /\ (o.ref = m.ref => o.kind # "result")
    <3>1. CASE o.ref = f.ref
      <4>1. o.id # m.id
        BY <1>2, <1>5, <1>6, <2>1, <3>1 DEF Msgs
      <4> QED
        BY <1>6, <2>1, <3>1, <4>1 DEF Same
    <3>2. CASE o.ref # f.ref
      BY <1>5, <3>2 DEF Same
    <3> QED
      BY <3>1, <3>2
  <2> QED
    BY <1>5, <2>1, Post
<1>8. /\ \A g \in Waits : In(waits, g) /\ g # f => CallFits(g)'
      /\ \A d \in Contexts : d # c => ThreadFits(d)'
  <2>1. \A o \in Msgs : o.ref # f.ref => (In(mailbox', o) <=> In(mailbox, o))
    BY <1>5, <1>7
  <2> QED
    BY <1>0, <1>1, <1>3, <2>1, OthersKept
<1>9. CallFits(f)'
  <2>1. Mailed("callback", f.ref, num)'
    BY <1>5, <1>7 DEF Mailed
  <2>2. ASSUME NEW o \in Msgs, In(mailbox', o), o.ref = f.ref PROVE MsgFits(o, f)'
    <3>1. CASE o = m
      BY <1>1, <1>2, <1>3, <1>5, <3>1 DEF MsgFits
    <3>2. CASE In(mailbox, o)
      <4>1. o.kind = "async" /\ o.id <= thread[c].asked /\ MsgFits(o, f)
        BY <1>6, <2>2, <3>2
      <4>2. o.id <= num
        BY <1>2, <4>1 DEF Msgs
      <4> QED
        BY <1>0, <1>1, <1>3, <4>1, <4>2 DEF MsgFits
    <3> QED
      BY <1>7, <2>2, <3>1, <3>2
  <2> QED
    BY <1>0, <1>1, <1>3, <2>1, <2>2 DEF CallFits
<1>10. ThreadFits(c)'
  <2>1. ThreadFits(c)
    OBVIOUS
  <2>2. ASSUME NEW id \in thread[c].pending
        PROVE  id <= num /\ id # 0
               /\ (KeyOf(c, f.ref, id) \in Away' \/ Mailed("async", f.ref, id)')
    <3>1. id <= num
      BY <1>2, <2>1, <2>2 DEF ThreadFits
    <3>2. Mailed("async", f.ref, id) => Mailed("async", f.ref, id)'
      BY <1>7 DEF Mailed
    <3> QED
      BY <1>0, <1>1, <2>1, <2>2, <3>1, <3>2 DEF ThreadFits
  <2> QED
    BY <1>0, <1>1, <1>3, <2>1, <2>2 DEF ThreadFits
<1>11. Past'
  <2>1. \A o \in Msgs : In(mailbox', o) => \E g \in Waits : In(waits', g) /\ g.ref = o.ref
    BY <1>0, <1>1, <1>5, <1>7 DEF Past
  <2>2. ASSUME NEW k \in Away'
        PROVE  k.ref <= refs' /\ (k.ref = thread'[k.ctx].ref => k.id <= thread'[k.ctx].asked)
    <3>1. k \in Away /\ k.ctx \in Contexts /\ k.id \in Nat
      BY <1>0 DEF Away, DirectTypes, Keys
    <3>2. k.ref <= refs /\ (k.ref = thread[k.ctx].ref => k.id <= thread[k.ctx].asked)
      BY <3>1 DEF Past
    <3> QED
      BY <1>0, <1>2, <1>3, <3>1, <3>2
  <2>3. \A d \in marked' : thread'[d].poisoned
    BY <1>0, <1>3 DEF Past, DirectTypes
  <2> QED
    BY <1>0, <2>1, <2>2, <2>3 DEF Past
<1>12. DirectTypes' /\ Nested(waits')
  BY <1>0, <1>3 DEF DirectTypes
<1> QED
  BY <1>0, <1>1, <1>7, <1>8, <1>9, <1>10, <1>11, <1>12 DEF DirectInv

LEMMA AskAsyncStep ==
  ASSUME DirectInv, NEW c \in Contexts, Direct!AskAsync(c)
  PROVE  DirectInv'
<1> USE Parts
<1>0. /\ UNCHANGED <<waits, tasks, marked, refs, sent, got, killed>>
      /\ thread[c].state = "running" /\ Away' = Away
  BY DEF Direct!AskAsync, Away
<1>1. PICK f \in Waits : /\ In(waits, f) /\ f.ctx = c /\ f.ref = thread[c].ref /\ CallFits(f)
                         /\ \A g \in Waits : In(waits, g) /\ g # f => Apart(g, f)
                         /\ f.serving = 0
  BY <1>0, CallOf
<1>2. PICK num \in Nat : num = thread[c].asked + 1
  OBVIOUS
<1>3. /\ thread' \in [Contexts -> Threads] /\ \A d \in Contexts : d # c => thread'[d] = thread[d]
      /\ thread'[c].state = "running" /\ thread'[c].ref = thread[c].ref /\ thread'[c].asked = num
      /\ thread'[c].pending = thread[c].pending \union {num} /\ thread'[c].poisoned = thread[c].poisoned
  <2>1. PICK t \in Threads : t = thread[c]
    OBVIOUS
  <2>2. PICK u : u = [t EXCEPT !.asked = @ + 1, !.pending = @ \union {t.asked + 1}]
    OBVIOUS
  <2>3. thread' = [thread EXCEPT ![c] = u]
    BY <2>1, <2>2 DEF Direct!AskAsync
  <2>4. u = [t EXCEPT !.asked = num, !.pending = t.pending \union {num}]
    BY <1>2, <2>1, <2>2 DEF Threads
  <2>5. u \in Threads
    BY <2>1, <2>4 DEF Threads
  <2>6. u.asked = num /\ u.pending = t.pending \union {num}
    BY <2>1, <2>4 DEF Threads
  <2>7. u.state = t.state /\ u.ref = t.ref /\ u.poisoned = t.poisoned
    BY <2>1, <2>4 DEF Threads
  <2> QED
    BY <1>0, <2>1, <2>3, <2>5, <2>6, <2>7 DEF DirectTypes
<1>4. PICK m : m = [kind |-> "async", ref |-> f.ref, id |-> num, out |-> "ok"]
  OBVIOUS
<1>5. m \in Msgs /\ m.kind = "async" /\ m.ref = f.ref /\ m.id = num /\ Posted(mailbox', mailbox, m)
  BY <1>1, <1>2, <1>4 DEF Direct!AskAsync, Direct!Post, Direct!Results, Msgs, Posted
<1>6. \A o \in Msgs : In(mailbox, o) /\ o.ref = f.ref =>
        o.kind = "async" /\ o.id <= thread[c].asked /\ MsgFits(o, f)
  BY <1>0, <1>1 DEF CallFits, MsgFits, Msgs
<1>7. Mail(mailbox') /\ \A o : In(mailbox', o) <=> o = m \/ In(mailbox, o)
  <2>1. ASSUME NEW o \in Msgs, In(mailbox, o)
        PROVE  ~Same(o, m) /\ (o.ref = m.ref => o.kind # "result")
    <3>1. CASE o.ref = f.ref
      <4>1. o.id # m.id
        BY <1>2, <1>5, <1>6, <2>1, <3>1 DEF Msgs
      <4> QED
        BY <1>6, <2>1, <3>1, <4>1 DEF Same
    <3>2. CASE o.ref # f.ref
      BY <1>5, <3>2 DEF Same
    <3> QED
      BY <3>1, <3>2
  <2> QED
    BY <1>5, <2>1, Post
<1>8. /\ \A g \in Waits : In(waits, g) /\ g # f => CallFits(g)'
      /\ \A d \in Contexts : d # c => ThreadFits(d)'
  <2>1. \A o \in Msgs : o.ref # f.ref => (In(mailbox', o) <=> In(mailbox, o))
    BY <1>5, <1>7
  <2> QED
    BY <1>0, <1>1, <1>3, <2>1, OthersKept
<1>9. CallFits(f)'
  <2>1. ASSUME NEW o \in Msgs, In(mailbox', o), o.ref = f.ref PROVE MsgFits(o, f)'
    <3>1. CASE o = m
      <4>1. KeyOf(f.ctx, f.ref, num) \notin Away
        <5>1. ASSUME KeyOf(c, f.ref, num) \in Away PROVE FALSE
          <6>1. LET k == KeyOf(c, f.ref, num) IN k.ctx = c /\ k.ref = f.ref /\ k.id = num
            BY DEF KeyOf
          <6>2. num <= thread[c].asked
            BY <1>1, <5>1, <6>1 DEF Past
          <6> QED
            BY <1>2, <6>2
        <5> QED
          BY <1>1, <5>1
      <4> QED
        BY <1>0, <1>1, <1>2, <1>3, <1>5, <3>1, <4>1 DEF MsgFits
    <3>2. CASE In(mailbox, o)
      <4>1. o.kind = "async" /\ o.id <= thread[c].asked /\ MsgFits(o, f)
        BY <1>6, <2>1, <3>2
      <4>2. o.id <= num
        BY <1>2, <4>1 DEF Msgs
      <4> QED
        BY <1>0, <1>1, <1>3, <4>1, <4>2 DEF MsgFits
    <3> QED
      BY <1>7, <2>1, <3>1, <3>2
  <2> QED
    BY <1>0, <1>1, <1>3, <2>1 DEF CallFits
<1>10. ThreadFits(c)'
  <2>1. ThreadFits(c)
    OBVIOUS
  <2>2. ASSUME NEW id \in thread[c].pending \union {num}
        PROVE  id <= num /\ id # 0
               /\ (KeyOf(c, f.ref, id) \in Away' \/ Mailed("async", f.ref, id)')
    <3>1. id <= num /\ id # 0
      BY <1>2, <2>1, <2>2 DEF ThreadFits
    <3>2. CASE id = num
      <4>1. Mailed("async", f.ref, id)'
        BY <1>5, <1>7, <3>2 DEF Mailed
      <4> QED
        BY <3>1, <4>1
    <3>3. CASE id \in thread[c].pending
      <4>1. Mailed("async", f.ref, id) => Mailed("async", f.ref, id)'
        BY <1>7 DEF Mailed
      <4> QED
        BY <1>0, <1>1, <2>1, <3>1, <3>3, <4>1 DEF ThreadFits
    <3> QED
      BY <2>2, <3>2, <3>3
  <2> QED
    BY <1>0, <1>1, <1>3, <2>1, <2>2 DEF ThreadFits
<1>11. Past'
  <2>1. \A o \in Msgs : In(mailbox', o) => \E g \in Waits : In(waits', g) /\ g.ref = o.ref
    BY <1>0, <1>1, <1>5, <1>7 DEF Past
  <2>2. ASSUME NEW k \in Away'
        PROVE  k.ref <= refs' /\ (k.ref = thread'[k.ctx].ref => k.id <= thread'[k.ctx].asked)
    <3>1. k \in Away /\ k.ctx \in Contexts /\ k.id \in Nat
      BY <1>0 DEF Away, DirectTypes, Keys
    <3>2. k.ref <= refs /\ (k.ref = thread[k.ctx].ref => k.id <= thread[k.ctx].asked)
      BY <3>1 DEF Past
    <3> QED
      BY <1>0, <1>2, <1>3, <3>1, <3>2
  <2>3. \A d \in marked' : thread'[d].poisoned
    BY <1>0, <1>3 DEF Past, DirectTypes
  <2> QED
    BY <1>0, <2>1, <2>2, <2>3 DEF Past
<1>12. DirectTypes' /\ Nested(waits')
  BY <1>0, <1>3 DEF DirectTypes
<1> QED
  BY <1>0, <1>1, <1>7, <1>8, <1>9, <1>10, <1>11, <1>12 DEF DirectInv

LEMMA FinishStep ==
  ASSUME DirectInv, NEW c \in Contexts, NEW o \in Direct!Results, Direct!Finish(c, o)
  PROVE  DirectInv'
<1> USE Parts
<1>0. /\ UNCHANGED <<waits, tasks, marked, refs, got, killed>>
      /\ thread[c].state \in {"running", "awaiting"} /\ Away' = Away /\ o \in {"ok", "oom"}
  BY DEF Direct!Finish, Away, Direct!Results
<1>1. PICK f \in Waits : /\ In(waits, f) /\ f.ctx = c /\ f.ref = thread[c].ref /\ CallFits(f)
                         /\ \A g \in Waits : In(waits, g) /\ g # f => Apart(g, f)
                         /\ f.serving = 0
  BY <1>0, CallOf
<1>2. /\ sent' \in [1..MaxCalls -> {"none", "ok", "oom"}] /\ sent'[f.ref] = o
      /\ \A r \in 1..MaxCalls : r # f.ref => sent'[r] = sent[r]
  BY <1>0, <1>1 DEF DirectTypes, Direct!Finish
<1>3. /\ thread' \in [Contexts -> Threads] /\ \A d \in Contexts : d # c => thread'[d] = thread[d]
      /\ thread'[c].state = "idle" /\ thread'[c].ref = thread[c].ref /\ thread'[c].asked = thread[c].asked
      /\ thread'[c].pending = {} /\ (o = "oom" => thread'[c].poisoned)
      /\ (thread[c].poisoned => thread'[c].poisoned)
  <2>1. PICK t \in Threads : t = thread[c]
    OBVIOUS
  <2>2. PICK b \in BOOLEAN : b <=> (t.poisoned \/ o = "oom")
    OBVIOUS
  <2>3. PICK u : u = [t EXCEPT !.state = "idle", !.pending = {}, !.poisoned = @ \/ o = "oom"]
    OBVIOUS
  <2>4. thread' = [thread EXCEPT ![c] = u]
    BY <2>1, <2>3 DEF Direct!Finish
  <2>5. u \in Threads
    BY <2>1, <2>3 DEF Threads
  <2>6. u.state = "idle" /\ u.pending = {}
    BY <2>1, <2>3 DEF Threads
  <2>7. u.ref = t.ref /\ u.asked = t.asked
    BY <2>1, <2>3 DEF Threads
  <2>8. u.poisoned = (t.poisoned \/ o = "oom")
    BY <2>1, <2>3 DEF Threads
  <2> QED
    BY <1>0, <2>1, <2>4, <2>5, <2>6, <2>7, <2>8 DEF DirectTypes
<1>4. PICK m : m = [kind |-> "result", ref |-> f.ref, id |-> 0, out |-> o]
  OBVIOUS
<1>5. /\ m \in Msgs /\ m.kind = "result" /\ m.ref = f.ref /\ m.id = 0 /\ m.out = o
      /\ Posted(mailbox', mailbox, m)
  BY <1>1, <1>4 DEF Direct!Finish, Direct!Post, Direct!Results, Msgs, Posted
<1>6. \A p \in Msgs : In(mailbox, p) /\ p.ref = f.ref =>
        p.kind = "async" /\ p.id # 0 /\ p.id <= thread[c].asked /\ MsgFits(p, f)
  BY <1>0, <1>1 DEF CallFits, MsgFits, Msgs
<1>7. Mail(mailbox') /\ \A p : In(mailbox', p) <=> p = m \/ In(mailbox, p)
  <2>1. ASSUME NEW p \in Msgs, In(mailbox, p)
        PROVE  ~Same(p, m) /\ (p.ref = m.ref => p.kind # "result")
    <3>1. CASE p.ref = f.ref
      BY <1>5, <1>6, <2>1, <3>1 DEF Same
    <3>2. CASE p.ref # f.ref
      BY <1>5, <3>2 DEF Same
    <3> QED
      BY <3>1, <3>2
  <2> QED
    BY <1>5, <2>1, Post
<1>8. /\ \A g \in Waits : In(waits, g) /\ g # f => CallFits(g)'
      /\ \A d \in Contexts : d # c => ThreadFits(d)'
  <2>1. \A p \in Msgs : p.ref # f.ref => (In(mailbox', p) <=> In(mailbox, p))
    BY <1>5, <1>7
  <2> QED
    BY <1>0, <1>1, <1>2, <1>3, <2>1, OthersKept
<1>9. CallFits(f)'
  <2>1. Mailed("result", f.ref, 0)'
    BY <1>5, <1>7 DEF Mailed
  <2>2. ASSUME NEW p \in Msgs, In(mailbox', p), p.ref = f.ref PROVE MsgFits(p, f)'
    <3>1. CASE p = m
      BY <1>1, <1>2, <1>3, <1>5, <3>1 DEF MsgFits
    <3>2. CASE In(mailbox, p)
      <4>1. p.kind = "async" /\ p.id # 0 /\ p.id <= thread[c].asked /\ MsgFits(p, f)
        BY <1>6, <2>2, <3>2
      <4> QED
        BY <1>0, <1>1, <1>3, <4>1 DEF MsgFits
    <3> QED
      BY <1>7, <2>2, <3>1, <3>2
  <2> QED
    BY <1>0, <1>1, <1>3, <2>1, <2>2 DEF CallFits
<1>10. ThreadFits(c)'
  BY <1>0, <1>3 DEF ThreadFits
<1>11. Past'
  <2>1. \A p \in Msgs : In(mailbox', p) => \E g \in Waits : In(waits', g) /\ g.ref = p.ref
    BY <1>0, <1>1, <1>5, <1>7 DEF Past
  <2>2. ASSUME NEW k \in Away'
        PROVE  k.ref <= refs' /\ (k.ref = thread'[k.ctx].ref => k.id <= thread'[k.ctx].asked)
    <3>1. k \in Away /\ k.ctx \in Contexts /\ k.id \in Nat
      BY <1>0 DEF Away, DirectTypes, Keys
    <3>2. k.ref <= refs /\ (k.ref = thread[k.ctx].ref => k.id <= thread[k.ctx].asked)
      BY <3>1 DEF Past
    <3> QED
      BY <1>0, <1>3, <3>1, <3>2
  <2>3. \A d \in marked' : thread'[d].poisoned
    BY <1>0, <1>3 DEF Past, DirectTypes
  <2>4. \A r \in 1..MaxCalls : got'[r] # "none" => got'[r] = sent'[r] /\ r <= refs'
    BY <1>0, <1>1, <1>2 DEF Past, CallFits
  <2> QED
    BY <1>0, <2>1, <2>2, <2>3, <2>4 DEF Past
<1>12. DirectTypes' /\ Nested(waits')
  BY <1>0, <1>2, <1>3 DEF DirectTypes
<1> QED
  BY <1>0, <1>1, <1>7, <1>8, <1>9, <1>10, <1>11, <1>12 DEF DirectInv

LEMMA SignalStep ==
  ASSUME DirectInv, Direct!Signal
  PROVE  DirectInv'
<1> USE Parts
<1>0. /\ waits # <<>> /\ UNCHANGED <<mailbox, tasks, marked, refs, sent, got, killed>> /\ Away' = Away
  BY DEF Direct!Signal, Away
<1>1. PICK f : f = waits[Len(waits)]
  OBVIOUS
<1>2. /\ f \in Waits /\ In(waits, f) /\ f.serving # 0
      /\ \A g : In(waits, g) /\ g # f => g.serving # 0 /\ Apart(g, f)
  BY <1>0, <1>1, TopWait DEF Direct!Signal, Direct!Top
<1>3. PICK c \in Contexts : c = f.ctx
  BY <1>2
<1>4. CallFits(f) /\ thread[c].state = "waiting" /\ thread[c].asked = f.serving /\ thread[c].ref = f.ref
  BY <1>2, <1>3 DEF CallFits
<1>5. /\ thread' \in [Contexts -> Threads] /\ \A d \in Contexts : d # c => thread'[d] = thread[d]
      /\ thread'[c].state = "running" /\ thread'[c].ref = thread[c].ref
      /\ thread'[c].asked = thread[c].asked
      /\ thread'[c].pending = thread[c].pending /\ thread'[c].poisoned = thread[c].poisoned
  <2>1. thread' = [thread EXCEPT ![c].state = "running"]
    BY <1>1, <1>3, <1>4 DEF Direct!Signal, Direct!Top
  <2> QED
    BY <2>1 DEF DirectTypes, Threads
<1>6. PICK u : u = [f EXCEPT !.serving = 0]
  OBVIOUS
<1>7. u \in Waits /\ u.ctx = f.ctx /\ u.ref = f.ref /\ u.serving = 0
  BY <1>2, <1>6 DEF Waits
<1>8. Nested(waits') /\ \A g : In(waits', g) <=> g = u \/ (In(waits, g) /\ g # f)
  <2>1. Changed(waits', waits, u)
    BY <1>1, <1>6 DEF Direct!Signal, Direct!Top, Direct!SetTop, Changed
  <2> QED
    BY <1>0, <1>1, <1>7, <2>1, ChangeWait
<1>9. /\ \A g \in Waits : In(waits, g) /\ g # f => CallFits(g)'
      /\ \A d \in Contexts : d # c => ThreadFits(d)'
  BY <1>0, <1>2, <1>3, <1>4, <1>5, <1>8, OthersKept
<1>10. CallFits(u)'
  <2>1. ASSUME NEW m \in Msgs, In(mailbox', m), m.ref = u.ref PROVE MsgFits(m, u)'
    <3>1. MsgFits(m, f)
      BY <1>0, <1>4, <1>7, <2>1 DEF CallFits
    <3>2. m.kind = "async"
      BY <1>2, <1>3, <1>4, <3>1 DEF MsgFits, Msgs
    <3> QED
      BY <1>0, <1>3, <1>5, <1>7, <3>1, <3>2 DEF MsgFits
  <2> QED
    BY <1>0, <1>3, <1>4, <1>5, <1>7, <2>1 DEF CallFits
<1>11. ThreadFits(c)'
  <2>1. ThreadFits(c)
    OBVIOUS
  <2>2. \A sort, r, id : Mailed(sort, r, id)' <=> Mailed(sort, r, id)
    BY <1>0 DEF Mailed
  <2>3. \E g \in Waits : In(waits', g) /\ g.ctx = c
    BY <1>3, <1>7, <1>8
  <2> QED
    BY <1>0, <1>4, <1>5, <2>1, <2>2, <2>3 DEF ThreadFits
<1>12. Past'
  <2>1. \A m \in Msgs : In(mailbox', m) => \E g \in Waits : In(waits', g) /\ g.ref = m.ref
    BY <1>0, <1>7, <1>8 DEF Past
  <2>2. ASSUME NEW k \in Away'
        PROVE  k.ref <= refs' /\ (k.ref = thread'[k.ctx].ref => k.id <= thread'[k.ctx].asked)
    <3>1. k \in Away /\ k.ctx \in Contexts
      BY <1>0 DEF Away, DirectTypes, Keys
    <3> QED
      BY <1>0, <1>5, <3>1 DEF Past
  <2>3. \A d \in marked' : thread'[d].poisoned
    BY <1>0, <1>5 DEF Past, DirectTypes
  <2> QED
    BY <1>0, <2>1, <2>2, <2>3 DEF Past
<1>13. DirectTypes' /\ Mail(mailbox')
  BY <1>0, <1>5 DEF DirectTypes
<1>14. \A g \in Waits : In(waits', g) => CallFits(g)'
  BY <1>8, <1>9, <1>10
<1> QED
  BY <1>8, <1>9, <1>11, <1>12, <1>13, <1>14 DEF DirectInv

\* The message the innermost call takes: the first of its request.
LEMMA Taking ==
  ASSUME DirectInv, waits # <<>>, NEW f, f = waits[Len(waits)], NEW i \in Direct!Mine(f),
         Direct!Take(i)
  PROVE  /\ i \in 1..Len(mailbox) /\ mailbox[i] \in Msgs /\ mailbox[i].ref = f.ref
         /\ In(mailbox, mailbox[i]) /\ Mail(mailbox')
         /\ \A o : In(mailbox, o) <=> o = mailbox[i] \/ In(mailbox', o)
         /\ \A o : In(mailbox', o) => ~Same(o, mailbox[i])
         /\ mailbox[i].kind = "result" => \A o : In(mailbox', o) => o.ref # f.ref
<1>1. mailbox \in Seq(Msgs) /\ Mail(mailbox)
  BY Parts DEF Mail
<1>2. PICK S : S = Direct!MessagesOf(f)
  OBVIOUS
<1>3. S = {j \in 1..Len(mailbox) : mailbox[j].ref = f.ref}
  BY <1>1, <1>2 DEF Direct!MessagesOf
<1>4. S # {} /\ i = Direct!Min(S)
  BY <1>2 DEF Direct!Mine
<1>5. S \subseteq Nat
  BY <1>3
<1>6. i \in S /\ \A j \in S : i <= j
  BY <1>4, <1>5, Least
<1>7. i \in 1..Len(mailbox) /\ First(mailbox, f.ref, i)
  BY <1>3, <1>6 DEF First
<1>8. Taken(mailbox', mailbox, i)
  BY DEF Direct!Take, Taken
<1> QED
  BY <1>1, <1>7, <1>8, TakeFirst DEF First

LEMMA ReceiveStep ==
  ASSUME DirectInv, Direct!Receive
  PROVE  DirectInv'
<1> USE Parts
<1>0. /\ waits # <<>> /\ UNCHANGED <<thread, refs, sent, killed>>
      /\ waits[Len(waits)].serving = 0
  BY DEF Direct!Receive, Direct!Runs, Direct!Top
<1>1. PICK f : f = waits[Len(waits)]
  OBVIOUS
<1>2. /\ f \in Waits /\ In(waits, f) /\ f.serving = 0
      /\ \A g : In(waits, g) /\ g # f => g.serving # 0 /\ Apart(g, f)
  BY <1>0, <1>1, TopWait
<1>3. PICK c \in Contexts : c = f.ctx
  BY <1>2
<1>4. PICK i \in Direct!Mine(f) :
        /\ Direct!Take(i)
        /\ Direct!ReceiveResult(i) \/ Direct!ReceiveCallback(i) \/ Direct!ReceiveAsync(i)
  BY <1>1 DEF Direct!Receive, Direct!Top
<1>5. PICK m : m = mailbox[i]
  OBVIOUS
<1>6. /\ m \in Msgs /\ m.ref = f.ref /\ In(mailbox, m) /\ Mail(mailbox')
      /\ \A o : In(mailbox, o) <=> o = m \/ In(mailbox', o)
      /\ \A o : In(mailbox', o) => ~Same(o, m)
      /\ m.kind = "result" => \A o : In(mailbox', o) => o.ref # f.ref
  BY <1>0, <1>1, <1>4, <1>5, Taking
<1>7. CallFits(f) /\ MsgFits(m, f) /\ ThreadFits(c)
  BY <1>2, <1>6 DEF CallFits
<1>8. \A o \in Msgs : o.ref # f.ref => (In(mailbox', o) <=> In(mailbox, o))
  BY <1>6
<1>9. CASE Direct!ReceiveResult(i)
  <2>1. /\ m.kind = "result" /\ Popped(waits', waits) /\ tasks' = tasks
        /\ got' = [got EXCEPT ![f.ref] = m.out]
        /\ marked' = IF m.out = "oom" THEN marked \union {f.ctx} ELSE marked
    BY <1>1, <1>5, <1>9 DEF Direct!ReceiveResult, Direct!Top, Popped
  <2>2. /\ thread[c].state = "idle" /\ thread[c].pending = {} /\ m.out = sent[f.ref]
        /\ (m.out = "oom" => thread[c].poisoned)
    BY <1>3, <1>7, <2>1 DEF MsgFits, ThreadFits
  <2>3. Nested(waits') /\ \A g : In(waits', g) <=> In(waits, g) /\ g # f
    BY <1>0, <1>1, <2>1, PopWait
  <2>4. /\ got' \in [1..MaxCalls -> {"none", "ok", "oom"}] /\ got'[f.ref] = m.out
        /\ \A r \in 1..MaxCalls : r # f.ref => got'[r] = got[r]
    BY <1>2, <1>6, <2>1 DEF DirectTypes, Msgs, Direct!Results
  <2>5. Away' = Away
    BY <1>0, <2>1 DEF Away
  <2>6. /\ \A g \in Waits : In(waits, g) /\ g # f => CallFits(g)'
        /\ \A d \in Contexts : d # c => ThreadFits(d)'
    BY <1>0, <1>2, <1>3, <1>7, <1>8, <2>3, <2>4, <2>5, OthersKept
  <2>7. ThreadFits(c)'
    BY <1>0, <1>7, <2>2 DEF ThreadFits
  <2>8. DirectTypes'
    BY <1>0, <1>3, <2>1, <2>4 DEF DirectTypes
  <2>9. Past'
    <3>1. ASSUME NEW o \in Msgs, In(mailbox', o) PROVE \E g \in Waits : In(waits', g) /\ g.ref = o.ref
      <4>1. In(mailbox, o) /\ o.ref # f.ref
        BY <1>6, <2>1, <3>1
      <4> QED
        BY <2>3, <4>1 DEF Past
    <3>2. \A k \in Away' : k.ref <= refs' /\ (k.ref = thread'[k.ctx].ref => k.id <= thread'[k.ctx].asked)
      BY <1>0, <2>5 DEF Past
    <3>3. \A d \in marked' : thread'[d].poisoned
      BY <1>0, <1>3, <2>1, <2>2 DEF Past
    <3>4. ASSUME NEW r \in 1..MaxCalls, got'[r] # "none" PROVE got'[r] = sent'[r] /\ r <= refs'
      <4>1. CASE r = f.ref
        BY <1>0, <1>7, <2>2, <2>4, <4>1 DEF CallFits
      <4>2. CASE r # f.ref
        BY <1>0, <2>4, <3>4, <4>2 DEF Past
      <4> QED
        BY <4>1, <4>2
    <3> QED
      BY <1>0, <2>1, <3>1, <3>2, <3>3, <3>4 DEF Past
  <2>10. \A g \in Waits : In(waits', g) => CallFits(g)'
    BY <2>3, <2>6
  <2> QED
    BY <1>6, <2>3, <2>6, <2>7, <2>8, <2>9, <2>10 DEF DirectInv
<1>10. CASE Direct!ReceiveCallback(i)
  <2>1. PICK u : u = [f EXCEPT !.serving = m.id]
    OBVIOUS
  <2>2. m.kind = "callback" /\ Changed(waits', waits, u) /\ UNCHANGED <<got, marked, tasks>>
    BY <1>1, <1>5, <1>10, <2>1 DEF Direct!ReceiveCallback, Direct!Top, Direct!SetTop, Changed
  <2>3. m.id # 0 /\ m.id \in Nat /\ thread[c].state = "waiting" /\ thread[c].asked = m.id
    BY <1>3, <1>6, <1>7, <2>2 DEF MsgFits, Msgs
  <2>4. u \in Waits /\ u.ctx = f.ctx /\ u.ref = f.ref /\ u.serving = m.id
    BY <1>2, <2>1, <2>3 DEF Waits
  <2>5. Nested(waits') /\ \A g : In(waits', g) <=> g = u \/ (In(waits, g) /\ g # f)
    BY <1>0, <1>1, <2>2, <2>4, ChangeWait
  <2>6. Away' = Away
    BY <1>0, <2>2 DEF Away
  <2>7. /\ \A g \in Waits : In(waits, g) /\ g # f => CallFits(g)'
        /\ \A d \in Contexts : d # c => ThreadFits(d)'
    BY <1>0, <1>2, <1>3, <1>7, <1>8, <2>2, <2>5, <2>6, OthersKept
  <2>8. CallFits(u)'
    <3>1. ASSUME NEW o \in Msgs, In(mailbox', o), o.ref = u.ref PROVE MsgFits(o, u)'
      <4>1. MsgFits(o, f) /\ ~Same(o, m)
        BY <1>6, <1>7, <2>4, <3>1 DEF CallFits
      <4>2. o.kind = "async"
        <5>1. o.kind # "result"
          BY <1>3, <2>3, <4>1 DEF MsgFits
        <5>2. o.kind = "callback" => Same(o, m)
          BY <1>3, <1>6, <2>3, <2>4, <3>1, <4>1 DEF MsgFits, Same
        <5> QED
          BY <4>1, <5>1, <5>2 DEF Msgs
      <4> QED
        BY <1>0, <2>4, <2>6, <4>1, <4>2 DEF MsgFits
    <3> QED
      BY <1>0, <1>3, <1>7, <2>2, <2>3, <2>4, <3>1 DEF CallFits
  <2>9. ThreadFits(c)'
    <3>1. \A id : Mailed("async", f.ref, id) => Mailed("async", f.ref, id)'
      BY <1>6, <2>2 DEF Mailed
    <3>2. thread[c].ref = f.ref
      BY <1>3, <1>7 DEF CallFits
    <3>3. \E g \in Waits : In(waits', g) /\ g.ctx = c
      BY <1>3, <2>4, <2>5
    <3> QED
      BY <1>0, <1>7, <2>3, <2>6, <3>1, <3>2, <3>3 DEF ThreadFits
  <2>10. DirectTypes'
    BY <1>0, <2>2 DEF DirectTypes
  <2>11. Past'
    <3>1. ASSUME NEW o \in Msgs, In(mailbox', o) PROVE \E g \in Waits : In(waits', g) /\ g.ref = o.ref
      BY <1>6, <2>4, <2>5, <3>1 DEF Past
    <3> QED
      BY <1>0, <2>2, <2>6, <3>1 DEF Past
  <2>12. \A g \in Waits : In(waits', g) => CallFits(g)'
    BY <2>5, <2>7, <2>8
  <2> QED
    BY <1>6, <2>5, <2>7, <2>9, <2>10, <2>11, <2>12 DEF DirectInv
<1>11. CASE Direct!ReceiveAsync(i)
  <2>1. PICK k : k = KeyOf(f.ctx, f.ref, m.id)
    OBVIOUS
  <2>2. m.kind = "async" /\ tasks' = tasks \union {k} /\ UNCHANGED <<got, marked, waits>>
    BY <1>1, <1>5, <1>11, <2>1 DEF Direct!ReceiveAsync, Direct!Top, KeyOf
  <2>3. /\ k \in Keys /\ k.ctx = c /\ k.ref = f.ref /\ k.id = m.id /\ k \notin Away
        /\ m.id <= thread[c].asked
    BY <1>2, <1>3, <1>6, <1>7, <2>1, <2>2 DEF Keys, KeyOf, MsgFits, Msgs, Waits
  <2>4. Away' = Away \union {k}
    BY <1>0, <2>2 DEF Away
  <2>5. /\ \A g \in Waits : In(waits, g) /\ g # f => CallFits(g)'
        /\ \A d \in Contexts : d # c => ThreadFits(d)'
    BY <1>0, <1>2, <1>3, <1>7, <1>8, <2>2, <2>3, <2>4, OthersKept
  <2>6. CallFits(f)'
    <3>1. ASSUME NEW o \in Msgs, In(mailbox', o), o.ref = f.ref PROVE MsgFits(o, f)'
      <4>1. MsgFits(o, f) /\ ~Same(o, m)
        BY <1>6, <1>7, <3>1 DEF CallFits
      <4>2. o.id # m.id
        BY <1>6, <3>1, <4>1 DEF Same
      <4>3. KeyOf(f.ctx, f.ref, o.id) # k
        BY <2>3, <4>2 DEF KeyOf
      <4> QED
        BY <1>0, <2>4, <4>1, <4>3 DEF MsgFits
    <3>2. \A sort, id : sort # "async" /\ Mailed(sort, f.ref, id) => Mailed(sort, f.ref, id)'
      BY <1>6, <2>2 DEF Mailed
    <3> QED
      BY <1>0, <1>7, <2>2, <3>1, <3>2 DEF CallFits
  <2>7. ThreadFits(c)'
    <3>1. ASSUME NEW id, Mailed("async", f.ref, id)
          PROVE  KeyOf(c, f.ref, id) \in Away' \/ Mailed("async", f.ref, id)'
      <4>1. CASE id = m.id
        BY <1>3, <2>1, <2>4, <4>1
      <4>2. CASE id # m.id
        BY <1>6, <3>1, <4>2 DEF Mailed
      <4> QED
        BY <4>1, <4>2
    <3>2. thread[c].ref = f.ref
      BY <1>3, <1>7 DEF CallFits
    <3> QED
      BY <1>0, <1>7, <2>2, <2>4, <3>1, <3>2 DEF ThreadFits
  <2>8. DirectTypes'
    BY <1>0, <2>2, <2>3 DEF DirectTypes
  <2>9. Past'
    <3>1. \A o \in Msgs : In(mailbox', o) => \E g \in Waits : In(waits', g) /\ g.ref = o.ref
      BY <1>6, <2>2 DEF Past
    <3>2. \A j \in tasks' : j \notin killed'
      BY <1>0, <2>2, <2>3 DEF Past, Away
    <3>3. \A j \in Away' : j.ref <= refs' /\ (j.ref = thread'[j.ctx].ref => j.id <= thread'[j.ctx].asked)
      BY <1>0, <1>7, <2>3, <2>4 DEF Past, CallFits
    <3> QED
      BY <1>0, <2>2, <3>1, <3>2, <3>3 DEF Past
  <2>10. \A g \in Waits : In(waits', g) => CallFits(g)'
    BY <2>2, <2>5, <2>6
  <2> QED
    BY <1>6, <2>2, <2>5, <2>7, <2>8, <2>9, <2>10 DEF DirectInv
<1> QED
  BY <1>4, <1>9, <1>10, <1>11

LEMMA DirectStep == DirectInv /\ [Direct!Next]_directVars => DirectInv'
<1> SUFFICES ASSUME DirectInv, [Direct!Next]_directVars PROVE DirectInv'
  OBVIOUS
<1>1. ASSUME NEW c \in Contexts, Direct!Call(c) PROVE DirectInv'
  BY <1>1, CallStep
<1>2. ASSUME NEW c \in Contexts, Direct!AskSync(c) PROVE DirectInv'
  BY <1>2, AskSyncStep
<1>3. ASSUME NEW c \in Contexts, Direct!AskAsync(c) PROVE DirectInv'
  BY <1>3, AskAsyncStep
<1>4. ASSUME NEW c \in Contexts, Direct!Await(c) PROVE DirectInv'
  BY <1>4, AwaitStep
<1>5. ASSUME NEW c \in Contexts, NEW o \in Direct!Results, Direct!Finish(c, o) PROVE DirectInv'
  BY <1>5, FinishStep
<1>6. CASE Direct!Receive
  BY <1>6, ReceiveStep
<1>7. CASE Direct!Signal
  BY <1>7, SignalStep
<1>8. ASSUME NEW t \in tasks, Direct!Resolve(t) PROVE DirectInv'
  BY <1>8, ResolveStep
<1>9. ASSUME NEW t \in tasks, Direct!Kill(t) PROVE DirectInv'
  BY <1>9, KillStep
<1>10. CASE UNCHANGED directVars
  <2>1. UNCHANGED <<thread, waits, mailbox, tasks, marked, refs, sent, got, killed>>
    BY <1>10 DEF directVars
  <2>2. DirectTypes' /\ Nested(waits') /\ Mail(mailbox') /\ Past'
    BY <2>1, Parts DEF DirectTypes, Past, Away
  <2>3. ASSUME NEW f \in Waits, In(waits', f) PROVE CallFits(f)'
    BY <2>1, <2>3, Parts DEF CallFits, MsgFits, Mailed, Away
  <2>4. ASSUME NEW c \in Contexts PROVE ThreadFits(c)'
    BY <2>1, Parts DEF ThreadFits, Mailed, Away
  <2> QED
    BY <2>2, <2>3, <2>4 DEF DirectInv
<1> QED
  BY <1>1, <1>2, <1>3, <1>4, <1>5, <1>6, <1>7, <1>8, <1>9, <1>10 DEF Direct!Next

-----------------------------------------------------------------------------
(* Every host call has one server. *)

LEMMA CountMessages ==
  ASSUME DirectInv, NEW sort, NEW r, NEW id
  PROVE  Direct!Messages(sort, r, id) = IF Mailed(sort, r, id) THEN 1 ELSE 0
<1> DEFINE S == {i \in DOMAIN mailbox :
                   mailbox[i].kind = sort /\ mailbox[i].ref = r /\ mailbox[i].id = id}
<1>1. mailbox \in Seq(Msgs) /\ Distinct(mailbox) /\ DOMAIN mailbox = 1..Len(mailbox)
  BY Parts DEF Mail
<1>2. \A i, j \in S : i = j
  BY <1>1 DEF Distinct, Same
<1>3. S # {} <=> Mailed(sort, r, id)
  <2>1. ASSUME NEW i \in S PROVE Mailed(sort, r, id)
    <3>1. mailbox[i] \in Msgs /\ In(mailbox, mailbox[i])
      BY <1>1 DEF In
    <3> QED
      BY <3>1 DEF Mailed
  <2>2. ASSUME Mailed(sort, r, id) PROVE S # {}
    BY <1>1, <2>2 DEF Mailed, In
  <2> QED
    BY <2>1, <2>2
<1>4. Cardinality(S) = IF S = {} THEN 0 ELSE 1
  <2> HIDE DEF S
  <2> QED
    BY <1>2, AtMostOne
<1>5. Direct!Messages(sort, r, id) = Cardinality(S)
  BY SameCardinality DEF Direct!Messages
<1> HIDE DEF S
<1> QED
  BY <1>3, <1>4, <1>5

LEMMA CountServers ==
  ASSUME DirectInv, NEW f \in Waits, In(waits, f), NEW id
  PROVE  Direct!Servers(f.ref, id) = IF f.serving = id THEN 1 ELSE 0
<1> DEFINE S == {i \in DOMAIN waits : waits[i].ref = f.ref /\ waits[i].serving = id}
<1>1. waits \in Seq(Waits) /\ One(waits) /\ DOMAIN waits = 1..Len(waits)
  BY Parts DEF Nested
<1>2. \A i, j \in S : i = j
  BY <1>1 DEF One
<1>3. PICK k \in 1..Len(waits) : waits[k] = f
  BY DEF In
<1>4. S # {} <=> f.serving = id
  BY <1>1, <1>3 DEF One
<1>5. Cardinality(S) = IF S = {} THEN 0 ELSE 1
  <2> HIDE DEF S
  <2> QED
    BY <1>2, AtMostOne
<1>6. Direct!Servers(f.ref, id) = Cardinality(S)
  BY SameCardinality DEF Direct!Servers
<1> HIDE DEF S
<1> QED
  BY <1>4, <1>5, <1>6

LEMMA Served == DirectInv => Direct!LoopsServe
<1> SUFFICES ASSUME DirectInv PROVE Direct!LoopsServe
  OBVIOUS
<1> USE Parts
<1>1. waits \in Seq(Waits) /\ One(waits) /\ Busy(waits) /\ Len(waits) \in Nat
  BY DEF Nested
<1>2. \A i \in DOMAIN waits : i \in 1..Len(waits) /\ waits[i] \in Waits /\ In(waits, waits[i])
  BY <1>1 DEF In
<1>3. ASSUME NEW f \in Waits, In(waits, f)
      PROVE  /\ thread[f.ctx].ref = f.ref
             /\ thread[f.ctx].state = "idle" <=> Mailed("result", f.ref, 0)
  <2>1. CallFits(f)
    BY <1>3
  <2>2. ASSUME NEW m \in Msgs, In(mailbox, m), m.kind = "result", m.ref = f.ref
        PROVE  thread[f.ctx].state = "idle"
    BY <2>1, <2>2 DEF CallFits, MsgFits
  <2> QED
    BY <2>1, <2>2 DEF CallFits, Mailed
<1>4. Direct!CallsAreServed
  <2> SUFFICES ASSUME NEW i \in DOMAIN waits, NEW j \in DOMAIN waits
               PROVE  /\ i # j => waits[i].ctx # waits[j].ctx
                      /\ i < Len(waits) => waits[i].serving # 0
                      /\ thread[waits[i].ctx].ref = waits[i].ref
                      /\ thread[waits[i].ctx].state = "idle"
                           <=> Direct!Messages("result", waits[i].ref, 0) = 1
    BY DEF Direct!CallsAreServed
  <2>1. i # j => waits[i].ctx # waits[j].ctx
    BY <1>1, <1>2 DEF One
  <2>2. i < Len(waits) => waits[i].serving # 0
    BY <1>1, <1>2 DEF Busy
  <2>3. PICK f \in Waits : f = waits[i] /\ In(waits, f)
    BY <1>2
  <2>4. Direct!Messages("result", f.ref, 0) = IF Mailed("result", f.ref, 0) THEN 1 ELSE 0
    BY CountMessages
  <2> QED
    BY <1>3, <2>1, <2>2, <2>3, <2>4
<1>5. ASSUME NEW c \in Contexts, thread[c].state = "waiting"
      PROVE  Direct!Messages("callback", thread[c].ref, thread[c].asked)
               + Direct!Servers(thread[c].ref, thread[c].asked) = 1
  <2>1. PICK f \in Waits : In(waits, f) /\ f.ctx = c /\ f.ref = thread[c].ref /\ CallFits(f)
    BY <1>5, CallOf
  <2>2. Direct!Messages("callback", f.ref, thread[c].asked)
          = IF Mailed("callback", f.ref, thread[c].asked) THEN 1 ELSE 0
    BY CountMessages
  <2>3. Direct!Servers(f.ref, thread[c].asked) = IF f.serving = thread[c].asked THEN 1 ELSE 0
    BY <2>1, CountServers
  <2>4. f.serving = thread[c].asked \/ Mailed("callback", f.ref, thread[c].asked)
    BY <1>5, <2>1 DEF CallFits
  <2>5. ASSUME NEW m \in Msgs, In(mailbox, m), m.kind = "callback", m.ref = f.ref,
               f.serving = thread[c].asked
        PROVE  FALSE
    <3>1. MsgFits(m, f)
      BY <2>1, <2>5 DEF CallFits
    <3> QED
      BY <2>1, <2>5, <3>1 DEF MsgFits
  <2>6. ~(f.serving = thread[c].asked /\ Mailed("callback", f.ref, thread[c].asked))
    BY <2>5 DEF Mailed
  <2> QED
    BY <2>1, <2>2, <2>3, <2>4, <2>6
<1>6. ASSUME NEW c \in Contexts, NEW id \in thread[c].pending, NEW k, k = KeyOf(c, thread[c].ref, id)
      PROVE  Direct!Messages("async", thread[c].ref, id) + Cardinality({k} \intersect tasks)
               + Cardinality({k} \intersect killed) = 1
  <2>1. ThreadFits(c)
    OBVIOUS
  <2>2. thread[c].state # "idle" /\ (k \in Away \/ Mailed("async", thread[c].ref, id))
    BY <1>6, <2>1 DEF ThreadFits
  <2>3. PICK f \in Waits : In(waits, f) /\ f.ctx = c /\ f.ref = thread[c].ref /\ CallFits(f)
    BY <2>2, CallOf
  <2>4. ASSUME NEW m \in Msgs, In(mailbox, m), m.kind = "async", m.ref = f.ref, m.id = id
        PROVE  k \notin Away
    <3>1. MsgFits(m, f)
      BY <2>3, <2>4 DEF CallFits
    <3> QED
      BY <1>6, <2>3, <2>4, <3>1 DEF MsgFits
  <2>5. Mailed("async", thread[c].ref, id) => k \notin Away
    BY <2>3, <2>4 DEF Mailed
  <2>6. k \in tasks => k \notin killed
    BY DEF Past
  <2>7. ASSUME NEW S PROVE Cardinality({k} \intersect S) = IF k \in S THEN 1 ELSE 0
    <3>1. \A x, y \in {k} \intersect S : x = y
      OBVIOUS
    <3>2. Cardinality({k} \intersect S) = IF {k} \intersect S = {} THEN 0 ELSE 1
      BY <3>1, AtMostOne
    <3>3. {k} \intersect S = {} <=> k \notin S
      OBVIOUS
    <3> QED
      BY <3>2, <3>3
  <2>8. Direct!Messages("async", thread[c].ref, id) = IF Mailed("async", thread[c].ref, id) THEN 1 ELSE 0
    BY CountMessages
  <2>9. k \in Away <=> k \in tasks \/ k \in killed
    BY DEF Away
  <2>10. /\ Cardinality({k} \intersect tasks) = IF k \in tasks THEN 1 ELSE 0
         /\ Cardinality({k} \intersect killed) = IF k \in killed THEN 1 ELSE 0
    BY <2>7
  <2> QED
    BY <2>2, <2>5, <2>6, <2>8, <2>9, <2>10
<1>7. Direct!HostCallsAreServed
  <2> SUFFICES ASSUME NEW c \in Contexts
               PROVE  /\ thread[c].state = "waiting" =>
                           Direct!Messages("callback", thread[c].ref, thread[c].asked)
                             + Direct!Servers(thread[c].ref, thread[c].asked) = 1
                      /\ \A id \in thread[c].pending :
                           LET k == [ctx |-> c, ref |-> thread[c].ref, id |-> id] IN
                           Direct!Messages("async", thread[c].ref, id)
                             + Direct!Cardinality({k} \intersect tasks)
                             + Direct!Cardinality({k} \intersect killed) = 1
    BY DEF Direct!HostCallsAreServed
  <2>1. ASSUME NEW id \in thread[c].pending, NEW k, k = [ctx |-> c, ref |-> thread[c].ref, id |-> id]
        PROVE  Direct!Messages("async", thread[c].ref, id) + Direct!Cardinality({k} \intersect tasks)
                 + Direct!Cardinality({k} \intersect killed) = 1
    <3>1. k = KeyOf(c, thread[c].ref, id)
      BY <2>1 DEF KeyOf
    <3> QED
      BY <1>6, <3>1, SameCardinality
  <2> QED
    BY <1>5, <2>1
<1>8. Direct!NothingLeft
  <2>1. ASSUME NEW i \in DOMAIN mailbox PROVE \E j \in DOMAIN waits : waits[j].ref = mailbox[i].ref
    <3>1. mailbox[i] \in Msgs /\ In(mailbox, mailbox[i])
      BY DEF Mail, In
    <3>2. PICK f \in Waits : In(waits, f) /\ f.ref = mailbox[i].ref
      BY <3>1 DEF Past
    <3> QED
      BY <1>1, <3>2 DEF In
  <2>2. \A r \in 1..refs : r \in 1..MaxCalls
    BY CallsBound DEF DirectTypes
  <2> QED
    BY <2>1, <2>2 DEF Direct!NothingLeft, Past
<1> QED
  BY <1>4, <1>7, <1>8 DEF Direct!LoopsServe

\* However calls nest over contexts, and whenever the tasks of async callbacks end or are
\* killed: every host call has one server, every call gets its own result, and nothing of
\* a call that returned is left in the mailbox.
THEOREM EachServed == Spec => []LoopsServe
<1> DEFINE I == component = "direct" => DirectInv
<1>1. Init => I
  BY DirectStarts DEF Init, directInit
<1>2. I /\ [Next]_vars => I'
  BY DirectStep DEF Next, vars, directNext, directVars
<1>3. I => LoopsServe
  BY Served DEF LoopsServe
<1> QED
  BY <1>1, <1>2, <1>3, PTL DEF Spec
=============================================================================
