---------------------------- MODULE PromiseProofs ----------------------------
(***************************************************************************)
(* Proofs about promises and their jobs (JsPromise), for any number of     *)
(* promises, resolving functions, reactions, async functions and evals.    *)
(*                                                                         *)
(* An operation of the code is a few changes of the promises, the queue    *)
(* and the stack.  Each change has a predicate on the values before and    *)
(* after it, and a lemma for each part of the invariant.                   *)
(***************************************************************************)
EXTENDS EngineControl, SequenceTheorems, FiniteSetTheorems, WellFoundedInduction, TLAPS

-----------------------------------------------------------------------------
(* Sequences: which sets they have elements of, how often and in what order. *)

Has(s, S) == \E i \in 1..Len(s) : s[i] \in S
Sole(s, S) == \A i, j \in 1..Len(s) : s[i] \in S /\ s[j] \in S => i = j
Before(s, S, U) == \A i, j \in 1..Len(s) : s[i] \in S /\ s[j] \in U => i < j

Appended(t, s, x) == t = Append(s, x)
Joined(t, s, u) == t = s \o u
Consed(t, x, s) == t = <<x>> \o s
Beheaded(t, s) == s # <<>> /\ t = Tail(s)
Dropped(t, s, l) == t = SubSeq(s, l + 1, Len(s))

LEMMA Joining ==
  ASSUME NEW T, NEW s \in Seq(T), NEW u \in Seq(T), NEW t, Joined(t, s, u)
  PROVE  /\ t \in Seq(T) /\ Len(t) = Len(s) + Len(u)
         /\ \A i \in 1..Len(s) : t[i] = s[i]
         /\ \A i \in 1..Len(u) : t[Len(s) + i] = u[i]
         /\ \A S : Has(t, S) <=> Has(s, S) \/ Has(u, S)
         /\ \A S : Sole(s, S) /\ Sole(u, S) /\ ~(Has(s, S) /\ Has(u, S)) => Sole(t, S)
         /\ \A S, U : Before(s, S, U) /\ Before(u, S, U) /\ ~(Has(u, S) /\ Has(s, U)) => Before(t, S, U)
<1>1. /\ t \in Seq(T) /\ Len(t) = Len(s) + Len(u) /\ Len(s) \in Nat /\ Len(u) \in Nat
      /\ \A i \in 1..Len(s) : t[i] = s[i]
      /\ \A i \in 1..Len(u) : t[Len(s) + i] = u[i]
  <2>1. s \o u \in Seq(T) /\ Len(s \o u) = Len(s) + Len(u)
    OBVIOUS
  <2>2. \A i \in 1..Len(s) : (s \o u)[i] = s[i]
    OBVIOUS
  <2>3. \A i \in 1..Len(u) : (s \o u)[Len(s) + i] = u[i]
    OBVIOUS
  <2> QED
    BY <2>1, <2>2, <2>3 DEF Joined
<1>2. ASSUME NEW i \in 1..Len(t)
      PROVE  \/ i \in 1..Len(s) /\ t[i] = s[i]
             \/ i - Len(s) \in 1..Len(u) /\ t[i] = u[i - Len(s)] /\ i > Len(s)
  <2>1. CASE i <= Len(s)
    BY <1>1, <2>1
  <2>2. CASE i > Len(s)
    <3>1. i - Len(s) \in 1..Len(u) /\ Len(s) + (i - Len(s)) = i
      BY <1>1, <2>2
    <3>2. t[Len(s) + (i - Len(s))] = u[i - Len(s)]
      BY <1>1, <3>1
    <3> QED
      BY <2>2, <3>1, <3>2
  <2> QED
    BY <1>1, <2>1, <2>2
<1>3. ASSUME NEW S PROVE Has(t, S) <=> Has(s, S) \/ Has(u, S)
  <2>1. ASSUME NEW i \in 1..Len(t), t[i] \in S PROVE Has(s, S) \/ Has(u, S)
    BY <1>2, <2>1 DEF Has
  <2>2. ASSUME NEW i \in 1..Len(s), s[i] \in S PROVE Has(t, S)
    <3>1. i \in 1..Len(t) /\ t[i] \in S
      BY <1>1, <2>2
    <3> QED
      BY <3>1 DEF Has
  <2>3. ASSUME NEW i \in 1..Len(u), u[i] \in S PROVE Has(t, S)
    <3>1. Len(s) + i \in 1..Len(t) /\ t[Len(s) + i] \in S
      BY <1>1, <2>3
    <3> QED
      BY <3>1 DEF Has
  <2> QED
    BY <2>1, <2>2, <2>3 DEF Has
<1>4. ASSUME NEW S, Sole(s, S), Sole(u, S), ~(Has(s, S) /\ Has(u, S)) PROVE Sole(t, S)
  <2> SUFFICES ASSUME NEW i \in 1..Len(t), NEW j \in 1..Len(t), t[i] \in S, t[j] \in S PROVE i = j
    BY DEF Sole
  <2>1. CASE i \in 1..Len(s) /\ j \in 1..Len(s)
    BY <1>1, <1>4, <2>1 DEF Sole
  <2>2. CASE i > Len(s) /\ j > Len(s)
    <3>1. /\ i - Len(s) \in 1..Len(u) /\ j - Len(s) \in 1..Len(u)
          /\ u[i - Len(s)] \in S /\ u[j - Len(s)] \in S
      BY <1>1, <1>2, <2>2
    <3>2. i - Len(s) = j - Len(s)
      BY <1>4, <3>1 DEF Sole
    <3> QED
      BY <1>1, <3>2
  <2>3. ASSUME NEW a \in 1..Len(s), NEW b \in 1..Len(t), b > Len(s), s[a] \in S, t[b] \in S
        PROVE  FALSE
    <3>1. b - Len(s) \in 1..Len(u) /\ u[b - Len(s)] \in S
      BY <1>1, <1>2, <2>3
    <3> QED
      BY <1>4, <2>3, <3>1 DEF Has
  <2>4. \A a \in 1..Len(t) : (a \in 1..Len(s) /\ t[a] = s[a]) \/ a > Len(s)
    BY <1>2
  <2> QED
    BY <2>1, <2>2, <2>3, <2>4
<1>5. ASSUME NEW S, NEW U, Before(s, S, U), Before(u, S, U), ~(Has(u, S) /\ Has(s, U))
      PROVE  Before(t, S, U)
  <2> SUFFICES ASSUME NEW i \in 1..Len(t), NEW j \in 1..Len(t), t[i] \in S, t[j] \in U PROVE i < j
    BY DEF Before
  <2>1. CASE i \in 1..Len(s) /\ j \in 1..Len(s)
    BY <1>1, <1>5, <2>1 DEF Before
  <2>2. CASE i > Len(s) /\ j > Len(s)
    <3>1. /\ i - Len(s) \in 1..Len(u) /\ j - Len(s) \in 1..Len(u)
          /\ u[i - Len(s)] \in S /\ u[j - Len(s)] \in U
      BY <1>1, <1>2, <2>2
    <3>2. i - Len(s) < j - Len(s)
      BY <1>5, <3>1 DEF Before
    <3> QED
      BY <1>1, <3>2
  <2>3. CASE i \in 1..Len(s) /\ j > Len(s)
    BY <1>1, <2>3
  <2>4. CASE j \in 1..Len(s) /\ i > Len(s)
    <3>1. i - Len(s) \in 1..Len(u) /\ u[i - Len(s)] \in S /\ s[j] \in U
      BY <1>1, <1>2, <2>4
    <3> QED
      BY <1>5, <2>4, <3>1 DEF Has
  <2> QED
    BY <1>1, <2>1, <2>2, <2>3, <2>4
<1> QED
  BY <1>1, <1>3, <1>4, <1>5

LEMMA Single ==
  ASSUME NEW T, NEW x \in T
  PROVE  /\ <<x>> \in Seq(T) /\ Len(<<x>>) = 1 /\ <<x>>[1] = x
         /\ \A S : Has(<<x>>, S) <=> x \in S
         /\ \A S : Sole(<<x>>, S)
         /\ \A S, U : ~(x \in S /\ x \in U) => Before(<<x>>, S, U)
<1>1. <<x>> \in Seq(T) /\ Len(<<x>>) = 1 /\ <<x>>[1] = x
  OBVIOUS
<1>2. \A i \in 1..Len(<<x>>) : i = 1
  OBVIOUS
<1> QED
  BY <1>1, <1>2 DEF Has, Sole, Before

LEMMA Appending ==
  ASSUME NEW T, NEW s \in Seq(T), NEW x \in T, NEW t, Appended(t, s, x)
  PROVE  /\ t \in Seq(T) /\ Len(t) = Len(s) + 1 /\ t[Len(s) + 1] = x
         /\ \A i \in 1..Len(s) : t[i] = s[i]
         /\ \A S : Has(t, S) <=> Has(s, S) \/ x \in S
         /\ \A S : Sole(s, S) /\ (x \in S => ~Has(s, S)) => Sole(t, S)
         /\ \A S, U : Before(s, S, U) /\ (x \in S => ~Has(s, U) /\ x \notin U) => Before(t, S, U)
<1>1. PICK u : u = <<x>>
  OBVIOUS
<1>2. /\ u \in Seq(T) /\ Len(u) = 1 /\ u[1] = x
      /\ \A S : Has(u, S) <=> x \in S
      /\ \A S : Sole(u, S)
      /\ \A S, U : ~(x \in S /\ x \in U) => Before(u, S, U)
  BY <1>1, Single
<1>3. Joined(t, s, u)
  BY <1>1 DEF Appended, Joined
<1>4. /\ t \in Seq(T) /\ Len(t) = Len(s) + Len(u)
      /\ \A i \in 1..Len(s) : t[i] = s[i]
      /\ \A i \in 1..Len(u) : t[Len(s) + i] = u[i]
      /\ \A S : Has(t, S) <=> Has(s, S) \/ Has(u, S)
      /\ \A S : Sole(s, S) /\ Sole(u, S) /\ ~(Has(s, S) /\ Has(u, S)) => Sole(t, S)
      /\ \A S, U : Before(s, S, U) /\ Before(u, S, U) /\ ~(Has(u, S) /\ Has(s, U)) => Before(t, S, U)
  <2>1. u \in Seq(T)
    BY <1>2
  <2> QED
    BY <1>3, <2>1, Joining
<1>5. t[Len(s) + 1] = x /\ Len(s) + Len(u) = Len(s) + 1
  <2>1. 1 \in 1..Len(u)
    BY <1>2
  <2> QED
    BY <1>2, <1>4, <2>1
<1> QED
  BY <1>2, <1>4, <1>5

LEMMA Consing ==
  ASSUME NEW T, NEW s \in Seq(T), NEW x \in T, NEW t, Consed(t, x, s)
  PROVE  /\ t \in Seq(T) /\ Len(t) = Len(s) + 1 /\ t[1] = x
         /\ \A i \in 1..Len(s) : t[i + 1] = s[i]
         /\ \A S : Has(t, S) <=> Has(s, S) \/ x \in S
         /\ \A S : Sole(s, S) /\ (x \in S => ~Has(s, S)) => Sole(t, S)
<1>1. PICK u : u = <<x>>
  OBVIOUS
<1>2. /\ u \in Seq(T) /\ Len(u) = 1 /\ u[1] = x
      /\ \A S : Has(u, S) <=> x \in S
      /\ \A S : Sole(u, S)
  BY <1>1, Single
<1>3. Joined(t, u, s)
  BY <1>1 DEF Consed, Joined
<1>4. /\ t \in Seq(T) /\ Len(t) = Len(u) + Len(s)
      /\ \A i \in 1..Len(u) : t[i] = u[i]
      /\ \A i \in 1..Len(s) : t[Len(u) + i] = s[i]
      /\ \A S : Has(t, S) <=> Has(u, S) \/ Has(s, S)
      /\ \A S : Sole(u, S) /\ Sole(s, S) /\ ~(Has(u, S) /\ Has(s, S)) => Sole(t, S)
  <2>1. u \in Seq(T)
    BY <1>2
  <2> QED
    BY <1>3, <2>1, Joining
<1>5. t[1] = x
  <2>1. 1 \in 1..Len(u)
    BY <1>2
  <2> QED
    BY <1>2, <1>4, <2>1
<1>6. \A i \in 1..Len(s) : t[i + 1] = s[i]
  <2> SUFFICES ASSUME NEW i \in 1..Len(s) PROVE t[i + 1] = s[i]
    OBVIOUS
  <2>1. Len(u) + i = i + 1
    BY <1>2
  <2> QED
    BY <1>4, <2>1
<1>7. Len(u) + Len(s) = Len(s) + 1
  BY <1>2
<1> QED
  BY <1>2, <1>4, <1>5, <1>6, <1>7

LEMMA Dropping ==
  ASSUME NEW T, NEW s \in Seq(T), NEW l \in 0..Len(s), NEW t, Dropped(t, s, l)
  PROVE  /\ t \in Seq(T) /\ Len(t) = Len(s) - l /\ \A i \in 1..(Len(s) - l) : t[i] = s[i + l]
         /\ \A S : Has(t, S) => Has(s, S)
         /\ \A S : (\A i \in 1..l : s[i] \notin S) => (Has(t, S) <=> Has(s, S))
         /\ \A S : Sole(s, S) => Sole(t, S)
         /\ \A S : Sole(s, S) /\ (\E i \in 1..l : s[i] \in S) => ~Has(t, S)
         /\ \A S, U : Before(s, S, U) => Before(t, S, U)
         /\ \A S, U : Before(s, S, U) /\ (\E i \in 1..l : s[i] \in U) => ~Has(t, S)
<1>1. t \in Seq(T) /\ Len(t) = Len(s) - l /\ \A i \in 1..(Len(s) - l) : t[i] = s[i + l]
  <2>1. \A i \in (l + 1)..Len(s) : s[i] \in T
    OBVIOUS
  <2>2. l + 1 \in Int /\ Len(s) \in Int /\ l \in Nat /\ Len(s) \in Nat
    OBVIOUS
  <2>3. /\ t \in Seq(T)
        /\ Len(t) = IF l + 1 <= Len(s) THEN Len(s) - (l + 1) + 1 ELSE 0
        /\ \A i \in 1..(Len(s) - (l + 1) + 1) : t[i] = s[(l + 1) + i - 1]
    BY <2>1, <2>2, SubSeqProperties DEF Dropped
  <2>4. \A i \in 1..(Len(s) - l) : i \in 1..(Len(s) - (l + 1) + 1) /\ (l + 1) + i - 1 = i + l
    BY <2>2
  <2>5. \A i \in 1..(Len(s) - l) : t[i] = s[i + l]
    BY <2>3, <2>4
  <2> QED
    BY <2>2, <2>3, <2>5
<1>2. l \in Nat /\ Len(s) \in Nat
  OBVIOUS
<1>3. \A i \in 1..Len(t) : i + l \in 1..Len(s) /\ i + l > l /\ t[i] = s[i + l]
  BY <1>1, <1>2
<1>4. ASSUME NEW i \in 1..Len(s), i > l PROVE i - l \in 1..Len(t) /\ t[i - l] = s[i]
  <2>1. i - l \in 1..(Len(s) - l) /\ (i - l) + l = i
    BY <1>2, <1>4
  <2> QED
    BY <1>1, <2>1
<1>5. ASSUME NEW S, Has(t, S) PROVE Has(s, S)
  BY <1>3, <1>5 DEF Has
<1>6. ASSUME NEW S, \A i \in 1..l : s[i] \notin S, Has(s, S) PROVE Has(t, S)
  <2>1. PICK i \in 1..Len(s) : s[i] \in S
    BY <1>6 DEF Has
  <2>2. i > l
    BY <1>2, <1>6, <2>1
  <2> QED
    BY <1>4, <2>1, <2>2 DEF Has
<1>7. ASSUME NEW S, Sole(s, S) PROVE Sole(t, S)
  <2> SUFFICES ASSUME NEW i \in 1..Len(t), NEW j \in 1..Len(t), t[i] \in S, t[j] \in S PROVE i = j
    BY DEF Sole
  <2>1. i + l = j + l
    BY <1>3, <1>7 DEF Sole
  <2> QED
    BY <1>2, <2>1
<1>8. ASSUME NEW S, Sole(s, S), NEW i \in 1..l, s[i] \in S PROVE ~Has(t, S)
  <2> SUFFICES ASSUME NEW j \in 1..Len(t), t[j] \in S PROVE FALSE
    BY DEF Has
  <2>1. i \in 1..Len(s) /\ i # j + l
    BY <1>2, <1>3
  <2> QED
    BY <1>3, <1>8, <2>1 DEF Sole
<1>9. ASSUME NEW S, NEW U, Before(s, S, U) PROVE Before(t, S, U)
  <2> SUFFICES ASSUME NEW i \in 1..Len(t), NEW j \in 1..Len(t), t[i] \in S, t[j] \in U PROVE i < j
    BY DEF Before
  <2>1. i + l < j + l
    BY <1>3, <1>9 DEF Before
  <2> QED
    BY <1>2, <2>1
<1>10. ASSUME NEW S, NEW U, Before(s, S, U), NEW i \in 1..l, s[i] \in U PROVE ~Has(t, S)
  <2> SUFFICES ASSUME NEW j \in 1..Len(t), t[j] \in S PROVE FALSE
    BY DEF Has
  <2>1. i \in 1..Len(s) /\ ~(j + l < i)
    BY <1>2, <1>3
  <2> QED
    BY <1>3, <1>10, <2>1 DEF Before
<1> QED
  BY <1>1, <1>5, <1>6, <1>7, <1>8, <1>9, <1>10

LEMMA Beheading ==
  ASSUME NEW T, NEW s \in Seq(T), NEW t, Beheaded(t, s)
  PROVE  /\ s[1] \in T /\ t \in Seq(T) /\ Len(t) = Len(s) - 1 /\ Len(s) > 0
         /\ \A i \in 1..Len(t) : t[i] = s[i + 1]
         /\ \A S : Has(s, S) <=> s[1] \in S \/ Has(t, S)
         /\ \A S : Sole(s, S) => Sole(t, S) /\ (s[1] \in S => ~Has(t, S))
         /\ \A S, U : Before(s, S, U) => Before(t, S, U) /\ (s[1] \in U => ~Has(t, S))
<1>1. Len(s) \in Nat /\ Len(s) > 0 /\ 1 \in 1..Len(s) /\ s[1] \in T
  BY DEF Beheaded
<1>2. t \in Seq(T) /\ Len(t) = Len(s) - 1 /\ \A i \in 1..Len(t) : t[i] = s[i + 1]
  BY <1>1 DEF Beheaded
<1>3. \A i \in 1..Len(t) : i + 1 \in 1..Len(s) /\ i + 1 # 1
  BY <1>1, <1>2
<1>4. ASSUME NEW i \in 1..Len(s), i # 1 PROVE i - 1 \in 1..Len(t) /\ t[i - 1] = s[i]
  <2>1. i - 1 \in 1..Len(t) /\ (i - 1) + 1 = i
    BY <1>1, <1>2, <1>4
  <2> QED
    BY <1>2, <2>1
<1>5. ASSUME NEW S PROVE Has(s, S) <=> s[1] \in S \/ Has(t, S)
  BY <1>1, <1>2, <1>3, <1>4 DEF Has
<1>6. ASSUME NEW S, Sole(s, S) PROVE Sole(t, S) /\ (s[1] \in S => ~Has(t, S))
  <2>1. ASSUME NEW i \in 1..Len(t), NEW j \in 1..Len(t), t[i] \in S, t[j] \in S PROVE i = j
    <3>1. i + 1 = j + 1
      BY <1>2, <1>3, <1>6, <2>1 DEF Sole
    <3> QED
      BY <3>1
  <2>2. ASSUME NEW i \in 1..Len(t), t[i] \in S, s[1] \in S PROVE FALSE
    BY <1>1, <1>2, <1>3, <1>6, <2>2 DEF Sole
  <2> QED
    BY <2>1, <2>2 DEF Sole, Has
<1>7. ASSUME NEW S, NEW U, Before(s, S, U) PROVE Before(t, S, U) /\ (s[1] \in U => ~Has(t, S))
  <2>1. ASSUME NEW i \in 1..Len(t), NEW j \in 1..Len(t), t[i] \in S, t[j] \in U PROVE i < j
    <3>1. i + 1 < j + 1
      BY <1>2, <1>3, <1>7, <2>1 DEF Before
    <3> QED
      BY <3>1
  <2>2. ASSUME NEW i \in 1..Len(t), t[i] \in S, s[1] \in U PROVE FALSE
    <3>1. i + 1 < 1
      BY <1>1, <1>2, <1>3, <1>7, <2>2 DEF Before
    <3> QED
      BY <3>1
  <2> QED
    BY <2>1, <2>2 DEF Before, Has
<1> QED
  BY <1>1, <1>2, <1>5, <1>6, <1>7

-----------------------------------------------------------------------------
(* The invariant, in four parts, of the promises ps, the queue js, the     *)
(* stack sk, the held pairs hl, the async calls as with their promises ro, *)
(* the reactions registered rg and run ra.                                 *)

Ends == {"fulfilled", "rejected"}
Reactions ==
  [id : Nat, kind : {"user", "settle", "resume"}, p : Nat \union Asyncs, k : Nat]
Records == [st : {"pending"} \union Ends, reactions : Seq(Reactions), used : Seq(BOOLEAN)]
ReactionJobs == [kind : {"reaction"}, reaction : Reactions, st : Ends]
ThenableJobs == [kind : {"thenable"}, p : Nat, v : Nat \union {Thenable}]
Jobs == ReactionJobs \union ThenableJobs
Frames ==
  [kind : {"script", "executor", "thenable", "getter", "handler", "async"},
   p : Nat \union Asyncs, k : Nat]

\* Reactions and jobs with number i, and those that resume the async call f.
WithId(i) == {r \in Reactions : r.id = i}
JobsWithId(i) == {j \in ReactionJobs : j.reaction.id = i}
Resuming(f, i) == {r \in Reactions : r.id = i /\ r.kind = "resume" /\ r.p = f}
JobsResuming(f, i) == {j \in ReactionJobs : j.reaction \in Resuming(f, i)}
\* What will make functions that settle p, or settle it.
Asking(p) == {j \in ThenableJobs : j.p = p}
Getters(p) == {x \in Frames : x.kind = "getter" /\ x.p = p}
Running(f) == {x \in Frames : x.kind = "async" /\ x.p = f}

\* Part 1: everything that is named exists.
Pair(ps, p, k) == p \in 1..Len(ps) /\ k \in 1..Len(ps[p].used)
ReactionFits(ps, r) == IF r.kind = "resume" THEN r.p \in Asyncs ELSE Pair(ps, r.p, r.k)
JobFits(ps, j) ==
  /\ j \in ReactionJobs => ReactionFits(ps, j.reaction)
  /\ j \in ThenableJobs => j.p \in 1..Len(ps) /\ (j.v # Thenable => j.v \in 1..Len(ps))
FrameFits(ps, x) ==
  /\ x.kind \in {"executor", "handler", "thenable"} => Pair(ps, x.p, x.k)
  /\ x.kind = "getter" => x.p \in 1..Len(ps)
  /\ x.kind = "async" => x.p \in Asyncs
PromiseFits(ps, p) ==
  /\ Len(ps[p].used) > 0
  /\ ps[p].st # "pending" => ps[p].reactions = <<>>
  /\ \A l \in 1..Len(ps[p].reactions) : ReactionFits(ps, ps[p].reactions[l])
PromisesFit(ps) == ps \in Seq(Records) /\ \A p \in 1..Len(ps) : PromiseFits(ps, p)
JobsFit(ps, js) == js \in Seq(Jobs) /\ \A l \in 1..Len(js) : JobFits(ps, js[l])
StackFits(ps, sk) == sk \in Seq(Frames) /\ \A l \in 1..Len(sk) : FrameFits(ps, sk[l])
HeldFits(ps, hl) == \A x \in hl : Pair(ps, x[1], x[2])
CallsFit(ps, as, ro) ==
  /\ as \in [Asyncs -> {"none", "running", "awaiting", "ended"}] /\ ro \in [Asyncs -> Nat]
  /\ \A f \in Asyncs : as[f] # "none" => ro[f] \in 1..Len(ps)
Fits(ps, js, sk, hl, as, ro) ==
  PromisesFit(ps) /\ JobsFit(ps, js) /\ StackFits(ps, sk) /\ HeldFits(ps, hl) /\ CallsFit(ps, as, ro)

\* Part 2: a pending promise can be settled in one way, the others in none; those of e,
\* which an operation is about to settle or to give a way, have none.
Unused(u) == Has(u, {FALSE})
WayOf(u, st, js, sk, p, e) ==
  /\ Sole(u, {FALSE}) /\ Sole(js, Asking(p)) /\ Sole(sk, Getters(p))
  /\ ~(Unused(u) /\ Has(js, Asking(p)))
  /\ ~(Unused(u) /\ Has(sk, Getters(p)))
  /\ ~(Has(js, Asking(p)) /\ Has(sk, Getters(p)))
  /\ (Unused(u) \/ Has(js, Asking(p)) \/ Has(sk, Getters(p))) <=> (st = "pending" /\ p \notin e)
OneWay(ps, js, sk, e) == \A p \in 1..Len(ps) : WayOf(ps[p].used, ps[p].st, js, sk, p, e)

\* Part 3: a reaction is in one place, and those of a promise follow each other; rs are the
\* reactions its promise keeps.
Placed(rs, js, ra, i) ==
  /\ Sole(ra, {i}) /\ Sole(js, JobsWithId(i)) /\ Sole(rs, WithId(i))
  /\ Has(ra, {i}) \/ Has(js, JobsWithId(i)) \/ Has(rs, WithId(i))
  /\ ~(Has(ra, {i}) /\ Has(js, JobsWithId(i)))
  /\ ~(Has(ra, {i}) /\ Has(rs, WithId(i)))
  /\ ~(Has(js, JobsWithId(i)) /\ Has(rs, WithId(i)))
Follow(rs, js, ra, i, j) ==
  /\ Before(ra, {i}, {j}) /\ Before(js, JobsWithId(i), JobsWithId(j))
  /\ Before(rs, WithId(i), WithId(j))
  /\ Has(ra, {j}) => Has(ra, {i})
  /\ Has(js, JobsWithId(j)) => ~Has(rs, WithId(i))
KeptBy(rs, rg, p) ==
  \A l \in 1..Len(rs) : rs[l].id \in 1..Len(rg) /\ rg[rs[l].id] = p
JobKnown(j, rg) == j \in ReactionJobs => j.reaction.id \in 1..Len(rg)
Known(ps, js, rg, ra) ==
  /\ rg \in Seq(Nat) /\ ra \in Seq(Nat)
  /\ \A i \in 1..Len(rg) : rg[i] \in 1..Len(ps)
  /\ \A p \in 1..Len(ps) : KeptBy(ps[p].reactions, rg, p) /\ Len(ps[p].reactions) <= Len(rg)
  /\ \A l \in 1..Len(js) : JobKnown(js[l], rg)
  /\ \A l \in 1..Len(ra) : ra[l] \in 1..Len(rg)
Ordered(ps, js, rg, ra) ==
  /\ Known(ps, js, rg, ra)
  /\ \A i \in 1..Len(rg) : Placed(ps[rg[i]].reactions, js, ra, i)
  /\ \A i, j \in 1..Len(rg) : i < j /\ rg[i] = rg[j] => Follow(ps[rg[i]].reactions, js, ra, i, j)

\* Part 4: an async call that runs has its frame, one that awaits its reaction; those of g
\* are about to be given one.
Runs(sk, as) ==
  \A f \in Asyncs : Sole(sk, Running(f)) /\ (Has(sk, Running(f)) <=> as[f] = "running")
Resumed(ps, js, f, i) ==
  \/ \E p \in 1..Len(ps) : Has(ps[p].reactions, Resuming(f, i))
  \/ Has(js, JobsResuming(f, i))
Awaits(ps, js, as, g) ==
  \A f \in Asyncs :
    /\ \A i, j \in Nat : Resumed(ps, js, f, i) /\ Resumed(ps, js, f, j) => i = j
    /\ (\E i \in Nat : Resumed(ps, js, f, i)) <=> (as[f] = "awaiting" /\ f \notin g)

Whole(ps, js, sk, hl, as, ro, rg, ra, e, g) ==
  /\ Fits(ps, js, sk, hl, as, ro)
  /\ OneWay(ps, js, sk, e)
  /\ Ordered(ps, js, rg, ra)
  /\ Runs(sk, as) /\ Awaits(ps, js, as, g)

-----------------------------------------------------------------------------
(* The changes.  Of the promises: *)

\* All but p stay as they are.
OnlyAt(pn, ps, p) ==
  pn \in Seq(Records) /\ Len(pn) = Len(ps) /\ \A q \in 1..Len(ps) : q # p => pn[q] = ps[q]
\* The flag of pair k of p is set.
Marked(pn, ps, p, k) ==
  /\ OnlyAt(pn, ps, p) /\ pn[p].st = ps[p].st /\ pn[p].reactions = ps[p].reactions
  /\ Len(pn[p].used) = Len(ps[p].used)
  /\ \A l \in 1..Len(ps[p].used) : pn[p].used[l] = FALSE <=> ps[p].used[l] = FALSE /\ l # k
\* p is settled: its reactions become jobs.
Moved(jn, js, rs) ==
  \E u \in Seq(ReactionJobs) :
    Joined(jn, js, u) /\ Len(u) = Len(rs) /\ \A l \in 1..Len(u) : u[l].reaction = rs[l]
Closed(pn, jn, ps, js, p, st) ==
  /\ OnlyAt(pn, ps, p) /\ pn[p].st = st /\ pn[p].reactions = <<>> /\ pn[p].used = ps[p].used
  /\ Moved(jn, js, ps[p].reactions)
\* Reaction r of p waits.
Waiting(pn, ps, p, r) ==
  /\ OnlyAt(pn, ps, p) /\ pn[p].st = ps[p].st /\ pn[p].used = ps[p].used
  /\ Appended(pn[p].reactions, ps[p].reactions, r)
\* A pair of resolving functions is made for p.
Paired(pn, ps, p) ==
  /\ OnlyAt(pn, ps, p) /\ pn[p].st = ps[p].st /\ pn[p].reactions = ps[p].reactions
  /\ Appended(pn[p].used, ps[p].used, FALSE)
\* A promise is made, pending or settled.
Grown(pn, ps, st) ==
  \E x \in Records :
    /\ Appended(pn, ps, x) /\ x.st = st /\ x.reactions = <<>>
    /\ x.used = <<st # "pending">>

-----------------------------------------------------------------------------
(* Lists that change in what is not asked about. *)

Alike(t, s, S) == (Has(t, S) <=> Has(s, S)) /\ (Sole(s, S) => Sole(t, S))

LEMMA AlikeItself ==
  ASSUME NEW s, NEW S
  PROVE  Alike(s, s, S)
BY DEF Alike

LEMMA AlikeAppended ==
  ASSUME NEW T, NEW s \in Seq(T), NEW x \in T, NEW t, Appended(t, s, x), NEW S, x \notin S
  PROVE  Alike(t, s, S)
BY Appending DEF Alike

LEMMA AlikeConsed ==
  ASSUME NEW T, NEW s \in Seq(T), NEW x \in T, NEW t, Consed(t, x, s), NEW S, x \notin S
  PROVE  Alike(t, s, S)
BY Consing DEF Alike

LEMMA AlikeBeheaded ==
  ASSUME NEW T, NEW s \in Seq(T), NEW t, Beheaded(t, s), NEW S, s[1] \notin S
  PROVE  Alike(t, s, S)
BY Beheading DEF Alike

LEMMA AlikeJoined ==
  ASSUME NEW T, NEW s \in Seq(T), NEW u \in Seq(T), NEW t, Joined(t, s, u),
         NEW S, \A l \in 1..Len(u) : u[l] \notin S
  PROVE  Alike(t, s, S)
<1>1. ~Has(u, S) /\ Sole(u, S)
  BY DEF Has, Sole
<1> QED
  BY <1>1, Joining DEF Alike

LEMMA AlikeDropped ==
  ASSUME NEW T, NEW s \in Seq(T), NEW l \in 0..Len(s), NEW t, Dropped(t, s, l),
         NEW S, \A i \in 1..l : s[i] \notin S
  PROVE  Alike(t, s, S)
BY Dropping DEF Alike

\* What the changes of the promises say of them.
LEMMA At ==
  ASSUME NEW ps, PromisesFit(ps), NEW p \in 1..Len(ps)
  PROVE  /\ ps \in Seq(Records) /\ ps[p] \in Records
         /\ ps[p].st \in {"pending"} \union Ends /\ ps[p].reactions \in Seq(Reactions)
         /\ ps[p].used \in Seq(BOOLEAN)
<1>1. ps \in Seq(Records)
  BY DEF PromisesFit
<1>2. ps[p] \in Records
  BY <1>1
<1> QED
  BY <1>1, <1>2 DEF Records

LEMMA JobMembers ==
  ASSUME NEW ps, NEW js, JobsFit(ps, js)
  PROVE  js \in Seq(Jobs) /\ \A l \in 1..Len(js) : js[l] \in Jobs /\ JobFits(ps, js[l])
<1>1. js \in Seq(Jobs)
  BY DEF JobsFit
<1>2. \A l \in 1..Len(js) : js[l] \in Jobs
  BY <1>1
<1> QED
  BY <1>1, <1>2 DEF JobsFit

LEMMA FrameMembers ==
  ASSUME NEW ps, NEW sk, StackFits(ps, sk)
  PROVE  sk \in Seq(Frames) /\ \A l \in 1..Len(sk) : sk[l] \in Frames /\ FrameFits(ps, sk[l])
<1>1. sk \in Seq(Frames)
  BY DEF StackFits
<1>2. \A l \in 1..Len(sk) : sk[l] \in Frames
  BY <1>1
<1> QED
  BY <1>1, <1>2 DEF StackFits

LEMMA JobKinds ==
  /\ \A j \in ReactionJobs : j \in Jobs /\ j \notin ThenableJobs /\ \A p : j \notin Asking(p)
  /\ \A j \in ThenableJobs : j \in Jobs /\ j \notin ReactionJobs /\ j.p \in Nat
       /\ j \in Asking(j.p) /\ \A p : p # j.p => j \notin Asking(p)
  /\ \A j \in Jobs : j \in ReactionJobs \/ j \in ThenableJobs
  /\ \A j \in ReactionJobs :
       /\ j.reaction \in Reactions /\ j.st \in Ends /\ j.reaction.id \in Nat
       /\ j \in JobsWithId(j.reaction.id) /\ \A i : i # j.reaction.id => j \notin JobsWithId(i)
  /\ \A j \in ThenableJobs : \A i : j \notin JobsWithId(i) /\ \A f : j \notin JobsResuming(f, i)
<1>1. \A j \in ReactionJobs : j.kind = "reaction" /\ j.reaction \in Reactions /\ j.st \in Ends
  BY DEF ReactionJobs
<1>2. \A j \in ThenableJobs : j.kind = "thenable" /\ j.p \in Nat
  BY DEF ThenableJobs
<1>3. \A r \in Reactions : r.id \in Nat
  BY DEF Reactions
<1>4. ReactionJobs \subseteq Jobs /\ ThenableJobs \subseteq Jobs
      /\ Jobs \subseteq ReactionJobs \union ThenableJobs
  BY DEF Jobs
<1>5. \A j \in ReactionJobs : j \notin ThenableJobs
  BY <1>1, <1>2
<1>6. \A j, p : j \in Asking(p) <=> j \in ThenableJobs /\ j.p = p
  BY DEF Asking
<1>7. \A j, i : j \in JobsWithId(i) <=> j \in ReactionJobs /\ j.reaction.id = i
  BY DEF JobsWithId
<1>8. \A j, f, i : j \in JobsResuming(f, i) => j \in ReactionJobs
  BY DEF JobsResuming
<1> QED
  BY <1>1, <1>2, <1>3, <1>4, <1>5, <1>6, <1>7, <1>8

-----------------------------------------------------------------------------
(* Part 2 under the changes. *)

\* What happens to the ways of promise p leaves those of the others alone.
LEMMA WayElsewhere ==
  ASSUME NEW ps, NEW pn, NEW js, NEW jn, NEW sk, NEW sn, NEW e, NEW en, NEW p,
         Len(pn) = Len(ps), OneWay(ps, js, sk, e),
         \A q \in 1..Len(ps) : q # p =>
           /\ pn[q].used = ps[q].used /\ pn[q].st = ps[q].st
           /\ Alike(jn, js, Asking(q)) /\ Alike(sn, sk, Getters(q)) /\ (q \in en <=> q \in e),
         p \in 1..Len(ps) => WayOf(pn[p].used, pn[p].st, jn, sn, p, en)
  PROVE  OneWay(pn, jn, sn, en)
<1> SUFFICES ASSUME NEW q \in 1..Len(ps) PROVE WayOf(pn[q].used, pn[q].st, jn, sn, q, en)
  BY DEF OneWay
<1>1. CASE q = p
  BY <1>1
<1>2. CASE q # p
  <2>1. WayOf(ps[q].used, ps[q].st, js, sk, q, e)
    BY DEF OneWay
  <2>2. WayOf(pn[q].used, pn[q].st, js, sk, q, e)
    BY <1>2, <2>1
  <2>3. Alike(jn, js, Asking(q)) /\ Alike(sn, sk, Getters(q)) /\ (q \in en <=> q \in e)
    BY <1>2
  <2> QED
    BY <2>2, <2>3 DEF WayOf, Alike
<1> QED
  BY <1>1, <1>2

LEMMA WayKept ==
  ASSUME NEW ps, NEW pn, NEW js, NEW jn, NEW sk, NEW sn, NEW e,
         Len(pn) = Len(ps), OneWay(ps, js, sk, e),
         \A q \in 1..Len(ps) : pn[q].used = ps[q].used /\ pn[q].st = ps[q].st,
         \A q \in 1..Len(ps) : Alike(jn, js, Asking(q)) /\ Alike(sn, sk, Getters(q))
  PROVE  OneWay(pn, jn, sn, e)
<1> SUFFICES ASSUME NEW q \in 1..Len(ps) PROVE WayOf(pn[q].used, pn[q].st, jn, sn, q, e)
  BY DEF OneWay
<1>1. WayOf(pn[q].used, pn[q].st, js, sk, q, e)
  BY DEF OneWay
<1> QED
  BY <1>1 DEF WayOf, Alike

\* The already_resolved flag of an unused pair is set: its promise waits to be settled.
LEMMA WayMarked ==
  ASSUME NEW ps, PromisesFit(ps), NEW js, NEW sk, OneWay(ps, js, sk, {}), NEW p, NEW k,
         Pair(ps, p, k), ps[p].used[k] = FALSE, NEW pn, Marked(pn, ps, p, k)
  PROVE  OneWay(pn, js, sk, {p}) /\ ps[p].st = "pending" /\ pn[p].st = "pending"
<1>1. p \in 1..Len(ps) /\ k \in 1..Len(ps[p].used)
  BY DEF Pair
<1>2. PICK u : u = ps[p].used
  OBVIOUS
<1>3. PICK v : v = pn[p].used
  OBVIOUS
<1>4. Len(v) = Len(u) /\ \A l \in 1..Len(u) : v[l] = FALSE <=> u[l] = FALSE /\ l # k
  BY <1>2, <1>3 DEF Marked
<1>5. WayOf(u, ps[p].st, js, sk, p, {})
  BY <1>1, <1>2 DEF OneWay
<1>6. Unused(u)
  BY <1>1, <1>2 DEF Unused, Has
<1>7. ps[p].st = "pending"
  BY <1>5, <1>6 DEF WayOf
<1>8. ~Unused(v) /\ Sole(v, {FALSE})
  <2>1. Sole(u, {FALSE})
    BY <1>5 DEF WayOf
  <2>2. \A l \in 1..Len(u) : u[l] = FALSE => l = k
    BY <1>1, <1>2, <2>1 DEF Sole
  <2>3. \A l \in 1..Len(v) : ~(v[l] = FALSE)
    BY <1>4, <2>2
  <2> QED
    BY <2>3 DEF Unused, Has, Sole
<1>9. pn[p].st = ps[p].st /\ Len(pn) = Len(ps) /\ \A q \in 1..Len(ps) : q # p => pn[q] = ps[q]
  BY DEF Marked, OnlyAt
<1>10. WayOf(v, pn[p].st, js, sk, p, {p})
  BY <1>5, <1>6, <1>8 DEF WayOf
<1>11. \A q \in 1..Len(ps) : Alike(js, js, Asking(q)) /\ Alike(sk, sk, Getters(q))
  BY AlikeItself
<1>12. \A q : q # p => (q \in {p} <=> q \in {})
  OBVIOUS
<1> QED
  BY <1>3, <1>7, <1>9, <1>10, <1>11, <1>12, WayElsewhere

LEMMA WayClosed ==
  ASSUME NEW ps, PromisesFit(ps), NEW js, JobsFit(ps, js), NEW sk, NEW p \in 1..Len(ps),
         OneWay(ps, js, sk, {p}), NEW st \in Ends, NEW pn, NEW jn, Closed(pn, jn, ps, js, p, st)
  PROVE  OneWay(pn, jn, sk, {})
<1>1. pn[p].used = ps[p].used /\ pn[p].st = st /\ Len(pn) = Len(ps)
      /\ \A q \in 1..Len(ps) : q # p => pn[q] = ps[q]
  BY DEF Closed, OnlyAt
<1>2. \A q : Alike(jn, js, Asking(q))
  <2>1. PICK w \in Seq(ReactionJobs) : Joined(jn, js, w)
    BY DEF Closed, Moved
  <2>2. w \in Seq(Jobs) /\ \A l \in 1..Len(w) : \A q : w[l] \notin Asking(q)
    BY JobKinds
  <2> QED
    BY <2>1, <2>2, AlikeJoined DEF JobsFit
<1>3. WayOf(pn[p].used, pn[p].st, jn, sk, p, {})
  <2>1. WayOf(pn[p].used, ps[p].st, js, sk, p, {p})
    BY <1>1 DEF OneWay
  <2>2. Alike(jn, js, Asking(p)) /\ pn[p].st # "pending"
    BY <1>1, <1>2 DEF Ends
  <2> QED
    BY <2>1, <2>2 DEF WayOf, Alike
<1>4. \A q : Alike(sk, sk, Getters(q)) /\ (q # p => (q \in {} <=> q \in {p}))
  BY AlikeItself
<1> QED
  BY <1>1, <1>2, <1>3, <1>4, WayElsewhere

\* A job that will make a pair of functions for p, which has no way, is queued.
LEMMA WayAsked ==
  ASSUME NEW ps, NEW js, JobsFit(ps, js), NEW sk, NEW p \in 1..Len(ps),
         OneWay(ps, js, sk, {p}), ps[p].st = "pending",
         NEW x \in ThenableJobs, x.p = p, NEW jn, Appended(jn, js, x)
  PROVE  OneWay(ps, jn, sk, {})
<1>1. js \in Seq(Jobs) /\ x \in Jobs /\ x \in Asking(p) /\ \A q : q # p => x \notin Asking(q)
  BY JobKinds DEF JobsFit
<1>2. \A q : q # p => Alike(jn, js, Asking(q))
  BY <1>1, AlikeAppended
<1>3. /\ Has(jn, Asking(p))
      /\ ~Has(js, Asking(p)) /\ Sole(js, Asking(p)) => Sole(jn, Asking(p))
  BY <1>1, Appending
<1>4. WayOf(ps[p].used, ps[p].st, jn, sk, p, {})
  <2>1. WayOf(ps[p].used, ps[p].st, js, sk, p, {p})
    BY DEF OneWay
  <2> QED
    BY <1>3, <2>1 DEF WayOf
<1>5. \A q : Alike(sk, sk, Getters(q)) /\ (q # p => (q \in {} <=> q \in {p}))
  BY AlikeItself
<1> QED
  BY <1>2, <1>4, <1>5, WayElsewhere

\* Such a job is taken from the queue.
LEMMA WayTaken ==
  ASSUME NEW ps, NEW js, JobsFit(ps, js), NEW sk, OneWay(ps, js, sk, {}),
         NEW jn, Beheaded(jn, js), js[1] \in ThenableJobs
  PROVE  /\ js[1].p \in 1..Len(ps) /\ ps[js[1].p].st = "pending"
         /\ OneWay(ps, jn, sk, {js[1].p})
<1>1. PICK x : x = js[1]
  OBVIOUS
<1>2. PICK p : p = x.p
  OBVIOUS
<1>3. js \in Seq(Jobs) /\ x \in Asking(p) /\ \A q : q # p => x \notin Asking(q)
  BY <1>1, <1>2, JobKinds DEF JobsFit
<1>4. \A q : q # p => Alike(jn, js, Asking(q))
  BY <1>1, <1>3, AlikeBeheaded
<1>5. Has(js, Asking(p)) /\ (Sole(js, Asking(p)) => Sole(jn, Asking(p)) /\ ~Has(jn, Asking(p)))
  BY <1>1, <1>3, Beheading
<1>6. p \in 1..Len(ps)
  <2>1. 1 \in 1..Len(js)
    BY <1>3, Beheading
  <2> QED
    BY <1>1, <1>2, <2>1 DEF JobsFit, JobFits
<1>7. WayOf(ps[p].used, ps[p].st, js, sk, p, {})
  BY <1>6 DEF OneWay
<1>8. WayOf(ps[p].used, ps[p].st, jn, sk, p, {p}) /\ ps[p].st = "pending"
  BY <1>5, <1>7 DEF WayOf
<1>9. \A q : Alike(sk, sk, Getters(q)) /\ (q # p => (q \in {p} <=> q \in {}))
  BY AlikeItself
<1>10. OneWay(ps, jn, sk, {p})
  BY <1>4, <1>8, <1>9, WayElsewhere
<1> QED
  BY <1>1, <1>2, <1>6, <1>8, <1>10

\* The pair of functions is made.
LEMMA WayPaired ==
  ASSUME NEW ps, PromisesFit(ps), NEW js, NEW sk, NEW p \in 1..Len(ps),
         OneWay(ps, js, sk, {p}), ps[p].st = "pending", NEW pn, Paired(pn, ps, p)
  PROVE  OneWay(pn, js, sk, {})
<1>1. PICK u : u = ps[p].used
  OBVIOUS
<1>2. PICK v : v = pn[p].used
  OBVIOUS
<1>3. u \in Seq(BOOLEAN) /\ Appended(v, u, FALSE) /\ FALSE \in {FALSE}
  BY <1>1, <1>2, At DEF Paired
<1>4. (Sole(u, {FALSE}) /\ ~Unused(u) => Sole(v, {FALSE})) /\ Unused(v)
  <2>1. FALSE \in BOOLEAN
    OBVIOUS
  <2>2. \A S : Has(v, S) <=> Has(u, S) \/ FALSE \in S
    BY <1>3, <2>1, Appending
  <2>3. \A S : Sole(u, S) /\ (FALSE \in S => ~Has(u, S)) => Sole(v, S)
    BY <1>3, <2>1, Appending
  <2> QED
    BY <1>3, <2>2, <2>3 DEF Unused
<1>5. WayOf(v, pn[p].st, js, sk, p, {})
  <2>1. WayOf(u, ps[p].st, js, sk, p, {p})
    BY <1>1 DEF OneWay
  <2>2. pn[p].st = "pending"
    BY DEF Paired
  <2> QED
    BY <1>4, <2>1, <2>2 DEF WayOf
<1>6. Len(pn) = Len(ps) /\ \A q \in 1..Len(ps) : q # p => pn[q] = ps[q]
  BY DEF Paired, OnlyAt
<1>7. \A q : Alike(js, js, Asking(q)) /\ Alike(sk, sk, Getters(q)) /\ (q # p => (q \in {} <=> q \in {p}))
  BY AlikeItself
<1> QED
  BY <1>2, <1>5, <1>6, <1>7, WayElsewhere

LEMMA FrameKinds ==
  /\ \A x \in Frames : \A p : x \in Getters(p) <=> x.kind = "getter" /\ x.p = p
  /\ \A x \in Frames : \A f : x \in Running(f) <=> x.kind = "async" /\ x.p = f
BY DEF Getters, Running

\* The `then' property of a thenable that is to settle p is read.
LEMMA WayRead ==
  ASSUME NEW ps, NEW js, NEW sk, StackFits(ps, sk), NEW p \in 1..Len(ps),
         OneWay(ps, js, sk, {p}), ps[p].st = "pending",
         NEW x \in Frames, x.kind = "getter", x.p = p, NEW sn, Consed(sn, x, sk)
  PROVE  OneWay(ps, js, sn, {})
<1>1. sk \in Seq(Frames) /\ x \in Getters(p) /\ \A q : q # p => x \notin Getters(q)
  BY FrameKinds DEF StackFits
<1>2. \A q : q # p => Alike(sn, sk, Getters(q))
  BY <1>1, AlikeConsed
<1>3. Has(sn, Getters(p)) /\ (Sole(sk, Getters(p)) /\ ~Has(sk, Getters(p)) => Sole(sn, Getters(p)))
  BY <1>1, Consing
<1>4. WayOf(ps[p].used, ps[p].st, js, sn, p, {})
  <2>1. WayOf(ps[p].used, ps[p].st, js, sk, p, {p})
    BY DEF OneWay
  <2> QED
    BY <1>3, <2>1 DEF WayOf
<1>5. \A q : Alike(js, js, Asking(q)) /\ (q # p => (q \in {} <=> q \in {p}))
  BY AlikeItself
<1> QED
  BY <1>2, <1>4, <1>5, WayElsewhere

\* That code ends, and no getter is above it.
LEMMA WayGot ==
  ASSUME NEW ps, NEW js, NEW sk, StackFits(ps, sk), OneWay(ps, js, sk, {}),
         NEW l \in 1..Len(sk), NEW sn, Dropped(sn, sk, l), sk[l].kind = "getter",
         \A i \in 1..l : sk[i].kind = "getter" => i = l
  PROVE  /\ sk[l].p \in 1..Len(ps) /\ ps[sk[l].p].st = "pending"
         /\ OneWay(ps, js, sn, {sk[l].p})
<1>1. PICK x : x = sk[l]
  OBVIOUS
<1>2. PICK p : p = x.p
  OBVIOUS
<1>3. sk \in Seq(Frames) /\ \A i \in 1..Len(sk) : sk[i] \in Frames /\ FrameFits(ps, sk[i])
  BY FrameMembers
<1>4. l \in 0..Len(sk) /\ Len(sk) \in Nat
  BY <1>3
<1>5. x \in Getters(p) /\ \A i \in 1..l : \A q : q # p => sk[i] \notin Getters(q)
  BY <1>1, <1>2, <1>3, <1>4, FrameKinds
<1>6. \A q : q # p => Alike(sn, sk, Getters(q))
  BY <1>3, <1>4, <1>5, AlikeDropped
<1>7. Has(sk, Getters(p)) /\ (Sole(sk, Getters(p)) => Sole(sn, Getters(p)) /\ ~Has(sn, Getters(p)))
  <2>1. Has(sk, Getters(p)) /\ \E i \in 1..l : sk[i] \in Getters(p)
    BY <1>1, <1>4, <1>5 DEF Has
  <2>2. \A S : Sole(sk, S) => Sole(sn, S)
    BY <1>3, <1>4, Dropping
  <2>3. \A S : Sole(sk, S) /\ (\E i \in 1..l : sk[i] \in S) => ~Has(sn, S)
    BY <1>3, <1>4, Dropping
  <2> QED
    BY <2>1, <2>2, <2>3
<1>8. p \in 1..Len(ps)
  BY <1>1, <1>2, <1>3 DEF FrameFits
<1>9. WayOf(ps[p].used, ps[p].st, js, sk, p, {})
  BY <1>8 DEF OneWay
<1>10. WayOf(ps[p].used, ps[p].st, js, sn, p, {p}) /\ ps[p].st = "pending"
  BY <1>7, <1>9 DEF WayOf
<1>11. \A q : Alike(js, js, Asking(q)) /\ (q # p => (q \in {p} <=> q \in {}))
  BY AlikeItself
<1>12. OneWay(ps, js, sn, {p})
  BY <1>6, <1>10, <1>11, WayElsewhere
<1> QED
  BY <1>1, <1>2, <1>8, <1>10, <1>12

\* A new promise has its first pair of functions, or is settled.
LEMMA WayGrown ==
  ASSUME NEW ps, PromisesFit(ps), NEW js, JobsFit(ps, js), NEW sk, StackFits(ps, sk),
         OneWay(ps, js, sk, {}), NEW st \in {"pending"} \union Ends, NEW pn, Grown(pn, ps, st)
  PROVE  OneWay(pn, js, sk, {})
<1>1. PICK x \in Records : Appended(pn, ps, x) /\ x.st = st /\ x.used = <<st # "pending">>
  BY DEF Grown
<1>2. ps \in Seq(Records) /\ Len(ps) \in Nat
  BY DEF PromisesFit
<1>3. Len(pn) = Len(ps) + 1 /\ pn[Len(ps) + 1] = x /\ \A q \in 1..Len(ps) : pn[q] = ps[q]
  BY <1>1, <1>2, Appending
<1>4. ASSUME NEW p \in 1..Len(ps) PROVE WayOf(pn[p].used, pn[p].st, js, sk, p, {})
  <2>1. WayOf(ps[p].used, ps[p].st, js, sk, p, {})
    BY DEF OneWay
  <2> QED
    BY <1>3, <1>4, <2>1
<1>5. ASSUME NEW p, p = Len(ps) + 1 PROVE WayOf(x.used, x.st, js, sk, p, {})
  <2>1. p \notin 1..Len(ps)
    BY <1>2, <1>5
  <2>2. ~Has(js, Asking(p)) /\ Sole(js, Asking(p))
    <3>1. \A l \in 1..Len(js) : js[l] \notin Asking(p)
      BY <2>1, JobMembers DEF JobFits, Asking
    <3> QED
      BY <3>1 DEF Has, Sole
  <2>3. ~Has(sk, Getters(p)) /\ Sole(sk, Getters(p))
    <3>1. \A l \in 1..Len(sk) : sk[l] \notin Getters(p)
      BY <2>1, FrameMembers DEF FrameFits, Getters
    <3> QED
      BY <3>1 DEF Has, Sole
  <2>4. Sole(x.used, {FALSE}) /\ (Unused(x.used) <=> st = "pending")
    <3>1. PICK b \in BOOLEAN : b = (st # "pending")
      OBVIOUS
    <3>2. x.used = <<b>>
      BY <1>1, <3>1
    <3>3. Sole(<<b>>, {FALSE}) /\ (Has(<<b>>, {FALSE}) <=> b \in {FALSE})
      BY Single
    <3>4. b \in {FALSE} <=> st = "pending"
      BY <3>1
    <3> QED
      BY <3>2, <3>3, <3>4 DEF Unused
  <2> QED
    BY <1>1, <2>2, <2>3, <2>4 DEF WayOf
<1>6. \A p \in 1..Len(pn) : p \in 1..Len(ps) \/ p = Len(ps) + 1
  BY <1>2, <1>3
<1> QED
  BY <1>3, <1>4, <1>5, <1>6 DEF OneWay

-----------------------------------------------------------------------------
(* Part 3 under the changes. *)

LEMMA EmptyList ==
  /\ Len(<<>>) = 0
  /\ \A S : ~Has(<<>>, S) /\ Sole(<<>>, S)
  /\ \A S, U : Before(<<>>, S, U)
BY DEF Has, Sole, Before

LEMMA NotIn ==
  ASSUME NEW s, NEW S, ~Has(s, S)
  PROVE  Sole(s, S) /\ \A U : Before(s, S, U) /\ Before(s, U, S)
BY DEF Has, Sole, Before

\* The queue has the same reactions in the same order.
SameReactions(jn, js) ==
  /\ \A i : Alike(jn, js, JobsWithId(i))
  /\ \A i, j : Before(js, JobsWithId(i), JobsWithId(j)) => Before(jn, JobsWithId(i), JobsWithId(j))
  /\ \A l \in 1..Len(jn) : jn[l] \in ReactionJobs => \E m \in 1..Len(js) : jn[l] = js[m]
  /\ \A l \in 1..Len(js) : js[l] \in ReactionJobs => \E m \in 1..Len(jn) : js[l] = jn[m]

LEMMA SameReactionsItself ==
  ASSUME NEW js
  PROVE  SameReactions(js, js)
BY AlikeItself DEF SameReactions

LEMMA SameReactionsAppended ==
  ASSUME NEW js \in Seq(Jobs), NEW x \in ThenableJobs, NEW jn, Appended(jn, js, x)
  PROVE  SameReactions(jn, js)
<1>1. x \in Jobs /\ x \notin ReactionJobs /\ \A i : x \notin JobsWithId(i)
  BY JobKinds
<1>2. \A i : Alike(jn, js, JobsWithId(i))
  BY <1>1, AlikeAppended
<1>3. /\ Len(jn) = Len(js) + 1 /\ jn[Len(js) + 1] = x
      /\ \A i \in 1..Len(js) : jn[i] = js[i]
      /\ \A S, U : Before(js, S, U) /\ (x \in S => ~Has(js, U) /\ x \notin U) => Before(jn, S, U)
  BY <1>1, Appending
<1>4. \A i, j : Before(js, JobsWithId(i), JobsWithId(j)) => Before(jn, JobsWithId(i), JobsWithId(j))
  BY <1>1, <1>3
<1>5. ASSUME NEW l \in 1..Len(jn), jn[l] \in ReactionJobs PROVE \E m \in 1..Len(js) : jn[l] = js[m]
  <2>1. l # Len(js) + 1 /\ Len(js) \in Nat
    BY <1>1, <1>3, <1>5
  <2>2. l \in 1..Len(js)
    BY <1>3, <2>1
  <2> QED
    BY <1>3, <2>2
<1>6. \A l \in 1..Len(js) : l \in 1..Len(jn) /\ jn[l] = js[l]
  BY <1>3
<1> QED
  BY <1>2, <1>4, <1>5, <1>6 DEF SameReactions

LEMMA SameReactionsTaken ==
  ASSUME NEW js \in Seq(Jobs), NEW jn, Beheaded(jn, js), js[1] \in ThenableJobs
  PROVE  SameReactions(jn, js)
<1>1. \A i : js[1] \notin JobsWithId(i)
  BY JobKinds
<1>2. \A i : Alike(jn, js, JobsWithId(i))
  BY <1>1, AlikeBeheaded
<1>3. /\ Len(jn) = Len(js) - 1 /\ \A i \in 1..Len(jn) : jn[i] = js[i + 1]
      /\ \A S, U : Before(js, S, U) => Before(jn, S, U) /\ (js[1] \in U => ~Has(jn, S))
  BY Beheading
<1>4. \A l \in 1..Len(jn) : l + 1 \in 1..Len(js)
  BY <1>3
<1>5. ASSUME NEW l \in 1..Len(js), js[l] \in ReactionJobs PROVE \E m \in 1..Len(jn) : js[l] = jn[m]
  <2>1. l # 1
    BY <1>5, JobKinds
  <2>2. l - 1 \in 1..Len(jn) /\ (l - 1) + 1 = l
    BY <1>3, <2>1
  <2> QED
    BY <1>3, <2>2
<1> QED
  BY <1>2, <1>3, <1>4, <1>5 DEF SameReactions

\* Promises keep their reactions, new ones have none.
SameLists(pn, ps) ==
  /\ 1..Len(ps) \subseteq 1..Len(pn)
  /\ \A q \in 1..Len(ps) : pn[q].reactions = ps[q].reactions
  /\ \A q \in 1..Len(pn) : q \notin 1..Len(ps) => pn[q].reactions = <<>>

LEMMA OrderKept ==
  ASSUME NEW ps, NEW js, NEW rg, NEW ra, Ordered(ps, js, rg, ra), NEW pn, NEW jn,
         SameLists(pn, ps), SameReactions(jn, js)
  PROVE  Ordered(pn, jn, rg, ra)
<1>1. \A i \in 1..Len(rg) : rg[i] \in 1..Len(ps) /\ pn[rg[i]].reactions = ps[rg[i]].reactions
  BY DEF Ordered, Known, SameLists
<1>2. Known(pn, jn, rg, ra)
  <2>1. \A i \in 1..Len(rg) : rg[i] \in 1..Len(pn)
    BY <1>1 DEF SameLists
  <2>2. ASSUME NEW q \in 1..Len(pn)
        PROVE  KeptBy(pn[q].reactions, rg, q) /\ Len(pn[q].reactions) <= Len(rg)
    <3>1. CASE q \in 1..Len(ps)
      BY <3>1 DEF Ordered, Known, SameLists
    <3>2. CASE q \notin 1..Len(ps)
      <4>1. rg \in Seq(Nat)
        BY DEF Ordered, Known
      <4>2. pn[q].reactions = <<>>
        BY <3>2 DEF SameLists
      <4> QED
        BY <4>1, <4>2 DEF KeptBy
    <3> QED
      BY <3>1, <3>2
  <2>3. ASSUME NEW l \in 1..Len(jn) PROVE JobKnown(jn[l], rg)
    BY DEF Ordered, Known, SameReactions, JobKnown
  <2> QED
    BY <2>1, <2>2, <2>3 DEF Ordered, Known
<1>3. ASSUME NEW i \in 1..Len(rg) PROVE Placed(pn[rg[i]].reactions, jn, ra, i)
  <2>1. Placed(pn[rg[i]].reactions, js, ra, i)
    BY <1>1 DEF Ordered
  <2>2. Alike(jn, js, JobsWithId(i))
    BY DEF SameReactions
  <2> QED
    BY <2>1, <2>2 DEF Placed, Alike
<1>4. ASSUME NEW i \in 1..Len(rg), NEW j \in 1..Len(rg), i < j, rg[i] = rg[j]
      PROVE  Follow(pn[rg[i]].reactions, jn, ra, i, j)
  <2>1. Follow(ps[rg[i]].reactions, js, ra, i, j)
    BY <1>4 DEF Ordered
  <2>2. Follow(pn[rg[i]].reactions, js, ra, i, j)
    BY <1>1, <2>1
  <2>3. Alike(jn, js, JobsWithId(j)) /\
        (Before(js, JobsWithId(i), JobsWithId(j)) => Before(jn, JobsWithId(i), JobsWithId(j)))
    BY DEF SameReactions
  <2> QED
    BY <2>2, <2>3 DEF Follow, Alike
<1> QED
  BY <1>2, <1>3, <1>4 DEF Ordered

\* The jobs of a list of reactions have the same numbers in the same order.
LEMMA JobsOf ==
  ASSUME NEW rs \in Seq(Reactions), NEW u \in Seq(ReactionJobs), Len(u) = Len(rs),
         \A l \in 1..Len(u) : u[l].reaction = rs[l]
  PROVE  /\ \A i : Has(u, JobsWithId(i)) <=> Has(rs, WithId(i))
         /\ \A i : Sole(rs, WithId(i)) => Sole(u, JobsWithId(i))
         /\ \A i, j : Before(rs, WithId(i), WithId(j)) => Before(u, JobsWithId(i), JobsWithId(j))
<1>1. \A l \in 1..Len(u) : u[l] \in ReactionJobs /\ rs[l] \in Reactions
  OBVIOUS
<1>2. \A l \in 1..Len(u) : \A i : u[l] \in JobsWithId(i) <=> rs[l] \in WithId(i)
  BY <1>1 DEF JobsWithId, WithId
<1> QED
  BY <1>2 DEF Has, Sole, Before

\* A promise is settled: its reactions go behind those in the queue.
LEMMA OrderMoved ==
  ASSUME NEW ps, PromisesFit(ps), NEW js, JobsFit(ps, js), NEW rg, NEW ra, Ordered(ps, js, rg, ra),
         NEW p \in 1..Len(ps), NEW st, NEW pn, NEW jn, Closed(pn, jn, ps, js, p, st)
  PROVE  Ordered(pn, jn, rg, ra)
<1>1. PICK rs : rs = ps[p].reactions
  OBVIOUS
<1>2. rs \in Seq(Reactions)
  BY <1>1, At
<1>3. PICK u \in Seq(ReactionJobs) :
        Joined(jn, js, u) /\ Len(u) = Len(rs) /\ \A l \in 1..Len(u) : u[l].reaction = rs[l]
  BY <1>1 DEF Closed, Moved
<1>4. js \in Seq(Jobs) /\ u \in Seq(Jobs) /\ Len(js) \in Nat
  BY JobKinds DEF JobsFit
<1>5. /\ \A i : Has(u, JobsWithId(i)) <=> Has(rs, WithId(i))
      /\ \A i : Sole(rs, WithId(i)) => Sole(u, JobsWithId(i))
      /\ \A i, j : Before(rs, WithId(i), WithId(j)) => Before(u, JobsWithId(i), JobsWithId(j))
  BY <1>2, <1>3, JobsOf
<1>6. /\ Len(jn) = Len(js) + Len(u)
      /\ \A i \in 1..Len(js) : jn[i] = js[i]
      /\ \A i \in 1..Len(u) : jn[Len(js) + i] = u[i]
      /\ \A S : Has(jn, S) <=> Has(js, S) \/ Has(u, S)
      /\ \A S : Sole(js, S) /\ Sole(u, S) /\ ~(Has(js, S) /\ Has(u, S)) => Sole(jn, S)
      /\ \A S, U : Before(js, S, U) /\ Before(u, S, U) /\ ~(Has(u, S) /\ Has(js, U)) => Before(jn, S, U)
  BY <1>3, <1>4, Joining
<1>7. /\ Len(pn) = Len(ps) /\ pn[p].reactions = <<>>
      /\ \A q \in 1..Len(ps) : q # p => pn[q] = ps[q]
  BY DEF Closed, OnlyAt
<1>8. KeptBy(rs, rg, p) /\ Len(rs) <= Len(rg) /\ rg \in Seq(Nat) /\ ra \in Seq(Nat)
  BY <1>1 DEF Ordered, Known
<1>9. \A i \in 1..Len(rg) : rg[i] # p => ~Has(rs, WithId(i))
  BY <1>8 DEF KeptBy, Has, WithId
<1>10. Known(pn, jn, rg, ra)
  <2>1. ASSUME NEW q \in 1..Len(pn)
        PROVE  KeptBy(pn[q].reactions, rg, q) /\ Len(pn[q].reactions) <= Len(rg)
    <3>1. CASE q = p
      BY <1>7, <1>8, <3>1 DEF KeptBy
    <3>2. CASE q # p
      BY <1>7, <3>2 DEF Ordered, Known
    <3> QED
      BY <3>1, <3>2
  <2>2. ASSUME NEW l \in 1..Len(jn) PROVE JobKnown(jn[l], rg)
    <3>1. CASE l \in 1..Len(js)
      BY <1>6, <3>1 DEF Ordered, Known
    <3>2. CASE l \notin 1..Len(js)
      <4>1. l - Len(js) \in 1..Len(u) /\ Len(js) + (l - Len(js)) = l /\ Len(u) \in Nat
        BY <1>4, <1>6, <3>2
      <4>2. jn[l] = u[l - Len(js)]
        BY <1>6, <4>1
      <4>3. jn[l].reaction = rs[l - Len(js)] /\ l - Len(js) \in 1..Len(rs)
        BY <1>3, <4>1, <4>2
      <4> QED
        BY <1>8, <4>3 DEF KeptBy, JobKnown
    <3> QED
      BY <3>1, <3>2
  <2> QED
    BY <1>7, <2>1, <2>2 DEF Ordered, Known
<1>11. ASSUME NEW i \in 1..Len(rg) PROVE Placed(pn[rg[i]].reactions, jn, ra, i)
  <2>1. Placed(ps[rg[i]].reactions, js, ra, i)
    BY DEF Ordered
  <2>2. CASE rg[i] = p
    <3>1. Placed(rs, js, ra, i) /\ pn[rg[i]].reactions = <<>>
      BY <1>1, <1>7, <2>1, <2>2
    <3>2. ~Has(<<>>, WithId(i)) /\ Sole(<<>>, WithId(i))
      BY EmptyList
    <3>3. Placed(<<>>, jn, ra, i)
      BY <1>5, <1>6, <3>1, <3>2 DEF Placed
    <3> QED
      BY <3>1, <3>3
  <2>3. CASE rg[i] # p
    <3>1. ~Has(u, JobsWithId(i)) /\ rg[i] \in 1..Len(ps)
      BY <1>5, <1>9, <2>3 DEF Ordered, Known
    <3>2. Sole(u, JobsWithId(i))
      BY <3>1, NotIn
    <3>3. pn[rg[i]].reactions = ps[rg[i]].reactions
      BY <1>7, <2>3, <3>1
    <3> QED
      BY <1>6, <2>1, <3>1, <3>2, <3>3 DEF Placed
  <2> QED
    BY <2>2, <2>3
<1>12. ASSUME NEW i \in 1..Len(rg), NEW j \in 1..Len(rg), i < j, rg[i] = rg[j]
       PROVE  Follow(pn[rg[i]].reactions, jn, ra, i, j)
  <2>1. Follow(ps[rg[i]].reactions, js, ra, i, j)
    BY <1>12 DEF Ordered
  <2>2. CASE rg[i] = p
    <3>1. Follow(rs, js, ra, i, j) /\ pn[rg[i]].reactions = <<>>
      BY <1>1, <1>7, <2>1, <2>2
    <3>2. ~Has(<<>>, WithId(i)) /\ Before(<<>>, WithId(i), WithId(j))
      BY EmptyList
    <3>3. Follow(<<>>, jn, ra, i, j)
      BY <1>5, <1>6, <3>1, <3>2 DEF Follow
    <3> QED
      BY <3>1, <3>3
  <2>3. CASE rg[i] # p
    <3>1. ~Has(u, JobsWithId(i)) /\ ~Has(u, JobsWithId(j)) /\ rg[i] \in 1..Len(ps)
      BY <1>5, <1>9, <1>12, <2>3 DEF Ordered, Known
    <3>2. Before(u, JobsWithId(i), JobsWithId(j))
      BY <3>1, NotIn
    <3>3. pn[rg[i]].reactions = ps[rg[i]].reactions
      BY <1>7, <2>3, <3>1
    <3> QED
      BY <1>6, <2>1, <3>1, <3>2, <3>3 DEF Follow
  <2> QED
    BY <2>2, <2>3
<1> QED
  BY <1>10, <1>11, <1>12 DEF Ordered

\* The numbers that were given still mean the same, and the next one is not in use.
LEMMA NextNumber ==
  ASSUME NEW ps, PromisesFit(ps), NEW js, NEW rg, NEW ra, Ordered(ps, js, rg, ra),
         NEW p \in 1..Len(ps), NEW rn, Appended(rn, rg, p)
  PROVE  /\ rn \in Seq(Nat) /\ Len(rg) \in Nat /\ Len(rn) = Len(rg) + 1 /\ rn[Len(rg) + 1] = p
         /\ \A i \in 1..Len(rg) : i # Len(rg) + 1 /\ rn[i] = rg[i] /\ i \in 1..Len(rn)
         /\ \A i \in 1..Len(rn) : i \in 1..Len(rg) \/ i = Len(rg) + 1
         /\ ~Has(ra, {Len(rg) + 1}) /\ ~Has(js, JobsWithId(Len(rg) + 1))
         /\ \A q \in 1..Len(ps) : ~Has(ps[q].reactions, WithId(Len(rg) + 1))
         /\ \A i \in 1..Len(rn) : rn[i] \in 1..Len(ps)
         /\ \A rs, q : KeptBy(rs, rg, q) => KeptBy(rs, rn, q)
         /\ \A j : JobKnown(j, rg) => JobKnown(j, rn)
         /\ \A l \in 1..Len(ra) : ra[l] \in 1..Len(rn)
<1>1. rg \in Seq(Nat) /\ Len(rg) \in Nat /\ p \in Nat
  BY DEF Ordered, Known
<1>2. /\ rn \in Seq(Nat) /\ Len(rn) = Len(rg) + 1 /\ rn[Len(rg) + 1] = p
      /\ \A i \in 1..Len(rg) : rn[i] = rg[i]
      /\ \A S : Has(rn, S) <=> Has(rg, S) \/ p \in S
      /\ \A S : Sole(rg, S) /\ (p \in S => ~Has(rg, S)) => Sole(rn, S)
      /\ \A S, U : Before(rg, S, U) /\ (p \in S => ~Has(rg, U) /\ p \notin U) => Before(rn, S, U)
  BY <1>1, Appending
<1>3. \A i \in 1..Len(rg) : i # Len(rg) + 1 /\ i \in 1..Len(rn)
  BY <1>1, <1>2
<1>4. \A i \in 1..Len(rn) : i \in 1..Len(rg) \/ i = Len(rg) + 1
  BY <1>1, <1>2
<1>5. ~Has(ra, {Len(rg) + 1}) /\ \A l \in 1..Len(ra) : ra[l] \in 1..Len(rn)
  BY <1>3 DEF Ordered, Known, Has
<1>6. ~Has(js, JobsWithId(Len(rg) + 1))
  BY <1>3 DEF Ordered, Known, Has, JobKnown, JobsWithId
<1>7. \A q \in 1..Len(ps) : ~Has(ps[q].reactions, WithId(Len(rg) + 1))
  BY <1>3 DEF Ordered, Known, KeptBy, Has, WithId
<1>8. \A i \in 1..Len(rn) : rn[i] \in 1..Len(ps)
  BY <1>2, <1>4 DEF Ordered, Known
<1>9. \A rs, q : KeptBy(rs, rg, q) => KeptBy(rs, rn, q)
  BY <1>2, <1>3 DEF KeptBy
<1>10. \A j : JobKnown(j, rg) => JobKnown(j, rn)
  BY <1>3 DEF JobKnown
<1> QED
  BY <1>1, <1>2, <1>3, <1>4, <1>5, <1>6, <1>7, <1>8, <1>9, <1>10

\* A reaction of a pending promise waits with it.
LEMMA OrderWaiting ==
  ASSUME NEW ps, PromisesFit(ps), NEW js, NEW rg, NEW ra, Ordered(ps, js, rg, ra),
         NEW p \in 1..Len(ps), NEW r \in Reactions, r.id = Len(rg) + 1,
         NEW pn, Waiting(pn, ps, p, r), NEW rn, Appended(rn, rg, p)
  PROVE  Ordered(pn, js, rn, ra)
<1>0. PICK m : m = Len(rg) + 1
  OBVIOUS
<1>1. PICK rs : rs = ps[p].reactions
  OBVIOUS
<1>2. PICK t : t = pn[p].reactions
  OBVIOUS
<1>3. rs \in Seq(Reactions) /\ Appended(t, rs, r)
  BY <1>1, <1>2, At DEF Waiting
<1>4. /\ t \in Seq(Reactions) /\ Len(t) = Len(rs) + 1 /\ t[Len(rs) + 1] = r /\ Len(rs) \in Nat
      /\ \A i \in 1..Len(rs) : t[i] = rs[i]
      /\ \A S : Has(t, S) <=> Has(rs, S) \/ r \in S
      /\ \A S : Sole(rs, S) /\ (r \in S => ~Has(rs, S)) => Sole(t, S)
      /\ \A S, U : Before(rs, S, U) /\ (r \in S => ~Has(rs, U) /\ r \notin U) => Before(t, S, U)
  BY <1>3, Appending
<1>5. r \in WithId(m) /\ \A i : i # m => r \notin WithId(i)
  BY <1>0 DEF WithId
<1>6. /\ rn \in Seq(Nat) /\ Len(rg) \in Nat /\ Len(rn) = Len(rg) + 1 /\ rn[m] = p /\ m \in 1..Len(rn)
      /\ \A i \in 1..Len(rg) : i # m /\ rn[i] = rg[i] /\ i \in 1..Len(rn) /\ i < m
      /\ \A i \in 1..Len(rn) : i \in 1..Len(rg) \/ i = m
      /\ ~Has(ra, {m}) /\ ~Has(js, JobsWithId(m))
      /\ \A q \in 1..Len(ps) : ~Has(ps[q].reactions, WithId(m))
      /\ \A i \in 1..Len(rn) : rn[i] \in 1..Len(ps)
      /\ \A s, q : KeptBy(s, rg, q) => KeptBy(s, rn, q)
      /\ \A j : JobKnown(j, rg) => JobKnown(j, rn)
      /\ \A l \in 1..Len(ra) : ra[l] \in 1..Len(rn)
  <2>1. /\ rn \in Seq(Nat) /\ Len(rg) \in Nat /\ Len(rn) = Len(rg) + 1 /\ rn[Len(rg) + 1] = p
        /\ \A i \in 1..Len(rg) : i # Len(rg) + 1 /\ rn[i] = rg[i] /\ i \in 1..Len(rn)
        /\ \A i \in 1..Len(rn) : i \in 1..Len(rg) \/ i = Len(rg) + 1
        /\ ~Has(ra, {Len(rg) + 1}) /\ ~Has(js, JobsWithId(Len(rg) + 1))
        /\ \A q \in 1..Len(ps) : ~Has(ps[q].reactions, WithId(Len(rg) + 1))
        /\ \A i \in 1..Len(rn) : rn[i] \in 1..Len(ps)
        /\ \A s, q : KeptBy(s, rg, q) => KeptBy(s, rn, q)
        /\ \A j : JobKnown(j, rg) => JobKnown(j, rn)
        /\ \A l \in 1..Len(ra) : ra[l] \in 1..Len(rn)
    BY NextNumber
  <2>2. m \in 1..Len(rn) /\ \A i \in 1..Len(rg) : i < m
    BY <1>0, <2>1
  <2> QED
    BY <1>0, <2>1, <2>2
<1>7. Len(pn) = Len(ps) /\ \A q \in 1..Len(ps) : q # p => pn[q] = ps[q]
  BY DEF Waiting, OnlyAt
<1>8. KeptBy(rs, rn, p) /\ Len(rs) <= Len(rg) /\ ~Has(rs, WithId(m))
  BY <1>1, <1>6 DEF Ordered, Known
<1>9. Known(pn, js, rn, ra)
  <2>1. KeptBy(t, rn, p) /\ Len(t) <= Len(rn)
    <3>1. ASSUME NEW l \in 1..Len(t) PROVE t[l].id \in 1..Len(rn) /\ rn[t[l].id] = p
      <4>1. CASE l \in 1..Len(rs)
        BY <1>4, <1>8, <4>1 DEF KeptBy
      <4>2. CASE l = Len(rs) + 1
        <5>1. t[l].id = m
          BY <1>0, <1>4, <4>2
        <5> QED
          BY <1>6, <5>1
      <4> QED
        BY <1>4, <4>1, <4>2
    <3>2. Len(t) <= Len(rn)
      BY <1>4, <1>6, <1>8
    <3> QED
      BY <3>1, <3>2 DEF KeptBy
  <2>2. ASSUME NEW q \in 1..Len(pn)
        PROVE  KeptBy(pn[q].reactions, rn, q) /\ Len(pn[q].reactions) <= Len(rn)
    <3>1. CASE q = p
      BY <1>2, <2>1, <3>1
    <3>2. CASE q # p
      <4>1. ps[q].reactions \in Seq(Reactions) /\ Len(ps[q].reactions) \in Nat /\ pn[q] = ps[q]
        <5>1. q \in 1..Len(ps) /\ pn[q] = ps[q]
          BY <1>7, <3>2
        <5>2. ps[q].reactions \in Seq(Reactions)
          BY <5>1, At
        <5> QED
          BY <5>1, <5>2
      <4>2. KeptBy(ps[q].reactions, rg, q) /\ Len(ps[q].reactions) <= Len(rg)
        BY <1>7 DEF Ordered, Known
      <4> QED
        BY <1>6, <4>1, <4>2
    <3> QED
      BY <3>1, <3>2
  <2> QED
    BY <1>6, <1>7, <2>2 DEF Ordered, Known
<1>10. ASSUME NEW i \in 1..Len(rg)
       PROVE  \/ pn[rn[i]].reactions = ps[rg[i]].reactions
              \/ pn[rn[i]].reactions = t /\ ps[rg[i]].reactions = rs
  BY <1>1, <1>2, <1>6, <1>7 DEF Ordered, Known
<1>11. ASSUME NEW i \in 1..Len(rn) PROVE Placed(pn[rn[i]].reactions, js, ra, i)
  <2>1. CASE i \in 1..Len(rg)
    <3>1. Placed(ps[rg[i]].reactions, js, ra, i)
      BY <2>1 DEF Ordered
    <3>2. CASE pn[rn[i]].reactions = ps[rg[i]].reactions
      BY <3>1, <3>2
    <3>3. CASE pn[rn[i]].reactions = t /\ ps[rg[i]].reactions = rs
      <4>1. r \notin WithId(i) /\ Placed(rs, js, ra, i)
        BY <1>5, <1>6, <2>1, <3>1, <3>3
      <4>2. Placed(t, js, ra, i)
        BY <1>4, <4>1 DEF Placed
      <4> QED
        BY <3>3, <4>2
    <3> QED
      BY <1>10, <2>1, <3>2, <3>3
  <2>2. CASE i = m
    <3>1. Sole(ra, {m}) /\ Sole(js, JobsWithId(m)) /\ Sole(rs, WithId(m))
      BY <1>6, <1>8, NotIn
    <3>2. Placed(t, js, ra, m)
      BY <1>4, <1>5, <1>6, <1>8, <3>1 DEF Placed
    <3> QED
      BY <1>2, <1>6, <2>2, <3>2
  <2> QED
    BY <1>6, <2>1, <2>2
<1>12. ASSUME NEW i \in 1..Len(rn), NEW j \in 1..Len(rn), i < j, rn[i] = rn[j]
       PROVE  Follow(pn[rn[i]].reactions, js, ra, i, j)
  <2>1. i \in 1..Len(rg)
    BY <1>6, <1>12
  <2>2. CASE j \in 1..Len(rg)
    <3>1. Follow(ps[rg[i]].reactions, js, ra, i, j)
      BY <1>6, <1>12, <2>1, <2>2 DEF Ordered
    <3>2. CASE pn[rn[i]].reactions = ps[rg[i]].reactions
      BY <3>1, <3>2
    <3>3. CASE pn[rn[i]].reactions = t /\ ps[rg[i]].reactions = rs
      <4>1. r \notin WithId(i) /\ Follow(rs, js, ra, i, j)
        BY <1>5, <1>6, <2>1, <3>1, <3>3
      <4>2. Follow(t, js, ra, i, j)
        BY <1>4, <4>1 DEF Follow
      <4> QED
        BY <3>3, <4>2
    <3> QED
      BY <1>10, <2>1, <3>2, <3>3
  <2>3. CASE j = m
    <3>1. pn[rn[i]].reactions = t
      BY <1>2, <1>6, <1>12, <2>3
    <3>2. /\ Before(ra, {i}, {m}) /\ Before(js, JobsWithId(i), JobsWithId(m))
          /\ Before(rs, WithId(i), WithId(m))
      BY <1>6, <1>8, NotIn
    <3>3. r \notin WithId(i)
      BY <1>5, <1>6, <2>1
    <3>4. Follow(t, js, ra, i, m)
      BY <1>4, <1>6, <3>2, <3>3 DEF Follow
    <3> QED
      BY <2>3, <3>1, <3>4
  <2> QED
    BY <1>6, <2>2, <2>3
<1> QED
  BY <1>9, <1>11, <1>12 DEF Ordered

\* A reaction of a settled promise goes to the queue at once.
LEMMA OrderQueued ==
  ASSUME NEW ps, PromisesFit(ps), NEW js, JobsFit(ps, js), NEW rg, NEW ra, Ordered(ps, js, rg, ra),
         NEW p \in 1..Len(ps), ps[p].reactions = <<>>,
         NEW x \in ReactionJobs, x.reaction.id = Len(rg) + 1,
         NEW jn, Appended(jn, js, x), NEW rn, Appended(rn, rg, p)
  PROVE  Ordered(ps, jn, rn, ra)
<1>0. PICK m : m = Len(rg) + 1
  OBVIOUS
<1>1. js \in Seq(Jobs) /\ x \in Jobs /\ Len(js) \in Nat
  BY JobKinds DEF JobsFit
<1>2. /\ Len(jn) = Len(js) + 1 /\ jn[Len(js) + 1] = x
      /\ \A i \in 1..Len(js) : jn[i] = js[i]
      /\ \A S : Has(jn, S) <=> Has(js, S) \/ x \in S
      /\ \A S : Sole(js, S) /\ (x \in S => ~Has(js, S)) => Sole(jn, S)
      /\ \A S, U : Before(js, S, U) /\ (x \in S => ~Has(js, U) /\ x \notin U) => Before(jn, S, U)
  BY <1>1, Appending
<1>3. x \in JobsWithId(m) /\ \A i : i # m => x \notin JobsWithId(i)
  BY <1>0, JobKinds
<1>4. /\ rn \in Seq(Nat) /\ Len(rg) \in Nat /\ Len(rn) = Len(rg) + 1 /\ rn[m] = p /\ m \in 1..Len(rn)
      /\ \A i \in 1..Len(rg) : i # m /\ rn[i] = rg[i] /\ i \in 1..Len(rn) /\ i < m
      /\ \A i \in 1..Len(rn) : i \in 1..Len(rg) \/ i = m
      /\ ~Has(ra, {m}) /\ ~Has(js, JobsWithId(m))
      /\ \A q \in 1..Len(ps) : ~Has(ps[q].reactions, WithId(m))
      /\ \A i \in 1..Len(rn) : rn[i] \in 1..Len(ps)
      /\ \A s, q : KeptBy(s, rg, q) => KeptBy(s, rn, q)
      /\ \A j : JobKnown(j, rg) => JobKnown(j, rn)
      /\ \A l \in 1..Len(ra) : ra[l] \in 1..Len(rn)
  <2>1. /\ rn \in Seq(Nat) /\ Len(rg) \in Nat /\ Len(rn) = Len(rg) + 1 /\ rn[Len(rg) + 1] = p
        /\ \A i \in 1..Len(rg) : i # Len(rg) + 1 /\ rn[i] = rg[i] /\ i \in 1..Len(rn)
        /\ \A i \in 1..Len(rn) : i \in 1..Len(rg) \/ i = Len(rg) + 1
        /\ ~Has(ra, {Len(rg) + 1}) /\ ~Has(js, JobsWithId(Len(rg) + 1))
        /\ \A q \in 1..Len(ps) : ~Has(ps[q].reactions, WithId(Len(rg) + 1))
        /\ \A i \in 1..Len(rn) : rn[i] \in 1..Len(ps)
        /\ \A s, q : KeptBy(s, rg, q) => KeptBy(s, rn, q)
        /\ \A j : JobKnown(j, rg) => JobKnown(j, rn)
        /\ \A l \in 1..Len(ra) : ra[l] \in 1..Len(rn)
    BY NextNumber
  <2>2. m \in 1..Len(rn) /\ \A i \in 1..Len(rg) : i < m
    BY <1>0, <2>1
  <2> QED
    BY <1>0, <2>1, <2>2
<1>5. Known(ps, jn, rn, ra)
  <2>1. ASSUME NEW q \in 1..Len(ps)
        PROVE  KeptBy(ps[q].reactions, rn, q) /\ Len(ps[q].reactions) <= Len(rn)
    <3>1. Len(ps[q].reactions) \in Nat
      BY At
    <3>2. KeptBy(ps[q].reactions, rg, q) /\ Len(ps[q].reactions) <= Len(rg)
      BY DEF Ordered, Known
    <3> QED
      BY <1>4, <3>1, <3>2
  <2>2. ASSUME NEW l \in 1..Len(jn) PROVE JobKnown(jn[l], rn)
    <3>1. CASE l \in 1..Len(js)
      BY <1>2, <1>4, <3>1 DEF Ordered, Known
    <3>2. CASE l = Len(js) + 1
      BY <1>0, <1>2, <1>4, <3>2 DEF JobKnown
    <3> QED
      BY <1>1, <1>2, <3>1, <3>2
  <2> QED
    BY <1>4, <2>1, <2>2 DEF Ordered, Known
<1>6. ASSUME NEW i \in 1..Len(rn) PROVE Placed(ps[rn[i]].reactions, jn, ra, i)
  <2>1. CASE i \in 1..Len(rg)
    <3>1. Placed(ps[rn[i]].reactions, js, ra, i)
      BY <1>4, <2>1 DEF Ordered
    <3>2. x \notin JobsWithId(i)
      BY <1>3, <1>4, <2>1
    <3> QED
      BY <1>2, <3>1, <3>2 DEF Placed
  <2>2. CASE i = m
    <3>1. Sole(ra, {m}) /\ Sole(js, JobsWithId(m))
      BY <1>4, NotIn
    <3>2. ~Has(<<>>, WithId(m)) /\ Sole(<<>>, WithId(m))
      BY EmptyList
    <3>3. Placed(<<>>, jn, ra, m)
      BY <1>2, <1>3, <1>4, <3>1, <3>2 DEF Placed
    <3> QED
      BY <1>4, <2>2, <3>3
  <2> QED
    BY <1>4, <2>1, <2>2
<1>7. ASSUME NEW i \in 1..Len(rn), NEW j \in 1..Len(rn), i < j, rn[i] = rn[j]
      PROVE  Follow(ps[rn[i]].reactions, jn, ra, i, j)
  <2>1. i \in 1..Len(rg) /\ x \notin JobsWithId(i)
    BY <1>3, <1>4, <1>7
  <2>2. CASE j \in 1..Len(rg)
    <3>1. Follow(ps[rn[i]].reactions, js, ra, i, j) /\ x \notin JobsWithId(j)
      BY <1>3, <1>4, <1>7, <2>1, <2>2 DEF Ordered
    <3> QED
      BY <1>2, <2>1, <3>1 DEF Follow
  <2>3. CASE j = m
    <3>1. ps[rn[i]].reactions = <<>>
      BY <1>4, <1>7, <2>3
    <3>2. Before(ra, {i}, {m}) /\ Before(js, JobsWithId(i), JobsWithId(m))
      BY <1>4, NotIn
    <3>3. Before(<<>>, WithId(i), WithId(m)) /\ ~Has(<<>>, WithId(i))
      BY EmptyList
    <3>4. Follow(<<>>, jn, ra, i, m)
      BY <1>2, <1>4, <2>1, <3>2, <3>3 DEF Follow
    <3> QED
      BY <2>3, <3>1, <3>4
  <2> QED
    BY <1>4, <2>2, <2>3
<1> QED
  BY <1>5, <1>6, <1>7 DEF Ordered

\* The first job runs a reaction.
LEMMA OrderRun ==
  ASSUME NEW ps, NEW js, JobsFit(ps, js), NEW rg, NEW ra, Ordered(ps, js, rg, ra),
         NEW jn, Beheaded(jn, js), js[1] \in ReactionJobs,
         NEW rb, Appended(rb, ra, js[1].reaction.id)
  PROVE  Ordered(ps, jn, rg, rb)
<1>0. PICK m : m = js[1].reaction.id
  OBVIOUS
<1>1. js \in Seq(Jobs) /\ js[1] \in JobsWithId(m) /\ \A i : i # m => js[1] \notin JobsWithId(i)
  BY <1>0, JobKinds DEF JobsFit
<1>2. /\ Len(jn) = Len(js) - 1 /\ Len(js) > 0 /\ Len(js) \in Nat
      /\ \A i \in 1..Len(jn) : jn[i] = js[i + 1]
      /\ \A S : Has(js, S) <=> js[1] \in S \/ Has(jn, S)
      /\ \A S : Sole(js, S) => Sole(jn, S) /\ (js[1] \in S => ~Has(jn, S))
      /\ \A S, U : Before(js, S, U) => Before(jn, S, U) /\ (js[1] \in U => ~Has(jn, S))
  BY <1>1, Beheading
<1>3. 1 \in 1..Len(js) /\ \A i \in 1..Len(jn) : i + 1 \in 1..Len(js)
  BY <1>2
<1>4. m \in 1..Len(rg) /\ ra \in Seq(Nat) /\ m \in Nat /\ Len(ra) \in Nat
  <2>1. m \in 1..Len(rg)
    BY <1>0, <1>3 DEF Ordered, Known, JobKnown
  <2> QED
    BY <2>1 DEF Ordered, Known
<1>5. Appended(rb, ra, m)
  BY <1>0
<1>6. /\ rb \in Seq(Nat) /\ Len(rb) = Len(ra) + 1 /\ rb[Len(ra) + 1] = m
      /\ \A i \in 1..Len(ra) : rb[i] = ra[i]
      /\ \A S : Has(rb, S) <=> Has(ra, S) \/ m \in S
      /\ \A S : Sole(ra, S) /\ (m \in S => ~Has(ra, S)) => Sole(rb, S)
      /\ \A S, U : Before(ra, S, U) /\ (m \in S => ~Has(ra, U) /\ m \notin U) => Before(rb, S, U)
  BY <1>4, <1>5, Appending
<1>7. Known(ps, jn, rg, rb)
  <2>1. \A l \in 1..Len(jn) : JobKnown(jn[l], rg)
    BY <1>2, <1>3 DEF Ordered, Known
  <2>2. ASSUME NEW l \in 1..Len(rb) PROVE rb[l] \in 1..Len(rg)
    <3>1. CASE l \in 1..Len(ra)
      BY <1>6, <3>1 DEF Ordered, Known
    <3>2. CASE l = Len(ra) + 1
      BY <1>4, <1>6, <3>2
    <3> QED
      BY <1>4, <1>6, <3>1, <3>2
  <2> QED
    BY <1>6, <2>1, <2>2 DEF Ordered, Known
<1>8. ASSUME NEW i \in 1..Len(rg) PROVE Placed(ps[rg[i]].reactions, jn, rb, i)
  <2>1. Placed(ps[rg[i]].reactions, js, ra, i)
    BY DEF Ordered
  <2>2. CASE i = m
    <3>1. m \in {i} /\ js[1] \in JobsWithId(i)
      BY <1>1, <2>2
    <3> QED
      BY <1>2, <1>6, <2>1, <3>1 DEF Placed
  <2>3. CASE i # m
    <3>1. m \notin {i} /\ js[1] \notin JobsWithId(i)
      BY <1>1, <2>3
    <3> QED
      BY <1>2, <1>6, <2>1, <3>1 DEF Placed
  <2> QED
    BY <2>2, <2>3
<1>9. ASSUME NEW i \in 1..Len(rg), NEW j \in 1..Len(rg), i < j, rg[i] = rg[j]
      PROVE  Follow(ps[rg[i]].reactions, jn, rb, i, j)
  <2>1. Follow(ps[rg[i]].reactions, js, ra, i, j) /\ i # j
    BY <1>4, <1>9 DEF Ordered
  <2>2. Placed(ps[rg[i]].reactions, js, ra, i) /\ Placed(ps[rg[i]].reactions, js, ra, j)
    <3>1. Placed(ps[rg[j]].reactions, js, ra, j)
      BY DEF Ordered
    <3> QED
      BY <1>9, <3>1 DEF Ordered
  <2>3. CASE i = m
    <3>1. m \in {i} /\ m \notin {j} /\ js[1] \in JobsWithId(i) /\ js[1] \notin JobsWithId(j)
      BY <1>1, <2>1, <2>3
    <3>2. ~Has(ra, {i})
      BY <1>2, <2>2, <3>1 DEF Placed
    <3> QED
      BY <1>2, <1>6, <2>1, <3>1, <3>2 DEF Follow
  <2>4. CASE j = m
    <3>1. m \notin {i} /\ m \in {j} /\ js[1] \notin JobsWithId(i) /\ js[1] \in JobsWithId(j)
      BY <1>1, <2>1, <2>4
    <3>2. ~Has(js, JobsWithId(i)) /\ ~Has(ps[rg[i]].reactions, WithId(i))
      BY <1>2, <2>1, <3>1 DEF Follow
    <3>3. Has(ra, {i})
      BY <2>2, <3>2 DEF Placed
    <3> QED
      BY <1>2, <1>6, <2>1, <3>1, <3>3 DEF Follow
  <2>5. CASE i # m /\ j # m
    <3>1. m \notin {i} /\ m \notin {j} /\ js[1] \notin JobsWithId(i) /\ js[1] \notin JobsWithId(j)
      BY <1>1, <2>5
    <3> QED
      BY <1>2, <1>6, <2>1, <3>1 DEF Follow
  <2> QED
    BY <2>3, <2>4, <2>5
<1> QED
  BY <1>7, <1>8, <1>9 DEF Ordered

-----------------------------------------------------------------------------
(* Part 4 under the changes. *)

Turned(an, as, f, st) == \A h \in Asyncs : an[h] = IF h = f THEN st ELSE as[h]

\* l frames are left; an says of each async call among them that it no longer runs.
Leaving(an, as, sk, l) ==
  \A f \in Asyncs : an[f] = "running" <=>
    (as[f] = "running" /\ \A i \in 1..l : sk[i] \notin Running(f))

LEMMA RunsLeft ==
  ASSUME NEW sk \in Seq(Frames), NEW as, Runs(sk, as), NEW l \in 0..Len(sk), NEW sn, Dropped(sn, sk, l),
         NEW an, Leaving(an, as, sk, l)
  PROVE  Runs(sn, an)
<1> SUFFICES ASSUME NEW f \in Asyncs
             PROVE  Sole(sn, Running(f)) /\ (Has(sn, Running(f)) <=> an[f] = "running")
  BY DEF Runs
<1>1. Sole(sk, Running(f)) /\ (Has(sk, Running(f)) <=> as[f] = "running")
  BY DEF Runs
<1>2. an[f] = "running" <=> (as[f] = "running" /\ \A i \in 1..l : sk[i] \notin Running(f))
  BY DEF Leaving
<1>3. /\ \A S : Has(sn, S) => Has(sk, S)
      /\ \A S : (\A i \in 1..l : sk[i] \notin S) => (Has(sn, S) <=> Has(sk, S))
      /\ \A S : Sole(sk, S) => Sole(sn, S)
      /\ \A S : Sole(sk, S) /\ (\E i \in 1..l : sk[i] \in S) => ~Has(sn, S)
  BY Dropping
<1>4. CASE \A i \in 1..l : sk[i] \notin Running(f)
  BY <1>1, <1>3, <1>4, <1>2
<1>5. CASE \E i \in 1..l : sk[i] \in Running(f)
  BY <1>1, <1>3, <1>5, <1>2
<1> QED
  BY <1>4, <1>5

\* A frame is entered that is no async call's.
LEMMA RunsEntered ==
  ASSUME NEW sk \in Seq(Frames), NEW as, Runs(sk, as), NEW x \in Frames, x.kind # "async",
         NEW sn, Consed(sn, x, sk)
  PROVE  Runs(sn, as)
<1>1. \A f : x \notin Running(f)
  BY FrameKinds
<1>2. \A f : Alike(sn, sk, Running(f))
  BY <1>1, AlikeConsed
<1> QED
  BY <1>2 DEF Runs, Alike

\* An async call starts or is resumed.
LEMMA RunsCalled ==
  ASSUME NEW sk \in Seq(Frames), NEW as, Runs(sk, as), NEW x \in Frames, x.kind = "async", x.p \in Asyncs,
         as[x.p] # "running", NEW sn, Consed(sn, x, sk), NEW an, Turned(an, as, x.p, "running")
  PROVE  Runs(sn, an)
<1> SUFFICES ASSUME NEW f \in Asyncs
             PROVE  Sole(sn, Running(f)) /\ (Has(sn, Running(f)) <=> an[f] = "running")
  BY DEF Runs
<1>1. Sole(sk, Running(f)) /\ (Has(sk, Running(f)) <=> as[f] = "running")
  BY DEF Runs
<1>2. /\ \A S : Has(sn, S) <=> Has(sk, S) \/ x \in S
      /\ \A S : Sole(sk, S) /\ (x \in S => ~Has(sk, S)) => Sole(sn, S)
  BY Consing
<1>3. x \in Running(f) <=> x.p = f
  BY FrameKinds
<1>4. an[f] = IF f = x.p THEN "running" ELSE as[f]
  BY DEF Turned
<1> QED
  BY <1>1, <1>2, <1>3, <1>4

LEMMA AwaitsKept ==
  ASSUME NEW ps, NEW js, NEW as, NEW g, Awaits(ps, js, as, g), NEW pn, NEW jn, NEW an,
         \A f \in Asyncs : an[f] = "awaiting" <=> as[f] = "awaiting",
         \A f, i : Resumed(pn, jn, f, i) <=> Resumed(ps, js, f, i)
  PROVE  Awaits(pn, jn, an, g)
BY DEF Awaits

LEMMA ResumedKept ==
  ASSUME NEW ps, NEW js, NEW pn, NEW jn, SameLists(pn, ps), SameReactions(jn, js)
  PROVE  \A f, i : Resumed(pn, jn, f, i) <=> Resumed(ps, js, f, i)
<1> SUFFICES ASSUME NEW f, NEW i PROVE Resumed(pn, jn, f, i) <=> Resumed(ps, js, f, i)
  OBVIOUS
<1>1. Has(jn, JobsResuming(f, i)) <=> Has(js, JobsResuming(f, i))
  <2>1. \A j \in JobsResuming(f, i) : j \in ReactionJobs
    BY DEF JobsResuming
  <2> QED
    BY <2>1 DEF SameReactions, Has
<1>2. (\E p \in 1..Len(pn) : Has(pn[p].reactions, Resuming(f, i)))
        <=> (\E p \in 1..Len(ps) : Has(ps[p].reactions, Resuming(f, i)))
  <2>1. ASSUME NEW p \in 1..Len(pn), Has(pn[p].reactions, Resuming(f, i))
        PROVE  p \in 1..Len(ps) /\ Has(ps[p].reactions, Resuming(f, i))
    <3>1. CASE p \in 1..Len(ps)
      BY <2>1, <3>1 DEF SameLists
    <3>2. CASE p \notin 1..Len(ps)
      <4>1. pn[p].reactions = <<>>
        BY <3>2 DEF SameLists
      <4>2. ~Has(<<>>, Resuming(f, i))
        BY EmptyList
      <4> QED
        BY <2>1, <4>1, <4>2
    <3> QED
      BY <3>1, <3>2
  <2>2. ASSUME NEW p \in 1..Len(ps), Has(ps[p].reactions, Resuming(f, i))
        PROVE  p \in 1..Len(pn) /\ Has(pn[p].reactions, Resuming(f, i))
    BY <2>2 DEF SameLists
  <2> QED
    BY <2>1, <2>2
<1> QED
  BY <1>1, <1>2 DEF Resumed

LEMMA AwaitsSame ==
  ASSUME NEW ps, NEW js, NEW as, NEW g, Awaits(ps, js, as, g), NEW pn, NEW jn,
         SameLists(pn, ps), SameReactions(jn, js)
  PROVE  Awaits(pn, jn, as, g)
<1>1. \A f, i : Resumed(pn, jn, f, i) <=> Resumed(ps, js, f, i)
  BY ResumedKept
<1> QED
  BY <1>1, AwaitsKept

LEMMA ResumedMoved ==
  ASSUME NEW ps, PromisesFit(ps), NEW js, JobsFit(ps, js),
         NEW p \in 1..Len(ps), NEW st, NEW pn, NEW jn, Closed(pn, jn, ps, js, p, st)
  PROVE  \A f, i : Resumed(pn, jn, f, i) <=> Resumed(ps, js, f, i)
<1> SUFFICES ASSUME NEW f, NEW i PROVE Resumed(pn, jn, f, i) <=> Resumed(ps, js, f, i)
  OBVIOUS
<1>1. PICK rs : rs = ps[p].reactions
  OBVIOUS
<1>2. rs \in Seq(Reactions) /\ js \in Seq(Jobs)
  BY <1>1, At DEF JobsFit
<1>3. PICK u \in Seq(ReactionJobs) :
        Joined(jn, js, u) /\ Len(u) = Len(rs) /\ \A l \in 1..Len(u) : u[l].reaction = rs[l]
  BY <1>1 DEF Closed, Moved
<1>4. u \in Seq(Jobs)
  BY <1>3, JobKinds
<1>5. \A S : Has(jn, S) <=> Has(js, S) \/ Has(u, S)
  BY <1>2, <1>3, <1>4, Joining
<1>6. Has(u, JobsResuming(f, i)) <=> Has(rs, Resuming(f, i))
  <2>1. \A l \in 1..Len(u) : u[l] \in ReactionJobs
    BY <1>3
  <2>2. \A l \in 1..Len(u) : u[l] \in JobsResuming(f, i) <=> rs[l] \in Resuming(f, i)
    BY <1>3, <2>1 DEF JobsResuming
  <2> QED
    BY <1>3, <2>2 DEF Has
<1>7. /\ Len(pn) = Len(ps) /\ pn[p].reactions = <<>>
      /\ \A q \in 1..Len(ps) : q # p => pn[q] = ps[q]
  BY DEF Closed, OnlyAt
<1>8. ~Has(pn[p].reactions, Resuming(f, i))
  BY <1>7, EmptyList
<1> QED
  BY <1>1, <1>5, <1>6, <1>7, <1>8 DEF Resumed

\* Reaction r is registered, with its promise or in the queue.
LEMMA ResumedWaiting ==
  ASSUME NEW ps, PromisesFit(ps), NEW js, NEW p \in 1..Len(ps), NEW r \in Reactions,
         NEW pn, Waiting(pn, ps, p, r)
  PROVE  \A f, i : Resumed(pn, js, f, i) <=> Resumed(ps, js, f, i) \/ r \in Resuming(f, i)
<1>1. ps[p].reactions \in Seq(Reactions) /\ Appended(pn[p].reactions, ps[p].reactions, r)
  BY At DEF Waiting
<1>2. \A S : Has(pn[p].reactions, S) <=> Has(ps[p].reactions, S) \/ r \in S
  BY <1>1, Appending
<1>3. Len(pn) = Len(ps) /\ \A q \in 1..Len(ps) : q # p => pn[q] = ps[q]
  BY DEF Waiting, OnlyAt
<1> QED
  BY <1>2, <1>3 DEF Resumed

LEMMA ResumedQueued ==
  ASSUME NEW ps, NEW js, JobsFit(ps, js), NEW x \in ReactionJobs, NEW jn, Appended(jn, js, x)
  PROVE  \A f, i : Resumed(ps, jn, f, i) <=> Resumed(ps, js, f, i) \/ x.reaction \in Resuming(f, i)
<1>1. js \in Seq(Jobs) /\ x \in Jobs
  BY JobKinds DEF JobsFit
<1>2. \A S : Has(jn, S) <=> Has(js, S) \/ x \in S
  BY <1>1, Appending
<1>3. \A f, i : x \in JobsResuming(f, i) <=> x.reaction \in Resuming(f, i)
  BY DEF JobsResuming
<1> QED
  BY <1>2, <1>3 DEF Resumed

LEMMA AwaitsGiven ==
  ASSUME NEW ps, NEW js, NEW as, NEW pn, NEW jn, NEW r \in Reactions,
         r.kind = "resume" => r.p \in Asyncs /\ as[r.p] = "awaiting",
         Awaits(ps, js, as, IF r.kind = "resume" THEN {r.p} ELSE {}),
         \A f, i : Resumed(pn, jn, f, i) <=> Resumed(ps, js, f, i) \/ r \in Resuming(f, i)
  PROVE  Awaits(pn, jn, as, {})
<1>1. \A f, i : r \in Resuming(f, i) <=> r.kind = "resume" /\ r.p = f /\ r.id = i
  BY DEF Resuming
<1>2. r.id \in Nat
  BY DEF Reactions
<1>3. CASE r.kind # "resume"
  BY <1>1, <1>3 DEF Awaits
<1>4. CASE r.kind = "resume"
  <2>1. Awaits(ps, js, as, {r.p})
    BY <1>4
  <2>2. ASSUME NEW f \in Asyncs
        PROVE  /\ \A i, j \in Nat : Resumed(pn, jn, f, i) /\ Resumed(pn, jn, f, j) => i = j
               /\ (\E i \in Nat : Resumed(pn, jn, f, i)) <=> (as[f] = "awaiting" /\ f \notin {})
    <3>1. CASE f = r.p
      <4>1. \A i \in Nat : ~Resumed(ps, js, f, i)
        BY <2>1, <3>1 DEF Awaits
      <4>2. \A i \in Nat : Resumed(pn, jn, f, i) <=> i = r.id
        BY <1>1, <1>4, <3>1, <4>1
      <4>3. as[f] = "awaiting" /\ f \notin {}
        BY <1>4, <3>1
      <4> QED
        BY <1>2, <4>2, <4>3
    <3>2. CASE f # r.p
      <4>1. \A i \in Nat : Resumed(pn, jn, f, i) <=> Resumed(ps, js, f, i)
        BY <1>1, <3>2
      <4>2. /\ \A i, j \in Nat : Resumed(ps, js, f, i) /\ Resumed(ps, js, f, j) => i = j
            /\ (\E i \in Nat : Resumed(ps, js, f, i)) <=> (as[f] = "awaiting" /\ f \notin {r.p})
        BY <2>1 DEF Awaits
      <4> QED
        BY <3>2, <4>1, <4>2
    <3> QED
      BY <3>1, <3>2
  <2> QED
    BY <2>2 DEF Awaits
<1> QED
  BY <1>3, <1>4

\* The first job runs reaction r.
RunBy(r, js) == r = js[1].reaction

\* The async call it resumes is no longer waited for.
LEMMA AwaitsRun ==
  ASSUME NEW ps, NEW js, JobsFit(ps, js), NEW rg, NEW ra, Ordered(ps, js, rg, ra), NEW as,
         Awaits(ps, js, as, {}), NEW jn, Beheaded(jn, js), js[1] \in ReactionJobs,
         NEW r, RunBy(r, js)
  PROVE  /\ Awaits(ps, jn, as, IF r.kind = "resume" THEN {r.p} ELSE {})
         /\ r.kind = "resume" => r.p \in Asyncs /\ as[r.p] = "awaiting"
<1> USE DEF RunBy
<1>1. js \in Seq(Jobs) /\ r \in Reactions /\ r.id \in Nat
  BY JobKinds DEF JobsFit
<1>2. /\ Len(js) > 0 /\ Len(js) \in Nat
      /\ \A S : Has(js, S) <=> js[1] \in S \/ Has(jn, S)
      /\ \A S : Sole(js, S) => Sole(jn, S) /\ (js[1] \in S => ~Has(jn, S))
  BY <1>1, Beheading
<1>3. \A f, i : js[1] \in JobsResuming(f, i) <=> r.kind = "resume" /\ r.p = f /\ r.id = i
  BY <1>1 DEF JobsResuming, Resuming
<1>4. CASE r.kind # "resume"
  <2>1. \A f, i : Resumed(ps, jn, f, i) <=> Resumed(ps, js, f, i)
    BY <1>2, <1>3, <1>4 DEF Resumed
  <2>2. Awaits(ps, jn, as, {})
    BY <2>1, AwaitsKept
  <2> QED
    BY <1>4, <2>2
<1>5. CASE r.kind = "resume"
  <2>1. r.p \in Asyncs /\ r.id \in 1..Len(rg)
    <3>1. 1 \in 1..Len(js)
      BY <1>2
    <3>2. JobFits(ps, js[1]) /\ JobKnown(js[1], rg)
      BY <3>1 DEF JobsFit, Ordered, Known
    <3> QED
      BY <1>5, <3>2 DEF JobFits, ReactionFits, JobKnown
  <2>2. PICK f \in Asyncs : f = r.p
    BY <2>1
  <2>3. Resumed(ps, js, f, r.id)
    BY <1>2, <1>3, <1>5, <2>2 DEF Resumed
  <2>4. /\ \A i, j \in Nat : Resumed(ps, js, f, i) /\ Resumed(ps, js, f, j) => i = j
        /\ (\E i \in Nat : Resumed(ps, js, f, i)) <=> (as[f] = "awaiting" /\ f \notin {})
    BY DEF Awaits
  <2>5. as[f] = "awaiting"
    BY <1>1, <2>3, <2>4
  <2>6. Placed(ps[rg[r.id]].reactions, js, ra, r.id) /\ js[1] \in JobsWithId(r.id)
    BY <2>1, JobKinds DEF Ordered
  <2>7. ~Has(jn, JobsWithId(r.id)) /\ ~Has(ps[rg[r.id]].reactions, WithId(r.id))
    BY <1>2, <2>6 DEF Placed
  <2>8. \A i \in Nat : ~Resumed(ps, jn, f, i)
    <3> SUFFICES ASSUME NEW i \in Nat, Resumed(ps, jn, f, i) PROVE FALSE
      OBVIOUS
    <3>1. Resumed(ps, js, f, i)
      BY <1>2 DEF Resumed
    <3>2. i = r.id
      BY <1>1, <2>3, <2>4, <3>1
    <3>3. CASE Has(jn, JobsResuming(f, i))
      <4>1. \A j \in JobsResuming(f, i) : j \in JobsWithId(i)
        BY DEF JobsResuming, Resuming, JobsWithId
      <4> QED
        BY <2>7, <3>2, <3>3, <4>1 DEF Has
    <3>4. CASE \E p \in 1..Len(ps) : Has(ps[p].reactions, Resuming(f, i))
      <4>1. PICK p \in 1..Len(ps) : Has(ps[p].reactions, Resuming(f, i))
        BY <3>4
      <4>2. PICK l \in 1..Len(ps[p].reactions) : ps[p].reactions[l] \in Resuming(f, i)
        BY <4>1 DEF Has
      <4>3. ps[p].reactions[l].id = i /\ ps[p].reactions[l] \in WithId(i)
        BY <4>2 DEF Resuming, WithId
      <4>4. rg[i] = p
        BY <4>3 DEF Ordered, Known, KeptBy
      <4> QED
        BY <2>7, <3>2, <4>3, <4>4 DEF Has
    <3> QED
      BY <3>3, <3>4 DEF Resumed
  <2>9. Awaits(ps, jn, as, {f})
    <3>1. ASSUME NEW h \in Asyncs
          PROVE  /\ \A i, j \in Nat : Resumed(ps, jn, h, i) /\ Resumed(ps, jn, h, j) => i = j
                 /\ (\E i \in Nat : Resumed(ps, jn, h, i)) <=> (as[h] = "awaiting" /\ h \notin {f})
      <4>1. CASE h = f
        BY <2>8, <4>1
      <4>2. CASE h # f
        <5>1. \A i : Resumed(ps, jn, h, i) <=> Resumed(ps, js, h, i)
          BY <1>2, <1>3, <2>2, <4>2 DEF Resumed
        <5>2. /\ \A i, j \in Nat : Resumed(ps, js, h, i) /\ Resumed(ps, js, h, j) => i = j
              /\ (\E i \in Nat : Resumed(ps, js, h, i)) <=> (as[h] = "awaiting" /\ h \notin {})
          BY DEF Awaits
        <5> QED
          BY <4>2, <5>1, <5>2
      <4> QED
        BY <4>1, <4>2
    <3> QED
      BY <3>1 DEF Awaits
  <2> QED
    BY <1>5, <2>2, <2>5, <2>9
<1> QED
  BY <1>4, <1>5

\* The call that was waited for goes on, and one that runs begins to wait.
LEMMA AwaitsTurned ==
  ASSUME NEW ps, NEW js, NEW as, NEW an, NEW f, NEW st, Turned(an, as, f, st)
  PROVE  /\ Awaits(ps, js, as, {f}) /\ st # "awaiting" => Awaits(ps, js, an, {})
         /\ Awaits(ps, js, as, {}) /\ as[f] # "awaiting" /\ st = "awaiting" => Awaits(ps, js, an, {f})
<1>1. ASSUME Awaits(ps, js, as, {f}), st # "awaiting" PROVE Awaits(ps, js, an, {})
  <2>1. \A h \in Asyncs : (an[h] = "awaiting" /\ h \notin {}) <=> (as[h] = "awaiting" /\ h \notin {f})
    BY <1>1 DEF Turned
  <2> QED
    BY <1>1, <2>1 DEF Awaits
<1>2. ASSUME Awaits(ps, js, as, {}), as[f] # "awaiting", st = "awaiting" PROVE Awaits(ps, js, an, {f})
  <2>1. \A h \in Asyncs : (an[h] = "awaiting" /\ h \notin {f}) <=> (as[h] = "awaiting" /\ h \notin {})
    BY <1>2 DEF Turned
  <2> QED
    BY <1>2, <2>1 DEF Awaits
<1> QED
  BY <1>1, <1>2

-----------------------------------------------------------------------------
(* Part 1 under the changes. *)

\* What was there is still there.
Wider(pn, ps) ==
  /\ 1..Len(ps) \subseteq 1..Len(pn)
  /\ \A p \in 1..Len(ps) : 1..Len(ps[p].used) \subseteq 1..Len(pn[p].used)

LEMMA Widened ==
  ASSUME NEW ps, NEW pn, Wider(pn, ps)
  PROVE  /\ \A p, k : Pair(ps, p, k) => Pair(pn, p, k)
         /\ \A r : ReactionFits(ps, r) => ReactionFits(pn, r)
         /\ \A j : JobFits(ps, j) => JobFits(pn, j)
         /\ \A js : JobsFit(ps, js) => JobsFit(pn, js)
         /\ \A sk : StackFits(ps, sk) => StackFits(pn, sk)
         /\ \A hl : HeldFits(ps, hl) => HeldFits(pn, hl)
         /\ \A as, ro : CallsFit(ps, as, ro) => CallsFit(pn, as, ro)
<1>1. \A p, k : Pair(ps, p, k) => Pair(pn, p, k)
  BY DEF Wider, Pair
<1>2. \A r : ReactionFits(ps, r) => ReactionFits(pn, r)
  BY <1>1 DEF ReactionFits
<1>3. \A p : p \in 1..Len(ps) => p \in 1..Len(pn)
  BY DEF Wider
<1>4. \A j : JobFits(ps, j) => JobFits(pn, j)
  BY <1>2, <1>3 DEF JobFits
<1>5. \A x : FrameFits(ps, x) => FrameFits(pn, x)
  BY <1>1, <1>3 DEF FrameFits
<1>6. \A js : JobsFit(ps, js) => JobsFit(pn, js)
  BY <1>4 DEF JobsFit
<1>7. \A sk : StackFits(ps, sk) => StackFits(pn, sk)
  BY <1>5 DEF StackFits
<1>8. \A hl : HeldFits(ps, hl) => HeldFits(pn, hl)
  BY <1>1 DEF HeldFits
<1>9. \A as, ro : CallsFit(ps, as, ro) => CallsFit(pn, as, ro)
  BY <1>3 DEF CallsFit
<1> QED
  BY <1>1, <1>2, <1>4, <1>6, <1>7, <1>8, <1>9

\* A change of one promise.
LEMMA FitsAt ==
  ASSUME NEW ps, PromisesFit(ps), NEW p \in 1..Len(ps), NEW pn, OnlyAt(pn, ps, p),
         1..Len(ps[p].used) \subseteq 1..Len(pn[p].used), PromiseFits(pn, p)
  PROVE  PromisesFit(pn) /\ Wider(pn, ps)
<1>1. pn \in Seq(Records) /\ Len(pn) = Len(ps) /\ \A q \in 1..Len(ps) : q # p => pn[q] = ps[q]
  BY DEF OnlyAt
<1>2. Wider(pn, ps)
  BY <1>1 DEF Wider
<1>3. \A r : ReactionFits(ps, r) => ReactionFits(pn, r)
  BY <1>2, Widened
<1>4. ASSUME NEW q \in 1..Len(pn) PROVE PromiseFits(pn, q)
  <2>1. CASE q # p
    <3>1. PromiseFits(ps, q) /\ pn[q] = ps[q]
      BY <1>1, <2>1 DEF PromisesFit
    <3> QED
      BY <1>3, <3>1 DEF PromiseFits
  <2> QED
    BY <2>1
<1> QED
  BY <1>1, <1>2, <1>4 DEF PromisesFit

\* The reactions of p, wherever they are then.
LEMMA ReactionsOf ==
  ASSUME NEW ps, PromisesFit(ps), NEW p \in 1..Len(ps)
  PROVE  /\ Len(ps[p].used) > 0 /\ Len(ps[p].used) \in Nat
         /\ ps[p].st # "pending" => ps[p].reactions = <<>>
         /\ \A l \in 1..Len(ps[p].reactions) : ReactionFits(ps, ps[p].reactions[l])
<1>1. PromiseFits(ps, p)
  BY DEF PromisesFit
<1>2. ps[p].used \in Seq(BOOLEAN)
  BY At
<1>3. Len(ps[p].used) \in Nat
  BY <1>2
<1> QED
  BY <1>1, <1>3 DEF PromiseFits

LEMMA FitsMarked ==
  ASSUME NEW ps, PromisesFit(ps), NEW p \in 1..Len(ps), NEW k, NEW pn, Marked(pn, ps, p, k)
  PROVE  PromisesFit(pn) /\ Wider(pn, ps) /\ SameLists(pn, ps)
<1>1. /\ OnlyAt(pn, ps, p) /\ pn[p].st = ps[p].st /\ pn[p].reactions = ps[p].reactions
      /\ Len(pn[p].used) = Len(ps[p].used)
  BY DEF Marked
<1>2. Len(pn) = Len(ps) /\ \A q \in 1..Len(ps) : q # p => pn[q] = ps[q]
  BY <1>1 DEF OnlyAt
<1>3. \A r : ReactionFits(ps, r) => ReactionFits(pn, r)
  <2>1. Wider(pn, ps)
    BY <1>1, <1>2 DEF Wider
  <2> QED
    BY <2>1, Widened
<1>4. PromiseFits(pn, p)
  BY <1>1, <1>3, ReactionsOf DEF PromiseFits
<1>5. SameLists(pn, ps)
  BY <1>1, <1>2 DEF SameLists
<1> QED
  BY <1>1, <1>4, <1>5, FitsAt

LEMMA FitsClosed ==
  ASSUME NEW ps, PromisesFit(ps), NEW js, JobsFit(ps, js), NEW p \in 1..Len(ps), NEW st,
         NEW pn, NEW jn, Closed(pn, jn, ps, js, p, st)
  PROVE  PromisesFit(pn) /\ Wider(pn, ps) /\ JobsFit(pn, jn)
<1>1. OnlyAt(pn, ps, p) /\ pn[p].reactions = <<>> /\ pn[p].used = ps[p].used
  BY DEF Closed
<1>2. PromiseFits(pn, p)
  BY <1>1, ReactionsOf, EmptyList DEF PromiseFits
<1>3. PromisesFit(pn) /\ Wider(pn, ps)
  BY <1>1, <1>2, FitsAt
<1>4. PICK rs : rs = ps[p].reactions
  OBVIOUS
<1>5. PICK u \in Seq(ReactionJobs) :
        Joined(jn, js, u) /\ Len(u) = Len(rs) /\ \A l \in 1..Len(u) : u[l].reaction = rs[l]
  BY <1>4 DEF Closed, Moved
<1>6. js \in Seq(Jobs) /\ u \in Seq(Jobs) /\ Len(js) \in Nat /\ Len(u) \in Nat
  BY <1>5, JobKinds DEF JobsFit
<1>7. /\ jn \in Seq(Jobs) /\ Len(jn) = Len(js) + Len(u)
      /\ \A i \in 1..Len(js) : jn[i] = js[i]
      /\ \A i \in 1..Len(u) : jn[Len(js) + i] = u[i]
  <2>1. js \in Seq(Jobs) /\ u \in Seq(Jobs) /\ Joined(jn, js, u)
    BY <1>5, <1>6
  <2> QED
    BY <2>1, Joining
<1>8. ASSUME NEW l \in 1..Len(u) PROVE JobFits(ps, u[l])
  <2>1. u[l] \in ReactionJobs /\ u[l] \notin ThenableJobs
    BY <1>5, JobKinds
  <2>2. ReactionFits(ps, u[l].reaction)
    BY <1>4, <1>5, ReactionsOf
  <2> QED
    BY <2>1, <2>2 DEF JobFits
<1>9. ASSUME NEW l \in 1..Len(jn) PROVE JobFits(ps, jn[l])
  <2>1. CASE l \in 1..Len(js)
    BY <1>7, <2>1 DEF JobsFit
  <2>2. CASE l \notin 1..Len(js)
    <3>1. l - Len(js) \in 1..Len(u) /\ Len(js) + (l - Len(js)) = l
      BY <1>6, <1>7, <2>2
    <3>2. jn[l] = u[l - Len(js)]
      BY <1>7, <3>1
    <3> QED
      BY <1>8, <3>1, <3>2
  <2> QED
    BY <2>1, <2>2
<1>10. JobsFit(ps, jn)
  BY <1>7, <1>9 DEF JobsFit
<1> QED
  BY <1>3, <1>10, Widened

LEMMA FitsWaiting ==
  ASSUME NEW ps, PromisesFit(ps), NEW p \in 1..Len(ps), ps[p].st = "pending",
         NEW r \in Reactions, ReactionFits(ps, r), NEW pn, Waiting(pn, ps, p, r)
  PROVE  PromisesFit(pn) /\ Wider(pn, ps)
<1>1. /\ OnlyAt(pn, ps, p) /\ pn[p].st = "pending" /\ pn[p].used = ps[p].used
      /\ Appended(pn[p].reactions, ps[p].reactions, r)
  BY DEF Waiting
<1>2. ps[p].reactions \in Seq(Reactions) /\ Len(ps[p].reactions) \in Nat
  <2>1. ps[p].reactions \in Seq(Reactions)
    BY At
  <2> QED
    BY <2>1
<1>3. /\ Len(pn[p].reactions) = Len(ps[p].reactions) + 1
      /\ pn[p].reactions[Len(ps[p].reactions) + 1] = r
      /\ \A i \in 1..Len(ps[p].reactions) : pn[p].reactions[i] = ps[p].reactions[i]
  BY <1>1, <1>2, Appending
<1>4. \A s : ReactionFits(ps, s) => ReactionFits(pn, s)
  <2>1. Wider(pn, ps)
    BY <1>1 DEF Wider, OnlyAt
  <2> QED
    BY <2>1, Widened
<1>5. ASSUME NEW l \in 1..Len(pn[p].reactions) PROVE ReactionFits(pn, pn[p].reactions[l])
  <2>1. CASE l \in 1..Len(ps[p].reactions)
    BY <1>3, <1>4, <2>1, ReactionsOf
  <2>2. CASE l = Len(ps[p].reactions) + 1
    BY <1>3, <1>4, <2>2
  <2> QED
    BY <1>2, <1>3, <2>1, <2>2
<1>6. PromiseFits(pn, p)
  BY <1>1, <1>5, ReactionsOf DEF PromiseFits
<1> QED
  BY <1>1, <1>6, FitsAt

LEMMA FitsPaired ==
  ASSUME NEW ps, PromisesFit(ps), NEW p \in 1..Len(ps), NEW pn, Paired(pn, ps, p)
  PROVE  /\ PromisesFit(pn) /\ Wider(pn, ps) /\ SameLists(pn, ps)
         /\ Pair(pn, p, Len(ps[p].used) + 1)
<1>1. /\ OnlyAt(pn, ps, p) /\ pn[p].st = ps[p].st /\ pn[p].reactions = ps[p].reactions
      /\ Appended(pn[p].used, ps[p].used, FALSE)
  BY DEF Paired
<1>2. Len(pn) = Len(ps) /\ \A q \in 1..Len(ps) : q # p => pn[q] = ps[q]
  BY <1>1 DEF OnlyAt
<1>3. Len(pn[p].used) = Len(ps[p].used) + 1 /\ Len(ps[p].used) \in Nat
  <2>1. ps[p].used \in Seq(BOOLEAN) /\ FALSE \in BOOLEAN
    BY At
  <2>2. Len(pn[p].used) = Len(ps[p].used) + 1
    BY <1>1, <2>1 DEF Appended
  <2> QED
    BY <2>1, <2>2
<1>4. 1..Len(ps[p].used) \subseteq 1..Len(pn[p].used) /\ Len(pn[p].used) > 0
      /\ Len(ps[p].used) + 1 \in 1..Len(pn[p].used)
  BY <1>3
<1>5. \A r : ReactionFits(ps, r) => ReactionFits(pn, r)
  <2>1. Wider(pn, ps)
    BY <1>2, <1>4 DEF Wider
  <2> QED
    BY <2>1, Widened
<1>6. PromiseFits(pn, p)
  BY <1>1, <1>4, <1>5, ReactionsOf DEF PromiseFits
<1>7. SameLists(pn, ps)
  BY <1>1, <1>2 DEF SameLists
<1>8. Pair(pn, p, Len(ps[p].used) + 1)
  BY <1>2, <1>4 DEF Pair
<1> QED
  BY <1>1, <1>4, <1>6, <1>7, <1>8, FitsAt

LEMMA FitsGrown ==
  ASSUME NEW ps, PromisesFit(ps), NEW st, NEW pn, Grown(pn, ps, st)
  PROVE  /\ PromisesFit(pn) /\ Wider(pn, ps) /\ SameLists(pn, ps)
         /\ Pair(pn, Len(ps) + 1, 1) /\ pn[Len(ps) + 1].st = st
<1>1. PICK x \in Records :
        Appended(pn, ps, x) /\ x.st = st /\ x.reactions = <<>> /\ x.used = <<st # "pending">>
  BY DEF Grown
<1>2. ps \in Seq(Records) /\ Len(ps) \in Nat
  BY DEF PromisesFit
<1>3. /\ pn \in Seq(Records) /\ Len(pn) = Len(ps) + 1 /\ pn[Len(ps) + 1] = x
      /\ \A q \in 1..Len(ps) : pn[q] = ps[q]
  BY <1>1, <1>2, Appending
<1>4. Wider(pn, ps)
  BY <1>2, <1>3 DEF Wider
<1>5. \A r : ReactionFits(ps, r) => ReactionFits(pn, r)
  BY <1>4, Widened
<1>6. \A q \in 1..Len(pn) : q \in 1..Len(ps) \/ q = Len(ps) + 1
  BY <1>2, <1>3
<1>7. Len(x.used) = 1 /\ Len(x.used) > 0
  <2>1. \A b : Len(<<b>>) = 1
    OBVIOUS
  <2>2. Len(x.used) = 1
    BY <1>1, <2>1
  <2> QED
    BY <2>2
<1>8. ASSUME NEW q \in 1..Len(pn) PROVE PromiseFits(pn, q)
  <2>1. CASE q \in 1..Len(ps)
    <3>1. PromiseFits(ps, q) /\ pn[q] = ps[q]
      BY <1>3, <2>1 DEF PromisesFit
    <3> QED
      BY <1>5, <3>1 DEF PromiseFits
  <2>2. CASE q = Len(ps) + 1
    <3>1. pn[q].reactions = <<>> /\ pn[q].used = x.used
      BY <1>1, <1>3, <2>2
    <3>2. Len(pn[q].used) > 0
      BY <1>7, <3>1
    <3>3. \A l \in 1..Len(pn[q].reactions) : FALSE
      BY <3>1
    <3> QED
      BY <3>1, <3>2, <3>3 DEF PromiseFits
  <2> QED
    BY <1>6, <2>1, <2>2
<1>9. SameLists(pn, ps)
  BY <1>1, <1>3, <1>4, <1>6 DEF SameLists, Wider
<1>10. Pair(pn, Len(ps) + 1, 1)
  BY <1>2, <1>3, <1>7 DEF Pair
<1> QED
  BY <1>1, <1>3, <1>4, <1>8, <1>9, <1>10 DEF PromisesFit

LEMMA JobQueued ==
  ASSUME NEW ps, NEW js, JobsFit(ps, js), NEW x \in Jobs, JobFits(ps, x), NEW jn, Appended(jn, js, x)
  PROVE  JobsFit(ps, jn)
<1>1. js \in Seq(Jobs) /\ Len(js) \in Nat
  BY DEF JobsFit
<1>2. /\ jn \in Seq(Jobs) /\ Len(jn) = Len(js) + 1 /\ jn[Len(js) + 1] = x
      /\ \A i \in 1..Len(js) : jn[i] = js[i]
  BY <1>1, Appending
<1>3. \A l \in 1..Len(jn) : l \in 1..Len(js) \/ l = Len(js) + 1
  BY <1>1, <1>2
<1> QED
  BY <1>2, <1>3 DEF JobsFit

LEMMA JobTaken ==
  ASSUME NEW ps, NEW js, JobsFit(ps, js), NEW jn, Beheaded(jn, js)
  PROVE  JobsFit(ps, jn) /\ js[1] \in Jobs /\ JobFits(ps, js[1])
<1>1. js \in Seq(Jobs)
  BY DEF JobsFit
<1>2. /\ js[1] \in Jobs /\ jn \in Seq(Jobs) /\ Len(jn) = Len(js) - 1 /\ Len(js) > 0 /\ Len(js) \in Nat
      /\ \A i \in 1..Len(jn) : jn[i] = js[i + 1]
  BY <1>1, Beheading
<1>3. 1 \in 1..Len(js) /\ \A i \in 1..Len(jn) : i + 1 \in 1..Len(js)
  BY <1>2
<1> QED
  BY <1>2, <1>3 DEF JobsFit

LEMMA FrameEntered ==
  ASSUME NEW ps, NEW sk, StackFits(ps, sk), NEW x \in Frames, FrameFits(ps, x), NEW sn, Consed(sn, x, sk)
  PROVE  StackFits(ps, sn)
<1>1. sk \in Seq(Frames) /\ Len(sk) \in Nat
  BY DEF StackFits
<1>2. /\ sn \in Seq(Frames) /\ Len(sn) = Len(sk) + 1 /\ sn[1] = x
      /\ \A i \in 1..Len(sk) : sn[i + 1] = sk[i]
  BY <1>1, Consing
<1>3. ASSUME NEW l \in 1..Len(sn) PROVE FrameFits(ps, sn[l])
  <2>1. CASE l = 1
    BY <1>2, <2>1
  <2>2. CASE l # 1
    <3>1. l - 1 \in 1..Len(sk) /\ (l - 1) + 1 = l
      BY <1>1, <1>2, <2>2
    <3>2. sn[l] = sk[l - 1]
      BY <1>2, <3>1
    <3> QED
      BY <3>1, <3>2 DEF StackFits
  <2> QED
    BY <2>1, <2>2
<1> QED
  BY <1>2, <1>3 DEF StackFits

LEMMA FramesLeft ==
  ASSUME NEW ps, NEW sk, StackFits(ps, sk), NEW l \in 0..Len(sk), NEW sn, Dropped(sn, sk, l)
  PROVE  StackFits(ps, sn)
<1>1. sk \in Seq(Frames) /\ Len(sk) \in Nat
  BY DEF StackFits
<1>2. sn \in Seq(Frames) /\ Len(sn) = Len(sk) - l /\ \A i \in 1..(Len(sk) - l) : sn[i] = sk[i + l]
  BY <1>1, Dropping
<1>3. \A i \in 1..Len(sn) : i + l \in 1..Len(sk)
  BY <1>1, <1>2
<1> QED
  BY <1>2, <1>3 DEF StackFits

-----------------------------------------------------------------------------
(* The whole invariant under the changes.  The variables are not primed here: the changes an *)
(* operation is made of follow each other.                                                    *)

LEMMA MarkedWhole ==
  ASSUME NEW ps, NEW js, NEW sk, NEW hl, NEW as, NEW ro, NEW rg, NEW ra, NEW g,
         Whole(ps, js, sk, hl, as, ro, rg, ra, {}, g),
         NEW p, NEW k, Pair(ps, p, k), ps[p].used[k] = FALSE, NEW pn, Marked(pn, ps, p, k)
  PROVE  /\ Whole(pn, js, sk, hl, as, ro, rg, ra, {p}, g)
         /\ p \in 1..Len(pn) /\ pn[p].st = "pending" /\ Wider(pn, ps)
<1>1. /\ PromisesFit(ps) /\ JobsFit(ps, js) /\ StackFits(ps, sk) /\ HeldFits(ps, hl) /\ CallsFit(ps, as, ro)
      /\ OneWay(ps, js, sk, {}) /\ Ordered(ps, js, rg, ra) /\ Runs(sk, as) /\ Awaits(ps, js, as, g)
  BY DEF Whole, Fits
<1>2. p \in 1..Len(ps)
  BY DEF Pair
<1>3. PromisesFit(pn) /\ Wider(pn, ps) /\ SameLists(pn, ps)
  BY <1>1, <1>2, FitsMarked
<1>4. JobsFit(pn, js) /\ StackFits(pn, sk) /\ HeldFits(pn, hl) /\ CallsFit(pn, as, ro)
  BY <1>1, <1>3, Widened
<1>5. OneWay(pn, js, sk, {p}) /\ pn[p].st = "pending"
  BY <1>1, WayMarked
<1>6. SameReactions(js, js)
  BY SameReactionsItself
<1>7. Ordered(pn, js, rg, ra)
  BY <1>1, <1>3, <1>6, OrderKept
<1>8. Awaits(pn, js, as, g)
  BY <1>1, <1>3, <1>6, AwaitsSame
<1>9. p \in 1..Len(pn)
  BY <1>2, <1>3 DEF Wider
<1> QED
  BY <1>1, <1>3, <1>4, <1>5, <1>7, <1>8, <1>9 DEF Whole, Fits

LEMMA ClosedWhole ==
  ASSUME NEW ps, NEW js, NEW sk, NEW hl, NEW as, NEW ro, NEW rg, NEW ra, NEW g, NEW p \in 1..Len(ps),
         Whole(ps, js, sk, hl, as, ro, rg, ra, {p}, g),
         NEW st \in Ends, NEW pn, NEW jn, Closed(pn, jn, ps, js, p, st)
  PROVE  Whole(pn, jn, sk, hl, as, ro, rg, ra, {}, g)
<1>1. /\ PromisesFit(ps) /\ JobsFit(ps, js) /\ StackFits(ps, sk) /\ HeldFits(ps, hl) /\ CallsFit(ps, as, ro)
      /\ OneWay(ps, js, sk, {p}) /\ Ordered(ps, js, rg, ra) /\ Runs(sk, as) /\ Awaits(ps, js, as, g)
  BY DEF Whole, Fits
<1>2. PromisesFit(pn) /\ Wider(pn, ps) /\ JobsFit(pn, jn)
  BY <1>1, FitsClosed
<1>3. StackFits(pn, sk) /\ HeldFits(pn, hl) /\ CallsFit(pn, as, ro)
  BY <1>1, <1>2, Widened
<1>4. OneWay(pn, jn, sk, {})
  BY <1>1, WayClosed
<1>5. Ordered(pn, jn, rg, ra)
  BY <1>1, OrderMoved
<1>6. Awaits(pn, jn, as, g)
  <2>1. \A f, i : Resumed(pn, jn, f, i) <=> Resumed(ps, js, f, i)
    BY <1>1, ResumedMoved
  <2> QED
    BY <1>1, <2>1, AwaitsKept
<1> QED
  BY <1>1, <1>2, <1>3, <1>4, <1>5, <1>6 DEF Whole, Fits

LEMMA AskedWhole ==
  ASSUME NEW ps, NEW js, NEW sk, NEW hl, NEW as, NEW ro, NEW rg, NEW ra, NEW g, NEW p \in 1..Len(ps),
         Whole(ps, js, sk, hl, as, ro, rg, ra, {p}, g), ps[p].st = "pending",
         NEW x \in ThenableJobs, x.p = p, JobFits(ps, x), NEW jn, Appended(jn, js, x)
  PROVE  Whole(ps, jn, sk, hl, as, ro, rg, ra, {}, g)
<1>1. /\ PromisesFit(ps) /\ JobsFit(ps, js) /\ StackFits(ps, sk) /\ HeldFits(ps, hl) /\ CallsFit(ps, as, ro)
      /\ OneWay(ps, js, sk, {p}) /\ Ordered(ps, js, rg, ra) /\ Runs(sk, as) /\ Awaits(ps, js, as, g)
  BY DEF Whole, Fits
<1>2. x \in Jobs /\ js \in Seq(Jobs)
  BY <1>1, JobKinds DEF JobsFit
<1>3. JobsFit(ps, jn)
  BY <1>1, <1>2, JobQueued
<1>4. OneWay(ps, jn, sk, {})
  BY <1>1, WayAsked
<1>5. SameReactions(jn, js) /\ SameLists(ps, ps)
  BY <1>2, SameReactionsAppended DEF SameLists
<1>6. Ordered(ps, jn, rg, ra)
  BY <1>1, <1>5, OrderKept
<1>7. Awaits(ps, jn, as, g)
  BY <1>1, <1>5, AwaitsSame
<1> QED
  BY <1>1, <1>3, <1>4, <1>6, <1>7 DEF Whole, Fits

LEMMA TakenWhole ==
  ASSUME NEW ps, NEW js, NEW sk, NEW hl, NEW as, NEW ro, NEW rg, NEW ra, NEW g,
         Whole(ps, js, sk, hl, as, ro, rg, ra, {}, g),
         NEW jn, Beheaded(jn, js), js[1] \in ThenableJobs
  PROVE  /\ Whole(ps, jn, sk, hl, as, ro, rg, ra, {js[1].p}, g)
         /\ js[1].p \in 1..Len(ps) /\ ps[js[1].p].st = "pending" /\ JobFits(ps, js[1])
<1>1. /\ PromisesFit(ps) /\ JobsFit(ps, js) /\ StackFits(ps, sk) /\ HeldFits(ps, hl) /\ CallsFit(ps, as, ro)
      /\ OneWay(ps, js, sk, {}) /\ Ordered(ps, js, rg, ra) /\ Runs(sk, as) /\ Awaits(ps, js, as, g)
  BY DEF Whole, Fits
<1>2. js \in Seq(Jobs)
  BY <1>1 DEF JobsFit
<1>3. JobsFit(ps, jn) /\ JobFits(ps, js[1])
  BY <1>1, JobTaken
<1>4. js[1].p \in 1..Len(ps) /\ ps[js[1].p].st = "pending" /\ OneWay(ps, jn, sk, {js[1].p})
  BY <1>1, WayTaken
<1>5. SameReactions(jn, js) /\ SameLists(ps, ps)
  BY <1>2, SameReactionsTaken DEF SameLists
<1>6. Ordered(ps, jn, rg, ra)
  BY <1>1, <1>5, OrderKept
<1>7. Awaits(ps, jn, as, g)
  BY <1>1, <1>5, AwaitsSame
<1> QED
  BY <1>1, <1>3, <1>4, <1>6, <1>7 DEF Whole, Fits

LEMMA PairedWhole ==
  ASSUME NEW ps, NEW js, NEW sk, NEW hl, NEW as, NEW ro, NEW rg, NEW ra, NEW g, NEW p \in 1..Len(ps),
         Whole(ps, js, sk, hl, as, ro, rg, ra, {p}, g), ps[p].st = "pending",
         NEW pn, Paired(pn, ps, p)
  PROVE  /\ Whole(pn, js, sk, hl, as, ro, rg, ra, {}, g)
         /\ Wider(pn, ps) /\ Pair(pn, p, Len(ps[p].used) + 1)
<1>1. /\ PromisesFit(ps) /\ JobsFit(ps, js) /\ StackFits(ps, sk) /\ HeldFits(ps, hl) /\ CallsFit(ps, as, ro)
      /\ OneWay(ps, js, sk, {p}) /\ Ordered(ps, js, rg, ra) /\ Runs(sk, as) /\ Awaits(ps, js, as, g)
  BY DEF Whole, Fits
<1>2. PromisesFit(pn) /\ Wider(pn, ps) /\ SameLists(pn, ps) /\ Pair(pn, p, Len(ps[p].used) + 1)
  BY <1>1, FitsPaired
<1>3. JobsFit(pn, js) /\ StackFits(pn, sk) /\ HeldFits(pn, hl) /\ CallsFit(pn, as, ro)
  BY <1>1, <1>2, Widened
<1>4. OneWay(pn, js, sk, {})
  BY <1>1, WayPaired
<1>5. SameReactions(js, js)
  BY SameReactionsItself
<1>6. Ordered(pn, js, rg, ra)
  BY <1>1, <1>2, <1>5, OrderKept
<1>7. Awaits(pn, js, as, g)
  BY <1>1, <1>2, <1>5, AwaitsSame
<1> QED
  BY <1>1, <1>2, <1>3, <1>4, <1>6, <1>7 DEF Whole, Fits

LEMMA GrownWhole ==
  ASSUME NEW ps, NEW js, NEW sk, NEW hl, NEW as, NEW ro, NEW rg, NEW ra, NEW g,
         Whole(ps, js, sk, hl, as, ro, rg, ra, {}, g),
         NEW st \in {"pending"} \union Ends, NEW pn, Grown(pn, ps, st)
  PROVE  /\ Whole(pn, js, sk, hl, as, ro, rg, ra, {}, g)
         /\ Wider(pn, ps) /\ Pair(pn, Len(ps) + 1, 1) /\ pn[Len(ps) + 1].st = st
<1>1. /\ PromisesFit(ps) /\ JobsFit(ps, js) /\ StackFits(ps, sk) /\ HeldFits(ps, hl) /\ CallsFit(ps, as, ro)
      /\ OneWay(ps, js, sk, {}) /\ Ordered(ps, js, rg, ra) /\ Runs(sk, as) /\ Awaits(ps, js, as, g)
  BY DEF Whole, Fits
<1>2. /\ PromisesFit(pn) /\ Wider(pn, ps) /\ SameLists(pn, ps)
      /\ Pair(pn, Len(ps) + 1, 1) /\ pn[Len(ps) + 1].st = st
  BY <1>1, FitsGrown
<1>3. JobsFit(pn, js) /\ StackFits(pn, sk) /\ HeldFits(pn, hl) /\ CallsFit(pn, as, ro)
  BY <1>1, <1>2, Widened
<1>4. OneWay(pn, js, sk, {})
  BY <1>1, WayGrown
<1>5. SameReactions(js, js)
  BY SameReactionsItself
<1>6. Ordered(pn, js, rg, ra)
  BY <1>1, <1>2, <1>5, OrderKept
<1>7. Awaits(pn, js, as, g)
  BY <1>1, <1>2, <1>5, AwaitsSame
<1> QED
  BY <1>1, <1>2, <1>3, <1>4, <1>6, <1>7 DEF Whole, Fits

LEMMA ReadWhole ==
  ASSUME NEW ps, NEW js, NEW sk, NEW hl, NEW as, NEW ro, NEW rg, NEW ra, NEW g, NEW p \in 1..Len(ps),
         Whole(ps, js, sk, hl, as, ro, rg, ra, {p}, g), ps[p].st = "pending",
         NEW x \in Frames, x.kind = "getter", x.p = p, NEW sn, Consed(sn, x, sk)
  PROVE  Whole(ps, js, sn, hl, as, ro, rg, ra, {}, g)
<1>1. /\ PromisesFit(ps) /\ JobsFit(ps, js) /\ StackFits(ps, sk) /\ HeldFits(ps, hl) /\ CallsFit(ps, as, ro)
      /\ OneWay(ps, js, sk, {p}) /\ Ordered(ps, js, rg, ra) /\ Runs(sk, as) /\ Awaits(ps, js, as, g)
  BY DEF Whole, Fits
<1>2. FrameFits(ps, x) /\ sk \in Seq(Frames)
  BY <1>1 DEF FrameFits, StackFits
<1>3. StackFits(ps, sn)
  BY <1>1, <1>2, FrameEntered
<1>4. OneWay(ps, js, sn, {})
  BY <1>1, WayRead
<1>5. Runs(sn, as)
  BY <1>1, <1>2, RunsEntered
<1> QED
  BY <1>1, <1>3, <1>4, <1>5 DEF Whole, Fits

LEMMA EnteredWhole ==
  ASSUME NEW ps, NEW js, NEW sk, NEW hl, NEW as, NEW ro, NEW rg, NEW ra, NEW e, NEW g,
         Whole(ps, js, sk, hl, as, ro, rg, ra, e, g),
         NEW x \in Frames, x.kind \notin {"getter", "async"}, FrameFits(ps, x), NEW sn, Consed(sn, x, sk)
  PROVE  Whole(ps, js, sn, hl, as, ro, rg, ra, e, g)
<1>1. /\ PromisesFit(ps) /\ JobsFit(ps, js) /\ StackFits(ps, sk) /\ HeldFits(ps, hl) /\ CallsFit(ps, as, ro)
      /\ OneWay(ps, js, sk, e) /\ Ordered(ps, js, rg, ra) /\ Runs(sk, as) /\ Awaits(ps, js, as, g)
  BY DEF Whole, Fits
<1>2. sk \in Seq(Frames) /\ \A p : x \notin Getters(p)
  BY <1>1, FrameKinds DEF StackFits
<1>3. StackFits(ps, sn)
  BY <1>1, FrameEntered
<1>4. OneWay(ps, js, sn, e)
  <2>1. \A q \in 1..Len(ps) : Alike(js, js, Asking(q)) /\ Alike(sn, sk, Getters(q))
    BY <1>2, AlikeItself, AlikeConsed
  <2> QED
    BY <1>1, <2>1, WayKept
<1>5. Runs(sn, as)
  BY <1>1, <1>2, RunsEntered
<1> QED
  BY <1>1, <1>3, <1>4, <1>5 DEF Whole, Fits

LEMMA CalledWhole ==
  ASSUME NEW ps, NEW js, NEW sk, NEW hl, NEW as, NEW ro, NEW rg, NEW ra, NEW e, NEW g,
         Whole(ps, js, sk, hl, as, ro, rg, ra, e, g),
         NEW x \in Frames, x.kind = "async", x.p \in Asyncs, as[x.p] # "running", NEW sn, Consed(sn, x, sk),
         NEW an, Turned(an, as, x.p, "running"), NEW rn, CallsFit(ps, an, rn),
         NEW gn, Awaits(ps, js, an, gn)
  PROVE  Whole(ps, js, sn, hl, an, rn, rg, ra, e, gn)
<1>1. /\ PromisesFit(ps) /\ JobsFit(ps, js) /\ StackFits(ps, sk) /\ HeldFits(ps, hl)
      /\ OneWay(ps, js, sk, e) /\ Ordered(ps, js, rg, ra) /\ Runs(sk, as)
  BY DEF Whole, Fits
<1>2. sk \in Seq(Frames) /\ FrameFits(ps, x) /\ \A p : x \notin Getters(p)
  BY <1>1, FrameKinds DEF StackFits, FrameFits
<1>3. StackFits(ps, sn)
  BY <1>1, <1>2, FrameEntered
<1>4. OneWay(ps, js, sn, e)
  <2>1. \A q \in 1..Len(ps) : Alike(js, js, Asking(q)) /\ Alike(sn, sk, Getters(q))
    BY <1>2, AlikeItself, AlikeConsed
  <2> QED
    BY <1>1, <2>1, WayKept
<1>5. Runs(sn, an)
  BY <1>1, <1>2, RunsCalled
<1> QED
  BY <1>1, <1>3, <1>4, <1>5 DEF Whole, Fits

LEMMA LeftWhole ==
  ASSUME NEW ps, NEW js, NEW sk, NEW hl, NEW as, NEW ro, NEW rg, NEW ra, NEW e, NEW g,
         Whole(ps, js, sk, hl, as, ro, rg, ra, e, g),
         NEW l \in 0..Len(sk), \A i \in 1..l : sk[i].kind # "getter", NEW sn, Dropped(sn, sk, l),
         NEW an, Leaving(an, as, sk, l), CallsFit(ps, an, ro), NEW gn, Awaits(ps, js, an, gn)
  PROVE  Whole(ps, js, sn, hl, an, ro, rg, ra, e, gn)
<1>1. /\ PromisesFit(ps) /\ JobsFit(ps, js) /\ StackFits(ps, sk) /\ HeldFits(ps, hl)
      /\ OneWay(ps, js, sk, e) /\ Ordered(ps, js, rg, ra) /\ Runs(sk, as)
  BY DEF Whole, Fits
<1>2. sk \in Seq(Frames)
  BY <1>1 DEF StackFits
<1>3. StackFits(ps, sn)
  BY <1>1, FramesLeft
<1>4. OneWay(ps, js, sn, e)
  <2>1. \A i \in 1..l : \A q : sk[i] \notin Getters(q)
    BY DEF Getters
  <2>2. \A q \in 1..Len(ps) : Alike(js, js, Asking(q)) /\ Alike(sn, sk, Getters(q))
    BY <1>2, <2>1, AlikeItself, AlikeDropped
  <2> QED
    BY <1>1, <2>2, WayKept
<1>5. Runs(sn, an)
  BY <1>1, <1>2, RunsLeft
<1> QED
  BY <1>1, <1>3, <1>4, <1>5 DEF Whole, Fits

LEMMA GotWhole ==
  ASSUME NEW ps, NEW js, NEW sk, NEW hl, NEW as, NEW ro, NEW rg, NEW ra, NEW g,
         Whole(ps, js, sk, hl, as, ro, rg, ra, {}, g),
         NEW l \in 1..Len(sk), sk[l].kind = "getter", \A i \in 1..l : sk[i].kind = "getter" => i = l,
         NEW sn, Dropped(sn, sk, l),
         NEW an, Leaving(an, as, sk, l), CallsFit(ps, an, ro), NEW gn, Awaits(ps, js, an, gn)
  PROVE  /\ Whole(ps, js, sn, hl, an, ro, rg, ra, {sk[l].p}, gn)
         /\ sk[l].p \in 1..Len(ps) /\ ps[sk[l].p].st = "pending"
<1>1. /\ PromisesFit(ps) /\ JobsFit(ps, js) /\ StackFits(ps, sk) /\ HeldFits(ps, hl)
      /\ OneWay(ps, js, sk, {}) /\ Ordered(ps, js, rg, ra) /\ Runs(sk, as)
  BY DEF Whole, Fits
<1>2. sk \in Seq(Frames) /\ l \in 0..Len(sk)
  BY <1>1 DEF StackFits
<1>3. StackFits(ps, sn)
  BY <1>1, <1>2, FramesLeft
<1>4. sk[l].p \in 1..Len(ps) /\ ps[sk[l].p].st = "pending" /\ OneWay(ps, js, sn, {sk[l].p})
  BY <1>1, WayGot
<1>5. Runs(sn, an)
  BY <1>1, <1>2, RunsLeft
<1> QED
  BY <1>1, <1>3, <1>4, <1>5 DEF Whole, Fits

LEMMA HeldWhole ==
  ASSUME NEW ps, NEW js, NEW sk, NEW hl, NEW as, NEW ro, NEW rg, NEW ra, NEW e, NEW g,
         Whole(ps, js, sk, hl, as, ro, rg, ra, e, g), NEW p, NEW k, Pair(ps, p, k)
  PROVE  Whole(ps, js, sk, hl \union {<<p, k>>}, as, ro, rg, ra, e, g)
<1>1. HeldFits(ps, hl)
  BY DEF Whole, Fits
<1>2. HeldFits(ps, hl \union {<<p, k>>})
  BY <1>1 DEF HeldFits
<1> QED
  BY <1>2 DEF Whole, Fits

\* A reaction is registered, for the async call it resumes or for another.
Resumes(r) == IF r.kind = "resume" THEN {r.p} ELSE {}

LEMMA WaitingWhole ==
  ASSUME NEW ps, NEW js, NEW sk, NEW hl, NEW as, NEW ro, NEW rg, NEW ra, NEW r \in Reactions,
         Whole(ps, js, sk, hl, as, ro, rg, ra, {}, Resumes(r)),
         NEW p \in 1..Len(ps), ps[p].st = "pending", ReactionFits(ps, r), r.id = Len(rg) + 1,
         r.kind = "resume" => as[r.p] = "awaiting",
         NEW pn, Waiting(pn, ps, p, r), NEW rn, Appended(rn, rg, p)
  PROVE  Whole(pn, js, sk, hl, as, ro, rn, ra, {}, {})
<1>1. /\ PromisesFit(ps) /\ JobsFit(ps, js) /\ StackFits(ps, sk) /\ HeldFits(ps, hl) /\ CallsFit(ps, as, ro)
      /\ OneWay(ps, js, sk, {}) /\ Ordered(ps, js, rg, ra) /\ Runs(sk, as) /\ Awaits(ps, js, as, Resumes(r))
  BY DEF Whole, Fits
<1>2. PromisesFit(pn) /\ Wider(pn, ps)
  BY <1>1, FitsWaiting
<1>3. JobsFit(pn, js) /\ StackFits(pn, sk) /\ HeldFits(pn, hl) /\ CallsFit(pn, as, ro)
  BY <1>1, <1>2, Widened
<1>4. OneWay(pn, js, sk, {})
  <2>1. Len(pn) = Len(ps) /\ \A q \in 1..Len(ps) : pn[q].used = ps[q].used /\ pn[q].st = ps[q].st
    BY DEF Waiting, OnlyAt
  <2>2. \A q \in 1..Len(ps) : Alike(js, js, Asking(q)) /\ Alike(sk, sk, Getters(q))
    BY AlikeItself
  <2> QED
    BY <1>1, <2>1, <2>2, WayKept
<1>5. Ordered(pn, js, rn, ra)
  BY <1>1, OrderWaiting
<1>6. Awaits(pn, js, as, {})
  <2>1. \A f, i : Resumed(pn, js, f, i) <=> Resumed(ps, js, f, i) \/ r \in Resuming(f, i)
    BY <1>1, ResumedWaiting
  <2>2. r.kind = "resume" => r.p \in Asyncs
    BY DEF ReactionFits
  <2>3. Awaits(ps, js, as, IF r.kind = "resume" THEN {r.p} ELSE {})
    BY <1>1 DEF Resumes
  <2> QED
    BY <2>1, <2>2, <2>3, AwaitsGiven
<1> QED
  BY <1>1, <1>2, <1>3, <1>4, <1>5, <1>6 DEF Whole, Fits

LEMMA QueuedWhole ==
  ASSUME NEW ps, NEW js, NEW sk, NEW hl, NEW as, NEW ro, NEW rg, NEW ra, NEW r \in Reactions,
         Whole(ps, js, sk, hl, as, ro, rg, ra, {}, Resumes(r)),
         NEW p \in 1..Len(ps), ps[p].st # "pending", ReactionFits(ps, r), r.id = Len(rg) + 1,
         r.kind = "resume" => as[r.p] = "awaiting",
         NEW x \in ReactionJobs, x.reaction = r, NEW jn, Appended(jn, js, x), NEW rn, Appended(rn, rg, p)
  PROVE  Whole(ps, jn, sk, hl, as, ro, rn, ra, {}, {})
<1>1. /\ PromisesFit(ps) /\ JobsFit(ps, js) /\ StackFits(ps, sk) /\ HeldFits(ps, hl) /\ CallsFit(ps, as, ro)
      /\ OneWay(ps, js, sk, {}) /\ Ordered(ps, js, rg, ra) /\ Runs(sk, as) /\ Awaits(ps, js, as, Resumes(r))
  BY DEF Whole, Fits
<1>2. x \in Jobs /\ js \in Seq(Jobs) /\ JobFits(ps, x) /\ \A q : x \notin Asking(q)
  BY <1>1, JobKinds DEF JobsFit, JobFits
<1>3. JobsFit(ps, jn)
  BY <1>1, <1>2, JobQueued
<1>4. OneWay(ps, jn, sk, {})
  <2>1. \A q \in 1..Len(ps) : Alike(jn, js, Asking(q)) /\ Alike(sk, sk, Getters(q))
    BY <1>2, AlikeItself, AlikeAppended
  <2> QED
    BY <1>1, <2>1, WayKept
<1>5. Ordered(ps, jn, rn, ra)
  <2>1. ps[p].reactions = <<>>
    BY <1>1, ReactionsOf
  <2>2. x.reaction.id = Len(rg) + 1
    OBVIOUS
  <2> QED
    BY <1>1, <2>1, <2>2, OrderQueued
<1>6. Awaits(ps, jn, as, {})
  <2>1. \A f, i : Resumed(ps, jn, f, i) <=> Resumed(ps, js, f, i) \/ r \in Resuming(f, i)
    <3>1. \A f, i : Resumed(ps, jn, f, i) <=> Resumed(ps, js, f, i) \/ x.reaction \in Resuming(f, i)
      BY <1>1, ResumedQueued
    <3> QED
      BY <3>1
  <2>2. r.kind = "resume" => r.p \in Asyncs
    BY DEF ReactionFits
  <2>3. Awaits(ps, js, as, IF r.kind = "resume" THEN {r.p} ELSE {})
    BY <1>1 DEF Resumes
  <2> QED
    BY <2>1, <2>2, <2>3, AwaitsGiven
<1> QED
  BY <1>1, <1>3, <1>4, <1>5, <1>6 DEF Whole, Fits

\* The first job is taken, and it runs reaction r.
LEMMA RunWhole ==
  ASSUME NEW ps, NEW js, NEW sk, NEW hl, NEW as, NEW ro, NEW rg, NEW ra,
         Whole(ps, js, sk, hl, as, ro, rg, ra, {}, {}),
         NEW jn, Beheaded(jn, js), js[1] \in ReactionJobs, NEW r, RunBy(r, js),
         NEW rb, Appended(rb, ra, r.id)
  PROVE  /\ Whole(ps, jn, sk, hl, as, ro, rg, rb, {}, Resumes(r))
         /\ r \in Reactions /\ ReactionFits(ps, r)
         /\ r.kind = "resume" => r.p \in Asyncs /\ as[r.p] = "awaiting"
<1>1. /\ PromisesFit(ps) /\ JobsFit(ps, js) /\ StackFits(ps, sk) /\ HeldFits(ps, hl) /\ CallsFit(ps, as, ro)
      /\ OneWay(ps, js, sk, {}) /\ Ordered(ps, js, rg, ra) /\ Runs(sk, as) /\ Awaits(ps, js, as, {})
  BY DEF Whole, Fits
<1>2. js \in Seq(Jobs) /\ r \in Reactions /\ \A q : js[1] \notin Asking(q)
  BY <1>1, JobKinds DEF JobsFit, RunBy
<1>3. JobsFit(ps, jn) /\ ReactionFits(ps, r)
  <2>1. JobsFit(ps, jn) /\ JobFits(ps, js[1])
    BY <1>1, JobTaken
  <2> QED
    BY <2>1 DEF JobFits, RunBy
<1>4. OneWay(ps, jn, sk, {})
  <2>1. \A q \in 1..Len(ps) : Alike(jn, js, Asking(q)) /\ Alike(sk, sk, Getters(q))
    BY <1>2, AlikeItself, AlikeBeheaded
  <2> QED
    BY <1>1, <2>1, WayKept
<1>5. Ordered(ps, jn, rg, rb)
  <2>1. Appended(rb, ra, js[1].reaction.id)
    BY DEF RunBy
  <2> QED
    BY <1>1, <2>1, OrderRun
<1>6. /\ Awaits(ps, jn, as, IF r.kind = "resume" THEN {r.p} ELSE {})
      /\ r.kind = "resume" => r.p \in Asyncs /\ as[r.p] = "awaiting"
  BY <1>1, AwaitsRun
<1> QED
  BY <1>1, <1>2, <1>3, <1>4, <1>5, <1>6 DEF Whole, Fits, Resumes


-----------------------------------------------------------------------------
(* The code's changes are changes of these kinds. *)

Filled(pn, ps, p, k) == pn = [ps EXCEPT ![p].used[k] = TRUE]
Emptied(pn, ps, p, st) == pn = [ps EXCEPT ![p].st = st, ![p].reactions = <<>>]
Added(pn, ps, p, r) == pn = [ps EXCEPT ![p].reactions = Append(@, r)]
Renewed(pn, ps, p) == pn = [ps EXCEPT ![p].used = Append(@, FALSE)]
Put(pn, ps, p, x) == pn = [ps EXCEPT ![p] = x]

LEMMA Putting ==
  ASSUME NEW ps \in Seq(Records), NEW p \in 1..Len(ps), NEW x \in Records, NEW pn, Put(pn, ps, p, x)
  PROVE  OnlyAt(pn, ps, p) /\ pn[p] = x
BY DEF Put, OnlyAt

LEMMA Filling ==
  ASSUME NEW ps, PromisesFit(ps), NEW p, NEW k, Pair(ps, p, k), NEW pn, Filled(pn, ps, p, k)
  PROVE  Marked(pn, ps, p, k)
<1>1. p \in 1..Len(ps) /\ k \in 1..Len(ps[p].used) /\ ps \in Seq(Records)
  BY DEF Pair, PromisesFit
<1>2. PICK x \in Records : x = ps[p]
  BY <1>1
<1>3. x.used \in Seq(BOOLEAN) /\ k \in 1..Len(x.used)
  BY <1>1, <1>2 DEF Records
<1>4. PICK u : u = [x.used EXCEPT ![k] = TRUE]
  OBVIOUS
<1>5. u \in Seq(BOOLEAN) /\ Len(u) = Len(x.used)
  BY <1>3, <1>4
<1>6. \A l \in 1..Len(x.used) : u[l] = FALSE <=> x.used[l] = FALSE /\ l # k
  <2>1. \A l \in 1..Len(x.used) : l # k => u[l] = x.used[l]
    BY <1>3, <1>4
  <2>2. u[k] = TRUE
    BY <1>3, <1>4
  <2> QED
    BY <2>1, <2>2
<1>7. PICK y : y = [x EXCEPT !.used = u]
  OBVIOUS
<1>8. y \in Records /\ y.st = x.st /\ y.reactions = x.reactions /\ y.used = u
  BY <1>5, <1>7 DEF Records
<1>9. Put(pn, ps, p, y)
  BY <1>2, <1>4, <1>7 DEF Filled, Put
<1>10. OnlyAt(pn, ps, p) /\ pn[p] = y
  BY <1>1, <1>8, <1>9, Putting
<1> QED
  BY <1>2, <1>5, <1>6, <1>8, <1>10 DEF Marked

LEMMA Emptying ==
  ASSUME NEW ps, PromisesFit(ps), NEW p \in 1..Len(ps), NEW st \in Ends, NEW pn, Emptied(pn, ps, p, st),
         NEW js, NEW jn,
         jn = js \o [i \in DOMAIN ps[p].reactions |-> Promise_!ReactionJob(ps[p].reactions[i], st)]
  PROVE  Closed(pn, jn, ps, js, p, st)
<1>1. ps \in Seq(Records) /\ ps[p].reactions \in Seq(Reactions)
  BY At
<1>2. PICK x \in Records : x = ps[p]
  BY <1>1
<1>3. PICK z : z = [x EXCEPT !.st = st]
  OBVIOUS
<1>4. PICK y : y = [z EXCEPT !.reactions = <<>>]
  OBVIOUS
<1>5. y \in Records /\ y.st = st /\ y.reactions = <<>> /\ y.used = x.used
  <2>1. z \in Records /\ z.st = st /\ z.used = x.used
    BY <1>3 DEF Records
  <2>2. <<>> \in Seq(Reactions)
    OBVIOUS
  <2> QED
    BY <1>4, <2>1, <2>2 DEF Records
<1>6. Put(pn, ps, p, y)
  BY <1>1, <1>2, <1>3, <1>4 DEF Emptied, Put
<1>7. OnlyAt(pn, ps, p) /\ pn[p] = y
  BY <1>1, <1>5, <1>6, Putting
<1>8. Moved(jn, js, ps[p].reactions)
  <2>1. PICK rs \in Seq(Reactions) : rs = ps[p].reactions
    BY <1>1
  <2>2. PICK u : u = [i \in DOMAIN rs |-> Promise_!ReactionJob(rs[i], st)]
    OBVIOUS
  <2>3. \A i \in 1..Len(rs) : rs[i] \in Reactions
    BY <2>1
  <2>4. \A i \in 1..Len(rs) : Promise_!ReactionJob(rs[i], st) \in ReactionJobs
    BY <2>3 DEF Promise_!ReactionJob, ReactionJobs
  <2>5. \A i \in 1..Len(rs) : Promise_!ReactionJob(rs[i], st).reaction = rs[i]
    BY DEF Promise_!ReactionJob
  <2>6. DOMAIN rs = 1..Len(rs) /\ Len(rs) \in Nat
    BY <2>1
  <2>7. u \in [1..Len(rs) -> ReactionJobs]
    BY <2>2, <2>4, <2>6
  <2>8. u \in Seq(ReactionJobs) /\ Len(u) = Len(rs)
    <3>1. u \in Seq(ReactionJobs)
      BY <2>6, <2>7, SeqDef
    <3> QED
      BY <2>6, <2>7, <3>1, LenProperties
  <2>9. \A l \in 1..Len(u) : u[l].reaction = rs[l]
    BY <2>2, <2>5, <2>6, <2>8
  <2>10. Joined(jn, js, u)
    BY <2>1, <2>2 DEF Joined
  <2> QED
    BY <2>1, <2>8, <2>9, <2>10 DEF Moved
<1> QED
  BY <1>2, <1>5, <1>7, <1>8 DEF Closed

LEMMA Adding ==
  ASSUME NEW ps, PromisesFit(ps), NEW p \in 1..Len(ps), NEW r \in Reactions, NEW pn, Added(pn, ps, p, r)
  PROVE  Waiting(pn, ps, p, r)
<1>1. ps \in Seq(Records)
  BY DEF PromisesFit
<1>2. PICK x \in Records : x = ps[p]
  BY <1>1
<1>3. PICK rs : rs = Append(x.reactions, r)
  OBVIOUS
<1>4. rs \in Seq(Reactions)
  BY <1>3 DEF Records
<1>5. PICK y : y = [x EXCEPT !.reactions = rs]
  OBVIOUS
<1>6. y \in Records /\ y.st = x.st /\ y.reactions = rs /\ y.used = x.used
  BY <1>4, <1>5 DEF Records
<1>7. Put(pn, ps, p, y)
  BY <1>2, <1>3, <1>5 DEF Added, Put
<1>8. OnlyAt(pn, ps, p) /\ pn[p] = y
  BY <1>1, <1>6, <1>7, Putting
<1>9. Appended(pn[p].reactions, ps[p].reactions, r)
  BY <1>2, <1>3, <1>6, <1>8 DEF Appended
<1> QED
  BY <1>2, <1>6, <1>8, <1>9 DEF Waiting

LEMMA Renewing ==
  ASSUME NEW ps, PromisesFit(ps), NEW p \in 1..Len(ps), NEW pn, Renewed(pn, ps, p)
  PROVE  Paired(pn, ps, p)
<1>1. ps \in Seq(Records)
  BY DEF PromisesFit
<1>2. PICK x \in Records : x = ps[p]
  BY <1>1
<1>3. PICK u : u = Append(x.used, FALSE)
  OBVIOUS
<1>4. u \in Seq(BOOLEAN)
  BY <1>3 DEF Records
<1>5. PICK y : y = [x EXCEPT !.used = u]
  OBVIOUS
<1>6. y \in Records /\ y.st = x.st /\ y.used = u /\ y.reactions = x.reactions
  BY <1>4, <1>5 DEF Records
<1>7. Put(pn, ps, p, y)
  BY <1>2, <1>3, <1>5 DEF Renewed, Put
<1>8. OnlyAt(pn, ps, p) /\ pn[p] = y
  BY <1>1, <1>6, <1>7, Putting
<1>9. Appended(pn[p].used, ps[p].used, FALSE)
  BY <1>2, <1>3, <1>6, <1>8 DEF Appended
<1> QED
  BY <1>2, <1>6, <1>8, <1>9 DEF Paired

LEMMA Growing ==
  ASSUME NEW ps, NEW pn
  PROVE  /\ pn = Append(ps, Promise_!NewPromise) => Grown(pn, ps, "pending")
         /\ pn = Append(ps, [Promise_!NewPromise EXCEPT !.st = "fulfilled", !.used = <<TRUE>>]) =>
              Grown(pn, ps, "fulfilled")
<1>1. /\ <<>> \in Seq(Reactions)
      /\ <<TRUE>> \in Seq(BOOLEAN) /\ <<FALSE>> \in Seq(BOOLEAN)
  OBVIOUS
<1>2. PICK x : x = Promise_!NewPromise
  OBVIOUS
<1>3. x \in Records /\ x.st = "pending" /\ x.reactions = <<>> /\ x.used = <<FALSE>>
  BY <1>1, <1>2 DEF Promise_!NewPromise, Records
<1>4. PICK y : y = [[x EXCEPT !.st = "fulfilled"] EXCEPT !.used = <<TRUE>>]
  OBVIOUS
<1>5. y \in Records /\ y.st = "fulfilled" /\ y.reactions = <<>> /\ y.used = <<TRUE>>
  BY <1>1, <1>3, <1>4 DEF Records, Ends
<1>6. x.used = <<x.st # "pending">> /\ y.used = <<y.st # "pending">>
  <2>1. ("pending" # "pending") = FALSE /\ ("fulfilled" # "pending") = TRUE
    OBVIOUS
  <2> QED
    BY <1>3, <1>5, <2>1
<1>7. pn = Append(ps, Promise_!NewPromise) => Grown(pn, ps, "pending")
  BY <1>2, <1>3, <1>6 DEF Grown, Appended
<1>8. pn = Append(ps, [Promise_!NewPromise EXCEPT !.st = "fulfilled", !.used = <<TRUE>>]) =>
        Grown(pn, ps, "fulfilled")
  BY <1>2, <1>4, <1>5, <1>6 DEF Grown, Appended
<1> QED
  BY <1>7, <1>8

\* A pending promise that has no other way left is settled.
LEMMA Settles ==
  ASSUME NEW ps, NEW js, NEW sk, NEW hl, NEW as, NEW ro, NEW rg, NEW ra, NEW g, NEW p \in 1..Len(ps),
         Whole(ps, js, sk, hl, as, ro, rg, ra, {p}, g), ps[p].st = "pending", NEW st \in Ends,
         Promise_!Settle(ps, js, p, st)
  PROVE  Whole(promises', jobs', sk, hl, as, ro, rg, ra, {}, g)
<1>1. PromisesFit(ps)
  BY DEF Whole, Fits
<1>2. /\ Emptied(promises', ps, p, st)
      /\ jobs' = js \o [i \in DOMAIN ps[p].reactions |-> Promise_!ReactionJob(ps[p].reactions[i], st)]
  BY DEF Promise_!Settle, Emptied
<1>3. Closed(promises', jobs', ps, js, p, st)
  BY <1>1, <1>2, Emptying
<1> QED
  BY <1>3, ClosedWhole

\* A pair of resolving functions is called, and what is left of the stack is sk.
Entered(sn, sk, kinds) == \E x \in Frames : x.kind \in kinds /\ Consed(sn, x, sk)

LEMMA Resolves ==
  ASSUME NEW js, NEW sk, NEW hl, NEW as, NEW ro, NEW rg, NEW ra, NEW g, NEW p, NEW k, Pair(promises, p, k),
         Whole(promises, js, sk, hl, as, ro, rg, ra, {}, g), NEW st \in Ends,
         NEW v, v \in {Plain, Thenable} \/ v \in 1..Len(promises),
         Promise_!Resolving(js, p, k, st, v, sk)
  PROVE  /\ Whole(promises', jobs', stack', hl, as, ro, rg, ra, {}, g)
         /\ stack' = sk \/ Entered(stack', sk, {"getter"})
<1>1. /\ PromisesFit(promises) /\ p \in 1..Len(promises) /\ k \in 1..Len(promises[p].used)
      /\ promises[p].used \in Seq(BOOLEAN)
  BY At DEF Whole, Fits, Pair
<1>2. PICK ps : Filled(ps, promises, p, k)
  BY DEF Filled
<1>3. CASE promises[p].used[k]
  BY <1>3 DEF Promise_!Resolving
<1>4. CASE ~promises[p].used[k]
  <2>1. promises[p].used[k] = FALSE
    BY <1>1, <1>4
  <2>2. Marked(ps, promises, p, k)
    BY <1>1, <1>2, Filling
  <2>3. /\ Whole(ps, js, sk, hl, as, ro, rg, ra, {p}, g)
        /\ p \in 1..Len(ps) /\ ps[p].st = "pending" /\ Wider(ps, promises)
    BY <2>1, <2>2, MarkedWhole
  <2>4. ASSUME NEW end \in Ends, Promise_!Settle(ps, js, p, end), stack' = sk
        PROVE  Whole(promises', jobs', stack', hl, as, ro, rg, ra, {}, g)
    <3>1. Whole(promises', jobs', sk, hl, as, ro, rg, ra, {}, g)
      BY <2>3, <2>4, Settles
    <3> QED
      BY <2>4, <3>1
  <2>5. \/ \E end \in Ends : Promise_!Settle(ps, js, p, end) /\ stack' = sk
        \/ /\ v # Plain /\ promises' = ps
           /\ v = Thenable /\ jobs' = js /\ stack' = <<Promise_!Frame("getter", p, k)>> \o sk
        \/ /\ v # Plain /\ promises' = ps
           /\ v # Thenable /\ jobs' = Append(js, Promise_!ThenableJob(p, v)) /\ stack' = sk
    BY <1>2, <1>4 DEF Promise_!Resolving, Filled, Ends
  <2>6. CASE v # Plain /\ promises' = ps
             /\ v = Thenable /\ jobs' = js /\ stack' = <<Promise_!Frame("getter", p, k)>> \o sk
    <3>1. PICK x : x = Promise_!Frame("getter", p, k)
      OBVIOUS
    <3>2. x \in Frames /\ x.kind = "getter" /\ x.p = p
      BY <1>1, <3>1 DEF Promise_!Frame, Frames
    <3>3. Consed(stack', x, sk)
      BY <2>6, <3>1 DEF Consed
    <3>4. Whole(ps, js, stack', hl, as, ro, rg, ra, {}, g)
      BY <2>3, <3>2, <3>3, ReadWhole
    <3>5. Entered(stack', sk, {"getter"})
      BY <3>2, <3>3 DEF Entered
    <3> QED
      BY <2>6, <3>4, <3>5
  <2>7. CASE v # Plain /\ promises' = ps
             /\ v # Thenable /\ jobs' = Append(js, Promise_!ThenableJob(p, v)) /\ stack' = sk
    <3>1. PICK x : x = Promise_!ThenableJob(p, v)
      OBVIOUS
    <3>2. v \in 1..Len(promises) /\ v \in 1..Len(ps)
      BY <2>3, <2>7 DEF Wider
    <3>3. x \in ThenableJobs /\ x.p = p /\ x.v = v
      BY <1>1, <3>1, <3>2 DEF Promise_!ThenableJob, ThenableJobs
    <3>4. JobFits(ps, x) /\ Appended(jobs', js, x)
      BY <2>3, <2>7, <3>1, <3>2, <3>3, JobKinds DEF JobFits, Appended
    <3>5. Whole(ps, jobs', sk, hl, as, ro, rg, ra, {}, g)
      BY <2>3, <3>3, <3>4, AskedWhole
    <3> QED
      BY <2>7, <3>5
  <2> QED
    BY <2>4, <2>5, <2>6, <2>7
<1> QED
  BY <1>3, <1>4

\* Reaction r is registered with promise p.
LEMMA Registers ==
  ASSUME NEW ps, NEW js, NEW sk, NEW hl, NEW as, NEW ro, NEW ra, NEW r \in Reactions,
         Whole(ps, js, sk, hl, as, ro, registered, ra, {}, Resumes(r)),
         NEW p \in 1..Len(ps), ReactionFits(ps, r), r.id = Len(registered) + 1,
         r.kind = "resume" => as[r.p] = "awaiting",
         Promise_!PerformThen(ps, js, p, r), MaxReactions \in Nat
  PROVE  /\ Whole(promises', jobs', sk, hl, as, ro, registered', ra, {}, {})
         /\ Len(registered') <= MaxReactions
<1>1. PromisesFit(ps) /\ registered \in Seq(Nat)
  BY DEF Whole, Fits, Ordered, Known
<1>2. Appended(registered', registered, p) /\ Len(registered) < MaxReactions
  BY DEF Promise_!PerformThen, Appended
<1>3. Len(registered') <= MaxReactions
  <2>1. p \in Nat
    OBVIOUS
  <2>2. Len(registered') = Len(registered) + 1
    BY <1>1, <1>2, <2>1 DEF Appended
  <2> QED
    BY <1>1, <1>2, <2>2
<1>4. CASE ps[p].st = "pending"
  <2>1. Added(promises', ps, p, r) /\ jobs' = js
    BY <1>4 DEF Promise_!PerformThen, Added
  <2>2. Waiting(promises', ps, p, r)
    BY <1>1, <2>1, Adding
  <2>3. Whole(promises', js, sk, hl, as, ro, registered', ra, {}, {})
    BY <1>2, <1>4, <2>2, WaitingWhole
  <2> QED
    BY <1>3, <2>1, <2>3
<1>5. CASE ps[p].st # "pending"
  <2>1. PICK x : x = Promise_!ReactionJob(r, ps[p].st)
    OBVIOUS
  <2>2. ps[p].st \in Ends
    BY <1>1, <1>5, At
  <2>3. x \in ReactionJobs /\ x.reaction = r
    BY <2>1, <2>2 DEF Promise_!ReactionJob, ReactionJobs
  <2>4. promises' = ps /\ Appended(jobs', js, x)
    BY <1>5, <2>1 DEF Promise_!PerformThen, Appended
  <2>5. Whole(ps, jobs', sk, hl, as, ro, registered', ra, {}, {})
    BY <1>2, <1>5, <2>3, <2>4, QueuedWhole
  <2> QED
    BY <1>3, <2>4, <2>5
<1> QED
  BY <1>4, <1>5

-----------------------------------------------------------------------------
(* Frames end: the async calls among the first l frames end with them. *)

Ended(an, as, sk, l) ==
  /\ an \in [Asyncs -> {"none", "running", "awaiting", "ended"}]
  /\ \A f \in Asyncs :
       an[f] = IF \E i \in 1..l : sk[i].kind = "async" /\ sk[i].p = f THEN "ended" ELSE as[f]

LEMMA Ending ==
  ASSUME NEW ps, NEW js, NEW sk, StackFits(ps, sk), NEW as, NEW ro, CallsFit(ps, as, ro),
         Runs(sk, as), Awaits(ps, js, as, {}), NEW l \in 0..Len(sk), NEW an, Ended(an, as, sk, l)
  PROVE  Leaving(an, as, sk, l) /\ CallsFit(ps, an, ro) /\ Awaits(ps, js, an, {})
<1>1. /\ sk \in Seq(Frames) /\ Len(sk) \in Nat
      /\ \A i \in 1..l : i \in 1..Len(sk) /\ sk[i] \in Frames
  <2>1. sk \in Seq(Frames)
    BY DEF StackFits
  <2> QED
    BY <2>1
<1>2. ASSUME NEW f \in Asyncs, NEW i \in 1..l, sk[i].kind = "async", sk[i].p = f
      PROVE  an[f] = "ended" /\ as[f] = "running" /\ sk[i] \in Running(f)
  <2>1. sk[i] \in Running(f)
    BY <1>1, <1>2, FrameKinds
  <2>2. as[f] = "running"
    BY <1>1, <2>1 DEF Runs, Has
  <2> QED
    BY <1>2, <2>1, <2>2 DEF Ended
<1>3. ASSUME NEW f \in Asyncs, ~\E i \in 1..l : sk[i].kind = "async" /\ sk[i].p = f
      PROVE  an[f] = as[f] /\ \A i \in 1..l : sk[i] \notin Running(f)
  BY <1>1, <1>3, FrameKinds DEF Ended
<1>4. Leaving(an, as, sk, l)
  <2> SUFFICES ASSUME NEW f \in Asyncs
               PROVE  an[f] = "running" <=> (as[f] = "running" /\ \A i \in 1..l : sk[i] \notin Running(f))
    BY DEF Leaving
  <2>1. CASE \E i \in 1..l : sk[i].kind = "async" /\ sk[i].p = f
    BY <1>2, <2>1
  <2>2. CASE ~\E i \in 1..l : sk[i].kind = "async" /\ sk[i].p = f
    BY <1>3, <2>2
  <2> QED
    BY <2>1, <2>2
<1>5. \A f \in Asyncs : (an[f] = "none" <=> as[f] = "none") /\ (an[f] = "awaiting" <=> as[f] = "awaiting")
  BY <1>2, <1>3
<1>6. CallsFit(ps, an, ro)
  BY <1>5 DEF CallsFit, Ended
<1>7. Awaits(ps, js, an, {})
  BY <1>5 DEF Awaits
<1> QED
  BY <1>4, <1>6, <1>7

LEMMA EndedWhole ==
  ASSUME NEW ps, NEW js, NEW sk, NEW hl, NEW as, NEW ro, NEW rg, NEW ra,
         Whole(ps, js, sk, hl, as, ro, rg, ra, {}, {}),
         NEW l \in 0..Len(sk), \A i \in 1..l : sk[i].kind = "getter" => i = l,
         NEW sn, Dropped(sn, sk, l), NEW an, Ended(an, as, sk, l)
  PROVE  /\ l > 0 /\ sk[l].kind = "getter" =>
              /\ Whole(ps, js, sn, hl, an, ro, rg, ra, {sk[l].p}, {})
              /\ sk[l].p \in 1..Len(ps) /\ ps[sk[l].p].st = "pending"
         /\ ~(l > 0 /\ sk[l].kind = "getter") => Whole(ps, js, sn, hl, an, ro, rg, ra, {}, {})
<1>1. /\ StackFits(ps, sk) /\ CallsFit(ps, as, ro) /\ Runs(sk, as) /\ Awaits(ps, js, as, {})
      /\ Len(sk) \in Nat
  <2>1. StackFits(ps, sk) /\ CallsFit(ps, as, ro) /\ Runs(sk, as) /\ Awaits(ps, js, as, {})
    BY DEF Whole, Fits
  <2>2. sk \in Seq(Frames)
    BY <2>1 DEF StackFits
  <2>3. Len(sk) \in Nat
    BY <2>2
  <2> QED
    BY <2>1, <2>3
<1>2. Leaving(an, as, sk, l) /\ CallsFit(ps, an, ro) /\ Awaits(ps, js, an, {})
  BY <1>1, Ending
<1>3. CASE l > 0 /\ sk[l].kind = "getter"
  <2>1. l \in 1..Len(sk)
    BY <1>1, <1>3
  <2> QED
    BY <1>2, <1>3, <2>1, GotWhole
<1>4. CASE ~(l > 0 /\ sk[l].kind = "getter")
  <2>1. \A i \in 1..l : sk[i].kind # "getter"
    BY <1>1, <1>4
  <2>2. Whole(ps, js, sn, hl, an, ro, rg, ra, {}, {})
    BY <1>2, <2>1, LeftWhole
  <2> QED
    BY <1>4, <2>2
<1> QED
  BY <1>3, <1>4

\* The topmost frame ends.
LEMMA TopEnds ==
  ASSUME NEW T, NEW sk \in Seq(T), sk # <<>>
  PROVE  /\ Len(sk) \in Nat /\ Len(sk) > 0 /\ 1 \in 0..Len(sk) /\ sk[1] \in T
         /\ Dropped(Tail(sk), sk, 1)
         /\ \A i \in 1..1 : i = 1
<1>1. Len(sk) \in Nat /\ Len(sk) > 0 /\ 1 \in 0..Len(sk) /\ sk[1] \in T
  OBVIOUS
<1>2. Dropped(Tail(sk), sk, 1)
  <2>1. Tail(sk) = SubSeq(sk, 2, Len(sk))
    BY TailIsSubSeq
  <2>2. 1 + 1 = 2
    OBVIOUS
  <2> QED
    BY <2>1, <2>2 DEF Dropped
<1> QED
  BY <1>1, <1>2

LEMMA EndedTop ==
  ASSUME NEW as \in [Asyncs -> {"none", "running", "awaiting", "ended"}], NEW sk, NEW an
  PROVE  /\ sk[1].kind # "async" /\ an = as => Ended(an, as, sk, 1)
         /\ sk[1].kind = "async" /\ an = [as EXCEPT ![sk[1].p] = "ended"] => Ended(an, as, sk, 1)
<1>1. \A f : (\E i \in 1..1 : sk[i].kind = "async" /\ sk[i].p = f) <=> sk[1].kind = "async" /\ sk[1].p = f
  BY \A i \in 1..1 : i = 1
<1>2. ASSUME sk[1].kind # "async", an = as PROVE Ended(an, as, sk, 1)
  BY <1>1, <1>2 DEF Ended
<1>3. ASSUME sk[1].kind = "async", an = [as EXCEPT ![sk[1].p] = "ended"] PROVE Ended(an, as, sk, 1)
  <2>1. an \in [Asyncs -> {"none", "running", "awaiting", "ended"}]
    BY <1>3
  <2>2. \A f \in Asyncs : an[f] = IF sk[1].p = f THEN "ended" ELSE as[f]
    BY <1>3
  <2> QED
    BY <1>1, <1>3, <2>1, <2>2 DEF Ended
<1> QED
  BY <1>2, <1>3

\* The pair of resolving functions by which a frame settles its promise.
LEMMA FirstPair ==
  ASSUME NEW ps, PromisesFit(ps), NEW p \in 1..Len(ps)
  PROVE  Pair(ps, p, 1)
BY ReactionsOf DEF Pair

LEMMA FramePair ==
  ASSUME NEW ps, NEW js, NEW sk, NEW hl, NEW as, NEW ro, NEW rg, NEW ra, NEW e, NEW g,
         Whole(ps, js, sk, hl, as, ro, rg, ra, e, g), NEW l \in 1..Len(sk)
  PROVE  /\ sk[l] \in Frames
         /\ sk[l].kind = "thenable" => Pair(ps, sk[l].p, sk[l].k)
         /\ sk[l].kind \in {"executor", "handler"} => Pair(ps, sk[l].p, 1)
         /\ sk[l].kind = "async" =>
              sk[l].p \in Asyncs /\ as[sk[l].p] = "running" /\ Pair(ps, ro[sk[l].p], 1)
<1>1. PromisesFit(ps) /\ StackFits(ps, sk) /\ CallsFit(ps, as, ro) /\ Runs(sk, as)
  BY DEF Whole, Fits
<1>2. sk[l] \in Frames /\ FrameFits(ps, sk[l])
  BY <1>1, FrameMembers
<1>3. ASSUME sk[l].kind \in {"executor", "handler"} PROVE Pair(ps, sk[l].p, 1)
  <2>1. sk[l].p \in 1..Len(ps)
    BY <1>2, <1>3 DEF FrameFits, Pair
  <2> QED
    BY <1>1, <2>1, FirstPair
<1>4. ASSUME sk[l].kind = "async"
      PROVE  sk[l].p \in Asyncs /\ as[sk[l].p] = "running" /\ Pair(ps, ro[sk[l].p], 1)
  <2>1. PICK f \in Asyncs : f = sk[l].p
    BY <1>2, <1>4 DEF FrameFits
  <2>2. sk[l] \in Running(f)
    BY <1>2, <1>4, <2>1, FrameKinds
  <2>3. as[f] = "running"
    BY <1>1, <2>2 DEF Runs, Has
  <2>4. ro[f] \in 1..Len(ps)
    BY <1>1, <2>3 DEF CallsFit
  <2>5. Pair(ps, ro[f], 1)
    BY <1>1, <2>4, FirstPair
  <2> QED
    BY <2>1, <2>3, <2>5
<1> QED
  BY <1>2, <1>3, <1>4 DEF FrameFits

\* What an exception that leaves frame x makes of the promises.
LEMMA Catches ==
  ASSUME NEW sk, NEW hl, NEW as, NEW rg, NEW ra, NEW x,
         Whole(promises, jobs, sk, hl, as, resultOf, rg, ra, IF x.kind = "getter" THEN {x.p} ELSE {}, {}),
         x.kind \in {"executor", "thenable", "getter", "handler", "async"},
         x.kind = "getter" => x.p \in 1..Len(promises) /\ promises[x.p].st = "pending",
         x.kind = "thenable" => Pair(promises, x.p, x.k),
         x.kind \in {"executor", "handler"} => Pair(promises, x.p, 1),
         x.kind = "async" => Pair(promises, resultOf[x.p], 1),
         Promise_!Catch(x, sk)
  PROVE  /\ Whole(promises', jobs', stack', hl, as, resultOf, rg, ra, {}, {})
         /\ stack' = sk \/ Entered(stack', sk, {"getter"})
<1>1. CASE x.kind = "getter"
  <2>1. Whole(promises, jobs, sk, hl, as, resultOf, rg, ra, {x.p}, {})
    BY <1>1
  <2>2. Promise_!Settle(promises, jobs, x.p, "rejected") /\ stack' = sk
    BY <1>1 DEF Promise_!Catch
  <2>3. Whole(promises', jobs', sk, hl, as, resultOf, rg, ra, {}, {})
    BY <1>1, <2>1, <2>2, Settles DEF Ends
  <2> QED
    BY <2>2, <2>3
<1>2. CASE x.kind # "getter"
  <2>1. Whole(promises, jobs, sk, hl, as, resultOf, rg, ra, {}, {})
    BY <1>2
  <2>2. PICK p, k : Pair(promises, p, k) /\ Promise_!Resolving(jobs, p, k, "rejected", Plain, sk)
    BY <1>2 DEF Promise_!Catch
  <2>3. "rejected" \in Ends
    BY DEF Ends
  <2> QED
    BY <2>1, <2>2, <2>3, Resolves
<1> QED
  BY <1>1, <1>2

-----------------------------------------------------------------------------
(* The invariant, and each operation. *)

\* The frame of the script is the last one, and only while JS_Eval runs it.
Shape(sk, h) ==
  /\ h = "idle" => sk = <<>>
  /\ \A i \in 1..Len(sk) : sk[i].kind = "script" => i = Len(sk) /\ h = "script"

PromiseInv ==
  /\ Whole(promises, jobs, stack, held, asyncs, resultOf, registered, ran, {}, {})
  /\ Shape(stack, host) /\ Len(registered) <= MaxReactions

LEMMA Bounds == MaxReactions \in Nat /\ Plain \notin Nat /\ Thenable \notin Nat /\ Plain # Thenable
BY ControlAssumption DEF Promise_!BoundsAssumption, Promise_!ValuesAssumption

LEMMA ShapeEmpty == \A h : Shape(<<>>, h)
BY EmptyList DEF Shape

LEMMA ShapeEntered ==
  ASSUME NEW sk \in Seq(Frames), NEW h, Shape(sk, h), h # "idle", NEW sn, NEW kinds, "script" \notin kinds,
         Entered(sn, sk, kinds)
  PROVE  Shape(sn, h)
<1>1. PICK x \in Frames : x.kind \in kinds /\ Consed(sn, x, sk)
  BY DEF Entered
<1>2. Len(sn) = Len(sk) + 1 /\ sn[1] = x /\ \A i \in 1..Len(sk) : sn[i + 1] = sk[i]
  BY <1>1, Consing
<1>3. Len(sk) \in Nat
  OBVIOUS
<1>4. ASSUME NEW i \in 1..Len(sn), sn[i].kind = "script" PROVE i = Len(sn) /\ h = "script"
  <2>1. i # 1
    BY <1>1, <1>2, <1>4
  <2>2. i - 1 \in 1..Len(sk) /\ (i - 1) + 1 = i
    BY <1>2, <1>3, <2>1
  <2>3. sk[i - 1].kind = "script"
    BY <1>2, <1>4, <2>2
  <2>4. i - 1 = Len(sk) /\ h = "script"
    BY <2>2, <2>3 DEF Shape
  <2> QED
    BY <1>2, <1>3, <2>4
<1> QED
  BY <1>4 DEF Shape

LEMMA ShapeLeft ==
  ASSUME NEW sk \in Seq(Frames), NEW h, Shape(sk, h), h # "idle", NEW l \in 0..Len(sk),
         NEW sn, Dropped(sn, sk, l)
  PROVE  Shape(sn, h)
<1>1. Len(sn) = Len(sk) - l /\ \A i \in 1..(Len(sk) - l) : sn[i] = sk[i + l]
  BY Dropping
<1>2. Len(sk) \in Nat /\ l \in Nat
  OBVIOUS
<1>3. ASSUME NEW i \in 1..Len(sn), sn[i].kind = "script" PROVE i = Len(sn) /\ h = "script"
  <2>1. i + l \in 1..Len(sk) /\ sk[i + l].kind = "script"
    BY <1>1, <1>2, <1>3
  <2>2. i + l = Len(sk) /\ h = "script"
    BY <2>1 DEF Shape
  <2> QED
    BY <1>1, <1>2, <2>2
<1> QED
  BY <1>3 DEF Shape

\* Every value a script has is a promise that exists, or is none.
LEMMA Values ==
  ASSUME PromiseInv, NEW v \in Promise_!Values, v \in Promise_!Ids => v \in DOMAIN promises
  PROVE  v \in {Plain, Thenable} \/ v \in 1..Len(promises)
<1>1. promises \in Seq(Records)
  BY DEF PromiseInv, Whole, Fits, PromisesFit
<1>2. DOMAIN promises = 1..Len(promises)
  BY <1>1
<1> QED
  BY <1>2 DEF Promise_!Values

LEMMA AtWork ==
  ASSUME PromiseInv, Promise_!Runs
  PROVE  /\ Whole(promises, jobs, stack, held, asyncs, resultOf, registered, ran, {}, {})
         /\ stack \in Seq(Frames) /\ stack # <<>> /\ Shape(stack, host) /\ host # "idle"
         /\ Len(registered) <= MaxReactions
         /\ promises \in Seq(Records) /\ Len(promises) \in Nat
<1>1. Whole(promises, jobs, stack, held, asyncs, resultOf, registered, ran, {}, {})
  BY DEF PromiseInv
<1>2. stack \in Seq(Frames) /\ promises \in Seq(Records)
  BY <1>1 DEF Whole, Fits, StackFits, PromisesFit
<1>3. Len(promises) \in Nat
  BY <1>2
<1> QED
  BY <1>1, <1>2, <1>3 DEF PromiseInv, Promise_!Runs

LEMMA MakePromiseKeeps ==
  ASSUME PromiseInv, Promise_!MakePromise
  PROVE  PromiseInv'
<1>1. /\ Whole(promises, jobs, stack, held, asyncs, resultOf, registered, ran, {}, {})
      /\ stack \in Seq(Frames) /\ Shape(stack, host) /\ host # "idle"
      /\ Len(registered) <= MaxReactions /\ Len(promises) \in Nat
  BY AtWork DEF Promise_!MakePromise, Promise_!CanCall
<1>2. Grown(promises', promises, "pending")
  BY Growing DEF Promise_!MakePromise
<1>3. /\ Whole(promises', jobs, stack, held, asyncs, resultOf, registered, ran, {}, {})
      /\ Pair(promises', Len(promises) + 1, 1)
  BY <1>1, <1>2, GrownWhole
<1>4. Whole(promises', jobs, stack, held \union {<<Len(promises) + 1, 1>>}, asyncs, resultOf,
            registered, ran, {}, {})
  BY <1>3, HeldWhole
<1>5. PICK x : x = Promise_!Frame("executor", Len(promises) + 1, 1)
  OBVIOUS
<1>6. x \in Frames /\ x.kind = "executor" /\ FrameFits(promises', x)
  BY <1>1, <1>3, <1>5 DEF Promise_!Frame, Frames, FrameFits
<1>7. Consed(stack', x, stack)
  BY <1>5 DEF Promise_!MakePromise, Consed
<1>8. Whole(promises', jobs, stack', held \union {<<Len(promises) + 1, 1>>}, asyncs, resultOf,
            registered, ran, {}, {})
  BY <1>4, <1>6, <1>7, EnteredWhole
<1>9. Shape(stack', host)
  <2>1. Entered(stack', stack, {"executor"})
    BY <1>6, <1>7 DEF Entered
  <2> QED
    BY <1>1, <2>1, ShapeEntered
<1> QED
  BY <1>1, <1>8, <1>9 DEF PromiseInv, Promise_!MakePromise

LEMMA ResolvePromiseKeeps ==
  ASSUME PromiseInv, NEW pair \in held, NEW st \in Ends,
         NEW v \in {Plain, Thenable} \union 1..Len(promises),
         Promise_!ResolvePromise(pair, st, v)
  PROVE  PromiseInv'
<1>1. /\ Whole(promises, jobs, stack, held, asyncs, resultOf, registered, ran, {}, {})
      /\ stack \in Seq(Frames) /\ Shape(stack, host) /\ host # "idle" /\ Len(registered) <= MaxReactions
  BY AtWork DEF Promise_!ResolvePromise
<1>2. Pair(promises, pair[1], pair[2])
  BY <1>1 DEF Whole, Fits, HeldFits
<1>3. Promise_!Resolving(jobs, pair[1], pair[2], st, v, stack)
  BY DEF Promise_!ResolvePromise
<1>4. /\ Whole(promises', jobs', stack', held, asyncs, resultOf, registered, ran, {}, {})
      /\ stack' = stack \/ Entered(stack', stack, {"getter"})
  BY <1>1, <1>2, <1>3, Resolves
<1>5. Shape(stack', host)
  BY <1>1, <1>4, ShapeEntered
<1> QED
  BY <1>1, <1>4, <1>5 DEF PromiseInv, Promise_!ResolvePromise

\* A user's reaction settles the promise made for it.
LEMMA ThenKeeps ==
  ASSUME PromiseInv, NEW p \in DOMAIN promises, Promise_!Then(p)
  PROVE  PromiseInv'
<1>1. /\ Whole(promises, jobs, stack, held, asyncs, resultOf, registered, ran, {}, {})
      /\ Shape(stack, host) /\ promises \in Seq(Records) /\ Len(promises) \in Nat
  BY AtWork DEF Promise_!Then
<1>2. registered \in Seq(Nat)
  BY <1>1 DEF Whole, Ordered, Known
<1>3. PICK ps : ps = Append(promises, Promise_!NewPromise)
  OBVIOUS
<1>4. PICK r : r = Promise_!Reaction("user", Len(promises) + 1, 1)
  OBVIOUS
<1>5. Promise_!PerformThen(ps, jobs, p, r)
  BY <1>3, <1>4 DEF Promise_!Then
<1>6. Grown(ps, promises, "pending")
  BY <1>3, Growing
<1>7. /\ Whole(ps, jobs, stack, held, asyncs, resultOf, registered, ran, {}, {})
      /\ Wider(ps, promises) /\ Pair(ps, Len(promises) + 1, 1)
  BY <1>1, <1>6, GrownWhole
<1>8. /\ r \in Reactions /\ r.kind = "user" /\ r.id = Len(registered) + 1
      /\ ReactionFits(ps, r) /\ Resumes(r) = {}
  BY <1>1, <1>2, <1>4, <1>7 DEF Promise_!Reaction, Reactions, ReactionFits, Resumes
<1>9. p \in 1..Len(ps)
  BY <1>1, <1>7 DEF Wider
<1>10. /\ Whole(promises', jobs', stack, held, asyncs, resultOf, registered', ran, {}, {})
       /\ Len(registered') <= MaxReactions
  BY <1>5, <1>7, <1>8, <1>9, Registers, Bounds
<1> QED
  BY <1>1, <1>10 DEF PromiseInv, Promise_!Then

LEMMA CallAsyncKeeps ==
  ASSUME PromiseInv, NEW f \in Asyncs, Promise_!CallAsync(f)
  PROVE  PromiseInv'
<1>1. /\ Whole(promises, jobs, stack, held, asyncs, resultOf, registered, ran, {}, {})
      /\ stack \in Seq(Frames) /\ Shape(stack, host) /\ host # "idle"
      /\ Len(registered) <= MaxReactions /\ Len(promises) \in Nat
  BY AtWork DEF Promise_!CallAsync, Promise_!CanCall
<1>2. Grown(promises', promises, "pending")
  BY Growing DEF Promise_!CallAsync
<1>3. /\ Whole(promises', jobs, stack, held, asyncs, resultOf, registered, ran, {}, {})
      /\ Pair(promises', Len(promises) + 1, 1)
  BY <1>1, <1>2, GrownWhole
<1>4. CallsFit(promises', asyncs, resultOf) /\ Awaits(promises', jobs, asyncs, {})
  BY <1>3 DEF Whole, Fits
<1>5. /\ asyncs \in [Asyncs -> {"none", "running", "awaiting", "ended"}] /\ resultOf \in [Asyncs -> Nat]
      /\ asyncs[f] = "none"
      /\ asyncs' = [asyncs EXCEPT ![f] = "running"]
      /\ resultOf' = [resultOf EXCEPT ![f] = Len(promises) + 1]
  BY <1>4 DEF CallsFit, Promise_!CallAsync
<1>6. /\ asyncs' \in [Asyncs -> {"none", "running", "awaiting", "ended"}]
      /\ \A h \in Asyncs : asyncs'[h] = IF h = f THEN "running" ELSE asyncs[h]
  BY <1>5
<1>7. CallsFit(promises', asyncs', resultOf')
  <2>1. /\ resultOf' \in [Asyncs -> Nat]
        /\ \A h \in Asyncs : resultOf'[h] = IF h = f THEN Len(promises) + 1 ELSE resultOf[h]
    BY <1>1, <1>5
  <2>2. Len(promises) + 1 \in 1..Len(promises')
    BY <1>3 DEF Pair
  <2>3. \A h \in Asyncs : asyncs'[h] # "none" => resultOf'[h] \in 1..Len(promises')
    BY <1>4, <1>6, <2>1, <2>2 DEF CallsFit
  <2> QED
    BY <1>6, <2>1, <2>3 DEF CallsFit
<1>8. Awaits(promises', jobs, asyncs', {})
  <2>1. \A h \in Asyncs : asyncs'[h] = "awaiting" <=> asyncs[h] = "awaiting"
    BY <1>5, <1>6
  <2> QED
    BY <1>4, <2>1 DEF Awaits
<1>9. PICK x : x = Promise_!Frame("async", f, 0)
  OBVIOUS
<1>10. x \in Frames /\ x.kind = "async" /\ x.p = f
  BY <1>9 DEF Promise_!Frame, Frames
<1>11. Consed(stack', x, stack) /\ Entered(stack', stack, {"async"})
  BY <1>9, <1>10 DEF Promise_!CallAsync, Consed, Entered
<1>12. Turned(asyncs', asyncs, x.p, "running") /\ x.p \in Asyncs /\ asyncs[x.p] # "running"
  BY <1>5, <1>6, <1>10 DEF Turned
<1>13. Whole(promises', jobs, stack', held, asyncs', resultOf', registered, ran, {}, {})
  BY <1>3, <1>7, <1>8, <1>10, <1>11, <1>12, CalledWhole
<1>14. Shape(stack', host)
  BY <1>1, <1>11, ShapeEntered
<1> QED
  BY <1>1, <1>13, <1>14 DEF PromiseInv, Promise_!CallAsync

\* An async call awaits: its frame is left, and a reaction that resumes it registered.
LEMMA AwaitKeeps ==
  ASSUME PromiseInv, NEW v, Promise_!Await(v)
  PROVE  PromiseInv'
<1>1. /\ Whole(promises, jobs, stack, held, asyncs, resultOf, registered, ran, {}, {})
      /\ stack \in Seq(Frames) /\ stack # <<>> /\ Shape(stack, host) /\ host # "idle"
      /\ promises \in Seq(Records) /\ Len(promises) \in Nat
  BY AtWork DEF Promise_!Await
<1>2. registered \in Seq(Nat) /\ CallsFit(promises, asyncs, resultOf) /\ Awaits(promises, jobs, asyncs, {})
  BY <1>1 DEF Whole, Fits, Ordered, Known
<1>3. Len(stack) > 0 /\ 1 \in 0..Len(stack) /\ 1 \in 1..Len(stack) /\ Dropped(Tail(stack), stack, 1)
  BY <1>1, TopEnds
<1>4. PICK f \in Asyncs :
        f = stack[1].p /\ stack[1].kind = "async" /\ stack[1] \in Frames /\ asyncs[f] = "running"
  BY <1>1, <1>3, FramePair DEF Promise_!Await, Promise_!Top
<1>5. asyncs' = [asyncs EXCEPT ![f] = "awaiting"] /\ stack' = Tail(stack)
  BY <1>4 DEF Promise_!Await, Promise_!Top, Promise_!Rest
<1>6. /\ asyncs' \in [Asyncs -> {"none", "running", "awaiting", "ended"}]
      /\ \A h \in Asyncs : asyncs'[h] = IF h = f THEN "awaiting" ELSE asyncs[h]
  BY <1>2, <1>5 DEF CallsFit
<1>7. Leaving(asyncs', asyncs, stack, 1)
  <2>1. \A h \in Asyncs : (\A i \in 1..1 : stack[i] \notin Running(h)) <=> h # f
    <3>1. \A h \in Asyncs : stack[1] \notin Running(h) <=> h # f
      BY <1>4, FrameKinds
    <3> QED
      BY <3>1, \A i \in 1..1 : i = 1
  <2>2. \A h \in Asyncs : asyncs'[h] = "running" <=> (asyncs[h] = "running" /\ h # f)
    BY <1>6
  <2> QED
    BY <2>1, <2>2 DEF Leaving
<1>8. CallsFit(promises, asyncs', resultOf)
  BY <1>2, <1>4, <1>6 DEF CallsFit
<1>9. Awaits(promises, jobs, asyncs', {f})
  <2>1. Turned(asyncs', asyncs, f, "awaiting") /\ asyncs[f] # "awaiting"
    BY <1>4, <1>6 DEF Turned
  <2> QED
    BY <1>2, <2>1, AwaitsTurned
<1>10. Whole(promises, jobs, stack', held, asyncs', resultOf, registered, ran, {}, {f})
  <2>1. \A i \in 1..1 : stack[i].kind # "getter"
    BY <1>4, \A i \in 1..1 : i = 1
  <2>2. Dropped(stack', stack, 1)
    BY <1>3, <1>5
  <2> QED
    BY <1>1, <1>3, <1>7, <1>8, <1>9, <2>1, <2>2, LeftWhole
<1>11. PICK r : r = Promise_!Reaction("resume", f, 0)
  OBVIOUS
<1>12. /\ r \in Reactions /\ r.kind = "resume" /\ r.p = f /\ r.id = Len(registered) + 1
       /\ Resumes(r) = {f} /\ asyncs'[r.p] = "awaiting" /\ \A ps : ReactionFits(ps, r)
  <2>1. r \in Reactions /\ r.kind = "resume" /\ r.p = f /\ r.id = Len(registered) + 1
    BY <1>2, <1>11 DEF Promise_!Reaction, Reactions
  <2> QED
    BY <1>6, <2>1 DEF Resumes, ReactionFits
<1>13. ASSUME NEW ps, NEW p \in 1..Len(ps), Promise_!PerformThen(ps, jobs, p, r),
              Whole(ps, jobs, stack', held, asyncs', resultOf, registered, ran, {}, {f})
       PROVE  /\ Whole(promises', jobs', stack', held, asyncs', resultOf, registered', ran, {}, {})
              /\ Len(registered') <= MaxReactions
  BY <1>12, <1>13, Registers, Bounds
<1>14. \/ /\ v \in DOMAIN promises
          /\ Promise_!PerformThen(promises, jobs, v, r)
       \/ Promise_!PerformThen(
            Append(promises, [Promise_!NewPromise EXCEPT !.st = "fulfilled", !.used = <<TRUE>>]),
            jobs, Len(promises) + 1, r)
  BY <1>4, <1>11 DEF Promise_!Await, Promise_!Top
<1>15. /\ Whole(promises', jobs', stack', held, asyncs', resultOf, registered', ran, {}, {})
       /\ Len(registered') <= MaxReactions
  <2>1. CASE v \in DOMAIN promises /\ Promise_!PerformThen(promises, jobs, v, r)
    <3>1. v \in 1..Len(promises)
      BY <1>1, <2>1
    <3> QED
      BY <1>10, <1>13, <2>1, <3>1
  <2>2. CASE Promise_!PerformThen(
               Append(promises, [Promise_!NewPromise EXCEPT !.st = "fulfilled", !.used = <<TRUE>>]),
               jobs, Len(promises) + 1, r)
    <3>1. PICK ps :
            ps = Append(promises, [Promise_!NewPromise EXCEPT !.st = "fulfilled", !.used = <<TRUE>>])
      OBVIOUS
    <3>2. Grown(ps, promises, "fulfilled")
      BY <3>1, Growing
    <3>3. /\ Whole(ps, jobs, stack', held, asyncs', resultOf, registered, ran, {}, {f})
          /\ Pair(ps, Len(promises) + 1, 1)
      BY <1>10, <3>2, GrownWhole DEF Ends
    <3>4. Len(promises) + 1 \in 1..Len(ps) /\ Promise_!PerformThen(ps, jobs, Len(promises) + 1, r)
      BY <2>2, <3>1, <3>3 DEF Pair
    <3> QED
      BY <1>13, <3>3, <3>4
  <2> QED
    BY <1>14, <2>1, <2>2
<1>16. Shape(stack', host)
  BY <1>1, <1>3, <1>5, ShapeLeft
<1> QED
  BY <1>15, <1>16 DEF PromiseInv, Promise_!Await

\* The topmost frame ends, with its async call if it is one.
LEMMA TopGone ==
  ASSUME PromiseInv, Promise_!Runs, NEW an, Ended(an, asyncs, stack, 1)
  PROVE  /\ stack[1].kind = "getter" =>
              /\ Whole(promises, jobs, Tail(stack), held, an, resultOf, registered, ran, {stack[1].p}, {})
              /\ stack[1].p \in 1..Len(promises) /\ promises[stack[1].p].st = "pending"
         /\ stack[1].kind # "getter" =>
              Whole(promises, jobs, Tail(stack), held, an, resultOf, registered, ran, {}, {})
         /\ Shape(Tail(stack), host) /\ Tail(stack) \in Seq(Frames)
         /\ stack[1].kind = "script" => Tail(stack) = <<>>
<1>1. /\ Whole(promises, jobs, stack, held, asyncs, resultOf, registered, ran, {}, {})
      /\ stack \in Seq(Frames) /\ stack # <<>> /\ Shape(stack, host) /\ host # "idle"
  BY AtWork
<1>2. Len(stack) \in Nat /\ Len(stack) > 0 /\ 1 \in 0..Len(stack) /\ Dropped(Tail(stack), stack, 1)
  BY <1>1, TopEnds
<1>3. \A i \in 1..1 : stack[i].kind = "getter" => i = 1
  BY \A i \in 1..1 : i = 1
<1>4. /\ 1 > 0 /\ stack[1].kind = "getter" =>
           /\ Whole(promises, jobs, Tail(stack), held, an, resultOf, registered, ran, {stack[1].p}, {})
           /\ stack[1].p \in 1..Len(promises) /\ promises[stack[1].p].st = "pending"
      /\ ~(1 > 0 /\ stack[1].kind = "getter") =>
           Whole(promises, jobs, Tail(stack), held, an, resultOf, registered, ran, {}, {})
  BY <1>1, <1>2, <1>3, EndedWhole
<1>5. Shape(Tail(stack), host) /\ Tail(stack) \in Seq(Frames)
  BY <1>1, <1>2, ShapeLeft
<1>6. stack[1].kind = "script" => Tail(stack) = <<>>
  <2>1. 1 \in 1..Len(stack)
    BY <1>2
  <2>2. \A i \in 1..Len(stack) : stack[i].kind = "script" => i = Len(stack) /\ host = "script"
    BY <1>1 DEF Shape
  <2>3. stack[1].kind = "script" => Len(stack) = 1
    BY <2>1, <2>2
  <2>4. Len(Tail(stack)) = Len(stack) - 1 /\ Tail(stack) \in Seq(Frames)
    BY <1>1, HeadTailProperties
  <2>5. Len(stack) = 1 => Len(Tail(stack)) = 0
    BY <2>4
  <2>6. Len(Tail(stack)) = 0 => Tail(stack) = <<>>
    BY <2>4, EmptySeq
  <2> QED
    BY <2>3, <2>5, <2>6
<1> QED
  BY <1>4, <1>5, <1>6

LEMMA ReturnKeeps ==
  ASSUME PromiseInv, NEW v \in {Plain, Thenable} \union 1..Len(promises), Promise_!Return(v)
  PROVE  PromiseInv'
<1>1. /\ Whole(promises, jobs, stack, held, asyncs, resultOf, registered, ran, {}, {})
      /\ stack \in Seq(Frames) /\ stack # <<>> /\ Shape(stack, host) /\ host # "idle"
      /\ Len(registered) <= MaxReactions /\ Promise_!Runs
  BY AtWork DEF Promise_!Return
<1>2. 1 \in 1..Len(stack)
  BY <1>1, TopEnds
<1>3. asyncs \in [Asyncs -> {"none", "running", "awaiting", "ended"}]
  BY <1>1 DEF Whole, Fits, CallsFit
<1>4. UNCHANGED <<held, resultOf, evals, registered, ran, interrupted>>
  BY DEF Promise_!Return
<1>5. ASSUME Whole(promises', jobs', stack', held, asyncs', resultOf, registered, ran, {}, {}),
             Shape(stack', host')
      PROVE  PromiseInv'
  BY <1>1, <1>4, <1>5 DEF PromiseInv
<1>6. ASSUME NEW p, Promise_!Resolving(jobs, p, 1, "fulfilled", v, Tail(stack)), Pair(promises, p, 1),
             Whole(promises, jobs, Tail(stack), held, asyncs', resultOf, registered, ran, {}, {}),
             Shape(Tail(stack), host), Tail(stack) \in Seq(Frames), host' = host
      PROVE  PromiseInv'
  <2>1. /\ Whole(promises', jobs', stack', held, asyncs', resultOf, registered, ran, {}, {})
        /\ stack' = Tail(stack) \/ Entered(stack', Tail(stack), {"getter"})
    BY <1>6, Resolves DEF Ends
  <2>2. Shape(stack', host)
    BY <1>1, <1>6, <2>1, ShapeEntered
  <2> QED
    BY <1>5, <1>6, <2>1, <2>2
<1>7. CASE /\ stack[1].kind = "script" /\ v = Plain
           /\ host' = "drain" /\ stack' = Tail(stack)
           /\ UNCHANGED <<promises, jobs, asyncs>>
  <2>1. Ended(asyncs, asyncs, stack, 1)
    BY <1>3, <1>7, EndedTop
  <2>2. /\ Whole(promises, jobs, Tail(stack), held, asyncs, resultOf, registered, ran, {}, {})
        /\ Tail(stack) = <<>>
    BY <1>1, <1>7, <2>1, TopGone
  <2>3. Shape(stack', host')
    BY <1>7, <2>2, ShapeEmpty
  <2> QED
    BY <1>5, <1>7, <2>2, <2>3
<1>8. CASE /\ stack[1].kind \in {"executor", "thenable"} /\ v = Plain
           /\ stack' = Tail(stack)
           /\ UNCHANGED <<promises, jobs, asyncs, host>>
  <2>1. Ended(asyncs, asyncs, stack, 1)
    BY <1>3, <1>8, EndedTop
  <2>2. /\ Whole(promises, jobs, Tail(stack), held, asyncs, resultOf, registered, ran, {}, {})
        /\ Shape(Tail(stack), host)
    BY <1>1, <1>8, <2>1, TopGone
  <2> QED
    BY <1>5, <1>8, <2>2
<1>9. CASE /\ stack[1].kind = "handler"
           /\ Promise_!Resolving(jobs, stack[1].p, 1, "fulfilled", v, Tail(stack))
           /\ UNCHANGED <<asyncs, host>>
  <2>1. Ended(asyncs, asyncs, stack, 1)
    BY <1>3, <1>9, EndedTop
  <2>2. /\ Whole(promises, jobs, Tail(stack), held, asyncs, resultOf, registered, ran, {}, {})
        /\ Shape(Tail(stack), host) /\ Tail(stack) \in Seq(Frames)
    BY <1>1, <1>9, <2>1, TopGone
  <2>3. Pair(promises, stack[1].p, 1)
    BY <1>1, <1>2, <1>9, FramePair
  <2> QED
    BY <1>6, <1>9, <2>2, <2>3
<1>10. CASE /\ stack[1].kind = "async"
            /\ Promise_!Resolving(jobs, resultOf[stack[1].p], 1, "fulfilled", v, Tail(stack))
            /\ asyncs' = [asyncs EXCEPT ![stack[1].p] = "ended"]
            /\ UNCHANGED host
  <2>1. Ended(asyncs', asyncs, stack, 1)
    BY <1>3, <1>10, EndedTop
  <2>2. /\ Whole(promises, jobs, Tail(stack), held, asyncs', resultOf, registered, ran, {}, {})
        /\ Shape(Tail(stack), host) /\ Tail(stack) \in Seq(Frames)
    BY <1>1, <1>10, <2>1, TopGone
  <2>3. Pair(promises, resultOf[stack[1].p], 1)
    BY <1>1, <1>2, <1>10, FramePair
  <2> QED
    BY <1>6, <1>10, <2>2, <2>3
<1>11. CASE /\ stack[1].kind = "getter"
            /\ stack' = Tail(stack)
            /\ IF v = Plain
                 THEN Promise_!Settle(promises, jobs, stack[1].p, "fulfilled")
                 ELSE jobs' = Append(jobs, Promise_!ThenableJob(stack[1].p, Thenable)) /\ UNCHANGED promises
            /\ UNCHANGED <<asyncs, host>>
  <2>1. Ended(asyncs, asyncs, stack, 1)
    BY <1>3, <1>11, EndedTop
  <2>2. PICK p : p = stack[1].p
    OBVIOUS
  <2>3. /\ Whole(promises, jobs, Tail(stack), held, asyncs, resultOf, registered, ran, {p}, {})
        /\ p \in 1..Len(promises) /\ promises[p].st = "pending"
        /\ Shape(Tail(stack), host)
    BY <1>1, <1>11, <2>1, <2>2, TopGone
  <2>4. Whole(promises', jobs', Tail(stack), held, asyncs, resultOf, registered, ran, {}, {})
    <3>1. CASE v = Plain
      <4>1. Promise_!Settle(promises, jobs, p, "fulfilled")
        BY <1>11, <2>2, <3>1
      <4> QED
        BY <2>3, <4>1, Settles DEF Ends
    <3>2. CASE v # Plain
      <4>1. PICK x : x = Promise_!ThenableJob(p, Thenable)
        OBVIOUS
      <4>2. x \in ThenableJobs /\ x.p = p /\ x.v = Thenable
        BY <2>3, <4>1 DEF Promise_!ThenableJob, ThenableJobs
      <4>3. JobFits(promises, x) /\ Appended(jobs', jobs, x) /\ promises' = promises
        BY <1>11, <2>2, <2>3, <3>2, <4>1, <4>2, JobKinds DEF JobFits, Appended
      <4>4. Whole(promises, jobs', Tail(stack), held, asyncs, resultOf, registered, ran, {}, {})
        BY <2>3, <4>2, <4>3, AskedWhole
      <4> QED
        BY <4>3, <4>4
    <3> QED
      BY <3>1, <3>2
  <2> QED
    BY <1>5, <1>11, <2>3, <2>4
<1> QED
  BY <1>7, <1>8, <1>9, <1>10, <1>11 DEF Promise_!Return, Promise_!Top, Promise_!Rest

\* An exception caught by frame x, with sk the frames under it.
LEMMA CaughtKeeps ==
  ASSUME PromiseInv, NEW l \in 1..Len(stack), NEW x, x = stack[l],
         NEW sk \in Seq(Frames), Shape(sk, host), host # "idle",
         UNCHANGED <<host, held, resultOf, registered, ran>>,
         x.kind = "getter" =>
           /\ Whole(promises, jobs, sk, held, asyncs', resultOf, registered, ran, {x.p}, {})
           /\ x.p \in 1..Len(promises) /\ promises[x.p].st = "pending",
         x.kind # "getter" => Whole(promises, jobs, sk, held, asyncs', resultOf, registered, ran, {}, {}),
         x.kind # "script", Promise_!Catch(x, sk)
  PROVE  PromiseInv'
<1>1. /\ Whole(promises, jobs, stack, held, asyncs, resultOf, registered, ran, {}, {})
      /\ Len(registered) <= MaxReactions
  BY DEF PromiseInv
<1>2. /\ x \in Frames
      /\ x.kind = "thenable" => Pair(promises, x.p, x.k)
      /\ x.kind \in {"executor", "handler"} => Pair(promises, x.p, 1)
      /\ x.kind = "async" => Pair(promises, resultOf[x.p], 1)
  BY <1>1, FramePair
<1>3. x.kind \in {"executor", "thenable", "getter", "handler", "async"}
  BY <1>2 DEF Frames
<1>4. Whole(promises, jobs, sk, held, asyncs', resultOf, registered, ran,
            IF x.kind = "getter" THEN {x.p} ELSE {}, {})
  OBVIOUS
<1>5. /\ Whole(promises', jobs', stack', held, asyncs', resultOf, registered, ran, {}, {})
      /\ stack' = sk \/ Entered(stack', sk, {"getter"})
  BY <1>2, <1>3, <1>4, Catches
<1>6. Shape(stack', host)
  BY <1>5, ShapeEntered
<1> QED
  BY <1>1, <1>5, <1>6 DEF PromiseInv

LEMMA ThrowKeeps ==
  ASSUME PromiseInv, Promise_!Throw
  PROVE  PromiseInv'
<1>1. /\ Whole(promises, jobs, stack, held, asyncs, resultOf, registered, ran, {}, {})
      /\ stack \in Seq(Frames) /\ stack # <<>> /\ host # "idle"
      /\ Len(registered) <= MaxReactions /\ Promise_!Runs
  BY AtWork DEF Promise_!Throw
<1>2. 1 \in 1..Len(stack)
  BY <1>1, TopEnds
<1>3. asyncs \in [Asyncs -> {"none", "running", "awaiting", "ended"}]
  BY <1>1 DEF Whole, Fits, CallsFit
<1>4. Ended(asyncs', asyncs, stack, 1)
  <2>1. asyncs' = IF stack[1].kind = "async" THEN [asyncs EXCEPT ![stack[1].p] = "ended"] ELSE asyncs
    BY DEF Promise_!Throw, Promise_!Top
  <2> QED
    BY <1>3, <2>1, EndedTop
<1>5. PICK x : x = stack[1]
  OBVIOUS
<1>6. /\ x.kind = "getter" =>
           /\ Whole(promises, jobs, Tail(stack), held, asyncs', resultOf, registered, ran, {x.p}, {})
           /\ x.p \in 1..Len(promises) /\ promises[x.p].st = "pending"
      /\ x.kind # "getter" =>
           Whole(promises, jobs, Tail(stack), held, asyncs', resultOf, registered, ran, {}, {})
      /\ Shape(Tail(stack), host) /\ Tail(stack) \in Seq(Frames)
      /\ x.kind = "script" => Tail(stack) = <<>>
  BY <1>1, <1>4, <1>5, TopGone
<1>7. UNCHANGED <<held, resultOf, evals, registered, ran, interrupted>>
  BY DEF Promise_!Throw
<1>8. CASE x.kind = "script"
  <2>1. stack' = Tail(stack) /\ host' = "idle" /\ UNCHANGED <<promises, jobs>>
    BY <1>5, <1>8 DEF Promise_!Throw, Promise_!Top, Promise_!Rest
  <2>2. Shape(stack', host')
    BY <1>6, <1>8, <2>1, ShapeEmpty
  <2> QED
    BY <1>1, <1>6, <1>7, <1>8, <2>1, <2>2 DEF PromiseInv
<1>9. CASE x.kind # "script"
  <2>1. Promise_!Catch(x, Tail(stack)) /\ UNCHANGED host
    BY <1>5, <1>9 DEF Promise_!Throw, Promise_!Top, Promise_!Rest
  <2> QED
    BY <1>1, <1>2, <1>5, <1>6, <1>7, <1>9, <2>1, CaughtKeeps
<1> QED
  BY <1>8, <1>9

LeastOf(S) == CHOOSE i \in S : \A j \in S : i <= j

LEMMA Least ==
  ASSUME NEW S, S \subseteq Nat, S # {}
  PROVE  LeastOf(S) \in S /\ \A j \in S : LeastOf(S) <= j
<1>1. PICK R : R = OpToRel(<, Nat)
  OBVIOUS
<1>2. IsWellFoundedOn(R, Nat)
  BY <1>1, NatLessThanWellFounded
<1>3. PICK x \in S : \A y \in S : ~(<<y, x>> \in R)
  BY <1>2, WFMin
<1>4. R = {ss \in Nat \X Nat : ss[1] < ss[2]}
  BY <1>1 DEF OpToRel
<1>5. \A y \in S : y < x => <<y, x>> \in R
  BY <1>4
<1>6. \A y \in S : y \in Nat /\ ~(y < x)
  BY <1>3, <1>5
<1>7. x \in Nat
  OBVIOUS
<1>8. \A y \in S : x <= y
  BY <1>6, <1>7
<1> QED
  BY <1>8 DEF LeastOf

\* The interrupt ends the frames up to the first that takes it for an exception.
LEMMA InterruptKeeps ==
  ASSUME PromiseInv, Promise_!Interrupt
  PROVE  PromiseInv'
<1>1. /\ Whole(promises, jobs, stack, held, asyncs, resultOf, registered, ran, {}, {})
      /\ stack \in Seq(Frames) /\ stack # <<>> /\ Shape(stack, host) /\ host # "idle"
      /\ Len(registered) <= MaxReactions
  BY AtWork DEF Promise_!Interrupt
<1>2. Len(stack) \in Nat /\ Len(stack) > 0 /\ DOMAIN stack = 1..Len(stack)
  BY <1>1, TopEnds
<1>3. PICK l : l = IF Promise_!Catchers = {} THEN Len(stack) ELSE LeastOf(Promise_!Catchers)
  OBVIOUS
<1>4. /\ asyncs' = [f \in Asyncs |->
                      IF \E i \in 1..l : stack[i].kind = "async" /\ stack[i].p = f
                        THEN "ended" ELSE asyncs[f]]
      /\ IF Promise_!Catchers = {}
           THEN stack' = <<>> /\ host' = "idle" /\ UNCHANGED <<promises, jobs>>
           ELSE Promise_!Catch(stack[l], SubSeq(stack, l + 1, Len(stack))) /\ UNCHANGED host
      /\ UNCHANGED <<held, resultOf, evals, registered, ran>>
  BY <1>3 DEF Promise_!Interrupt, LeastOf
<1>5. Ended(asyncs', asyncs, stack, l)
  <2>1. asyncs \in [Asyncs -> {"none", "running", "awaiting", "ended"}]
    BY <1>1 DEF Whole, Fits, CallsFit
  <2> QED
    BY <1>4, <2>1 DEF Ended
<1>6. \A i \in 1..Len(stack) :
        i \in Promise_!Catchers <=> stack[i].kind \in {"executor", "thenable", "getter"}
  BY <1>2 DEF Promise_!Catchers
<1>7. CASE Promise_!Catchers = {}
  <2>1. l = Len(stack) /\ l \in 0..Len(stack) /\ l \in 1..Len(stack)
    BY <1>2, <1>3, <1>7
  <2>2. \A i \in 1..Len(stack) : stack[i].kind # "getter"
    BY <1>6, <1>7
  <2>3. Dropped(<<>>, stack, l)
    BY <1>2, <2>1, SubSeqEmpty DEF Dropped
  <2>4. Whole(promises, jobs, <<>>, held, asyncs', resultOf, registered, ran, {}, {})
    BY <1>1, <1>5, <2>1, <2>2, <2>3, EndedWhole
  <2> QED
    BY <1>1, <1>4, <1>7, <2>4, ShapeEmpty DEF PromiseInv
<1>8. CASE Promise_!Catchers # {}
  <2>1. Promise_!Catchers \subseteq 1..Len(stack) /\ Promise_!Catchers \subseteq Nat
    BY <1>2 DEF Promise_!Catchers
  <2>2. l \in Promise_!Catchers /\ \A j \in Promise_!Catchers : l <= j
    BY <1>3, <1>8, <2>1, Least
  <2>3. l \in 1..Len(stack) /\ l \in 0..Len(stack) /\ l > 0
    BY <1>2, <2>1, <2>2
  <2>4. \A i \in 1..l : stack[i].kind = "getter" => i = l
    <3>1. \A i \in 1..l : i \in 1..Len(stack)
      BY <1>2, <2>3
    <3>2. \A i \in 1..l : stack[i].kind = "getter" => l <= i
      BY <1>6, <2>2, <3>1
    <3> QED
      BY <2>3, <3>2
  <2>5. PICK sk : Dropped(sk, stack, l)
    BY DEF Dropped
  <2>6. sk \in Seq(Frames) /\ Shape(sk, host)
    BY <1>1, <2>3, <2>5, Dropping, ShapeLeft
  <2>7. PICK x : x = stack[l]
    OBVIOUS
  <2>8. /\ x.kind = "getter" =>
             /\ Whole(promises, jobs, sk, held, asyncs', resultOf, registered, ran, {x.p}, {})
             /\ x.p \in 1..Len(promises) /\ promises[x.p].st = "pending"
        /\ x.kind # "getter" =>
             Whole(promises, jobs, sk, held, asyncs', resultOf, registered, ran, {}, {})
    <3>1. /\ l > 0 /\ stack[l].kind = "getter" =>
               /\ Whole(promises, jobs, sk, held, asyncs', resultOf, registered, ran, {stack[l].p}, {})
               /\ stack[l].p \in 1..Len(promises) /\ promises[stack[l].p].st = "pending"
          /\ ~(l > 0 /\ stack[l].kind = "getter") =>
               Whole(promises, jobs, sk, held, asyncs', resultOf, registered, ran, {}, {})
      BY <1>1, <1>5, <2>3, <2>4, <2>5, EndedWhole
    <3> QED
      BY <2>3, <2>7, <3>1
  <2>9. x.kind # "script"
    BY <1>6, <2>2, <2>3, <2>7
  <2>10. Promise_!Catch(x, sk) /\ UNCHANGED <<host, held, resultOf, registered, ran>>
    BY <1>4, <1>8, <2>5, <2>7 DEF Dropped
  <2> QED
    BY <1>1, <2>3, <2>6, <2>7, <2>8, <2>9, <2>10, CaughtKeeps
<1> QED
  BY <1>7, <1>8

\* The first frame is entered.
LEMMA FirstFrame ==
  ASSUME NEW sk, sk = <<>>, NEW x \in Frames, NEW sn, sn = <<x>>
  PROVE  Consed(sn, x, sk) /\ Len(sn) = 1 /\ sn[1] = x /\ sn \in Seq(Frames)
<1>1. <<x>> \in Seq(Frames) /\ Len(<<x>>) = 1 /\ <<x>>[1] = x
  BY Single
<1>2. <<x>> \o <<>> = <<x>>
  BY <1>1, ConcatEmptySeq
<1> QED
  BY <1>1, <1>2 DEF Consed

LEMMA StartEvalKeeps ==
  ASSUME PromiseInv, Promise_!StartEval
  PROVE  PromiseInv'
<1>1. /\ Whole(promises, jobs, stack, held, asyncs, resultOf, registered, ran, {}, {})
      /\ Len(registered) <= MaxReactions /\ stack = <<>>
  BY DEF PromiseInv, Promise_!StartEval, Shape
<1>2. PICK x : x = Promise_!Frame("script", 0, 0)
  OBVIOUS
<1>3. x \in Frames /\ x.kind = "script" /\ FrameFits(promises, x)
  BY <1>2 DEF Promise_!Frame, Frames, FrameFits
<1>4. stack' = <<x>> /\ host' = "script"
  BY <1>2 DEF Promise_!StartEval
<1>5. Consed(stack', x, stack) /\ Len(stack') = 1 /\ stack'[1] = x
  BY <1>1, <1>3, <1>4, FirstFrame
<1>6. Whole(promises, jobs, stack', held, asyncs, resultOf, registered, ran, {}, {})
  BY <1>1, <1>3, <1>5, EnteredWhole
<1>7. Shape(stack', host')
  <2>1. \A i \in 1..1 : i = 1
    OBVIOUS
  <2> QED
    BY <1>4, <1>5, <2>1 DEF Shape
<1> QED
  BY <1>1, <1>6, <1>7 DEF PromiseInv, Promise_!StartEval

\* A job runs while no frame does.
LEMMA RunsAJob ==
  ASSUME PromiseInv, Promise_!RunJob
  PROVE  /\ Whole(promises, jobs, stack, held, asyncs, resultOf, registered, ran, {}, {})
         /\ Len(registered) <= MaxReactions /\ stack = <<>> /\ host = "drain"
         /\ Beheaded(Tail(jobs), jobs) /\ jobs[1] \in Jobs /\ Head(jobs) = jobs[1]
         /\ UNCHANGED <<resultOf, host, evals, interrupted>>
         /\ promises \in Seq(Records) /\ registered \in Seq(Nat)
<1>1. /\ Whole(promises, jobs, stack, held, asyncs, resultOf, registered, ran, {}, {})
      /\ Len(registered) <= MaxReactions
  BY DEF PromiseInv
<1>2. jobs \in Seq(Jobs) /\ promises \in Seq(Records) /\ registered \in Seq(Nat)
  BY <1>1 DEF Whole, Fits, JobsFit, PromisesFit, Ordered, Known
<1>3. stack = <<>> /\ host = "drain" /\ jobs # <<>> /\ UNCHANGED <<resultOf, host, evals, interrupted>>
  BY DEF Promise_!RunJob
<1>4. Beheaded(Tail(jobs), jobs)
  BY <1>3 DEF Beheaded
<1>5. jobs[1] \in Jobs /\ Head(jobs) = jobs[1]
  BY <1>2, <1>3
<1> QED
  BY <1>1, <1>2, <1>3, <1>4, <1>5

LEMMA EnteredFirst ==
  ASSUME NEW x \in Frames, x.kind # "script", NEW sn, sn = <<x>>, NEW h, h # "idle"
  PROVE  Shape(sn, h)
<1>1. Len(sn) = 1 /\ sn[1] = x
  BY Single
<1>2. \A i \in 1..1 : i = 1
  OBVIOUS
<1> QED
  BY <1>1, <1>2 DEF Shape

LEMMA RunReactionKeeps ==
  ASSUME PromiseInv, Promise_!RunJob, jobs[1] \in ReactionJobs
  PROVE  PromiseInv'
<1>1. /\ Whole(promises, jobs, stack, held, asyncs, resultOf, registered, ran, {}, {})
      /\ Len(registered) <= MaxReactions /\ stack = <<>> /\ host = "drain"
      /\ Beheaded(Tail(jobs), jobs) /\ Head(jobs) = jobs[1]
      /\ UNCHANGED <<resultOf, host, evals, interrupted>>
  BY RunsAJob
<1>2. PICK r, st, js : RunBy(r, jobs) /\ st = jobs[1].st /\ js = Tail(jobs)
  BY DEF RunBy
<1>3. Promise_!RunReaction(js, r, st) /\ st \in Ends
  <2>1. jobs[1].kind = "reaction" /\ jobs[1].st \in Ends
    BY DEF ReactionJobs
  <2> QED
    BY <1>1, <1>2, <2>1 DEF Promise_!RunJob, RunBy
<1>4. Appended(ran', ran, r.id) /\ UNCHANGED <<held, registered>>
  BY <1>3 DEF Promise_!RunReaction, Appended
<1>5. /\ Whole(promises, js, stack, held, asyncs, resultOf, registered, ran', {}, Resumes(r))
      /\ r \in Reactions /\ ReactionFits(promises, r)
      /\ r.kind = "resume" => r.p \in Asyncs /\ asyncs[r.p] = "awaiting"
  BY <1>1, <1>2, <1>4, RunWhole
<1>6. ASSUME Whole(promises', jobs', stack', held, asyncs', resultOf, registered, ran', {}, {}),
             Shape(stack', host)
      PROVE  PromiseInv'
  BY <1>1, <1>4, <1>6 DEF PromiseInv
<1>7. CASE /\ r.kind \in {"user", "settle"}
           /\ Promise_!Resolving(js, r.p, r.k, st, Plain, <<>>)
           /\ UNCHANGED asyncs
  <2>1. Whole(promises, js, <<>>, held, asyncs, resultOf, registered, ran', {}, {})
    BY <1>1, <1>5, <1>7 DEF Resumes
  <2>2. Pair(promises, r.p, r.k)
    BY <1>5, <1>7 DEF ReactionFits
  <2>3. /\ Whole(promises', jobs', stack', held, asyncs, resultOf, registered, ran', {}, {})
        /\ stack' = <<>> \/ Entered(stack', <<>>, {"getter"})
    BY <1>3, <1>7, <2>1, <2>2, Resolves
  <2>4. Shape(stack', host)
    BY <1>1, <2>3, ShapeEmpty, ShapeEntered, EmptySeq
  <2> QED
    BY <1>6, <1>7, <2>3, <2>4
<1>8. CASE /\ r.kind = "user"
           /\ stack' = <<Promise_!Frame("handler", r.p, 1)>>
           /\ jobs' = js
           /\ UNCHANGED <<promises, asyncs>>
  <2>1. PICK x : x = Promise_!Frame("handler", r.p, 1)
    OBVIOUS
  <2>2. r.p \in 1..Len(promises) /\ PromisesFit(promises)
    BY <1>1, <1>5, <1>8 DEF ReactionFits, Pair, Whole, Fits
  <2>3. Pair(promises, r.p, 1)
    BY <2>2, FirstPair
  <2>4. x \in Frames /\ x.kind = "handler" /\ FrameFits(promises, x)
    BY <2>1, <2>2, <2>3 DEF Promise_!Frame, Frames, FrameFits
  <2>5. Consed(stack', x, stack) /\ stack' = <<x>>
    BY <1>1, <1>8, <2>1, <2>4, FirstFrame
  <2>6. Whole(promises, js, stack, held, asyncs, resultOf, registered, ran', {}, {})
    BY <1>5, <1>8 DEF Resumes
  <2>7. Whole(promises, js, stack', held, asyncs, resultOf, registered, ran', {}, {})
    BY <2>4, <2>5, <2>6, EnteredWhole
  <2>8. Shape(stack', host)
    BY <1>1, <2>4, <2>5, EnteredFirst
  <2> QED
    BY <1>6, <1>8, <2>7, <2>8
<1>9. CASE /\ r.kind = "resume"
           /\ stack' = <<Promise_!Frame("async", r.p, 0)>>
           /\ asyncs' = [asyncs EXCEPT ![r.p] = "running"]
           /\ jobs' = js
           /\ UNCHANGED promises
  <2>1. PICK x : x = Promise_!Frame("async", r.p, 0)
    OBVIOUS
  <2>2. x \in Frames /\ x.kind = "async" /\ x.p = r.p /\ r.p \in Asyncs /\ asyncs[r.p] = "awaiting"
    BY <1>5, <1>9, <2>1 DEF Promise_!Frame, Frames
  <2>3. Consed(stack', x, stack) /\ stack' = <<x>>
    BY <1>1, <1>9, <2>1, <2>2, FirstFrame
  <2>4. /\ Whole(promises, js, stack, held, asyncs, resultOf, registered, ran', {}, {r.p})
        /\ CallsFit(promises, asyncs, resultOf) /\ Awaits(promises, js, asyncs, {r.p})
    BY <1>5, <1>9 DEF Resumes, Whole, Fits
  <2>5. /\ asyncs' \in [Asyncs -> {"none", "running", "awaiting", "ended"}]
        /\ \A h \in Asyncs : asyncs'[h] = IF h = r.p THEN "running" ELSE asyncs[h]
    BY <1>9, <2>4 DEF CallsFit
  <2>6. Turned(asyncs', asyncs, r.p, "running")
    BY <2>5 DEF Turned
  <2>7. CallsFit(promises, asyncs', resultOf)
    BY <2>2, <2>4, <2>5 DEF CallsFit
  <2>8. Awaits(promises, js, asyncs', {})
    BY <2>4, <2>6, AwaitsTurned
  <2>9. Whole(promises, js, stack', held, asyncs', resultOf, registered, ran', {}, {})
    BY <2>2, <2>3, <2>4, <2>6, <2>7, <2>8, CalledWhole
  <2>10. Shape(stack', host)
    BY <1>1, <2>2, <2>3, EnteredFirst
  <2> QED
    BY <1>6, <1>9, <2>9, <2>10
<1> QED
  BY <1>3, <1>7, <1>8, <1>9 DEF Promise_!RunReaction

LEMMA RunThenableKeeps ==
  ASSUME PromiseInv, Promise_!RunJob, jobs[1] \in ThenableJobs
  PROVE  PromiseInv'
<1>1. /\ Whole(promises, jobs, stack, held, asyncs, resultOf, registered, ran, {}, {})
      /\ Len(registered) <= MaxReactions /\ stack = <<>> /\ host = "drain"
      /\ Beheaded(Tail(jobs), jobs) /\ Head(jobs) = jobs[1]
      /\ UNCHANGED <<resultOf, host, evals, interrupted>>
      /\ promises \in Seq(Records) /\ registered \in Seq(Nat)
  BY RunsAJob
<1>2. PICK p, v, js : p = jobs[1].p /\ v = jobs[1].v /\ js = Tail(jobs)
  OBVIOUS
<1>3. Promise_!RunThenable(js, p, v)
  <2>1. jobs[1].kind # "reaction"
    BY DEF ThenableJobs
  <2> QED
    BY <1>1, <1>2, <2>1 DEF Promise_!RunJob
<1>4. /\ Whole(promises, js, stack, held, asyncs, resultOf, registered, ran, {p}, {})
      /\ p \in 1..Len(promises) /\ promises[p].st = "pending" /\ JobFits(promises, jobs[1])
  BY <1>1, <1>2, TakenWhole
<1>5. v = Thenable \/ v \in 1..Len(promises)
  BY <1>2, <1>4 DEF JobFits
<1>6. PICK k : k = Len(promises[p].used) + 1
  OBVIOUS
<1>7. PICK ps : Renewed(ps, promises, p)
  BY DEF Renewed
<1>8. /\ IF v = Thenable
           THEN /\ promises' = ps
                /\ stack' = <<Promise_!Frame("thenable", p, k)>>
                /\ held' = held \union {<<p, k>>}
                /\ jobs' = js
                /\ UNCHANGED registered
           ELSE /\ Promise_!PerformThen(ps, js, v, Promise_!Reaction("settle", p, k))
                /\ UNCHANGED <<stack, held>>
      /\ UNCHANGED <<asyncs, ran>>
  BY <1>3, <1>6, <1>7 DEF Promise_!RunThenable, Renewed
<1>9. /\ Whole(ps, js, stack, held, asyncs, resultOf, registered, ran, {}, {})
      /\ Wider(ps, promises) /\ Pair(ps, p, k)
  <2>1. PromisesFit(promises)
    BY <1>1 DEF Whole, Fits
  <2>2. Paired(ps, promises, p)
    BY <1>4, <1>7, <2>1, Renewing
  <2> QED
    BY <1>4, <1>6, <2>2, PairedWhole
<1>10. p \in Nat /\ k \in Nat
  <2>1. p \in Nat
    BY <1>4
  <2>2. k \in Nat
    BY <1>9 DEF Pair
  <2> QED
    BY <2>1, <2>2
<1>11. CASE v = Thenable
  <2>1. Whole(ps, js, stack, held \union {<<p, k>>}, asyncs, resultOf, registered, ran, {}, {})
    BY <1>9, HeldWhole
  <2>2. PICK x : x = Promise_!Frame("thenable", p, k)
    OBVIOUS
  <2>3. x \in Frames /\ x.kind = "thenable" /\ FrameFits(ps, x)
    BY <1>9, <1>10, <2>2 DEF Promise_!Frame, Frames, FrameFits
  <2>4. Consed(stack', x, stack) /\ stack' = <<x>>
    BY <1>1, <1>8, <1>11, <2>2, <2>3, FirstFrame
  <2>5. Whole(ps, js, stack', held \union {<<p, k>>}, asyncs, resultOf, registered, ran, {}, {})
    BY <2>1, <2>3, <2>4, EnteredWhole
  <2>6. Shape(stack', host)
    <3>1. x.kind # "script" /\ host # "idle"
      BY <1>1, <2>3
    <3> QED
      BY <2>3, <2>4, <3>1, EnteredFirst
  <2> QED
    BY <1>1, <1>8, <1>11, <2>5, <2>6 DEF PromiseInv
<1>12. CASE v # Thenable
  <2>1. PICK r : r = Promise_!Reaction("settle", p, k)
    OBVIOUS
  <2>2. /\ r \in Reactions /\ r.kind = "settle" /\ r.id = Len(registered) + 1
        /\ ReactionFits(ps, r) /\ Resumes(r) = {}
    BY <1>1, <1>9, <1>10, <2>1 DEF Promise_!Reaction, Reactions, ReactionFits, Resumes
  <2>3. v \in 1..Len(ps)
    BY <1>5, <1>9, <1>12 DEF Wider
  <2>4. Promise_!PerformThen(ps, js, v, r) /\ UNCHANGED <<stack, held, asyncs, ran>>
    BY <1>8, <1>12, <2>1
  <2>5. /\ Whole(promises', jobs', stack, held, asyncs, resultOf, registered', ran, {}, {})
        /\ Len(registered') <= MaxReactions
    BY <1>9, <2>2, <2>3, <2>4, Registers, Bounds
  <2>6. Shape(stack, host)
    BY DEF PromiseInv
  <2> QED
    BY <1>1, <2>4, <2>5, <2>6 DEF PromiseInv
<1> QED
  BY <1>11, <1>12

LEMMA RunJobKeeps ==
  ASSUME PromiseInv, Promise_!RunJob
  PROVE  PromiseInv'
BY RunsAJob, JobKinds, RunReactionKeeps, RunThenableKeeps

\* With no JavaScript running, an async entry of the host calls a resolving function.
LEMMA ExternalSettlesKeeps ==
  ASSUME PromiseInv, NEW pair \in held, NEW st \in Ends, Promise_!ExternalSettles(pair, st)
  PROVE  PromiseInv'
<1>1. /\ Whole(promises, jobs, stack, held, asyncs, resultOf, registered, ran, {}, {})
      /\ Len(registered) <= MaxReactions /\ stack = <<>> /\ host = "drain"
      /\ UNCHANGED <<held, asyncs, resultOf, host, evals, registered, ran, interrupted>>
  BY DEF PromiseInv, Promise_!ExternalSettles, Promise_!Idle
<1>2. Pair(promises, pair[1], pair[2])
  BY <1>1 DEF Whole, Fits, HeldFits
<1>3. Promise_!Resolving(jobs, pair[1], pair[2], st, Plain, stack)
  BY <1>1 DEF Promise_!ExternalSettles
<1>4. /\ Whole(promises', jobs', stack', held, asyncs, resultOf, registered, ran, {}, {})
      /\ stack' = stack \/ Entered(stack', stack, {"getter"})
  BY <1>1, <1>2, <1>3, Resolves
<1>5. Shape(stack', host)
  <2>1. Shape(stack, host) /\ host # "idle" /\ stack \in Seq(Frames)
    BY <1>1, ShapeEmpty, EmptySeq
  <2> QED
    BY <1>4, <2>1, ShapeEntered
<1> QED
  BY <1>1, <1>4, <1>5 DEF PromiseInv

LEMMA EndEvalKeeps ==
  ASSUME PromiseInv, Promise_!EndEval
  PROVE  PromiseInv'
<1>1. stack = <<>> /\ UNCHANGED <<promises, held, asyncs, resultOf, jobs, stack, registered, ran>>
  BY DEF Promise_!EndEval, Promise_!Idle
<1>2. Shape(stack, host')
  BY <1>1, ShapeEmpty
<1> QED
  BY <1>1, <1>2 DEF PromiseInv

LEMMA PromiseStarts ==
  ASSUME Promise_!Init
  PROVE  PromiseInv
<1>1. /\ promises = <<>> /\ jobs = <<>> /\ stack = <<>> /\ registered = <<>> /\ ran = <<>> /\ held = {}
      /\ asyncs = [f \in Asyncs |-> "none"] /\ resultOf = [f \in Asyncs |-> 0]
  BY DEF Promise_!Init
<1>2. Len(<<>>) = 0 /\ \A i : i \notin 1..0
  OBVIOUS
<1>3. /\ PromisesFit(<<>>) /\ JobsFit(<<>>, <<>>) /\ StackFits(<<>>, <<>>)
  BY <1>2, EmptySeq DEF PromisesFit, JobsFit, StackFits
<1>4. HeldFits(promises, held) /\ CallsFit(promises, asyncs, resultOf)
  BY <1>1 DEF HeldFits, CallsFit
<1>5. OneWay(<<>>, <<>>, <<>>, {})
  BY <1>2 DEF OneWay
<1>6. Ordered(<<>>, <<>>, <<>>, <<>>)
  BY <1>2, EmptySeq DEF Ordered, Known
<1>7. Runs(stack, asyncs)
  BY <1>1, EmptyList DEF Runs
<1>8. Awaits(promises, jobs, asyncs, {})
  BY <1>1, <1>2, EmptyList DEF Awaits, Resumed
<1>9. Len(registered) <= MaxReactions
  BY <1>1, <1>2, Bounds
<1> QED
  BY <1>1, <1>3, <1>4, <1>5, <1>6, <1>7, <1>8, <1>9, ShapeEmpty DEF PromiseInv, Whole, Fits

LEMMA PromiseStep ==
  ASSUME PromiseInv, [Promise_!Next]_promiseVars
  PROVE  PromiseInv'
<1>1. CASE UNCHANGED promiseVars
  BY <1>1 DEF promiseVars, PromiseInv
<1>2. CASE Promise_!Script
  <2>1. ASSUME NEW pair \in held, NEW st \in {"fulfilled", "rejected"}, NEW v \in Promise_!Values,
               v \in Promise_!Ids => v \in DOMAIN promises, Promise_!ResolvePromise(pair, st, v)
        PROVE  PromiseInv'
    <3>1. v \in {Plain, Thenable} \union 1..Len(promises)
      BY <2>1, Values
    <3> QED
      BY <2>1, <3>1, ResolvePromiseKeeps DEF Ends
  <2>2. ASSUME NEW v \in Promise_!Values, v \in Promise_!Ids => v \in DOMAIN promises, Promise_!Return(v)
        PROVE  PromiseInv'
    <3>1. v \in {Plain, Thenable} \union 1..Len(promises)
      BY <2>2, Values
    <3> QED
      BY <2>2, <3>1, ReturnKeeps
  <2> QED
    BY <1>2, <2>1, <2>2, MakePromiseKeeps, ThenKeeps, CallAsyncKeeps, AwaitKeeps, ThrowKeeps, InterruptKeeps
    DEF Promise_!Script
<1>3. CASE \E pair \in held, st \in {"fulfilled", "rejected"} : Promise_!ExternalSettles(pair, st)
  BY <1>3, ExternalSettlesKeeps DEF Ends
<1> QED
  BY <1>1, <1>2, <1>3, StartEvalKeeps, RunJobKeeps, EndEvalKeeps DEF Promise_!Next

-----------------------------------------------------------------------------
(* What the invariant says of the properties. *)

\* The library's Cardinality is the one the module uses.
LEMMA SameCardinality == ASSUME NEW S PROVE Promise_!Cardinality(S) = Cardinality(S)
BY DEF Cardinality, Promise_!Cardinality

\* A set all of whose elements are equal.
LEMMA AtMostOne ==
  ASSUME NEW S, \A x, y \in S : x = y
  PROVE  Promise_!Cardinality(S) = IF S = {} THEN 0 ELSE 1
<1>1. CASE S = {}
  BY <1>1, FS_EmptySet, SameCardinality
<1>2. CASE S # {}
  <2>1. PICK x : S = {x}
    BY <1>2
  <2> QED
    BY <1>2, <2>1, FS_Singleton, SameCardinality
<1> QED
  BY <1>1, <1>2

LEMMA Count ==
  ASSUME NEW s, NEW S, Sole(s, S), NEW I, \A i : i \in I <=> i \in 1..Len(s) /\ s[i] \in S
  PROVE  Promise_!Cardinality(I) = IF Has(s, S) THEN 1 ELSE 0
<1>1. \A x, y \in I : x = y
  BY DEF Sole
<1>2. I = {} <=> ~Has(s, S)
  BY DEF Has
<1>3. Promise_!Cardinality(I) = IF I = {} THEN 0 ELSE 1
  BY <1>1, AtMostOne
<1> QED
  BY <1>2, <1>3

LEMMA Lists ==
  ASSUME PromiseInv
  PROVE  /\ promises \in Seq(Records) /\ DOMAIN promises = 1..Len(promises)
         /\ jobs \in Seq(Jobs) /\ DOMAIN jobs = 1..Len(jobs)
         /\ stack \in Seq(Frames) /\ DOMAIN stack = 1..Len(stack)
         /\ registered \in Seq(Nat) /\ DOMAIN registered = 1..Len(registered)
         /\ ran \in Seq(Nat) /\ DOMAIN ran = 1..Len(ran)
         /\ Len(registered) <= MaxReactions /\ Len(registered) \in Nat
<1>1. /\ promises \in Seq(Records) /\ jobs \in Seq(Jobs) /\ stack \in Seq(Frames)
      /\ registered \in Seq(Nat) /\ ran \in Seq(Nat) /\ Len(registered) <= MaxReactions
  BY DEF PromiseInv, Whole, Fits, PromisesFit, JobsFit, StackFits, Ordered, Known
<1>2. \A T : \A s \in Seq(T) : DOMAIN s = 1..Len(s) /\ Len(s) \in Nat
  OBVIOUS
<1> QED
  BY <1>1, <1>2

LEMMA InJobs ==
  ASSUME PromiseInv, NEW i \in 1..Len(jobs)
  PROVE  /\ \A p : jobs[i] \in Asking(p) <=> jobs[i].kind = "thenable" /\ jobs[i].p = p
         /\ \A m : jobs[i] \in JobsWithId(m) <=> jobs[i].kind = "reaction" /\ jobs[i].reaction.id = m
         /\ jobs[i].kind = "reaction" => jobs[i] \in ReactionJobs /\ jobs[i].reaction \in Reactions
<1>1. jobs[i] \in Jobs
  BY Lists
<1>2. CASE jobs[i] \in ReactionJobs
  <2>1. jobs[i].kind = "reaction" /\ jobs[i].reaction \in Reactions
    BY <1>2 DEF ReactionJobs
  <2> QED
    BY <1>2, <2>1, JobKinds DEF JobsWithId
<1>3. CASE jobs[i] \in ThenableJobs
  <2>1. jobs[i].kind = "thenable"
    BY <1>3 DEF ThenableJobs
  <2> QED
    BY <1>3, <2>1, JobKinds DEF Asking
<1> QED
  BY <1>1, <1>2, <1>3, JobKinds

LEMMA Resolvers == PromiseInv => Promise_!OneResolver
<1> SUFFICES ASSUME PromiseInv, NEW p \in 1..Len(promises)
             PROVE  Promise_!Ways(p) = IF promises[p].st = "pending" THEN 1 ELSE 0
  BY Lists DEF Promise_!OneResolver
<1> DEFINE u == promises[p].used
<1> DEFINE A == {k \in DOMAIN promises[p].used : ~promises[p].used[k]}
<1> DEFINE B == {i \in DOMAIN jobs : jobs[i].kind = "thenable" /\ jobs[i].p = p}
<1> DEFINE C == {i \in DOMAIN stack : stack[i].kind = "getter" /\ stack[i].p = p}
<1>1. WayOf(u, promises[p].st, jobs, stack, p, {}) /\ u \in Seq(BOOLEAN)
  BY At DEF PromiseInv, Whole, OneWay, Fits
<1>2. \A i : i \in A <=> i \in 1..Len(u) /\ u[i] \in {FALSE}
  <2>1. \A k \in 1..Len(u) : u[k] \in BOOLEAN
    BY <1>1, ElementOfSeq
  <2>2. \A k \in 1..Len(u) : u[k] \in {FALSE} <=> ~u[k]
    BY <2>1
  <2>3. DOMAIN u = 1..Len(u)
    BY <1>1
  <2> QED
    BY <2>2, <2>3
<1>3. \A i : i \in B <=> i \in 1..Len(jobs) /\ jobs[i] \in Asking(p)
  BY Lists, InJobs
<1>4. \A i : i \in C <=> i \in 1..Len(stack) /\ stack[i] \in Getters(p)
  <2>1. \A i \in 1..Len(stack) : stack[i] \in Frames
    BY Lists
  <2> QED
    BY <2>1, Lists, FrameKinds
<1>5. Sole(u, {FALSE}) /\ Sole(jobs, Asking(p)) /\ Sole(stack, Getters(p))
  BY <1>1 DEF WayOf
<1>6. Promise_!Ways(p) = Promise_!Cardinality(A) + Promise_!Cardinality(B) + Promise_!Cardinality(C)
  BY DEF Promise_!Ways
<1> HIDE DEF A, B, C, u
<1>7. Promise_!Cardinality(A) = IF Has(u, {FALSE}) THEN 1 ELSE 0
  BY <1>2, <1>5, Count
<1>8. Promise_!Cardinality(B) = IF Has(jobs, Asking(p)) THEN 1 ELSE 0
  BY <1>3, <1>5, Count
<1>9. Promise_!Cardinality(C) = IF Has(stack, Getters(p)) THEN 1 ELSE 0
  BY <1>4, <1>5, Count
<1>10. /\ ~(Has(u, {FALSE}) /\ Has(jobs, Asking(p)))
       /\ ~(Has(u, {FALSE}) /\ Has(stack, Getters(p)))
       /\ ~(Has(jobs, Asking(p)) /\ Has(stack, Getters(p)))
       /\ (Has(u, {FALSE}) \/ Has(jobs, Asking(p)) \/ Has(stack, Getters(p))) <=> promises[p].st = "pending"
  BY <1>1 DEF WayOf, Unused
<1> QED
  BY <1>6, <1>7, <1>8, <1>9, <1>10

\* Of the reactions registered, each is where its number says.
LEMMA Numbered ==
  ASSUME PromiseInv
  PROVE  /\ \A p \in 1..Len(promises) :
              promises[p].reactions \in Seq(Reactions) /\ Len(promises[p].reactions) \in Nat
         /\ \A p \in 1..Len(promises) : KeptBy(promises[p].reactions, registered, p)
         /\ \A p \in 1..Len(promises) : Len(promises[p].reactions) <= Len(registered)
         /\ \A i \in 1..Len(jobs) : jobs[i].kind = "reaction" => jobs[i].reaction.id \in 1..Len(registered)
         /\ \A i \in 1..Len(registered) : registered[i] \in 1..Len(promises)
         /\ \A i \in 1..Len(registered) : Placed(promises[registered[i]].reactions, jobs, ran, i)
<1>1. /\ Ordered(promises, jobs, registered, ran) /\ Known(promises, jobs, registered, ran)
      /\ PromisesFit(promises)
  BY DEF PromiseInv, Whole, Fits, Ordered
<1>2. ASSUME NEW p \in 1..Len(promises)
      PROVE  promises[p].reactions \in Seq(Reactions) /\ Len(promises[p].reactions) \in Nat
  <2>1. promises[p].reactions \in Seq(Reactions)
    BY <1>1, At
  <2> QED
    BY <2>1
<1>3. ASSUME NEW i \in 1..Len(jobs), jobs[i].kind = "reaction"
      PROVE  jobs[i].reaction.id \in 1..Len(registered)
  <2>1. JobKnown(jobs[i], registered)
    BY <1>1 DEF Known
  <2>2. jobs[i] \in ReactionJobs
    BY <1>3, InJobs
  <2> QED
    BY <2>1, <2>2 DEF JobKnown
<1> QED
  BY <1>1, <1>2, <1>3 DEF Ordered, Known

\* The places of what resumes async call f: reactions of promises, and jobs.
Keeping(f) ==
  {x \in (DOMAIN promises) \X (1..MaxReactions) :
     /\ x[2] \in DOMAIN promises[x[1]].reactions
     /\ promises[x[1]].reactions[x[2]].kind = "resume" /\ promises[x[1]].reactions[x[2]].p = f}
Queueing(f) ==
  {i \in DOMAIN jobs :
     jobs[i].kind = "reaction" /\ (jobs[i].reaction.kind = "resume" /\ jobs[i].reaction.p = f)}

LEMMA InPromise ==
  ASSUME PromiseInv, NEW f, NEW x \in Keeping(f), NEW i, i = promises[x[1]].reactions[x[2]].id
  PROVE  /\ x = <<x[1], x[2]>> /\ x[1] \in 1..Len(promises) /\ x[2] \in 1..Len(promises[x[1]].reactions)
         /\ i \in 1..Len(registered) /\ registered[i] = x[1]
         /\ promises[x[1]].reactions[x[2]] \in WithId(i)
         /\ promises[x[1]].reactions[x[2]] \in Resuming(f, i)
         /\ Resumed(promises, jobs, f, i)
<1>1. PICK p, l : p = x[1] /\ l = x[2]
  OBVIOUS
<1>2. x = <<p, l>> /\ p \in 1..Len(promises) /\ l \in DOMAIN promises[p].reactions
  BY <1>1, Lists DEF Keeping
<1>3. promises[p].reactions \in Seq(Reactions) /\ KeptBy(promises[p].reactions, registered, p)
  BY <1>2, Numbered
<1>4. l \in 1..Len(promises[p].reactions) /\ promises[p].reactions[l] \in Reactions
  BY <1>2, <1>3
<1>5. i \in 1..Len(registered) /\ registered[i] = p
  BY <1>1, <1>3, <1>4 DEF KeptBy
<1>6. promises[p].reactions[l] \in WithId(i) /\ promises[p].reactions[l] \in Resuming(f, i)
  BY <1>1, <1>4 DEF WithId, Resuming, Keeping
<1>7. Resumed(promises, jobs, f, i)
  BY <1>2, <1>4, <1>6 DEF Resumed, Has
<1> QED
  BY <1>1, <1>2, <1>4, <1>5, <1>6, <1>7

LEMMA InQueue ==
  ASSUME PromiseInv, NEW f, NEW l \in Queueing(f), NEW i, i = jobs[l].reaction.id
  PROVE  /\ l \in 1..Len(jobs) /\ i \in 1..Len(registered)
         /\ jobs[l] \in JobsWithId(i) /\ jobs[l] \in JobsResuming(f, i)
         /\ Resumed(promises, jobs, f, i)
<1>1. /\ l \in 1..Len(jobs) /\ jobs[l].kind = "reaction"
      /\ jobs[l].reaction.kind = "resume" /\ jobs[l].reaction.p = f
  BY Lists DEF Queueing
<1>2. i \in 1..Len(registered)
  BY <1>1, Numbered
<1>3. jobs[l] \in JobsWithId(i) /\ jobs[l] \in ReactionJobs /\ jobs[l].reaction \in Reactions
  BY <1>1, InJobs
<1>4. jobs[l] \in JobsResuming(f, i)
  BY <1>1, <1>3 DEF JobsResuming, Resuming
<1>5. Resumed(promises, jobs, f, i)
  BY <1>1, <1>4 DEF Resumed, Has
<1> QED
  BY <1>1, <1>2, <1>3, <1>4, <1>5

LEMMA Continuing ==
  ASSUME PromiseInv, NEW f \in Asyncs
  PROVE  /\ \A x, y \in Keeping(f) : x = y
         /\ \A x, y \in Queueing(f) : x = y
         /\ Keeping(f) = {} \/ Queueing(f) = {}
         /\ (Keeping(f) # {} \/ Queueing(f) # {}) <=> asyncs[f] = "awaiting"
<1>1. /\ \A i, j \in Nat : Resumed(promises, jobs, f, i) /\ Resumed(promises, jobs, f, j) => i = j
      /\ (\E i \in Nat : Resumed(promises, jobs, f, i)) <=> (asyncs[f] = "awaiting" /\ f \notin {})
  BY DEF PromiseInv, Whole, Awaits
<1>2. Len(registered) \in Nat /\ 1..Len(registered) \subseteq Nat
  <2>1. Len(registered) \in Nat
    BY Lists
  <2> QED
    BY <2>1
<1>3. ASSUME NEW x \in Keeping(f), NEW y \in Keeping(f) PROVE x = y
  <2>1. PICK i, j : i = promises[x[1]].reactions[x[2]].id /\ j = promises[y[1]].reactions[y[2]].id
    OBVIOUS
  <2>2. /\ x = <<x[1], x[2]>> /\ x[2] \in 1..Len(promises[x[1]].reactions)
        /\ i \in 1..Len(registered) /\ registered[i] = x[1]
        /\ promises[x[1]].reactions[x[2]] \in WithId(i) /\ Resumed(promises, jobs, f, i)
    BY <2>1, InPromise
  <2>3. /\ y = <<y[1], y[2]>> /\ y[2] \in 1..Len(promises[y[1]].reactions)
        /\ j \in 1..Len(registered) /\ registered[j] = y[1]
        /\ promises[y[1]].reactions[y[2]] \in WithId(j) /\ Resumed(promises, jobs, f, j)
    BY <2>1, InPromise
  <2>4. i = j
    BY <1>1, <1>2, <2>2, <2>3
  <2>5. Sole(promises[registered[i]].reactions, WithId(i))
    BY <2>2, Numbered DEF Placed
  <2>6. x[1] = y[1] /\ x[2] = y[2]
    BY <2>2, <2>3, <2>4, <2>5 DEF Sole
  <2> QED
    BY <2>2, <2>3, <2>6
<1>4. ASSUME NEW x \in Queueing(f), NEW y \in Queueing(f) PROVE x = y
  <2>1. PICK i, j : i = jobs[x].reaction.id /\ j = jobs[y].reaction.id
    OBVIOUS
  <2>2. /\ x \in 1..Len(jobs) /\ i \in 1..Len(registered)
        /\ jobs[x] \in JobsWithId(i) /\ Resumed(promises, jobs, f, i)
    BY <2>1, InQueue
  <2>3. /\ y \in 1..Len(jobs) /\ j \in 1..Len(registered)
        /\ jobs[y] \in JobsWithId(j) /\ Resumed(promises, jobs, f, j)
    BY <2>1, InQueue
  <2>4. i = j
    BY <1>1, <1>2, <2>2, <2>3
  <2>5. Sole(jobs, JobsWithId(i))
    BY <2>2, Numbered DEF Placed
  <2> QED
    BY <2>2, <2>3, <2>4, <2>5 DEF Sole
<1>5. ASSUME NEW x \in Keeping(f), NEW y \in Queueing(f) PROVE FALSE
  <2>1. PICK i, j : i = promises[x[1]].reactions[x[2]].id /\ j = jobs[y].reaction.id
    OBVIOUS
  <2>2. /\ x[2] \in 1..Len(promises[x[1]].reactions)
        /\ i \in 1..Len(registered) /\ registered[i] = x[1]
        /\ promises[x[1]].reactions[x[2]] \in WithId(i) /\ Resumed(promises, jobs, f, i)
    BY <2>1, InPromise
  <2>3. /\ y \in 1..Len(jobs) /\ j \in 1..Len(registered)
        /\ jobs[y] \in JobsWithId(j) /\ Resumed(promises, jobs, f, j)
    BY <2>1, InQueue
  <2>4. i = j
    BY <1>1, <1>2, <2>2, <2>3
  <2>5. ~(Has(jobs, JobsWithId(i)) /\ Has(promises[registered[i]].reactions, WithId(i)))
    BY <2>2, Numbered DEF Placed
  <2> QED
    BY <2>2, <2>3, <2>4, <2>5 DEF Has
<1>6. ASSUME NEW i \in Nat, Resumed(promises, jobs, f, i) PROVE Keeping(f) # {} \/ Queueing(f) # {}
  <2>1. ASSUME NEW p \in 1..Len(promises), NEW l \in 1..Len(promises[p].reactions),
               promises[p].reactions[l] \in Resuming(f, i)
        PROVE  <<p, l>> \in Keeping(f)
    <3>1. /\ promises[p].reactions \in Seq(Reactions) /\ Len(promises[p].reactions) <= Len(registered)
          /\ Len(promises[p].reactions) \in Nat /\ Len(registered) <= MaxReactions /\ MaxReactions \in Nat
      BY Numbered, Lists, Bounds
    <3>2. l \in 1..MaxReactions
      BY <1>2, <3>1
    <3>3. l \in DOMAIN promises[p].reactions /\ p \in DOMAIN promises
      BY <3>1, Lists
    <3>4. promises[p].reactions[l].kind = "resume" /\ promises[p].reactions[l].p = f
      BY <2>1 DEF Resuming
    <3> QED
      BY <3>2, <3>3, <3>4 DEF Keeping
  <2>2. ASSUME NEW l \in 1..Len(jobs), jobs[l] \in JobsResuming(f, i) PROVE l \in Queueing(f)
    <3>1. jobs[l].kind = "reaction" /\ jobs[l].reaction.kind = "resume" /\ jobs[l].reaction.p = f
      BY <2>2 DEF JobsResuming, Resuming, ReactionJobs
    <3> QED
      BY <3>1, Lists DEF Queueing
  <2> QED
    BY <1>6, <2>1, <2>2 DEF Resumed, Has
<1>7. ASSUME NEW x \in Keeping(f) PROVE \E i \in Nat : Resumed(promises, jobs, f, i)
  <2>1. PICK i : i = promises[x[1]].reactions[x[2]].id
    OBVIOUS
  <2> QED
    BY <1>2, <2>1, InPromise
<1>8. ASSUME NEW x \in Queueing(f) PROVE \E i \in Nat : Resumed(promises, jobs, f, i)
  <2>1. PICK i : i = jobs[x].reaction.id
    OBVIOUS
  <2> QED
    BY <1>2, <2>1, InQueue
<1> QED
  BY <1>1, <1>3, <1>4, <1>5, <1>6, <1>7, <1>8

LEMMA Continuations == PromiseInv => Promise_!OneContinuation
<1> SUFFICES ASSUME PromiseInv, NEW f \in Asyncs
             PROVE  /\ Promise_!Cardinality(Keeping(f)) + Promise_!Cardinality(Queueing(f)) =
                         IF asyncs[f] = "awaiting" THEN 1 ELSE 0
                    /\ Promise_!Cardinality(
                         {i \in DOMAIN stack : stack[i].kind = "async" /\ stack[i].p = f}) =
                         IF asyncs[f] = "running" THEN 1 ELSE 0
  BY DEF Promise_!OneContinuation, Keeping, Queueing
<1>1. /\ \A x, y \in Keeping(f) : x = y
      /\ \A x, y \in Queueing(f) : x = y
      /\ Keeping(f) = {} \/ Queueing(f) = {}
      /\ (Keeping(f) # {} \/ Queueing(f) # {}) <=> asyncs[f] = "awaiting"
  BY Continuing
<1>2. Promise_!Cardinality(Keeping(f)) = IF Keeping(f) = {} THEN 0 ELSE 1
  BY <1>1, AtMostOne
<1>3. Promise_!Cardinality(Queueing(f)) = IF Queueing(f) = {} THEN 0 ELSE 1
  BY <1>1, AtMostOne
<1>4. Promise_!Cardinality(Keeping(f)) + Promise_!Cardinality(Queueing(f)) =
        IF asyncs[f] = "awaiting" THEN 1 ELSE 0
  BY <1>1, <1>2, <1>3
<1>5. Promise_!Cardinality({i \in DOMAIN stack : stack[i].kind = "async" /\ stack[i].p = f}) =
        IF asyncs[f] = "running" THEN 1 ELSE 0
  <2> DEFINE I == {i \in DOMAIN stack : stack[i].kind = "async" /\ stack[i].p = f}
  <2>1. Sole(stack, Running(f)) /\ (Has(stack, Running(f)) <=> asyncs[f] = "running")
    BY DEF PromiseInv, Whole, Runs
  <2>2. \A i \in 1..Len(stack) : stack[i] \in Frames
    BY Lists
  <2>3. \A i : i \in I <=> i \in 1..Len(stack) /\ stack[i] \in Running(f)
    BY <2>2, Lists, FrameKinds
  <2> HIDE DEF I
  <2>4. Promise_!Cardinality(I) = IF Has(stack, Running(f)) THEN 1 ELSE 0
    BY <2>1, <2>3, Count
  <2>5. Promise_!Cardinality(I) = IF asyncs[f] = "running" THEN 1 ELSE 0
    BY <2>1, <2>4
  <2> QED
    BY <2>5 DEF I
<1> QED
  BY <1>4, <1>5

LEMMA Placing ==
  ASSUME PromiseInv, NEW i \in 1..Len(registered)
  PROVE  /\ \A l \in 1..Len(ran) : ran[l] \in {i} => <<1, l>> \in Promise_!Places(i)
         /\ \A l \in 1..Len(jobs) : jobs[l] \in JobsWithId(i) => <<2, l>> \in Promise_!Places(i)
         /\ \A l \in 1..Len(promises[registered[i]].reactions) :
              promises[registered[i]].reactions[l] \in WithId(i) => <<3, l>> \in Promise_!Places(i)
         /\ \A x \in Promise_!Places(i) :
              \/ x[1] = 1 /\ x = <<1, x[2]>> /\ x[2] \in 1..Len(ran) /\ ran[x[2]] \in {i}
              \/ x[1] = 2 /\ x = <<2, x[2]>> /\ x[2] \in 1..Len(jobs) /\ jobs[x[2]] \in JobsWithId(i)
              \/ /\ x[1] = 3 /\ x = <<3, x[2]>> /\ x[2] \in 1..Len(promises[registered[i]].reactions)
                 /\ promises[registered[i]].reactions[x[2]] \in WithId(i)
<1>1. PICK r : r = promises[registered[i]].reactions
  OBVIOUS
<1>2. r \in Seq(Reactions) /\ DOMAIN r = 1..Len(r) /\ \A l \in 1..Len(r) : r[l] \in Reactions
  <2>1. r \in Seq(Reactions)
    BY <1>1, Numbered
  <2> QED
    BY <2>1
<1>3. \A l \in 1..Len(r) : r[l] \in WithId(i) <=> r[l].id = i
  BY <1>2 DEF WithId
<1>4. \A l \in 1..Len(jobs) :
        jobs[l] \in JobsWithId(i) <=> jobs[l].kind = "reaction" /\ jobs[l].reaction.id = i
  BY InJobs
<1>5. DOMAIN ran = 1..Len(ran) /\ DOMAIN jobs = 1..Len(jobs)
  BY Lists
<1>6. Promise_!Places(i) =
        {<<1, l>> : l \in {m \in 1..Len(ran) : ran[m] = i}}
          \union {<<2, l>> : l \in {m \in 1..Len(jobs) : jobs[m].kind = "reaction" /\ jobs[m].reaction.id = i}}
          \union {<<3, l>> : l \in {m \in 1..Len(r) : r[m].id = i}}
  BY <1>1, <1>2, <1>5 DEF Promise_!Places
<1>7. \A l \in 1..Len(ran) : ran[l] \in {i} => <<1, l>> \in Promise_!Places(i)
  BY <1>6
<1>8. \A l \in 1..Len(jobs) : jobs[l] \in JobsWithId(i) => <<2, l>> \in Promise_!Places(i)
  BY <1>4, <1>6
<1>9. \A l \in 1..Len(r) : r[l] \in WithId(i) => <<3, l>> \in Promise_!Places(i)
  BY <1>3, <1>6
<1>10. ASSUME NEW x \in Promise_!Places(i)
       PROVE  \/ x[1] = 1 /\ x = <<1, x[2]>> /\ x[2] \in 1..Len(ran) /\ ran[x[2]] \in {i}
              \/ x[1] = 2 /\ x = <<2, x[2]>> /\ x[2] \in 1..Len(jobs) /\ jobs[x[2]] \in JobsWithId(i)
              \/ x[1] = 3 /\ x = <<3, x[2]>> /\ x[2] \in 1..Len(r) /\ r[x[2]] \in WithId(i)
  <2>1. \/ \E l \in 1..Len(ran) : ran[l] = i /\ x = <<1, l>>
        \/ \E l \in 1..Len(jobs) : jobs[l].kind = "reaction" /\ jobs[l].reaction.id = i /\ x = <<2, l>>
        \/ \E l \in 1..Len(r) : r[l].id = i /\ x = <<3, l>>
    BY <1>6
  <2> QED
    BY <1>3, <1>4, <2>1
<1> QED
  BY <1>1, <1>7, <1>8, <1>9, <1>10

LEMMA OnePlace ==
  ASSUME PromiseInv, NEW i \in 1..Len(registered)
  PROVE  Promise_!Cardinality(Promise_!Places(i)) = 1
<1>1. PICK r : r = promises[registered[i]].reactions
  OBVIOUS
<1>2. Placed(r, jobs, ran, i)
  BY <1>1, Numbered
<1>3. Promise_!Places(i) # {}
  BY <1>1, <1>2, Placing DEF Placed, Has
<1>4. ASSUME NEW x \in Promise_!Places(i), NEW y \in Promise_!Places(i) PROVE x = y
  <2>1. \/ x[1] = 1 /\ x = <<1, x[2]>> /\ x[2] \in 1..Len(ran) /\ ran[x[2]] \in {i}
        \/ x[1] = 2 /\ x = <<2, x[2]>> /\ x[2] \in 1..Len(jobs) /\ jobs[x[2]] \in JobsWithId(i)
        \/ x[1] = 3 /\ x = <<3, x[2]>> /\ x[2] \in 1..Len(r) /\ r[x[2]] \in WithId(i)
    BY <1>1, Placing
  <2>2. \/ y[1] = 1 /\ y = <<1, y[2]>> /\ y[2] \in 1..Len(ran) /\ ran[y[2]] \in {i}
        \/ y[1] = 2 /\ y = <<2, y[2]>> /\ y[2] \in 1..Len(jobs) /\ jobs[y[2]] \in JobsWithId(i)
        \/ y[1] = 3 /\ y = <<3, y[2]>> /\ y[2] \in 1..Len(r) /\ r[y[2]] \in WithId(i)
    BY <1>1, Placing
  <2>3. x[1] = y[1]
    BY <1>2, <2>1, <2>2 DEF Placed, Has
  <2>4. x[2] = y[2]
    BY <1>2, <2>1, <2>2, <2>3 DEF Placed, Sole
  <2>5. x = <<x[1], x[2]>> /\ y = <<y[1], y[2]>>
    BY <2>1, <2>2
  <2> QED
    BY <2>3, <2>4, <2>5
<1> QED
  BY <1>3, <1>4, AtMostOne

LEMMA InOrder ==
  ASSUME PromiseInv, NEW i \in 1..Len(registered), NEW j \in 1..Len(registered),
         i < j, registered[i] = registered[j],
         NEW x \in Promise_!Places(i), NEW y \in Promise_!Places(j)
  PROVE  Promise_!Ahead(x, y)
<1>1. PICK r : r = promises[registered[i]].reactions
  OBVIOUS
<1>2. Placed(r, jobs, ran, i) /\ Follow(r, jobs, ran, i, j)
  BY <1>1, Numbered DEF PromiseInv, Whole, Ordered
<1>3. \/ x[1] = 1 /\ x[2] \in 1..Len(ran) /\ ran[x[2]] \in {i}
      \/ x[1] = 2 /\ x[2] \in 1..Len(jobs) /\ jobs[x[2]] \in JobsWithId(i)
      \/ x[1] = 3 /\ x[2] \in 1..Len(r) /\ r[x[2]] \in WithId(i)
  BY <1>1, Placing
<1>4. \/ y[1] = 1 /\ y[2] \in 1..Len(ran) /\ ran[y[2]] \in {j}
      \/ y[1] = 2 /\ y[2] \in 1..Len(jobs) /\ jobs[y[2]] \in JobsWithId(j)
      \/ y[1] = 3 /\ y[2] \in 1..Len(r) /\ r[y[2]] \in WithId(j)
  <2>1. r = promises[registered[j]].reactions
    BY <1>1
  <2> QED
    BY <2>1, Placing
<1>5. CASE x[1] = y[1]
  <2>1. x[2] < y[2]
    BY <1>2, <1>3, <1>4, <1>5 DEF Follow, Before
  <2> QED
    BY <1>5, <2>1 DEF Promise_!Ahead
<1>6. CASE x[1] # y[1]
  <2>1. ~(y[1] = 1 /\ x[1] \in {2, 3})
    BY <1>2, <1>3, <1>4 DEF Follow, Placed, Has
  <2>2. ~(y[1] = 2 /\ x[1] = 3)
    BY <1>2, <1>3, <1>4 DEF Follow, Has
  <2>3. x[1] \in 1..3 /\ y[1] \in 1..3
    BY <1>3, <1>4
  <2>4. x[1] < y[1]
    BY <1>6, <2>1, <2>2, <2>3
  <2> QED
    BY <2>4 DEF Promise_!Ahead
<1> QED
  BY <1>5, <1>6

LEMMA Reacting == PromiseInv => Promise_!ReactionsInOrder
<1> SUFFICES ASSUME PromiseInv PROVE Promise_!ReactionsInOrder
  OBVIOUS
<1>1. DOMAIN registered = 1..Len(registered) /\ 1..Len(registered) \subseteq Nat
  BY Lists
<1>2. ASSUME NEW p \in DOMAIN promises, NEW l \in DOMAIN promises[p].reactions
      PROVE  registered[promises[p].reactions[l].id] = p
  <2>1. /\ p \in 1..Len(promises) /\ promises[p].reactions \in Seq(Reactions)
        /\ KeptBy(promises[p].reactions, registered, p)
    BY Lists, Numbered
  <2>2. l \in 1..Len(promises[p].reactions)
    BY <2>1
  <2> QED
    BY <2>1, <2>2 DEF KeptBy
<1>3. \A i \in DOMAIN registered : Promise_!Cardinality(Promise_!Places(i)) = 1
  BY <1>1, OnePlace
<1>4. \A i, j \in DOMAIN registered : i < j /\ registered[i] = registered[j] =>
        \A x \in Promise_!Places(i), y \in Promise_!Places(j) : Promise_!Ahead(x, y)
  BY <1>1, InOrder
<1> QED
  BY <1>2, <1>3, <1>4 DEF Promise_!ReactionsInOrder

\* However thenables call back, twice, late or while they are being asked, a pending promise
\* can be settled in one way and a settled one in none, and an async call goes on from one
\* place: js_promise_resolve_function_call and js_async_function_resume in quickjs.c.
THEOREM OneWayEach == Spec => []OneResolver
<1> DEFINE I == component = "promise" => PromiseInv
<1>1. Init => I
  BY PromiseStarts DEF Init, promiseInit
<1>2. I /\ [Next]_vars => I'
  BY PromiseStep DEF Next, vars, promiseNext, promiseVars
<1>3. I => OneResolver
  BY Resolvers, Continuations DEF OneResolver
<1> QED
  BY <1>1, <1>2, <1>3, PTL DEF Spec

\* The reactions of a promise run in the order of their registration and once each, over any
\* number of evals: perform_promise_then, fulfill_or_reject_promise and the job queue.
THEOREM ReactedInOrder == Spec => []ReactionsInOrder
<1> DEFINE I == component = "promise" => PromiseInv
<1>1. Init => I
  BY PromiseStarts DEF Init, promiseInit
<1>2. I /\ [Next]_vars => I'
  BY PromiseStep DEF Next, vars, promiseNext, promiseVars
<1>3. I => ReactionsInOrder
  BY Reacting DEF ReactionsInOrder
<1> QED
  BY <1>1, <1>2, <1>3, PTL DEF Spec
=============================================================================
