------------------------------ MODULE HeapProofs ------------------------------
(***************************************************************************)
(* Proofs about reference counts, the cycle collector and weak references  *)
(* (JsHeap), for any objects a script starts with.                         *)
(***************************************************************************)
EXTENDS EngineControl, FiniteSetTheorems, TLAPS

-----------------------------------------------------------------------------
(* Who refers to x, counted; the heap is a parameter. *)

Places(s, P) == {i \in 1..Len(s) : s[i] \in P}

LinksTo(lk, S, x) == Cardinality({o \in S : x \in lk[o]})
RecordsTo(R, x) == Cardinality({r \in R : r.value = x})
EntriesTo(cb, E, x) ==
  Cardinality({e \in E : e.held = x}) + Cardinality({e \in E : e.token = x})
    + Cardinality({e \in E : cb[e.registry] = x})
CallbacksTo(cb, S, x) == Cardinality({o \in S : cb[o] = x})
JobsTo(js, x) ==
  Cardinality({i \in DOMAIN js : js[i].callback = x}) + Cardinality({i \in DOMAIN js : js[i].held = x})
RefsTo(rt, lk, R, cb, E, js, S, x) ==
  (IF x \in rt THEN 1 ELSE 0) + LinksTo(lk, S, x) + RecordsTo(R, x) + EntriesTo(cb, E, x)
    + CallbacksTo(cb, S, x) + JobsTo(js, x)

LEMMA HeapSame == ASSUME NEW S PROVE Heap!Cardinality(S) = Cardinality(S)
BY DEF Cardinality, Heap!Cardinality

LEMMA Halves ==
  ASSUME NEW S, IsFiniteSet(S), NEW T \in SUBSET S
  PROVE  /\ IsFiniteSet(T) /\ IsFiniteSet(S \ T)
         /\ Cardinality(S) \in Nat /\ Cardinality(T) \in Nat /\ Cardinality(S \ T) \in Nat
         /\ Cardinality(S) = Cardinality(S \ T) + Cardinality(T)
<1>1. S \cap T = T
  OBVIOUS
<1>2. IsFiniteSet(T) /\ IsFiniteSet(S \ T) /\ Cardinality(S \ T) = Cardinality(S) - Cardinality(T)
  BY <1>1, FS_Subset, FS_Difference
<1> QED
  BY <1>2, FS_CardinalityType

\* A count is 0 when there is nothing to count.
LEMMA Counting ==
  ASSUME NEW S, IsFiniteSet(S)
  PROVE  Cardinality(S) \in Nat /\ (Cardinality(S) > 0 <=> \E x \in S : TRUE)
<1>1. Cardinality(S) \in Nat /\ (Cardinality(S) = 0 <=> S = {})
  BY FS_CardinalityType, FS_EmptySet
<1> QED
  BY <1>1

LEMMA SplitRecords ==
  ASSUME NEW R, IsFiniteSet(R), NEW Q \in SUBSET R, NEW x
  PROVE  /\ RecordsTo(R, x) = RecordsTo(R \ Q, x) + RecordsTo(Q, x)
         /\ RecordsTo(R, x) \in Nat /\ RecordsTo(R \ Q, x) \in Nat /\ RecordsTo(Q, x) \in Nat
<1> DEFINE S == {r \in R : r.value = x}
           T == {r \in Q : r.value = x}
<1>1. IsFiniteSet(S) /\ T \subseteq S /\ {r \in R \ Q : r.value = x} = S \ T
  <2>1. S \subseteq R
    OBVIOUS
  <2> QED
    BY <2>1, FS_Subset
<1> QED
  BY <1>1, Halves DEF RecordsTo

LEMMA SplitEntries ==
  ASSUME NEW E, IsFiniteSet(E), NEW Q \in SUBSET E, NEW cb, NEW x
  PROVE  /\ EntriesTo(cb, E, x) = EntriesTo(cb, E \ Q, x) + EntriesTo(cb, Q, x)
         /\ EntriesTo(cb, E, x) \in Nat /\ EntriesTo(cb, E \ Q, x) \in Nat /\ EntriesTo(cb, Q, x) \in Nat
<1> DEFINE SplitBy(S, T, U) ==
      /\ Cardinality(S) \in Nat /\ Cardinality(T) \in Nat /\ Cardinality(U) \in Nat
      /\ Cardinality(S) = Cardinality(U) + Cardinality(T)
<1>1. SplitBy({e \in E : e.held = x}, {e \in Q : e.held = x}, {e \in E \ Q : e.held = x})
  <2> DEFINE S == {e \in E : e.held = x}
             T == {e \in Q : e.held = x}
  <2>1. S \subseteq E /\ T \subseteq S /\ {e \in E \ Q : e.held = x} = S \ T
    OBVIOUS
  <2>2. IsFiniteSet(S)
    BY <2>1, FS_Subset
  <2> HIDE DEF S, T
  <2> QED
    BY <2>1, <2>2, Halves DEF S, T
<1>2. SplitBy({e \in E : e.token = x}, {e \in Q : e.token = x}, {e \in E \ Q : e.token = x})
  <2> DEFINE S == {e \in E : e.token = x}
             T == {e \in Q : e.token = x}
  <2>1. S \subseteq E /\ T \subseteq S /\ {e \in E \ Q : e.token = x} = S \ T
    OBVIOUS
  <2>2. IsFiniteSet(S)
    BY <2>1, FS_Subset
  <2> HIDE DEF S, T
  <2> QED
    BY <2>1, <2>2, Halves DEF S, T
<1>3. SplitBy({e \in E : cb[e.registry] = x}, {e \in Q : cb[e.registry] = x},
              {e \in E \ Q : cb[e.registry] = x})
  <2> DEFINE S == {e \in E : cb[e.registry] = x}
             T == {e \in Q : cb[e.registry] = x}
  <2>1. S \subseteq E /\ T \subseteq S /\ {e \in E \ Q : cb[e.registry] = x} = S \ T
    OBVIOUS
  <2>2. IsFiniteSet(S)
    BY <2>1, FS_Subset
  <2> HIDE DEF S, T
  <2> QED
    BY <2>1, <2>2, Halves DEF S, T
<1> QED
  BY <1>1, <1>2, <1>3 DEF EntriesTo

\* The links of one object change.
LEMMA LinksAt ==
  ASSUME NEW S, IsFiniteSet(S), NEW o \in S, NEW x, NEW lk, NEW lk2, \A p \in S \ {o} : lk2[p] = lk[p]
  PROVE  /\ LinksTo(lk, S, x) \in Nat /\ LinksTo(lk2, S, x) \in Nat
         /\ LinksTo(lk2, S, x) + (IF x \in lk[o] THEN 1 ELSE 0)
              = LinksTo(lk, S, x) + (IF x \in lk2[o] THEN 1 ELSE 0)
<1> DEFINE A == {p \in S : x \in lk[p]}
           B == {p \in S : x \in lk2[p]}
<1>1. A \subseteq S /\ B \subseteq S /\ A \ {o} = B \ {o} /\ (o \in A <=> x \in lk[o])
      /\ (o \in B <=> x \in lk2[o])
  OBVIOUS
<1>2. IsFiniteSet(A) /\ IsFiniteSet(B)
  BY <1>1, FS_Subset
<1>3. LinksTo(lk, S, x) = Cardinality(A) /\ LinksTo(lk2, S, x) = Cardinality(B)
  BY DEF LinksTo
<1> HIDE DEF A, B
<1>4. /\ Cardinality(A \ {o}) = IF o \in A THEN Cardinality(A) - 1 ELSE Cardinality(A)
      /\ Cardinality(B \ {o}) = IF o \in B THEN Cardinality(B) - 1 ELSE Cardinality(B)
      /\ Cardinality(A) \in Nat /\ Cardinality(B) \in Nat
  BY <1>2, FS_RemoveElement, FS_CardinalityType
<1> QED
  BY <1>1, <1>3, <1>4

LEMMA CallbacksAt ==
  ASSUME NEW S, IsFiniteSet(S), NEW o \in S, NEW x, NEW cb, NEW cb2, \A p \in S \ {o} : cb2[p] = cb[p]
  PROVE  /\ CallbacksTo(cb, S, x) \in Nat /\ CallbacksTo(cb2, S, x) \in Nat
         /\ CallbacksTo(cb2, S, x) + (IF cb[o] = x THEN 1 ELSE 0)
              = CallbacksTo(cb, S, x) + (IF cb2[o] = x THEN 1 ELSE 0)
<1> DEFINE A == {p \in S : cb[p] = x}
           B == {p \in S : cb2[p] = x}
<1>1. A \subseteq S /\ B \subseteq S /\ A \ {o} = B \ {o} /\ (o \in A <=> cb[o] = x)
      /\ (o \in B <=> cb2[o] = x)
  OBVIOUS
<1>2. IsFiniteSet(A) /\ IsFiniteSet(B)
  BY <1>1, FS_Subset
<1>3. CallbacksTo(cb, S, x) = Cardinality(A) /\ CallbacksTo(cb2, S, x) = Cardinality(B)
  BY DEF CallbacksTo
<1> HIDE DEF A, B
<1>4. /\ Cardinality(A \ {o}) = IF o \in A THEN Cardinality(A) - 1 ELSE Cardinality(A)
      /\ Cardinality(B \ {o}) = IF o \in B THEN Cardinality(B) - 1 ELSE Cardinality(B)
      /\ Cardinality(A) \in Nat /\ Cardinality(B) \in Nat
  BY <1>2, FS_RemoveElement, FS_CardinalityType
<1> QED
  BY <1>1, <1>3, <1>4

\* What one object counts for.
LEMMA OfOne ==
  ASSUME NEW o, NEW x, NEW lk, NEW cb
  PROVE  /\ LinksTo(lk, {o}, x) = IF x \in lk[o] THEN 1 ELSE 0
         /\ CallbacksTo(cb, {o}, x) = IF cb[o] = x THEN 1 ELSE 0
<1>1. /\ {p \in {o} : x \in lk[p]} = IF x \in lk[o] THEN {o} ELSE {}
      /\ {p \in {o} : cb[p] = x} = IF cb[o] = x THEN {o} ELSE {}
  OBVIOUS
<1>2. Cardinality({o}) = 1 /\ Cardinality({}) = 0
  BY FS_Singleton, FS_EmptySet
<1> QED
  BY <1>1, <1>2 DEF LinksTo, CallbacksTo

LEMMA OneRecord == ASSUME NEW r, NEW x PROVE RecordsTo({r}, x) = IF r.value = x THEN 1 ELSE 0
<1>1. {q \in {r} : q.value = x} = IF r.value = x THEN {r} ELSE {}
  OBVIOUS
<1>2. Cardinality({r}) = 1 /\ Cardinality({}) = 0
  BY FS_Singleton, FS_EmptySet
<1> QED
  BY <1>1, <1>2 DEF RecordsTo

LEMMA PlacesJoined ==
  ASSUME NEW T, NEW s \in Seq(T), NEW t \in Seq(T), NEW P
  PROVE  /\ Cardinality(Places(s, P)) \in Nat /\ Cardinality(Places(t, P)) \in Nat
         /\ Cardinality(Places(s \o t, P)) = Cardinality(Places(s, P)) + Cardinality(Places(t, P))
<1> DEFINE A == Places(s, P)
           B == Places(t, P)
           C == {i \in (Len(s) + 1)..(Len(s) + Len(t)) : t[i - Len(s)] \in P}
           f == [i \in B |-> Len(s) + i]
<1>1. Len(s) \in Nat /\ Len(t) \in Nat /\ s \o t \in Seq(T) /\ Len(s \o t) = Len(s) + Len(t)
      /\ \A i \in 1..(Len(s) + Len(t)) : (s \o t)[i] = IF i <= Len(s) THEN s[i] ELSE t[i - Len(s)]
  OBVIOUS
<1>2. IsFiniteSet(A) /\ IsFiniteSet(B)
  <2>1. IsFiniteSet(1..Len(s)) /\ IsFiniteSet(1..Len(t))
    BY <1>1, FS_Interval
  <2>2. A \subseteq 1..Len(s) /\ B \subseteq 1..Len(t)
    BY DEF Places
  <2> HIDE DEF A, B
  <2> QED
    BY <2>1, <2>2, FS_Subset
<1>3. f \in Bijection(B, C)
  <2>1. B \subseteq 1..Len(t)
    BY DEF Places
  <2>2. \A i \in B : Len(s) + i \in C
    BY <1>1 DEF Places
  <2>3. \A j \in C : j - Len(s) \in B /\ Len(s) + (j - Len(s)) = j
    BY <1>1 DEF Places
  <2>4. \A i \in B : i \in Nat
    BY <1>1, <2>1
  <2> HIDE DEF B, C
  <2>5. f \in [B -> C] /\ \A i \in B : f[i] = Len(s) + i
    BY <2>2
  <2>6. \A i, j \in B : f[i] = f[j] => i = j
    BY <1>1, <2>4, <2>5
  <2>7. \A j \in C : \E i \in B : f[i] = j
    BY <2>3, <2>5
  <2> HIDE DEF f
  <2> QED
    BY <2>5, <2>6, <2>7 DEF Bijection, Injection, Surjection, IsInjective
<1>4. IsFiniteSet(C) /\ Cardinality(C) = Cardinality(B)
  <2>1. ExistsBijection(B, C)
    BY <1>3 DEF ExistsBijection
  <2> HIDE DEF B, C, f
  <2> QED
    BY <1>2, <2>1, FS_Bijection
<1>5. Places(s \o t, P) = A \cup C /\ A \cap C = {}
  <2>1. ASSUME NEW i PROVE i \in Places(s \o t, P) <=> i \in A \/ i \in C
    BY <1>1 DEF Places
  <2>2. ASSUME NEW i \in A, i \in C PROVE FALSE
    BY <1>1, <2>2 DEF Places
  <2> HIDE DEF A, C
  <2> QED
    BY <2>1, <2>2
<1> HIDE DEF A, B, C, f
<1>6. Cardinality(A \cup C) = Cardinality(A) + Cardinality(C) - Cardinality({})
  BY <1>2, <1>4, <1>5, FS_Union
<1>7. Cardinality(A) \in Nat /\ Cardinality(B) \in Nat /\ Cardinality({}) = 0
  BY <1>2, FS_CardinalityType, FS_EmptySet
<1> QED
  BY <1>4, <1>5, <1>6, <1>7 DEF A, B

LEMMA JobsJoined ==
  ASSUME NEW T, NEW s \in Seq(T), NEW t \in Seq(T), NEW x
  PROVE  /\ JobsTo(s, x) \in Nat /\ JobsTo(t, x) \in Nat
         /\ JobsTo(s \o t, x) = JobsTo(s, x) + JobsTo(t, x)
<1> DEFINE P == {j \in T : j.callback = x}
           Q == {j \in T : j.held = x}
<1>1. ASSUME NEW u \in Seq(T)
      PROVE  JobsTo(u, x) = Cardinality(Places(u, P)) + Cardinality(Places(u, Q))
  <2>1. DOMAIN u = 1..Len(u) /\ \A i \in 1..Len(u) : u[i] \in T
    OBVIOUS
  <2>2. /\ {i \in DOMAIN u : u[i].callback = x} = Places(u, P)
        /\ {i \in DOMAIN u : u[i].held = x} = Places(u, Q)
    BY <2>1 DEF Places
  <2> QED
    BY <2>2 DEF JobsTo
<1>2. s \o t \in Seq(T)
  OBVIOUS
<1> HIDE DEF P, Q
<1>3. /\ Cardinality(Places(s, P)) \in Nat /\ Cardinality(Places(t, P)) \in Nat
      /\ Cardinality(Places(s \o t, P)) = Cardinality(Places(s, P)) + Cardinality(Places(t, P))
      /\ Cardinality(Places(s, Q)) \in Nat /\ Cardinality(Places(t, Q)) \in Nat
      /\ Cardinality(Places(s \o t, Q)) = Cardinality(Places(s, Q)) + Cardinality(Places(t, Q))
  BY PlacesJoined
<1>4. /\ JobsTo(s, x) = Cardinality(Places(s, P)) + Cardinality(Places(s, Q))
      /\ JobsTo(t, x) = Cardinality(Places(t, P)) + Cardinality(Places(t, Q))
      /\ JobsTo(s \o t, x) = Cardinality(Places(s \o t, P)) + Cardinality(Places(s \o t, Q))
  BY <1>1, <1>2
<1> QED
  BY <1>3, <1>4

LEMMA JobsReach ==
  ASSUME NEW T, NEW s \in Seq(T), NEW x
  PROVE  /\ JobsTo(s, x) \in Nat
         /\ JobsTo(s, x) > 0 <=> \E i \in 1..Len(s) : s[i].callback = x \/ s[i].held = x
<1> DEFINE A == {i \in DOMAIN s : s[i].callback = x}
           B == {i \in DOMAIN s : s[i].held = x}
<1>1. DOMAIN s = 1..Len(s) /\ Len(s) \in Nat
  OBVIOUS
<1>2. IsFiniteSet(A) /\ IsFiniteSet(B)
  <2>1. IsFiniteSet(1..Len(s))
    BY <1>1, FS_Interval
  <2>2. A \subseteq 1..Len(s) /\ B \subseteq 1..Len(s)
    BY <1>1
  <2> HIDE DEF A, B
  <2> QED
    BY <2>1, <2>2, FS_Subset
<1>3. JobsTo(s, x) = Cardinality(A) + Cardinality(B)
  BY DEF JobsTo
<1>4. (\E i \in A : TRUE) \/ (\E i \in B : TRUE)
        <=> \E i \in 1..Len(s) : s[i].callback = x \/ s[i].held = x
  BY <1>1
<1> HIDE DEF A, B
<1> QED
  BY <1>2, <1>3, <1>4, Counting

LEMMA LinksReach ==
  ASSUME NEW S, IsFiniteSet(S), NEW lk, NEW x
  PROVE  /\ LinksTo(lk, S, x) \in Nat
         /\ LinksTo(lk, S, x) > 0 <=> \E o \in S : x \in lk[o]
<1> DEFINE A == {o \in S : x \in lk[o]}
<1>1. IsFiniteSet(A)
  BY FS_Subset
<1>2. Cardinality(A) \in Nat /\ (Cardinality(A) > 0 <=> \E o \in A : TRUE)
  BY <1>1, Counting
<1> QED
  BY <1>2 DEF LinksTo

LEMMA CallbacksReach ==
  ASSUME NEW S, IsFiniteSet(S), NEW cb, NEW x
  PROVE  /\ CallbacksTo(cb, S, x) \in Nat
         /\ CallbacksTo(cb, S, x) > 0 <=> \E o \in S : cb[o] = x
<1> DEFINE A == {o \in S : cb[o] = x}
<1>1. IsFiniteSet(A)
  BY FS_Subset
<1>2. Cardinality(A) \in Nat /\ (Cardinality(A) > 0 <=> \E o \in A : TRUE)
  BY <1>1, Counting
<1> QED
  BY <1>2 DEF CallbacksTo

LEMMA RecordsReach ==
  ASSUME NEW R, IsFiniteSet(R), NEW x
  PROVE  /\ RecordsTo(R, x) \in Nat
         /\ RecordsTo(R, x) > 0 <=> \E r \in R : r.value = x
<1> DEFINE A == {r \in R : r.value = x}
<1>1. IsFiniteSet(A)
  BY FS_Subset
<1>2. Cardinality(A) \in Nat /\ (Cardinality(A) > 0 <=> \E r \in A : TRUE)
  BY <1>1, Counting
<1> QED
  BY <1>2 DEF RecordsTo

LEMMA EntriesReach ==
  ASSUME NEW E, IsFiniteSet(E), NEW cb, NEW x
  PROVE  /\ EntriesTo(cb, E, x) \in Nat
         /\ EntriesTo(cb, E, x) > 0 <=> \E e \in E : e.held = x \/ e.token = x \/ cb[e.registry] = x
<1> DEFINE A == {e \in E : e.held = x}
           B == {e \in E : e.token = x}
           C == {e \in E : cb[e.registry] = x}
<1>1. IsFiniteSet(A) /\ IsFiniteSet(B) /\ IsFiniteSet(C)
  <2>1. A \subseteq E /\ B \subseteq E /\ C \subseteq E
    OBVIOUS
  <2> HIDE DEF A, B, C
  <2> QED
    BY <2>1, FS_Subset
<1>2. EntriesTo(cb, E, x) = Cardinality(A) + Cardinality(B) + Cardinality(C)
  BY DEF EntriesTo
<1>3. (\E e \in A : TRUE) \/ (\E e \in B : TRUE) \/ (\E e \in C : TRUE)
        <=> \E e \in E : e.held = x \/ e.token = x \/ cb[e.registry] = x
  OBVIOUS
<1>4. /\ Cardinality(A) \in Nat /\ (Cardinality(A) > 0 <=> \E e \in A : TRUE)
      /\ Cardinality(B) \in Nat /\ (Cardinality(B) > 0 <=> \E e \in B : TRUE)
      /\ Cardinality(C) \in Nat /\ (Cardinality(C) > 0 <=> \E e \in C : TRUE)
  BY <1>1, Counting
<1> HIDE DEF A, B, C
<1> QED
  BY <1>2, <1>3, <1>4

\* Entries count the callback of their registry.
LEMMA EntriesKeep ==
  ASSUME NEW E, NEW cb, NEW cb2, NEW x, \A e \in E : cb2[e.registry] = cb[e.registry]
  PROVE  EntriesTo(cb2, E, x) = EntriesTo(cb, E, x)
<1>1. {e \in E : cb2[e.registry] = x} = {e \in E : cb[e.registry] = x}
  OBVIOUS
<1> QED
  BY <1>1 DEF EntriesTo

-----------------------------------------------------------------------------
(* The inductive invariant. *)

Objects == DOMAIN kind
Things == Objects \cup {0}
HeapEntries == [registry : Objects, target : Objects, held : Things, token : Things]
HeapRecords == [map : Objects, key : Objects, value : Objects]
HeapJobs == [callback : Things, held : Things]

HeapTypes ==
  /\ IsFiniteSet(Objects) /\ Objects \subseteq Nat \ {0}
  /\ mem \in [Objects -> {"object", "zombie", "freed"}]
  /\ rc \in [Objects -> Nat]
  /\ roots \subseteq Objects
  /\ links \in [Objects -> SUBSET Objects]
  /\ target \in [Objects -> Things \cup {-1}]
  /\ callback \in [Objects -> Things]
  /\ entries \subseteq HeapEntries /\ IsFiniteSet(entries)
  /\ weakRecords \subseteq HeapRecords /\ IsFiniteSet(weakRecords)
  /\ finJobs \in Seq(HeapJobs)
  /\ phase \in {"run", "free", "sweep"}
  /\ pending \subseteq Objects /\ garbage \subseteq Objects

\* A count is the number of references.
Total(x) == RefsTo(roots, links, weakRecords, callback, entries, finJobs, Objects, x)
Counted == \A x \in Objects : rc[x] = Total(x)

\* What is no object any more holds nothing and is held weakly by nothing.
Holders ==
  /\ \A o \in Objects : mem[o] # "object" => links[o] = {} /\ callback[o] = 0
  /\ \A o \in Objects : mem[o] = "freed" => rc[o] = 0
  /\ \A w \in Objects : target[w] \in Objects => mem[target[w]] = "object"
  /\ \A r \in weakRecords : mem[r.key] = "object" /\ mem[r.map] = "object"
  /\ \A e \in entries : mem[e.target] = "object" /\ mem[e.registry] = "object"

\* What is to be freed.
Phases ==
  /\ phase # "sweep" => garbage = {} /\ \A x \in pending : mem[x] = "object" /\ rc[x] = 0
  /\ phase = "run" => pending = {}
  /\ phase = "sweep" => pending \subseteq garbage /\ \A x \in garbage : mem[x] = "object" <=> x \in pending
  /\ \A x \in Objects : mem[x] = "zombie" => x \in garbage

\* Nothing outside the garbage refers to it.
Apart ==
  /\ roots \cap garbage = {}
  /\ \A i \in 1..Len(finJobs) : finJobs[i].callback \notin garbage /\ finJobs[i].held \notin garbage
  /\ \A o \in Objects \ garbage : links[o] \cap garbage = {} /\ callback[o] \notin garbage
  /\ \A r \in weakRecords : r.key \notin garbage => r.value \notin garbage
  /\ \A e \in entries : e.registry \notin garbage => e.held \notin garbage /\ e.token \notin garbage

HeapInv == HeapTypes /\ Counted /\ Holders /\ Phases /\ Apart

\* An object is counted exactly if something refers to it.
LEMMA Referred ==
  ASSUME HeapTypes, NEW x
  PROVE  /\ Total(x) \in Nat
         /\ LinksTo(links, Objects, x) \in Nat /\ RecordsTo(weakRecords, x) \in Nat
         /\ EntriesTo(callback, entries, x) \in Nat /\ CallbacksTo(callback, Objects, x) \in Nat
         /\ JobsTo(finJobs, x) \in Nat
         /\ Total(x) > 0 <=>
              \/ x \in roots
              \/ \E o \in Objects : x \in links[o] \/ callback[o] = x
              \/ \E r \in weakRecords : r.value = x
              \/ \E e \in entries : e.held = x \/ e.token = x \/ callback[e.registry] = x
              \/ \E i \in 1..Len(finJobs) : finJobs[i].callback = x \/ finJobs[i].held = x
<1>1. /\ LinksTo(links, Objects, x) \in Nat
      /\ LinksTo(links, Objects, x) > 0 <=> \E o \in Objects : x \in links[o]
      /\ CallbacksTo(callback, Objects, x) \in Nat
      /\ CallbacksTo(callback, Objects, x) > 0 <=> \E o \in Objects : callback[o] = x
      /\ RecordsTo(weakRecords, x) \in Nat
      /\ RecordsTo(weakRecords, x) > 0 <=> \E r \in weakRecords : r.value = x
      /\ EntriesTo(callback, entries, x) \in Nat
      /\ EntriesTo(callback, entries, x) > 0 <=>
           \E e \in entries : e.held = x \/ e.token = x \/ callback[e.registry] = x
  <2>1. IsFiniteSet(Objects) /\ IsFiniteSet(weakRecords) /\ IsFiniteSet(entries)
    BY DEF HeapTypes
  <2> QED
    BY <2>1, LinksReach, CallbacksReach, RecordsReach, EntriesReach
<1>2. /\ JobsTo(finJobs, x) \in Nat
      /\ JobsTo(finJobs, x) > 0 <=>
           \E i \in 1..Len(finJobs) : finJobs[i].callback = x \/ finJobs[i].held = x
  BY JobsReach DEF HeapTypes
<1>3. Total(x) = (IF x \in roots THEN 1 ELSE 0) + LinksTo(links, Objects, x) + RecordsTo(weakRecords, x)
        + EntriesTo(callback, entries, x) + CallbacksTo(callback, Objects, x) + JobsTo(finJobs, x)
  BY DEF Total, RefsTo
<1>4. (\E o \in Objects : x \in links[o] \/ callback[o] = x)
        <=> (\E o \in Objects : x \in links[o]) \/ (\E o \in Objects : callback[o] = x)
  OBVIOUS
<1> QED
  BY <1>1, <1>2, <1>3, <1>4

LEMMA RefsAre == ASSUME NEW x PROVE Heap!Refs(x) = Total(x)
BY HeapSame DEF Heap!Refs, Heap!FromLinks, Heap!FromRecords, Heap!FromEntries, Heap!FromCallbacks,
   Heap!FromJobs, Heap!Objs, Total, RefsTo, LinksTo, RecordsTo, EntriesTo, CallbacksTo, JobsTo, Objects

\* What a script starts with.
LEMMA HeapStarts == ASSUME Heap!Init PROVE HeapInv
<1>1. PICK p \in Populations :
        /\ kind = [o \in DOMAIN p |-> p[o].kind]
        /\ mem = [o \in DOMAIN p |-> "object"]
        /\ target = [o \in DOMAIN p |-> IF p[o].kind = "weakref" THEN p[o].of ELSE 0]
        /\ callback = [o \in DOMAIN p |-> IF p[o].kind = "registry" THEN p[o].of ELSE 0]
        /\ roots = DOMAIN p
        /\ rc = [o \in DOMAIN p |-> 1 + Cardinality({f \in DOMAIN p : callback[f] = o})]
        /\ links = [o \in DOMAIN p |-> {}]
        /\ entries = {} /\ weakRecords = {} /\ finJobs = <<>>
        /\ phase = "run" /\ pending = {} /\ garbage = {}
  BY HeapSame DEF Heap!Init, Heap!None
<1>2. /\ p \in Seq([kind : Heap!Kinds, of : Nat])
      /\ \A o \in DOMAIN p : p[o].of \in (IF p[o].kind \in {"weakref", "registry"} THEN DOMAIN p ELSE {0})
  BY ControlAssumption DEF Heap!PopulationsAssumption
<1>3. DOMAIN p = 1..Len(p) /\ Len(p) \in Nat /\ Objects = DOMAIN p
  BY <1>1, <1>2 DEF Objects
<1>4. IsFiniteSet(Objects) /\ Objects \subseteq Nat \ {0}
  <2>1. IsFiniteSet(1..Len(p))
    BY <1>3, FS_Interval
  <2> QED
    BY <1>3, <2>1
<1>5. \A o \in Objects : rc[o] = 1 + CallbacksTo(callback, Objects, o)
  BY <1>1, <1>3 DEF CallbacksTo
<1>6. \A o \in Objects : CallbacksTo(callback, Objects, o) \in Nat
  BY <1>4, CallbacksReach
<1>7. HeapTypes
  <2>1. target \in [Objects -> Things \cup {-1}] /\ callback \in [Objects -> Things]
    BY <1>1, <1>2, <1>3 DEF Things
  <2>2. rc \in [Objects -> Nat]
    <3>1. \A o \in Objects : rc[o] \in Nat
      BY <1>5, <1>6
    <3>2. rc = [o \in Objects |-> rc[o]]
      BY <1>1, <1>3
    <3> QED
      BY <3>1, <3>2
  <2>3. IsFiniteSet(entries) /\ IsFiniteSet(weakRecords) /\ finJobs \in Seq(HeapJobs)
    BY <1>1, FS_EmptySet
  <2> QED
    BY <1>1, <1>3, <1>4, <2>1, <2>2, <2>3 DEF HeapTypes
<1>8. ASSUME NEW x \in Objects PROVE rc[x] = Total(x)
  <2>1. /\ ~(\E o \in Objects : x \in links[o]) /\ ~(\E r \in weakRecords : r.value = x)
        /\ ~(\E e \in entries : e.held = x \/ e.token = x \/ callback[e.registry] = x)
        /\ ~(\E i \in 1..Len(finJobs) : finJobs[i].callback = x \/ finJobs[i].held = x)
    BY <1>1, <1>3
  <2>2. IsFiniteSet(Objects) /\ IsFiniteSet(weakRecords) /\ IsFiniteSet(entries)
        /\ finJobs \in Seq(HeapJobs)
    BY <1>7 DEF HeapTypes
  <2>3. LinksTo(links, Objects, x) \in Nat /\ ~(LinksTo(links, Objects, x) > 0)
    BY <2>1, <2>2, LinksReach
  <2>4. RecordsTo(weakRecords, x) \in Nat /\ ~(RecordsTo(weakRecords, x) > 0)
    BY <2>1, <2>2, RecordsReach
  <2>5. EntriesTo(callback, entries, x) \in Nat /\ ~(EntriesTo(callback, entries, x) > 0)
    BY <2>1, <2>2, EntriesReach
  <2>6. JobsTo(finJobs, x) \in Nat /\ ~(JobsTo(finJobs, x) > 0)
    BY <2>1, <2>2, JobsReach
  <2>7. x \in roots /\ rc[x] = 1 + CallbacksTo(callback, Objects, x)
        /\ CallbacksTo(callback, Objects, x) \in Nat
    BY <1>1, <1>3, <1>5, <1>6
  <2> QED
    BY <2>3, <2>4, <2>5, <2>6, <2>7 DEF Total, RefsTo
<1>9. Holders /\ Phases /\ Apart
  BY <1>1, <1>2, <1>3 DEF Holders, Phases, Apart
<1> QED
  BY <1>7, <1>8, <1>9 DEF HeapInv, Counted

-----------------------------------------------------------------------------
(* JavaScript runs. *)

LEMMA RefsCounted ==
  ASSUME NEW S, IsFiniteSet(S), NEW R, IsFiniteSet(R), NEW E, IsFiniteSet(E), NEW T, NEW js \in Seq(T),
         NEW rt, NEW lk, NEW cb, NEW x
  PROVE  RefsTo(rt, lk, R, cb, E, js, S, x) \in Nat
<1>1. LinksTo(lk, S, x) \in Nat /\ CallbacksTo(cb, S, x) \in Nat
  BY LinksReach, CallbacksReach
<1>2. RecordsTo(R, x) \in Nat /\ EntriesTo(cb, E, x) \in Nat
  BY RecordsReach, EntriesReach
<1>3. JobsTo(js, x) \in Nat
  BY JobsReach
<1> QED
  BY <1>1, <1>2, <1>3 DEF RefsTo

LEMMA FromAre ==
  ASSUME NEW S, NEW x
  PROVE  /\ Heap!FromLinks(S, x) = LinksTo(links, S, x)
         /\ Heap!FromRecords(S, x) = RecordsTo(S, x)
         /\ Heap!FromEntries(S, x) = EntriesTo(callback, S, x)
         /\ Heap!FromCallbacks(S, x) = CallbacksTo(callback, S, x)
         /\ Heap!FromJobs(S, x) = JobsTo(S, x)
BY HeapSame DEF Heap!FromLinks, Heap!FromRecords, Heap!FromEntries, Heap!FromCallbacks, Heap!FromJobs,
   LinksTo, RecordsTo, EntriesTo, CallbacksTo, JobsTo

\* What is referred to is an object, unless it is being swept.
LEMMA Alive ==
  ASSUME HeapInv, NEW x \in Objects
  PROVE  /\ rc[x] \in Nat
         /\ rc[x] > 0 /\ x \notin garbage => mem[x] = "object"
         /\ rc[x] > 0 <=>
              \/ x \in roots
              \/ \E o \in Objects : x \in links[o] \/ callback[o] = x
              \/ \E r \in weakRecords : r.value = x
              \/ \E e \in entries : e.held = x \/ e.token = x \/ callback[e.registry] = x
              \/ \E i \in 1..Len(finJobs) : finJobs[i].callback = x \/ finJobs[i].held = x
<1>1. HeapTypes /\ Counted /\ Holders /\ Phases
  BY DEF HeapInv
<1>2. rc[x] \in Nat /\ mem[x] \in {"object", "zombie", "freed"}
  BY <1>1 DEF HeapTypes
<1>3. rc[x] > 0 /\ x \notin garbage => mem[x] = "object"
  BY <1>1, <1>2 DEF Holders, Phases
<1>4. rc[x] = Total(x)
  BY <1>1 DEF Counted
<1> QED
  BY <1>1, <1>2, <1>3, <1>4, Referred

\* The counts, in parts.
LEMMA Parts ==
  ASSUME HeapInv, NEW x \in Objects
  PROVE  /\ rc[x] = (IF x \in roots THEN 1 ELSE 0) + LinksTo(links, Objects, x) + RecordsTo(weakRecords, x)
                      + EntriesTo(callback, entries, x) + CallbacksTo(callback, Objects, x)
                      + JobsTo(finJobs, x)
         /\ LinksTo(links, Objects, x) \in Nat /\ RecordsTo(weakRecords, x) \in Nat
         /\ EntriesTo(callback, entries, x) \in Nat /\ CallbacksTo(callback, Objects, x) \in Nat
         /\ JobsTo(finJobs, x) \in Nat
<1>1. HeapTypes /\ rc[x] = Total(x)
  BY DEF HeapInv, Counted
<1> QED
  BY <1>1, Referred DEF Total, RefsTo

\* A step of JavaScript: counts follow the references, and references are to objects.
LEMMA RunStep ==
  ASSUME HeapInv, phase = "run", UNCHANGED <<kind, mem, target, callback, garbage>>,
         roots' \subseteq Objects, links' \in [Objects -> SUBSET Objects],
         \A o \in Objects : links'[o] # {} => mem[o] = "object",
         entries' \subseteq HeapEntries, IsFiniteSet(entries'),
         \A e \in entries' : mem[e.target] = "object" /\ mem[e.registry] = "object",
         weakRecords' \subseteq HeapRecords, IsFiniteSet(weakRecords'),
         \A r \in weakRecords' : mem[r.key] = "object" /\ mem[r.map] = "object",
         finJobs' \in Seq(HeapJobs),
         rc' = [x \in Objects |-> rc'[x]],
         \A x \in Objects :
           rc'[x] = RefsTo(roots', links', weakRecords', callback, entries', finJobs', Objects, x),
         \A x \in Objects : rc'[x] > rc[x] => mem[x] = "object",
         phase' \in {"run", "free"}, phase' = "run" => pending' = {},
         pending' \subseteq {x \in Objects : rc'[x] = 0 /\ rc[x] > 0}
  PROVE  HeapInv'
<1>1. HeapTypes /\ Holders /\ Phases /\ garbage = {}
  BY DEF HeapInv, Phases
<1>2. Objects' = Objects /\ Things' = Things
  BY DEF Objects, Things
<1>3. HeapEntries' = HeapEntries /\ HeapRecords' = HeapRecords /\ HeapJobs' = HeapJobs
  BY <1>2 DEF HeapEntries, HeapRecords, HeapJobs
<1>4. IsFiniteSet(Objects)
  BY <1>1 DEF HeapTypes
<1>5. \A x \in Objects : rc'[x] \in Nat
  BY <1>4, RefsCounted
<1>6. rc' \in [Objects -> Nat]
  BY <1>5
<1>7. HeapTypes'
  BY <1>1, <1>2, <1>3, <1>6 DEF HeapTypes
<1>8. Counted'
  BY <1>2 DEF Counted, Total
<1>9. \A o \in Objects : mem[o] # "object" => links'[o] = {}
  OBVIOUS
<1>10. ASSUME NEW o \in Objects, mem[o] = "freed" PROVE rc'[o] = 0
  <2>1. rc[o] = 0 /\ ~(rc'[o] > rc[o]) /\ rc'[o] \in Nat
    BY <1>1, <1>5, <1>10 DEF Holders
  <2> QED
    BY <2>1
<1>11. Holders'
  BY <1>1, <1>2, <1>9, <1>10 DEF Holders
<1>12. ASSUME NEW x \in pending' PROVE mem[x] = "object" /\ rc'[x] = 0
  <2>1. x \in Objects /\ rc'[x] = 0 /\ rc[x] > 0
    OBVIOUS
  <2> QED
    BY <1>1, <2>1, Alive
<1>13. Phases'
  BY <1>1, <1>2, <1>12 DEF Phases
<1>14. Apart'
  BY <1>1 DEF Apart
<1> QED
  BY <1>7, <1>8, <1>11, <1>13, <1>14 DEF HeapInv

\* What RunStep needs of what stays.
LEMMA Before ==
  ASSUME HeapInv, phase = "run"
  PROVE  /\ IsFiniteSet(Objects) /\ 0 \notin Objects
         /\ roots \subseteq Objects /\ links \in [Objects -> SUBSET Objects]
         /\ \A o \in Objects : links[o] # {} => mem[o] = "object"
         /\ entries \subseteq HeapEntries /\ IsFiniteSet(entries)
         /\ \A e \in entries : mem[e.target] = "object" /\ mem[e.registry] = "object"
         /\ weakRecords \subseteq HeapRecords /\ IsFiniteSet(weakRecords)
         /\ \A r \in weakRecords : mem[r.key] = "object" /\ mem[r.map] = "object"
         /\ finJobs \in Seq(HeapJobs) /\ pending = {} /\ garbage = {}
         /\ rc \in [Objects -> Nat]
         /\ \A x \in roots : mem[x] = "object"
<1>1. HeapTypes /\ Holders /\ Phases
  BY DEF HeapInv
<1>2. roots \subseteq Objects /\ garbage = {}
  BY <1>1 DEF HeapTypes, Phases
<1>3. \A x \in roots : mem[x] = "object"
  BY <1>2, Alive
<1> QED
  BY <1>1, <1>3 DEF HeapTypes, Holders, Phases

LEMMA CountAt ==
  ASSUME NEW S, NEW f \in [S -> Nat], NEW b \in S
  PROVE  /\ [f EXCEPT ![b] = @ + 1] = [x \in S |-> [f EXCEPT ![b] = @ + 1][x]]
         /\ \A x \in S : [f EXCEPT ![b] = @ + 1][x] = f[x] + (IF x = b THEN 1 ELSE 0)
         /\ [f EXCEPT ![b] = @ - 1] = [x \in S |-> [f EXCEPT ![b] = @ - 1][x]]
         /\ \A x \in S : [f EXCEPT ![b] = @ - 1][x] = f[x] - (IF x = b THEN 1 ELSE 0)
<1>1. ASSUME NEW g \in [S -> Int] PROVE g = [x \in S |-> g[x]]
  OBVIOUS
<1>2. [f EXCEPT ![b] = @ + 1] \in [S -> Int] /\ [f EXCEPT ![b] = @ - 1] \in [S -> Int]
  OBVIOUS
<1>3. \A x \in S : [f EXCEPT ![b] = @ + 1][x] = f[x] + (IF x = b THEN 1 ELSE 0)
  OBVIOUS
<1>4. \A x \in S : [f EXCEPT ![b] = @ - 1][x] = f[x] - (IF x = b THEN 1 ELSE 0)
  OBVIOUS
<1> QED
  BY <1>1, <1>2, <1>3, <1>4

LEMMA LinkStep ==
  ASSUME HeapInv, NEW a \in Objects, NEW b \in Objects, Heap!Link(a, b)
  PROVE  HeapInv'
<1>1. /\ phase = "run" /\ a \in roots /\ b \in roots /\ b \notin links[a]
      /\ links' = [links EXCEPT ![a] = @ \union {b}]
      /\ rc' = [rc EXCEPT ![b] = @ + 1]
      /\ UNCHANGED <<kind, mem, roots, target, callback, entries, weakRecords, finJobs, phase,
                     pending, garbage>>
  BY DEF Heap!Link, Heap!Runs
<1>2. /\ links' \in [Objects -> SUBSET Objects]
      /\ rc' = [x \in Objects |-> rc'[x]]
      /\ \A x \in Objects : rc'[x] = rc[x] + (IF x = b THEN 1 ELSE 0)
  <2>1. links \in [Objects -> SUBSET Objects] /\ rc \in [Objects -> Nat]
    BY <1>1, Before
  <2>2. links' \in [Objects -> SUBSET Objects]
    BY <1>1, <2>1
  <2> QED
    BY <1>1, <2>1, <2>2, CountAt
<1>3. \A o \in Objects \ {a} : links'[o] = links[o]
  BY <1>1, Before
<1>4. \A o \in Objects : links'[o] # {} => mem[o] = "object"
  BY <1>1, <1>3, Before
<1>5. ASSUME NEW x \in Objects
      PROVE  /\ rc'[x] = RefsTo(roots', links', weakRecords', callback, entries', finJobs', Objects, x)
             /\ rc'[x] > rc[x] => mem[x] = "object"
  <2>1. LinksTo(links', Objects, x) \in Nat
        /\ LinksTo(links', Objects, x) + (IF x \in links[a] THEN 1 ELSE 0)
             = LinksTo(links, Objects, x) + (IF x \in links'[a] THEN 1 ELSE 0)
    <3>1. IsFiniteSet(Objects)
      BY <1>1, Before
    <3> QED
      BY <1>3, <3>1, LinksAt
  <2>2. links'[a] = links[a] \cup {b}
    BY <1>1, Before
  <2>3. rc'[x] = rc[x] + (IF x = b THEN 1 ELSE 0)
    BY <1>2
  <2>4. LinksTo(links', Objects, x) = LinksTo(links, Objects, x) + (IF x = b THEN 1 ELSE 0)
    <3>1. LinksTo(links, Objects, x) \in Nat
      BY Parts
    <3>2. CASE x = b
      BY <1>1, <2>1, <2>2, <3>1, <3>2
    <3>3. CASE x # b
      BY <1>1, <2>1, <2>2, <3>1, <3>3
    <3> QED
      BY <3>2, <3>3
  <2>5. rc'[x] = RefsTo(roots', links', weakRecords', callback, entries', finJobs', Objects, x)
    BY <1>1, <2>3, <2>4, Parts DEF RefsTo
  <2> QED
    <3>1. rc[x] \in Nat /\ mem[b] = "object"
      BY <1>1, Before, Parts
    <3> QED
      BY <2>3, <2>5, <3>1
<1> QED
  BY <1>1, <1>2, <1>4, <1>5, Before, RunStep

LEMMA UnlinkStep ==
  ASSUME HeapInv, NEW a \in Objects, NEW b \in Objects, Heap!Unlink(a, b)
  PROVE  HeapInv'
<1>1. /\ phase = "run" /\ a \in roots /\ b \in links[a]
      /\ links' = [links EXCEPT ![a] = @ \ {b}]
      /\ rc' = [rc EXCEPT ![b] = @ - 1]
      /\ pending' = {x \in Objects : rc'[x] = 0 /\ rc[x] > 0}
      /\ phase' = IF pending' = {} THEN "run" ELSE "free"
      /\ UNCHANGED <<kind, mem, roots, target, callback, entries, weakRecords, finJobs, garbage>>
  BY DEF Heap!Unlink, Heap!Runs, Heap!FreeValues, Heap!Objs, Objects
<1>2. /\ links' \in [Objects -> SUBSET Objects]
      /\ rc' = [x \in Objects |-> rc'[x]]
      /\ \A x \in Objects : rc'[x] = rc[x] - (IF x = b THEN 1 ELSE 0)
  <2>1. links \in [Objects -> SUBSET Objects] /\ rc \in [Objects -> Nat]
    BY <1>1, Before
  <2>2. links' \in [Objects -> SUBSET Objects]
    BY <1>1, <2>1
  <2> QED
    BY <1>1, <2>1, <2>2, CountAt
<1>3. \A o \in Objects \ {a} : links'[o] = links[o]
  BY <1>1, Before
<1>4. \A o \in Objects : links'[o] # {} => mem[o] = "object"
  BY <1>1, <1>3, Before
<1>5. ASSUME NEW x \in Objects
      PROVE  /\ rc'[x] = RefsTo(roots', links', weakRecords', callback, entries', finJobs', Objects, x)
             /\ rc'[x] > rc[x] => mem[x] = "object"
  <2>1. LinksTo(links', Objects, x) \in Nat
        /\ LinksTo(links', Objects, x) + (IF x \in links[a] THEN 1 ELSE 0)
             = LinksTo(links, Objects, x) + (IF x \in links'[a] THEN 1 ELSE 0)
    <3>1. IsFiniteSet(Objects)
      BY <1>1, Before
    <3> QED
      BY <1>3, <3>1, LinksAt
  <2>2. links'[a] = links[a] \ {b}
    BY <1>1, Before
  <2>3. rc'[x] = rc[x] - (IF x = b THEN 1 ELSE 0)
    BY <1>2
  <2>4. LinksTo(links', Objects, x) = LinksTo(links, Objects, x) - (IF x = b THEN 1 ELSE 0)
    <3>1. LinksTo(links, Objects, x) \in Nat
      BY Parts
    <3>2. CASE x = b
      BY <1>1, <2>1, <2>2, <3>1, <3>2
    <3>3. CASE x # b
      BY <1>1, <2>1, <2>2, <3>1, <3>3
    <3> QED
      BY <3>2, <3>3
  <2>5. rc'[x] = RefsTo(roots', links', weakRecords', callback, entries', finJobs', Objects, x)
    BY <1>1, <2>3, <2>4, Parts DEF RefsTo
  <2> QED
    BY <2>3, <2>5, Parts
<1> QED
  BY <1>1, <1>2, <1>4, <1>5, Before, RunStep

LEMMA LoadStep ==
  ASSUME HeapInv, NEW a \in Objects, NEW b \in Objects, Heap!Load(a, b)
  PROVE  HeapInv'
<1>1. /\ phase = "run" /\ a \in roots /\ b \notin roots
      /\ \/ b \in links[a]
         \/ target[a] = b
         \/ \E r \in weakRecords : r.map = a /\ r.key \in roots /\ r.value = b
      /\ roots' = roots \cup {b}
      /\ rc' = [rc EXCEPT ![b] = @ + 1]
      /\ UNCHANGED <<kind, mem, links, target, callback, entries, weakRecords, finJobs, phase,
                     pending, garbage>>
  BY DEF Heap!Load, Heap!Runs, Heap!Dup
<1>2. /\ rc' = [x \in Objects |-> rc'[x]]
      /\ \A x \in Objects : rc'[x] = rc[x] + (IF x = b THEN 1 ELSE 0)
  <2>1. rc \in [Objects -> Nat]
    BY <1>1, Before
  <2> QED
    BY <1>1, <2>1, CountAt
<1>3. mem[b] = "object"
  <2>1. CASE target[a] = b
    BY <2>1 DEF HeapInv, Holders
  <2>2. CASE target[a] # b
    BY <1>1, <2>2, Alive, Before
  <2> QED
    BY <2>1, <2>2
<1>4. ASSUME NEW x \in Objects
      PROVE  /\ rc'[x] = RefsTo(roots', links', weakRecords', callback, entries', finJobs', Objects, x)
             /\ rc'[x] > rc[x] => mem[x] = "object"
  <2>1. rc'[x] = rc[x] + (IF x = b THEN 1 ELSE 0)
    BY <1>2
  <2>2. rc'[x] = RefsTo(roots', links', weakRecords', callback, entries', finJobs', Objects, x)
    BY <1>1, <2>1, Parts DEF RefsTo
  <2> QED
    BY <1>3, <2>1, <2>2, Parts
<1> QED
  BY <1>1, <1>2, <1>4, Before, RunStep

LEMMA ForgetStep ==
  ASSUME HeapInv, NEW o \in Objects, Heap!Forget(o)
  PROVE  HeapInv'
<1>1. /\ phase = "run" /\ o \in roots
      /\ roots' = roots \ {o}
      /\ rc' = [rc EXCEPT ![o] = @ - 1]
      /\ pending' = {x \in Objects : rc'[x] = 0 /\ rc[x] > 0}
      /\ phase' = IF pending' = {} THEN "run" ELSE "free"
      /\ UNCHANGED <<kind, mem, links, target, callback, entries, weakRecords, finJobs, garbage>>
  BY DEF Heap!Forget, Heap!Runs, Heap!FreeValues, Heap!Objs, Objects
<1>2. /\ rc' = [x \in Objects |-> rc'[x]]
      /\ \A x \in Objects : rc'[x] = rc[x] - (IF x = o THEN 1 ELSE 0)
  <2>1. rc \in [Objects -> Nat]
    BY <1>1, Before
  <2> QED
    BY <1>1, <2>1, CountAt
<1>3. ASSUME NEW x \in Objects
      PROVE  /\ rc'[x] = RefsTo(roots', links', weakRecords', callback, entries', finJobs', Objects, x)
             /\ rc'[x] > rc[x] => mem[x] = "object"
  <2>1. rc'[x] = rc[x] - (IF x = o THEN 1 ELSE 0)
    BY <1>2
  <2>2. rc'[x] = RefsTo(roots', links', weakRecords', callback, entries', finJobs', Objects, x)
    BY <1>1, <2>1, Parts DEF RefsTo
  <2> QED
    BY <2>1, <2>2, Parts
<1> QED
  BY <1>1, <1>2, <1>3, Before, RunStep

LEMMA MapSetStep ==
  ASSUME HeapInv, NEW m \in roots, NEW k \in roots, NEW v \in roots, Heap!MapSet(m, k, v)
  PROVE  HeapInv'
<1> DEFINE r0 == [map |-> m, key |-> k, value |-> v]
<1>1. PICK old : old = {r \in weakRecords : r.map = m /\ r.key = k}
  OBVIOUS
<1>2. /\ phase = "run"
      /\ weakRecords' = (weakRecords \ old) \cup {r0}
      /\ rc' = [x \in Objects |-> rc[x] - RecordsTo(old, x) + (IF x = v THEN 1 ELSE 0)]
      /\ pending' = {x \in Objects : rc'[x] = 0 /\ rc[x] > 0}
      /\ phase' = IF pending' = {} THEN "run" ELSE "free"
      /\ UNCHANGED <<kind, mem, roots, links, target, callback, entries, finJobs, garbage>>
  BY <1>1, FromAre DEF Heap!MapSet, Heap!Runs, Heap!FreeValues, Heap!Objs, Objects
<1>3. {m, k, v} \subseteq Objects /\ mem[m] = "object" /\ mem[k] = "object" /\ mem[v] = "object"
  BY <1>2, Before
<1>4. r0 \in HeapRecords /\ r0.map = m /\ r0.key = k /\ r0.value = v
  BY <1>3 DEF HeapRecords
<1>5. r0 \notin weakRecords \ old
  BY <1>1, <1>4
<1> HIDE DEF r0
<1>6. /\ weakRecords' \subseteq HeapRecords
      /\ \A r \in weakRecords' : mem[r.key] = "object" /\ mem[r.map] = "object"
  BY <1>2, <1>3, <1>4, Before
<1>7. IsFiniteSet(weakRecords') /\ old \subseteq weakRecords
  <2>1. IsFiniteSet(weakRecords \ old)
    BY <1>2, Before, FS_Difference
  <2> QED
    BY <1>1, <1>2, <2>1, FS_AddElement
<1>8. ASSUME NEW x \in Objects
      PROVE  /\ rc'[x] = RefsTo(roots', links', weakRecords', callback, entries', finJobs', Objects, x)
             /\ rc'[x] > rc[x] => mem[x] = "object"
  <2>1. rc'[x] = rc[x] - RecordsTo(old, x) + (IF x = v THEN 1 ELSE 0)
    BY <1>2
  <2>2. /\ RecordsTo(weakRecords, x) = RecordsTo(weakRecords \ old, x) + RecordsTo(old, x)
        /\ RecordsTo(weakRecords \ old, x) \in Nat /\ RecordsTo(old, x) \in Nat
    BY <1>2, <1>7, Before, SplitRecords
  <2>3. weakRecords' \ {r0} = weakRecords \ old /\ {r0} \subseteq weakRecords'
    BY <1>2, <1>5
  <2>4. RecordsTo(weakRecords', x) = RecordsTo(weakRecords \ old, x) + RecordsTo({r0}, x)
    BY <1>7, <2>3, SplitRecords
  <2>5. RecordsTo({r0}, x) = IF v = x THEN 1 ELSE 0
    BY <1>4, OneRecord
  <2>6. rc'[x] = RefsTo(roots', links', weakRecords', callback, entries', finJobs', Objects, x)
    BY <1>2, <2>1, <2>2, <2>4, <2>5, Parts DEF RefsTo
  <2> QED
    BY <1>3, <2>1, <2>2, <2>6, Parts
<1> QED
  BY <1>2, <1>6, <1>7, <1>8, Before, RunStep

LEMMA MapDeleteStep ==
  ASSUME HeapInv, NEW r \in weakRecords, Heap!MapDelete(r)
  PROVE  HeapInv'
<1>1. /\ phase = "run"
      /\ weakRecords' = weakRecords \ {r}
      /\ rc' = [x \in Objects |-> rc[x] - RecordsTo({r}, x)]
      /\ pending' = {x \in Objects : rc'[x] = 0 /\ rc[x] > 0}
      /\ phase' = IF pending' = {} THEN "run" ELSE "free"
      /\ UNCHANGED <<kind, mem, roots, links, target, callback, entries, finJobs, garbage>>
  BY FromAre DEF Heap!MapDelete, Heap!Runs, Heap!FreeValues, Heap!Objs, Objects
<1>2. /\ weakRecords' \subseteq HeapRecords
      /\ \A q \in weakRecords' : mem[q.key] = "object" /\ mem[q.map] = "object"
  BY <1>1, Before
<1>3. IsFiniteSet(weakRecords')
  BY <1>1, Before, FS_RemoveElement
<1>4. ASSUME NEW x \in Objects
      PROVE  /\ rc'[x] = RefsTo(roots', links', weakRecords', callback, entries', finJobs', Objects, x)
             /\ rc'[x] > rc[x] => mem[x] = "object"
  <2>1. rc'[x] = rc[x] - RecordsTo({r}, x)
    BY <1>1
  <2>2. /\ RecordsTo(weakRecords, x) = RecordsTo(weakRecords', x) + RecordsTo({r}, x)
        /\ RecordsTo(weakRecords', x) \in Nat /\ RecordsTo({r}, x) \in Nat
    <3>1. IsFiniteSet(weakRecords) /\ {r} \in SUBSET weakRecords
      BY <1>1, Before
    <3> QED
      BY <1>1, <3>1, SplitRecords
  <2>3. rc'[x] = RefsTo(roots', links', weakRecords', callback, entries', finJobs', Objects, x)
    <3>1. roots' = roots /\ links' = links /\ entries' = entries /\ finJobs' = finJobs
      BY <1>1
    <3>2. rc'[x] = (IF x \in roots THEN 1 ELSE 0) + LinksTo(links, Objects, x) + RecordsTo(weakRecords', x)
                    + EntriesTo(callback, entries, x) + CallbacksTo(callback, Objects, x)
                    + JobsTo(finJobs, x)
      BY <2>1, <2>2, Parts
    <3> QED
      BY <3>1, <3>2 DEF RefsTo
  <2> QED
    BY <2>1, <2>2, <2>3, Parts
<1> QED
  BY <1>1, <1>2, <1>3, <1>4, Before, RunStep

LEMMA RegisterStep ==
  ASSUME HeapInv, NEW f \in roots, NEW t \in roots, NEW h \in roots \cup {0}, NEW k \in roots \cup {0},
         Heap!Register([registry |-> f, target |-> t, held |-> h, token |-> k])
  PROVE  HeapInv'
<1>1. PICK e0 : e0 = [registry |-> f, target |-> t, held |-> h, token |-> k]
  OBVIOUS
<1>2. /\ phase = "run" /\ e0 \notin entries
      /\ entries' = entries \cup {e0}
      /\ rc' = [x \in Objects |-> rc[x] + EntriesTo(callback, {e0}, x)]
      /\ UNCHANGED <<kind, mem, roots, links, target, callback, weakRecords, finJobs, phase,
                     pending, garbage>>
  BY <1>1, FromAre DEF Heap!Register, Heap!Runs, Heap!Objs, Objects
<1>3. {f, t} \subseteq Objects /\ mem[f] = "object" /\ mem[t] = "object" /\ {h, k} \subseteq Things
  BY <1>2, Before DEF Things
<1>4. /\ e0 \in HeapEntries /\ e0.registry = f /\ e0.target = t /\ e0.held = h /\ e0.token = k
  BY <1>1, <1>3 DEF HeapEntries
<1>5. /\ entries' \subseteq HeapEntries
      /\ \A e \in entries' : mem[e.target] = "object" /\ mem[e.registry] = "object"
  BY <1>2, <1>3, <1>4, Before
<1>6. IsFiniteSet(entries') /\ IsFiniteSet({e0})
  <2>1. IsFiniteSet(entries)
    BY <1>2, Before
  <2> QED
    BY <1>2, <2>1, FS_AddElement, FS_Singleton
<1>7. ASSUME NEW x \in Objects
      PROVE  /\ rc'[x] = RefsTo(roots', links', weakRecords', callback, entries', finJobs', Objects, x)
             /\ rc'[x] > rc[x] => mem[x] = "object"
  <2>1. rc'[x] = rc[x] + EntriesTo(callback, {e0}, x)
    BY <1>2
  <2>2. /\ EntriesTo(callback, entries', x) = EntriesTo(callback, entries, x) + EntriesTo(callback, {e0}, x)
        /\ EntriesTo(callback, {e0}, x) \in Nat
    <3>1. entries' \ {e0} = entries /\ {e0} \in SUBSET entries'
      BY <1>2
    <3>2. EntriesTo(callback, entries', x)
            = EntriesTo(callback, entries' \ {e0}, x) + EntriesTo(callback, {e0}, x)
          /\ EntriesTo(callback, {e0}, x) \in Nat
      BY <1>6, <3>1, SplitEntries
    <3> QED
      BY <3>1, <3>2
  <2>3. rc'[x] = RefsTo(roots', links', weakRecords', callback, entries', finJobs', Objects, x)
    <3>1. roots' = roots /\ links' = links /\ weakRecords' = weakRecords /\ finJobs' = finJobs
      BY <1>2
    <3>2. rc'[x] = (IF x \in roots THEN 1 ELSE 0) + LinksTo(links, Objects, x) + RecordsTo(weakRecords, x)
                    + EntriesTo(callback, entries', x) + CallbacksTo(callback, Objects, x)
                    + JobsTo(finJobs, x)
      BY <2>1, <2>2, Parts
    <3> QED
      BY <3>1, <3>2 DEF RefsTo
  <2>4. ASSUME rc'[x] > rc[x] PROVE mem[x] = "object"
    <3>1. EntriesTo(callback, {e0}, x) > 0
      BY <2>1, <2>2, <2>4, Parts
    <3>2. x = h \/ x = k \/ callback[f] = x
      BY <1>4, <1>6, <3>1, EntriesReach
    <3>3. x \in roots \/ callback[f] = x
      BY <1>2, <3>2, Before
    <3> QED
      BY <1>2, <1>3, <3>3, Alive, Before
  <2> QED
    BY <2>3, <2>4
<1>8. rc' = [x \in Objects |-> rc'[x]]
  BY <1>2
<1> QED
  BY <1>2, <1>5, <1>6, <1>7, <1>8, Before, RunStep

LEMMA UnregisterStep ==
  ASSUME HeapInv, NEW f \in roots, NEW t \in roots, Heap!Unregister(f, t)
  PROVE  HeapInv'
<1>1. PICK old : old = {e \in entries : e.registry = f /\ e.token = t}
  OBVIOUS
<1>2. /\ phase = "run"
      /\ entries' = entries \ old
      /\ rc' = [x \in Objects |-> rc[x] - EntriesTo(callback, old, x)]
      /\ pending' = {x \in Objects : rc'[x] = 0 /\ rc[x] > 0}
      /\ phase' = IF pending' = {} THEN "run" ELSE "free"
      /\ UNCHANGED <<kind, mem, roots, links, target, callback, weakRecords, finJobs, garbage>>
  BY <1>1, FromAre DEF Heap!Unregister, Heap!Runs, Heap!FreeValues, Heap!Objs, Objects
<1>3. /\ entries' \subseteq HeapEntries
      /\ \A e \in entries' : mem[e.target] = "object" /\ mem[e.registry] = "object"
  BY <1>2, Before
<1>4. IsFiniteSet(entries) /\ IsFiniteSet(entries') /\ old \in SUBSET entries
  BY <1>1, <1>2, Before, FS_Difference
<1>5. ASSUME NEW x \in Objects
      PROVE  /\ rc'[x] = RefsTo(roots', links', weakRecords', callback, entries', finJobs', Objects, x)
             /\ rc'[x] > rc[x] => mem[x] = "object"
  <2>1. rc'[x] = rc[x] - EntriesTo(callback, old, x)
    BY <1>2
  <2>2. /\ EntriesTo(callback, entries, x) = EntriesTo(callback, entries', x) + EntriesTo(callback, old, x)
        /\ EntriesTo(callback, entries', x) \in Nat /\ EntriesTo(callback, old, x) \in Nat
    BY <1>2, <1>4, SplitEntries
  <2>3. rc'[x] = RefsTo(roots', links', weakRecords', callback, entries', finJobs', Objects, x)
    <3>1. roots' = roots /\ links' = links /\ weakRecords' = weakRecords /\ finJobs' = finJobs
      BY <1>2
    <3>2. rc'[x] = (IF x \in roots THEN 1 ELSE 0) + LinksTo(links, Objects, x) + RecordsTo(weakRecords, x)
                    + EntriesTo(callback, entries', x) + CallbacksTo(callback, Objects, x)
                    + JobsTo(finJobs, x)
      BY <2>1, <2>2, Parts
    <3> QED
      BY <3>1, <3>2 DEF RefsTo
  <2> QED
    BY <2>1, <2>2, <2>3, Parts
<1>6. rc' = [x \in Objects |-> rc'[x]]
  BY <1>2
<1> QED
  BY <1>2, <1>3, <1>4, <1>5, <1>6, Before, RunStep

LEMMA RunJobStep ==
  ASSUME HeapInv, NEW keep \in BOOLEAN, Heap!RunJob(keep)
  PROVE  HeapInv'
<1>1. phase = "run" /\ finJobs \in Seq(HeapJobs) /\ finJobs # <<>> /\ finJobs' = Tail(finJobs)
  BY Before DEF Heap!RunJob, Heap!Runs
<1>2. PICK hd : hd = Head(finJobs)
  OBVIOUS
<1>3. PICK kept : kept = IF keep /\ hd.held # 0 THEN {hd.held} \ roots ELSE {}
  OBVIOUS
<1>4. /\ roots' = roots \cup kept
      /\ rc' = [x \in Objects |-> rc[x] - JobsTo(<<hd>>, x) + (IF x \in kept THEN 1 ELSE 0)]
      /\ pending' = {x \in Objects : rc'[x] = 0 /\ rc[x] > 0}
      /\ phase' = IF pending' = {} THEN "run" ELSE "free"
      /\ UNCHANGED <<kind, mem, links, target, callback, entries, weakRecords, garbage>>
  BY <1>2, <1>3, FromAre DEF Heap!RunJob, Heap!FreeValues, Heap!Objs, Heap!None, Objects
<1>5. hd \in HeapJobs /\ <<hd>> \in Seq(HeapJobs) /\ Tail(finJobs) \in Seq(HeapJobs)
      /\ finJobs = <<hd>> \o Tail(finJobs)
  BY <1>1, <1>2
<1>6. kept \subseteq Objects /\ kept \cap roots = {} /\ \A x \in kept : hd.held = x
  BY <1>3, <1>5 DEF HeapJobs, Things
<1>7. ASSUME NEW x \in Objects
      PROVE  /\ rc'[x] = RefsTo(roots', links', weakRecords', callback, entries', finJobs', Objects, x)
             /\ rc'[x] > rc[x] => mem[x] = "object"
  <2>1. rc'[x] = rc[x] - JobsTo(<<hd>>, x) + (IF x \in kept THEN 1 ELSE 0)
    BY <1>4
  <2>2. /\ JobsTo(finJobs, x) = JobsTo(<<hd>>, x) + JobsTo(Tail(finJobs), x)
        /\ JobsTo(<<hd>>, x) \in Nat /\ JobsTo(Tail(finJobs), x) \in Nat
    <3>1. /\ JobsTo(<<hd>> \o Tail(finJobs), x) = JobsTo(<<hd>>, x) + JobsTo(Tail(finJobs), x)
          /\ JobsTo(<<hd>>, x) \in Nat /\ JobsTo(Tail(finJobs), x) \in Nat
      BY <1>5, JobsJoined
    <3> QED
      BY <1>5, <3>1
  <2>3. (IF x \in roots' THEN 1 ELSE 0) = (IF x \in roots THEN 1 ELSE 0) + (IF x \in kept THEN 1 ELSE 0)
    BY <1>4, <1>6
  <2>4. rc'[x] = RefsTo(roots', links', weakRecords', callback, entries', finJobs', Objects, x)
    <3>1. links' = links /\ weakRecords' = weakRecords /\ entries' = entries /\ finJobs' = Tail(finJobs)
      BY <1>1, <1>4
    <3>2. rc'[x] = (IF x \in roots' THEN 1 ELSE 0) + LinksTo(links, Objects, x) + RecordsTo(weakRecords, x)
                    + EntriesTo(callback, entries, x) + CallbacksTo(callback, Objects, x)
                    + JobsTo(Tail(finJobs), x)
      BY <2>1, <2>2, <2>3, Parts
    <3> QED
      BY <3>1, <3>2 DEF RefsTo
  <2>5. ASSUME x \in kept PROVE JobsTo(<<hd>>, x) > 0
    <3>1. Len(<<hd>>) = 1 /\ <<hd>>[1] = hd
      OBVIOUS
    <3>2. JobsTo(<<hd>>, x) > 0
            <=> \E i \in 1..Len(<<hd>>) : <<hd>>[i].callback = x \/ <<hd>>[i].held = x
      BY <1>5, JobsReach
    <3>3. 1 \in 1..Len(<<hd>>) /\ <<hd>>[1].held = x
      BY <1>6, <2>5, <3>1
    <3> QED
      BY <3>2, <3>3
  <2>6. ~(rc'[x] > rc[x])
    <3>1. CASE x \in kept
      BY <2>1, <2>2, <2>5, <3>1, Parts
    <3>2. CASE x \notin kept
      BY <2>1, <2>2, <3>2, Parts
    <3> QED
      BY <3>1, <3>2
  <2> QED
    BY <2>4, <2>6
<1>8. rc' = [x \in Objects |-> rc'[x]]
  BY <1>4
<1>9. roots' \subseteq Objects /\ finJobs' \in Seq(HeapJobs)
  BY <1>1, <1>4, <1>5, <1>6, Before
<1> QED
  BY <1>1, <1>4, <1>7, <1>8, <1>9, Before, RunStep

-----------------------------------------------------------------------------
(* A collection. *)

\* What an object refers to, as the collector counts it.
LEMMA MarksAre ==
  ASSUME HeapInv, NEW o \in Objects, NEW x \in Objects
  PROVE  Heap!MarkChildren({o}, x) > 0 <=> Heap!RefersTo(o, x)
<1> DEFINE R == {r \in weakRecords : r.key \in {o}}
           E == {e \in entries : e.registry \in {o}}
<1>1. IsFiniteSet(R) /\ IsFiniteSet(E)
  <2>1. IsFiniteSet(weakRecords) /\ IsFiniteSet(entries)
    BY DEF HeapInv, HeapTypes
  <2>2. R \subseteq weakRecords /\ E \subseteq entries
    OBVIOUS
  <2> HIDE DEF R, E
  <2> QED
    BY <2>1, <2>2, FS_Subset
<1>2. Heap!MarkChildren({o}, x) = LinksTo(links, {o}, x) + RecordsTo(R, x) + EntriesTo(callback, E, x)
        + CallbacksTo(callback, {o}, x)
  BY FromAre DEF Heap!MarkChildren
<1>3. Heap!RefersTo(o, x) <=>
        \/ x \in links[o] \/ callback[o] = x \/ \E r \in R : r.value = x
        \/ \E e \in E : e.held = x \/ e.token = x \/ callback[e.registry] = x
  BY DEF Heap!RefersTo
<1> HIDE DEF R, E
<1>4. RecordsTo(R, x) \in Nat /\ (RecordsTo(R, x) > 0 <=> \E r \in R : r.value = x)
  BY <1>1, RecordsReach
<1>5. EntriesTo(callback, E, x) \in Nat
      /\ (EntriesTo(callback, E, x) > 0
            <=> \E e \in E : e.held = x \/ e.token = x \/ callback[e.registry] = x)
  BY <1>1, EntriesReach
<1>6. /\ LinksTo(links, {o}, x) = IF x \in links[o] THEN 1 ELSE 0
      /\ CallbacksTo(callback, {o}, x) = IF callback[o] = x THEN 1 ELSE 0
  BY OfOne
<1> QED
  BY <1>2, <1>3, <1>4, <1>5, <1>6

\* What is left of a count without the references among objects: JavaScript's and the jobs'.
LEMMA OuterAre ==
  ASSUME HeapInv, phase = "run"
  PROVE  Heap!Outer = {x \in Objects : x \in roots \/ JobsTo(finJobs, x) > 0}
<1>1. HeapTypes /\ Holders /\ garbage = {} /\ Heap!Live \subseteq Objects
      /\ \A o \in Objects : o \in Heap!Live <=> mem[o] = "object"
  BY DEF HeapInv, Phases, Heap!Live, Heap!Objs, Objects
<1>2. /\ {r \in weakRecords : r.key \in Heap!Live} = weakRecords
      /\ {e \in entries : e.registry \in Heap!Live} = entries
  <2>1. weakRecords \subseteq HeapRecords /\ entries \subseteq HeapEntries
    BY <1>1 DEF HeapTypes
  <2>2. \A r \in weakRecords : r.key \in Heap!Live
    BY <1>1, <2>1 DEF Holders, HeapRecords
  <2>3. \A e \in entries : e.registry \in Heap!Live
    BY <1>1, <2>1 DEF Holders, HeapEntries
  <2> QED
    BY <2>2, <2>3
<1>3. ASSUME NEW x \in Objects
      PROVE  Heap!MarkChildren(Heap!Live, x) = LinksTo(links, Objects, x) + RecordsTo(weakRecords, x)
               + EntriesTo(callback, entries, x) + CallbacksTo(callback, Objects, x)
  <2>1. {o \in Heap!Live : x \in links[o]} = {o \in Objects : x \in links[o]}
    BY <1>1 DEF Holders
  <2>2. {o \in Heap!Live : callback[o] = x} = {o \in Objects : callback[o] = x}
    <3>1. x # 0
      BY <1>1 DEF HeapTypes
    <3> QED
      BY <1>1, <3>1 DEF Holders
  <2>3. /\ LinksTo(links, Heap!Live, x) = LinksTo(links, Objects, x)
        /\ CallbacksTo(callback, Heap!Live, x) = CallbacksTo(callback, Objects, x)
    BY <2>1, <2>2 DEF LinksTo, CallbacksTo
  <2> QED
    BY <1>2, <2>3, FromAre DEF Heap!MarkChildren
<1>4. ASSUME NEW x \in Objects
      PROVE  rc[x] > Heap!MarkChildren(Heap!Live, x) <=> x \in roots \/ JobsTo(finJobs, x) > 0
  BY <1>3, Parts
<1>5. ASSUME NEW x \in Objects, x \in roots \/ JobsTo(finJobs, x) > 0
      PROVE  x \in Heap!Live
  <2>1. rc[x] > 0
    BY <1>5, Parts
  <2> QED
    BY <1>1, <2>1, Alive
<1> QED
  BY <1>1, <1>4, <1>5 DEF Heap!Outer

\* What the collection keeps is what JavaScript can get at.
LEMMA KeptAre ==
  ASSUME HeapInv, phase = "run"
  PROVE  /\ Heap!Kept = Heap!Reachable
         /\ \A x \in Objects : x \in roots \/ JobsTo(finJobs, x) > 0 => x \in Heap!Kept
         /\ \A o \in Heap!Kept, y \in Objects : Heap!RefersTo(o, y) => y \in Heap!Kept
<1>1. HeapTypes /\ Holders /\ garbage = {} /\ Heap!Live \subseteq Objects
      /\ \A o \in Objects : o \in Heap!Live <=> mem[o] = "object"
  BY DEF HeapInv, Phases, Heap!Live, Heap!Objs, Objects
<1>2. PICK Closed : Closed = [S \in SUBSET Objects |->
        /\ \A o \in Objects : o \in roots \/ JobsTo(finJobs, o) > 0 => o \in S
        /\ \A o \in S, y \in Objects : Heap!RefersTo(o, y) => y \in S]
  OBVIOUS
<1>3. Heap!Reachable = {x \in Objects : \A S \in SUBSET Objects : Closed[S] => x \in S}
  BY <1>2, FromAre DEF Heap!Reachable, Heap!Objs, Objects
<1>4. ASSUME NEW o \in Objects, NEW y \in Objects, Heap!RefersTo(o, y) PROVE y \in Heap!Live
  <2>1. rc[y] > 0
    <3>1. \A e \in entries : callback[e.registry] = y => rc[y] > 0
      BY Alive
    <3> QED
      BY <1>4, Alive DEF Heap!RefersTo
  <2> QED
    BY <1>1, <2>1, Alive
<1>5. ASSUME NEW S \in SUBSET Heap!Live
      PROVE  /\ S \in SUBSET Objects
             /\ Closed[S] <=>
                  /\ Heap!Outer \subseteq S
                  /\ \A o \in S : \A y \in Heap!Live : Heap!MarkChildren({o}, y) > 0 => y \in S
  <2>1. S \in SUBSET Objects
    BY <1>1
  <2>2. Heap!Outer \subseteq S <=> \A o \in Objects : o \in roots \/ JobsTo(finJobs, o) > 0 => o \in S
    BY OuterAre
  <2>3. (\A o \in S : \A y \in Heap!Live : Heap!MarkChildren({o}, y) > 0 => y \in S)
          <=> \A o \in S, y \in Objects : Heap!RefersTo(o, y) => y \in S
    <3>1. \A o \in S, y \in Heap!Live : Heap!MarkChildren({o}, y) > 0 <=> Heap!RefersTo(o, y)
      BY <1>1, <2>1, MarksAre
    <3>2. \A o \in S, y \in Objects : Heap!RefersTo(o, y) => y \in Heap!Live
      BY <1>4, <2>1
    <3> QED
      BY <1>1, <3>1, <3>2
  <2> QED
    BY <1>2, <2>1, <2>2, <2>3
<1>6. Heap!Kept = {x \in Heap!Live : \A S \in SUBSET Heap!Live : Closed[S] => x \in S}
  BY <1>5 DEF Heap!Kept
<1>7. \A x \in Objects : x \in roots \/ JobsTo(finJobs, x) > 0 => x \in Heap!Live
  BY OuterAre DEF Heap!Outer
<1>8. ASSUME NEW S \in SUBSET Objects, Closed[S] PROVE Closed[S \cap Heap!Live]
  BY <1>1, <1>2, <1>4, <1>7, <1>8
<1>9. Closed[Heap!Live]
  BY <1>1, <1>2, <1>4, <1>7
<1>10. Heap!Kept = Heap!Reachable
  <2>1. ASSUME NEW x \in Heap!Kept PROVE x \in Heap!Reachable
    BY <1>1, <1>3, <1>6, <1>8
  <2>2. ASSUME NEW x \in Heap!Reachable PROVE x \in Heap!Kept
    BY <1>1, <1>3, <1>6, <1>9
  <2> QED
    BY <2>1, <2>2
<1>11. \A x \in Objects : x \in roots \/ JobsTo(finJobs, x) > 0 => x \in Heap!Reachable
  BY <1>2, <1>3
<1>12. \A o \in Heap!Reachable, y \in Objects : Heap!RefersTo(o, y) => y \in Heap!Reachable
  BY <1>2, <1>3
<1> QED
  BY <1>10, <1>11, <1>12

LEMMA RunGCStep ==
  ASSUME HeapInv, Heap!RunGC
  PROVE  HeapInv' /\ phase = "run" /\ phase' = "sweep" /\ garbage' = Heap!Live \ Heap!Reachable
<1>1. /\ phase = "run" /\ phase' = "sweep"
      /\ garbage' = Heap!Live \ Heap!Kept /\ pending' = garbage'
      /\ UNCHANGED <<kind, mem, rc, roots, links, target, callback, entries, weakRecords, finJobs>>
  BY DEF Heap!RunGC, Heap!Runs
<1>2. HeapTypes /\ Counted /\ Holders /\ Phases /\ garbage = {} /\ Heap!Live \subseteq Objects
      /\ \A o \in Objects : o \in Heap!Live <=> mem[o] = "object"
  BY <1>1 DEF HeapInv, Phases, Heap!Live, Heap!Objs, Objects
<1>3. /\ Objects' = Objects /\ Things' = Things /\ HeapEntries' = HeapEntries
      /\ HeapRecords' = HeapRecords /\ HeapJobs' = HeapJobs
  BY <1>1 DEF Objects, Things, HeapEntries, HeapRecords, HeapJobs
<1>4. HeapTypes'
  BY <1>1, <1>2, <1>3 DEF HeapTypes
<1>5. Counted' /\ Holders'
  BY <1>1, <1>2, <1>3 DEF Counted, Total, Holders
<1>6. Phases'
  BY <1>1, <1>2, <1>3 DEF Phases
<1>7. ASSUME NEW o \in Objects \ garbage', NEW y \in Objects, Heap!RefersTo(o, y)
      PROVE  y \notin garbage'
  <2>1. CASE o \in Heap!Kept
    BY <1>1, <1>7, <2>1, KeptAre
  <2>2. CASE o \notin Heap!Live
    <3>1. y \notin links[o] /\ callback[o] # y
      BY <1>2, <2>2 DEF HeapTypes, Holders
    <3>2. (\A r \in weakRecords : r.key # o) /\ (\A e \in entries : e.registry # o)
      BY <1>2, <2>2 DEF Holders
    <3> QED
      BY <1>7, <3>1, <3>2 DEF Heap!RefersTo
  <2> QED
    BY <1>1, <2>1, <2>2
<1>8. garbage' \subseteq Objects /\ 0 \notin Objects
  BY <1>1, <1>2 DEF HeapTypes
<1>9. \A x \in Objects : x \in roots \/ JobsTo(finJobs, x) > 0 => x \notin garbage'
  BY <1>1, KeptAre
<1>10. Apart'
  <2>1. roots' \cap garbage' = {}
    BY <1>1, <1>8, <1>9
  <2>2. ASSUME NEW i \in 1..Len(finJobs)
        PROVE  finJobs[i].callback \notin garbage' /\ finJobs[i].held \notin garbage'
    <3>1. finJobs \in Seq(HeapJobs)
      BY <1>2 DEF HeapTypes
    <3>2. JobsTo(finJobs, finJobs[i].callback) > 0 /\ JobsTo(finJobs, finJobs[i].held) > 0
      BY <3>1, JobsReach
    <3> QED
      BY <1>8, <1>9, <3>2
  <2>3. \A o \in Objects \ garbage' : links[o] \cap garbage' = {} /\ callback[o] \notin garbage'
    BY <1>7, <1>8 DEF Heap!RefersTo
  <2>4. ASSUME NEW r \in weakRecords, r.key \notin garbage' PROVE r.value \notin garbage'
    <3>1. r.key \in Objects /\ r.value \in Objects
      BY <1>2 DEF HeapTypes, HeapRecords
    <3> QED
      BY <1>7, <2>4, <3>1 DEF Heap!RefersTo
  <2>5. ASSUME NEW e \in entries, e.registry \notin garbage'
        PROVE  e.held \notin garbage' /\ e.token \notin garbage'
    <3>1. e.registry \in Objects
      BY <1>2 DEF HeapTypes, HeapEntries
    <3> QED
      BY <1>7, <1>8, <2>5, <3>1 DEF Heap!RefersTo
  <2> QED
    BY <1>1, <1>3, <2>1, <2>2, <2>3, <2>4, <2>5 DEF Apart
<1>11. garbage' = Heap!Live \ Heap!Reachable
  BY <1>1, KeptAre
<1> QED
  BY <1>1, <1>4, <1>5, <1>6, <1>10, <1>11 DEF HeapInv

-----------------------------------------------------------------------------
(* An object is freed. *)

LEMMA SetInOrder ==
  ASSUME NEW S, IsFiniteSet(S)
  PROVE  /\ Heap!SetToSeq(S) \in Seq(S)
         /\ Len(Heap!SetToSeq(S)) = Cardinality(S)
<1>1. Cardinality(S) \in Nat /\ ExistsBijection(1..Cardinality(S), S)
  BY FS_CardinalityType
<1>2. PICK f : f \in Bijection(1..Cardinality(S), S)
  BY <1>1 DEF ExistsBijection
<1>3. f \in [1..Cardinality(S) -> S] /\ Heap!IsInjective(f)
  BY <1>2 DEF Bijection, Injection, IsInjective, Heap!IsInjective
<1>4. Heap!SetToSeq(S) \in [1..Cardinality(S) -> S]
  BY <1>3, HeapSame DEF Heap!SetToSeq
<1> QED
  BY <1>1, <1>4

\* What a step of freeing does, in the terms of these proofs.
Freed(o, fires, js, oldE, oldR) ==
  /\ fires = {e \in entries : e.target = o /\ ~Heap!Dying(e.held) /\ ~Heap!Dying(callback[e.registry])}
  /\ oldE = {e \in entries : o \in {e.target, e.registry}}
  /\ oldR = {r \in weakRecords : o \in {r.key, r.map}}
  /\ js \in Seq(HeapJobs) /\ Len(js) = Cardinality(fires)
  /\ \A i \in 1..Len(js) : \E e \in fires : js[i].callback = callback[e.registry] /\ js[i].held = e.held
  /\ rc' = [x \in Objects |-> rc[x] - LinksTo(links, {o}, x) - RecordsTo(oldR, x)
              - EntriesTo(callback, oldE, x) - CallbacksTo(callback, {o}, x) + JobsTo(js, x)]
  /\ finJobs' = finJobs \o js
  /\ entries' = entries \ oldE
  /\ weakRecords' = weakRecords \ oldR
  /\ links' = [links EXCEPT ![o] = {}]
  /\ callback' = [callback EXCEPT ![o] = 0]
  /\ target' = [w \in Objects |-> IF w = o THEN 0 ELSE IF target[w] = o THEN -1 ELSE target[w]]
  /\ mem' = [mem EXCEPT ![o] = IF phase = "sweep" /\ rc'[o] # 0 THEN "zombie" ELSE "freed"]
  /\ pending' = (pending \ {o})
       \union (IF phase = "free" THEN {x \in Objects : rc'[x] = 0 /\ rc[x] > 0} ELSE {})

LEMMA FreeObjectIs ==
  ASSUME HeapInv, NEW o \in Objects, Heap!FreeObject(o)
  PROVE  \E fires, js, oldE, oldR : Freed(o, fires, js, oldE, oldR)
<1>1. PICK fires : fires = {e \in entries : e.target = o /\ ~Heap!Dying(e.held)
                                              /\ ~Heap!Dying(callback[e.registry])}
  OBVIOUS
<1>2. PICK oldE : oldE = {e \in entries : o \in {e.target, e.registry}}
  OBVIOUS
<1>3. PICK oldR : oldR = {r \in weakRecords : o \in {r.key, r.map}}
  OBVIOUS
<1>4. PICK js : js = Heap!Jobs(Heap!SetToSeq(fires))
  OBVIOUS
<1>5. IsFiniteSet(entries) /\ entries \subseteq HeapEntries /\ callback \in [Objects -> Things]
  BY DEF HeapInv, HeapTypes
<1>6. IsFiniteSet(fires) /\ fires \subseteq entries
  BY <1>1, <1>5, FS_Subset
<1>7. PICK es : es = Heap!SetToSeq(fires) /\ es \in Seq(fires) /\ Len(es) = Cardinality(fires)
  BY <1>6, SetInOrder
<1>8. js = [i \in 1..Len(es) |-> [callback |-> callback[es[i].registry], held |-> es[i].held]]
  BY <1>4, <1>7 DEF Heap!Jobs
<1>9. \A i \in 1..Len(es) : es[i] \in fires /\ es[i].registry \in Objects /\ es[i].held \in Things
  BY <1>5, <1>6, <1>7 DEF HeapEntries
<1>10. /\ js \in Seq(HeapJobs) /\ Len(js) = Cardinality(fires)
       /\ \A i \in 1..Len(js) : \E e \in fires : js[i].callback = callback[e.registry] /\ js[i].held = e.held
  <2>1. Len(es) \in Nat
    BY <1>7
  <2>2. \A i \in 1..Len(es) :
          [callback |-> callback[es[i].registry], held |-> es[i].held] \in HeapJobs
    BY <1>5, <1>9 DEF HeapJobs
  <2>3. js \in Seq(HeapJobs) /\ Len(js) = Len(es)
    BY <1>8, <2>1, <2>2
  <2> QED
    BY <1>7, <1>8, <1>9, <2>3
<1>11. /\ rc' = [x \in Objects |-> rc[x] - LinksTo(links, {o}, x) - RecordsTo(oldR, x)
                   - EntriesTo(callback, oldE, x) - CallbacksTo(callback, {o}, x) + JobsTo(js, x)]
       /\ finJobs' = finJobs \o js
       /\ entries' = entries \ oldE
       /\ weakRecords' = weakRecords \ oldR
       /\ links' = [links EXCEPT ![o] = {}]
       /\ callback' = [callback EXCEPT ![o] = 0]
       /\ target' = [w \in Objects |-> IF w = o THEN 0 ELSE IF target[w] = o THEN -1 ELSE target[w]]
  BY <1>1, <1>2, <1>3, <1>4, FromAre DEF Heap!FreeObject, Heap!Objs, Heap!None, Heap!Gone, Objects
<1>12. /\ mem' = [mem EXCEPT ![o] = IF phase = "sweep" /\ rc'[o] # 0 THEN "zombie" ELSE "freed"]
       /\ pending' = (pending \ {o})
            \union (IF phase = "free" THEN {x \in Objects : rc'[x] = 0 /\ rc[x] > 0} ELSE {})
  BY DEF Heap!FreeObject, Heap!Objs, Objects
<1>13. Freed(o, fires, js, oldE, oldR)
  BY <1>1, <1>2, <1>3, <1>10, <1>11, <1>12 DEF Freed
<1> QED
  BY <1>13

\* What fires: values that are there to stay.
LEMMA FiresAre ==
  ASSUME HeapInv, NEW o \in Objects, o \in pending, phase # "run",
         NEW fires, NEW js, NEW oldE, NEW oldR, Freed(o, fires, js, oldE, oldR), NEW x \in Objects,
         JobsTo(js, x) > 0
  PROVE  mem[x] = "object" /\ x \notin garbage /\ rc[x] > 0
<1>1. PICK i \in 1..Len(js) : js[i].callback = x \/ js[i].held = x
  <2>1. js \in Seq(HeapJobs)
    BY DEF Freed
  <2> QED
    BY <2>1, JobsReach
<1>2. PICK e \in entries : /\ x = callback[e.registry] \/ x = e.held
                           /\ ~Heap!Dying(e.held) /\ ~Heap!Dying(callback[e.registry])
  BY <1>1 DEF Freed
<1>3. x # 0 /\ mem[x] \in {"object", "zombie", "freed"} /\ phase \in {"run", "free", "sweep"}
  BY DEF HeapInv, HeapTypes
<1>4. mem[x] = "object" /\ ~(phase = "sweep" /\ x \in garbage)
  BY <1>2, <1>3 DEF Heap!Dying, Heap!None
<1>5. x \notin garbage
  BY <1>3, <1>4 DEF HeapInv, Phases
<1>6. rc[x] > 0
  BY <1>2, Alive
<1> QED
  BY <1>4, <1>5, <1>6

\* The counts follow what is freed, and nothing rises from 0.
LEMMA FreeingCounts ==
  ASSUME HeapInv, NEW o \in Objects, o \in pending, phase # "run",
         NEW fires, NEW js, NEW oldE, NEW oldR, Freed(o, fires, js, oldE, oldR), NEW x \in Objects
  PROVE  /\ rc'[x] = RefsTo(roots, links', weakRecords', callback', entries', finJobs', Objects, x)
         /\ rc'[x] \in Nat
         /\ rc[x] = 0 => rc'[x] = 0
<1>1. /\ IsFiniteSet(Objects) /\ IsFiniteSet(weakRecords) /\ IsFiniteSet(entries)
      /\ links \in [Objects -> SUBSET Objects] /\ callback \in [Objects -> Things]
      /\ finJobs \in Seq(HeapJobs) /\ x # 0 /\ entries \subseteq HeapEntries
  BY DEF HeapInv, HeapTypes
<1>2. /\ oldR \in SUBSET weakRecords /\ oldE \in SUBSET entries /\ js \in Seq(HeapJobs)
      /\ finJobs' = finJobs \o js /\ entries' = entries \ oldE /\ weakRecords' = weakRecords \ oldR
      /\ links' = [links EXCEPT ![o] = {}] /\ callback' = [callback EXCEPT ![o] = 0]
      /\ \A e \in entries \ oldE : e.registry # o
  BY DEF Freed
<1>3. /\ rc'[x] = rc[x] - LinksTo(links, {o}, x) - RecordsTo(oldR, x) - EntriesTo(callback, oldE, x)
                    - CallbacksTo(callback, {o}, x) + JobsTo(js, x)
  BY DEF Freed
<1>4. /\ LinksTo(links', Objects, x) \in Nat
      /\ LinksTo(links, Objects, x) = LinksTo(links', Objects, x) + LinksTo(links, {o}, x)
      /\ LinksTo(links, {o}, x) \in Nat
  <2>1. x \notin links'[o] /\ \A p \in Objects \ {o} : links'[p] = links[p]
    BY <1>1, <1>2
  <2>2. /\ LinksTo(links, Objects, x) \in Nat /\ LinksTo(links', Objects, x) \in Nat
        /\ LinksTo(links', Objects, x) + (IF x \in links[o] THEN 1 ELSE 0)
             = LinksTo(links, Objects, x) + (IF x \in links'[o] THEN 1 ELSE 0)
    BY <1>1, <2>1, LinksAt
  <2>3. LinksTo(links, {o}, x) = IF x \in links[o] THEN 1 ELSE 0
    BY OfOne
  <2> QED
    BY <2>1, <2>2, <2>3
<1>5. /\ CallbacksTo(callback', Objects, x) \in Nat
      /\ CallbacksTo(callback, Objects, x) = CallbacksTo(callback', Objects, x) + CallbacksTo(callback, {o}, x)
      /\ CallbacksTo(callback, {o}, x) \in Nat
  <2>1. callback'[o] # x /\ \A p \in Objects \ {o} : callback'[p] = callback[p]
    BY <1>1, <1>2
  <2>2. /\ CallbacksTo(callback, Objects, x) \in Nat /\ CallbacksTo(callback', Objects, x) \in Nat
        /\ CallbacksTo(callback', Objects, x) + (IF callback[o] = x THEN 1 ELSE 0)
             = CallbacksTo(callback, Objects, x) + (IF callback'[o] = x THEN 1 ELSE 0)
    BY <1>1, <2>1, CallbacksAt
  <2>3. CallbacksTo(callback, {o}, x) = IF callback[o] = x THEN 1 ELSE 0
    BY OfOne
  <2> QED
    BY <2>1, <2>2, <2>3
<1>6. /\ RecordsTo(weakRecords, x) = RecordsTo(weakRecords', x) + RecordsTo(oldR, x)
      /\ RecordsTo(weakRecords', x) \in Nat /\ RecordsTo(oldR, x) \in Nat
  BY <1>1, <1>2, SplitRecords
<1>7. /\ EntriesTo(callback, entries, x) = EntriesTo(callback', entries', x) + EntriesTo(callback, oldE, x)
      /\ EntriesTo(callback', entries', x) \in Nat /\ EntriesTo(callback, oldE, x) \in Nat
  <2>1. /\ EntriesTo(callback, entries, x)
             = EntriesTo(callback, entries \ oldE, x) + EntriesTo(callback, oldE, x)
        /\ EntriesTo(callback, entries \ oldE, x) \in Nat /\ EntriesTo(callback, oldE, x) \in Nat
    <3>1. IsFiniteSet(entries) /\ oldE \in SUBSET entries
      BY <1>1, <1>2
    <3> QED
      BY <3>1, SplitEntries
  <2>2. \A e \in entries \ oldE : callback'[e.registry] = callback[e.registry]
    BY <1>1, <1>2 DEF HeapEntries
  <2>3. EntriesTo(callback', entries \ oldE, x) = EntriesTo(callback, entries \ oldE, x)
    BY <2>2, EntriesKeep
  <2> QED
    BY <1>2, <2>1, <2>3
<1>8. /\ JobsTo(finJobs, x) \in Nat /\ JobsTo(js, x) \in Nat
      /\ JobsTo(finJobs', x) = JobsTo(finJobs, x) + JobsTo(js, x)
  <2>1. /\ JobsTo(finJobs, x) \in Nat /\ JobsTo(js, x) \in Nat
        /\ JobsTo(finJobs \o js, x) = JobsTo(finJobs, x) + JobsTo(js, x)
    BY <1>1, <1>2, JobsJoined
  <2> QED
    BY <1>2, <2>1
<1>9. rc[x] = (IF x \in roots THEN 1 ELSE 0) + LinksTo(links, Objects, x) + RecordsTo(weakRecords, x)
                + EntriesTo(callback, entries, x) + CallbacksTo(callback, Objects, x)
                + JobsTo(finJobs, x)
  BY Parts
<1>10. rc'[x] = (IF x \in roots THEN 1 ELSE 0) + LinksTo(links', Objects, x) + RecordsTo(weakRecords', x)
                  + EntriesTo(callback', entries', x) + CallbacksTo(callback', Objects, x)
                  + JobsTo(finJobs', x)
  BY <1>3, <1>4, <1>5, <1>6, <1>7, <1>8, <1>9
<1>11. rc'[x] \in Nat
  <2>1. JobsTo(finJobs', x) \in Nat
    BY <1>8
  <2> QED
    BY <1>4, <1>5, <1>6, <1>7, <1>10, <2>1
<1>12. ASSUME rc[x] = 0 PROVE rc'[x] = 0
  <2>1. ~(JobsTo(js, x) > 0)
    BY <1>12, FiresAre
  <2> QED
    BY <1>3, <1>4, <1>5, <1>6, <1>7, <1>8, <1>11, <1>12, <2>1
<1> QED
  BY <1>10, <1>11, <1>12 DEF RefsTo

LEMMA FreeObjectStep ==
  ASSUME HeapInv, NEW o \in Objects, o \in pending, Heap!FreeObject(o), UNCHANGED <<kind, roots, garbage>>,
         \/ phase = "free" /\ phase' = IF pending' = {} THEN "run" ELSE "free"
         \/ phase = "sweep" /\ phase' = "sweep"
  PROVE  HeapInv'
<1>1. PICK fires, js, oldE, oldR : Freed(o, fires, js, oldE, oldR)
  BY FreeObjectIs
<1>2. HeapTypes /\ Holders /\ Phases /\ Apart
  BY DEF HeapInv
<1>3. /\ Objects' = Objects /\ Things' = Things /\ HeapEntries' = HeapEntries
      /\ HeapRecords' = HeapRecords /\ HeapJobs' = HeapJobs
  BY DEF Objects, Things, HeapEntries, HeapRecords, HeapJobs
<1>4. ASSUME NEW x \in Objects
      PROVE  /\ rc'[x] = RefsTo(roots, links', weakRecords', callback', entries', finJobs', Objects, x)
             /\ rc'[x] \in Nat
             /\ rc[x] = 0 => rc'[x] = 0
  BY <1>1, FreeingCounts
<1>5. rc' \in [Objects -> Nat]
  <2>1. rc' = [x \in Objects |-> rc'[x]]
    BY <1>1 DEF Freed
  <2> QED
    BY <1>4, <2>1
<1>6. /\ links' \in [Objects -> SUBSET Objects] /\ callback' \in [Objects -> Things]
      /\ target' \in [Objects -> Things \cup {-1}] /\ mem' \in [Objects -> {"object", "zombie", "freed"}]
      /\ links'[o] = {} /\ callback'[o] = 0 /\ mem'[o] # "object"
      /\ mem'[o] = IF phase = "sweep" /\ rc'[o] # 0 THEN "zombie" ELSE "freed"
      /\ \A p \in Objects \ {o} : links'[p] = links[p] /\ callback'[p] = callback[p] /\ mem'[p] = mem[p]
      /\ \A p \in Objects : target'[p] = IF p = o THEN 0 ELSE IF target[p] = o THEN -1 ELSE target[p]
  BY <1>1, <1>2 DEF Freed, HeapTypes, Things
<1>7. /\ entries' \subseteq entries /\ \A e \in entries' : e.target # o /\ e.registry # o
      /\ weakRecords' \subseteq weakRecords /\ \A r \in weakRecords' : r.key # o /\ r.map # o
      /\ IsFiniteSet(entries') /\ IsFiniteSet(weakRecords')
  <2>1. /\ entries' = entries \ oldE /\ \A e \in entries \ oldE : e.target # o /\ e.registry # o
        /\ weakRecords' = weakRecords \ oldR /\ \A r \in weakRecords \ oldR : r.key # o /\ r.map # o
    BY <1>1 DEF Freed
  <2>2. IsFiniteSet(entries) /\ IsFiniteSet(weakRecords)
    BY <1>2 DEF HeapTypes
  <2> QED
    BY <2>1, <2>2, FS_Difference
<1>8. finJobs \in Seq(HeapJobs) /\ js \in Seq(HeapJobs) /\ finJobs' = finJobs \o js
  BY <1>1, <1>2 DEF Freed, HeapTypes
<1>9. /\ pending' = (pending \ {o}) \cup
           (IF phase = "free" THEN {x \in Objects : rc'[x] = 0 /\ rc[x] > 0} ELSE {})
      /\ pending' \subseteq Objects
  BY <1>1, <1>2 DEF Freed, HeapTypes
<1>10. HeapTypes'
  <2>1. entries' \subseteq HeapEntries /\ weakRecords' \subseteq HeapRecords
    BY <1>2, <1>7 DEF HeapTypes
  <2>2. finJobs' \in Seq(HeapJobs)
    BY <1>8
  <2> QED
    BY <1>2, <1>3, <1>5, <1>6, <1>7, <1>9, <2>1, <2>2 DEF HeapTypes
<1>11. Counted'
  BY <1>3, <1>4 DEF Counted, Total
<1>12. ASSUME phase = "free" PROVE rc[o] = 0 /\ rc'[o] = 0
  BY <1>2, <1>4, <1>12 DEF Phases
<1>13. Holders'
  <2>1. \A p \in Objects : mem'[p] # "object" => links'[p] = {} /\ callback'[p] = 0
    BY <1>2, <1>6 DEF Holders
  <2>2. \A p \in Objects : mem'[p] = "freed" => rc'[p] = 0
    BY <1>2, <1>4, <1>6, <1>12 DEF Holders
  <2>3. \A w \in Objects : target'[w] \in Objects => mem'[target'[w]] = "object"
    <3>1. 0 \notin Objects /\ -1 \notin Objects
      BY <1>2 DEF HeapTypes
    <3> QED
      BY <1>2, <1>6, <3>1 DEF Holders
  <2>4. \A r \in weakRecords' : mem'[r.key] = "object" /\ mem'[r.map] = "object"
    <3>1. \A r \in weakRecords : r.key \in Objects /\ r.map \in Objects
      BY <1>2 DEF HeapTypes, HeapRecords
    <3> QED
      BY <1>2, <1>6, <1>7, <3>1 DEF Holders
  <2>5. \A e \in entries' : mem'[e.target] = "object" /\ mem'[e.registry] = "object"
    <3>1. \A e \in entries : e.target \in Objects /\ e.registry \in Objects
      BY <1>2 DEF HeapTypes, HeapEntries
    <3> QED
      BY <1>2, <1>6, <1>7, <3>1 DEF Holders
  <2> QED
    BY <1>3, <2>1, <2>2, <2>3, <2>4, <2>5 DEF Holders
<1>14. Phases'
  <2>1. CASE phase = "free"
    <3>1. garbage = {} /\ \A x \in pending : mem[x] = "object" /\ rc[x] = 0
      BY <1>2, <2>1 DEF Phases
    <3>2. ASSUME NEW x \in pending' PROVE mem'[x] = "object" /\ rc'[x] = 0
      <4>1. x \in Objects
        BY <1>9
      <4>2. CASE x \in pending \ {o}
        BY <1>4, <1>6, <3>1, <4>1, <4>2
      <4>3. CASE x \notin pending \ {o}
        <5>1. rc'[x] = 0 /\ rc[x] > 0
          BY <1>9, <2>1, <4>3
        <5>2. x # o /\ mem[x] = "object"
          BY <1>12, <2>1, <3>1, <4>1, <5>1, Alive
        <5> QED
          BY <1>6, <4>1, <5>1, <5>2
      <4> QED
        BY <4>2, <4>3
    <3>3. \A x \in Objects : mem'[x] # "zombie"
      BY <1>2, <1>6, <2>1, <3>1 DEF Phases
    <3> QED
      BY <1>3, <2>1, <3>1, <3>2, <3>3 DEF Phases
  <2>2. CASE phase = "sweep"
    <3>1. /\ pending \subseteq garbage /\ \A x \in garbage : mem[x] = "object" <=> x \in pending
          /\ \A x \in Objects : mem[x] = "zombie" => x \in garbage
      BY <1>2, <2>2 DEF Phases
    <3>2. pending' = pending \ {o} /\ garbage \subseteq Objects
      BY <1>2, <1>9, <2>2 DEF HeapTypes
    <3>3. \A x \in garbage : mem'[x] = "object" <=> x \in pending'
      BY <1>6, <3>1, <3>2
    <3>4. \A x \in Objects : mem'[x] = "zombie" => x \in garbage
      BY <1>6, <3>1
    <3> QED
      BY <1>3, <2>2, <3>1, <3>2, <3>3, <3>4 DEF Phases
  <2> QED
    BY <2>1, <2>2
<1>15. Apart'
  <2>1. ASSUME NEW i \in 1..Len(finJobs')
        PROVE  finJobs'[i].callback \notin garbage /\ finJobs'[i].held \notin garbage
    <3>1. CASE i <= Len(finJobs)
      BY <1>2, <1>8, <3>1 DEF Apart
    <3>2. CASE i > Len(finJobs)
      <4>1. i - Len(finJobs) \in 1..Len(js) /\ finJobs'[i] = js[i - Len(finJobs)]
        BY <1>8, <3>2
      <4>2. \A x \in Objects : JobsTo(js, x) > 0 => x \notin garbage
        BY <1>1, FiresAre
      <4>3. JobsTo(js, finJobs'[i].callback) > 0 /\ JobsTo(js, finJobs'[i].held) > 0
        BY <1>8, <4>1, JobsReach
      <4> QED
        BY <1>2, <4>2, <4>3 DEF HeapTypes
    <3> QED
      BY <1>8, <3>1, <3>2
  <2>2. \A p \in Objects \ garbage : links'[p] \cap garbage = {} /\ callback'[p] \notin garbage
    <3>1. 0 \notin garbage
      BY <1>2 DEF HeapTypes
    <3> QED
      BY <1>2, <1>6, <3>1 DEF Apart
  <2> QED
    BY <1>2, <1>3, <1>7, <2>1, <2>2 DEF Apart
<1> QED
  BY <1>10, <1>11, <1>13, <1>14, <1>15 DEF HeapInv

LEMMA EndSweepStep ==
  ASSUME HeapInv, Heap!EndSweep
  PROVE  /\ HeapInv' /\ phase = "sweep" /\ phase' = "run"
         /\ \A o \in garbage : mem'[o] = "freed"
         /\ \A o \in Objects \ garbage : mem'[o] = mem[o]
<1>1. /\ phase = "sweep" /\ pending = {} /\ phase' = "run" /\ garbage' = {} /\ pending' = {}
      /\ mem' = [o \in Objects |-> IF mem[o] = "zombie" THEN "freed" ELSE mem[o]]
      /\ UNCHANGED <<kind, rc, roots, links, target, callback, entries, weakRecords, finJobs>>
  BY DEF Heap!EndSweep, Heap!Objs, Objects
<1>2. HeapTypes /\ Counted /\ Holders /\ Phases /\ Apart
  BY DEF HeapInv
<1>3. /\ Objects' = Objects /\ Things' = Things /\ HeapEntries' = HeapEntries
      /\ HeapRecords' = HeapRecords /\ HeapJobs' = HeapJobs
  BY <1>1 DEF Objects, Things, HeapEntries, HeapRecords, HeapJobs
<1>4. /\ garbage \subseteq Objects /\ \A o \in garbage : mem[o] \in {"zombie", "freed"}
      /\ \A o \in Objects \ garbage : mem[o] \in {"object", "freed"}
      /\ \A x \in Objects : mem[x] = "zombie" => x \in garbage
  BY <1>1, <1>2 DEF HeapTypes, Phases
<1>5. ASSUME NEW x \in garbage PROVE rc[x] = 0
  <2>1. x \in Objects /\ rc[x] \in Nat
    BY <1>2, <1>4 DEF HeapTypes
  <2>2. \A p \in Objects : x \notin links[p] /\ callback[p] # x
    <3>1. x # 0
      BY <1>2, <2>1 DEF HeapTypes
    <3> QED
      BY <1>2, <1>4, <3>1 DEF Holders, Apart
  <2>3. \A r \in weakRecords : r.key \in Objects /\ r.key \notin garbage
    BY <1>2, <1>4 DEF Holders, HeapTypes, HeapRecords
  <2>4. \A e \in entries : e.registry \in Objects /\ e.registry \notin garbage
    BY <1>2, <1>4 DEF Holders, HeapTypes, HeapEntries
  <2>5. \A r \in weakRecords : r.value # x
    BY <1>2, <2>3 DEF Apart
  <2>6. \A e \in entries : e.held # x /\ e.token # x /\ callback[e.registry] # x
    BY <1>2, <2>2, <2>4 DEF Apart
  <2>7. x \notin roots /\ \A i \in 1..Len(finJobs) : finJobs[i].callback # x /\ finJobs[i].held # x
    BY <1>2 DEF Apart
  <2>8. ~(rc[x] > 0)
    BY <2>1, <2>2, <2>5, <2>6, <2>7, Alive
  <2> QED
    BY <2>1, <2>8
<1>6. HeapTypes'
  <2>1. mem' \in [Objects -> {"object", "zombie", "freed"}]
    BY <1>1, <1>2 DEF HeapTypes
  <2> QED
    BY <1>1, <1>2, <1>3, <2>1 DEF HeapTypes
<1>7. Counted'
  BY <1>1, <1>2, <1>3 DEF Counted, Total
<1>8. \A o \in Objects : (mem'[o] = "object" <=> mem[o] = "object") /\ mem'[o] # "zombie"
  BY <1>1
<1>9. Holders'
  <2>1. \A o \in Objects : mem'[o] = "freed" => rc[o] = 0
    BY <1>1, <1>2, <1>4, <1>5 DEF Holders
  <2>2. \A r \in weakRecords : r.key \in Objects /\ r.map \in Objects
    BY <1>2 DEF HeapTypes, HeapRecords
  <2>3. \A e \in entries : e.target \in Objects /\ e.registry \in Objects
    BY <1>2 DEF HeapTypes, HeapEntries
  <2> QED
    BY <1>1, <1>2, <1>3, <1>8, <2>1, <2>2, <2>3 DEF Holders
<1>10. Phases' /\ Apart'
  BY <1>1, <1>2, <1>3, <1>8 DEF Phases, Apart
<1>11. /\ \A o \in garbage : mem'[o] = "freed"
       /\ \A o \in Objects \ garbage : mem'[o] = mem[o]
  BY <1>1, <1>4
<1> QED
  BY <1>1, <1>6, <1>7, <1>9, <1>10, <1>11 DEF HeapInv

-----------------------------------------------------------------------------
(* Every step. *)

LEMMA HeapStays ==
  ASSUME HeapInv, UNCHANGED heapVars
  PROVE  HeapInv'
<1>1. /\ HeapTypes /\ Counted /\ Holders /\ Phases /\ Apart
      /\ Objects' = Objects /\ Things' = Things /\ HeapEntries' = HeapEntries
      /\ HeapRecords' = HeapRecords /\ HeapJobs' = HeapJobs
      /\ UNCHANGED <<kind, mem, rc, roots, links, target, callback, entries,
                     weakRecords, finJobs, phase, pending, garbage>>
  BY DEF HeapInv, heapVars, Objects, Things, HeapEntries, HeapRecords, HeapJobs
<1>2. HeapTypes'
  BY <1>1 DEF HeapTypes
<1>3. Counted'
  BY <1>1 DEF Counted, Total
<1>4. Holders' /\ Phases' /\ Apart'
  BY <1>1 DEF Holders, Phases, Apart
<1> QED
  BY <1>2, <1>3, <1>4 DEF HeapInv

LEMMA ScriptStep ==
  ASSUME HeapInv, Heap!Script
  PROVE  HeapInv' /\ phase = "run" /\ phase' # "sweep" /\ UNCHANGED <<mem, garbage>>
<1>1. CASE \E a, b \in Objects : Heap!Link(a, b) \/ Heap!Unlink(a, b) \/ Heap!Load(a, b)
  BY <1>1, LinkStep, UnlinkStep, LoadStep DEF Heap!Link, Heap!Unlink, Heap!Load, Heap!Runs,
     Heap!FreeValues
<1>2. CASE \E o \in Objects : Heap!Forget(o)
  BY <1>2, ForgetStep DEF Heap!Forget, Heap!Runs, Heap!FreeValues
<1>3. CASE \E m, k, v \in roots : Heap!MapSet(m, k, v)
  BY <1>3, MapSetStep DEF Heap!MapSet, Heap!Runs, Heap!FreeValues
<1>4. CASE \E r \in weakRecords : Heap!MapDelete(r)
  BY <1>4, MapDeleteStep DEF Heap!MapDelete, Heap!Runs, Heap!FreeValues
<1>5. CASE \E f, t \in roots, h, k \in roots \cup {0} :
             Heap!Register([registry |-> f, target |-> t, held |-> h, token |-> k])
  BY <1>5, RegisterStep DEF Heap!Register, Heap!Runs
<1>6. CASE \E f, t \in roots : Heap!Unregister(f, t)
  BY <1>6, UnregisterStep DEF Heap!Unregister, Heap!Runs, Heap!FreeValues
<1>7. CASE \E keep \in BOOLEAN : Heap!RunJob(keep)
  BY <1>7, RunJobStep DEF Heap!RunJob, Heap!Runs, Heap!FreeValues
<1> QED
  BY <1>1, <1>2, <1>3, <1>4, <1>5, <1>6, <1>7 DEF Heap!Script, Heap!Objs, Heap!None, Objects

LEMMA FreeStep ==
  ASSUME HeapInv, NEW o \in Objects, Heap!FreeZeroRefcount(o) \/ Heap!FreeCycles(o)
  PROVE  /\ HeapInv' /\ o \in pending /\ Heap!FreeObject(o) /\ UNCHANGED garbage
         /\ phase \in {"free", "sweep"} /\ (phase = "sweep" => phase' = "sweep")
         /\ \A p \in Objects \ {o} : mem'[p] = mem[p]
<1>1. /\ o \in pending /\ Heap!FreeObject(o) /\ UNCHANGED <<kind, roots, garbage>>
      /\ \/ phase = "free" /\ phase' = IF pending' = {} THEN "run" ELSE "free"
         \/ phase = "sweep" /\ phase' = "sweep"
  BY DEF Heap!FreeZeroRefcount, Heap!FreeCycles
<1>2. mem \in [Objects -> {"object", "zombie", "freed"}]
  BY DEF HeapInv, HeapTypes
<1>3. \A p \in Objects \ {o} : mem'[p] = mem[p]
  <2>1. PICK fires, js, oldE, oldR : Freed(o, fires, js, oldE, oldR)
    BY <1>1, FreeObjectIs
  <2> QED
    BY <1>2, <2>1 DEF Freed
<1> QED
  BY <1>1, <1>3, FreeObjectStep

LEMMA HeapStep ==
  ASSUME HeapInv, Heap!Next
  PROVE  HeapInv'
<1>1. CASE Heap!Script
  BY <1>1, ScriptStep
<1>2. CASE Heap!RunGC
  BY <1>2, RunGCStep
<1>3. CASE Heap!EndSweep
  BY <1>3, EndSweepStep
<1>4. CASE \E o \in Objects : Heap!FreeZeroRefcount(o) \/ Heap!FreeCycles(o)
  BY <1>4, FreeStep
<1> QED
  BY <1>1, <1>2, <1>3, <1>4 DEF Heap!Next, Heap!Objs, Objects

LEMMA HeapInvariant == Spec => [](component = "heap" => HeapInv)
<1> DEFINE I == component = "heap" => HeapInv
<1>1. Init => I
  BY HeapStarts DEF Init, heapInit
<1>2. I /\ [Next]_vars => I'
  BY HeapStep, HeapStays DEF Next, vars, heapNext
<1> QED
  BY <1>1, <1>2, PTL DEF Spec

-----------------------------------------------------------------------------
(* What it means. *)

LEMMA Sound == ASSUME HeapInv PROVE Heap!NothingDangles
<1>1. HeapTypes /\ Counted /\ Holders /\ Phases
  BY DEF HeapInv
<1>2. \A x \in Objects : rc[x] = Heap!Refs(x) /\ rc[x] \in Nat
  BY <1>1, RefsAre DEF Counted, HeapTypes
<1>3. ASSUME phase = "run", NEW x \in Objects
      PROVE  mem[x] # "zombie" /\ (Heap!Refs(x) > 0 => mem[x] = "object")
  <2>1. garbage = {}
    BY <1>1, <1>3 DEF Phases
  <2>2. mem[x] # "zombie"
    BY <1>1, <2>1 DEF Phases
  <2> QED
    BY <1>2, <2>1, <2>2, Alive
<1> QED
  BY <1>1, <1>2, <1>3 DEF Heap!NothingDangles, Heap!Objs, Objects, Holders

\* What JavaScript can get at is referred to from outside the garbage.
LEMMA ReachableLives ==
  ASSUME HeapInv, NEW o \in Heap!Reachable
  PROVE  o \in Objects /\ rc[o] > 0 /\ o \notin garbage /\ mem[o] = "object"
<1>1. HeapTypes /\ Apart
  BY DEF HeapInv
<1>2. PICK S : S = {x \in Objects : rc[x] > 0 /\ x \notin garbage}
  OBVIOUS
<1>3. ASSUME NEW x \in Objects, x \in roots \/ JobsTo(finJobs, x) > 0 PROVE x \in S
  <2>1. rc[x] > 0
    BY <1>3, Parts
  <2>2. x \notin garbage
    <3>1. finJobs \in Seq(HeapJobs)
      BY <1>1 DEF HeapTypes
    <3>2. JobsTo(finJobs, x) > 0
            => \E i \in 1..Len(finJobs) : finJobs[i].callback = x \/ finJobs[i].held = x
      BY <3>1, JobsReach
    <3> QED
      BY <1>1, <1>3, <3>2 DEF Apart
  <2> QED
    BY <1>2, <2>1, <2>2
<1>4. ASSUME NEW p \in S, NEW y \in Objects, Heap!RefersTo(p, y) PROVE y \in S
  <2>1. p \in Objects \ garbage
    BY <1>2
  <2>2. \/ y \in links[p] \/ callback[p] = y
        \/ \E r \in weakRecords : r.key = p /\ r.value = y
        \/ \E e \in entries : e.registry = p /\ y \in {e.held, e.token}
    BY <1>4 DEF Heap!RefersTo
  <2>3. y \notin garbage
    BY <1>1, <2>1, <2>2 DEF Apart
  <2>4. rc[y] > 0
    BY <2>1, <2>2, Alive
  <2> QED
    BY <1>2, <2>3, <2>4
<1>5. S \in SUBSET Objects
  BY <1>2
<1>6. o \in Objects /\ o \in S
  <2>1. \A x \in Objects : x \in roots \/ Heap!FromJobs(finJobs, x) > 0 => x \in S
    BY <1>3, FromAre
  <2>2. \A p \in S, y \in Objects : Heap!RefersTo(p, y) => y \in S
    BY <1>4
  <2> QED
    BY <1>5, <2>1, <2>2 DEF Heap!Reachable, Heap!Objs, Objects
<1> QED
  BY <1>2, <1>6, Alive

LEMMA CollectsStep ==
  ASSUME HeapInv, Heap!Next
  PROVE  Heap!Collects
<1>1. CASE Heap!Script
  <2>1. phase = "run" /\ UNCHANGED mem /\ phase' # "sweep"
    BY <1>1, ScriptStep
  <2> QED
    BY <2>1, ReachableLives DEF Heap!Collects
<1>2. CASE Heap!RunGC
  <2>1. UNCHANGED mem
    BY <1>2 DEF Heap!RunGC
  <2> QED
    BY <1>2, <2>1, RunGCStep, ReachableLives DEF Heap!Collects
<1>3. CASE Heap!EndSweep
  BY <1>3, EndSweepStep, ReachableLives DEF Heap!Collects
<1>4. ASSUME NEW o \in Objects, Heap!FreeZeroRefcount(o) \/ Heap!FreeCycles(o)
      PROVE  Heap!Collects
  <2>1. /\ o \in pending /\ phase \in {"free", "sweep"} /\ (phase = "sweep" => phase' = "sweep")
        /\ \A p \in Objects \ {o} : mem'[p] = mem[p]
    BY <1>4, FreeStep
  <2>2. o \notin Heap!Reachable
    <3>1. rc[o] = 0 \/ o \in garbage
      BY <2>1 DEF HeapInv, Phases
    <3> QED
      BY <3>1, ReachableLives
  <2>3. \A p \in Heap!Reachable : mem'[p] = "object"
    BY <2>1, <2>2, ReachableLives
  <2> QED
    BY <2>1, <2>3 DEF Heap!Collects
<1> QED
  BY <1>1, <1>2, <1>3, <1>4 DEF Heap!Next, Heap!Objs, Objects

\* A step loses no entry of a registry that goes on, unless its target still is there or a
\* job was queued.
LEMMA Told ==
  ASSUME HeapInv, Heap!Next, NEW e \in entries \ entries', mem'[e.target] # "object",
         e.registry \in Heap!Live' \ garbage
  PROVE  Len(finJobs') > Len(finJobs)
<1>1. HeapTypes /\ Holders /\ Apart /\ e \in HeapEntries
  BY DEF HeapInv, HeapTypes
<1>2. e.target \in Objects /\ e.registry \in Objects /\ e.held \in Things
      /\ mem[e.target] = "object"
  BY <1>1 DEF HeapEntries, Holders
<1>3. ~Heap!Script
  BY <1>2, ScriptStep
<1>4. ~Heap!RunGC /\ ~Heap!EndSweep
  BY DEF Heap!RunGC, Heap!EndSweep
<1>5. PICK o \in Objects : Heap!FreeZeroRefcount(o) \/ Heap!FreeCycles(o)
  BY <1>3, <1>4 DEF Heap!Next, Heap!Objs, Objects
<1>6. /\ o \in pending /\ Heap!FreeObject(o) /\ \A p \in Objects \ {o} : mem'[p] = mem[p]
  BY <1>5, FreeStep
<1>7. PICK fires, js, oldE, oldR : Freed(o, fires, js, oldE, oldR)
  BY <1>6, FreeObjectIs
<1>8. e.target = o
  BY <1>2, <1>6
<1>9. ASSUME NEW x \in {e.held, callback[e.registry]} PROVE ~Heap!Dying(x)
  <2>1. x \notin garbage /\ x \in Things
    <3>1. e.registry \in Objects \ garbage /\ callback[e.registry] \in Things
      BY <1>1, <1>2 DEF HeapTypes
    <3>2. callback[e.registry] \notin garbage /\ e.held \notin garbage
      BY <1>1, <3>1 DEF Apart
    <3> QED
      BY <1>2, <3>1, <3>2
  <2>2. CASE x = 0
    BY <2>2 DEF Heap!Dying, Heap!None
  <2>3. CASE x # 0
    <3>1. x \in Objects /\ rc[x] > 0
      BY <1>2, <2>1, <2>3, Alive DEF Things
    <3>2. mem[x] = "object"
      BY <2>1, <3>1, Alive
    <3> QED
      BY <2>1, <3>2 DEF Heap!Dying
  <2> QED
    BY <2>2, <2>3
<1>10. e \in fires
  BY <1>7, <1>8, <1>9 DEF Freed
<1>11. /\ finJobs' = finJobs \o js /\ finJobs \in Seq(HeapJobs) /\ js \in Seq(HeapJobs)
       /\ Len(js) = Cardinality(fires)
  BY <1>1, <1>7 DEF Freed, HeapTypes
<1>12. IsFiniteSet(fires)
  <2>1. fires \subseteq entries /\ IsFiniteSet(entries)
    BY <1>1, <1>7 DEF Freed, HeapTypes
  <2> QED
    BY <2>1, FS_Subset
<1>13. Cardinality(fires) > 0
  BY <1>10, <1>12, Counting
<1> QED
  BY <1>11, <1>13

LEMMA TellsStep ==
  ASSUME HeapInv, Heap!Next
  PROVE  Heap!TellsRegistry
<1>1. HeapInv'
  BY HeapStep
<1>2. ASSUME NEW i \in DOMAIN finJobs', NEW x \in {finJobs'[i].callback, finJobs'[i].held} \ {0}
      PROVE  mem'[x] = "object" /\ x \notin garbage
  <2>1. finJobs' \in Seq(HeapJobs') /\ Apart' /\ Counted' /\ Phases' /\ Holders' /\ HeapTypes'
    BY <1>1 DEF HeapInv, HeapTypes
  <2>2. i \in 1..Len(finJobs') /\ x \in Objects'
    <3>1. i \in 1..Len(finJobs') /\ finJobs'[i] \in HeapJobs'
      BY <2>1
    <3>2. finJobs'[i].callback \in Things' /\ finJobs'[i].held \in Things'
      BY <3>1 DEF HeapJobs
    <3> QED
      BY <3>1, <3>2 DEF Things
  <2>3. x \notin garbage'
    BY <2>1, <2>2 DEF Apart
  <2>4. JobsTo(finJobs', x) \in Nat /\ JobsTo(finJobs', x) > 0
    BY <2>1, <2>2, JobsReach
  <2>5. rc'[x] = RefsTo(roots', links', weakRecords', callback', entries', finJobs', Objects', x)
    BY <2>1, <2>2 DEF Counted, Total
  <2>6. rc'[x] > 0
    <3>1. IsFiniteSet(Objects') /\ IsFiniteSet(weakRecords') /\ IsFiniteSet(entries')
      BY <2>1 DEF HeapTypes
    <3>2. /\ LinksTo(links', Objects', x) \in Nat /\ RecordsTo(weakRecords', x) \in Nat
          /\ EntriesTo(callback', entries', x) \in Nat /\ CallbacksTo(callback', Objects', x) \in Nat
      BY <3>1, LinksReach, RecordsReach, EntriesReach, CallbacksReach
    <3> QED
      BY <2>4, <2>5, <3>2 DEF RefsTo
  <2>7. mem'[x] = "object"
    BY <2>1, <2>2, <2>3, <2>6 DEF HeapTypes, Holders, Phases
  <2>8. x \notin garbage
    <3>1. CASE garbage' = garbage
      BY <2>3, <3>1
    <3>2. CASE Heap!RunGC
      BY <3>2 DEF Heap!RunGC, Heap!Runs, HeapInv, Phases
    <3>3. CASE Heap!EndSweep
      <4>1. finJobs' = finJobs
        BY <3>3 DEF Heap!EndSweep
      <4> QED
        BY <2>2, <4>1 DEF HeapInv, Apart
    <3>4. garbage' = garbage \/ Heap!RunGC \/ Heap!EndSweep
      BY ScriptStep, FreeStep DEF Heap!Next, Heap!Objs, Objects
    <3> QED
      BY <3>1, <3>2, <3>3, <3>4
  <2> QED
    BY <2>7, <2>8
<1>3. \A e \in entries \ entries' :
        (mem'[e.target] # "object" /\ e.registry \in Heap!Live' \ garbage) => Len(finJobs') > Len(finJobs)
  BY Told
<1> QED
  BY <1>2, <1>3 DEF Heap!TellsRegistry, Heap!None

\* Whatever a script makes, links, forgets and registers, and in whatever order dead objects
\* are processed, every ref_count is the number of references there are, and what a WeakRef,
\* a WeakMap or a registry points at has not been freed: JS_FreeValueRT, free_object,
\* reset_weak_ref and gc_free_cycles in quickjs.c.
THEOREM CountsAreReferences == Spec => []NothingDangles
<1>1. (component = "heap" => HeapInv) => NothingDangles
  BY Sound DEF NothingDangles
<1> QED
  BY <1>1, HeapInvariant, PTL

\* JS_RunGC (gc_decref, gc_scan, gc_free_cycles) takes exactly the objects that JavaScript and
\* the queued jobs cannot get at, cycles through WeakMaps and registries included, frees them
\* all, and no step frees an object that JavaScript can get at.
THEOREM CollectsExactly == Spec => CollectsGarbage
<1>1. (component = "heap" => HeapInv) /\ [Next]_vars => [component = "heap" => Heap!Collects]_vars
  BY CollectsStep DEF Next, heapNext
<1> QED
  BY <1>1, HeapInvariant, PTL DEF Spec, CollectsGarbage

\* However a target and its registry, callback and held value die near each other, a registry
\* that goes on has a job queued when its target goes, and the values of every queued job are
\* there and stay: reset_weak_ref and js_finrec_job in quickjs.c.
THEOREM RegistryIsTold == Spec => CallbackDue
<1>1. (component = "heap" => HeapInv) /\ [Next]_vars => [component = "heap" => Heap!TellsRegistry]_vars
  BY TellsStep DEF Next, heapNext
<1> QED
  BY <1>1, HeapInvariant, PTL DEF Spec, CallbackDue
=============================================================================
