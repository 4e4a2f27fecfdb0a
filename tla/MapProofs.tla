------------------------------ MODULE MapProofs ------------------------------
(***************************************************************************)
(* Proofs about the hash table of Map and Set and its walkers (JsMap), for *)
(* any keys, hash function and number of records and walkers.              *)
(***************************************************************************)
EXTENDS EngineControl, FiniteSetTheorems, SequenceTheorems, TLAPS

-----------------------------------------------------------------------------
(* Sequences as sets. *)

Elems(s) == {s[i] : i \in 1..Len(s)}
Rising(s) == \A i, j \in 1..Len(s) : i < j => s[i] < s[j]

LEMMA Same == ASSUME NEW S PROVE Map!Cardinality(S) = Cardinality(S)
BY DEF Cardinality, Map!Cardinality

\* Select keeps what is in T, and the order.
LEMMA Selected ==
  ASSUME NEW S, NEW s \in Seq(S), NEW T
  PROVE  /\ Map!Select(s, T) \in Seq(S)
         /\ Elems(Map!Select(s, T)) = Elems(s) \cap T
         /\ Rising(s) => Rising(Map!Select(s, T))
<1> DEFINE K == {i \in DOMAIN s : s[i] \in T}
           c == Map!Cardinality(K)
           Upto(i) == {j \in K : j <= i}
           r == [i \in K |-> Map!Cardinality(Upto(i))]
           Place(l) == CHOOSE i \in K : Map!Cardinality(Upto(i)) = l
<1>1. /\ DOMAIN s = 1..Len(s) /\ Len(s) \in Nat /\ K \subseteq 1..Len(s) /\ K \subseteq Nat
      /\ \A i \in K : s[i] \in S /\ s[i] \in T
  OBVIOUS
<1>2. IsFiniteSet(K) /\ c \in Nat
  <2>1. IsFiniteSet(1..Len(s))
    BY <1>1, FS_Interval
  <2> HIDE DEF K
  <2> QED
    BY <1>1, <2>1, Same, FS_Subset, FS_CardinalityType
<1>3. ASSUME NEW i \in K PROVE IsFiniteSet(Upto(i)) /\ Map!Cardinality(Upto(i)) \in 1..c
  <2>1. Upto(i) \subseteq K /\ i \in Upto(i)
    BY <1>1
  <2>2. IsFiniteSet(Upto(i)) /\ Map!Cardinality(Upto(i)) <= c /\ Map!Cardinality(Upto(i)) \in Nat
    BY <1>2, <2>1, Same, FS_Subset, FS_CardinalityType
  <2>3. Map!Cardinality(Upto(i)) # 0
    BY <2>1, <2>2, Same, FS_EmptySet
  <2> HIDE DEF Upto, K, c
  <2> QED
    BY <1>2, <2>2, <2>3
<1>4. ASSUME NEW i \in K, NEW j \in K, i < j PROVE Map!Cardinality(Upto(i)) < Map!Cardinality(Upto(j))
  <2>1. j \notin Upto(i) /\ Upto(i) \cup {j} \subseteq Upto(j)
    BY <1>1, <1>4
  <2>2. Map!Cardinality(Upto(i) \cup {j}) = Map!Cardinality(Upto(i)) + 1
    BY <1>3, <2>1, Same, FS_AddElement
  <2>3. Map!Cardinality(Upto(i) \cup {j}) <= Map!Cardinality(Upto(j))
    BY <1>3, <2>1, Same, FS_Subset
  <2>4. Map!Cardinality(Upto(i)) \in 1..c /\ Map!Cardinality(Upto(j)) \in 1..c
    BY <1>3
  <2> HIDE DEF Upto, K, c
  <2> QED
    BY <1>2, <2>2, <2>3, <2>4
<1>5. ASSUME NEW l \in 1..c PROVE \E i \in K : Map!Cardinality(Upto(i)) = l
  <2>1. r \in [K -> 1..c] /\ \A i, j \in K : r[i] = r[j] => i = j
    <3>1. \A i \in K : r[i] = Map!Cardinality(Upto(i)) /\ r[i] \in 1..c
      BY <1>3
    <3>2. \A i, j \in K : i < j => r[i] < r[j]
      BY <1>4, <3>1
    <3> HIDE DEF r, Upto, c
    <3> QED
      <4>1. r \in [K -> 1..c]
        BY <3>1 DEF r
      <4>2. ASSUME NEW i \in K, NEW j \in K, r[i] = r[j] PROVE i = j
        BY <1>1, <1>2, <3>1, <3>2, <4>2
      <4> QED
        BY <4>1, <4>2
  <2>2. IsFiniteSet(1..c) /\ Map!Cardinality(1..c) = c
    BY <1>2, Same, FS_Interval
  <2>3. r \in Injection(K, 1..c)
    BY <2>1 DEF Injection, IsInjective
  <2>4. r \in Surjection(K, 1..c)
    BY <2>2, <2>3, Same, FS_Injection
  <2> QED
    BY <2>4 DEF Surjection
<1>6. \A l \in 1..c : Place(l) \in K /\ Map!Cardinality(Upto(Place(l))) = l
  BY <1>5
<1>7. \A i \in K : Place(Map!Cardinality(Upto(i))) = i
  <2> SUFFICES ASSUME NEW i \in K PROVE Place(Map!Cardinality(Upto(i))) = i
    OBVIOUS
  <2>1. Place(Map!Cardinality(Upto(i))) \in K
        /\ Map!Cardinality(Upto(Place(Map!Cardinality(Upto(i))))) = Map!Cardinality(Upto(i))
    BY <1>3, <1>6
  <2> HIDE DEF Place, Upto, K, c
  <2>2. ~(Place(Map!Cardinality(Upto(i))) < i) /\ ~(i < Place(Map!Cardinality(Upto(i))))
    BY <1>2, <1>3, <1>4, <2>1
  <2>3. Place(Map!Cardinality(Upto(i))) \in Nat /\ i \in Nat
    BY <1>1, <2>1
  <2> QED
    BY <2>2, <2>3
<1>8. \A l, m \in 1..c : l < m => Place(l) < Place(m)
  <2> HIDE DEF Place, Upto, K, c
  <2>1. ASSUME NEW l \in 1..c, NEW m \in 1..c, l < m PROVE Place(l) < Place(m)
    <3>1. Place(l) \in K /\ Place(m) \in K /\ Map!Cardinality(Upto(Place(l))) = l
          /\ Map!Cardinality(Upto(Place(m))) = m
      BY <1>6
    <3>2. Place(m) # Place(l)
      BY <1>2, <2>1, <3>1
    <3>3. ~(Place(m) < Place(l))
      BY <1>2, <1>4, <2>1, <3>1
    <3>4. Place(l) \in Nat /\ Place(m) \in Nat
      BY <1>1, <3>1
    <3> QED
      BY <3>2, <3>3, <3>4
  <2> QED
    BY <2>1
<1> DEFINE t == [l \in 1..c |-> s[Place(l)]]
<1>9. Map!Select(s, T) = t
  BY DEF Map!Select
<1>10. t \in Seq(S) /\ Len(t) = c /\ \A l \in 1..c : t[l] = s[Place(l)]
  <2> HIDE DEF Place, c
  <2>1. t \in [1..c -> S]
    BY <1>1, <1>6
  <2> QED
    BY <1>2, <2>1
<1> HIDE DEF t, Place
<1>11. Elems(t) = Elems(s) \cap T
  <2>1. ASSUME NEW x \in Elems(t) PROVE x \in Elems(s) /\ x \in T
    BY <1>1, <1>6, <1>10, <2>1 DEF Elems
  <2>2. ASSUME NEW x \in Elems(s), x \in T PROVE x \in Elems(t)
    <3>1. PICK i \in K : x = s[i]
      BY <1>1, <2>2 DEF Elems
    <3>2. Map!Cardinality(Upto(i)) \in 1..c /\ t[Map!Cardinality(Upto(i))] = x
      BY <1>3, <1>7, <1>10, <3>1
    <3> QED
      BY <1>10, <3>2 DEF Elems
  <2> QED
    BY <2>1, <2>2
<1>12. ASSUME Rising(s) PROVE Rising(t)
  <2> SUFFICES ASSUME NEW l \in 1..c, NEW m \in 1..c, l < m PROVE t[l] < t[m]
    BY <1>10 DEF Rising
  <2>1. Place(l) \in 1..Len(s) /\ Place(m) \in 1..Len(s) /\ Place(l) < Place(m)
    BY <1>1, <1>6, <1>8
  <2> QED
    BY <1>10, <1>12, <2>1 DEF Rising
<1> QED
  BY <1>9, <1>10, <1>11, <1>12

-----------------------------------------------------------------------------
(* The inductive invariant. *)

Numbers == 1..Len(data)
MapTypes ==
  /\ data \in Seq(MapKeys)
  /\ records \in Seq(Numbers) /\ Rising(records)
  /\ refCounts \in [Numbers -> Nat]
  /\ empty \subseteq Elems(records)
  /\ threshold \in Nat /\ count \in Nat
  /\ walker \in [MapWalkers -> [st : {"new", "on", "done", "gone"}, at : Nat]]

\* The records of the entries that are in the map.
Entries == Elems(records) \ empty
\* No key has two.
Single == \A i, j \in Entries : data[i] = data[j] => i = j

\* The hash table has them in the buckets of their keys, whatever order they have there.
BucketOf(size, i) == MapHash[data[i]] % size
Hashed(size) ==
  /\ table \in [0..(size - 1) -> Seq(Numbers)]
  /\ \A b \in 0..(size - 1) : Elems(table[b]) = {i \in Entries : BucketOf(size, i) = b}
Tabled == \E size \in Nat \ {0} : Hashed(size)

\* A record is counted by the map, unless it is empty, and by the walkers that stand on it.
On(i) == {w \in MapWalkers : walker[w].at = i}
Locked(i) ==
  IsFiniteSet(On(i)) /\ refCounts[i] = Cardinality(On(i)) + (IF i \in empty THEN 0 ELSE 1)
Walks ==
  /\ \A i \in Elems(records) : Locked(i)
  /\ \A w \in MapWalkers :
       /\ walker[w].at # 0 <=> walker[w].st = "on"
       /\ walker[w].at # 0 => walker[w].at \in Elems(records)

MapInv ==
  /\ MapTypes /\ Single /\ Tabled /\ Walks
  /\ IsFiniteSet(Entries) /\ count = Cardinality(Entries)

-----------------------------------------------------------------------------
(* The operators of the code. *)

LEMMA MapConstants == MapHash \in [MapKeys -> Nat] /\ MaxAdds \in Nat
BY ControlAssumption DEF ControlAssumption, Map!HashAssumption, Map!AddsAssumption

LEMMA SetOf == ASSUME NEW S, NEW s \in Seq(S) PROVE Map!ToSet(s) = Elems(s)
BY DEF Map!ToSet, Elems

\* Without takes one element out.
LEMMA TakenOut ==
  ASSUME NEW S, NEW s \in Seq(S), NEW i
  PROVE  /\ Map!Without(s, i) \in Seq(S)
         /\ Elems(Map!Without(s, i)) = Elems(s) \ {i}
         /\ Rising(s) => Rising(Map!Without(s, i))
<1>1. Elems(s) \cap (Elems(s) \ {i}) = Elems(s) \ {i}
  OBVIOUS
<1> QED
  BY <1>1, Selected, SetOf DEF Map!Without

LEMMA Added ==
  ASSUME NEW S, NEW s \in Seq(S), NEW x
  PROVE  /\ Append(s, x) \in Seq(S \cup {x})
         /\ Elems(Append(s, x)) = Elems(s) \cup {x}
         /\ Rising(s) /\ (\A y \in Elems(s) : y < x) => Rising(Append(s, x))
<1>1. /\ s \in Seq(S \cup {x}) /\ Len(s) \in Nat /\ Len(Append(s, x)) = Len(s) + 1
      /\ \A i \in 1..Len(s) : Append(s, x)[i] = s[i]
      /\ Append(s, x)[Len(s) + 1] = x
  OBVIOUS
<1>2. \A i : i \in 1..(Len(s) + 1) <=> i \in 1..Len(s) \/ i = Len(s) + 1
  BY <1>1
<1> DEFINE t == Append(s, x)
<1>3. t \in Seq(S \cup {x})
  BY <1>1
<1> HIDE DEF t
<1>4. Elems(t) = Elems(s) \cup {x}
  BY <1>1, <1>2 DEF Elems, t
<1>5. ASSUME Rising(s), \A y \in Elems(s) : y < x PROVE Rising(t)
  <2> SUFFICES ASSUME NEW i \in 1..(Len(s) + 1), NEW j \in 1..(Len(s) + 1), i < j
               PROVE  t[i] < t[j]
    BY <1>1 DEF Rising, t
  <2>1. i \in 1..Len(s) /\ t[i] = s[i] /\ s[i] \in Elems(s)
    BY <1>1, <1>2 DEF t, Elems
  <2>2. CASE j \in 1..Len(s)
    BY <1>1, <1>5, <2>1, <2>2 DEF t, Rising
  <2>3. CASE j = Len(s) + 1
    BY <1>1, <1>5, <2>1, <2>3 DEF t
  <2> QED
    BY <1>2, <2>2, <2>3
<1> QED
  BY <1>3, <1>4, <1>5 DEF t

LEMMA SizeIs ==
  ASSUME NEW size \in Nat \ {0}, Hashed(size)
  PROVE  Map!Size = size
<1>1. DOMAIN table = 0..(size - 1)
  BY DEF Hashed
<1>2. Cardinality(0..(size - 1)) = size
  BY FS_Interval
<1> QED
  BY <1>1, <1>2, Same DEF Map!Size

LEMMA InRange == ASSUME NEW k \in MapKeys, NEW size \in Nat \ {0}
  PROVE  Map!Bucket(k, size) \in 0..(size - 1) /\ Map!Bucket(k, size) = MapHash[k] % size
BY MapConstants DEF Map!Bucket

\* map_find_record finds the record of a key, if there is one.
LEMMA Finds ==
  ASSUME MapInv, NEW k \in MapKeys
  PROVE  \/ Map!Find(k) = 0 /\ \A i \in Entries : data[i] # k
         \/ Map!Find(k) \in Entries /\ data[Map!Find(k)] = k
<1>1. PICK size \in Nat \ {0} : Hashed(size)
  BY DEF MapInv, Tabled
<1> DEFINE b == Map!Bucket(k, size)
           found == Map!Select(table[b], {i \in Map!Ids : data[i] = k})
<1>2. b \in 0..(size - 1) /\ b = MapHash[k] % size
  BY InRange
<1>3. Map!Size = size
  BY <1>1, SizeIs
<1>4. table[b] \in Seq(Numbers) /\ Elems(table[b]) = {i \in Entries : BucketOf(size, i) = b}
  BY <1>1, <1>2 DEF Hashed
<1>5. Entries \subseteq Numbers /\ Map!Ids = Numbers
  BY DEF MapInv, MapTypes, Entries, Elems, Numbers, Map!Ids
<1>6. found \in Seq(Numbers) /\ Elems(found) = {i \in Entries : data[i] = k}
  <2>1. found \in Seq(Numbers) /\ Elems(found) = Elems(table[b]) \cap {i \in Map!Ids : data[i] = k}
    BY <1>4, Selected
  <2>2. \A i \in Entries : data[i] = k => BucketOf(size, i) = b
    BY <1>2 DEF BucketOf
  <2> HIDE DEF found, b
  <2> QED
    BY <1>4, <1>5, <2>1, <2>2
<1>7. Map!Find(k) = IF found = <<>> THEN 0 ELSE found[1]
  BY <1>3 DEF Map!Find
<1> HIDE DEF found, b
<1>8. CASE found = <<>>
  BY <1>6, <1>7, <1>8 DEF Elems
<1>9. CASE found # <<>>
  <2>1. found[1] \in Elems(found)
    BY <1>6, <1>9 DEF Elems
  <2> QED
    BY <1>6, <1>7, <1>9, <2>1
<1> QED
  BY <1>8, <1>9

-----------------------------------------------------------------------------
(* The steps. *)

\* Records are numbers of entries that were made.
LEMMA RecordsKnown ==
  ASSUME MapTypes
  PROVE  /\ Len(data) \in Nat /\ 0 \notin Numbers /\ Numbers \subseteq Nat /\ DOMAIN data = Numbers
         /\ Elems(records) \subseteq Numbers /\ Entries \subseteq Numbers
         /\ \A i \in Numbers : data[i] \in MapKeys
BY DEF MapTypes, Elems, Entries, Numbers

\* What a new record at the end of the list is.
LEMMA NewRecord ==
  ASSUME MapTypes, NEW k \in MapKeys, data' = Append(data, k)
  PROVE  /\ Len(data') = Len(data) + 1 /\ data' \in Seq(MapKeys)
         /\ Numbers' = Numbers \cup {Len(data) + 1}
         /\ Len(data) + 1 \notin Numbers /\ Len(data) + 1 # 0
         /\ \A i \in Numbers : data'[i] = data[i] /\ i < Len(data) + 1
         /\ data'[Len(data) + 1] = k
BY DEF MapTypes, Numbers

LEMMA OnlyLinked ==
  ASSUME MapInv, NEW i \in Nat \ {0}, i \notin Elems(records)
  PROVE  On(i) = {}
BY DEF MapInv, Walks, On

\* js_map_set of a key that is not there.
LEMMA SetStep ==
  ASSUME MapInv, NEW k \in MapKeys, Map!Set(k)
  PROVE  MapInv'
<1>0. PICK id : id = Len(data) + 1
  OBVIOUS
<1>1. /\ Map!Find(k) = 0 /\ data' = Append(data, k) /\ records' = Append(records, id)
      /\ refCounts' = Append(refCounts, 1) /\ count' = count + 1
      /\ UNCHANGED <<empty, walker>>
  BY <1>0 DEF Map!Set
<1>2. \A i \in Entries : data[i] # k
  <2>1. 0 \notin Entries
    BY RecordsKnown DEF MapInv
  <2> QED
    BY <1>1, <2>1, Finds
<1>3. /\ data' \in Seq(MapKeys) /\ Len(data') = id
      /\ Numbers' = Numbers \cup {id} /\ id \notin Numbers /\ id \in Nat \ {0}
      /\ \A i \in Numbers : data'[i] = data[i] /\ i < id
      /\ data'[id] = k
  <2>1. id \in Nat \ {0}
    BY <1>0, RecordsKnown DEF MapInv
  <2> QED
    BY <1>0, <1>1, <2>1, NewRecord DEF MapInv
<1>4. /\ records' \in Seq(Numbers') /\ Rising(records)' /\ Elems(records)' = Elems(records) \cup {id}
  <2>1. records \in Seq(Numbers) /\ Rising(records) /\ \A i \in Elems(records) : i < id
    BY <1>3, RecordsKnown DEF MapInv, MapTypes
  <2> QED
    BY <1>1, <1>3, <2>1, Added
<1>5. Entries' = Entries \cup {id} /\ id \notin Entries /\ Entries \subseteq Numbers
  BY <1>1, <1>3, <1>4, RecordsKnown DEF MapInv, MapTypes, Entries
<1>6. /\ refCounts' \in [Numbers' -> Nat] /\ refCounts'[id] = 1
      /\ \A i \in Numbers : refCounts'[i] = refCounts[i]
  <2>1. refCounts \in Seq(Nat) /\ Len(refCounts) = Len(data) /\ DOMAIN refCounts = Numbers
    <3>1. Len(data) \in Nat /\ refCounts \in [1..Len(data) -> Nat]
      BY RecordsKnown DEF MapInv, MapTypes, Numbers
    <3> QED
      BY <3>1 DEF Numbers
  <2>2. refCounts' \in Seq(Nat) /\ Len(refCounts') = id /\ refCounts'[id] = 1
        /\ \A i \in 1..Len(data) : refCounts'[i] = refCounts[i]
    BY <1>0, <1>1, <2>1
  <2> QED
    BY <1>0, <1>3, <2>2 DEF Numbers
<1>7. Single'
  BY <1>2, <1>3, <1>5 DEF MapInv, Single
<1>8. Tabled'
  <2>1. PICK size \in Nat \ {0} : Hashed(size)
    BY DEF MapInv, Tabled
  <2> DEFINE new == IF size = 1 THEN 4 ELSE size * 2
  <2>2. Map!Size = size /\ new \in Nat \ {0}
    BY <2>1, SizeIs
  <2>3. \A i \in Entries : BucketOf(size, i)' = BucketOf(size, i)
    BY <1>3, <1>5 DEF BucketOf
  <2>4. CASE table' = Map!Rehash(records', data', new)
    <3> HIDE DEF new
    <3>1. \A b \in 0..(new - 1) :
            table'[b] = Map!Select(records', {i \in Map!ToSet(records') :
                                                i \notin empty /\ Map!Bucket(data'[i], new) = b})
      BY <2>4 DEF Map!Rehash
    <3>2. DOMAIN table' = 0..(new - 1) /\ table' = [b \in 0..(new - 1) |-> table'[b]]
      BY <2>4 DEF Map!Rehash
    <3>3. Map!ToSet(records') = Elems(records)'
      BY <1>4, SetOf
    <3>4. ASSUME NEW b \in 0..(new - 1)
          PROVE  /\ table'[b] \in Seq(Numbers')
                 /\ Elems(table'[b]) = {i \in Entries' : BucketOf(new, i)' = b}
      <4> DEFINE T == {i \in Elems(records)' : i \notin empty /\ Map!Bucket(data'[i], new) = b}
      <4>1. table'[b] = Map!Select(records', T)
        BY <3>1, <3>3
      <4>2. \A i : i \in T <=> i \in Entries' /\ BucketOf(new, i)' = b
        BY <1>1 DEF Entries, BucketOf, Map!Bucket
      <4>3. T \subseteq Elems(records)'
        OBVIOUS
      <4> HIDE DEF T
      <4>4. table'[b] \in Seq(Numbers') /\ Elems(table'[b]) = Elems(records') \cap T
        BY <1>4, <4>1, Selected
      <4> QED
        BY <4>2, <4>3, <4>4
    <3>5. Hashed(new)'
      <4>1. table' \in [0..(new - 1) -> Seq(Numbers')]
        BY <3>2, <3>4
      <4> QED
        BY <3>4, <4>1 DEF Hashed
    <3> QED
      BY <2>2, <3>5 DEF Tabled
  <2>5. CASE table' = [table EXCEPT ![Map!Bucket(k, Map!Size)] = Append(@, id)]
    <3> DEFINE c == Map!Bucket(k, size)
    <3>1. c \in 0..(size - 1) /\ c = BucketOf(size, id)'
      BY <1>3, InRange DEF BucketOf
    <3> HIDE DEF c
    <3>2. /\ table \in [0..(size - 1) -> Seq(Numbers)] /\ DOMAIN table' = 0..(size - 1)
          /\ table' = [a \in 0..(size - 1) |-> table'[a]]
          /\ \A b \in 0..(size - 1) : table'[b] = IF b = c THEN Append(table[b], id) ELSE table[b]
      BY <2>1, <2>2, <2>5, <3>1 DEF Hashed, c
    <3>3. ASSUME NEW b \in 0..(size - 1)
          PROVE  /\ table'[b] \in Seq(Numbers')
                 /\ Elems(table'[b]) = {i \in Entries' : BucketOf(size, i)' = b}
      <4>1. table[b] \in Seq(Numbers) /\ Elems(table[b]) = {i \in Entries : BucketOf(size, i) = b}
        BY <2>1 DEF Hashed
      <4>2. CASE b = c
        <5>1. table'[b] \in Seq(Numbers') /\ Elems(table'[b]) = Elems(table[b]) \cup {id}
          <6>1. table'[b] = Append(table[b], id)
            BY <3>2, <4>2
          <6>2. /\ Append(table[b], id) \in Seq(Numbers \cup {id})
                /\ Elems(Append(table[b], id)) = Elems(table[b]) \cup {id}
            <7>1. table[b] \in Seq(Numbers)
              BY <4>1
            <7> QED
              BY <7>1, Added
          <6> QED
            BY <1>3, <6>1, <6>2
        <5> QED
          BY <1>5, <2>3, <3>1, <4>1, <4>2, <5>1
      <4>3. CASE b # c
        <5>1. table'[b] \in Seq(Numbers')
          BY <1>3, <3>2, <4>1, <4>3
        <5> QED
          BY <1>5, <2>3, <3>1, <3>2, <4>1, <4>3, <5>1
      <4> QED
        BY <4>2, <4>3
    <3>4. Hashed(size)'
      <4>1. table' \in [0..(size - 1) -> Seq(Numbers')]
        BY <3>2, <3>3
      <4> QED
        BY <3>3, <4>1 DEF Hashed
    <3> QED
      BY <3>4 DEF Tabled
  <2> QED
    BY <1>0, <1>1, <2>2, <2>4, <2>5 DEF Map!Set
<1>9. Walks'
  <2>1. \A i : On(i)' = On(i)
    BY <1>1 DEF On
  <2>2. On(id) = {}
    BY <1>3, OnlyLinked, RecordsKnown DEF MapInv
  <2>3. Locked(id)'
    <3>1. id \notin empty
      BY <1>3, RecordsKnown DEF MapInv, MapTypes
    <3> QED
      <4>1. On(id)' = {} /\ IsFiniteSet({}) /\ Cardinality({}) = 0
        BY <2>1, <2>2, FS_EmptySet
      <4>2. id \notin empty' /\ refCounts'[id] = 1
        BY <1>1, <1>6, <3>1
      <4> QED
        BY <4>1, <4>2 DEF Locked
  <2>4. ASSUME NEW i \in Elems(records) PROVE Locked(i)'
    <3>1. Locked(i) /\ refCounts'[i] = refCounts[i]
      BY <1>6, RecordsKnown DEF MapInv, Walks
    <3> QED
      BY <1>1, <2>1, <3>1 DEF Locked
  <2>5. \A i \in Elems(records)' : Locked(i)'
    BY <1>4, <2>3, <2>4
  <2> QED
    BY <1>1, <1>4, <2>5 DEF MapInv, Walks
<1>10. MapTypes'
  <2>1. empty' \subseteq Elems(records)'
    BY <1>1, <1>4 DEF MapInv, MapTypes
  <2>2. threshold' \in Nat /\ count' \in Nat
    <3>1. PICK size \in Nat \ {0} : Hashed(size)
      BY DEF MapInv, Tabled
    <3>2. Map!Size = size
      BY <3>1, SizeIs
    <3> QED
      BY <1>1, <3>2 DEF MapInv, MapTypes, Map!Set
  <2> QED
    BY <1>1, <1>3, <1>4, <1>6, <2>1, <2>2 DEF MapInv, MapTypes
<1>11. IsFiniteSet(Entries)' /\ count' = Cardinality(Entries')
  BY <1>1, <1>5, FS_AddElement DEF MapInv
<1> QED
  BY <1>7, <1>8, <1>9, <1>10, <1>11 DEF MapInv

\* The records of ids are taken out of the map; those that walkers stand on stay, empty.
LEMMA UnlinkStep ==
  ASSUME MapInv, NEW ids, ids \subseteq Entries, Map!Unlinked(ids),
         UNCHANGED <<data, threshold, walker>>
  PROVE  MapInv'
<1>1. /\ table' = [b \in DOMAIN table |-> Map!Select(table[b], Map!Ids \ ids)]
      /\ records' = Map!Select(records, {i \in Map!Ids : i \in ids => refCounts[i] > 1})
      /\ refCounts' = [i \in Map!Ids |-> IF i \in ids THEN refCounts[i] - 1 ELSE refCounts[i]]
      /\ empty' = empty \union {i \in ids : refCounts[i] > 1}
      /\ count' = count - Cardinality(ids)
  BY Same DEF Map!Unlinked
<1>2. /\ Entries \subseteq Numbers /\ Map!Ids = Numbers /\ Elems(records) \subseteq Numbers
      /\ Numbers' = Numbers
  BY RecordsKnown DEF MapInv, Map!Ids, Numbers
<1>3. /\ \A i \in Elems(records) : Locked(i)
      /\ \A w \in MapWalkers : walker[w].at # 0 => walker[w].at \in Elems(records)
      /\ refCounts \in [Numbers -> Nat] /\ empty \subseteq Elems(records)
  BY DEF MapInv, MapTypes, Walks
<1>4. /\ records' \in Seq(Numbers) /\ Rising(records)'
      /\ \A i : i \in Elems(records)' <=> i \in Elems(records) /\ (i \in ids => refCounts[i] > 1)
  <2> DEFINE T == {i \in Map!Ids : i \in ids => refCounts[i] > 1}
  <2>1. records \in Seq(Numbers) /\ Rising(records) /\ records' = Map!Select(records, T)
    BY <1>1 DEF MapInv, MapTypes
  <2>2. \A i \in Elems(records) : i \in T <=> (i \in ids => refCounts[i] > 1)
    BY <1>2
  <2> HIDE DEF T
  <2>3. records' \in Seq(Numbers) /\ Rising(records') /\ Elems(records') = Elems(records) \cap T
    BY <2>1, Selected
  <2> QED
    BY <2>2, <2>3
<1>5. Entries' = Entries \ ids
  BY <1>1, <1>2, <1>4 DEF Entries
<1>6. ASSUME NEW i \in Elems(records)' PROVE Locked(i)' /\ refCounts'[i] \in Nat
  <2>1. Locked(i) /\ i \in Numbers /\ i \in Elems(records) /\ (i \in ids => refCounts[i] > 1)
    BY <1>2, <1>3, <1>4
  <2>2. On(i)' = On(i) /\ refCounts'[i] = IF i \in ids THEN refCounts[i] - 1 ELSE refCounts[i]
    BY <1>1, <1>2, <2>1 DEF On
  <2>3. i \in empty' <=> i \in empty \/ i \in ids
    BY <1>1, <2>1
  <2>4. i \in ids => i \notin empty
    BY DEF Entries
  <2>5. Cardinality(On(i)) \in Nat /\ refCounts[i] \in Nat /\ IsFiniteSet(On(i))
        /\ refCounts[i] = Cardinality(On(i)) + IF i \in empty THEN 0 ELSE 1
    BY <1>3, <2>1, FS_CardinalityType DEF Locked
  <2>6. refCounts'[i] = Cardinality(On(i)) + IF i \in empty' THEN 0 ELSE 1
    BY <2>2, <2>3, <2>4, <2>5
  <2> QED
    BY <2>2, <2>5, <2>6 DEF Locked
<1>7. ASSUME NEW i \in ids PROVE refCounts[i] - 1 \in Nat
  <2>1. i \in Elems(records) /\ i \notin empty /\ i \in Numbers
    BY <1>2 DEF Entries
  <2>2. Cardinality(On(i)) \in Nat /\ refCounts[i] = Cardinality(On(i)) + 1
    BY <1>3, <2>1, FS_CardinalityType DEF Locked
  <2> QED
    BY <2>2
<1>8. refCounts' \in [Numbers -> Nat]
  BY <1>1, <1>2, <1>3, <1>7
<1>9. ASSUME NEW w \in MapWalkers, walker[w].at # 0 PROVE walker[w].at \in Elems(records)'
  <2> DEFINE i == walker[w].at
  <2>1. i \in Elems(records) /\ w \in On(i)
    BY <1>3, <1>9 DEF On
  <2>2. CASE i \in ids
    <3>1. i \notin empty
      BY <2>2 DEF Entries
    <3>2. IsFiniteSet(On(i)) /\ refCounts[i] = Cardinality(On(i)) + 1
      BY <1>3, <2>1, <3>1 DEF Locked
    <3>3. Cardinality(On(i)) \in Nat /\ Cardinality(On(i)) # 0
      BY <2>1, <3>2, FS_CardinalityType, FS_EmptySet
    <3>4. refCounts[i] > 1
      BY <3>2, <3>3
    <3> QED
      BY <1>4, <2>1, <3>4
  <2>3. CASE i \notin ids
    BY <1>4, <2>1, <2>3
  <2> QED
    BY <2>2, <2>3
<1>10. Walks'
  BY <1>6, <1>9 DEF MapInv, Walks
<1>11. empty' \subseteq Elems(records)'
  BY <1>1, <1>3, <1>4 DEF Entries
<1>12. IsFiniteSet(Entries') /\ count' = Cardinality(Entries') /\ count' \in Nat
  <2>1. IsFiniteSet(Entries) /\ count = Cardinality(Entries) /\ count \in Nat
    BY DEF MapInv, MapTypes
  <2>2. IsFiniteSet(ids) /\ IsFiniteSet(Entries \ ids) /\ Cardinality(ids) \in Nat
        /\ Cardinality(Entries \ ids) \in Nat
    BY <2>1, FS_Subset, FS_CardinalityType
  <2>3. Cardinality(Entries \ ids) = Cardinality(Entries) - Cardinality(ids)
    <3>1. Entries \cap ids = ids
      OBVIOUS
    <3> QED
      BY <2>1, <3>1, FS_Difference
  <2> QED
    BY <1>1, <1>5, <2>1, <2>2, <2>3
<1>13. Tabled'
  <2>1. PICK size \in Nat \ {0} : Hashed(size)
    BY DEF MapInv, Tabled
  <2>2. ASSUME NEW b \in 0..(size - 1)
        PROVE  /\ table'[b] \in Seq(Numbers)
               /\ Elems(table'[b]) = {i \in Entries' : BucketOf(size, i)' = b}
    <3>1. table[b] \in Seq(Numbers) /\ Elems(table[b]) = {i \in Entries : BucketOf(size, i) = b}
      BY <2>1 DEF Hashed
    <3>2. table'[b] = Map!Select(table[b], Numbers \ ids)
      BY <1>1, <1>2, <2>1 DEF Hashed
    <3>3. table'[b] \in Seq(Numbers) /\ Elems(table'[b]) = Elems(table[b]) \cap (Numbers \ ids)
      BY <3>1, <3>2, Selected
    <3>4. \A i : BucketOf(size, i)' = BucketOf(size, i)
      BY DEF BucketOf
    <3> QED
      BY <1>2, <1>5, <3>1, <3>3, <3>4
  <2>3. table' = [b \in 0..(size - 1) |-> table'[b]]
    BY <1>1, <2>1 DEF Hashed
  <2>4. table' \in [0..(size - 1) -> Seq(Numbers)]
    BY <2>2, <2>3
  <2> QED
    BY <1>2, <2>2, <2>4 DEF Tabled, Hashed
<1>14. Single'
  BY <1>5 DEF MapInv, Single
<1>15. MapTypes'
  BY <1>2, <1>4, <1>8, <1>11, <1>12 DEF MapInv, MapTypes
<1> QED
  BY <1>10, <1>12, <1>13, <1>14, <1>15 DEF MapInv

\* js_map_delete and js_map_clear.
LEMMA DeleteStep ==
  ASSUME MapInv, NEW k \in MapKeys, Map!Delete(k)
  PROVE  MapInv'
<1>1. {Map!Find(k)} \subseteq Entries
  BY Finds DEF Map!Delete
<1> QED
  BY <1>1, UnlinkStep DEF Map!Delete

LEMMA ClearStep ==
  ASSUME MapInv, Map!Clear
  PROVE  MapInv'
<1>1. {i \in Map!ToSet(records) : i \notin empty} \subseteq Entries
  BY SetOf DEF MapInv, MapTypes, Entries
<1> QED
  BY <1>1, UnlinkStep DEF Map!Clear

\* js_map_getOrInsert when the callback has inserted the key: another record in its place.
LEMMA ReplaceStep ==
  ASSUME MapInv, NEW k \in MapKeys, Map!Replace(k)
  PROVE  MapInv'
<1>1. PICK id : id = Len(data) + 1
  OBVIOUS
<1>2. PICK old : old = Map!Find(k)
  OBVIOUS
<1>3. PICK rest : rest = IF refCounts[old] > 1 THEN records ELSE Map!Without(records, old)
  OBVIOUS
<1>4. /\ old # 0 /\ data' = Append(data, k)
      /\ records' = Append(rest, id)
      /\ refCounts' = Append([refCounts EXCEPT ![old] = @ - 1], 1)
      /\ empty' = IF refCounts[old] > 1 THEN empty \union {old} ELSE empty
      /\ table' = [table EXCEPT ![Map!Bucket(k, Map!Size)] = Append(Map!Without(@, old), id)]
      /\ UNCHANGED <<threshold, count, walker>>
  BY <1>1, <1>2, <1>3 DEF Map!Replace
<1>5. /\ old \in Entries /\ data[old] = k /\ old \in Numbers
      /\ Elems(records) \subseteq Numbers /\ Entries \subseteq Numbers
      /\ empty \subseteq Elems(records)
  BY <1>2, <1>4, Finds, RecordsKnown DEF MapInv, MapTypes
<1>6. /\ data' \in Seq(MapKeys) /\ Len(data') = id
      /\ Numbers' = Numbers \cup {id} /\ id \notin Numbers /\ id \in Nat \ {0}
      /\ \A i \in Numbers : data'[i] = data[i] /\ i < id
      /\ data'[id] = k
  <2>1. id \in Nat \ {0}
    BY <1>1, RecordsKnown DEF MapInv
  <2> QED
    BY <1>1, <1>4, <2>1, NewRecord DEF MapInv
<1>7. IsFiniteSet(On(old)) /\ Cardinality(On(old)) \in Nat /\ refCounts[old] = Cardinality(On(old)) + 1
  <2>1. old \in Elems(records) /\ old \notin empty
    BY <1>5 DEF Entries
  <2> QED
    BY <2>1, FS_CardinalityType DEF MapInv, Walks, Locked
<1>8. /\ rest \in Seq(Numbers) /\ Rising(rest)
      /\ \A i : i \in Elems(rest) <=> i \in Elems(records) /\ (i = old => refCounts[old] > 1)
  <2>1. records \in Seq(Numbers) /\ Rising(records)
    BY DEF MapInv, MapTypes
  <2>2. CASE refCounts[old] > 1
    BY <1>3, <2>1, <2>2
  <2>3. CASE ~(refCounts[old] > 1)
    <3>1. rest = Map!Without(records, old)
      BY <1>3, <2>3
    <3>2. rest \in Seq(Numbers) /\ Rising(rest) /\ Elems(rest) = Elems(records) \ {old}
      BY <2>1, <3>1, TakenOut
    <3> QED
      BY <2>3, <3>2
  <2> QED
    BY <2>2, <2>3
<1>9. /\ records' \in Seq(Numbers') /\ Rising(records') /\ Elems(records)' = Elems(rest) \cup {id}
      /\ \A i \in Elems(rest) : i \in Numbers
  <2>1. \A i \in Elems(rest) : i < id /\ i \in Numbers
    BY <1>5, <1>6, <1>8
  <2> QED
    BY <1>4, <1>6, <1>8, <2>1, Added
<1>10. Entries' = (Entries \ {old}) \cup {id} /\ id \notin Entries
  <2>1. id \notin empty' /\ id \notin Elems(records)
    BY <1>4, <1>5, <1>6
  <2>2. ASSUME NEW i PROVE i \in Entries' <=> i \in (Entries \ {old}) \cup {id}
    <3>1. CASE i = id
      BY <1>9, <2>1, <3>1 DEF Entries
    <3>2. CASE i = old
      BY <1>4, <1>5, <1>6, <1>8, <1>9, <3>2 DEF Entries
    <3>3. CASE i # id /\ i # old
      BY <1>4, <1>8, <1>9, <3>3 DEF Entries
    <3> QED
      BY <3>1, <3>2, <3>3
  <2> QED
    BY <2>1, <2>2 DEF Entries
<1>11. /\ refCounts' \in [Numbers' -> Nat] /\ refCounts'[id] = 1
       /\ \A i \in Numbers : refCounts'[i] = IF i = old THEN refCounts[i] - 1 ELSE refCounts[i]
  <2> DEFINE q == [refCounts EXCEPT ![old] = @ - 1]
  <2>1. Len(data) \in Nat /\ refCounts \in [1..Len(data) -> Nat] /\ old \in 1..Len(data)
    BY <1>5, RecordsKnown DEF MapInv, MapTypes, Numbers
  <2>2. q \in [1..Len(data) -> Nat]
        /\ \A i \in 1..Len(data) : q[i] = IF i = old THEN refCounts[i] - 1 ELSE refCounts[i]
    BY <1>7, <2>1
  <2> HIDE DEF q
  <2>3. q \in Seq(Nat) /\ Len(q) = Len(data)
    BY <2>1, <2>2
  <2>4. refCounts' = Append(q, 1)
    BY <1>4 DEF q
  <2>5. Append(q, 1) \in Seq(Nat) /\ Len(Append(q, 1)) = Len(q) + 1 /\ Append(q, 1)[Len(q) + 1] = 1
        /\ \A i \in 1..Len(q) : Append(q, 1)[i] = q[i]
    BY <2>3
  <2>6. refCounts' \in Seq(Nat) /\ Len(refCounts') = id /\ refCounts'[id] = 1
        /\ \A i \in 1..Len(data) : refCounts'[i] = q[i]
    BY <1>1, <2>3, <2>4, <2>5
  <2> QED
    BY <1>1, <1>6, <2>2, <2>6 DEF Numbers
<1>12. Single'
  BY <1>5, <1>6, <1>10 DEF MapInv, Single
<1>13. Tabled'
  <2>1. PICK size \in Nat \ {0} : Hashed(size)
    BY DEF MapInv, Tabled
  <2>2. Map!Size = size
    BY <2>1, SizeIs
  <2>3. \A i \in Numbers : BucketOf(size, i)' = BucketOf(size, i)
    BY <1>6 DEF BucketOf
  <2>4. PICK c : c = Map!Bucket(k, size)
    OBVIOUS
  <2>5. c \in 0..(size - 1) /\ c = BucketOf(size, id)' /\ c = BucketOf(size, old)
    BY <1>5, <1>6, <2>4, InRange DEF BucketOf
  <2>6. /\ table \in [0..(size - 1) -> Seq(Numbers)]
        /\ table' = [a \in 0..(size - 1) |-> table'[a]]
        /\ \A b \in 0..(size - 1) :
             table'[b] = IF b = c THEN Append(Map!Without(table[b], old), id) ELSE table[b]
    BY <1>4, <2>1, <2>2, <2>4, <2>5 DEF Hashed
  <2>7. ASSUME NEW b \in 0..(size - 1)
        PROVE  /\ table'[b] \in Seq(Numbers')
               /\ Elems(table'[b]) = {i \in Entries' : BucketOf(size, i)' = b}
    <3>1. table[b] \in Seq(Numbers) /\ Elems(table[b]) = {i \in Entries : BucketOf(size, i) = b}
      BY <2>1 DEF Hashed
    <3>2. CASE b = c
      <4>1. PICK w : w = Map!Without(table[b], old)
        OBVIOUS
      <4>2. w \in Seq(Numbers) /\ Elems(w) = Elems(table[b]) \ {old}
        BY <3>1, <4>1, TakenOut
      <4>3. table'[b] = Append(w, id)
        BY <2>6, <3>2, <4>1
      <4>4. Append(w, id) \in Seq(Numbers \cup {id}) /\ Elems(Append(w, id)) = Elems(w) \cup {id}
        BY <4>2, Added
      <4>5. table'[b] \in Seq(Numbers') /\ Elems(table'[b]) = (Elems(table[b]) \ {old}) \cup {id}
        BY <1>6, <4>2, <4>3, <4>4
      <4>6. Elems(table'[b]) = {i \in Entries' : BucketOf(size, i)' = b}
        BY <1>5, <1>10, <2>3, <2>5, <3>1, <3>2, <4>5
      <4> QED
        BY <4>5, <4>6
    <3>3. CASE b # c
      <4>1. table'[b] = table[b]
        BY <2>6, <3>3
      <4>2. table'[b] \in Seq(Numbers')
        BY <1>6, <3>1, <4>1
      <4> QED
        BY <1>5, <1>10, <2>3, <2>5, <3>1, <3>3, <4>1, <4>2
    <3> QED
      BY <3>2, <3>3
  <2>8. table' \in [0..(size - 1) -> Seq(Numbers')]
    BY <2>6, <2>7
  <2> QED
    BY <2>7, <2>8 DEF Tabled, Hashed
<1>14. Walks'
  <2>1. \A i : On(i)' = On(i)
    BY <1>4 DEF On
  <2>2. Locked(id)'
    <3>1. On(id) = {}
      BY <1>5, <1>6, OnlyLinked
    <3>2. On(id)' = {} /\ IsFiniteSet({}) /\ Cardinality({}) = 0
      BY <2>1, <3>1, FS_EmptySet
    <3>3. id \notin empty' /\ refCounts'[id] = 1
      BY <1>4, <1>5, <1>6, <1>11
    <3> QED
      BY <3>2, <3>3 DEF Locked
  <2>3. ASSUME NEW i \in Elems(rest) PROVE Locked(i)'
    <3>1. i \in Elems(records) /\ Locked(i) /\ i \in Numbers /\ (i = old => refCounts[old] > 1)
      BY <1>5, <1>8 DEF MapInv, Walks
    <3>2. CASE i = old
      <4>1. i \in empty'
        BY <1>4, <3>1, <3>2
      <4>2. refCounts'[old] = refCounts[old] - 1
        BY <1>5, <1>11
      <4>3. refCounts'[i] = Cardinality(On(i))
        BY <1>7, <3>2, <4>2
      <4> QED
        BY <1>7, <2>1, <3>2, <4>1, <4>3 DEF Locked
    <3>3. CASE i # old
      <4>1. (i \in empty' <=> i \in empty) /\ refCounts'[i] = refCounts[i]
        BY <1>4, <1>11, <3>1, <3>3
      <4> QED
        BY <2>1, <3>1, <4>1 DEF Locked
    <3> QED
      BY <3>2, <3>3
  <2>4. ASSUME NEW w \in MapWalkers, walker[w].at # 0 PROVE walker[w].at \in Elems(records)'
    <3>1. walker[w].at \in Elems(records)
      BY <2>4 DEF MapInv, Walks
    <3>2. CASE walker[w].at = old
      <4>1. w \in On(old)
        BY <3>2 DEF On
      <4>2. Cardinality(On(old)) # 0
        BY <1>7, <4>1, FS_EmptySet
      <4>3. refCounts[old] > 1
        BY <1>7, <4>2
      <4> QED
        BY <1>8, <1>9, <3>1, <4>3
    <3>3. CASE walker[w].at # old
      BY <1>8, <1>9, <3>1, <3>3
    <3> QED
      BY <3>2, <3>3
  <2>5. \A i \in Elems(records)' : Locked(i)'
    BY <1>9, <2>2, <2>3
  <2> QED
    BY <1>4, <2>4, <2>5 DEF MapInv, Walks
<1>15. MapTypes'
  <2>1. empty' \subseteq Elems(records)'
    BY <1>4, <1>5, <1>8, <1>9 DEF Entries
  <2> QED
    BY <1>4, <1>6, <1>9, <1>11, <2>1 DEF MapInv, MapTypes
<1>16. IsFiniteSet(Entries)' /\ count' = Cardinality(Entries')
  <2>1. IsFiniteSet(Entries) /\ count = Cardinality(Entries) /\ count \in Nat
    BY DEF MapInv, MapTypes
  <2>2. IsFiniteSet(Entries \ {old}) /\ Cardinality(Entries \ {old}) = Cardinality(Entries) - 1
    BY <1>5, <2>1, FS_RemoveElement
  <2>3. /\ IsFiniteSet((Entries \ {old}) \cup {id})
        /\ Cardinality((Entries \ {old}) \cup {id}) = Cardinality(Entries \ {old}) + 1
    BY <1>10, <2>2, FS_AddElement
  <2> QED
    BY <1>4, <1>10, <2>1, <2>2, <2>3
<1> QED
  BY <1>12, <1>13, <1>14, <1>15, <1>16 DEF MapInv

\* A walker leaves a record and goes to one that is in the map, or to none.
LEMMA WalkStep ==
  ASSUME MapInv, NEW w \in MapWalkers, NEW from, from = walker[w].at,
         NEW to \in Entries \cup {0}, to = from => to = 0,
         NEW st \in {"on", "done", "gone"}, st = "on" <=> to # 0,
         Map!Relock(from, to), walker' = [walker EXCEPT ![w] = [st |-> st, at |-> to]],
         UNCHANGED <<data, table, threshold, count>>
  PROVE  MapInv'
<1>1. /\ refCounts' = [i \in Map!Ids |->
                        refCounts[i] + (IF i = to THEN 1 ELSE 0) - (IF i = from THEN 1 ELSE 0)]
      /\ IF from # 0 /\ refCounts[from] = 1
           THEN records' = Map!Without(records, from) /\ empty' = empty \ {from}
           ELSE UNCHANGED <<records, empty>>
  BY DEF Map!Relock
<1>2. /\ Map!Ids = Numbers /\ Elems(records) \subseteq Numbers /\ Entries \subseteq Numbers
      /\ 0 \notin Numbers /\ Numbers' = Numbers /\ to \in Nat
  BY RecordsKnown DEF MapInv, Map!Ids, Numbers
<1>3. /\ refCounts \in [Numbers -> Nat] /\ empty \subseteq Elems(records)
      /\ records \in Seq(Numbers) /\ Rising(records)
      /\ walker \in [MapWalkers -> [st : {"new", "on", "done", "gone"}, at : Nat]]
      /\ \A i \in Elems(records) : Locked(i)
      /\ \A v \in MapWalkers : /\ walker[v].at # 0 <=> walker[v].st = "on"
                               /\ walker[v].at # 0 => walker[v].at \in Elems(records)
  BY DEF MapInv, MapTypes, Walks
<1>4. /\ walker' \in [MapWalkers -> [st : {"new", "on", "done", "gone"}, at : Nat]]
      /\ walker'[w] = [st |-> st, at |-> to]
      /\ \A v \in MapWalkers : v # w => walker'[v] = walker[v]
  BY <1>2, <1>3
<1>5. /\ from # 0 => from \in Elems(records) /\ w \in On(from)
      /\ \A i : w \in On(i) <=> i = from
      /\ \A i : On(i)' = IF i = to THEN On(i) \cup {w} ELSE On(i) \ {w}
  BY <1>3, <1>4 DEF On
<1>6. ASSUME NEW i \in Elems(records)
      PROVE  /\ IsFiniteSet(On(i)) /\ Cardinality(On(i)) \in Nat
             /\ refCounts[i] = Cardinality(On(i)) + (IF i \in empty THEN 0 ELSE 1)
             /\ i = from => Cardinality(On(i)) # 0
  <2>1. IsFiniteSet(On(i)) /\ refCounts[i] = Cardinality(On(i)) + (IF i \in empty THEN 0 ELSE 1)
    BY <1>3 DEF Locked
  <2>2. Cardinality(On(i)) \in Nat /\ (On(i) # {} => Cardinality(On(i)) # 0)
    BY <2>1, FS_CardinalityType, FS_EmptySet
  <2> QED
    BY <1>5, <2>1, <2>2
<1>7. from # 0 /\ refCounts[from] = 1 => from \in empty
  BY <1>5, <1>6
<1>8. /\ records' \in Seq(Numbers) /\ Rising(records')
      /\ \A i : i \in Elems(records)' <=>
                  i \in Elems(records) /\ ~(i = from /\ from # 0 /\ refCounts[from] = 1)
      /\ \A i \in Elems(records)' : i \in empty' <=> i \in empty
      /\ empty' \subseteq Elems(records)'
  <2>1. CASE from # 0 /\ refCounts[from] = 1
    <3>1. records' = Map!Without(records, from) /\ empty' = empty \ {from}
      BY <1>1, <2>1
    <3>2. records' \in Seq(Numbers) /\ Rising(records') /\ Elems(records') = Elems(records) \ {from}
      BY <1>3, <3>1, TakenOut
    <3> QED
      BY <1>3, <2>1, <3>1, <3>2
  <2>2. CASE ~(from # 0 /\ refCounts[from] = 1)
    <3>1. records' = records /\ empty' = empty
      BY <1>1, <2>2
    <3> QED
      BY <1>3, <2>2, <3>1
  <2> QED
    BY <2>1, <2>2
<1>9. Entries' = Entries
  <2>1. ASSUME NEW i PROVE i \in Entries' <=> i \in Entries
    BY <1>7, <1>8 DEF Entries
  <2> QED
    BY <2>1 DEF Entries
<1>10. \A i \in Numbers :
         refCounts'[i] = refCounts[i] + (IF i = to THEN 1 ELSE 0) - (IF i = from THEN 1 ELSE 0)
  BY <1>1, <1>2
<1>11. refCounts' \in [Numbers -> Nat]
  <2>1. ASSUME NEW i \in Numbers PROVE refCounts'[i] \in Nat
    <3>1. refCounts[i] \in Nat
      BY <1>3
    <3>2. i = from => refCounts[i] # 0
      <4> SUFFICES ASSUME i = from PROVE refCounts[i] # 0
        OBVIOUS
      <4>1. i \in Elems(records)
        BY <1>2, <1>5
      <4> QED
        BY <1>6, <4>1
    <3> QED
      BY <1>10, <3>1, <3>2
  <2>2. refCounts' = [i \in Numbers |-> refCounts'[i]]
    BY <1>1, <1>2
  <2> QED
    BY <2>1, <2>2
<1>12. ASSUME NEW i \in Elems(records)' PROVE Locked(i)'
  <2>1. i \in Elems(records) /\ i \in Numbers /\ (i \in empty' <=> i \in empty) /\ i # 0
    BY <1>2, <1>8
  <2>2. /\ IsFiniteSet(On(i)) /\ Cardinality(On(i)) \in Nat
        /\ refCounts[i] = Cardinality(On(i)) + (IF i \in empty THEN 0 ELSE 1)
        /\ i = from => Cardinality(On(i)) # 0
    BY <1>6, <2>1
  <2>3. CASE i = to
    <3>1. i # from /\ w \notin On(i) /\ On(i)' = On(i) \cup {w}
      BY <1>5, <2>1, <2>3
    <3>2. IsFiniteSet(On(i)') /\ Cardinality(On(i)') = Cardinality(On(i)) + 1
      BY <2>2, <3>1, FS_AddElement
    <3>3. refCounts'[i] = refCounts[i] + 1
      BY <1>3, <1>10, <2>1, <2>3, <3>1
    <3> QED
      BY <2>1, <2>2, <3>2, <3>3 DEF Locked
  <2>4. CASE i = from /\ i # to
    <3>1. w \in On(i) /\ On(i)' = On(i) \ {w}
      BY <1>5, <2>4
    <3>2. IsFiniteSet(On(i)') /\ Cardinality(On(i)') = Cardinality(On(i)) - 1
      BY <2>2, <3>1, FS_RemoveElement
    <3>3. refCounts'[i] = refCounts[i] - 1
      BY <1>3, <1>10, <2>1, <2>4
    <3> QED
      BY <2>1, <2>2, <3>2, <3>3 DEF Locked
  <2>5. CASE i # from /\ i # to
    <3>1. On(i)' = On(i)
      BY <1>5, <2>5
    <3>2. refCounts'[i] = refCounts[i]
      BY <1>3, <1>10, <2>1, <2>5
    <3> QED
      BY <2>1, <2>2, <3>1, <3>2 DEF Locked
  <2> QED
    BY <2>3, <2>4, <2>5
<1>13. ASSUME NEW v \in MapWalkers
       PROVE  /\ walker'[v].at # 0 <=> walker'[v].st = "on"
              /\ walker'[v].at # 0 => walker'[v].at \in Elems(records)'
  <2>1. CASE v = w
    <3>1. walker'[v].at = to /\ walker'[v].st = st
      BY <1>4, <2>1
    <3>2. to # 0 => to \in Elems(records) /\ to # from
      BY DEF Entries
    <3> QED
      BY <1>8, <3>1, <3>2
  <2>2. CASE v # w
    <3>1. walker'[v] = walker[v]
      BY <1>4, <2>2
    <3>2. ASSUME walker[v].at # 0 PROVE walker[v].at \in Elems(records)'
      <4>1. walker[v].at \in Elems(records)
        BY <1>3, <3>2
      <4>2. CASE walker[v].at = from
        <5>1. {v, w} \subseteq On(from) /\ from \in Elems(records)
          BY <1>5, <4>1, <4>2 DEF On
        <5>2. IsFiniteSet(On(from)) /\ refCounts[from] >= Cardinality(On(from))
              /\ Cardinality(On(from)) \in Nat
          BY <1>6, <5>1
        <5>3. Cardinality({v} \cup {w}) = 2 /\ Cardinality({v} \cup {w}) <= Cardinality(On(from))
          <6>1. IsFiniteSet({v}) /\ Cardinality({v}) = 1
            BY FS_Singleton
          <6>2. Cardinality({v} \cup {w}) = 2
            <7>1. w \notin {v}
              BY <2>2
            <7>2. Cardinality({v} \cup {w}) = Cardinality({v}) + 1
              BY <6>1, <7>1, FS_AddElement
            <7> QED
              BY <6>1, <7>2
          <6>3. {v} \cup {w} \subseteq On(from)
            BY <5>1
          <6> QED
            BY <5>2, <6>2, <6>3, FS_Subset
        <5>4. refCounts[from] # 1
          BY <1>2, <1>3, <5>1, <5>2, <5>3
        <5> QED
          BY <1>8, <4>1, <5>4
      <4>3. CASE walker[v].at # from
        BY <1>8, <4>1, <4>3
      <4> QED
        BY <4>2, <4>3
    <3> QED
      BY <1>3, <3>1, <3>2
  <2> QED
    BY <2>1, <2>2
<1>14. Walks'
  BY <1>12, <1>13 DEF Walks
<1>15. Tabled'
  <2>1. PICK size \in Nat \ {0} : Hashed(size)
    BY DEF MapInv, Tabled
  <2>2. Hashed(size)'
    BY <1>2, <1>9, <2>1 DEF Hashed, BucketOf
  <2> QED
    BY <2>2 DEF Tabled
<1>16. Single' /\ IsFiniteSet(Entries)' /\ count' = Cardinality(Entries')
  BY <1>9 DEF MapInv, Single
<1>17. MapTypes'
  BY <1>2, <1>4, <1>8, <1>11 DEF MapInv, MapTypes
<1> QED
  BY <1>14, <1>15, <1>16, <1>17 DEF MapInv

\* What is ahead of a walker.
LEMMA AheadOf ==
  ASSUME MapInv, NEW at, at \in Elems(records) \/ at = 0
  PROVE  /\ Map!Ahead(at) \in Seq(Numbers)
         /\ Elems(Map!Ahead(at)) = {i \in Entries : i > at}
<1> DEFINE p == Map!Position(at)
           behind == SubSeq(records, p + 1, Len(records))
<1>1. /\ records \in Seq(Numbers) /\ Rising(records) /\ Len(records) \in Nat
      /\ DOMAIN records = 1..Len(records)
      /\ \A i \in 1..Len(records) : records[i] \in Numbers
      /\ Elems(records) \subseteq Numbers /\ Numbers \subseteq Nat /\ 0 \notin Numbers
      /\ Entries \subseteq Numbers
  BY RecordsKnown DEF MapInv, MapTypes
<1>2. /\ p \in 0..Len(records)
      /\ \A i \in 1..Len(records) : i > p <=> records[i] > at
  <2>1. CASE at = 0
    <3>1. p = 0
      BY <2>1 DEF Map!Position
    <3>2. ASSUME NEW i \in 1..Len(records) PROVE records[i] > 0
      <4>1. records[i] \in Nat /\ records[i] # 0
        BY <1>1
      <4> QED
        BY <4>1
    <3> HIDE DEF p
    <3> QED
      BY <1>1, <2>1, <3>1, <3>2
  <2>2. CASE at # 0
    <3>1. \E i \in DOMAIN records : records[i] = at
      BY <1>1, <2>2 DEF Elems
    <3>2. p = CHOOSE i \in DOMAIN records : records[i] = at
      BY <2>2 DEF Map!Position
    <3>3. p \in 1..Len(records) /\ records[p] = at
      BY <1>1, <3>1, <3>2
    <3> HIDE DEF p
    <3>4. ASSUME NEW i \in 1..Len(records) PROVE i > p <=> records[i] > at
      <4>1. ASSUME i > p PROVE records[i] > at
        <5>1. p < i /\ records[p] \in Nat /\ records[i] \in Nat
          BY <1>1, <3>3, <4>1
        <5>2. records[p] < records[i]
          BY <1>1, <3>3, <5>1 DEF Rising
        <5> QED
          BY <3>3, <5>1, <5>2
      <4>2. ASSUME i < p PROVE records[i] < at
        <5>1. records[i] < records[p]
          BY <1>1, <3>3, <4>2 DEF Rising
        <5> QED
          BY <3>3, <5>1
      <4>3. i = p => records[i] = at
        BY <3>3
      <4>4. i \in Nat /\ p \in Nat /\ records[i] \in Nat /\ at \in Nat
        <5>1. records[p] \in Nat /\ records[i] \in Nat
          BY <1>1, <3>3
        <5> QED
          BY <1>1, <3>3, <5>1
      <4> QED
        BY <4>1, <4>2, <4>3, <4>4
    <3> QED
      BY <1>1, <3>3, <3>4
  <2> QED
    BY <2>1, <2>2
<1> HIDE DEF p
<1>3. /\ behind \in Seq(Numbers) /\ Len(behind) = Len(records) - p
      /\ \A i \in 1..(Len(records) - p) : behind[i] = records[p + i]
  <2>1. \A i \in (p + 1)..Len(records) : records[i] \in Numbers
    BY <1>1, <1>2
  <2>2. p + 1 \in Int /\ Len(records) \in Int /\ p \in Nat /\ Len(records) \in Nat /\ p <= Len(records)
    BY <1>1, <1>2
  <2>3. /\ behind \in Seq(Numbers)
        /\ Len(behind) = IF p + 1 <= Len(records) THEN Len(records) - (p + 1) + 1 ELSE 0
        /\ \A i \in 1..(Len(records) - (p + 1) + 1) : behind[i] = records[(p + 1) + i - 1]
    BY <2>1, <2>2, SubSeqProperties
  <2> HIDE DEF behind
  <2>4. \A i \in 1..(Len(records) - p) :
          i \in 1..(Len(records) - (p + 1) + 1) /\ (p + 1) + i - 1 = p + i
    BY <2>2
  <2>5. \A i \in 1..(Len(records) - p) : behind[i] = records[p + i]
    BY <2>3, <2>4
  <2> QED
    BY <2>2, <2>3, <2>5
<1>4. Map!Ahead(at) = Map!Select(behind, Map!Ids \ empty)
  BY DEF Map!Ahead, p
<1> HIDE DEF behind
<1>5. Elems(behind) = {i \in Elems(records) : i > at}
  <2>1. ASSUME NEW x \in Elems(behind) PROVE x \in Elems(records) /\ x > at
    <3>1. PICK i \in 1..(Len(records) - p) : x = records[p + i]
      BY <1>3 DEF Elems
    <3>2. p + i \in 1..Len(records) /\ p + i > p
      BY <1>1, <1>2
    <3> QED
      BY <1>2, <3>1, <3>2 DEF Elems
  <2>2. ASSUME NEW x \in Elems(records), x > at PROVE x \in Elems(behind)
    <3>1. PICK i \in 1..Len(records) : x = records[i]
      BY DEF Elems
    <3>2. i - p \in 1..(Len(records) - p) /\ p + (i - p) = i
      BY <1>1, <1>2, <2>2, <3>1
    <3>3. behind[i - p] = x
      BY <1>3, <3>1, <3>2
    <3> QED
      BY <1>3, <3>2, <3>3 DEF Elems
  <2> QED
    BY <2>1, <2>2
<1>6. /\ Map!Ahead(at) \in Seq(Numbers)
      /\ Elems(Map!Ahead(at)) = Elems(behind) \cap (Numbers \ empty)
  <2>1. Map!Ids = Numbers
    BY RecordsKnown DEF MapInv, Map!Ids
  <2> QED
    BY <1>3, <1>4, <2>1, Selected
<1> QED
  BY <1>1, <1>5, <1>6 DEF Entries

\* js_map_iterator_next and a turn of js_map_forEach.
LEMMA StepStep ==
  ASSUME MapInv, NEW w \in MapWalkers, Map!Step(w)
  PROVE  MapInv'
<1>1. PICK at : at = walker[w].at
  OBVIOUS
<1>2. at \in Elems(records) \/ at = 0
  BY <1>1 DEF MapInv, Walks
<1>3. Map!Ahead(at) \in Seq(Numbers) /\ Elems(Map!Ahead(at)) = {i \in Entries : i > at}
  BY <1>2, AheadOf
<1>4. PICK to : to = IF Map!Ahead(at) = <<>> THEN 0 ELSE Map!Ahead(at)[1]
  OBVIOUS
<1>5. (to \in Entries /\ to # at /\ to # 0) \/ to = 0
  <2>1. CASE Map!Ahead(at) = <<>>
    BY <1>4, <2>1
  <2>2. CASE Map!Ahead(at) # <<>>
    <3>1. to \in Elems(Map!Ahead(at))
      BY <1>3, <1>4, <2>2 DEF Elems
    <3>2. to \in Entries /\ to > at
      BY <1>3, <3>1
    <3>3. Elems(records) \subseteq Nat /\ Entries \subseteq Nat /\ 0 \notin Entries
      BY RecordsKnown DEF MapInv
    <3> QED
      BY <1>2, <3>2, <3>3
  <2> QED
    BY <2>1, <2>2
<1>6. PICK st : st = IF to = 0 THEN "done" ELSE "on"
  OBVIOUS
<1>7. /\ Map!Relock(at, to) /\ walker' = [walker EXCEPT ![w] = [st |-> st, at |-> to]]
      /\ UNCHANGED <<data, table, threshold, count>>
  BY <1>1, <1>4, <1>6 DEF Map!Step
<1>8. to \in Entries \cup {0} /\ (to = at => to = 0)
      /\ st \in {"on", "done", "gone"} /\ (st = "on" <=> to # 0)
  BY <1>5, <1>6
<1> QED
  BY <1>1, <1>7, <1>8, WalkStep

\* js_map_iterator_finalizer and an exception in js_map_forEach.
LEMMA AbandonStep ==
  ASSUME MapInv, NEW w \in MapWalkers, Map!Abandon(w)
  PROVE  MapInv'
<1>1. PICK at : at = walker[w].at
  OBVIOUS
<1>2. PICK st : st = "gone"
  OBVIOUS
<1>3. /\ Map!Relock(at, 0) /\ walker' = [walker EXCEPT ![w] = [st |-> st, at |-> 0]]
      /\ UNCHANGED <<data, table, threshold, count>>
  BY <1>1, <1>2 DEF Map!Abandon
<1>4. st \in {"on", "done", "gone"} /\ (st = "on" <=> 0 # 0) /\ 0 \in Entries \cup {0}
  BY <1>2
<1> QED
  BY <1>1, <1>3, <1>4, WalkStep

LEMMA MapStep == MapInv /\ (Map!Next \/ UNCHANGED mapVars) => MapInv'
<1> SUFFICES ASSUME MapInv, Map!Next \/ UNCHANGED mapVars PROVE MapInv'
  OBVIOUS
<1>1. CASE UNCHANGED mapVars
  <2>1. Numbers' = Numbers /\ Entries' = Entries /\ Elems(records)' = Elems(records)
    BY <1>1 DEF mapVars, Numbers, Entries
  <2>2. MapTypes' /\ Single' /\ IsFiniteSet(Entries)' /\ count' = Cardinality(Entries')
    BY <1>1, <2>1 DEF mapVars, MapInv, MapTypes, Single
  <2>3. Tabled'
    BY <1>1, <2>1 DEF mapVars, MapInv, BucketOf, Hashed, Tabled
  <2>4. Walks'
    BY <1>1, <2>1 DEF mapVars, MapInv, On, Locked, Walks
  <2> QED
    BY <2>2, <2>3, <2>4 DEF MapInv
<1>2. CASE Map!Next
  <2>1. ASSUME NEW k \in MapKeys, Map!Set(k) PROVE MapInv'
    BY <2>1, SetStep
  <2>2. ASSUME NEW k \in MapKeys, Map!Delete(k) PROVE MapInv'
    BY <2>2, DeleteStep
  <2>3. ASSUME NEW k \in MapKeys, Map!Replace(k) PROVE MapInv'
    BY <2>3, ReplaceStep
  <2>4. CASE Map!Clear
    BY <2>4, ClearStep
  <2>5. ASSUME NEW w \in MapWalkers, Map!Step(w) PROVE MapInv'
    BY <2>5, StepStep
  <2>6. ASSUME NEW w \in MapWalkers, Map!Abandon(w) PROVE MapInv'
    BY <2>6, AbandonStep
  <2> QED
    BY <1>2, <2>1, <2>2, <2>3, <2>4, <2>5, <2>6 DEF Map!Next
<1> QED
  BY <1>1, <1>2

LEMMA MapStarts == Map!Init => MapInv
<1> SUFFICES ASSUME Map!Init PROVE MapInv
  OBVIOUS
<1>1. /\ data = <<>> /\ empty = {} /\ records = <<>> /\ refCounts = <<>>
      /\ table = [b \in {0} |-> <<>>] /\ threshold = 4 /\ count = 0
      /\ walker = [w \in MapWalkers |-> [st |-> "new", at |-> 0]]
  BY DEF Map!Init
<1>2. Elems(records) = {} /\ Entries = {} /\ Numbers = {}
  BY <1>1 DEF Elems, Entries, Numbers
<1>3. refCounts \in [Numbers -> Nat]
  BY <1>1, <1>2
<1>4. MapTypes
  BY <1>1, <1>2, <1>3 DEF MapTypes, Rising
<1>5. Tabled
  <2>1. 0..(1 - 1) = {0}
    OBVIOUS
  <2>2. table \in [0..(1 - 1) -> Seq(Numbers)]
    BY <1>1, <2>1
  <2>3. \A b \in 0..(1 - 1) : Elems(table[b]) = {i \in Entries : BucketOf(1, i) = b}
    BY <1>1, <1>2, <2>1 DEF Elems
  <2> QED
    BY <2>2, <2>3 DEF Tabled, Hashed
<1>6. Walks
  BY <1>1, <1>2 DEF Walks
<1>7. IsFiniteSet(Entries) /\ count = Cardinality(Entries)
  BY <1>1, <1>2, FS_EmptySet
<1> QED
  BY <1>2, <1>4, <1>5, <1>6, <1>7 DEF MapInv, Single

-----------------------------------------------------------------------------
(* The theorem. *)

LEMMA PresentAre == ASSUME MapInv PROVE Map!Present = Entries /\ Map!ToSet(records) = Elems(records)
BY SetOf DEF MapInv, MapTypes, Map!Present, Entries

LEMMA Looking == MapInv => Map!LookupAgrees
<1> SUFFICES ASSUME MapInv PROVE Map!LookupAgrees
  OBVIOUS
<1>1. 0 \notin Entries
  BY RecordsKnown DEF MapInv
<1>2. ASSUME NEW k \in MapKeys
      PROVE  {i \in Entries : data[i] = k} = (IF Map!Find(k) = 0 THEN {} ELSE {Map!Find(k)})
  <2>1. CASE Map!Find(k) = 0 /\ \A i \in Entries : data[i] # k
    BY <2>1
  <2>2. CASE Map!Find(k) \in Entries /\ data[Map!Find(k)] = k
    BY <1>1, <2>2 DEF MapInv, Single
  <2> QED
    BY <2>1, <2>2, Finds
<1>3. count = Map!Cardinality(Entries)
  BY Same DEF MapInv
<1> QED
  BY <1>2, <1>3, PresentAre DEF Map!LookupAgrees

LEMMA Walking == MapInv => Map!WalksInOrder
<1> SUFFICES ASSUME MapInv PROVE Map!WalksInOrder
  OBVIOUS
<1>1. \A i, j \in DOMAIN records : i < j => records[i] < records[j]
  <2>1. DOMAIN records = 1..Len(records) /\ Rising(records)
    BY DEF MapInv, MapTypes
  <2> QED
    BY <2>1 DEF Rising
<1>2. \A i \in Elems(records) :
        refCounts[i] = Map!Cardinality({w \in MapWalkers : walker[w].at = i})
                       + (IF i \in empty THEN 0 ELSE 1)
  BY Same DEF MapInv, Walks, Locked, On
<1>3. \A w \in MapWalkers : walker[w].st = "on" => walker[w].at \in Elems(records)
  BY DEF MapInv, Walks
<1>4. ASSUME NEW w \in MapWalkers
      PROVE  Map!ToSet(Map!Ahead(walker[w].at)) = {i \in Entries : i > walker[w].at}
  <2>1. walker[w].at \in Elems(records) \/ walker[w].at = 0
    BY DEF MapInv, Walks
  <2> QED
    BY <2>1, AheadOf, SetOf
<1> QED
  BY <1>1, <1>2, <1>3, <1>4, PresentAre DEF Map!WalksInOrder

\* Whatever is set, deleted, cleared or replaced under any number of iterators and calls of
\* forEach, a look-up finds the one record its key has (map_find_record, map_hash_resize,
\* map_delete_record in quickjs.c), and a walk goes on to the first entry behind it that is
\* left (js_map_iterator_next, js_map_forEach).
THEOREM MapIsSound == Spec => []MapSound
<1> DEFINE I == component = "map" => MapInv
<1>1. Init => I
  BY MapStarts DEF Init, mapInit
<1>2. I /\ [Next]_vars => I'
  BY MapStep DEF Next, vars, mapNext, mapVars
<1>3. I => MapSound
  BY Looking, Walking DEF MapSound
<1> QED
  BY <1>1, <1>2, <1>3, PTL DEF Spec
=============================================================================
