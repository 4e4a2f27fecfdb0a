------------------------------- MODULE JsMap -------------------------------
(***************************************************************************)
(* Map and Set of the JavaScript engine (src/c_src/quickjs_ng/quickjs.c):  *)
(* records in a linked list and in a hash table that grows, walked by      *)
(* iterators and by forEach while the script changes them.  A record that  *)
(* a walker stands on is locked by a reference count and outlives its      *)
(* deletion as an empty one.  The values of the records are left out.      *)
(*                                                                         *)
(* `data' is the list as the language defines it: it only grows, deleted   *)
(* entries are marked, and a walker is an index into it.  A record is      *)
(* named by its index there.                                               *)
(***************************************************************************)
EXTENDS Naturals, Sequences, FiniteSets, SequencesExt

CONSTANTS
  Keys, Hash,      \* Hash[k] is map_hash_key of k
  Walkers,         \* iterators and calls of forEach
  MaxAdds          \* bound: records made

HashAssumption == Hash \in [Keys -> Nat]
AddsAssumption == MaxAdds \in Nat

VARIABLES
  data,        \* the keys added, in order
  empty,       \* the records whose deletion a walker has outlived
  records,     \* JSMapState.records
  refs,        \* ref_count of each record
  table,       \* hash_table: the records of each bucket
  threshold,   \* record_count_threshold
  count,       \* record_count
  walker       \* "new", "done" or "gone", or the record it stands on (cur_record)

vars == <<data, empty, records, refs, table, threshold, count, walker>>

Ids == DOMAIN data

Init ==
  /\ data = <<>>
  /\ empty = {}
  /\ records = <<>>
  /\ refs = <<>>
  /\ table = [b \in {0} |-> <<>>]
  /\ threshold = 4
  /\ count = 0
  /\ walker = [w \in Walkers |-> [st |-> "new", at |-> 0]]

Bucket(k, size) == Hash[k] % size
Size == Cardinality(DOMAIN table)

\* The elements of s that are in T, in their order.
Select(s, T) ==
  LET places == {i \in DOMAIN s : s[i] \in T}
      Place(n) == CHOOSE i \in places : Cardinality({j \in places : j <= i}) = n IN
  [n \in 1..Cardinality(places) |-> s[Place(n)]]
Without(s, i) == Select(s, ToSet(s) \ {i})

\* map_find_record
Find(k) == LET found == Select(table[Bucket(k, Size)], {i \in Ids : data[i] = k}) IN
  IF found = <<>> THEN 0 ELSE found[1]

\* Mutant of Rehash: the bucket is taken with the old size.
RehashOld(list, ks, size) ==
  [b \in 0..(size - 1) |->
     Select(list, {i \in ToSet(list) : i \notin empty /\ Bucket(ks[i], Size) = b})]

\* map_hash_resize: the records that are not empty, in their order.
Rehash(list, ks, size) ==
  [b \in 0..(size - 1) |->
     Select(list, {i \in ToSet(list) : i \notin empty /\ Bucket(ks[i], size) = b})]

\* js_map_set, map_add_record; a key that is there keeps its record.
Set(k) ==
  LET id == Len(data) + 1
      size == IF Size = 1 THEN 4 ELSE Size * 2 IN
  /\ Find(k) = 0 /\ Len(data) < MaxAdds
  /\ data' = Append(data, k)
  /\ records' = Append(records, id)
  /\ refs' = Append(refs, 1)
  /\ count' = count + 1
  /\ IF count' >= threshold
       THEN table' = Rehash(records', data', size) /\ threshold' = size * 2
       ELSE table' = [table EXCEPT ![Bucket(k, Size)] = Append(@, id)] /\ UNCHANGED threshold
  /\ UNCHANGED <<empty, walker>>

\* map_delete_record of each of ids, none of them empty.
Unlinked(ids) ==
  /\ table' = [b \in DOMAIN table |-> Select(table[b], Ids \ ids)]
  /\ records' = Select(records, {i \in Ids : i \in ids => refs[i] > 1})
  /\ refs' = [i \in Ids |-> IF i \in ids THEN refs[i] - 1 ELSE refs[i]]
  /\ empty' = empty \union {i \in ids : refs[i] > 1}
  /\ count' = count - Cardinality(ids)

\* js_map_delete
Delete(k) ==
  /\ Find(k) # 0
  /\ Unlinked({Find(k)})
  /\ UNCHANGED <<data, threshold, walker>>

\* js_map_clear
Clear ==
  /\ records # <<>>
  /\ Unlinked({i \in ToSet(records) : i \notin empty})
  /\ UNCHANGED <<data, threshold, walker>>

\* js_map_getOrInsert with a callback that inserts or deletes the key itself, after which
\* its own result is inserted in place of the record it finds.
Replace(k) ==
  LET old == Find(k)
      id == Len(data) + 1 IN
  /\ old # 0 /\ Len(data) < MaxAdds
  /\ data' = Append(data, k)
  /\ records' = Append(IF refs[old] > 1 THEN records ELSE Without(records, old), id)
  /\ refs' = Append([refs EXCEPT ![old] = @ - 1], 1)
  /\ empty' = IF refs[old] > 1 THEN empty \union {old} ELSE empty
  /\ table' = [table EXCEPT ![Bucket(k, Size)] = Append(Without(@, old), id)]
  /\ UNCHANGED <<threshold, count, walker>>

\* map_decref_record, of the record a walker leaves, and the lock on the one it goes to.
Relock(from, to) ==
  /\ refs' = [i \in Ids |-> refs[i] + (IF i = to THEN 1 ELSE 0) - (IF i = from THEN 1 ELSE 0)]
  /\ IF from # 0 /\ refs[from] = 1
       THEN records' = Without(records, from) /\ empty' = empty \ {from}
       ELSE UNCHANGED <<records, empty>>

Position(i) == IF i = 0 THEN 0 ELSE CHOOSE p \in DOMAIN records : records[p] = i

\* The records behind the one a walker stands on that are not empty.
Ahead(i) == Select(SubSeq(records, Position(i) + 1, Len(records)), Ids \ empty)

\* js_map_iterator_next, or a turn of js_map_forEach.
Step(w) ==
  LET at == walker[w].at
      to == IF Ahead(at) = <<>> THEN 0 ELSE Ahead(at)[1] IN
  /\ walker[w].st \in {"new", "on"}
  /\ Relock(at, to)
  /\ walker' = [walker EXCEPT ![w] = [st |-> IF to = 0 THEN "done" ELSE "on", at |-> to]]
  /\ UNCHANGED <<data, table, threshold, count>>

\* js_map_iterator_finalizer, or an exception that ends js_map_forEach.
Abandon(w) ==
  /\ walker[w].st = "on"
  /\ Relock(walker[w].at, 0)
  /\ walker' = [walker EXCEPT ![w] = [st |-> "gone", at |-> 0]]
  /\ UNCHANGED <<data, table, threshold, count>>

Next ==
  \/ \E k \in Keys : Set(k) \/ Delete(k) \/ Replace(k)
  \/ Clear
  \/ \E w \in Walkers : Step(w) \/ Abandon(w)

Spec == Init /\ [][Next]_vars

-----------------------------------------------------------------------------
\* The records that are neither deleted nor replaced.
Present == {i \in ToSet(records) : i \notin empty}

TypeOK ==
  /\ data \in Seq(Keys)
  /\ refs \in [Ids -> Nat]
  /\ ToSet(records) \subseteq Ids /\ empty \subseteq ToSet(records)
  /\ \A w \in Walkers : walker[w].at # 0 <=> walker[w].st = "on"

\* The hash table, through growth, deletions and replacements, finds exactly what the list
\* holds, at most one record of each key, and `size' (record_count) counts them.
LookupAgrees ==
  /\ \A k \in Keys : {i \in Present : data[i] = k} = (IF Find(k) = 0 THEN {} ELSE {Find(k)})
  /\ count = Cardinality(Present)

\* quickjs.c:52466: "the list can be modified while traversing it".  A walker stands on a
\* record that is still linked, locked once by each walker on it, and the next step takes it
\* to the first entry, in the order of insertion, that was not deleted: whatever is deleted,
\* added, cleared or put back under it, it skips nothing, repeats nothing and ends.
WalksInOrder ==
  /\ \A i, j \in DOMAIN records : i < j => records[i] < records[j]
  /\ \A i \in ToSet(records) :
       refs[i] = Cardinality({w \in Walkers : walker[w].at = i}) + (IF i \in empty THEN 0 ELSE 1)
  /\ \A w \in Walkers : walker[w].st = "on" => walker[w].at \in ToSet(records)
  /\ \A w \in Walkers : walker[w].st \in {"new", "on"} =>
       ToSet(Ahead(walker[w].at)) = {i \in Present : i > walker[w].at}
=============================================================================
