------------------------------- MODULE JsArrays -------------------------------
(***************************************************************************)
(* The methods of Array.prototype (quickjs.c) on an array of JsProperties. *)
(* Most methods have a fast path for fast arrays beside the loop over      *)
(* properties.  The length is read first; then the arguments are           *)
(* converted, or a callback is called, and that may run a script which     *)
(* changes the array before the method gets to its elements.               *)
(*                                                                         *)
(* A script first makes an array of some kind, with operations of          *)
(* JsProperties, and then calls one method.  The array may have a          *)
(* prototype, which stands for Array.prototype.  A fast array may have     *)
(* fewer elements than its length says.  Left out: arrays that are not     *)
(* arrays, species, lengths near the limits.  A getter is the value it     *)
(* returns; no setter exists.                                              *)
(***************************************************************************)
EXTENDS JsProperties

CONSTANTS
  FirstScripts,   \* what made the array: sequences of operations [does, o, k, v, d]
  Preparations,   \* what scripts do to it then: operations
  Calls,          \* calls: [name, args, items, script]; script is what runs meanwhile
  Stale           \* what a slot holds that nobody wrote

VARIABLES
  this,  \* the array
  last   \* the call: <<[call, before, during, ok, out]>>, or <<>>
methodVars == <<vars, this, last>>

Indices == {Index[k] : k \in {x \in Keys : IsIndex(x)}}
Upto(n) == [j \in 1..Max({n, 0}) |-> j - 1]
Downfrom(n) == Reverse(Upto(n))
Mapped(s, Op(_)) == [j \in DOMAIN s |-> Op(s[j])]
Between(x, lo, hi) == Min({Max({x, lo}), hi})
\* JS_ToInt64Clamp
Clamp(x, lo, hi, negative) == Between(IF x < 0 THEN x + negative ELSE x, lo, hi)

(* What a method does: the heap it starts from, the steps it takes, each of which throws    *)
(* if it fails, and what it returns.  A step writes a value to a key, or deletes it         *)
(* (x = <<>>), or moves what one element has to another.                                    *)
Plan(h, steps, out) == [h |-> h, ok |-> TRUE, steps |-> steps, out |-> out]
Answer(h, out) == Plan(h, <<>>, out)
Throw(h) == [Answer(h, <<>>) EXCEPT !.ok = FALSE]
Writes(i, x) == [from |-> <<>>, k |-> KeyOf(i), x |-> x]
PutsAt(i, v) == Writes(i, <<v>>)
Drops(i) == Writes(i, <<>>)
Moves(from, to) == [from |-> <<from>>, k |-> KeyOf(to), x |-> <<>>]
LengthTo(n) == [from |-> <<>>, k |-> "length", x |-> <<n>>]
PutsFrom(at, s) == [j \in DOMAIN s |-> PutsAt(at + j - 1, s[j])]
----------------------------------------------------------------------------
(* What the methods use. *)

Prepared(h, p) ==
  CASE p.does = "set"     -> SetProperty(h, p.o, p.k, p.v).h
    [] p.does = "define"  -> DefineProperty(h, p.o, p.k, p.d[1]).h
    [] p.does = "delete"  -> DeleteProperty(h, p.o, p.k).h
    [] p.does = "prevent" -> PreventExtensions(h, p.o)
    [] p.does = "freeze"  -> Seal(h, p.o, TRUE)

\* The script that runs while arguments are converted.
Run(h, script) == FoldLeft(Prepared, h, script)

Length(h) == ArrayLength(h, this)
\* js_get_fast_array, and that its elements are all there are.
Fast(h) == h.fast[this]
Count(h) == Len(h.elems[this])
Whole(h, len) == Fast(h) /\ Count(h) = len
Element(h, i) == h.elems[this][i + 1]
WithElements(h, s) == [h EXCEPT !.elems[this] = s]

\* JS_TryGetPropertyInt64: the value, or nothing.
HasOwn(h, o, k) == o # 0 /\ k \in OwnKeys(h, o)
TryKey(h, k) ==
  LET owners == {o \in {this, Shape(h, this).proto} : HasOwn(h, o, k)}
  IN  IF owners = {} THEN <<>> ELSE <<Own(h, Max(owners), k).v>>
Try(h, i) == IF i \in Indices THEN TryKey(h, KeyOf(i)) ELSE <<>>
Get(h, i) == Given(Try(h, i), Undefined)

\* JS_CopySubArray; a run of elements that are all there is moved at once.
MovesElement(h, s) ==
  s.from # <<>> /\ Fast(h) /\ s.from[1] < Count(h) /\ Index[s.k] < Count(h)
Write(h, k, x) == IF x = <<>> THEN DeleteProperty(h, this, k) ELSE SetProperty(h, this, k, x[1])
Take(h, s) ==
  IF MovesElement(h, s)
  THEN [h |-> [h EXCEPT !.elems[this][Index[s.k] + 1] = Element(h, s.from[1])], ok |-> TRUE]
  ELSE Write(h, s.k, IF s.from # <<>> THEN Try(h, s.from[1]) ELSE s.x)
Perform(p) ==
  FoldLeft(LAMBDA r, s : IF r.ok THEN Take(r.h, s) ELSE r, [h |-> p.h, ok |-> p.ok], p.steps)
CopySubArray(to, from, n, up) ==
  Mapped(IF up THEN Upto(n) ELSE Downfrom(n), LAMBDA j : Moves(from + j, to + j))

\* The elements from..to-1, absent ones as undefined.
ValuesOf(h, from, to) == [j \in 1..(to - from) |-> Get(h, from + j - 1)]
----------------------------------------------------------------------------
(* The methods.  h is the heap after the script of the call, len the length before it. *)

At(h, len, i) ==
  LET k == IF i < 0 THEN len + i ELSE i
  IN  Answer(h, IF k \in 0..(len - 1) THEN Get(h, k) ELSE Undefined)
\* with, toReversed, toSpliced, toSorted and spread start from all elements.
Items(h, len) == IF Whole(h, len) THEN h.elems[this] ELSE ValuesOf(h, 0, len)
WithItem(h, len, i, v) ==
  LET k == IF i < 0 THEN len + i ELSE i
  IN  IF k \in 0..(len - 1) THEN Answer(h, [Items(h, len) EXCEPT ![k + 1] = v]) ELSE Throw(h)
ToSpliced(h, len, from, n, items) ==
  LET start == Clamp(from, 0, len, len)
      s == Items(h, len)
  IN  Answer(h, SubSeq(s, 1, start) \o items
                  \o SubSeq(s, start + Clamp(n, 0, len - start, 0) + 1, len))

\* Where a search from n on finds v, in the elements and then, up to the length, in the
\* properties.
Hits(h, len, n, v) ==
  {i \in n..(Max({len, IF Fast(h) THEN Count(h) ELSE 0}) - 1) :
     IF Fast(h) /\ i < Count(h) THEN Element(h, i) = v ELSE i < len /\ Try(h, i) = <<v>>}
Includes(h, len, v, from) ==
  LET start == Clamp(from, 0, len, len) IN
  Answer(h, len > 0 /\ (Hits(h, len, start, v) # {}
                        \/ (v = Undefined /\ \E i \in start..(len - 1) : Try(h, i) = <<>>)))
IndexOf(h, len, v, from) ==
  LET hits == IF len > 0 THEN Hits(h, len, Clamp(from, 0, len, len), v) ELSE {}
  IN  Answer(h, IF hits = {} THEN -1 ELSE Min(hits))
LastIndexOf(h, len, v, from) ==
  LET hits == {i \in 0..Clamp(from, -1, len - 1, len) :
                 (IF Whole(h, len) THEN <<Element(h, i)>> ELSE Try(h, i)) = <<v>>}
  IN  Answer(h, Max({-1} \cup hits))

\* js_array_pop, which is also shift.
Pop(h, len) ==
  IF len = 0 THEN Plan(h, <<LengthTo(0)>>, Undefined)
  ELSE IF Whole(h, len)
  THEN Plan(WithElements(h, Front(h.elems[this])), <<LengthTo(len - 1)>>, Element(h, len - 1))
  ELSE Plan(h, <<Drops(len - 1), LengthTo(len - 1)>>, Get(h, len - 1))
Shift(h, len) ==
  IF len = 0 THEN Plan(h, <<LengthTo(0)>>, Undefined)
  ELSE IF Whole(h, len)
  THEN Plan(WithElements(h, Tail(h.elems[this])), <<LengthTo(len - 1)>>, Element(h, 0))
  ELSE Plan(h, CopySubArray(0, 1, len - 1, TRUE) \o <<Drops(len - 1), LengthTo(len - 1)>>, Get(h, 0))

\* Array.prototype has no indexed property (std_array_prototype).
StandardPrototype(h) ==
  LET p == Shape(h, this).proto IN p # 0 => ~\E k \in OwnKeys(h, p) : IsIndex(k)
LengthWritable(h) == Props(h, this)[1].w
\* Mutant of Appends: also to an array that is not extensible.
AppendsToAny(h) == Fast(h) /\ StandardPrototype(h)
Appends(h) == Fast(h) /\ h.ext[this] /\ StandardPrototype(h)
\* js_array_push.  The fast path writes after the length, and counts what lies between.
Push(h, len, items) ==
  LET gap == [j \in 1..(len - Count(h)) |-> Stale]
  IN  IF Appends(h) /\ LengthWritable(h)
      THEN Answer([h EXCEPT !.elems[this] = @ \o gap \o items,
                            !.slots[this][1] = len + Len(items)], len + Len(items))
      ELSE Plan(h, Append(PutsFrom(len, items), LengthTo(len + Len(items))), len + Len(items))
Unshift(h, len, items) ==
  LET n == Len(items)
  IN  Plan(h, CopySubArray(n, 0, IF n = 0 THEN 0 ELSE len, FALSE)
                \o PutsFrom(0, items) \o <<LengthTo(len + n)>>, len + n)

\* The assignment of an element by its index (OP_put_array_el); room says whether the
\* memory of the elements, of which the allocator may have given more than was asked for,
\* has a place for one more.
PutElement(h, i, v, room) ==
  LET added == AddElement(h, this, v)
  IN  IF ~Appends(h) \/ i # Count(h) THEN Plan(h, <<PutsAt(i, v)>>, v)
      ELSE IF room
      THEN Answer([h EXCEPT !.elems[this] = Append(@, v), !.slots[this][1] = Max({@, i + 1})], v)
      ELSE [Answer(added.h, v) EXCEPT !.ok = added.ok]

\* Each pair of elements that are not both absent is exchanged.
Reversed(h, len) ==
  LET Pair(l) == LET r == len - 1 - l
                 IN  IF Try(h, l) = <<>> /\ Try(h, r) = <<>> THEN <<>>
                     ELSE <<Writes(l, Try(h, r)), Writes(r, Try(h, l))>>
  IN  IF Whole(h, len) THEN Answer(WithElements(h, Reverse(h.elems[this])), "this")
      ELSE Plan(h, FlattenSeq(Mapped(Upto(len \div 2), Pair)), "this")

\* The elements from..from+n-1 as slice takes them, absent ones as <<>>.
Taken(h, from, n) ==
  Mapped(Upto(n), LAMBDA j : IF Fast(h) /\ from + j < Count(h) THEN <<Element(h, from + j)>>
                             ELSE Try(h, from + j))
SliceFrom(h, len, from, to) ==
  LET start == Clamp(from, 0, len, len)
  IN  Answer(h, Taken(h, start, Clamp(to, 0, len, len) - start))
Splice(h, len, from, n, items) ==
  LET start == Clamp(from, 0, len, len)
      gone  == Clamp(n, 0, len - start, 0)
      more  == Len(items)
      end   == len + more - gone
      moved == CopySubArray(start + more, start + gone, len - (start + gone), more <= gone)
                 \o Mapped(SelectSeq(Downfrom(len), LAMBDA i : i >= end), Drops)
  IN  Plan(h, (IF more = gone THEN <<>> ELSE moved) \o PutsFrom(start, items) \o <<LengthTo(end)>>,
           Taken(h, start, gone))

CopyWithin(h, len, target, from, to) ==
  LET at    == Clamp(target, 0, len, len)
      start == Clamp(from, 0, len, len)
      n     == Min({Clamp(to, 0, len, len) - start, len - at})
  IN  Plan(h, CopySubArray(at, start, n, ~(start < at /\ at < start + n)), "this")
Fill(h, len, v, from, to) ==
  LET start == Clamp(from, 0, len, len)
  IN  Plan(h, PutsFrom(start, Mapped(Upto(Clamp(to, 0, len, len) - start), LAMBDA j : v)), "this")

\* js_array_sort with a comparator that orders numbers; the script runs in its first call.
\* A value that stays where it was is not written.
Present(h, len) == SelectSeq(Upto(len), LAMBDA i : Try(h, i) # <<>>)
Sorted(h, present) ==
  SortSeq(Mapped(SelectSeq(present, LAMBDA i : Get(h, i) # Undefined),
                 LAMBDA i : [v |-> Get(h, i), pos |-> i]),
          LAMBDA x, y : x.v < y.v \/ (x.v = y.v /\ x.pos < y.pos))
Compares(s) == \E i, j \in DOMAIN s : s[i].v # s[j].v
SortFrom(h, g, s, n, len) ==
  Plan(IF Compares(s) THEN g ELSE h,
       Mapped(SelectSeq(Upto(Len(s)), LAMBDA i : s[i + 1].pos # i), LAMBDA i : PutsAt(i, s[i + 1].v))
         \o PutsFrom(Len(s), [j \in 1..(n - Len(s)) |-> Undefined])
         \o [j \in 1..(len - n) |-> Drops(n + j - 1)],
       "this")
Sort(h, g, len) ==
  SortFrom(h, g, Sorted(h, Present(h, len)), Len(Present(h, len)), len)
SortedItems(h, s) ==
  Answer(h, SortSeq(SelectSeq(s, LAMBDA v : v # Undefined), <) \o SelectSeq(s, LAMBDA v : v = Undefined))
\* js_array_concat with values that are not spread.
Concat(h, len, items) == Answer(h, Mapped(Upto(len), LAMBDA i : Try(h, i)) \o Mapped(items, LAMBDA v : <<v>>))

\* The answers of the functions that methods call: whether an element makes every or find stop.
Stops(when, v) == (when = "one" /\ v = 1) \/ (when = "other" /\ v # 1)
\* js_array_every, js_array_find and js_array_reduce call a function with each element, or
\* each that is present, until its answer stops them; the script, which makes g of the heap
\* h, runs in the first call.
Visits(h, g, order, skips, when) ==
  LET Here(s) == IF s.seen = <<>> THEN h ELSE g
      Visited(s, k, v) == [seen |-> Append(s.seen, <<k, v>>), stop |-> Stops(when, v)]
      Visit(s, k, x) == IF s.stop \/ (skips /\ x = <<>>) THEN s ELSE Visited(s, k, Given(x, Undefined))
      r == FoldLeft(LAMBDA s, k : Visit(s, k, Try(Here(s), k)), [seen |-> <<>>, stop |-> FALSE], order)
  IN  Answer(Here(r), r.seen)
\* From the first element that is present.
ReduceFrom(h, g, there, order) ==
  LET at == SelectInSeq(order, LAMBDA k : k = there[1])
      r  == Visits(h, g, SubSeq(order, at + 1, Len(order)), TRUE, "never")
  IN  [r EXCEPT !.out = << <<there[1], Get(h, there[1])>> >> \o @]
Reduce(h, g, order) ==
  LET there == SelectSeq(order, LAMBDA k : Try(h, k) # <<>>)
  IN  IF there = <<>> THEN Throw(h) ELSE ReduceFrom(h, g, there, order)

Arg(c, j, default) == IF j \in DOMAIN c.args THEN c.args[j] ELSE default
\* h is the heap before the script of the call, g the heap after it.
Method(h, g, len, c) ==
  LET x    == Arg(c, 1, 0)
      skip == Arg(c, 2, IF c.args = <<>> THEN 0 ELSE len)
  IN  CASE c.name = "at"          -> At(g, len, x)
        [] c.name = "with"        -> WithItem(g, len, x, c.items[1])
        [] c.name = "toSpliced"   -> ToSpliced(g, len, x, skip, c.items)
        [] c.name = "toReversed"  -> Answer(h, Reverse(Items(h, len)))
        [] c.name = "toSorted"    -> SortedItems(h, Items(h, len))
        [] c.name = "spread"      -> Answer(h, Items(h, len))
        [] c.name = "includes"    -> Includes(g, len, c.items[1], x)
        [] c.name = "indexOf"     -> IndexOf(g, len, c.items[1], x)
        [] c.name = "lastIndexOf" -> LastIndexOf(g, len, c.items[1], Arg(c, 1, len - 1))
        [] c.name = "pop"         -> Pop(h, len)
        [] c.name = "shift"       -> Shift(h, len)
        [] c.name = "push"        -> Push(h, len, c.items)
        [] c.name = "put"         -> PutElement(h, x, c.items[1], c.args[2] = 1)
        [] c.name = "unshift"     -> Unshift(h, len, c.items)
        [] c.name = "reverse"     -> Reversed(h, len)
        [] c.name = "slice"       -> SliceFrom(g, len, x, Arg(c, 2, len))
        [] c.name = "splice"      -> Splice(g, len, x, skip, c.items)
        [] c.name = "copyWithin"  -> CopyWithin(g, len, x, Arg(c, 2, 0), Arg(c, 3, len))
        [] c.name = "fill"        -> Fill(g, len, c.items[1], x, Arg(c, 2, len))
        [] c.name = "sort"        -> Sort(h, g, len)
        [] c.name = "concat"      -> Concat(h, len, c.items)
        [] c.name = "every"       -> Visits(h, g, Upto(len), TRUE, "other")
        [] c.name = "map"         -> Visits(h, g, Upto(len), TRUE, "never")
        [] c.name = "find"        -> Visits(h, g, Upto(len), FALSE, "one")
        [] c.name = "findLast"    -> Visits(h, g, Downfrom(len), FALSE, "one")
        [] c.name = "reduce"      -> Reduce(h, g, Upto(len))
        [] c.name = "reduceRight" -> Reduce(h, g, Downfrom(len))
----------------------------------------------------------------------------
(* Behaviours. *)

\* The last object is the array.
MethodInit ==
  /\ \E p \in Populations, s \in FirstScripts :
       /\ class = [o \in DOMAIN p |-> p[o].class]
       /\ this = Len(p)
       /\ heap = Run(Fresh(p), s)
  /\ ops = 0 /\ last = <<>>

Prepare ==
  /\ last = <<>>
  /\ \E p \in Preparations : p.o \in Objects /\ Become(Prepared(heap, p))
  /\ UNCHANGED <<this, last>>
Finish(c, g, p, r) ==
  /\ heap' = r.h
  /\ last' = <<[call |-> c, before |-> heap, during |-> g, ok |-> r.ok, out |-> p.out]>>
Calling(c, g, p) == Finish(c, g, p, Perform(p))
CallIn(c, g) == Calling(c, g, Method(heap, g, Length(heap), c))
Call ==
  /\ last = <<>>
  /\ \E c \in Calls : CallIn(c, Run(heap, c.script))
  /\ UNCHANGED <<class, ops, this>>
MethodNext == Prepare \/ Call
MethodSpec == MethodInit /\ [][MethodNext]_methodVars
----------------------------------------------------------------------------
(* The reference: ECMAScript's algorithms, on the properties of the array. *)

StdFound(V, k) == {p.v : p \in Found(V, this, k)}
StdTry(V, i) ==
  IF i \in Indices THEN SetToSeq(StdFound(V, KeyOf(i))) ELSE <<>>
StdGet(V, i) == Given(StdTry(V, i), Undefined)
StdPrepared(V, p) ==
  CASE p.does = "set"     -> StandardSet(V, p.o, p.k, p.v).view
    [] p.does = "define"  -> StandardDefine(V, p.o, p.k, p.d[1]).view
    [] p.does = "delete"  -> StandardDelete(V, p.o, p.k).view
    [] p.does = "prevent" -> [V EXCEPT ![p.o].ext = FALSE]
    [] p.does = "freeze"  -> StandardSeal(V, p.o, TRUE)
StdRun(V, script) == FoldLeft(StdPrepared, V, script)

\* A step writes, deletes or moves, whatever the array is made of.
StdWrite(V, k, x) == IF x = <<>> THEN StandardDelete(V, this, k) ELSE StandardSet(V, this, k, x[1])
StdTake(V, s) == StdWrite(V, s.k, IF s.from # <<>> THEN StdTry(V, s.from[1]) ELSE s.x)
StdPerform(p) ==
  FoldLeft(LAMBDA r, s : IF r.ok THEN StdTake(r.view, s) ELSE r, [view |-> p.h, ok |-> p.ok], p.steps)

\* The numbers from..to, up or down.
Ascending(from, to) == SetToSortSeq(from..to, <)
Descending(from, to) == Reverse(Ascending(from, to))
\* ToIntegerOrInfinity of an argument, counted from the end or from the start.
Relative(x, len) == IF x < 0 THEN Max({len + x, 0}) ELSE Min({x, len})
StdItems(V, from, to) == Mapped(Ascending(from, to), LAMBDA i : StdGet(V, i))
StdHoles(V, from, to) == Mapped(Ascending(from, to), LAMBDA i : StdTry(V, i))

StdAt(V, len, i) == IF i + len < 0 \/ i >= len THEN Undefined ELSE StdGet(V, IF i < 0 THEN i + len ELSE i)
StdWith(V, len, i, v) ==
  IF i >= len \/ i < -len THEN Throw(V)
  ELSE Answer(V, Mapped(Ascending(0, len - 1), LAMBDA j : IF (j - i) % len = 0 THEN v ELSE StdGet(V, j)))
StdToSpliced(V, len, start, n, items) ==
  Answer(V, StdItems(V, 0, start - 1) \o items \o StdItems(V, start + n, len - 1))
StdHits(V, len, v, from, holes) ==
  {i \in from..(len - 1) : StdTry(V, i) = <<v>> \/ (holes /\ v = StdGet(V, i))}
StdShift(V, len) ==
  Plan(V, IF len = 0 THEN <<LengthTo(0)>>
          ELSE Mapped(Ascending(1, len - 1), LAMBDA j : Moves(j, j - 1)) \o <<Drops(len - 1), LengthTo(len - 1)>>,
       StdGet(V, 0))
StdUnshift(V, len, items) ==
  LET n == Len(items)
  IN  Plan(V, (IF n = 0 THEN <<>> ELSE Mapped(Descending(0, len - 1), LAMBDA j : Moves(j, j + n)))
                \o PutsFrom(0, items) \o <<LengthTo(len + n)>>, len + n)
StdReverse(V, len) ==
  LET pairs == Mapped(Ascending(0, len - 1), LAMBDA l : <<l, len - 1 - l>>)
      upper == SelectSeq(pairs, LAMBDA p : p[1] < p[2])
  IN  Plan(V, FlattenSeq(Mapped(upper, LAMBDA p : <<Writes(p[1], StdTry(V, p[2])), Writes(p[2], StdTry(V, p[1]))>>)),
           "this")
StdSplice(V, len, start, n, items) ==
  LET k == Len(items)
      moves == IF k < n THEN Mapped(Ascending(start, len - n - 1), LAMBDA j : Moves(j + n, j + k))
                               \o Mapped(Descending(len - n + k, len - 1), Drops)
               ELSE IF k > n THEN Mapped(Descending(start, len - n - 1), LAMBDA j : Moves(j + n, j + k))
               ELSE <<>>
  IN  Plan(V, moves \o PutsFrom(start, items) \o <<LengthTo(len - n + k)>>,
           StdHoles(V, start, start + n - 1))
StdCopyWithin(V, len, to, from, final) ==
  LET n == Min({final - from, len - to})
      order == IF from < to /\ to < from + n THEN Descending(0, n - 1) ELSE Ascending(0, n - 1)
  IN  Plan(V, Mapped(order, LAMBDA j : Moves(from + j, to + j)), "this")
\* undefined comes last.
StdOrder(s) == SortSeq(s, LAMBDA x, y : y # x /\ x # Undefined /\ (y = Undefined \/ x < y))
StdSortTo(V, W, s, len) ==
  Plan(IF Cardinality(Range(s) \ {Undefined}) > 1 THEN W ELSE V,
       PutsFrom(0, s) \o Mapped(Ascending(Len(s), len - 1), Drops), "this")
StdSort(V, W, len) == StdSortTo(V, W, StdOrder(FlattenSeq(StdHoles(V, 0, len - 1))), len)

\* The calls of a function: the first one runs the script.
StdThere(V, order) == SelectSeq(order, LAMBDA k : StdTry(V, k) # <<>>)
StdCalled(V, W, first, rest, when) ==
  LET seen == << <<first, StdGet(V, first)>> >> \o Mapped(rest, LAMBDA k : <<k, StdGet(W, k)>>)
      stops == {j \in DOMAIN seen : Stops(when, seen[j][2])}
  IN  Answer(W, IF stops = {} THEN seen ELSE SubSeq(seen, 1, Min(stops)))
Beyond(order, k) == SubSeq(order, SelectInSeq(order, LAMBDA x : x = k) + 1, Len(order))
StdVisits(V, W, first, order, skips, when) ==
  IF first = <<>> THEN Answer(V, <<>>)
  ELSE LET rest == Beyond(order, first[1])
       IN  StdCalled(V, W, first[1], IF skips THEN StdThere(W, rest) ELSE rest, when)
StdReduceFrom(V, W, there, order) ==
  LET r == StdVisits(V, W, Tail(there), order, TRUE, "never")
  IN  [r EXCEPT !.out = << <<there[1], StdGet(V, there[1])>> >> \o @]
StdReduce(V, W, order) ==
  LET there == StdThere(V, order)
  IN  IF there = <<>> THEN Throw(V) ELSE StdReduceFrom(V, W, there, order)

StdMethod(V, W, len, c) ==
  LET start == Relative(Arg(c, 1, 0), len)
      final == Relative(Arg(c, 2, len), len)
      skip  == IF c.args = <<>> THEN 0 ELSE Min({Max({Arg(c, 2, len), 0}), len - start})
      up    == Ascending(0, len - 1)
      v     == c.items[1]
      end   == LET n == Arg(c, 1, len - 1) IN Min({len, (IF n < 0 THEN n + len ELSE n) + 1})
      least(S) == IF S = {} THEN -1 ELSE Min(S)
  IN  CASE c.name = "at"          -> Answer(W, StdAt(W, len, Arg(c, 1, 0)))
        [] c.name = "with"        -> StdWith(W, len, Arg(c, 1, 0), v)
        [] c.name = "toSpliced"   -> StdToSpliced(W, len, start, skip, c.items)
        [] c.name = "toReversed"  -> Answer(V, Reverse(StdItems(V, 0, len - 1)))
        [] c.name = "toSorted"    -> Answer(V, StdOrder(StdItems(V, 0, len - 1)))
        [] c.name = "spread"      -> Answer(V, StdItems(V, 0, len - 1))
        [] c.name = "includes"    -> Answer(W, StdHits(W, len, v, start, TRUE) # {})
        [] c.name = "indexOf"     -> Answer(W, least(StdHits(W, len, v, start, FALSE)))
        [] c.name = "lastIndexOf" -> Answer(W, Max({-1} \cup StdHits(W, end, v, 0, FALSE)))
        [] c.name = "pop"         -> Plan(V, IF len = 0 THEN <<LengthTo(0)>>
                                             ELSE <<Drops(len - 1), LengthTo(len - 1)>>, StdGet(V, len - 1))
        [] c.name = "shift"       -> StdShift(V, len)
        [] c.name = "push"        -> Plan(V, PutsFrom(len, c.items) \o <<LengthTo(len + Len(c.items))>>,
                                          len + Len(c.items))
        [] c.name = "put"         -> Plan(V, <<PutsAt(c.args[1], v)>>, v)
        [] c.name = "unshift"     -> StdUnshift(V, len, c.items)
        [] c.name = "reverse"     -> StdReverse(V, len)
        [] c.name = "slice"       -> Answer(W, StdHoles(W, start, final - 1))
        [] c.name = "splice"      -> StdSplice(W, len, start, skip, c.items)
        [] c.name = "copyWithin"  -> StdCopyWithin(W, len, start, Relative(c.args[2], len),
                                       IF Len(c.args) = 3 THEN Relative(c.args[3], len) ELSE len)
        [] c.name = "fill"        -> Plan(W, Mapped(Ascending(start, final - 1), LAMBDA i : PutsAt(i, v)), "this")
        [] c.name = "sort"        -> StdSort(V, W, len)
        [] c.name = "concat"      -> Answer(V, StdHoles(V, 0, len - 1) \o Mapped(c.items, LAMBDA x : <<x>>))
        [] c.name = "every"       -> StdVisits(V, W, StdThere(V, up), up, TRUE, "other")
        [] c.name = "map"         -> StdVisits(V, W, StdThere(V, up), up, TRUE, "never")
        [] c.name = "find"        -> StdVisits(V, W, up, up, FALSE, "one")
        [] c.name = "findLast"    -> StdVisits(V, W, Reverse(up), Reverse(up), FALSE, "one")
        [] c.name = "reduce"      -> StdReduce(V, W, up)
        [] c.name = "reduceRight" -> StdReduce(V, W, Reverse(up))
----------------------------------------------------------------------------
(* Properties. *)

(* Four calls that do something else; h is the heap before the script of the call, g the     *)
(* heap after it:                                                                            *)
\* push onto an array that is longer than its elements counts what lies between,
PushesPastEnd(h, c) == c.name = "push" /\ Appends(h) /\ LengthWritable(h) /\ Count(h) < Length(h)
\* an assignment adds an element to an array with a read-only length,
PutsPastReadOnly(h, c) ==
  c.name = "put" /\ Appends(h) /\ ~LengthWritable(h) /\ c.args[1] = Length(h)
\* a search goes on in elements that were added while its argument was converted,
SearchesGrown(h, g, c) ==
  c.name \in {"includes", "indexOf"} /\ Fast(g) /\ Count(g) > Length(h)
\* and sort does not write a value that is in its place, although it was overwritten or is
\* read-only.
KeepsSorted(h, g, c) ==
  /\ c.name = "sort"
  /\ LET s == Sorted(h, Present(h, Length(h)))
     IN  \E j \in DOMAIN s : s[j].pos = j - 1 /\ Write(g, KeyOf(j - 1), <<s[j].v>>) # [h |-> g, ok |-> TRUE]
Deviates(h, g, c) ==
  PushesPastEnd(h, c) \/ PutsPastReadOnly(h, c) \/ SearchesGrown(h, g, c) \/ KeepsSorted(h, g, c)

SameOutcome(l, p, r) == View(heap) = r.view /\ l.ok = r.ok /\ (l.ok => l.out = p.out)
Expected(l, p) == SameOutcome(l, p, StdPerform(p))
Promised(l, V) == Expected(l, StdMethod(V, StdRun(V, l.call.script), V[this].own["length"].v, l.call))

\* Whatever a script made of an array, and whatever it does to it while a method converts its
\* arguments or calls it back, the method reads, writes and answers as the algorithm of
\* ECMAScript does, which knows properties only: the fast paths do not show.
MethodsAgree ==
  last # <<>> =>
    Deviates(last[1].before, last[1].during, last[1].call) \/ Promised(last[1], View(last[1].before))
=============================================================================
