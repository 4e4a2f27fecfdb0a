----------------------------- MODULE JsTypedArray -----------------------------
(***************************************************************************)
(* A resizable ArrayBuffer with typed arrays and DataViews on it           *)
(* (quickjs.c).  A typed array keeps its number of elements beside its     *)
(* buffer's length; whatever resizes or detaches the buffer goes through   *)
(* the views.  The arguments of a method are converted one after the       *)
(* other, and a conversion may run a script that resizes or detaches the   *)
(* buffer the method is about to use.                                      *)
(*                                                                         *)
(* A byte has Base values; elements of one and two bytes stand for all     *)
(* types, the lower byte comes first.  The kinds of errors are not told    *)
(* apart.  Left out: subclasses and species, shared and immutable buffers, *)
(* BigInts and floats, the comparator of sort.                             *)
(***************************************************************************)
EXTENDS Integers, Sequences, FiniteSets, FiniteSetsExt, SequencesExt

CONSTANTS
  Base,                  \* the values of a byte
  FirstBytes, MaxBytes,  \* the contents of the buffer at first, its maxByteLength
  Shapes,                \* views that scripts make: [size, offset, length, dv]
  Ints,                  \* numbers that scripts pass
  Spells,                \* what a conversion does: [does, to]
  MaxViews, MaxOps       \* bounds

BufferAssumption ==
  Len(FirstBytes) <= MaxBytes /\ Range(FirstBytes) \subseteq 0..(Base - 1)

VARIABLES
  buf,     \* JSArrayBuffer: data, detached
  views,   \* JSTypedArray and its object, in the order of their creation
  ops      \* number of operations
vars == <<buf, views, ops>>

Undef == 1000   \* an argument that is not given, a value that is undefined

Least(S) == Min(S)
Most(S) == Max(S)
Between(x, lo, hi) == Least({Most({x, lo}), hi})

\* What a method answers, and the heap it leaves: h is [buf, views].
Answer(h, x) == [h |-> h, out |-> <<x>>]
Answers(h, s) == [h |-> h, out |-> s]
Raise(h) == [h |-> h, out |-> <<"raises">>]

ByteLength(h) == Len(h.buf.data)
Number(s) == FoldRight(LAMBDA d, r : d + Base * r, s, 0)
Digits(x, size) == [j \in 1..size |-> (IF j = 1 THEN x ELSE x \div Base) % Base]
Bytes(h, at, n) == SubSeq(h.buf.data, at + 1, at + n)
PutBytes(h, at, s) ==
  [h EXCEPT !.buf.data = [i \in DOMAIN @ |-> IF i - at \in DOMAIN s THEN s[i - at] ELSE @[i]]]
Get(h, v, i) == LET w == h.views[v] IN Number(Bytes(h, w.offset + i * w.size, w.size))
Put(h, v, i, x) ==
  LET w == h.views[v] IN PutBytes(h, w.offset + i * w.size, Digits(x, w.size))
\* A read and a write of an element by its index, within the array or not.
GetValue(h, v, i) == IF i \in 0..(h.views[v].count - 1) THEN Get(h, v, i) ELSE Undef
SetValue(h, v, i, x) == IF i \in 0..(h.views[v].count - 1) THEN Put(h, v, i, x) ELSE h
----------------------------------------------------------------------------
(* The buffer. *)

\* js_array_buffer_update_typed_arrays
UpdateView(len, w) ==
  IF w.dv THEN (IF w.track /\ w.offset < len THEN [w EXCEPT !.length = len - w.offset] ELSE w)
  ELSE [w EXCEPT !.count =
          IF w.track THEN (IF len >= w.offset + w.size THEN (len - w.offset) \div w.size ELSE 0)
          ELSE IF len >= w.offset + w.length THEN w.length \div w.size ELSE 0]
\* Mutant of UpdateViews: only views that tracked the length change.
UpdateTracking(h) ==
  [h EXCEPT !.views = [v \in DOMAIN @ |->
     IF @[v].track THEN UpdateView(ByteLength(h), @[v]) ELSE @[v]]]
UpdateViews(h) == [h EXCEPT !.views = [v \in DOMAIN @ |-> UpdateView(ByteLength(h), @[v])]]

Resized(s, n) == [i \in 1..n |-> IF i <= Len(s) THEN s[i] ELSE 0]
Resize(h, n) ==
  IF h.buf.detached \/ n \notin 0..MaxBytes THEN Raise(h)
  ELSE Answer(UpdateViews([h EXCEPT !.buf.data = Resized(@, n)]), Undef)

\* The data go to another buffer, which is the answer.
Detach(h) == UpdateViews([h EXCEPT !.buf = [data |-> <<>>, detached |-> TRUE]])

\* The conversion of an argument [x, does, to]: its valueOf resizes or detaches.
Convert(h, a) ==
  IF a.does = "detach" THEN Detach(h) ELSE IF a.does = "resize" THEN Resize(h, a.to).h ELSE h
ConvertAll(h, s) == FoldLeft(Convert, h, s)

Transfer(h, a) ==
  LET After(g, n) == IF g.buf.detached \/ n > MaxBytes THEN Raise(g)
                     ELSE Answers(Detach(g), Resized(g.buf.data, n))
  IN  IF a.x < 0 THEN Raise(Convert(h, a))
      ELSE After(Convert(h, a), IF a.x = Undef THEN ByteLength(h) ELSE a.x)

\* JS_ToInt32Clamp of an argument that may not be given.
Clamp(a, len) ==
  IF a.x = Undef THEN len ELSE Between(IF a.x < 0 THEN a.x + len ELSE a.x, 0, len)

SliceBuffer(h, a, b) ==
  LET start == Clamp(a, ByteLength(h))
      n     == Most({Clamp(b, ByteLength(h)) - start, 0})
      After(g) == IF g.buf.detached \/ ByteLength(g) < start + n THEN Raise(g)
                  ELSE Answers(g, Bytes(g, start, n))
  IN  IF h.buf.detached THEN Raise(h) ELSE After(ConvertAll(h, <<a, b>>))

IsOob(h, v) ==
  LET w == h.views[v] IN
  \/ h.buf.detached
  \/ w.offset > ByteLength(h)
  \/ ~w.track /\ (ByteLength(h) < w.offset + w.length \/ ByteLength(h) < w.offset + w.count * w.size)
\* dataview_is_oob
IsViewOob(h, v) ==
  LET w == h.views[v] IN
  h.buf.detached \/ w.offset > ByteLength(h) \/ (~w.track /\ w.offset + w.length > ByteLength(h))
----------------------------------------------------------------------------
(* Making views. *)

\* typed_array_init
TypedArrayInit(h, size, offset, n, track) ==
  [h EXCEPT !.views = Append(@, [size |-> size, offset |-> offset, length |-> n * size,
                                 track |-> track, count |-> n, dv |-> FALSE])]

\* js_typed_array_constructor of the buffer, js_dataview_constructor
NewTypedArray(h, size, offset, b) ==
  LET After(g, n) ==
        IF g.buf.detached \/ offset + n * size > ByteLength(g) THEN Raise(g)
        ELSE Answer(TypedArrayInit(g, size, offset, n, b.x = Undef), Undef)
  IN  IF h.buf.detached \/ offset % size # 0 \/ offset > ByteLength(h) THEN Raise(h)
      ELSE IF b.x = Undef THEN After(h, (ByteLength(h) - offset) \div size)
      ELSE IF b.x < 0 THEN Raise(Convert(h, b))
      ELSE After(Convert(h, b), b.x)
NewDataView(h, offset, b) ==
  LET After(g, n) ==
        IF g.buf.detached \/ offset + n > ByteLength(g) THEN Raise(g)
        ELSE Answer([g EXCEPT !.views = Append(@,
               [size |-> 1, offset |-> offset, length |-> n, track |-> b.x = Undef, count |-> 0,
                dv |-> TRUE])], Undef)
      room == ByteLength(h) - offset
  IN  IF h.buf.detached \/ room < 0 THEN Raise(h)
      ELSE IF b.x = Undef THEN After(h, room)
      ELSE IF b.x \notin 0..room THEN Raise(Convert(h, b))
      ELSE After(Convert(h, b), b.x)

ByteOffset(h, v) == IF IsOob(h, v) THEN 0 ELSE h.views[v].offset
ByteLengthOf(h, v) ==
  LET w == h.views[v] IN
  IF w.dv THEN (IF IsViewOob(h, v) THEN Raise(h)
                ELSE Answer(h, IF w.track THEN ByteLength(h) - w.offset ELSE w.length))
  ELSE Answer(h, IF IsOob(h, v) THEN 0 ELSE IF w.track THEN w.count * w.size ELSE w.length)

Subarray(h, v, a, b) ==
  LET w     == h.views[v]
      start == Clamp(a, w.count)
      n     == Most({Clamp(b, w.count) - start, 0})
      After(g) ==
        IF w.offset > ByteLength(g) \/ (w.offset = ByteLength(g) /\ n > 0) THEN Raise(g)
        ELSE NewTypedArray(g, w.size, ByteOffset(g, v) + start * w.size,
               [x |-> IF w.track /\ b.x = Undef THEN Undef ELSE n, does |-> "nothing", to |-> 0])
  IN  After(ConvertAll(h, <<a, b>>))
----------------------------------------------------------------------------
(* Elements and the methods of typed arrays. *)

\* An assignment to an element: its bounds are checked once the value is converted.
Assign(h, v, i, x) == Answer(SetValue(Convert(h, x), v, i, x.x), Undef)

At(h, v, a) ==
  LET k == IF a.x < 0 THEN a.x + h.views[v].count ELSE a.x
      After(g) == Answer(g, GetValue(g, v, k))
  IN  IF IsOob(h, v) THEN Raise(h) ELSE After(Convert(h, a))

With(h, v, a, b) ==
  LET len == h.views[v].count
      k   == IF a.x < 0 THEN a.x + len ELSE a.x
      Item(g, i) == IF i = k THEN Number(Digits(b.x, g.views[v].size))
                    ELSE IF i < g.views[v].count THEN Get(g, v, i) ELSE 0
      After(g) == IF IsOob(g, v) \/ k \notin 0..(g.views[v].count - 1) THEN Raise(g)
                  ELSE Answers(g, [i \in 1..len |-> Item(g, i - 1)])
  IN  After(ConvertAll(h, <<a, b>>))

\* js_typed_array_set_internal of a view, and of a list whose elements are [x, does, to].
SetView(h, v, from, a) ==
  LET After(g, w, u) ==
        IF a.x < 0 \/ IsOob(g, v) \/ IsOob(g, from) \/ a.x > w.count - u.count THEN Raise(g)
        ELSE IF u.size = w.size
        THEN Answer(PutBytes(g, w.offset + a.x * w.size, Bytes(g, u.offset, u.count * u.size)), Undef)
        ELSE Answer(FoldLeft(LAMBDA f, i : SetValue(f, v, a.x + i - 1, Get(f, from, i - 1)),
                             g, [i \in 1..u.count |-> i]), Undef)
      Start(g) == After(g, g.views[v], g.views[from])
  IN  Start(Convert(h, a))
SetList(h, v, s, a) ==
  LET One(g, i) == IF IsOob(g, v) THEN g ELSE SetValue(g, v, a.x + i - 1, s[i].x)
      After(g) ==
        IF a.x < 0 \/ IsOob(g, v) \/ a.x > g.views[v].count - Len(s) THEN Raise(g)
        ELSE Answer(FoldLeft(LAMBDA f, i : One(Convert(f, s[i]), i), g, [i \in DOMAIN s |-> i]), Undef)
  IN  After(Convert(h, a))

CopyWithin(h, v, a, b, c) ==
  LET len  == h.views[v].count
      to   == Clamp(a, len)
      from == Clamp(b, len)
      n(g) == Least({Clamp(c, len) - from, len - to, g.views[v].count - Most({to, from})})
      Copy(g, w, k) ==
        IF k <= 0 THEN g
        ELSE PutBytes(g, w.offset + to * w.size, Bytes(g, w.offset + from * w.size, k * w.size))
      After(g) == IF IsOob(g, v) THEN Raise(g) ELSE Answer(Copy(g, g.views[v], n(g)), Undef)
  IN  IF IsOob(h, v) THEN Raise(h) ELSE After(ConvertAll(h, <<a, b, c>>))

Fill(h, v, x, a, b) ==
  LET len == h.views[v].count
      PutAll(g, is) == FoldLeft(LAMBDA f, i : Put(f, v, i, x.x), g, is)
      After(g, k, final) ==
        IF IsOob(g, v) THEN Raise(g)
        ELSE Answer(PutAll(g, SetToSeq(k..(Least({final, g.views[v].count}) - 1))), Undef)
  IN  IF IsOob(h, v) THEN Raise(h)
      ELSE After(ConvertAll(h, <<x, a, b>>), Clamp(a, len), Clamp(b, len))

\* js_typed_array_indexOf: indexOf, lastIndexOf and includes, of a number or Undef.
Matches(h, v, x, is) == {i \in is : Get(h, v, i) = x}
Search(h, v, special, x, a) ==
  LET len   == h.views[v].count
      made  == h.views[v].length \div h.views[v].size
      from  == IF a.x < 0 THEN a.x + len ELSE a.x
      Reply(g, S) ==
        IF special = "includes" THEN Answer(g, S # {})
        ELSE Answer(g, IF S = {} THEN -1 ELSE IF special = "indexOf" THEN Least(S) ELSE Most(S))
      After(g) ==
        IF special = "lastIndexOf" /\ from < 0 THEN Reply(g, {})
        ELSE IF IsOob(g, v) \/ len > g.views[v].count
        THEN Reply(g, IF special = "includes" /\ x = Undef /\ Between(from, 0, len) < made
                      THEN {0} ELSE {})
        ELSE IF x = Undef THEN Reply(g, {})
        ELSE IF special = "lastIndexOf" THEN Reply(g, Matches(g, v, x, 0..Least({from, len - 1})))
        ELSE Reply(g, Matches(g, v, x, Between(from, 0, len)..(len - 1)))
  IN  IF IsOob(h, v) THEN Raise(h)
      ELSE IF len = 0 THEN Reply(h, {})
      ELSE After(Convert(h, a))

\* js_typed_array_find of what is not there: the values that the callback sees; at its first
\* call it does a spell.
Find(h, v, spell) ==
  LET len == h.views[v].count
      See(r, i) == [h |-> IF i = 1 THEN Convert(r.h, spell) ELSE r.h,
                    out |-> Append(r.out, GetValue(r.h, v, i - 1))]
  IN  IF IsOob(h, v) THEN Raise(h)
      ELSE FoldLeft(See, Answers(h, <<>>), [i \in 1..len |-> i])

\* js_typed_array_join: the fields between separators; the separator is converted.
Join(h, v, sep) ==
  LET old == h.views[v].count
      After(g, new) ==
        Answers(g, [i \in 1..Least({old, new}) |-> GetValue(g, v, i - 1)]
                   \o [i \in 1..Most({old - new, 0}) |-> Undef])
      Start(g) == After(g, g.views[v].count)
  IN  IF IsOob(h, v) THEN Raise(h) ELSE Start(Convert(h, sep))

\* js_typed_array_reverse, toReversed and sort: two pointers, a copy, rqsort of integers.
Items(h, v) == [i \in 1..h.views[v].count |-> Get(h, v, i - 1)]
PutItems(h, v, s) == FoldLeft(LAMBDA f, i : Put(f, v, i - 1, s[i]), h, [i \in DOMAIN s |-> i])
ReverseItems(h, v) ==
  IF IsOob(h, v) THEN Raise(h) ELSE Answer(PutItems(h, v, Reverse(Items(h, v))), Undef)
ToReversed(h, v) == IF IsOob(h, v) THEN Raise(h) ELSE Answers(h, Reverse(Items(h, v)))
Sort(h, v) ==
  IF IsOob(h, v) THEN Raise(h)
  ELSE Answer(PutItems(h, v, SortSeq(Items(h, v), <)), Undef)

Slice(h, v, a, b) ==
  LET len   == h.views[v].count
      start == Clamp(a, len)
      n     == Most({Clamp(b, len) - start, 0})
      Zeros(k) == [i \in 1..k |-> 0]
      \* The slow path: what is left of the array is read by index.
      Left(g) == Least({n, Most({0, g.views[v].count - start})})
      After(g, w) ==
        IF n > 0 /\ IsOob(g, v) THEN Raise(g)
        ELSE IF w.count = len /\ w.length \div w.size >= start + n
        THEN Answers(g, [i \in 1..n |-> Get(g, v, start + i - 1)])
        ELSE Answers(g, [i \in 1..Left(g) |-> GetValue(g, v, start + i - 1)] \o Zeros(n - Left(g)))
      Start(g) == After(g, g.views[v])
  IN  IF IsOob(h, v) THEN Raise(h) ELSE Start(ConvertAll(h, <<a, b>>))
----------------------------------------------------------------------------
(* DataViews and Atomics. *)

Beyond(h, v, pos, size) ==
  LET w == h.views[v] IN
  h.buf.detached \/ pos < 0 \/ pos + size > w.length \/ w.offset + w.length > ByteLength(h)
GetView(h, v, size, a) ==
  LET After(g) == IF Beyond(g, v, a.x, size) THEN Raise(g)
                  ELSE Answer(g, Number(Bytes(g, g.views[v].offset + a.x, size)))
  IN  After(Convert(h, a))
SetViewValue(h, v, size, a, x) ==
  LET After(g) == IF Beyond(g, v, a.x, size) THEN Raise(g)
                  ELSE Answer(PutBytes(g, g.views[v].offset + a.x, Digits(x.x, size)), Undef)
  IN  IF a.x < 0 THEN Raise(Convert(h, a)) ELSE After(ConvertAll(h, <<a, x>>))

\* js_atomics_get_buf; js_atomics_op, of add: index, then value, then the index again.
AtomicIndex(h, v, a) ==
  IF h.buf.detached \/ a.x \notin 0..(Convert(h, a).views[v].count - 1) THEN -1 ELSE a.x
AtomicAdd(h, v, a, x) ==
  LET After(g, i) ==
        IF i >= g.views[v].count THEN Raise(g)
        ELSE Answers(Put(g, v, i, Get(g, v, i) + x.x), <<Get(g, v, i)>>)
      i == AtomicIndex(h, v, a)
  IN  IF i < 0 THEN Raise(IF h.buf.detached THEN h ELSE Convert(h, a))
      ELSE After(ConvertAll(h, <<a, x>>), i)
----------------------------------------------------------------------------
(* Scripts: they make views, resize and detach the buffer, write to it. *)

Just(x) == [x |-> x, does |-> "nothing", to |-> 0]
Heap == [buf |-> buf, views |-> views]
Become(r) == /\ buf' = r.h.buf /\ views' = r.h.views
             /\ ops < MaxOps /\ ops' = ops + 1

Make(s) ==
  /\ Len(views) < MaxViews
  /\ Become(IF s.dv THEN NewDataView(Heap, s.offset, Just(s.length))
            ELSE NewTypedArray(Heap, s.size, s.offset, Just(s.length)))
ResizeBuffer(n) == Become(Resize(Heap, n))
TransferBuffer == Become(Transfer(Heap, Just(Undef)))
FillView(v) == ~views[v].dv /\ Become(Fill(Heap, v, Just(1), Just(1), Just(Undef)))

Init == buf = [data |-> FirstBytes, detached |-> FALSE] /\ views = <<>> /\ ops = 0
Next ==
  \/ \E s \in Shapes : Make(s)
  \/ \E n \in 0..MaxBytes : ResizeBuffer(n)
  \/ TransferBuffer
  \/ \E v \in DOMAIN views : FillView(v)
Spec == Init /\ [][Next]_vars
----------------------------------------------------------------------------
(* ECMAScript: a view has no length of its own, it is computed of the      *)
(* buffer at every use (MakeTypedArrayWithBufferWitnessRecord).            *)

StdOob(h, v) ==
  LET w == h.views[v] IN
  h.buf.detached \/ w.offset > ByteLength(h) \/ (~w.track /\ w.offset + w.length > ByteLength(h))
StdBytes(h, v) ==
  LET w == h.views[v] IN IF w.track THEN ByteLength(h) - w.offset ELSE w.length
StdLength(h, v) == IF StdOob(h, v) THEN 0 ELSE StdBytes(h, v) \div h.views[v].size
StdGet(h, v, i) == IF i \in 0..(StdLength(h, v) - 1) THEN Get(h, v, i) ELSE Undef
StdItems(h, v) == [i \in 1..StdLength(h, v) |-> Get(h, v, i - 1)]
\* f is a function of indices; those out of bounds are not written.
StdWrite(h, v, f) ==
  LET w == h.views[v]
      n == StdLength(h, v)
      Index(i) == (i - 1 - w.offset) \div w.size
      Written(i) == i > w.offset /\ Index(i) < n /\ Index(i) \in DOMAIN f
  IN  Answer([h EXCEPT !.buf.data = [i \in DOMAIN @ |->
        IF Written(i) THEN Digits(f[Index(i)], w.size)[((i - 1 - w.offset) % w.size) + 1] ELSE @[i]]], Undef)

StdAt(h, g, v, a) ==
  LET k == IF a.x < 0 THEN a.x + StdLength(h, v) ELSE a.x
  IN  Answer(g, IF k < StdLength(h, v) THEN StdGet(g, v, k) ELSE Undef)
StdWith(h, g, v, a, b) ==
  LET k == IF a.x < 0 THEN a.x + StdLength(h, v) ELSE a.x
      Item(i) == IF i = k THEN b.x % (IF h.views[v].size = 1 THEN Base ELSE Base * Base)
                 ELSE IF StdGet(g, v, i) = Undef THEN 0 ELSE StdGet(g, v, i)
  IN  IF StdGet(g, v, k) = Undef THEN Raise(g)
      ELSE Answers(g, [i \in 1..StdLength(h, v) |-> Item(i - 1)])
StdSetView(g, v, from, a) ==
  LET s == StdItems(g, from)
  IN  IF a.x < 0 \/ StdOob(g, v) \/ StdOob(g, from) \/ a.x + Len(s) > StdLength(g, v) THEN Raise(g)
      ELSE StdWrite(g, v, [i \in a.x..(a.x + Len(s) - 1) |-> s[i - a.x + 1]])
StdSetList(g, v, s, a) ==
  LET One(f, i) == StdWrite(Convert(f, s[i]), v, (a.x + i - 1) :> s[i].x).h
  IN  IF a.x < 0 \/ StdOob(g, v) \/ a.x + Len(s) > StdLength(g, v) THEN Raise(g)
      ELSE Answer(FoldLeft(One, g, [i \in DOMAIN s |-> i]), Undef)
StdCopyWithin(h, g, v, a, b, c) ==
  LET len == StdLength(h, v)
      to == Clamp(a, len)
      from == Clamp(b, len)
      n  == Least({Clamp(c, len) - from, len - to})
  IN  IF StdOob(g, v) THEN Raise(g)
      ELSE StdWrite(g, v, [i \in {i \in to..(to + n - 1) : i - to + from < StdLength(g, v)} |->
                             StdGet(g, v, i - to + from)])
StdFill(h, g, v, x, a, b) ==
  LET len == StdLength(h, v)
  IN  IF StdOob(g, v) THEN Raise(g)
      ELSE StdWrite(g, v, [i \in Clamp(a, len)..(Clamp(b, len) - 1) |-> x.x])
StdSearch(h, g, v, special, x, a) ==
  LET len  == StdLength(h, v)
      from == IF a.x < 0 THEN a.x + len ELSE a.x
      S    == {i \in 0..(len - 1) : /\ IF special = "lastIndexOf" THEN i <= from ELSE i >= from
                                    /\ StdGet(g, v, i) = x /\ (x = Undef => special = "includes")}
  IN  CASE special = "includes" -> Answer(g, S # {})
        [] S = {} -> Answer(g, -1)
        [] special = "indexOf" /\ S # {} -> Answer(g, Least(S))
        [] special = "lastIndexOf" /\ S # {} -> Answer(g, Most(S))
StdSlice(h, g, v, a, b) ==
  LET len == StdLength(h, v)
      start == Clamp(a, len)
      n == Most({Clamp(b, len) - start, 0})
      Item(i) == IF StdGet(g, v, i) = Undef THEN 0 ELSE StdGet(g, v, i)
  IN  IF n > 0 /\ StdOob(g, v) THEN Raise(g) ELSE Answers(g, [i \in 1..n |-> Item(start + i - 1)])
StdBeyond(h, v, pos, size) == StdOob(h, v) \/ pos < 0 \/ pos + size > StdBytes(h, v)
StdPutBytes(h, v, pos, s) == Answer(PutBytes(h, h.views[v].offset + pos, s), Undef)
StdTypedArray(h, size, offset, n) ==
  LET room == ByteLength(h) - offset
      view(k) == [size |-> size, offset |-> offset, length |-> k * size, track |-> n = Undef,
                  count |-> k, dv |-> FALSE]
  IN  IF h.buf.detached \/ offset % size # 0 \/ room < 0 \/ (n # Undef /\ n \notin 0..(room \div size))
      THEN Raise(h)
      ELSE Answer([h EXCEPT !.views = Append(@, view(IF n = Undef THEN room \div size ELSE n))], Undef)
StdDataView(h, offset, n) ==
  LET room == ByteLength(h) - offset
  IN  IF h.buf.detached \/ room < 0 \/ (n # Undef /\ n \notin 0..room) THEN Raise(h)
      ELSE Answer([h EXCEPT !.views = Append(@,
             [size |-> 1, offset |-> offset, length |-> IF n = Undef THEN room ELSE n,
              track |-> n = Undef, count |-> 0, dv |-> TRUE])], Undef)
StdSubarray(h, g, v, a, b) ==
  LET w == h.views[v]
      len == StdLength(h, v)
      start == Clamp(a, len)
  IN  StdTypedArray(g, w.size, w.offset + start * w.size,
        IF w.track /\ b.x = Undef THEN Undef ELSE Most({Clamp(b, len) - start, 0}))
StdSliceBuffer(h, g, a, b) ==
  LET len == ByteLength(h)
      Item(i) == IF i \in DOMAIN g.buf.data THEN g.buf.data[i] ELSE 0
  IN  IF g.buf.detached THEN Raise(g)
      ELSE Answers(g, [i \in 1..Most({Clamp(b, len) - Clamp(a, len), 0}) |-> Item(Clamp(a, len) + i)])
StdAtomicAdd(h, g, v, a, x) ==
  IF a.x >= StdLength(h, v) THEN Raise(Convert(h, a))
  ELSE IF a.x >= StdLength(g, v) THEN Raise(g)
  ELSE LET old == StdGet(g, v, a.x) IN Answer(StdWrite(g, v, a.x :> (old + x.x)).h, old)
----------------------------------------------------------------------------
(* Properties. *)

\* The buffer has bytes within its maximum; views have what typed_array_init gives them.
TypeOK ==
  /\ buf.data \in Seq(0..(Base - 1)) /\ Len(buf.data) <= MaxBytes /\ buf.detached \in BOOLEAN
  /\ \A v \in DOMAIN views : views[v] \in
       [size : {1, 2}, offset : 0..MaxBytes, length : 0..MaxBytes, track : BOOLEAN,
        count : 0..MaxBytes, dv : BOOLEAN]
  /\ ops \in 0..MaxOps

\* A number, undefined where it may be, with a conversion that casts a spell.
Cast(X) == {[x |-> x, does |-> s.does, to |-> s.to] : x \in X, s \in Spells}
Justly(X) == {Just(x) : x \in X}
\* Two arguments; the conversion of one of them casts a spell.
TwoArgs(X, Y) == (Cast(X) \X Justly(Y)) \union (Justly(X) \X Cast(Y))
OrUndef(X) == X \union {Undef}

\* What a method writes and answers is what the standard says, and each view's own
\* number of elements is that of its part of the buffer afterwards.
Sound(h) == \A v \in DOMAIN h.views : h.views[v].dv \/
              (h.views[v].count = StdLength(h, v) /\ IsOob(h, v) = StdOob(h, v))
Same(code, std) == code = std /\ Sound(code.h)
Longer(g, h, v) == StdLength(g, v) > StdLength(h, v)

ReadsAgree(h, v) ==
  /\ \A a \in Cast(Ints) : LET g == Convert(h, a) IN
       /\ ~Longer(g, h, v) => Same(At(h, v, a), StdAt(h, g, v, a))
       /\ StdLength(g, v) >= StdLength(h, v) => 
            \A x \in 0..Base, m \in {"indexOf", "lastIndexOf", "includes"} :
            Same(Search(h, v, m, IF x = Base THEN Undef ELSE x, a),
                 StdSearch(h, IF StdLength(h, v) = 0 THEN h ELSE g, v, m, IF x = Base THEN Undef ELSE x, a))
  /\ \A a \in Cast({0}) : LET g == Convert(h, a) IN
       /\ Same(Join(h, v, a), Answers(g, [i \in 1..StdLength(h, v) |-> StdGet(g, v, i - 1)]))
       /\ Same(Find(h, v, a), Answers(IF StdLength(h, v) > 0 THEN g ELSE h,
            [i \in 1..StdLength(h, v) |-> StdGet(IF i = 1 THEN h ELSE g, v, i - 1)]))
  /\ \A p \in TwoArgs(Ints, OrUndef(Ints)) : LET g == ConvertAll(h, p) IN
       /\ Same(Slice(h, v, p[1], p[2]), StdSlice(h, g, v, p[1], p[2]))
       /\ p[2].x # Undef => Same(With(h, v, p[1], p[2]), StdWith(h, g, v, p[1], p[2]))
  /\ Same(ToReversed(h, v), Answers(h, Reverse(StdItems(h, v))))
WritesAgree(h, v) ==
  /\ \A p \in TwoArgs(Ints, OrUndef(Ints)) : LET g == ConvertAll(h, p) IN
       /\ Same(Fill(h, v, Just(1), p[1], p[2]), StdFill(h, g, v, Just(1), p[1], p[2]))
       /\ Same(CopyWithin(h, v, p[1], Just(1), p[2]), StdCopyWithin(h, g, v, p[1], Just(1), p[2]))
       /\ Same(CopyWithin(h, v, Just(0), p[1], p[2]), StdCopyWithin(h, g, v, Just(0), p[1], p[2]))
       /\ p[1].does = "nothing" /\ p[1].x >= 0 /\ p[2].x # Undef =>
            Same(Assign(h, v, p[1].x, p[2]), StdWrite(g, v, p[1].x :> p[2].x))
       /\ p[2].x # Undef => Same(SetList(h, v, <<p[2], Just(1)>>, p[1]),
                                 StdSetList(Convert(h, p[1]), v, <<p[2], Just(1)>>, p[1]))
  /\ \A a \in Cast(Ints), u \in DOMAIN views : LET g == Convert(h, a) IN
       views[u].size = views[v].size /\ ~views[u].dv => Same(SetView(h, v, u, a), StdSetView(g, v, u, a))
  /\ Same(ReverseItems(h, v), LET s == Reverse(StdItems(h, v)) IN
       StdWrite(h, v, [i \in 0..(Len(s) - 1) |-> s[i + 1]]))
  /\ Same(Sort(h, v), LET s == SortSeq(StdItems(h, v), <) IN
       StdWrite(h, v, [i \in 0..(Len(s) - 1) |-> s[i + 1]]))
MakingAgrees(h) ==
  /\ \A size \in {1, 2}, offset \in 0..ByteLength(h), b \in Cast(OrUndef(Ints)) :
       LET g == IF b.x = Undef \/ h.buf.detached \/ offset % size # 0 THEN h ELSE Convert(h, b) IN
       /\ Same(NewTypedArray(h, size, offset, b), StdTypedArray(g, size, offset, b.x))
       /\ size = 1 /\ b.x <= ByteLength(h) - offset =>
            Same(NewDataView(h, offset, b), StdDataView(g, offset, b.x))
  /\ \A p \in TwoArgs(Ints, OrUndef(Ints)) : LET g == ConvertAll(h, p) IN
       ByteLength(g) >= ByteLength(h) \/ g.buf.detached =>
         Same(SliceBuffer(h, p[1], p[2]), StdSliceBuffer(h, g, p[1], p[2]))
ViewAgrees(h, v) ==
  /\ Same(ByteLengthOf(h, v), IF views[v].dv /\ StdOob(h, v) THEN Raise(h) ELSE
       Answer(h, IF views[v].dv THEN StdBytes(h, v) ELSE StdLength(h, v) * views[v].size))
  /\ \A p \in TwoArgs(Ints, {0, 1}), size \in {1, 2} : LET g == ConvertAll(h, p) IN
       IF views[v].dv
       THEN /\ Same(GetView(h, v, size, p[1]), LET f == Convert(h, p[1]) IN
                 IF StdBeyond(f, v, p[1].x, size) THEN Raise(f)
                 ELSE Answer(f, Number(Bytes(f, views[v].offset + p[1].x, size))))
            /\ p[1].x >= 0 => Same(SetViewValue(h, v, size, p[1], p[2]),
                 IF StdBeyond(g, v, p[1].x, size) THEN Raise(g)
                 ELSE StdPutBytes(g, v, p[1].x, Digits(p[2].x, size)))
       ELSE ~Longer(Convert(h, p[1]), h, v) /\ p[1].x >= 0 =>
              Same(AtomicAdd(h, v, p[1], p[2]), StdAtomicAdd(h, g, v, p[1], p[2]))
  /\ ~views[v].dv => \A p \in TwoArgs(Ints, OrUndef(Ints)) : LET g == ConvertAll(h, p) IN
       ~StdOob(g, v) /\ ~(views[v].track /\ views[v].offset = ByteLength(g)) =>
         Same(Subarray(h, v, p[1], p[2]), StdSubarray(h, g, v, p[1], p[2]))

\* Whatever scripts resized, detached or wrote, and whatever a conversion within a call does,
\* every method of every view reads, writes and answers as if the view's length were
\* computed of the buffer (js_array_buffer_update_typed_arrays keeps it up to date, the
\* methods check it again after they ran a script).
ViewsAgree ==
  /\ Sound(Heap) /\ MakingAgrees(Heap)
  /\ \A v \in DOMAIN views :
       /\ ViewAgrees(Heap, v)
       /\ ~views[v].dv /\ ~StdOob(Heap, v) => ReadsAgree(Heap, v) /\ WritesAgree(Heap, v)
=============================================================================
