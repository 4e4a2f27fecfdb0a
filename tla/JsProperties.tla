---------------------------- MODULE JsProperties ----------------------------
(***************************************************************************)
(* Properties of ordinary objects and arrays (quickjs.c): the values lie   *)
(* in slots, and a shape says which property each slot holds.  Objects     *)
(* share a shape while it is hashed; a shape is cloned, or taken out of    *)
(* the hash table, before it is changed.  A deleted property leaves a hole *)
(* until there are CompactAt of them.  A fast array keeps its elements     *)
(* outside the properties, until something odd is done to it.              *)
(*                                                                         *)
(* A key is a string; Index gives the array index it stands for, or        *)
(* NotIndex.  "enumerable" is left out (as if every descriptor said it),   *)
(* and so are setters, receivers other than the object itself, exotic      *)
(* objects other than arrays, and failures of malloc.  Values and getters  *)
(* are numbers.                                                            *)
(***************************************************************************)
EXTENDS Integers, Sequences, SequencesExt, FiniteSets, TLC

CONSTANTS
  Populations,    \* what a script has made when it starts: sequences of
                  \* records [class, proto], proto an object or 0
  Keys, Index,    \* the keys scripts use; Index[k] is a number or NotIndex
  Values, Getters,
  Lengths,        \* the lengths scripts give to arrays
  CompactAt,      \* 8 in delete_property; small here to be reached
  MaxOps          \* bound: operations

VARIABLES
  class,   \* of each object: "object" or "array"
  heap,    \* [shapes, of, slots, ext, fast, elems]; see Init
  ops      \* number of operations

vars == <<class, heap, ops>>

NotIndex == -1
Undefined == -2
Objects == DOMAIN class

(* A property of a shape: key, writable, configurable, and its kind: "data",   *)
(* "getset" or "length" (of an array).                                         *)
Entry(k, w, c, kind) == [key |-> k, w |-> w, c |-> c, kind |-> kind]
Hole == Entry("", FALSE, FALSE, "data")
Plain(k) == Entry(k, TRUE, TRUE, "data")
LengthEntry == Entry("length", TRUE, FALSE, "length")

(* A descriptor: each field is <<>> (absent) or <<value>>.                     *)
Descriptors ==
  [value : {<<>>} \cup {<<v>> : v \in Values}, get : {<<>>}, w : {<<>>, <<FALSE>>, <<TRUE>>},
   c : {<<>>, <<FALSE>>}]
    \cup [value : {<<>>}, get : {<<g>> : g \in Getters}, w : {<<>>}, c : {<<FALSE>>, <<TRUE>>}]
LengthDescriptors ==
  [value : {<<>>} \cup {<<n>> : n \in Lengths}, get : {<<>>}, w : {<<>>, <<FALSE>>}, c : {<<>>}]
AllTrue(v) == [value |-> <<v>>, get |-> <<>>, w |-> <<TRUE>>, c |-> <<TRUE>>]

IsAccessor(d) == d.get # <<>>
IsGeneric(d) == d.value = <<>> /\ d.w = <<>> /\ d.get = <<>>
Given(field, default) == IF field = <<>> THEN default ELSE field[1]
----------------------------------------------------------------------------
(* Shapes.  Shape 0 is array_shape, to which the context holds a reference.    *)

ArrayShape == 0
Shape(h, o) == h.shapes[h.of[o]]
Props(h, o) == Shape(h, o).props

Shared(h, s) == Cardinality({o \in Objects : h.of[o] = s}) + (IF s = ArrayShape THEN 1 ELSE 0) > 1

\* o moves to shape s, which is now sh; shapes nobody refers to are freed.
GiveShape(h, o, s, sh) ==
  LET of   == [h.of EXCEPT ![o] = s]
      used == {ArrayShape} \cup {of[x] : x \in Objects}
  IN  [h EXCEPT !.of = of,
                !.shapes = [t \in used |-> IF t = s THEN sh ELSE h.shapes[t]]]

Alter(h, o, sh) == GiveShape(h, o, h.of[o], sh)
Clone(h, o, sh) == GiveShape(h, o, Min((1..(Cardinality(Objects) + 1)) \ DOMAIN h.shapes), sh)

\* Without the test whether others use the shape.
PrepareNothing(h, o) == Alter(h, o, [Shape(h, o) EXCEPT !.hashed = FALSE])

\* js_shape_prepare_update
PrepareUpdate(h, o) ==
  LET sh == [Shape(h, o) EXCEPT !.hashed = FALSE]
  IN  IF ~Shape(h, o).hashed THEN h
      ELSE IF Shared(h, h.of[o]) THEN Clone(h, o, sh) ELSE Alter(h, o, sh)

AddProperty(h, o, e, v) ==
  LET sh   == Shape(h, o)
      more == [sh EXCEPT !.props = Append(@, e)]
      same == {s \in DOMAIN h.shapes : sh.hashed /\ h.shapes[s] = more}
      h1   == IF same # {} THEN LET s == Min(same) IN GiveShape(h, o, s, h.shapes[s])
              ELSE IF sh.hashed /\ Shared(h, h.of[o]) THEN Clone(h, o, more)
              ELSE Alter(h, o, more)
  IN  [h1 EXCEPT !.slots[o] = Append(@, v)]

PutEntry(h, o, i, e) == Alter(h, o, [Shape(h, o) EXCEPT !.props[i] = e])
SetEntry(h, o, i, e) == PutEntry(PrepareUpdate(h, o), o, i, e)
UpdateFlags(h, o, i, e) == IF e = Props(h, o)[i] THEN h ELSE SetEntry(h, o, i, e)

\* find_own_property: where the property is, or 0.
Pos(h, o, k) == Max({0} \cup {i \in DOMAIN Props(h, o) : Props(h, o)[i].key = k})
----------------------------------------------------------------------------
(* Arrays. *)

KeyOf(n) == CHOOSE k \in Keys : Index[k] = n
IsIndex(k) == k \in DOMAIN Index /\ Index[k] # NotIndex
IsElement(h, o, k) == h.fast[o] /\ IsIndex(k) /\ Index[k] < Len(h.elems[o])
ArrayLength(h, a) == h.slots[a][1]

ConvertToSlow(h, a) ==
  LET Add(g, i) == AddProperty(g, a, Plain(KeyOf(i - 1)), h.elems[a][i])
  IN  [FoldLeftDomain(LAMBDA g, i : Add(g, i), PrepareUpdate(h, a), h.elems[a])
         EXCEPT !.elems[a] = <<>>, !.fast[a] = FALSE]

AddElement(h, a, v) ==
  LET n == Len(h.elems[a]) + 1
      h1 == [h EXCEPT !.elems[a] = Append(@, v)]
  IN  IF n <= ArrayLength(h, a) THEN [h |-> h1, ok |-> TRUE]
      ELSE IF ~Props(h, a)[1].w THEN [h |-> h, ok |-> FALSE]
      ELSE [h |-> [h1 EXCEPT !.slots[a][1] = n], ok |-> TRUE]

\* The holes are closed once there are many.
CompactTo(h, o, kept) ==
  LET Pick(s) == FoldLeft(LAMBDA t, i : Append(t, s[i]), <<>>, kept)
      holes   == Len(Props(h, o)) - Len(kept)
  IN  IF holes >= CompactAt /\ holes >= Len(Props(h, o)) \div 2
      THEN [Alter(h, o, [Shape(h, o) EXCEPT !.props = Pick(@)]) EXCEPT !.slots[o] = Pick(@)]
      ELSE h
Compact(h, o) ==
  CompactTo(h, o, SetToSortSeq({i \in DOMAIN Props(h, o) : Props(h, o)[i] # Hole}, <))

PunchHole(h, o, i) == Compact([SetEntry(h, o, i, Hole) EXCEPT !.slots[o][i] = Undefined], o)

\* delete_property
DeleteAt(h, o, i) ==
  IF i = 0 THEN [h |-> h, ok |-> TRUE]
  ELSE IF ~Props(h, o)[i].c THEN [h |-> h, ok |-> FALSE]
  ELSE [h |-> PunchHole(h, o, i), ok |-> TRUE]
DeleteNamed(h, o, k) == DeleteAt(h, o, Pos(h, o, k))
DeleteProperty(h, o, k) ==
  DeleteNamed(IF Pos(h, o, k) = 0 /\ IsElement(h, o, k) THEN ConvertToSlow(h, o) ELSE h, o, k)

\* From the old length down to n, until an element cannot be deleted.
RECURSIVE ShrinkByIndex(_, _, _, _)
ShrinkByIndex(h, a, n, len) ==
  LET Then(d) == IF d.ok THEN ShrinkByIndex(d.h, a, n, len - 1) ELSE [h |-> h, len |-> len]
  IN  IF len = n THEN [h |-> h, len |-> len]
      ELSE IF \E k \in Keys : IsIndex(k) /\ Index[k] = len - 1
      THEN Then(DeleteProperty(h, a, KeyOf(len - 1)))
      ELSE ShrinkByIndex(h, a, n, len - 1)

\* Over the properties, whose places move when a deletion compacts them.
RECURSIVE Sweep(_, _, _, _)
Sweep(h, a, n, i) ==
  IF i > Len(Props(h, a)) THEN h
  ELSE LET k == Props(h, a)[i].key
       IN  Sweep(IF IsIndex(k) /\ Index[k] >= n THEN DeleteProperty(h, a, k).h ELSE h, a, n, i + 1)

ShrinkByProperty(h, a, n) ==
  LET fixed == {e \in Range(Props(h, a)) : IsIndex(e.key) /\ Index[e.key] >= n /\ ~e.c}
      Down(len) == [h |-> Sweep(h, a, len, 1), len |-> len]
  IN  Down(Max({n} \cup {Index[e.key] + 1 : e \in fixed}))

\* set_array_length
SetArrayLength(h, a, n) ==
  LET old == ArrayLength(h, a)
      To(r) == [h |-> [r.h EXCEPT !.slots[a][1] = r.len], ok |-> r.len = n]
  IN  IF ~Props(h, a)[1].w THEN [h |-> h, ok |-> FALSE]
      ELSE IF h.fast[a] THEN [h |-> [h EXCEPT !.elems[a] = SubSeq(@, 1, Min({n, Len(@)})),
                                          !.slots[a][1] = n],
                              ok |-> TRUE]
      ELSE To(IF n >= old THEN [h |-> h, len |-> n]
              ELSE IF old - n <= Len(Props(h, a)) THEN ShrinkByIndex(h, a, n, old)
              ELSE ShrinkByProperty(h, a, n))
----------------------------------------------------------------------------
(* Defining a property. *)

\* JS_CreateProperty.  The length of an array is raised before it is known
\* whether the array is extensible.
CreateSlow(h, o, k, d) ==
  LET raises == class[o] = "array" /\ IsIndex(k) /\ Index[k] + 1 > ArrayLength(h, o)
      e      == IF IsAccessor(d) THEN Entry(k, FALSE, Given(d.c, FALSE), "getset")
                ELSE Entry(k, Given(d.w, FALSE), Given(d.c, FALSE), "data")
      v      == IF IsAccessor(d) THEN d.get[1] ELSE Given(d.value, Undefined)
      Add(g) == IF g.ext[o] THEN [h |-> AddProperty(g, o, e, v), ok |-> TRUE]
                ELSE [h |-> g, ok |-> FALSE]
  IN  IF raises /\ ~Props(h, o)[1].w THEN [h |-> h, ok |-> FALSE]
      ELSE Add(IF raises THEN [h EXCEPT !.slots[o][1] = Index[k] + 1] ELSE h)
Create(h, o, k, d) ==
  LET next  == class[o] = "array" /\ IsIndex(k) /\ h.fast[o] /\ Index[k] = Len(h.elems[o])
      plain == ~IsAccessor(d) /\ Given(d.w, FALSE) /\ Given(d.c, FALSE)
  IN  IF next /\ ~h.ext[o] THEN [h |-> h, ok |-> FALSE]
      ELSE IF next /\ plain THEN AddElement(h, o, Given(d.value, Undefined))
      ELSE CreateSlow(IF h.fast[o] /\ IsIndex(k) THEN ConvertToSlow(h, o) ELSE h, o, k, d)

\* check_define_prop_flags
Allowed(e, d) ==
  \/ e.c
  \/ /\ d.c # <<TRUE>>
     /\ ~IsGeneric(d) =>
          /\ IsAccessor(d) <=> e.kind = "getset"
          /\ ~IsAccessor(d) /\ ~e.w => d.w # <<TRUE>>

\* The last step of JS_DefineProperty.
SetConfigurable(h, o, i, d) ==
  [h |-> UpdateFlags(h, o, i, [Props(h, o)[i] EXCEPT !.c = Given(d.c, @)]), ok |-> TRUE]

RedefineAccessor(h, o, i, d) ==
  LET e  == Props(h, o)[i]
      h1 == IF e.kind = "getset" THEN h
            ELSE SetEntry(h, o, i, Entry(e.key, FALSE, e.c, "getset"))
  IN  IF e.kind = "getset" /\ ~e.c /\ d.get[1] # h.slots[o][i] THEN [h |-> h, ok |-> FALSE]
      ELSE SetConfigurable([h1 EXCEPT !.slots[o][i] = d.get[1]], o, i, d)

\* The descriptor of a length holds no configurable: TRUE here.
RedefineLength(h, a, d) ==
  LET Then(r) == [h |-> UpdateFlags(r.h, a, 1, [Props(r.h, a)[1] EXCEPT !.w = @ /\ d.w # <<FALSE>>]),
                  ok |-> r.ok]
  IN  Then(IF d.value = <<>> THEN [h |-> h, ok |-> TRUE] ELSE SetArrayLength(h, a, d.value[1]))

RedefineData(h, o, i, d) ==
  LET e  == Props(h, o)[i]
      h1 == IF e.kind # "getset" THEN h
            ELSE [SetEntry(h, o, i, Entry(e.key, FALSE, e.c, "data")) EXCEPT !.slots[o][i] = Undefined]
      Write(g) == UpdateFlags(g, o, i, [Props(g, o)[i] EXCEPT !.w = Given(d.w, @)])
  IN  IF e.kind # "getset" /\ ~e.c /\ ~e.w /\ d.value # <<>>
      THEN [h |-> h, ok |-> d.value[1] = h.slots[o][i]]
      ELSE IF e.kind = "length" THEN RedefineLength(h, o, d)
      ELSE SetConfigurable(Write([h1 EXCEPT !.slots[o][i] = Given(d.value, @)]), o, i, d)

Redefine(h, o, i, d) ==
  IF ~Allowed(Props(h, o)[i], d) THEN [h |-> h, ok |-> FALSE]
  ELSE IF IsGeneric(d) THEN SetConfigurable(h, o, i, d)
  ELSE IF IsAccessor(d) THEN RedefineAccessor(h, o, i, d)
  ELSE RedefineData(h, o, i, d)

\* JS_DefineProperty
DefineSlow(h, o, k, d) ==
  IF Pos(h, o, k) # 0 THEN Redefine(h, o, Pos(h, o, k), d) ELSE Create(h, o, k, d)
DefineProperty(h, o, k, d) ==
  LET element == Pos(h, o, k) = 0 /\ IsElement(h, o, k)
      plain   == ~IsAccessor(d) /\ Given(d.w, TRUE) /\ Given(d.c, TRUE)
  IN  IF element /\ plain
      THEN [h |-> [h EXCEPT !.elems[o][Index[k] + 1] = Given(d.value, @)], ok |-> TRUE]
      ELSE DefineSlow(IF element THEN ConvertToSlow(h, o) ELSE h, o, k, d)
----------------------------------------------------------------------------
(* Setting a property (JS_SetPropertyInternal2). *)

\* Whether the prototypes of o let it have a property k of its own.
RECURSIVE Assignable(_, _, _)
Assignable(h, o, k) ==
  LET p == Shape(h, o).proto
      i == Pos(h, p, k)
  IN  \/ p = 0
      \/ i # 0 /\ Props(h, p)[i].kind # "getset" /\ Props(h, p)[i].w
      \/ i = 0 /\ (IsElement(h, p, k) \/ Assignable(h, p, k))

SetProperty(h, o, k, v) ==
  LET i == Pos(h, o, k)
      e == Props(h, o)[i]
      next == h.fast[o] /\ IsIndex(k) /\ Index[k] = Len(h.elems[o])
  IN  IF i # 0 THEN
        (IF e.kind = "length" THEN SetArrayLength(h, o, v)
         ELSE IF e.kind = "data" /\ e.w THEN [h |-> [h EXCEPT !.slots[o][i] = v], ok |-> TRUE]
         ELSE [h |-> h, ok |-> FALSE])
      ELSE IF IsElement(h, o, k) THEN [h |-> [h EXCEPT !.elems[o][Index[k] + 1] = v], ok |-> TRUE]
      ELSE IF ~Assignable(h, o, k) \/ ~h.ext[o] THEN [h |-> h, ok |-> FALSE]
      ELSE IF next THEN AddElement(h, o, v)
      ELSE IF class[o] = "array" THEN Create(h, o, k, AllTrue(v))
      ELSE [h |-> AddProperty(h, o, Plain(k), v), ok |-> TRUE]
----------------------------------------------------------------------------
(* Object.seal and Object.freeze (js_object_seal). *)

OwnKeys(h, o) == {k \in Keys : Pos(h, o, k) # 0 \/ IsElement(h, o, k)}
PreventExtensions(h, o) == [h EXCEPT !.ext[o] = FALSE]

Writable(h, o, k) == IsElement(h, o, k) \/ Props(h, o)[Pos(h, o, k)].w

Seal(h, o, freeze) ==
  LET D(g, k) == [value |-> <<>>, get |-> <<>>, c |-> <<FALSE>>,
                  w |-> IF freeze /\ Writable(g, o, k) THEN <<FALSE>> ELSE <<>>]
  IN  FoldLeft(LAMBDA g, k : DefineProperty(g, o, k, D(g, k)).h,
               PreventExtensions(h, o), SetToSeq(OwnKeys(h, o)))
----------------------------------------------------------------------------
ShapeOf(p, o) == IF p[o].class = "array" THEN ArrayShape
                 ELSE Min({x \in DOMAIN p : p[x].class = "object" /\ p[x].proto = p[o].proto})

\* Objects made alike start with one shape.  The arrays have one prototype.
Fresh(p) ==
  LET proto(s) == IF s # ArrayShape THEN p[s].proto
                  ELSE Max({0} \cup {p[o].proto : o \in {x \in DOMAIN p : p[x].class = "array"}})
      of == [o \in DOMAIN p |-> ShapeOf(p, o)]
  IN  [shapes |-> [s \in {ArrayShape} \cup {of[o] : o \in DOMAIN p} |->
                     [props |-> IF s = ArrayShape THEN <<LengthEntry>> ELSE <<>>,
                      hashed |-> TRUE, proto |-> proto(s)]],
       of    |-> of,
       slots |-> [o \in DOMAIN p |-> IF p[o].class = "array" THEN <<0>> ELSE <<>>],
       ext   |-> [o \in DOMAIN p |-> TRUE],
       fast  |-> [o \in DOMAIN p |-> p[o].class = "array"],
       elems |-> [o \in DOMAIN p |-> <<>>]]
Init ==
  \E p \in Populations :
    class = [o \in DOMAIN p |-> p[o].class] /\ heap = Fresh(p) /\ ops = 0

IsLength(o, k) == class[o] = "array" /\ k = "length"

Become(h) == ops < MaxOps /\ heap' = h /\ ops' = ops + 1 /\ UNCHANGED class

Set == \E o \in Objects, k \in Keys :
         \E v \in (IF IsLength(o, k) THEN Lengths ELSE Values) : Become(SetProperty(heap, o, k, v).h)
Define == \E o \in Objects, k \in Keys :
            \E d \in (IF IsLength(o, k) THEN LengthDescriptors ELSE Descriptors) :
              Become(DefineProperty(heap, o, k, d).h)
Delete == \E o \in Objects, k \in Keys : Become(DeleteProperty(heap, o, k).h)
Prevent == \E o \in Objects : Become(PreventExtensions(heap, o))
SealOrFreeze == \E o \in Objects, freeze \in BOOLEAN : Become(Seal(heap, o, freeze))

Next == Set \/ Define \/ Delete \/ Prevent \/ SealOrFreeze

Spec == Init /\ [][Next]_vars
----------------------------------------------------------------------------
(* The reference: an object is a set of properties, ECMAScript's rules say     *)
(* what an operation makes of them.                                            *)

OwnAt(h, o, k, i) ==
  IF i = 0 THEN [kind |-> "data", w |-> TRUE, c |-> TRUE, v |-> h.elems[o][Index[k] + 1]]
  ELSE [kind |-> IF Props(h, o)[i].kind = "getset" THEN "getset" ELSE "data",
        w |-> Props(h, o)[i].w, c |-> Props(h, o)[i].c, v |-> h.slots[o][i]]
Own(h, o, k) == OwnAt(h, o, k, Pos(h, o, k))
\* Object by object (a sequence, which TLC evaluates at once).
View(h) ==
  FoldLeftDomain(LAMBDA V, o : Append(V, [ext |-> h.ext[o], proto |-> Shape(h, o).proto,
                                          own |-> [k \in OwnKeys(h, o) |-> Own(h, o, k)]]),
                 <<>>, class)

With(V, o, k, p) == [V EXCEPT ![o].own = (k :> p) @@ @]
Without(V, o, ks) == [V EXCEPT ![o].own = [k \in DOMAIN @ \ ks |-> @[k]]]
Yes(V) == [view |-> V, ok |-> TRUE]
No(V) == [view |-> V, ok |-> FALSE]

\* ValidateAndApplyPropertyDescriptor
Valid(p, d) ==
  p.c \/ /\ d.c # <<TRUE>>
         /\ IsGeneric(d) \/ (IsAccessor(d) <=> p.kind = "getset")
         /\ p.kind = "getset" /\ IsAccessor(d) => d.get[1] = p.v
         /\ p.kind = "data" /\ ~p.w => d.w # <<TRUE>> /\ (d.value # <<>> => d.value[1] = p.v)

Applied(p, d) ==
  LET c == Given(d.c, p.c)
  IN  IF IsAccessor(d) THEN [kind |-> "getset", w |-> FALSE, c |-> c, v |-> d.get[1]]
      ELSE IF IsGeneric(d) THEN [p EXCEPT !.c = c]
      ELSE [kind |-> "data", c |-> c,
            w |-> Given(d.w, p.kind = "data" /\ p.w),
            v |-> Given(d.value, IF p.kind = "data" THEN p.v ELSE Undefined)]

New == [kind |-> "data", w |-> FALSE, c |-> FALSE, v |-> Undefined]

OrdinaryDefine(V, o, k, d) ==
  IF k \in DOMAIN V[o].own
  THEN IF Valid(V[o].own[k], d) THEN Yes(With(V, o, k, Applied(V[o].own[k], d))) ELSE No(V)
  ELSE IF V[o].ext THEN Yes(With(V, o, k, Applied(New, d))) ELSE No(V)

\* ArraySetLength: down to the last element that cannot be deleted.
DefineLength(V, a, d) ==
  LET len   == V[a].own["length"]
      stuck == {k \in DOMAIN V[a].own : IsIndex(k) /\ Index[k] >= d.value[1] /\ ~V[a].own[k].c}
      n     == Max({d.value[1]} \cup {Index[k] + 1 : k \in stuck})
      gone  == {k \in DOMAIN V[a].own : IsIndex(k) /\ Index[k] >= n}
  IN  IF d.value = <<>> \/ ~Valid(len, d) \/ d.value[1] >= len.v THEN OrdinaryDefine(V, a, "length", d)
      ELSE [view |-> With(Without(V, a, gone), a, "length", Applied(len, [d EXCEPT !.value = <<n>>])),
            ok   |-> stuck = {}]

StandardDefine(V, o, k, d) ==
  LET r   == OrdinaryDefine(V, o, k, d)
      len == V[o].own["length"]
  IN  IF class[o] # "array" \/ (k # "length" /\ ~IsIndex(k)) THEN r
      ELSE IF k = "length" THEN DefineLength(V, o, d)
      ELSE IF Index[k] < len.v THEN r
      ELSE IF ~len.w \/ ~r.ok THEN No(V)
      ELSE Yes(With(r.view, o, "length", [len EXCEPT !.v = Index[k] + 1]))

StandardDelete(V, o, k) ==
  IF k \in DOMAIN V[o].own /\ ~V[o].own[k].c THEN No(V) ELSE Yes(Without(V, o, {k}))

RECURSIVE Found(_, _, _)
Found(V, o, k) ==
  IF k \in DOMAIN V[o].own THEN {V[o].own[k]}
  ELSE IF V[o].proto = 0 THEN {} ELSE Found(V, V[o].proto, k)

StandardSet(V, o, k, v) ==
  IF \E p \in Found(V, o, k) : p.kind = "getset" \/ ~p.w THEN No(V)
  ELSE StandardDefine(V, o, k, IF k \in DOMAIN V[o].own
                               THEN [value |-> <<v>>, get |-> <<>>, w |-> <<>>, c |-> <<>>]
                               ELSE AllTrue(v))

StandardSeal(V, o, freeze) ==
  [V EXCEPT ![o].ext = FALSE,
            ![o].own = [k \in DOMAIN @ |->
               [@[k] EXCEPT !.c = FALSE, !.w = @ /\ ~freeze]]]
----------------------------------------------------------------------------
(* Properties. *)

(* Slots and shape have the same length, a hashed shape has no holes, a shape  *)
(* that is not hashed belongs to one object (the assertion of add_property),   *)
(* and arrays keep their length in the first slot.                             *)
TypeOK ==
  \A o \in Objects :
    /\ heap.of[o] \in DOMAIN heap.shapes
    /\ Len(heap.slots[o]) = Len(Props(heap, o))
    /\ IF Shape(heap, o).hashed THEN Hole \notin Range(Props(heap, o))
       ELSE ~Shared(heap, heap.of[o])
    /\ class[o] = "array" => Props(heap, o)[1].kind = "length"

(* "set the array length and remove the array elements if necessary"           *)
(* (quickjs.c:9912): no element of an array lies at or above its length.       *)
LengthAboveIndices ==
  \A o \in Objects : class[o] = "array" =>
    \A k \in OwnKeys(heap, o) : IsIndex(k) => Index[k] < ArrayLength(heap, o)

(* Every operation does to the object what ECMAScript says, with the same      *)
(* answer, and nothing to the others: the shapes they share, the holes, the    *)
(* prototypes and the fast elements do not show.  Three cases are left out:    *)
(* the definition of an element that raises the length of an array that is not *)
(* extensible (quickjs.c:10622 "XXX: should update the length after defining   *)
(* the property"), a shrink that compacts the properties it goes through, and  *)
(* the arrays it leaves behind (LengthAboveIndices is violated).               *)
RaisesAnyway(o, k, r) ==
  class[o] = "array" /\ IsIndex(k) /\ ~heap.ext[o] /\ ~r.ok /\ k \notin OwnKeys(heap, o)
CompactsUnderway(o, k, r) ==
  IsLength(o, k) /\ Len(Props(r.h, o)) < Len(Props(heap, o))

Same(r, s) == View(r.h) = s.view /\ r.ok = s.ok

SameUnlessCompacts(o, k, r, s) == CompactsUnderway(o, k, r) \/ Same(r, s)
SameUnlessRaises(o, k, r, s) == RaisesAnyway(o, k, r) \/ SameUnlessCompacts(o, k, r, s)

AgreesOn(V, o, k) ==
  /\ Same(DeleteProperty(heap, o, k), StandardDelete(V, o, k))
  /\ \A v \in (IF IsLength(o, k) THEN Lengths ELSE Values) :
       SameUnlessCompacts(o, k, SetProperty(heap, o, k, v), StandardSet(V, o, k, v))
  /\ \A d \in (IF IsLength(o, k) THEN LengthDescriptors ELSE Descriptors) :
       SameUnlessRaises(o, k, DefineProperty(heap, o, k, d), StandardDefine(V, o, k, d))

Agrees ==
  LET V == View(heap)
  IN  LengthAboveIndices =>
        \A o \in Objects :
          /\ \A k \in Keys : AgreesOn(V, o, k)
          /\ View(PreventExtensions(heap, o)) = [V EXCEPT ![o].ext = FALSE]
          /\ \A freeze \in BOOLEAN : View(Seal(heap, o, freeze)) = StandardSeal(V, o, freeze)
=============================================================================
