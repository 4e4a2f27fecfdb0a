-------------------------------- MODULE Marshal --------------------------------
(***************************************************************************)
(* The conversions between Elixir terms and JavaScript values (nif.zig),   *)
(* and the globals that set, set_path and get write and read with them.    *)
(*                                                                         *)
(* Terms and values are tuples that begin with their kind.  Integers keep  *)
(* the widths that matter: those up to Int32Max are ints in JavaScript,    *)
(* those up to ExactMax (2^53) are doubles without loss, an i64 ends at    *)
(* 2 * ExactMax (which stands for 2^63: only the order of the bounds and   *)
(* the rounding between the last two matter).  A double is twice its       *)
(* value, so that an odd one is a fraction.  Left out: NaN and infinities, *)
(* invalid UTF-8, Proxy objects, globals that cannot be written.           *)
(***************************************************************************)
EXTENDS Integers, Sequences, FiniteSets, FiniteSetsExt, SequencesExt, TLC

CONSTANTS
  MaxMarshalDepth, MaxResultArrayLength, MaxResultObjectProperties,
  MaxResultNodeCount,
  Int32Max, ExactMax,
  Name, Paths,     \* the global that is set and read, paths that begin with it
  Terms, Leaves,   \* terms that are set, and those that are set at a path
  Values,          \* what scripts assign to the global
  MaxOps           \* bound

LimitsAssumption ==
  /\ MaxResultNodeCount > 0 /\ MaxMarshalDepth > 0
  /\ Int32Max < ExactMax /\ ExactMax % 2 = 0
  /\ \A p \in Paths : Len(p) > 1 /\ p[1] = Name

VARIABLES
  global,     \* the properties of the global object
  last,       \* the last call that wrote: [path, term, ok, before]
  poisoned,   \* JsContext.poisoned
  ops
vars == <<global, last, poisoned, ops>>

Nil == <<"nil">>
Undefined == <<"undef">>
Object(props) == <<"object", props>>
WordEnd == 2 * ExactMax

\* The double nearest to an i64; a tie goes to the even one.
Double(i) ==
  IF i \in -ExactMax..ExactMax \/ i % 2 = 0 THEN i ELSE IF i % 4 = 1 THEN i - 1 ELSE i + 1

\* js_to_erl_limited: the branch of numbers. @intFromFloat of 2^63, which passes the test,
\* is undefined behaviour.
NumberToErl(v) ==
  IF v[1] = "int" THEN v
  ELSE IF v[2] = 2 * WordEnd THEN <<"anything">>
  ELSE IF v[2] % 2 = 0 /\ v[2] \div 2 \in (-WordEnd)..WordEnd THEN <<"int", v[2] \div 2>>
  ELSE <<"float", v[2]>>

Converted(t, left) == [err |-> "none", term |-> t, left |-> left]
Failed(e) == [err |-> e, term |-> Nil, left |-> 0]
\* What JavaScript has in a container at last: a value, or a getter that returns one, throws,
\* or deletes what comes after it.
Does(x, what) == x[1] = "getter" /\ x[2] = what
Read(x) == IF x[1] = "getter" THEN x[3] ELSE x

RECURSIVE ToErl(_, _, _)
\* The loops over the elements of an array and the properties of an object.
Convert(acc, x, depth) ==
  IF acc.gone THEN ToErl(Undefined, depth + 1, acc.left)
  ELSE IF Does(x, "throws") THEN Failed("raised")
  ELSE ToErl(Read(x), depth + 1, acc.left)
\* Mutant of ItemToErl: an element's nodes are not taken off the budget of the next one.
ItemToErlUncounted(acc, x, depth) ==
  LET r == Convert(acc, x, depth) IN
  IF acc.err # "none" THEN acc
  ELSE [err |-> r.err, terms |-> Append(acc.terms, r.term), left |-> acc.left,
        gone |-> acc.gone \/ Does(x, "deletes")]
ItemToErl(acc, x, depth) ==
  LET r == Convert(acc, x, depth) IN
  IF acc.err # "none" THEN acc
  ELSE [err |-> r.err, terms |-> Append(acc.terms, r.term), left |-> r.left,
        gone |-> acc.gone \/ Does(x, "deletes")]
ItemsToErl(items, depth, left) ==
  FoldLeft(LAMBDA acc, x : ItemToErl(acc, x, depth),
           [err |-> "none", terms |-> <<>>, left |-> left, gone |-> FALSE], items)

KeysOf(props) == {p[1] : p \in Range(props)}
ValueAt(props, values, k) == values[CHOOSE i \in DOMAIN props : props[i][1] = k]

\* js_to_erl_limited; a string is a "bin" on both sides, a map has its keys as domain.
ToErl(v, depth, budget) ==
  IF depth >= MaxMarshalDepth THEN Failed("depth")
  ELSE IF budget < 1 THEN Failed("size")
  ELSE LET left == budget - 1 IN
       CASE v[1] \in {"nil", "undef"} -> Converted(Nil, left)
         [] v[1] \in {"int", "double"} -> Converted(NumberToErl(v), left)
         [] v[1] \in {"bool", "bin"} -> Converted(v, left)
         [] v[1] = "function" -> Failed("function")
         [] v[1] = "array" ->
              LET r == ItemsToErl(v[2], depth, left) IN
              IF Len(v[2]) > MaxResultArrayLength \/ Len(v[2]) > left THEN Failed("size")
              ELSE IF r.err # "none" THEN Failed(r.err)
              ELSE Converted(<<"list", r.terms>>, r.left)
         [] v[1] = "object" ->
              LET r == ItemsToErl([i \in DOMAIN v[2] |-> v[2][i][2]], depth, left) IN
              IF Len(v[2]) > MaxResultObjectProperties \/ Len(v[2]) > left THEN Failed("size")
              ELSE IF r.err # "none" THEN Failed(r.err)
              ELSE Converted(<<"map", [k \in KeysOf(v[2]) |-> ValueAt(v[2], r.terms, k)]>>, r.left)
         [] OTHER -> Failed("js")   \* promises, symbols, BigInts: no exception is pending
----------------------------------------------------------------------------
(* Elixir to JavaScript. *)

\* map_key_to_z and the C string it becomes: numbers are written out, a NUL ends it.
Key(k) ==
  CASE k[1] = "int" -> ToString(k[2])
    [] k = <<"bin", "a NUL b">> -> "a"
    [] OTHER -> k[2]
\* setPropertyStr on a fresh object: __proto__ is an accessor of its prototype, every other
\* key becomes or overwrites an own property.
Put(props, k, v) ==
  IF k = "__proto__" THEN props
  ELSE IF k \in KeysOf(props)
  THEN [i \in DOMAIN props |-> IF props[i][1] = k THEN <<k, v>> ELSE props[i]]
  ELSE Append(props, <<k, v>>)

Made(v) == [err |-> "none", val |-> v]
Refused(e) == [err |-> e, val |-> Undefined]
\* erl_to_js; a map is the sequence of its pairs in the order of the iterator.
RECURSIVE FromErl(_, _)
AddItem(acc, x, depth) ==
  LET r == FromErl(x, depth + 1) IN
  IF acc.err # "none" THEN acc
  ELSE IF r.err # "none" THEN Refused(r.err)
  ELSE Made(<<"array", Append(acc.val[2], r.val)>>)
AddPair(acc, p, depth) ==
  LET r == FromErl(p[2], depth + 1) IN
  IF acc.err # "none" THEN acc
  ELSE IF p[1][1] = "other" THEN Refused("unsupported")
  ELSE IF r.err # "none" THEN Refused(r.err)
  ELSE Made(Object(Put(acc.val[2], Key(p[1]), r.val)))
FromErl(t, depth) ==
  IF depth >= MaxMarshalDepth THEN Refused("depth")
  ELSE CASE t[1] = "nil" -> Made(Nil)
         [] t[1] \in {"bool", "bin"} -> Made(t)
         [] t[1] = "atom" -> Made(<<"bin", t[2]>>)
         [] t[1] = "int" ->
              IF t[2] \notin (-WordEnd)..(WordEnd - 1) THEN Refused("unsupported")
              ELSE IF t[2] \in (-Int32Max)..(Int32Max - 1) THEN Made(t)
              ELSE Made(<<"double", 2 * Double(t[2])>>)
         [] t[1] = "float" -> Made(<<"double", t[2]>>)
         [] t[1] = "list" ->
              FoldLeft(LAMBDA acc, x : AddItem(acc, x, depth), Made(<<"array", <<>>>>), t[2])
         [] t[1] = "map" ->
              FoldLeft(LAMBDA acc, p : AddPair(acc, p, depth), Made(Object(<<>>)), t[2])
         [] OTHER -> Refused("unsupported")
----------------------------------------------------------------------------
(* The commands. *)

Lookup(v, k) ==
  IF v[1] = "object" /\ k \in KeysOf(v[2]) THEN ValueAt(v[2], [i \in DOMAIN v[2] |-> v[2][i][2]], k)
  ELSE Undefined
ValueOf(root, path) == FoldLeft(Lookup, Object(root), path)
IsNothing(v) == v[1] \in {"nil", "undef"}

\* execute_set_path: the objects on the way are made first, and remain if the value
\* is refused.
RECURSIVE PutPath(_, _, _)
PutPath(props, path, r) ==
  LET k == path[1]
      child == Lookup(Object(props), k)
  IN  IF Len(path) = 1 THEN IF r.err = "none" THEN Put(props, k, r.val) ELSE props
      ELSE Put(props, k, Object(PutPath(IF IsNothing(child) THEN <<>> ELSE child[2],
                                        Tail(path), r)))
Blocked(root, path) ==
  \E n \in 1..(Len(path) - 1) : LET v == ValueOf(root, SubSeq(path, 1, n)) IN
    ~IsNothing(v) /\ v[1] # "object"

Call(path, t, ok) ==
  /\ last' = [path |-> path, term |-> t, ok |-> ok, before |-> global]
  /\ ~poisoned /\ ops < MaxOps /\ ops' = ops + 1
  /\ UNCHANGED poisoned
SetValue(t) ==
  LET r == FromErl(t, 0) IN
  /\ global' = IF r.err = "none" THEN Put(global, Name, r.val) ELSE global
  /\ Call(<<Name>>, t, r.err = "none")
SetPath(path, t) ==
  LET r == FromErl(t, 0) IN
  /\ global' = IF Blocked(global, path) THEN global ELSE PutPath(global, path, r)
  /\ Call(path, t, ~Blocked(global, path) /\ r.err = "none")
\* execute_get, and an eval that ends with the value: a value without conversion poisons
\* the context (current_js_error_with_poison without a pending exception).
Get ==
  /\ ~poisoned
  /\ poisoned' = (ToErl(ValueOf(global, <<Name>>), 0, MaxResultNodeCount).err = "js")
  /\ UNCHANGED <<global, last, ops>>

NoCall == [path |-> <<>>, term |-> Nil, ok |-> FALSE, before |-> <<>>]
Init ==
  /\ global \in {<<>>} \union {<< <<Name, v>> >> : v \in Values}
  /\ last = NoCall /\ poisoned = FALSE /\ ops = 0
Next ==
  \/ \E t \in Terms : SetValue(t)
  \/ \E p \in Paths, t \in Leaves : SetPath(p, t)
  \/ Get
Spec == Init /\ [][Next]_vars
----------------------------------------------------------------------------
(* What a conversion should give, said of the whole tree. *)

\* The elements that a reader of the container finds, one after the other.
Found(items) ==
  [i \in DOMAIN items |->
     IF \E j \in 1..(i - 1) : Does(items[j], "deletes") THEN Undefined ELSE items[i]]
Items(v) ==
  IF v[1] = "array" THEN Found(v[2])
  ELSE IF v[1] = "object" THEN Found([i \in DOMAIN v[2] |-> v[2][i][2]])
  ELSE <<>>
RECURSIVE Parts(_)
\* The values of a tree, each with its depth.
Parts(v) == <<[val |-> v, depth |-> 0]>> \o
  FoldLeft(LAMBDA seen, x :
             IF Does(x, "throws") THEN Append(seen, [val |-> x, depth |-> 1])
             ELSE LET parts == Parts(Read(x)) IN
                  seen \o [i \in DOMAIN parts |-> [parts[i] EXCEPT !.depth = @ + 1]],
           <<>>, Items(v))
RECURSIVE Meaning(_)
Meaning(v) ==
  CASE v[1] = "array" -> <<"list", [i \in DOMAIN v[2] |-> Meaning(Read(Items(v)[i]))]>>
    [] v[1] = "object" ->
         <<"map", [k \in KeysOf(v[2]) |-> Meaning(Read(ValueAt(v[2], Items(v), k)))]>>
    [] v[1] = "undef" -> Nil
    [] v[1] = "double" -> IF v[2] % 2 = 0 /\ v[2] \div 2 \in (-WordEnd)..(WordEnd - 1)
                          THEN <<"int", v[2] \div 2>> ELSE <<"float", v[2]>>
    [] OTHER -> v
Readable(parts) ==
  /\ Len(parts) <= MaxResultNodeCount
  /\ \A p \in Range(parts) :
       /\ p.depth < MaxMarshalDepth
       /\ p.val[1] = "array" => Len(p.val[2]) <= MaxResultArrayLength
       /\ p.val[1] = "object" => Len(p.val[2]) <= MaxResultObjectProperties
       /\ p.val[1] \notin {"function", "getter", "promise", "symbol"}
AtTheEdge(v) == v = <<"double", 2 * WordEnd>>

\* What a term is when it comes back.
RECURSIVE Returned(_), TermDepth(_)
Returned(t) ==
  CASE t[1] = "atom" -> <<"bin", t[2]>>
    [] t[1] = "int" /\ t[2] \notin (-ExactMax)..ExactMax -> <<"int", Double(t[2])>>
    [] t[1] = "float" -> Meaning(<<"double", t[2]>>)
    [] t[1] = "list" -> <<"list", [i \in DOMAIN t[2] |-> Returned(t[2][i])]>>
    [] t[1] = "map" ->
         <<"map", [k \in {Key(p[1]) : p \in Range(t[2])} \ {"__proto__"} |->
            LET same == {i \in DOMAIN t[2] : Key(t[2][i][1]) = k} IN Returned(t[2][Max(same)][2])]>>
    [] OTHER -> t
Subterms(t) ==
  IF t[1] = "list" THEN t[2] ELSE IF t[1] = "map" THEN [i \in DOMAIN t[2] |-> t[2][i][2]] ELSE <<>>
TermDepth(t) == 1 + Max({0} \union {TermDepth(x) : x \in Range(Subterms(t))})
RECURSIVE Supported(_)
Supported(t) ==
  /\ t[1] # "other"
  /\ t[1] = "int" => t[2] \in (-WordEnd)..(WordEnd - 1)
  /\ t[1] = "map" => \A p \in Range(t[2]) : p[1][1] # "other"
  /\ \A x \in Range(Subterms(t)) : Supported(x)
----------------------------------------------------------------------------
TypeOK ==
  /\ \A p \in Range(global) : p[1] \in STRING
  /\ last.ok \in BOOLEAN /\ poisoned \in BOOLEAN /\ ops \in 0..MaxOps

\* A value is read exactly if all of its tree is within the limits and has a conversion,
\* and then the whole of it, as it was found element by element.
ReadsAll(v, parts) ==
  LET r == ToErl(v, 0, MaxResultNodeCount) IN
  /\ (r.err = "none") <=> Readable(parts)
  /\ r.err = "none" => r.term = Meaning(v) /\ r.left = MaxResultNodeCount - Len(parts)
  /\ poisoned => r.err = "js"
\* A call that fails leaves every value as it was but those on its way: nothing may have
\* become an object, and an object may have got one.
Kept(c, q) ==
  LET was == ValueOf(c.before, q)
      is == ValueOf(global, q)
  IN  \/ is = was
      \/ /\ IsStrictPrefix(q, c.path) /\ is[1] = "object"
         /\ IsNothing(was) \/ (was[1] = "object" /\ \A k \in KeysOf(was[2]) :
              IsStrictPrefix(Append(q, k), c.path) \/ Lookup(is, k) = Lookup(was, k))

\* Whatever terms and values cross the boundary, the traversals with their budget and depth
\* accept what is within the limits and nothing else, a term that is accepted comes back
\* (js_to_erl after erl_to_js), and a set that is refused, half done or not, loses nothing.
ConversionsAgree ==
  LET v == ValueOf(global, <<Name>>)
      parts == Parts(v)
  IN
  /\ (\A p \in Range(parts) : ~AtTheEdge(p.val)) => ReadsAll(v, parts)
  /\ \A q \in Paths \union {<<Name>>} :
       last # NoCall /\ (~last.ok \/ (~IsPrefix(q, last.path) /\ ~IsPrefix(last.path, q))) =>
         Kept(last, q)
  /\ last.ok => LET r == ToErl(ValueOf(global, last.path), 0, MaxResultNodeCount) IN
       /\ Supported(last.term) /\ TermDepth(last.term) <= MaxMarshalDepth
       /\ r.err \in {"none", "size"}
       /\ r.err = "none" => \/ r.term = Returned(last.term)
                            \/ \E p \in Range(parts) : AtTheEdge(p.val)
=============================================================================
