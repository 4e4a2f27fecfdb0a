------------------------------- MODULE MCData --------------------------------
(***************************************************************************)
(* The parts of the engine that are about data, its modules and the values *)
(* that cross the boundary, each alone, as one specification for TLC:      *)
(* component says which part moves, the variables of the others stay 0.    *)
(***************************************************************************)
EXTENDS Integers, Sequences, FiniteSets, TLC

CONSTANTS
  Components,  \* the parts of a run
  ArrayValues, ArrayCompactAt, ArrayOps,
  NoModule, ma, mb, mc, md, i1, i2

VARIABLES
  component,   \* the part that moves; never changes
  \* JsRegExp
  pattern, input, flags, code, pc, cptr, caps, stack, states, ret, result,
  \* JsProperties
  class, heap, ops,
  \* JsArrays
  this, last,
  \* JsModules
  deps, tla, status, error, root, asyncEval, stamp, awaited, parents,
  promise, dfs, low, calls, scc, exec, bodies, execQueue, import, settled,
  executed, done,
  \* Marshal
  global, written, unusable, writes

regexpVars == <<pattern, input, flags, code, pc, cptr, caps, stack, states,
  ret, result>>
propertyVars == <<class, heap, ops>>
methodVars == <<this, last>>
moduleVars == <<deps, tla, status, error, root, asyncEval, stamp, awaited,
  parents, promise, dfs, low, calls, scc, exec, bodies, execQueue, import,
  settled, executed, done>>
marshalVars == <<global, written, unusable, writes>>
vars == <<component, regexpVars, propertyVars,
          methodVars, moduleVars, marshalVars>>

\* The populations of JsProperties.
Made(c, p) == [class |-> c, proto |-> p]
ObjectPopulations ==
  {<<Made("object", 0), Made("object", 0)>>, <<Made("object", 0), Made("object", 1)>>}
ArrayPopulations == {<<Made("array", 0)>>}
ArrayIndex == "0" :> 0 @@ "1" :> 1 @@ "5" :> 5 @@ "length" :> -1

\* Patterns, their bounds of repetition, inputs and flags.
A == [k |-> "char", c |-> "a"]
B == [k |-> "char", c |-> "b"]
Dot == [k |-> "dot"]
Word(neg) == [k |-> "word", neg |-> neg]
Sequence(ts) == [k |-> "seq", ts |-> ts]
Choice(ts) == [k |-> "alt", ts |-> ts]
Group(n, t) == [k |-> "group", n |-> n, t |-> t]
Around(neg, back, t) == [k |-> "look", neg |-> neg, back |-> back, t |-> t]
Quant(t, q, g) == [k |-> "quant", t |-> t, min |-> q[1], max |-> q[2], greedy |-> g]
Ref == [k |-> "ref", n |-> 1]
Empty == Sequence(<<>>)
Repetitions == {<<0, 99>>, <<1, 99>>, <<0, 1>>, <<1, 2>>, <<0, 2>>, <<2, 2>>}
Capturing ==
  {Group(1, Choice(<<A, B>>)), Choice(<<Group(1, A), B>>), Around(FALSE, FALSE, Group(1, A)),
   Group(1, Quant(Dot, <<0, 2>>, TRUE)), Sequence(<<Group(1, A), Ref>>),
   Quant(Group(1, Choice(<<A, Empty>>)), <<1, 2>>, TRUE)}
Plainly ==
  {A, Sequence(<<Word(FALSE), A>>), Choice(<<Sequence(<<A, B>>), A, Empty>>),
   Sequence(<<Around(TRUE, FALSE, B), Dot>>), [k |-> "set", s |-> {"a", "b"}]}
Ends ==
  {Empty, Ref, Around(FALSE, TRUE, Sequence(<<Quant(A, <<1, 2>>, TRUE), Group(2, B)>>))}
MCPatterns ==
  {Sequence(<<Quant(t, q, g), u>>) : t \in Capturing, q \in Repetitions, g \in BOOLEAN, u \in Ends}
    \union
  {Sequence(<<Group(1, Quant(t, q, g)), u>>) :
     t \in Plainly, q \in Repetitions, g \in BOOLEAN, u \in Ends}
    \union
  {Sequence(<<[k |-> "bol"], Group(1, Quant(A, <<0, 99>>, TRUE)), [k |-> "eol"], Dot, Ref>>)}
MCInputs == {<<>>, <<"a">>, <<"b">>, <<"a", "a">>, <<"a", "b">>, <<"b", "a">>,
             <<"a", "b", "a">>, <<"a", "a", "b">>, <<"a", "nl", "A">>}
MCFlags ==
  {[multiline |-> FALSE, dotall |-> FALSE, icase |-> FALSE, sticky |-> FALSE],
   [multiline |-> TRUE, dotall |-> TRUE, icase |-> TRUE, sticky |-> TRUE]}
MCLower == [x \in {"a", "b", "A", "nl"} |-> IF x = "A" THEN "a" ELSE x]
-----------------------------------------------------------------------------
(* Quantified terms, each followed by what tells its captures apart. *)
RegExp_ == INSTANCE JsRegExp WITH
  Patterns <- MCPatterns, Inputs <- MCInputs, Flags <- MCFlags,
  Newline <- {"nl"}, Wordly <- {"a", "b", "A"}, Lower <- MCLower,
  Infinity <- 99
regexpInit ==
  IF component = "regexp" THEN RegExp_!Init ELSE
    pattern = 0 /\ input = 0 /\ flags = 0 /\ code = 0 /\ pc = 0 /\ cptr = 0
    /\ caps = 0 /\ stack = 0 /\ states = 0 /\ ret = 0 /\ result = 0
regexpNext == IF component = "regexp" THEN RegExp_!Next ELSE UNCHANGED regexpVars

-----------------------------------------------------------------------------
(* Two plain objects, apart or one the prototype of the other; one array. *)
Objects_ == INSTANCE JsProperties WITH
  Populations <- ObjectPopulations, Keys <- {"x", "y"},
  Index <- [k \in {"x", "y"} |-> -1], Values <- {0}, Getters <- {10},
  Lengths <- {0}, CompactAt <- 2, MaxOps <- 3
Array == INSTANCE JsProperties WITH
  Populations <- ArrayPopulations, Keys <- DOMAIN ArrayIndex,
  Index <- ArrayIndex, Values <- ArrayValues, Getters <- {10},
  Lengths <- {0, 6}, CompactAt <- ArrayCompactAt, MaxOps <- ArrayOps
propertyInit ==
  IF component = "objects" THEN Objects_!Init ELSE
  IF component = "array" THEN Array!Init ELSE
    class = 0 /\ heap = 0 /\ ops = 0
propertyNext ==
  IF component = "objects" THEN Objects_!Next ELSE
  IF component = "array" THEN Array!Next ELSE
  UNCHANGED propertyVars

(* A method of an array of two or three elements, which may have become odd, with a script
   that runs meanwhile.  Object 1 is the prototype, object 2 the array. *)
Operation(does, o, k, v, d) == [does |-> does, o |-> o, k |-> k, v |-> v, d |-> d]
SetTo(k, v) == Operation("set", 2, k, v, <<>>)
DefineAs(k, d) == Operation("define", 2, k, 0, <<d>>)
Does(does, k) == Operation(does, 2, k, 0, <<>>)
Elements(s) == [j \in DOMAIN s |-> SetTo(<<"0", "1", "2">>[j], s[j])]
Readonly == [value |-> <<>>, get |-> <<>>, w |-> <<FALSE>>, c |-> <<>>]
Fixed == [value |-> <<>>, get |-> <<>>, w |-> <<>>, c |-> <<FALSE>>]
Getter == [value |-> <<>>, get |-> <<10>>, w |-> <<>>, c |-> <<>>]
MethodIndex ==
  "0" :> 0 @@ "1" :> 1 @@ "2" :> 2 @@ "3" :> 3 @@ "4" :> 4 @@ "5" :> 5 @@ "6" :> 6 @@ "length" :> -1
MCPreparations ==
  {SetTo("length", 1), SetTo("length", 4), SetTo("1", -2), SetTo("3", 1),
   DefineAs("length", Readonly), DefineAs("1", Readonly),
   DefineAs("1", Fixed), DefineAs("0", Getter),
   Does("delete", "0"), Does("prevent", ""), Does("freeze", ""),
   Operation("set", 1, "2", 1, <<>>)}
MCScripts ==
  {<<>>, <<SetTo("2", 1)>>, <<SetTo("length", 1)>>, <<DefineAs("0", Readonly)>>}
CallsOf(names, args, items, scripts) ==
  [name : names, args : args, items : items, script : scripts]
Ints == {-1, 1, 3}
MCCalls ==
  CallsOf({"toReversed", "toSorted", "spread", "pop", "shift", "reverse"}, {<<>>}, {<<>>}, {<<>>})
  \union CallsOf({"sort", "every", "map", "find", "findLast", "reduce", "reduceRight"}, {<<>>}, {<<>>}, MCScripts)
  \union CallsOf({"push", "unshift", "concat"}, {<<>>}, {<<>>, <<1>>, <<1, 2>>}, {<<>>})
  \union CallsOf({"at"}, {<<x>> : x \in Ints}, {<<>>}, MCScripts)
  \union CallsOf({"with"}, {<<x>> : x \in Ints}, {<<1>>}, MCScripts)
  \union CallsOf({"includes", "indexOf", "lastIndexOf"}, {<<>>, <<-1>>, <<1>>}, {<<1>>, <<-2>>}, MCScripts)
  \union CallsOf({"slice"}, {<<-1>>, <<1, 3>>, <<0, -1>>}, {<<>>}, MCScripts)
  \union CallsOf({"splice", "toSpliced"}, {<<>>, <<1>>, <<0, 1>>, <<1, 3>>, <<-1, 0>>}, {<<>>, <<1, 1>>}, MCScripts)
  \union CallsOf({"copyWithin"}, {<<0, 1>>, <<1, 0>>, <<1, 0, 2>>, <<-1, 0, 3>>, <<0, -1>>}, {<<>>}, MCScripts)
  \union CallsOf({"fill"}, {<<>>, <<1>>, <<-1, 3>>}, {<<2>>}, MCScripts)
  \union CallsOf({"put"}, (0..3) \X {0, 1}, {<<1>>}, {<<>>})
Methods == INSTANCE JsArrays WITH
  Populations <- {<<Made("object", 0), Made("array", 1)>>}, Keys <- DOMAIN MethodIndex,
  Index <- MethodIndex, Values <- {1}, Getters <- {10}, Lengths <- {0},
  CompactAt <- 8, MaxOps <- 2, FirstScripts <- {Elements(s) : s \in {<<2>>, <<1, 2>>, <<2, 1, 1>>}},
  Preparations <- MCPreparations, Calls <- MCCalls, Stale <- -3
methodInit ==
  IF component = "methods" THEN Methods!MethodInit ELSE
    propertyInit /\ this = 0 /\ last = 0
methodNext ==
  IF component = "methods" THEN Methods!MethodNext ELSE propertyNext /\ UNCHANGED methodVars

-----------------------------------------------------------------------------
(* Two imports of a tree with a shared leaf, and of two graphs with cycles. *)
\* Graphs of modules, as the dependencies of ma to md.
Graph(x, y, z, w) == ma :> x @@ mb :> y @@ mc :> z @@ md :> w
MCGraphs ==
  {Graph(<<mb, mc>>, <<md>>, <<md>>, <<>>),
   Graph(<<mb>>, <<mc, ma>>, <<md>>, <<mc>>),
   Graph(<<mb, md>>, <<mc>>, <<ma>>, <<>>)}
Module_ == INSTANCE JsModules WITH
  Modules <- {ma, mb, mc, md}, Graphs <- MCGraphs, Imports <- {i1, i2},
  NoModule <- NoModule, pending <- awaited, queue <- execQueue, ran <- executed
moduleInit ==
  IF component = "module" THEN Module_!Init ELSE
    deps = 0 /\ tla = 0 /\ status = 0 /\ error = 0 /\ root = 0
    /\ asyncEval = 0 /\ stamp = 0 /\ awaited = 0 /\ parents = 0
    /\ promise = 0 /\ dfs = 0 /\ low = 0 /\ calls = 0 /\ scc = 0 /\ exec = 0
    /\ bodies = 0 /\ execQueue = 0 /\ import = 0 /\ settled = 0
    /\ executed = 0 /\ done = 0
moduleNext == IF component = "module" THEN Module_!Next ELSE UNCHANGED moduleVars

-----------------------------------------------------------------------------
(* Terms and values up to the limits of depth, size and width, and one step beyond: an
   i64 ends at 8, a container has two elements, a tree five nodes and three levels. *)
UpTo(k, S) == UNION {[1..m -> S] : m \in 0..k}
EndTerms == {<<"int", i>> : i \in {-8, -3, 2, 3, 4, 5, 7, 8}} \union {<<"float", h>> : h \in {1, 4, 16, -16, 18}}
Three == << <<"nil">>, <<"nil">>, <<"nil">> >>
AList(s) == <<"list", s>>
MCKeys ==
  {<<"bin", "a">>, <<"int", 1>>, <<"bin", "a NUL b">>, <<"bin", "__proto__">>, <<"other">>}
MCItems == {<<"int", 5>>, AList(<<>>), AList(<<AList(<< <<"nil">> >>)>>), <<"other">>}
MCTerms ==
  EndTerms \union {<<"bool", TRUE>>, <<"atom", "a">>}
  \union {AList(s) : s \in UpTo(2, MCItems) \union {Three}}
  \union {<<"map", <<p, q>> >> : p \in MCKeys \X {<<"int", 5>>}, q \in MCKeys \X {AList(<<>>), <<"nil">>}}
  \union {<<"map", <<p>> >> : p \in {<<"atom", "b">>} \X MCItems}
AnArray(s) == <<"array", s>>
AnObject(s) == <<"object", [j \in DOMAIN s |-> << <<"b", "c", "d">>[j], s[j]>>]>>
AGetter(does, v) == <<"getter", does, v>>
One == AnArray(<< <<"int", 1>> >>)
Nested == AnObject(<<AnObject(<<>>)>>)
MCElements ==
  {<<"undef">>, One, AGetter("throws", <<"nil">>), AGetter("deletes", <<"int", 1>>),
   AGetter("returns", AnArray(<< <<"symbol">> >>))}
MCSeqs ==
  {Three, <<Nested, <<"nil">> >>, << <<"int", 1>>, Nested>>, <<AnObject(<<>>)>>,
   <<AnArray(<< <<"int", 1>>, <<"nil">> >>), <<"double", 3>> >>, <<One, <<"function">> >>}
MCValues ==
  {<<"function">>, <<"promise">>, <<"undef">>, <<"double", 16>>, <<"double", 18>>}
  \union {AnArray(s) : s \in UpTo(2, MCElements) \union MCSeqs}
  \union {AnObject(s) : s \in UpTo(1, MCElements) \union MCSeqs}
Marshalling == INSTANCE Marshal WITH
  MaxMarshalDepth <- 3, MaxResultArrayLength <- 2, MaxResultObjectProperties <- 2,
  MaxResultNodeCount <- 5, Int32Max <- 2, ExactMax <- 4, Name <- "a",
  Paths <- {<<"a", "b">>, <<"a", "c">>, <<"a", "b", "c">>}, Terms <- MCTerms,
  Leaves <- {<<"int", 1>>, <<"other">>, AList(<< <<"nil">> >>)}, Values <- MCValues,
  MaxOps <- 1, last <- written, poisoned <- unusable,
  ops <- writes
marshalInit ==
  IF component = "marshal" THEN Marshalling!Init ELSE
    global = 0 /\ written = 0 /\ unusable = 0 /\ writes = 0
marshalNext == IF component = "marshal" THEN Marshalling!Next ELSE UNCHANGED marshalVars

-----------------------------------------------------------------------------
\* What the modules assume of their parameters holds of these.
ASSUME
  /\ Module_!ModulesAssumption
  /\ Marshalling!LimitsAssumption

Init ==
  /\ component \in Components /\ regexpInit
  /\ methodInit /\ moduleInit /\ marshalInit
Next ==
  /\ UNCHANGED component /\ regexpNext /\ methodNext
  /\ moduleNext /\ marshalNext
Spec == Init /\ [][Next]_vars

-----------------------------------------------------------------------------
(* Properties: those of the modules, of the component that moves. *)

\* The types of every module's variables.
TypeOK ==
  /\ component = "regexp" => RegExp_!TypeOK
  /\ component = "objects" => Objects_!TypeOK
  /\ component = "array" => Array!TypeOK
  /\ component = "methods" => Methods!TypeOK
  /\ component = "module" => Module_!TypeOK
  /\ component = "marshal" => Marshalling!TypeOK

\* A search ends with the match the standard prefers, and its stack is large enough.
FindsTheMatch ==
  component = "regexp" => RegExp_!FindsTheMatch /\ RegExp_!StackFits

\* Shapes, holes and fast arrays never show: operations on properties do what ECMAScript
\* says.
Agrees ==
  /\ component = "objects" => Objects_!Agrees
  /\ component = "array" => Array!Agrees

\* The fast paths of the methods of arrays never show, whatever a script makes of the array,
\* before the call or from within.
MethodsAgree ==
  component = "methods" => Methods!MethodsAgree

\* A module runs after what it imports, an import settles after its module, and whoever
\* waits for a module is told.
DependenciesFirst ==
  component = "module" => Module_!DependenciesFirst /\ Module_!ImportMeansEvaluated /\ Module_!WaitersWait

\* Terms and values cross the boundary whole or not at all, within the limits and nowhere
\* beyond, and what Elixir sends comes back.
ConversionsAgree ==
  component = "marshal" => Marshalling!ConversionsAgree

\* quickjs.c:9912 "set the array length and remove the array elements if necessary": no
\* element lies at or above the length.
LengthAboveIndices ==
  component = "array" => Array!LengthAboveIndices

=============================================================================
