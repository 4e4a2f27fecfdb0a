---------------------------- MODULE EngineControl ----------------------------
(***************************************************************************)
(* The parts of an eval that are about control, and what scripts do        *)
(* through the methods of built-in objects, each alone, as one             *)
(* specification: component says which part moves, the variables of the    *)
(* others stay 0.                                                          *)
(***************************************************************************)
EXTENDS Integers, Sequences, FiniteSets

CONSTANTS
  Components,                                        \* the parts of a run
  MaxEvals,                                          \* EvalOutcome
  Timeouts, Grace, MaxQueued, MaxParked, Horizon, Absent, Infinity,  \* EvalBudget
  Requests, MaxAwaits,                               \* JsAsyncGenerator
  Asyncs, Plain, Thenable, MaxPromises, MaxPairs, MaxReactions, MaxStack, MaxRuns,  \* JsPromise
  Stacks, AsyncStacks, Resources, Nothing, MaxFrames,       \* JsDispose
  Base, FirstBytes, MaxBytes, Shapes, Ints, Spells, MaxViews, MaxOps,  \* JsTypedArray
  Contexts, MaxCalls, MaxHostCalls,                  \* DirectApi
  MapKeys, MapHash, MapWalkers, MaxAdds,             \* JsMap
  Populations, MaxLinks, MaxRecords                  \* JsHeap

VARIABLES
  component,   \* the part that moves; never changes
  \* EvalOutcome
  n, inEval, thrown, wasInterrupted, callbackError, moduleLoadError,
  poisoned, replies, cause, failures, caught,
  \* EvalBudget
  timeout, callTimeout, default, stage, now, deadline, waitStarted, waiting,
  jsTime, queued, parked,
  \* JsAsyncGenerator
  state, queue, completion, pc, awaiting, awaits, asked, answered,
  \* JsPromise
  promises, held, asyncs, resultOf, jobs, stack, host, evals, registered,
  ran, interrupted,
  \* JsDispose
  made, disposed, list, frames, chain, used, log, failed, owed,
  \* JsTypedArray
  buf, views, ops,
  \* DirectApi
  thread, waits, mailbox, tasks, marked, refs, sent, got, killed,
  \* JsMap
  data, empty, records, refCounts, table, threshold, count, walker,
  \* JsHeap
  kind, mem, rc, roots, links, target, callback, entries, weakRecords, finJobs,
  phase, pending, garbage

outcomeVars == <<n, inEval, thrown, wasInterrupted, callbackError,
  moduleLoadError, poisoned, replies, cause, failures, caught>>
budgetVars == <<timeout, callTimeout, default, stage, now, deadline,
  waitStarted, waiting, jsTime, queued, parked>>
generatorVars == <<state, queue, completion, pc, awaiting, awaits, asked,
  answered>>
promiseVars == <<promises, held, asyncs, resultOf, jobs, stack, host, evals,
  registered, ran, interrupted>>
disposeVars == <<made, disposed, list, frames, chain, used, log, failed,
  owed>>
typedVars == <<buf, views, ops>>
directVars == <<thread, waits, mailbox, tasks, marked, refs, sent, got, killed>>
mapVars == <<data, empty, records, refCounts, table, threshold, count, walker>>
heapVars == <<kind, mem, rc, roots, links, target, callback, entries,
  weakRecords, finJobs, phase, pending, garbage>>
vars == <<component, outcomeVars, budgetVars, generatorVars, promiseVars,
          disposeVars, typedVars, directVars, mapVars, heapVars>>

-----------------------------------------------------------------------------
(* Evals in a row, with every mix of failures. *)
Outcome == INSTANCE EvalOutcome WITH
  MaxEvals <- MaxEvals
outcomeInit ==
  IF component = "outcome" THEN Outcome!Init ELSE
    n = 0 /\ inEval = 0 /\ thrown = 0 /\ wasInterrupted = 0
    /\ callbackError = 0 /\ moduleLoadError = 0 /\ poisoned = 0
    /\ replies = 0 /\ cause = 0 /\ failures = 0 /\ caught = 0
outcomeNext == IF component = "outcome" THEN Outcome!Next ELSE UNCHANGED outcomeVars

-----------------------------------------------------------------------------
(* One eval and its timeouts. *)
Budget == INSTANCE EvalBudget WITH
  Timeouts <- Timeouts, Grace <- Grace, MaxQueued <- MaxQueued, MaxParked <- MaxParked,
  Horizon <- Horizon, Absent <- Absent, Infinity <- Infinity
budgetInit ==
  IF component = "budget" THEN Budget!Init ELSE
    timeout = 0 /\ callTimeout = 0 /\ default = 0 /\ stage = 0 /\ now = 0
    /\ deadline = 0 /\ waitStarted = 0 /\ waiting = 0 /\ jsTime = 0
    /\ queued = 0 /\ parked = 0
budgetNext == IF component = "budget" THEN Budget!Next ELSE UNCHANGED budgetVars

-----------------------------------------------------------------------------
(* Calls of an async generator. *)
Generator == INSTANCE JsAsyncGenerator WITH
  Requests <- Requests, MaxAwaits <- MaxAwaits
generatorInit ==
  IF component = "generator" THEN Generator!Init ELSE
    state = 0 /\ queue = 0 /\ completion = 0 /\ pc = 0 /\ awaiting = 0
    /\ awaits = 0 /\ asked = 0 /\ answered = 0
generatorNext == IF component = "generator" THEN Generator!Next ELSE UNCHANGED generatorVars

-----------------------------------------------------------------------------
(* Promises, jobs and async functions. *)
Promise_ == INSTANCE JsPromise WITH
  Asyncs <- Asyncs, Plain <- Plain, Thenable <- Thenable, MaxPromises <- MaxPromises,
  MaxPairs <- MaxPairs, MaxReactions <- MaxReactions, MaxDepth <- MaxStack,
  MaxEvals <- MaxRuns
promiseInit ==
  IF component = "promise" THEN Promise_!Init ELSE
    promises = 0 /\ held = 0 /\ asyncs = 0 /\ resultOf = 0 /\ jobs = 0
    /\ stack = 0 /\ host = 0 /\ evals = 0 /\ registered = 0 /\ ran = 0
    /\ interrupted = 0
promiseNext == IF component = "promise" THEN Promise_!Next ELSE UNCHANGED promiseVars

-----------------------------------------------------------------------------
(* Disposable stacks. *)
Dispose == INSTANCE JsDispose WITH
  Stacks <- Stacks, AsyncStacks <- AsyncStacks, Resources <- Resources,
  Nothing <- Nothing, MaxDepth <- MaxFrames
disposeInit ==
  IF component = "dispose" THEN Dispose!Init ELSE
    made = 0 /\ disposed = 0 /\ list = 0 /\ frames = 0 /\ chain = 0
    /\ used = 0 /\ log = 0 /\ failed = 0 /\ owed = 0
disposeNext == IF component = "dispose" THEN Dispose!Next ELSE UNCHANGED disposeVars

-----------------------------------------------------------------------------
(* A buffer and the views on it. *)
Typed == INSTANCE JsTypedArray WITH
  Base <- Base, FirstBytes <- FirstBytes, MaxBytes <- MaxBytes, Shapes <- Shapes,
  Ints <- Ints, Spells <- Spells, MaxViews <- MaxViews, MaxOps <- MaxOps
typedInit ==
  IF component = "typed" THEN Typed!Init ELSE buf = 0 /\ views = 0 /\ ops = 0
typedNext == IF component = "typed" THEN Typed!Next ELSE UNCHANGED typedVars

-----------------------------------------------------------------------------
(* Direct calls of one process. *)
Direct == INSTANCE DirectApi WITH
  Contexts <- Contexts, MaxCalls <- MaxCalls, MaxRequests <- MaxHostCalls,
  frames <- waits
directInit ==
  IF component = "direct" THEN Direct!Init ELSE
    thread = 0 /\ waits = 0 /\ mailbox = 0 /\ tasks = 0 /\ marked = 0 /\ refs = 0
    /\ sent = 0 /\ got = 0 /\ killed = 0
directNext == IF component = "direct" THEN Direct!Next ELSE UNCHANGED directVars

-----------------------------------------------------------------------------
(* A map and its walkers. *)
Map == INSTANCE JsMap WITH
  Keys <- MapKeys, Hash <- MapHash, Walkers <- MapWalkers, MaxAdds <- MaxAdds,
  refs <- refCounts
mapInit ==
  IF component = "map" THEN Map!Init ELSE
    data = 0 /\ empty = 0 /\ records = 0 /\ refCounts = 0 /\ table = 0
    /\ threshold = 0 /\ count = 0 /\ walker = 0
mapNext == IF component = "map" THEN Map!Next ELSE UNCHANGED mapVars

-----------------------------------------------------------------------------
(* Objects, and what is made with WeakMap, WeakRef and FinalizationRegistry. *)
Heap == INSTANCE JsHeap WITH records <- weakRecords, jobs <- finJobs
heapInit ==
  IF component = "heap" THEN Heap!Init ELSE
    kind = 0 /\ mem = 0 /\ rc = 0 /\ roots = 0 /\ links = 0 /\ target = 0
    /\ callback = 0 /\ entries = 0 /\ weakRecords = 0 /\ finJobs = 0
    /\ phase = 0 /\ pending = 0 /\ garbage = 0
heapNext == IF component = "heap" THEN Heap!Next ELSE UNCHANGED heapVars

-----------------------------------------------------------------------------
\* What the modules assume of their parameters.
ASSUME ControlAssumption ==
  /\ Outcome!MaxEvalsAssumption
  /\ Budget!TimesAssumption
  /\ Generator!MaxAwaitsAssumption
  /\ Promise_!ValuesAssumption
  /\ Promise_!BoundsAssumption
  /\ Dispose!StacksAssumption
  /\ Dispose!NothingAssumption
  /\ Dispose!DepthAssumption
  /\ Typed!BufferAssumption
  /\ Direct!BoundsAssumption
  /\ Map!HashAssumption
  /\ Map!AddsAssumption
  /\ Heap!HeapBounds
  /\ Heap!PopulationsAssumption

Init ==
  /\ component \in Components /\ outcomeInit /\ budgetInit /\ generatorInit
  /\ promiseInit /\ disposeInit /\ typedInit /\ directInit /\ mapInit
  /\ heapInit
Next ==
  /\ UNCHANGED component /\ outcomeNext /\ budgetNext /\ generatorNext
  /\ promiseNext /\ disposeNext /\ typedNext /\ directNext /\ mapNext
  /\ heapNext
Spec == Init /\ [][Next]_vars

-----------------------------------------------------------------------------
(* Properties: those of the modules, of the component that moves. *)

\* The types of every module's variables.
TypeOK ==
  /\ component = "outcome" => Outcome!TypeOK
  /\ component = "budget" => Budget!TypeOK
  /\ component = "generator" => Generator!TypeOK
  /\ component = "promise" => Promise_!TypeOK
  /\ component = "dispose" => Dispose!TypeOK
  /\ component = "typed" => Typed!TypeOK
  /\ component = "direct" => Direct!TypeOK
  /\ component = "map" => Map!TypeOK
  /\ component = "heap" => Heap!TypeOK

\* An eval reports the failure that ended it: no timeout or module error of an earlier
\* eval, nor the wrong one of several.
ErrorsAttributed ==
  component = "outcome" => Outcome!OwnTimeoutAndModuleError /\ Outcome!ReportsTheCause

\* src/README.md:175: a callback error is that of a callback invoked from this JavaScript.
OwnCallbackError ==
  component = "outcome" => Outcome!OwnCallbackError

\* A script gets its JavaScript time, no less and no more, however often it is parked.
JsTimeExact ==
  component = "budget" => Budget!JsTimeBounded /\ Budget!InterruptedOnlyLate

\* An eval that starts at once is over before its caller leaves.
CallerSeesTimeout ==
  component = "budget" => Budget!CallerSeesTimeout

\* src/docs/server.md:142: only an explicit `timeout: 0' lifts the bound.
UnboundedOnlyOnRequest ==
  component = "budget" => Budget!UnboundedOnlyOnRequest

\* The calls of an async generator are answered in their order, each by the step of the
\* body it asked for, and the generator stops serving only when it is done.
AnswersInOrder ==
  component = "generator" => Generator!AnswersInOrder /\ Generator!ServesTheHead /\ Generator!StrandedOnlyWhenDone

\* quickjs.c:21361 "resume next case in AWAITING_RETURN state": no call stays queued in a
\* generator that nothing will resume.
NoRequestStranded ==
  component = "generator" => Generator!NoRequestStranded

\* A promise settles once and an async function resumes once, whoever holds its functions.
OneResolver ==
  component = "promise" => Promise_!OneResolver /\ Promise_!OneContinuation

\* The reactions of a promise run once each, in order, over any number of evals.
ReactionsInOrder ==
  component = "promise" => Promise_!ReactionsInOrder

\* src/docs/server.md:141: an active eval is bounded by its timeout: its interrupt ends it.
InterruptEndsEval ==
  component = "promise" => Promise_!InterruptEndsEval

\* A resource is disposed once, after those added later, and no error is lost.
AllDisposedOnce ==
  component = "dispose" => Dispose!AllDisposedOnce /\ Dispose!ErrorsKept

\* Every method of a typed array or a DataView works on the part of the buffer that is there,
\* also when the conversion of its arguments resizes or detaches the buffer.
ViewsAgree ==
  component = "typed" => Typed!ViewsAgree

\* However direct calls nest, every host call is served once and every call gets its own
\* result.
LoopsServe ==
  component = "direct" => Direct!LoopsServe

\* A map finds a key exactly when it is in, through chains, rehashing and deletions during
\* iteration, and every walk goes on in the order of insertion.
MapSound ==
  component = "map" => Map!LookupAgrees /\ Map!WalksInOrder

\* No object is freed while something refers to it, and none is freed twice.
NothingDangles ==
  component = "heap" => Heap!NothingDangles

\* Every collection frees what cannot be reached, cycles through weak maps included, and
\* nothing else.
CollectsGarbage ==
  [][component = "heap" => Heap!Collects]_vars

\* A registry is told of every target it outlives.
CallbackDue ==
  [][component = "heap" => Heap!TellsRegistry]_vars
=============================================================================
