----------------------------- MODULE EvalProofs ------------------------------
(***************************************************************************)
(* Proofs about one eval: the error it reports (EvalOutcome), the time it  *)
(* may take (EvalBudget), for any number of evals and any timeouts, and    *)
(* the async generators it calls (JsAsyncGenerator), for any number of     *)
(* calls and awaits.                                                       *)
(***************************************************************************)
EXTENDS EngineControl, TLAPS

-----------------------------------------------------------------------------
(* The error of an eval. *)

\* An exception is in flight only during an eval.
InFlight ==
  /\ inEval => n > 0
  /\ ~inEval => thrown = "none"

\* What the fields of the context say while an eval runs: was_interrupted that the
\* exception in flight, which nothing can catch, is the interrupt; module_load_error that
\* a load has failed in this eval.  Without a caught host failure the other two say as much of
\* the exception in flight; callback_error also between evals.
FieldsTell ==
  /\ inEval => (wasInterrupted <=> thrown = "interrupt")
  /\ thrown # "none" => thrown \in failures[n]
  /\ inEval /\ moduleLoadError => "module" \in failures[n]
  /\ ~caught => /\ callbackError # 0 <=> thrown = "callback"
                /\ inEval => (moduleLoadError <=> thrown = "module")

\* The inductive invariant of EvalOutcome.
OutcomeInv ==
  /\ Outcome!TypeOK
  /\ InFlight
  /\ FieldsTell
  /\ Outcome!OwnTimeoutAndModuleError
  /\ Outcome!ReportsTheCause

LEMMA EvalsBound == MaxEvals \in Nat
BY ControlAssumption DEF ControlAssumption, Outcome!MaxEvalsAssumption

LEMMA OutcomeStarts == Outcome!Init => OutcomeInv
<1> SUFFICES ASSUME Outcome!Init PROVE OutcomeInv
  OBVIOUS
<1> USE EvalsBound DEF Outcome!Init
<1>1. Outcome!TypeOK
  <2> USE DEF Outcome!AllEvals, Outcome!Causes, Outcome!Replies
  <2>1. n \in 0..MaxEvals /\ callbackError \in 0..MaxEvals
    OBVIOUS
  <2>2. replies \in [1..MaxEvals -> Outcome!Replies]
    OBVIOUS
  <2>3. cause \in [1..MaxEvals -> Outcome!Causes \cup {"none"}]
    OBVIOUS
  <2>4. failures \in [1..MaxEvals -> SUBSET Outcome!Causes]
    OBVIOUS
  <2> QED
    BY <2>1, <2>2, <2>3, <2>4 DEF Outcome!TypeOK
<1>2. Outcome!OwnTimeoutAndModuleError /\ Outcome!ReportsTheCause
  BY DEF Outcome!OwnTimeoutAndModuleError, Outcome!ReportsTheCause, Outcome!AllEvals
<1> QED
  BY <1>1, <1>2 DEF OutcomeInv, InFlight, FieldsTell

LEMMA OutcomeStep == OutcomeInv /\ [Outcome!Next]_outcomeVars => OutcomeInv'
<1> SUFFICES ASSUME OutcomeInv, [Outcome!Next]_outcomeVars PROVE OutcomeInv'
  OBVIOUS
<1> USE EvalsBound
<1>1. CASE Outcome!Start
  <2> USE DEF Outcome!Start, OutcomeInv, InFlight, FieldsTell,
        Outcome!TypeOK, Outcome!AllEvals
  <2>1. Outcome!TypeOK'
    <3>1. n' \in 0..MaxEvals /\ callbackError' \in 0..MaxEvals
      BY <1>1
    <3>2. {inEval', wasInterrupted', moduleLoadError'} \subseteq BOOLEAN
      BY <1>1
    <3>3. UNCHANGED <<thrown, replies, cause, failures, poisoned, caught>>
      BY <1>1
    <3> QED
      BY <3>1, <3>2, <3>3
  <2>2. InFlight' /\ FieldsTell'
    BY <1>1
  <2>3. Outcome!OwnTimeoutAndModuleError'
    BY <1>1 DEF Outcome!OwnTimeoutAndModuleError
  <2>4. Outcome!ReportsTheCause'
    BY <1>1, <2>1 DEF Outcome!ReportsTheCause, Outcome!ReplyFor, Outcome!Causes
  <2> QED
    BY <2>1, <2>2, <2>3, <2>4
<1>2. CASE Outcome!CallbackFails
  <2> USE DEF Outcome!CallbackFails, Outcome!Raise, OutcomeInv, InFlight, FieldsTell,
        Outcome!TypeOK, Outcome!AllEvals
  <2>1. Outcome!TypeOK'
    BY <1>2 DEF Outcome!Causes, Outcome!Replies
  <2>2. InFlight' /\ FieldsTell'
    BY <1>2
  <2>3. Outcome!OwnTimeoutAndModuleError'
    BY <1>2 DEF Outcome!OwnTimeoutAndModuleError
  <2>4. Outcome!ReportsTheCause'
    BY <1>2, <2>1 DEF Outcome!ReportsTheCause, Outcome!ReplyFor, Outcome!Causes
  <2> QED
    BY <2>1, <2>2, <2>3, <2>4
<1>3. CASE Outcome!ModuleLoadFails
  <2> USE DEF Outcome!ModuleLoadFails, Outcome!Raise, OutcomeInv, InFlight, FieldsTell,
        Outcome!TypeOK, Outcome!AllEvals
  <2>1. Outcome!TypeOK'
    BY <1>3 DEF Outcome!Causes, Outcome!Replies
  <2>2. InFlight' /\ FieldsTell'
    BY <1>3
  <2>3. Outcome!OwnTimeoutAndModuleError'
    BY <1>3 DEF Outcome!OwnTimeoutAndModuleError
  <2>4. Outcome!ReportsTheCause'
    BY <1>3, <2>1 DEF Outcome!ReportsTheCause, Outcome!ReplyFor, Outcome!Causes
  <2> QED
    BY <2>1, <2>2, <2>3, <2>4
<1>4. CASE Outcome!DeadlinePasses
  <2> USE DEF Outcome!DeadlinePasses, Outcome!Raise, OutcomeInv, InFlight, FieldsTell,
        Outcome!TypeOK, Outcome!AllEvals
  <2>1. Outcome!TypeOK'
    BY <1>4 DEF Outcome!Causes, Outcome!Replies
  <2>2. InFlight' /\ FieldsTell'
    BY <1>4
  <2>3. Outcome!OwnTimeoutAndModuleError'
    BY <1>4 DEF Outcome!OwnTimeoutAndModuleError
  <2>4. Outcome!ReportsTheCause'
    BY <1>4, <2>1 DEF Outcome!ReportsTheCause, Outcome!ReplyFor, Outcome!Causes
  <2> QED
    BY <2>1, <2>2, <2>3, <2>4
<1>5. CASE Outcome!ScriptThrows
  <2> USE DEF Outcome!ScriptThrows, Outcome!Raise, Outcome!flags, OutcomeInv, InFlight, FieldsTell,
        Outcome!TypeOK, Outcome!AllEvals
  <2>1. Outcome!TypeOK'
    BY <1>5 DEF Outcome!Causes, Outcome!Replies
  <2>2. InFlight' /\ FieldsTell'
    BY <1>5
  <2>3. Outcome!OwnTimeoutAndModuleError'
    BY <1>5 DEF Outcome!OwnTimeoutAndModuleError
  <2>4. Outcome!ReportsTheCause'
    BY <1>5, <2>1 DEF Outcome!ReportsTheCause, Outcome!ReplyFor, Outcome!Causes
  <2> QED
    BY <2>1, <2>2, <2>3, <2>4
<1>6. CASE Outcome!Catch
  <2> USE DEF Outcome!Catch, Outcome!flags, OutcomeInv, InFlight, FieldsTell,
        Outcome!TypeOK, Outcome!AllEvals
  <2>1. Outcome!TypeOK'
    BY <1>6 DEF Outcome!Causes, Outcome!Replies
  <2>2. InFlight' /\ FieldsTell'
    BY <1>6
  <2>3. Outcome!OwnTimeoutAndModuleError'
    BY <1>6 DEF Outcome!OwnTimeoutAndModuleError
  <2>4. Outcome!ReportsTheCause'
    BY <1>6, <2>1 DEF Outcome!ReportsTheCause, Outcome!ReplyFor, Outcome!Causes
  <2> QED
    BY <2>1, <2>2, <2>3, <2>4
<1>7. CASE Outcome!EndsWithoutException
  <2> USE DEF Outcome!EndsWithoutException, Outcome!Reply, OutcomeInv, InFlight, FieldsTell,
        Outcome!TypeOK, Outcome!AllEvals
  <2>1. Outcome!TypeOK'
    BY <1>7 DEF Outcome!Causes, Outcome!Replies
  <2>2. InFlight' /\ FieldsTell'
    BY <1>7
  <2>3. Outcome!OwnTimeoutAndModuleError'
    BY <1>7 DEF Outcome!OwnTimeoutAndModuleError
  <2>4. Outcome!ReportsTheCause'
    BY <1>7, <2>1 DEF Outcome!ReportsTheCause, Outcome!ReplyFor, Outcome!Causes
  <2> QED
    BY <2>1, <2>2, <2>3, <2>4
<1>8. CASE Outcome!EndsWithException
  <2> USE DEF Outcome!EndsWithException, Outcome!Classify, Outcome!TakesCallbackError, Outcome!Reply,
        OutcomeInv, InFlight, FieldsTell, Outcome!TypeOK, Outcome!AllEvals
  <2>1. Outcome!TypeOK'
    <3>1. n' \in 0..MaxEvals /\ callbackError' \in 0..MaxEvals /\ thrown' = "none"
      BY <1>8
    <3>2. {inEval', wasInterrupted', moduleLoadError', poisoned'} \subseteq BOOLEAN
      BY <1>8
    <3>3. UNCHANGED <<failures, caught>>
      BY <1>8
    <3>4. cause' \in [1..MaxEvals -> Outcome!Causes \cup {"none"}]
      BY <1>8 DEF Outcome!Causes
    <3>5. replies' \in [1..MaxEvals -> Outcome!Replies]
      BY <1>8 DEF Outcome!Replies
    <3> QED
      BY <3>1, <3>2, <3>3, <3>4, <3>5
  <2>2. InFlight' /\ FieldsTell'
    BY <1>8
  <2>3. Outcome!OwnTimeoutAndModuleError'
    BY <1>8 DEF Outcome!OwnTimeoutAndModuleError
  <2>4. Outcome!ReportsTheCause'
    <3> SUFFICES ASSUME ~caught', NEW e \in 1..MaxEvals
                 PROVE  /\ cause'[e] # "none" => replies'[e] = Outcome!ReplyFor[cause'[e]]
                        /\ cause'[e] = "oom" => poisoned'
      BY DEF Outcome!ReportsTheCause
    <3>1. CASE e # n
      BY <1>8, <3>1 DEF Outcome!ReportsTheCause
    <3>2. CASE e = n
      BY <1>8, <3>2 DEF Outcome!Causes, Outcome!ReplyFor
    <3> QED
      BY <3>1, <3>2
  <2> QED
    BY <2>1, <2>2, <2>3, <2>4
<1>9. CASE UNCHANGED outcomeVars
  BY <1>9 DEF outcomeVars, OutcomeInv, InFlight, FieldsTell, Outcome!TypeOK, Outcome!OwnTimeoutAndModuleError,
                Outcome!ReportsTheCause
<1> QED
  BY <1>1, <1>2, <1>3, <1>4, <1>5, <1>6, <1>7, <1>8, <1>9 DEF Outcome!Next

\* Whatever evals came before and whatever failed in them, an eval reports a timeout or a
\* module error only if it met one, and as long as JavaScript lets failures of host calls
\* through, the error of the very exception that ended it.
THEOREM RightErrors == Spec => []ErrorsAttributed
<1> DEFINE I == component = "outcome" => OutcomeInv
<1>1. Init => I
  BY OutcomeStarts DEF Init, outcomeInit
<1>2. I /\ [Next]_vars => I'
  BY OutcomeStep DEF Next, vars, outcomeNext, outcomeVars
<1>3. I => ErrorsAttributed
  BY DEF ErrorsAttributed, OutcomeInv
<1> QED
  BY <1>1, <1>2, <1>3, PTL DEF Spec

-----------------------------------------------------------------------------
(* The time of an eval. *)

\* The timeout eval_timeout has chosen.
T == Budget!EvalTimeout

\* The deadline of an eval that has started is what is left of its timeout, counted from now;
\* while it is parked, from the moment the wait began.  No tick is lost.
DeadlineIsRest ==
  /\ now = 1 + jsTime + queued + parked
  /\ stage = "queued" => deadline = 0 /\ jsTime = 0 /\ parked = 0
  /\ stage \in {"js", "interrupted", "done"} =>
       deadline = IF T > 0 THEN now - jsTime + T ELSE 0
  /\ stage = "parked" =>
       /\ jsTime < waitStarted /\ waitStarted <= now
       /\ deadline = IF T > 0 THEN waitStarted - jsTime + T ELSE 0

\* The inductive invariant of EvalBudget.
BudgetInv ==
  /\ Budget!TypeOK
  /\ DeadlineIsRest
  /\ Budget!JsTimeBounded
  /\ Budget!InterruptedOnlyLate
  /\ ~waiting => callTimeout \in Nat /\ now - 1 > callTimeout

LEMMA TimeoutNat ==
  ASSUME Budget!TypeOK
  PROVE  T \in Nat
BY ControlAssumption DEF ControlAssumption, T, Budget!TypeOK, Budget!EvalTimeout, Budget!TimesAssumption,
  Budget!Lesser, Budget!BeforeCallTimeout

LEMMA BudgetStarts == Budget!Init => BudgetInv
<1> SUFFICES ASSUME Budget!Init PROVE BudgetInv
  OBVIOUS
<1> USE ControlAssumption DEF ControlAssumption, Budget!TimesAssumption
<1>1. Budget!TypeOK
  BY DEF Budget!Init, Budget!TypeOK
<1>2. QED
  BY <1>1, TimeoutNat DEF Budget!Init, BudgetInv, DeadlineIsRest, Budget!JsTimeBounded,
                      Budget!InterruptedOnlyLate

LEMMA BudgetStep == BudgetInv /\ [Budget!Next]_budgetVars => BudgetInv'
<1> SUFFICES ASSUME BudgetInv, [Budget!Next]_budgetVars PROVE BudgetInv'
  OBVIOUS
<1> USE ControlAssumption DEF ControlAssumption, Budget!TimesAssumption
<1> USE DEF BudgetInv, DeadlineIsRest, Budget!JsTimeBounded, Budget!InterruptedOnlyLate, Budget!opts
<1>a. T \in Nat
  BY TimeoutNat
<1>b. UNCHANGED <<timeout, callTimeout, default>>
  BY DEF Budget!Next, Budget!Start, Budget!Park, Budget!Resume, Budget!Interrupt, Budget!Finish,
    Budget!CallerLeaves, Budget!Tick, budgetVars
<1>c. T' = T
  BY <1>b DEF T, Budget!EvalTimeout
<1>1. CASE Budget!Start
  BY <1>1, <1>a, <1>b, <1>c DEF Budget!Start, Budget!TypeOK, T
<1>2. CASE Budget!Park
  BY <1>2, <1>a, <1>b, <1>c DEF Budget!Park, Budget!TypeOK, T
<1>3. CASE Budget!Resume
  BY <1>3, <1>a, <1>b, <1>c DEF Budget!Resume, Budget!TypeOK, T
<1>4. CASE Budget!Interrupt
  BY <1>4, <1>a, <1>b, <1>c DEF Budget!Interrupt, Budget!Overdue, Budget!TypeOK, T
<1>5. CASE Budget!Finish
  BY <1>5, <1>a, <1>b, <1>c DEF Budget!Finish, Budget!TypeOK, T
<1>6. CASE Budget!CallerLeaves
  BY <1>6, <1>a, <1>b, <1>c DEF Budget!CallerLeaves, Budget!TypeOK, T
<1>7. CASE Budget!Tick
  BY <1>7, <1>a, <1>b, <1>c DEF Budget!Tick, Budget!Overdue, Budget!TypeOK, T
<1>8. CASE UNCHANGED budgetVars
  BY <1>8, <1>c DEF budgetVars, Budget!TypeOK, T
<1> QED
  BY <1>1, <1>2, <1>3, <1>4, <1>5, <1>6, <1>7, <1>8 DEF Budget!Next

LEMMA BudgetAlways == Spec => [](component = "budget" => BudgetInv)
<1> DEFINE I == component = "budget" => BudgetInv
<1>1. Init => I
  BY BudgetStarts DEF Init, budgetInit
<1>2. I /\ [Next]_vars => I'
  BY BudgetStep DEF Next, vars, budgetNext, budgetVars
<1> QED
  BY <1>1, <1>2, PTL DEF Spec

\* A script with a timeout executes no longer than it, however often it is parked, and is not
\* interrupted before its time is over.
THEOREM FullTimeNoMore == Spec => []JsTimeExact
<1>1. (component = "budget" => BudgetInv) => JsTimeExact
  BY DEF JsTimeExact, BudgetInv
<1> QED
  BY <1>1, BudgetAlways, PTL

\* A sync eval without a timeout of its own that starts at once and is not parked is over
\* before its caller, who waits longer than the grace, leaves.
THEOREM CallerStays == Spec => []CallerSeesTimeout
<1>1. (component = "budget" => BudgetInv) => CallerSeesTimeout
  <2> SUFFICES ASSUME BudgetInv, timeout = Absent, callTimeout \in Nat, callTimeout > Grace,
                      default > 0, queued = 0, parked = 0, ~waiting
               PROVE  FALSE
    BY DEF CallerSeesTimeout, Budget!CallerSeesTimeout
  <2>1. Grace \in Nat \ {0} /\ Absent \notin Nat
    BY ControlAssumption DEF ControlAssumption, Budget!TimesAssumption
  <2>2. T = Budget!Lesser(default, callTimeout - Grace) /\ default \in Nat
    BY <2>1, ControlAssumption DEF T, Budget!EvalTimeout, Budget!BeforeCallTimeout, BudgetInv, Budget!TypeOK,
      ControlAssumption, Budget!TimesAssumption
  <2>3. T > 0 /\ T <= callTimeout - Grace /\ T \in Nat
    BY <2>1, <2>2 DEF Budget!Lesser
  <2>4. jsTime = now - 1 /\ jsTime > callTimeout /\ jsTime \in Nat
    BY ControlAssumption DEF BudgetInv, DeadlineIsRest, Budget!TypeOK, ControlAssumption, Budget!TimesAssumption
  <2>5. jsTime <= T + 1
    BY <2>3, <2>4 DEF BudgetInv, DeadlineIsRest, Budget!JsTimeBounded, T
  <2> QED
    BY <2>1, <2>3, <2>4, <2>5
<1> QED
  BY <1>1, BudgetAlways, PTL

-----------------------------------------------------------------------------
(* Async generators. *)

\* The queue is what has been asked for and not been answered, in order.
QueueIsRest ==
  /\ Len(asked) = Len(answered) + Len(queue)
  /\ \A i \in 1..Len(queue) : queue[i] = asked[Len(answered) + i]
  /\ \A i \in 1..Len(answered) : answered[i][1] = asked[i]

\* Values come first; nothing but values has been answered while the generator can go on.
ValuesFirst ==
  /\ \A i \in 1..Len(answered) : \A j \in 1..i : answered[i][2] = "value" => answered[j][2] = "value"
  /\ state \notin {"completed", "awaiting_return"} =>
       \A i \in 1..Len(answered) : answered[i][2] = "value"

\* The C code runs only when the await has settled.
AwaitsOutside == awaiting = "await" => pc = "idle"

\* The inductive invariant of JsAsyncGenerator.
GeneratorInv ==
  /\ Generator!TypeOK
  /\ QueueIsRest
  /\ ValuesFirst
  /\ AwaitsOutside
  /\ Generator!ServesTheHead
  /\ Generator!StrandedOnlyWhenDone

LEMMA AwaitsBound == MaxAwaits \in Nat
BY ControlAssumption DEF ControlAssumption, Generator!MaxAwaitsAssumption

\* What an answer does to the sequences.
LEMMA AnswerHead ==
  ASSUME Generator!TypeOK, QueueIsRest, queue # <<>>,
         NEW outcome \in {"value", "done", "error"},
         Generator!Answer(outcome), UNCHANGED asked
  PROVE  /\ queue' \in Seq(Requests)
         /\ answered' \in Seq(Requests \X {"value", "done", "error"})
         /\ Len(answered') = Len(answered) + 1
         /\ \A i \in 1..Len(answered) : answered'[i] = answered[i]
         /\ answered'[Len(answered) + 1][2] = outcome
         /\ QueueIsRest'
<1> USE DEF Generator!TypeOK, Generator!Answer
<1>1. /\ queue' \in Seq(Requests) /\ Len(queue') = Len(queue) - 1
      /\ \A i \in 1..Len(queue') : queue'[i] = queue[i + 1]
      /\ Head(queue) = queue[1] /\ Head(queue) \in Requests /\ Len(queue) > 0
  OBVIOUS
<1>2. /\ answered' \in Seq(Requests \X {"value", "done", "error"})
      /\ Len(answered') = Len(answered) + 1
      /\ \A i \in 1..Len(answered) : answered'[i] = answered[i]
      /\ answered'[Len(answered) + 1] = <<queue[1], outcome>>
  BY <1>1
<1>3. QueueIsRest'
  BY <1>1, <1>2 DEF QueueIsRest
<1> QED
  BY <1>1, <1>2, <1>3

LEMMA GeneratorStarts == Generator!Init => GeneratorInv
<1> SUFFICES ASSUME Generator!Init PROVE GeneratorInv
  OBVIOUS
<1> USE AwaitsBound DEF Generator!Init
<1>1. Generator!TypeOK
  BY DEF Generator!TypeOK, Generator!States
<1> QED
  BY <1>1 DEF GeneratorInv, QueueIsRest, ValuesFirst, AwaitsOutside,
    Generator!ServesTheHead, Generator!StrandedOnlyWhenDone

LEMMA GeneratorStep == GeneratorInv /\ [Generator!Next]_generatorVars => GeneratorInv'
<1> SUFFICES ASSUME GeneratorInv, [Generator!Next]_generatorVars PROVE GeneratorInv'
  OBVIOUS
<1> USE AwaitsBound
<1>0. /\ Generator!TypeOK /\ QueueIsRest /\ ValuesFirst /\ AwaitsOutside
      /\ Generator!ServesTheHead /\ Generator!StrandedOnlyWhenDone
  BY DEF GeneratorInv
<1> USE DEF AwaitsOutside, Generator!ServesTheHead, Generator!StrandedOnlyWhenDone
<1>1. CASE \E r \in Requests, how \in {"next", "return", "throw"} : Generator!Call(r, how)
  <2> PICK r \in Requests, how \in {"next", "return", "throw"} : Generator!Call(r, how)
    BY <1>1
  <2> USE DEF Generator!Call
  <2>1. /\ queue' \in Seq(Requests) /\ asked' \in Seq(Requests)
        /\ Len(queue') = Len(queue) + 1 /\ Len(asked') = Len(asked) + 1
        /\ \A i \in 1..Len(queue) : queue'[i] = queue[i]
        /\ \A i \in 1..Len(asked) : asked'[i] = asked[i]
        /\ queue'[Len(queue) + 1] = r /\ asked'[Len(asked) + 1] = r
        /\ queue' # <<>>
    BY <1>0 DEF Generator!TypeOK
  <2>2. Generator!TypeOK'
    BY <1>0, <2>1 DEF Generator!TypeOK, Generator!States
  <2>3. UNCHANGED <<state, answered>> /\ Len(answered) \in Nat /\ Len(queue) \in Nat
    BY <1>0 DEF Generator!TypeOK
  <2>4. QueueIsRest' /\ ValuesFirst'
    <3> HIDE DEF Generator!Call, Generator!ServesTheHead, Generator!StrandedOnlyWhenDone
    <3>1. Len(asked') = Len(answered') + Len(queue')
      BY <1>0, <2>1, <2>3 DEF QueueIsRest
    <3>2. ASSUME NEW i \in 1..Len(queue')
          PROVE  queue'[i] = asked'[Len(answered') + i]
      <4>1. CASE i \in 1..Len(queue)
        BY <1>0, <2>1, <2>3, <4>1 DEF QueueIsRest
      <4>2. CASE i = Len(queue) + 1
        BY <1>0, <2>1, <2>3, <4>2 DEF QueueIsRest
      <4> QED
        BY <2>1, <2>3, <4>1, <4>2
    <3>3. \A i \in 1..Len(answered') : answered'[i][1] = asked'[i]
      BY <1>0, <2>1, <2>3 DEF QueueIsRest
    <3> QED
      BY <1>0, <2>3, <3>1, <3>2, <3>3 DEF QueueIsRest, ValuesFirst
  <2>5. AwaitsOutside' /\ Generator!ServesTheHead' /\ Generator!StrandedOnlyWhenDone'
    BY <1>0, <2>1
  <2> QED
    BY <2>2, <2>4, <2>5 DEF GeneratorInv
<1>2. CASE \/ Generator!LoopEnds \/ Generator!LoopStart \/ Generator!LoopResumeYield
           \/ Generator!LoopResumeAwait \/ Generator!BodyAwaits \/ Generator!AwaitSettles
           \/ Generator!LoopCompleted /\ completion[Head(queue)] = "return"
  <2> USE DEF Generator!LoopEnds, Generator!LoopStart, Generator!LoopResumeYield,
        Generator!LoopResumeAwait, Generator!BodyAwaits, Generator!AwaitSettles,
        Generator!LoopCompleted, Generator!Enter
  <2>1. UNCHANGED <<queue, answered, asked, completion>>
    BY <1>2
  <2>2. Generator!TypeOK'
    BY <1>0, <1>2, <2>1 DEF Generator!TypeOK, Generator!States
  <2>3. QueueIsRest' /\ ValuesFirst'
    BY <1>0, <1>2, <2>1 DEF QueueIsRest, ValuesFirst
  <2>4. AwaitsOutside' /\ Generator!ServesTheHead' /\ Generator!StrandedOnlyWhenDone'
    BY <1>0, <1>2
  <2> QED
    BY <2>2, <2>3, <2>4 DEF GeneratorInv
<1>3. CASE \/ Generator!LoopCompleted /\ completion[Head(queue)] # "return"
           \/ Generator!BodyYields \/ Generator!BodyEnds \/ Generator!ReturnSettles
  <2> USE DEF Generator!LoopCompleted, Generator!BodyYields, Generator!BodyEnds, Generator!ReturnSettles
  <2>1. queue # <<>> /\ UNCHANGED <<asked, completion, awaits>>
    BY <1>0, <1>3
  <2>2. PICK outcome \in {"value", "done", "error"} :
             /\ Generator!Answer(outcome)
             /\ IF outcome = "value" THEN state = "executing" /\ state' = "suspended_yield"
                                     ELSE state' = "completed"
    BY <1>0, <1>3
  <2>3. /\ queue' \in Seq(Requests)
        /\ answered' \in Seq(Requests \X {"value", "done", "error"})
        /\ Len(answered') = Len(answered) + 1
        /\ \A i \in 1..Len(answered) : answered'[i] = answered[i]
        /\ answered'[Len(answered) + 1][2] = outcome
        /\ QueueIsRest'
    BY <1>0, <2>1, <2>2, AnswerHead
  <2>4. Generator!TypeOK'
    BY <1>0, <1>3, <2>1, <2>3 DEF Generator!TypeOK, Generator!States
  <2>5. ValuesFirst'
    <3>1. Len(answered) \in Nat
      BY <1>0 DEF Generator!TypeOK
    <3>2. ASSUME NEW i \in 1..Len(answered'), NEW j \in 1..i, answered'[i][2] = "value"
          PROVE  answered'[j][2] = "value"
      <4>1. CASE i <= Len(answered)
        <5>1. i \in 1..Len(answered) /\ j \in 1..Len(answered)
          BY <2>3, <3>1, <4>1
        <5>2. answered'[i] = answered[i] /\ answered'[j] = answered[j]
          BY <2>3, <5>1
        <5> QED
          BY <1>0, <3>2, <5>1, <5>2 DEF ValuesFirst
      <4>2. CASE i = Len(answered) + 1
        <5>1. state = "executing"
          BY <2>2, <2>3, <3>2, <4>2
        <5>2. j \in 1..Len(answered) \/ j = i
          BY <3>1, <4>2
        <5> QED
          BY <1>0, <2>3, <3>2, <5>1, <5>2 DEF ValuesFirst
      <4> QED
        BY <2>3, <3>1, <4>1, <4>2
    <3>3. ASSUME state' \notin {"completed", "awaiting_return"}, NEW i \in 1..Len(answered')
          PROVE  answered'[i][2] = "value"
      <4>1. outcome = "value" /\ state = "executing"
        BY <2>2, <3>3
      <4>2. i \in 1..Len(answered) \/ i = Len(answered) + 1
        BY <2>3, <3>1
      <4> QED
        BY <1>0, <2>3, <4>1, <4>2 DEF ValuesFirst
    <3> QED
      BY <3>2, <3>3 DEF ValuesFirst
  <2>6. AwaitsOutside' /\ Generator!ServesTheHead' /\ Generator!StrandedOnlyWhenDone'
    BY <1>0, <1>3
  <2> QED
    BY <2>3, <2>4, <2>5, <2>6 DEF GeneratorInv
<1>4. CASE UNCHANGED generatorVars
  BY <1>0, <1>4 DEF generatorVars, GeneratorInv, Generator!TypeOK, QueueIsRest, ValuesFirst
<1> QED
  BY <1>1, <1>2, <1>3, <1>4 DEF Generator!Next, Generator!Loop, Generator!Body

\* However many calls come in while the body runs or awaits, they are answered in their
\* order, each by the step of the body it asked for, and the generator stops serving only
\* when it is done.
THEOREM InOrder == Spec => []AnswersInOrder
<1> DEFINE I == component = "generator" => GeneratorInv
<1>1. Init => I
  BY GeneratorStarts DEF Init, generatorInit
<1>2. I /\ [Next]_vars => I'
  BY GeneratorStep DEF Next, vars, generatorNext, generatorVars
<1>3. I => AnswersInOrder
  BY DEF AnswersInOrder, GeneratorInv, Generator!AnswersInOrder, QueueIsRest, ValuesFirst, Generator!TypeOK
<1> QED
  BY <1>1, <1>2, <1>3, PTL DEF Spec
=============================================================================
