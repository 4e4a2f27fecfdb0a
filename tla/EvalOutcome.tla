---------------------------- MODULE EvalOutcome ----------------------------
(***************************************************************************)
(* How execute_eval (src/lib/quickjs_ex/nif.zig) decides what error to      *)
(* report.  An exception does not carry its cause: the thread keeps it in   *)
(* fields of the context (was_interrupted, callback_error,                  *)
(* module_load_error), set where the exception is raised and read where the *)
(* eval ends, while JavaScript may catch the exception in between.          *)
(***************************************************************************)
EXTENDS Naturals

CONSTANT MaxEvals   \* bound: evals run on the context
MaxEvalsAssumption == MaxEvals \in Nat

VARIABLES
  n,             \* the current, or last, eval
  inEval,        \* it is being executed
  thrown,        \* the exception in flight, by its cause; "none"
  wasInterrupted, callbackError, moduleLoadError, poisoned,
                 \* callbackError is the eval that left it there, 0: null
  replies,       \* history: the reply of each eval
  cause,         \* history: the exception each eval ended with
  failures,      \* history: the host failures and interrupts of each eval
  caught         \* history: JavaScript has caught the failure of a host call

vars == <<n, inEval, thrown, wasInterrupted, callbackError, moduleLoadError, poisoned,
          replies, cause, failures, caught>>
flags == <<wasInterrupted, callbackError, moduleLoadError, poisoned>>

AllEvals == 1..MaxEvals
Causes   == {"js", "callback", "module", "interrupt", "oom"}
Replies  == {"none", "ok", "unsettled", "timeout", "callback_error", "module_load", "oom", "js",
             "internal_error"}

\* The types of the context's fields: every reply is a documented error or a value.
TypeOK ==
  /\ n \in 0..MaxEvals
  /\ inEval \in BOOLEAN
  /\ thrown \in Causes \cup {"none"}
  /\ wasInterrupted \in BOOLEAN
  /\ callbackError \in 0..MaxEvals
  /\ moduleLoadError \in BOOLEAN
  /\ poisoned \in BOOLEAN
  /\ replies \in [AllEvals -> Replies]
  /\ cause \in [AllEvals -> Causes \cup {"none"}]
  /\ failures \in [AllEvals -> SUBSET Causes]
  /\ caught \in BOOLEAN

Init ==
  /\ n = 0
  /\ inEval = FALSE
  /\ thrown = "none"
  /\ wasInterrupted = FALSE
  /\ callbackError = 0
  /\ moduleLoadError = FALSE
  /\ poisoned = FALSE
  /\ replies = [e \in AllEvals |-> "none"]
  /\ cause = [e \in AllEvals |-> "none"]
  /\ failures = [e \in AllEvals |-> {}]
  /\ caught = FALSE

\* Mutant of Start: the flag of the last eval is not reset.
StartKeepsInterrupt ==
  /\ ~inEval /\ ~poisoned /\ n < MaxEvals
  /\ n' = n + 1
  /\ inEval' = TRUE
  /\ moduleLoadError' = FALSE
  /\ UNCHANGED <<thrown, wasInterrupted, callbackError, poisoned, replies, cause, failures, caught>>

\* The start of execute_eval resets two of the three fields.
Start ==
  /\ ~inEval /\ ~poisoned /\ n < MaxEvals
  /\ n' = n + 1
  /\ inEval' = TRUE
  /\ wasInterrupted' = FALSE
  /\ moduleLoadError' = FALSE
  /\ UNCHANGED <<thrown, callbackError, poisoned, replies, cause, failures, caught>>

Raise(c) ==
  /\ inEval /\ thrown = "none"
  /\ thrown' = c
  /\ failures' = [failures EXCEPT ![n] = @ \cup {c}]
  /\ UNCHANGED <<n, inEval, poisoned, replies, cause, caught>>

\* callback_dispatch_fn, module_loader_fn and interrupt_handler leave a trace.
CallbackFails   == Raise("callback") /\ callbackError' = n /\ UNCHANGED <<wasInterrupted, moduleLoadError>>
ModuleLoadFails == Raise("module") /\ moduleLoadError' = TRUE /\ UNCHANGED <<wasInterrupted, callbackError>>
DeadlinePasses  == Raise("interrupt") /\ wasInterrupted' = TRUE /\ UNCHANGED <<callbackError, moduleLoadError>>
ScriptThrows    == \E c \in {"js", "oom"} : Raise(c) /\ UNCHANGED flags

\* JavaScript catches any exception but an interrupt.
Catch ==
  /\ inEval
  /\ thrown \notin {"none", "interrupt"}
  /\ caught' = (caught \/ thrown \in {"callback", "module"})
  /\ thrown' = "none"
  /\ UNCHANGED <<n, inEval, flags, replies, cause, failures>>

Reply(r) ==
  /\ replies' = [replies EXCEPT ![n] = r]
  /\ cause' = [cause EXCEPT ![n] = thrown]
  /\ inEval' = FALSE
  /\ thrown' = "none"
  /\ UNCHANGED <<n, wasInterrupted, failures, caught>>

\* send_eval_value_reply and the unsettled promise.  A value that cannot be
\* serialized is a js error; running out of memory in its conversion poisons.
EndsWithoutException ==
  /\ inEval /\ thrown = "none"
  /\ \/ (\E r \in {"ok", "unsettled", "js"} : Reply(r)) /\ UNCHANGED poisoned
     \/ (\E r \in {"oom", "internal_error"} : Reply(r)) /\ poisoned' = TRUE
  /\ UNCHANGED <<callbackError, moduleLoadError>>

\* take_callback_error.
TakesCallbackError ==
  /\ ~wasInterrupted /\ callbackError # 0
  /\ Reply("callback_error")
  /\ callbackError' = 0
  /\ UNCHANGED <<moduleLoadError, poisoned>>

\* Mutant of Classify: the reply names the exception, not the error category.
ClassifyRaw == Reply(thrown) /\ UNCHANGED <<callbackError, moduleLoadError, poisoned>>

\* send_eval_exception_reply: the first field found set wins.
Classify ==
  \/ wasInterrupted /\ Reply("timeout") /\ UNCHANGED <<callbackError, moduleLoadError, poisoned>>
  \/ TakesCallbackError
  \/ /\ ~wasInterrupted /\ callbackError = 0 /\ moduleLoadError
     /\ Reply("module_load")
     /\ moduleLoadError' = FALSE
     /\ UNCHANGED <<callbackError, poisoned>>
  \/ /\ ~wasInterrupted /\ callbackError = 0 /\ ~moduleLoadError
     /\ IF thrown = "oom" THEN Reply("oom") /\ poisoned' = TRUE
                          ELSE Reply("js") /\ UNCHANGED poisoned
     /\ UNCHANGED <<callbackError, moduleLoadError>>

EndsWithException == inEval /\ thrown # "none" /\ Classify

Next ==
  \/ Start
  \/ CallbackFails \/ ModuleLoadFails \/ DeadlinePasses \/ ScriptThrows \/ Catch
  \/ EndsWithoutException \/ EndsWithException

Spec == Init /\ [][Next]_vars

-----------------------------------------------------------------------------
\* A timeout or a module load error is reported only for an eval that met one
\* itself, whatever the evals before it left behind.
OwnTimeoutAndModuleError ==
  \A e \in AllEvals :
    /\ replies[e] = "timeout" => "interrupt" \in failures[e]
    /\ replies[e] = "module_load" => "module" \in failures[e]

ReplyFor == [none |-> "none", js |-> "js", callback |-> "callback_error",
             module |-> "module_load", interrupt |-> "timeout", oom |-> "oom"]

\* As long as JavaScript lets the failures of host calls through, every eval that
\* ends with an exception is answered with the error of that very exception, and
\* one that ran out of memory leaves a poisoned context.
ReportsTheCause ==
  ~caught => \A e \in AllEvals :
               /\ cause[e] # "none" => replies[e] = ReplyFor[cause[e]]
               /\ cause[e] = "oom" => poisoned

\* README.md: "{:callback_error, callback_name, message} - an Elixir callback failed
\* while invoked from JavaScript": in the eval that is answered with it.
OwnCallbackError ==
  \A e \in AllEvals : replies[e] = "callback_error" => "callback" \in failures[e]
=============================================================================
