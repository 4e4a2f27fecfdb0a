----------------------------- MODULE EvalBudget -----------------------------
(***************************************************************************)
(* The time an eval made through the Server may take: eval_timeout          *)
(* (src/lib/quickjs_ex/server.ex) chooses the JavaScript timeout, the       *)
(* context thread (nif.zig) turns it into a deadline when the eval starts,  *)
(* moves the deadline by each wait on a host call, and interrupts the       *)
(* script past it; meanwhile the caller waits call_timeout in               *)
(* GenServer.call.  Time is a clock in ticks.                               *)
(***************************************************************************)
EXTENDS Integers

CONSTANTS
  Timeouts,      \* the values of :timeout and :call_timeout, and of the default
  Grace,         \* @call_timeout_eval_grace_ms
  MaxQueued,     \* bound: ticks an eval is queued
  MaxParked,     \* bound: ticks it is parked on host calls
  Horizon,       \* bound: the clock
  Absent,        \* the option is not given
  Infinity       \* call_timeout: :infinity

TimesAssumption ==
  /\ Timeouts \subseteq Nat
  /\ {Grace, Horizon} \subseteq Nat \ {0} /\ {MaxQueued, MaxParked} \subseteq Nat
  /\ Absent \notin Nat \cup {Infinity} /\ Infinity \notin Nat

VARIABLES
  timeout, callTimeout, default,  \* opts[:timeout], opts[:call_timeout], ctx.default_timeout
  stage,        \* "queued", "js", "parked", "interrupted", "done"
  now,          \* the clock, from the call on
  deadline,     \* deadline_ms; 0: none
  waitStarted,  \* wait_started of the current host call
  waiting,      \* the caller still waits for the reply
  jsTime,       \* history: ticks spent executing JavaScript
  queued,       \* history: ticks spent in the queue
  parked        \* history: ticks spent parked

vars == <<timeout, callTimeout, default, stage, now, deadline, waitStarted, waiting,
          jsTime, queued, parked>>
opts == <<timeout, callTimeout, default>>

Lesser(a, b) == IF a < b THEN a ELSE b

\* Mutant of BeforeCallTimeout: the grace is not subtracted.
BeforeCallTimeoutNoGrace(t) == t

\* eval_timeout_before_call_timeout
BeforeCallTimeout(t) == IF t <= Grace THEN t ELSE t - Grace

\* eval_timeout and default_eval_timeout
EvalTimeout ==
  CASE timeout # Absent -> timeout
    [] timeout = Absent /\ default = 0 -> 0
    [] timeout = Absent /\ default # 0 /\ callTimeout \in Nat ->
         Lesser(default, BeforeCallTimeout(callTimeout))
    [] OTHER -> default

\* The types of the clock and the times: the deadline, an unsigned field, is never
\* computed below 0.
TypeOK ==
  /\ timeout \in Timeouts \cup {Absent}
  /\ callTimeout \in Timeouts \cup {Absent, Infinity}
  /\ default \in Timeouts
  /\ stage \in {"queued", "js", "parked", "interrupted", "done"}
  /\ now \in 0..Horizon
  /\ deadline \in Nat
  /\ waitStarted \in 0..Horizon
  /\ waiting \in BOOLEAN
  /\ jsTime \in 0..Horizon
  /\ queued \in 0..MaxQueued
  /\ parked \in 0..MaxParked

\* The clock of the model starts at 1: a deadline of 0 means none.
Init ==
  /\ timeout \in Timeouts \cup {Absent}
  /\ callTimeout \in Timeouts \cup {Absent, Infinity}
  /\ default \in Timeouts
  /\ stage = "queued"
  /\ now = 1
  /\ deadline = 0
  /\ waitStarted = 0
  /\ waiting = TRUE
  /\ jsTime = 0
  /\ queued = 0
  /\ parked = 0

\* set_eval_deadline, when the thread starts the eval.
Start ==
  /\ stage = "queued"
  /\ stage' = "js"
  /\ deadline' = IF EvalTimeout > 0 THEN now + EvalTimeout ELSE 0
  /\ UNCHANGED <<opts, now, waitStarted, waiting, jsTime, queued, parked>>

\* JavaScript makes a host call and waits for the answer.
Park ==
  /\ stage = "js"
  /\ stage' = "parked"
  /\ waitStarted' = now
  /\ UNCHANGED <<opts, now, deadline, waiting, jsTime, queued, parked>>

\* The wait is over: the deadline moves by the time waited.
Resume ==
  /\ stage = "parked"
  /\ stage' = "js"
  /\ deadline' = IF deadline > 0 THEN deadline + (now - waitStarted) ELSE deadline
  /\ UNCHANGED <<opts, now, waitStarted, waiting, jsTime, queued, parked>>

\* Mutant of Overdue: a deadline that has passed is not noticed until a tick later.
OverdueLate == stage = "js" /\ deadline > 0 /\ now > deadline + 1

\* interrupt_handler: the script runs past its deadline.
Overdue == stage = "js" /\ deadline > 0 /\ now > deadline

Interrupt ==
  /\ Overdue
  /\ stage' = "interrupted"
  /\ UNCHANGED <<opts, now, deadline, waitStarted, waiting, jsTime, queued, parked>>

Finish ==
  /\ stage = "js"
  /\ stage' = "done"
  /\ UNCHANGED <<opts, now, deadline, waitStarted, waiting, jsTime, queued, parked>>

\* GenServer.call waits 5000 ms when call_timeout is absent: beyond the horizon.
\* The caller exits when its time is over.
CallerLeaves ==
  /\ waiting
  /\ stage \notin {"interrupted", "done"}
  /\ callTimeout \in Nat
  /\ now - 1 > callTimeout
  /\ waiting' = FALSE
  /\ UNCHANGED <<opts, stage, now, deadline, waitStarted, jsTime, queued, parked>>

\* A tick passes; an overdue script has been interrupted before it.
Tick ==
  /\ now < Horizon
  /\ ~Overdue
  /\ now' = now + 1
  /\ queued' = IF stage = "queued" THEN queued + 1 ELSE queued
  /\ parked' = IF stage = "parked" THEN parked + 1 ELSE parked
  /\ jsTime' = IF stage = "js" THEN jsTime + 1 ELSE jsTime
  /\ stage \in {"queued", "js", "parked"}
  /\ queued' <= MaxQueued /\ parked' <= MaxParked
  /\ UNCHANGED <<opts, stage, deadline, waitStarted, waiting>>

Next == Start \/ Park \/ Resume \/ Interrupt \/ Finish \/ CallerLeaves \/ Tick

Spec == Init /\ [][Next]_vars

-----------------------------------------------------------------------------
\* README.md: the timeout measures "JavaScript execution time, not time parked on a
\* host callback": a script with a timeout never executes longer than it, however
\* often and long it is parked ...
JsTimeBounded == EvalTimeout > 0 /\ stage # "queued" => jsTime <= EvalTimeout + 1

\* ... and is never interrupted before it has had its full time.
InterruptedOnlyLate == stage = "interrupted" => jsTime > EvalTimeout

\* docs/server.md: "finite call timeouts also cap the JS timeout so CPU-bound work is
\* interrupted before the caller exits": a sync eval without a timeout of its own
\* that starts at once and is not parked ends before its caller stops waiting.
CallerSeesTimeout ==
  timeout = Absent /\ callTimeout \in Nat /\ callTimeout > Grace /\ default > 0
    /\ queued = 0 /\ parked = 0 => waiting

\* docs/server.md: "CPU-bound active evals are bounded by the effective eval timeout
\* unless you explicitly pass timeout: 0" (or configure that default).
UnboundedOnlyOnRequest ==
  stage = "js" /\ deadline = 0 => timeout = 0 \/ default = 0
=============================================================================
