-------------------------- MODULE JsAsyncGenerator --------------------------
(***************************************************************************)
(* An async generator of the JavaScript engine                             *)
(* (src/c_src/quickjs_ng/quickjs.c, js_async_generator_next and what it    *)
(* calls).  A call of its next, return or throw method queues a request;   *)
(* the body is run for the request at the head, from one yield to the      *)
(* next, and may be suspended at an await in between, while further calls  *)
(* come in.                                                                *)
(*                                                                         *)
(* pc is where the C code is: "idle" outside of it, "loop" in the for loop *)
(* of js_async_generator_resume_next, "body" while the generator's own     *)
(* code runs, which may call the methods itself.  Settling the promise of  *)
(* a request runs no script at once: the result is a plain object, whose   *)
(* prototype is assumed to have no `then' getter.                          *)
(***************************************************************************)
EXTENDS Naturals, Sequences

CONSTANTS
  Requests,    \* calls of next, return and throw
  MaxAwaits    \* bound: awaits of the body
MaxAwaitsAssumption == MaxAwaits \in Nat

VARIABLES
  state,       \* JSAsyncGeneratorStateEnum; suspended_yield: also ..._YIELD_STAR
  queue,       \* the requests not answered yet
  completion,  \* completion_type of each request; "none": not made yet
  pc,
  awaiting,    \* what the generator waits for: "none", "await", "return" (completed_return)
  awaits,      \* history: number of awaits
  asked,       \* history: requests in the order of the calls
  answered     \* history: <<request, outcome>> in the order of the answers

vars == <<state, queue, completion, pc, awaiting, awaits, asked, answered>>

States == {"suspended_start", "suspended_yield", "executing", "awaiting_return", "completed"}

\* The engine's types: a request is in the queue once, or has been answered.
TypeOK ==
  /\ state \in States
  /\ queue \in Seq(Requests)
  /\ completion \in [Requests -> {"none", "next", "return", "throw"}]
  /\ pc \in {"idle", "loop", "body"}
  /\ awaiting \in {"none", "await", "return"}
  /\ awaits \in 0..MaxAwaits
  /\ asked \in Seq(Requests)
  /\ answered \in Seq(Requests \X {"value", "done", "error"})

Init ==
  /\ state = "suspended_start"
  /\ queue = <<>>
  /\ completion = [r \in Requests |-> "none"]
  /\ pc = "idle"
  /\ awaiting = "none"
  /\ awaits = 0
  /\ asked = <<>>
  /\ answered = <<>>

\* js_async_generator_next: by a script or job, or by the body itself.  A generator
\* that executes is not resumed by a call.
Call(r, kind) ==
  /\ completion[r] = "none"
  /\ pc \in {"idle", "body"}
  /\ completion' = [completion EXCEPT ![r] = kind]
  /\ queue' = Append(queue, r)
  /\ asked' = Append(asked, r)
  /\ pc' = IF state = "executing" THEN pc ELSE "loop"
  /\ UNCHANGED <<state, awaiting, awaits, answered>>

\* Mutant of Answer: the last request is answered.
AnswerLast(outcome) ==
  /\ queue' = SubSeq(queue, 1, Len(queue) - 1)
  /\ answered' = Append(answered, <<queue[Len(queue)], outcome>>)

\* js_async_generator_resolve_or_reject: the head leaves the queue, its promise settles.
Answer(outcome) ==
  /\ queue' = Tail(queue)
  /\ answered' = Append(answered, <<Head(queue), outcome>>)

-----------------------------------------------------------------------------
(* js_async_generator_resume_next: one round of the loop. *)

Enter ==
  /\ state' = "executing"
  /\ pc' = "body"
  /\ UNCHANGED <<queue, awaiting, answered>>

\* Nothing is left to do, or the awaited return must settle first.
LoopEnds ==
  /\ pc = "loop"
  /\ queue = <<>> \/ state = "awaiting_return"
  /\ pc' = "idle"
  /\ UNCHANGED <<state, queue, completion, awaiting, awaits, asked, answered>>

LoopStart ==
  /\ pc = "loop" /\ queue # <<>>
  /\ state = "suspended_start"
  /\ IF completion[Head(queue)] = "next"
       THEN Enter
       ELSE state' = "completed" /\ UNCHANGED <<queue, pc, awaiting, answered>>
  /\ UNCHANGED <<completion, awaits, asked>>

\* The request is passed to the yield, and the body goes on.
LoopResumeYield ==
  /\ pc = "loop" /\ queue # <<>>
  /\ state = "suspended_yield"
  /\ Enter
  /\ UNCHANGED <<completion, awaits, asked>>

\* The body goes on after an await.
LoopResumeAwait ==
  /\ pc = "loop" /\ queue # <<>>
  /\ state = "executing"
  /\ Enter
  /\ UNCHANGED <<completion, awaits, asked>>

\* A completed generator serves one request, and the loop ends whatever follows it.
LoopCompleted ==
  /\ pc = "loop" /\ queue # <<>>
  /\ state = "completed"
  /\ pc' = "idle"
  /\ \/ completion[Head(queue)] = "next" /\ Answer("done") /\ UNCHANGED <<state, awaiting>>
     \/ completion[Head(queue)] = "throw" /\ Answer("error") /\ UNCHANGED <<state, awaiting>>
     \/ /\ completion[Head(queue)] = "return"
        /\ state' = "awaiting_return"
        /\ awaiting' = "return"
        /\ UNCHANGED <<queue, answered>>
  /\ UNCHANGED <<completion, awaits, asked>>

Loop == LoopEnds \/ LoopStart \/ LoopResumeYield \/ LoopResumeAwait \/ LoopCompleted

-----------------------------------------------------------------------------
(* What the body does until it hands control back. *)

BodyYields ==
  /\ pc = "body"
  /\ state' = "suspended_yield"
  /\ Answer("value")
  /\ pc' = "loop"
  /\ UNCHANGED <<completion, awaiting, awaits, asked>>

\* js_async_generator_await.  An await that fails to begin throws into the body, which
\* then does any of its steps.
BodyAwaits ==
  /\ pc = "body"
  /\ awaits < MaxAwaits
  /\ awaits' = awaits + 1
  /\ awaiting' = "await"
  /\ pc' = "idle"
  /\ UNCHANGED <<state, queue, completion, asked, answered>>

\* The end of the function, or an exception: js_async_generator_complete.
BodyEnds ==
  /\ pc = "body"
  /\ state' = "completed"
  /\ \E outcome \in {"done", "error"} : Answer(outcome)
  /\ pc' = "loop"
  /\ UNCHANGED <<completion, awaiting, awaits, asked>>

Body == BodyYields \/ BodyAwaits \/ BodyEnds

-----------------------------------------------------------------------------
(* js_async_generator_resolve_function, called by a job. *)

AwaitSettles ==
  /\ pc = "idle"
  /\ awaiting = "await"
  /\ awaiting' = "none"
  /\ pc' = IF state = "executing" THEN "loop" ELSE "idle"
  /\ UNCHANGED <<state, queue, completion, awaits, asked, answered>>

\* The generator does not look for further requests.
ReturnSettles ==
  /\ pc = "idle"
  /\ awaiting = "return"
  /\ awaiting' = "none"
  /\ state' = "completed"
  /\ \E outcome \in {"done", "error"} : Answer(outcome)
  /\ UNCHANGED <<pc, completion, awaits, asked>>

Next ==
  \/ \E r \in Requests, kind \in {"next", "return", "throw"} : Call(r, kind)
  \/ Loop \/ Body \/ AwaitSettles \/ ReturnSettles

Spec == Init /\ [][Next]_vars

-----------------------------------------------------------------------------
\* The promises of the calls settle in the order of the calls, each once; and once an
\* answer has said that the generator is done, or has failed, none brings a value.
AnswersInOrder ==
  /\ Len(answered) <= Len(asked)
  /\ \A i \in DOMAIN answered :
       /\ answered[i][1] = asked[i]
       /\ \A j \in 1..i : answered[i][2] = "value" => answered[j][2] = "value"

\* js_async_generator_resolve_or_reject takes the head of the queue unseen, and the
\* resume function asserts the state it finds: whenever the body runs, or a reaction
\* of the generator is pending, the state is the one the reaction expects and the
\* request it will answer is still in the queue.
ServesTheHead ==
  /\ pc = "body" \/ awaiting = "await" => state = "executing"
  /\ awaiting = "return" <=> state = "awaiting_return"
  /\ state = "executing" /\ pc = "idle" => awaiting = "await"
  /\ state \in {"executing", "awaiting_return"} => queue # <<>>

\* A generator that rests with requests left unanswered is a completed one: as long as
\* the body can go on, every request is served without another call.
StrandedOnlyWhenDone ==
  pc = "idle" /\ awaiting = "none" /\ queue # <<>> => state = "completed"

\* quickjs.c:21361: "resume next case in AWAITING_RETURN state".  The code answers the
\* request that waited, but resumes none of the next; and a loop that finds the generator
\* completed serves one of them only.  Their promises settle with a later call, if any.
NoRequestStranded ==
  pc = "idle" /\ awaiting = "none" => queue = <<>>
=============================================================================
