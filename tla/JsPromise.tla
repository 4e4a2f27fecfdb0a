----------------------------- MODULE JsPromise -----------------------------
(***************************************************************************)
(* Promises, their jobs and async functions of the JavaScript engine       *)
(* (src/c_src/quickjs_ng/quickjs.c), with the host's loop that runs the    *)
(* jobs of an eval (drain_pending_jobs of src/lib/quickjs_ex/nif.zig).     *)
(*                                                                         *)
(* JavaScript is a stack of frames; the code of the topmost frame may make *)
(* promises, call the resolving functions scripts hold, register           *)
(* reactions, call async functions, await, return, throw or be             *)
(* interrupted (an uncatchable error).  A value is a promise, a thenable   *)
(* (an object whose `then' property runs code when it is read and when it  *)
(* is called) or anything else.                                            *)
(*                                                                         *)
(* The promise that js_promise_then returns to js_promise_resolve_thenable *)
(* _job is seen by nobody and is left out.                                 *)
(***************************************************************************)
EXTENDS Naturals, Sequences, FiniteSets

CONSTANTS
  Asyncs,        \* calls of async functions
  Plain,         \* a value that is no object with a `then' method
  Thenable,
  MaxPromises, MaxPairs, MaxReactions, MaxDepth, MaxEvals   \* bounds: promises,
                 \* pairs of resolving functions of a promise, reactions, frames, evals

ValuesAssumption == Plain \notin Nat /\ Thenable \notin Nat /\ Plain # Thenable
BoundsAssumption == {MaxPromises, MaxPairs, MaxReactions, MaxDepth, MaxEvals} \subseteq Nat

VARIABLES
  promises,    \* the promises made, in order: state, reactions, and the already_resolved
               \* flag of each pair of resolving functions made for it
  held,        \* the pairs <<promise, number>> whose functions scripts can call
  asyncs,      \* each async call: "none", "running", "awaiting", "ended"
  resultOf,    \* the promise of each async call
  jobs,        \* rt->job_list
  stack,       \* the frames of running JavaScript
  host,        \* "idle", "script" (JS_Eval), "drain" (drain_pending_jobs)
  evals,       \* history: number of evals
  registered,  \* history: registered[i] is the promise of reaction i
  ran,         \* history: the reactions run, in order
  interrupted  \* history: JavaScript of this eval was interrupted

vars == <<promises, held, asyncs, resultOf, jobs, stack, host, evals, registered, ran, interrupted>>

Ids == 1..MaxPromises
Values == Ids \union {Plain, Thenable}
Pairs == Ids \X (1..MaxPairs)

Frame(kind, p, k) == [kind |-> kind, p |-> p, k |-> k]
Top == stack[1]
Rest == Tail(stack)

\* A reaction: its handler is a function of a script ("user", possibly undefined for one of
\* the two outcomes), a pair of resolving functions ("settle") or an async function ("resume").
Reaction(kind, p, k) == [id |-> Len(registered) + 1, kind |-> kind, p |-> p, k |-> k]
ReactionJob(r, st) == [kind |-> "reaction", reaction |-> r, st |-> st]
ThenableJob(p, v) == [kind |-> "thenable", p |-> p, v |-> v]

Init ==
  /\ promises = <<>>
  /\ held = {}
  /\ asyncs = [f \in Asyncs |-> "none"]
  /\ resultOf = [f \in Asyncs |-> 0]
  /\ jobs = <<>>
  /\ stack = <<>>
  /\ host = "idle"
  /\ evals = 0
  /\ registered = <<>>
  /\ ran = <<>>
  /\ interrupted = FALSE

\* js_promise_new: a pending promise with its first pair of resolving functions.
NewPromise == [st |-> "pending", reactions |-> <<>>, used |-> <<FALSE>>]

CanMake(n) == Len(promises) + n <= MaxPromises

-----------------------------------------------------------------------------
(* Settling a promise. *)

\* fulfill_or_reject_promise: the reactions become jobs behind the queued ones, js.
Settle(ps, js, p, st) ==
  IF ps[p].st # "pending"
    THEN promises' = ps /\ jobs' = js
    ELSE /\ promises' = [ps EXCEPT ![p].st = st, ![p].reactions = <<>>]
         /\ jobs' = js \o [i \in DOMAIN ps[p].reactions |-> ReactionJob(ps[p].reactions[i], st)]

\* Mutant of Resolving: the flag is not set before the `then' property is read.
ResolvingLate(js, p, k, st, v, rest) ==
  LET ps == [promises EXCEPT ![p].used[k] = TRUE] IN
  IF promises[p].used[k] THEN promises' = promises /\ jobs' = js /\ stack' = rest
  ELSE IF st = "rejected" \/ v = Plain THEN Settle(ps, js, p, st) /\ stack' = rest
  ELSE IF v = p THEN Settle(ps, js, p, "rejected") /\ stack' = rest
  ELSE IF v = Thenable
    THEN promises' = promises /\ jobs' = js /\ stack' = <<Frame("getter", p, k)>> \o rest
  ELSE promises' = ps /\ jobs' = Append(js, ThenableJob(p, v)) /\ stack' = rest

\* js_promise_resolve_function_call: the resolve (st = "fulfilled") or the reject function of
\* pair k of promise p is called with v; rest is the stack to return to.  Reading the
\* `then' property of a thenable runs code ("getter").
Resolving(js, p, k, st, v, rest) ==
  LET ps == [promises EXCEPT ![p].used[k] = TRUE] IN
  IF promises[p].used[k] THEN promises' = promises /\ jobs' = js /\ stack' = rest
  ELSE IF st = "rejected" \/ v = Plain THEN Settle(ps, js, p, st) /\ stack' = rest
  ELSE IF v = p THEN Settle(ps, js, p, "rejected") /\ stack' = rest
  ELSE IF v = Thenable
    THEN promises' = ps /\ jobs' = js /\ stack' = <<Frame("getter", p, k)>> \o rest
  ELSE promises' = ps /\ jobs' = Append(js, ThenableJob(p, v)) /\ stack' = rest

\* Mutant of PerformThen: a settled promise keeps the reaction as well.
PerformThenTwice(ps, js, p, r) ==
  /\ Len(registered) < MaxReactions
  /\ registered' = Append(registered, p)
  /\ promises' = [ps EXCEPT ![p].reactions = Append(@, r)]
  /\ jobs' = IF ps[p].st = "pending" THEN js ELSE Append(js, ReactionJob(r, ps[p].st))

\* perform_promise_then
PerformThen(ps, js, p, r) ==
  /\ Len(registered) < MaxReactions
  /\ registered' = Append(registered, p)
  /\ IF ps[p].st = "pending"
       THEN promises' = [ps EXCEPT ![p].reactions = Append(@, r)] /\ jobs' = js
       ELSE promises' = ps /\ jobs' = Append(js, ReactionJob(r, ps[p].st))

-----------------------------------------------------------------------------
(* What running JavaScript does. *)

Runs == stack # <<>> /\ host \in {"script", "drain"}
CanCall == Runs /\ Len(stack) < MaxDepth

\* js_promise_constructor: the executor is called with the resolving functions.
MakePromise ==
  /\ CanCall /\ CanMake(1)
  /\ promises' = Append(promises, NewPromise)
  /\ held' = held \union {<<Len(promises) + 1, 1>>}
  /\ stack' = <<Frame("executor", Len(promises) + 1, 1)>> \o stack
  /\ UNCHANGED <<asyncs, resultOf, jobs, host, evals, registered, ran, interrupted>>

ResolvePromise(pair, st, v) ==
  /\ Runs /\ (v = Thenable => CanCall)
  /\ Resolving(jobs, pair[1], pair[2], st, v, stack)
  /\ UNCHANGED <<held, asyncs, resultOf, host, evals, registered, ran, interrupted>>

\* js_promise_then
Then(p) ==
  /\ Runs /\ CanMake(1)
  /\ PerformThen(Append(promises, NewPromise), jobs, p, Reaction("user", Len(promises) + 1, 1))
  /\ UNCHANGED <<held, asyncs, resultOf, stack, host, evals, ran, interrupted>>

\* js_async_function_call: the function runs up to its first await.
CallAsync(f) ==
  /\ CanCall /\ CanMake(1)
  /\ asyncs[f] = "none"
  /\ asyncs' = [asyncs EXCEPT ![f] = "running"]
  /\ promises' = Append(promises, NewPromise)
  /\ resultOf' = [resultOf EXCEPT ![f] = Len(promises) + 1]
  /\ stack' = <<Frame("async", f, 0)>> \o stack
  /\ UNCHANGED <<held, jobs, host, evals, registered, ran, interrupted>>

\* js_async_function_resume, on await: a value that is no promise is wrapped in a resolved one.
Await(v) ==
  /\ Runs /\ Top.kind = "async"
  /\ asyncs' = [asyncs EXCEPT ![Top.p] = "awaiting"]
  /\ stack' = Rest
  /\ \/ /\ v \in DOMAIN promises
        /\ PerformThen(promises, jobs, v, Reaction("resume", Top.p, 0))
     \/ /\ v = Plain /\ CanMake(1)
        /\ PerformThen(Append(promises, [NewPromise EXCEPT !.st = "fulfilled", !.used = <<TRUE>>]),
                       jobs, Len(promises) + 1, Reaction("resume", Top.p, 0))
  /\ UNCHANGED <<held, resultOf, host, evals, ran, interrupted>>

\* The topmost frame returns v.  The value of a script, of an executor and of a `then' method
\* is not looked at; a getter's is the `then' method, or is not callable.
Return(v) ==
  /\ Runs
  /\ \/ /\ Top.kind = "script" /\ v = Plain
        /\ host' = "drain" /\ stack' = Rest
        /\ UNCHANGED <<promises, jobs, asyncs>>
     \/ /\ Top.kind \in {"executor", "thenable"} /\ v = Plain
        /\ stack' = Rest
        /\ UNCHANGED <<promises, jobs, asyncs, host>>
     \/ /\ Top.kind = "handler"
        /\ Resolving(jobs, Top.p, 1, "fulfilled", v, Rest)
        /\ UNCHANGED <<asyncs, host>>
     \/ /\ Top.kind = "async"
        /\ Resolving(jobs, resultOf[Top.p], 1, "fulfilled", v, Rest)
        /\ asyncs' = [asyncs EXCEPT ![Top.p] = "ended"]
        /\ UNCHANGED host
     \/ /\ Top.kind = "getter" /\ v \in {Plain, Thenable}
        /\ stack' = Rest
        /\ IF v = Plain
             THEN Settle(promises, jobs, Top.p, "fulfilled")
             ELSE jobs' = Append(jobs, ThenableJob(Top.p, Thenable)) /\ UNCHANGED promises
        /\ UNCHANGED <<asyncs, host>>
  /\ UNCHANGED <<held, resultOf, evals, registered, ran, interrupted>>

\* What catches an exception that leaves a frame, and rejects a promise with it.
Catch(frame, rest) ==
  IF frame.kind = "getter"
       THEN Settle(promises, jobs, frame.p, "rejected") /\ stack' = rest
       ELSE LET p == IF frame.kind = "async" THEN resultOf[frame.p] ELSE frame.p
                k == IF frame.kind = "thenable" THEN frame.k ELSE 1 IN
            Resolving(jobs, p, k, "rejected", Plain, rest)

\* The topmost frame throws.  An eval that ends so is answered at once: its jobs stay.
Throw ==
  /\ Runs
  /\ IF Top.kind = "script"
       THEN stack' = Rest /\ host' = "idle" /\ UNCHANGED <<promises, jobs>>
       ELSE Catch(Top, Rest) /\ UNCHANGED host
  /\ asyncs' = IF Top.kind = "async" THEN [asyncs EXCEPT ![Top.p] = "ended"] ELSE asyncs
  /\ UNCHANGED <<held, resultOf, evals, registered, ran, interrupted>>

\* The frames in which even an uncatchable error becomes the rejection of a promise.
Catchers == {i \in DOMAIN stack : stack[i].kind \in {"executor", "thenable", "getter"}}

\* The interrupt handler stops JavaScript.  Handlers, async functions and scripts pass the
\* error on, to drain_pending_jobs or JS_Eval; the other frames do not tell it from others.
Interrupt ==
  /\ Runs
  /\ interrupted' = TRUE
  /\ LET last == IF Catchers = {} THEN Len(stack)
                 ELSE CHOOSE i \in Catchers : \A j \in Catchers : i <= j IN
     /\ asyncs' = [f \in Asyncs |->
                     IF \E i \in 1..last : stack[i].kind = "async" /\ stack[i].p = f
                       THEN "ended" ELSE asyncs[f]]
     /\ IF Catchers = {}
          THEN stack' = <<>> /\ host' = "idle" /\ UNCHANGED <<promises, jobs>>
          ELSE Catch(stack[last], SubSeq(stack, last + 1, Len(stack))) /\ UNCHANGED host
  /\ UNCHANGED <<held, resultOf, evals, registered, ran>>

Script ==
  \/ MakePromise
  \/ \E pair \in held, st \in {"fulfilled", "rejected"}, v \in Values :
       (v \in Ids => v \in DOMAIN promises) /\ (st = "rejected" => v = Plain) /\ ResolvePromise(pair, st, v)
  \/ \E p \in DOMAIN promises : Then(p)
  \/ \E f \in Asyncs : CallAsync(f)
  \/ \E v \in Values : Await(v)
  \/ \E v \in Values : (v \in Ids => v \in DOMAIN promises) /\ Return(v)
  \/ Throw \/ Interrupt

-----------------------------------------------------------------------------
(* The host. *)

StartEval ==
  /\ host = "idle" /\ evals < MaxEvals
  /\ evals' = evals + 1
  /\ host' = "script"
  /\ stack' = <<Frame("script", 0, 0)>>
  /\ interrupted' = FALSE
  /\ UNCHANGED <<promises, held, asyncs, resultOf, jobs, registered, ran>>

\* promise_reaction_job; a handler that is undefined passes the outcome on.
RunReaction(js, r, st) ==
  /\ ran' = Append(ran, r.id)
  /\ \/ /\ r.kind \in {"user", "settle"}
        /\ Resolving(js, r.p, r.k, st, Plain, <<>>)
        /\ UNCHANGED asyncs
     \/ /\ r.kind = "user"
        /\ stack' = <<Frame("handler", r.p, 1)>>
        /\ jobs' = js
        /\ UNCHANGED <<promises, asyncs>>
     \/ /\ r.kind = "resume"
        /\ stack' = <<Frame("async", r.p, 0)>>
        /\ asyncs' = [asyncs EXCEPT ![r.p] = "running"]
        /\ jobs' = js
        /\ UNCHANGED promises
  /\ UNCHANGED <<held, registered>>

\* js_promise_resolve_thenable_job: a fresh pair of resolving functions for p is passed to
\* the `then' method, of a promise or of a thenable.
RunThenable(js, p, v) ==
  LET k == Len(promises[p].used) + 1
      ps == [promises EXCEPT ![p].used = Append(@, FALSE)] IN
  /\ k <= MaxPairs
  /\ IF v = Thenable
       THEN /\ promises' = ps
            /\ stack' = <<Frame("thenable", p, k)>>
            /\ held' = held \union {<<p, k>>}
            /\ jobs' = js
            /\ UNCHANGED registered
       ELSE /\ PerformThen(ps, js, v, Reaction("settle", p, k))
            /\ UNCHANGED <<stack, held>>
  /\ UNCHANGED <<asyncs, ran>>

\* JS_ExecutePendingJob, called by drain_pending_jobs.
RunJob ==
  /\ host = "drain" /\ stack = <<>> /\ jobs # <<>>
  /\ IF Head(jobs).kind = "reaction"
       THEN RunReaction(Tail(jobs), Head(jobs).reaction, Head(jobs).st)
       ELSE RunThenable(Tail(jobs), Head(jobs).p, Head(jobs).v)
  /\ UNCHANGED <<resultOf, host, evals, interrupted>>

\* settle_root_promise: with no job left, an async entry is resolved from outside, or
\* the eval is answered.
Idle == host = "drain" /\ stack = <<>> /\ jobs = <<>>

ExternalSettles(pair, st) ==
  /\ Idle
  /\ Resolving(jobs, pair[1], pair[2], st, Plain, <<>>)
  /\ UNCHANGED <<held, asyncs, resultOf, host, evals, registered, ran, interrupted>>

EndEval ==
  /\ Idle
  /\ host' = "idle"
  /\ UNCHANGED <<promises, held, asyncs, resultOf, jobs, stack, evals, registered, ran, interrupted>>

Next ==
  \/ Script \/ StartEval \/ RunJob \/ EndEval
  \/ \E pair \in held, st \in {"fulfilled", "rejected"} : ExternalSettles(pair, st)

Spec == Init /\ [][Next]_vars

-----------------------------------------------------------------------------
\* The types of the job queue, the promises and the stack of JavaScript.
TypeOK ==
  /\ promises \in Seq([st : {"pending", "fulfilled", "rejected"}, reactions : Seq(
                         [id : 1..MaxReactions, kind : {"user", "settle", "resume"},
                          p : Ids \union Asyncs, k : 0..MaxPairs]), used : Seq(BOOLEAN)])
  /\ Len(promises) <= MaxPromises
  /\ held \subseteq Pairs
  /\ asyncs \in [Asyncs -> {"none", "running", "awaiting", "ended"}]
  /\ resultOf \in [Asyncs -> {0} \union Ids]
  /\ Len(stack) <= MaxDepth
  /\ host \in {"idle", "script", "drain"}
  /\ host = "idle" => stack = <<>>
  /\ evals \in 0..MaxEvals
  /\ registered \in Seq(Ids) /\ Len(registered) <= MaxReactions
  /\ interrupted \in BOOLEAN

\* The ways in which promise p can still be settled: an unused pair of resolving functions,
\* a job that will make a new pair, the end of a getter.
Ways(p) ==
  Cardinality({k \in DOMAIN promises[p].used : ~promises[p].used[k]})
    + Cardinality({i \in DOMAIN jobs : jobs[i].kind = "thenable" /\ jobs[i].p = p})
    + Cardinality({i \in DOMAIN stack : stack[i].kind = "getter" /\ stack[i].p = p})

\* quickjs.c:54356 calls it what "should never happen" that a settled promise is settled
\* again.  However thenables call back, twice, late or while they are being asked, a pending
\* promise can be settled in exactly one way and a settled one in none: it settles once,
\* and no promise is left that nothing could settle.
OneResolver ==
  \A p \in DOMAIN promises : Ways(p) = IF promises[p].st = "pending" THEN 1 ELSE 0

\* The places of reaction i: among those that ran, in the job queue, with its promise.
Places(i) ==
  LET r == promises[registered[i]].reactions IN
  {<<1, l>> : l \in {m \in DOMAIN ran : ran[m] = i}}
    \union {<<2, l>> : l \in {m \in DOMAIN jobs : jobs[m].kind = "reaction" /\ jobs[m].reaction.id = i}}
    \union {<<3, l>> : l \in {m \in DOMAIN r : r[m].id = i}}
Ahead(x, y) == x[1] < y[1] \/ (x[1] = y[1] /\ x[2] < y[2])

\* The reactions of a promise run in the order in which they were registered, each once, and
\* none is lost or gets to another promise on its way from the promise through the job queue,
\* over any number of evals.
ReactionsInOrder ==
  /\ \A i \in DOMAIN registered : Cardinality(Places(i)) = 1
  /\ \A i, j \in DOMAIN registered : i < j /\ registered[i] = registered[j] =>
       \A x \in Places(i), y \in Places(j) : Ahead(x, y)
  /\ \A p \in DOMAIN promises : \A l \in DOMAIN promises[p].reactions :
       registered[promises[p].reactions[l].id] = p

\* The frame of an async function is resumed only where it was left: while it awaits there is
\* one continuation, in a promise or in the queue, and none while it runs or once it ended.
OneContinuation ==
  \A f \in Asyncs :
    LET Resumes(r) == r.kind = "resume" /\ r.p = f
        waiting == Cardinality({x \in (DOMAIN promises) \X (1..MaxReactions) :
                      x[2] \in DOMAIN promises[x[1]].reactions /\ Resumes(promises[x[1]].reactions[x[2]])})
        queued == Cardinality({i \in DOMAIN jobs : jobs[i].kind = "reaction" /\ Resumes(jobs[i].reaction)})
        running == Cardinality({i \in DOMAIN stack : stack[i].kind = "async" /\ stack[i].p = f}) IN
      /\ waiting + queued = IF asyncs[f] = "awaiting" THEN 1 ELSE 0
      /\ running = IF asyncs[f] = "running" THEN 1 ELSE 0

\* docs/server.md:141: "CPU-bound active evals are bounded by the effective eval timeout".
\* Once the interrupt handler has stopped it, no JavaScript of the eval goes on.
InterruptEndsEval == interrupted => stack = <<>> /\ host = "idle"
=============================================================================
