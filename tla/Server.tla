------------------------------- MODULE Server -------------------------------
(***************************************************************************)
(* QuickjsEx.Server (src/lib/quickjs_ex/server.ex): the GenServer that owns *)
(* one native context, runs one evaluation at a time on it, queues the      *)
(* others, answers the callbacks JavaScript makes and keeps the user state. *)
(*                                                                         *)
(* The processes are the callers (which may die at any moment), the tasks  *)
(* that complete deferred callbacks, the Server, and the native context,   *)
(* of which only what the Server can observe is kept (ContextThread models *)
(* it in full).  The mailbox is split by sender: Erlang orders the messages *)
(* of one sender only, so the Server may take the head of any part.        *)
(***************************************************************************)
EXTENDS Naturals, Sequences, FiniteSets

CONSTANTS
  SyncEvals,      \* requests made with eval_sync/3
  AsyncEvals,     \* requests made with eval_async/3
  GasReads,       \* requests made with gas/2
  OnBusyError,    \* the evals that pass on_busy: :error
  Awaiting,       \* the evals whose JavaScript awaits every callback it makes
  Callers,        \* the processes that make the requests
  CallerOf,       \* the process that makes each request
  Apis,           \* the API modules, each with a state slice of its own
  Root,           \* the callback module, whose state is root_state
  MaxQueueSize,   \* max_queue_size
  MaxCalls,       \* bound: host calls one eval makes
  NoRequest,      \* active: nil
  NoCall          \* the context is not parked in a sync request

Requests  == SyncEvals \cup AsyncEvals \cup GasReads
Monitored == SyncEvals \cup GasReads
Evals     == SyncEvals \cup AsyncEvals
Targets   == Apis \cup {Root}
\* A host call: the token of a CallbackRef and its {eval_ref, req_id}.
Calls     == Evals \X (1..MaxCalls)
Outcomes  == {"result", "context_busy", "poisoned"}

ASSUME RequestsAssumption ==
  /\ SyncEvals \cap AsyncEvals = {}
  /\ GasReads \cap Evals = {}
  /\ OnBusyError \subseteq Evals
  /\ NoRequest \notin Requests
  /\ NoCall \notin Calls
  /\ CallerOf \in [Requests -> Callers]
  /\ Root \notin Apis
ASSUME BoundsAssumption == MaxQueueSize \in Nat /\ MaxCalls \in Nat

VARIABLES
  alive,       \* the callers that have not exited
  sent,        \* the requests made so far
  mail,        \* request messages in the mailbox, in order for each caller
  monitor,     \* the monitor of each request: "none", "set", or "down" (its
               \* DOWN message is in the mailbox)
  active,      \* the request of state.active, or NoRequest
  callerDown,  \* state.active.caller_down?
  queue,       \* state.queue
  queueSize,   \* state.queue_size
  pending,     \* state.pending_callbacks
  registry,    \* the targets in state.registry (and state.api_states)
  userState,   \* root_state and the API slices: the calls whose update it holds
  deferred,    \* the calls whose CallbackRef some task holds
  casts,       \* {:resolve_callback, ...} messages in the mailbox
  running,     \* the command the native context is busy with, or NoRequest
  poisoned,    \* the native poisoned flag
  made,        \* how many host calls each eval has made
  entries,     \* native async entries: calls whose promise is not settled
  parked,      \* the sync callback or module request the context waits for
  jsNames,     \* the targets whose functions JavaScript can see
  ctxMail,     \* the messages from the context thread, in order
  replies,     \* history: the answers each request has received
  arrivals,    \* history: the requests started or queued, in order
  ran          \* history: the requests dispatched to the context, in order

serverVars == <<active, callerDown, queue, queueSize, pending, registry, userState>>
ctxVars    == <<running, poisoned, made, entries, parked, jsNames>>
histVars   == <<replies, arrivals, ran>>
vars == <<alive, sent, mail, monitor, active, callerDown, queue, queueSize, pending,
          registry, userState, deferred, casts, running, poisoned, made, entries,
          parked, jsNames, ctxMail, replies, arrivals, ran>>

Message == [kind : {"async"}, call : Calls, target : Targets]
             \cup [kind : {"sync"}, call : Calls]
             \cup [kind : {"result"}, eval : Requests]

\* The types of the Server's state, the mailbox and the observable context.
TypeOK ==
  /\ alive \subseteq Callers
  /\ sent \subseteq Requests
  /\ mail \in [Callers -> Seq(Requests)]
  /\ monitor \in [Requests -> {"none", "set", "down"}]
  /\ active \in Requests \cup {NoRequest}
  /\ callerDown \in BOOLEAN
  /\ queue \in Seq(Requests)
  /\ queueSize \in Nat
  /\ pending \subseteq [call : Calls, target : Targets]
  /\ registry \subseteq Targets
  /\ userState \in [Targets -> SUBSET Calls]
  /\ deferred \subseteq Calls
  /\ casts \subseteq deferred
  /\ running \in Requests \cup {NoRequest}
  /\ poisoned \in BOOLEAN
  /\ made \in [Requests -> 0..MaxCalls]
  /\ entries \subseteq Calls
  /\ parked \in Calls \cup {NoCall}
  /\ jsNames \subseteq Targets
  /\ ctxMail \in Seq(Message)
  /\ replies \in [Requests -> Seq(Outcomes)]
  /\ arrivals \in Seq(Requests)
  /\ ran \in Seq(Requests)

Init ==
  /\ alive = Callers
  /\ sent = {}
  /\ mail = [c \in Callers |-> <<>>]
  /\ monitor = [r \in Requests |-> "none"]
  /\ active = NoRequest
  /\ callerDown = FALSE
  /\ queue = <<>>
  /\ queueSize = 0
  /\ pending = {}
  /\ registry = {Root}
  /\ userState = [t \in Targets |-> {}]
  /\ deferred = {}
  /\ casts = {}
  /\ running = NoRequest
  /\ poisoned = FALSE
  /\ made = [r \in Requests |-> 0]
  /\ entries = {}
  /\ parked = NoCall
  /\ jsNames = {Root}
  /\ ctxMail = <<>>
  /\ replies = [r \in Requests |-> <<>>]
  /\ arrivals = <<>>
  /\ ran = <<>>

-----------------------------------------------------------------------------
(* Delivering results and starting requests.                               *)

Live(r) == r \in Monitored => CallerOf[r] \in alive

Suffix(q, k) == SubSeq(q, k + 1, Len(q))
Entered(s, r) == \E i \in 1..Len(s) : s[i] = r

\* deliver_eval_result: each request r with ans[r] # Silent is sent ans[r], and
\* the requests of D lose their monitor (and a DOWN message already received).
Silent == "silent"
Deliver(mon, ans, D) ==
  /\ replies' = [r \in Requests |->
                   IF ans[r] = Silent THEN replies[r] ELSE Append(replies[r], ans[r])]
  /\ monitor' = [r \in Requests |-> IF r \in D THEN "none" ELSE mon[r]]

NoAnswer == [r \in Requests |-> Silent]

\* What nif_eval and nif_get_gas answer at once: the context is poisoned, or
\* busy with another command.
Refuses == poisoned \/ running # NoRequest
Refusal == IF poisoned THEN "poisoned" ELSE "context_busy"

\* start_eval when the context takes the command.
Dispatch(r) ==
  /\ ~Refuses
  /\ active' = r
  /\ callerDown' = FALSE
  /\ running' = r
  /\ ran' = Append(ran, r)

\* Mutant of Idle: clear_active_eval leaves active as it was.
IdleKeepsActive == UNCHANGED <<active, callerDown, running, ran>>

Idle ==
  /\ active' = NoRequest
  /\ callerDown' = FALSE
  /\ UNCHANGED <<running, ran>>

LiveAt(q) == {i \in 1..Len(q) : Live(q[i])}
At(q, I)  == {q[i] : i \in I}

\* maybe_start_next when every queued request is dead: pop_next_live_request
\* demonitors them all and answers :empty, and the state it was given, with
\* its queue, is kept.
StartNone(q, size, mon, ans, D) ==
  /\ LiveAt(q) = {}
  /\ Idle
  /\ queue' = q
  /\ queueSize' = size
  /\ Deliver(mon, ans, D \cup At(q, 1..Len(q)))

\* Mutant of StartFirst: the dead requests popped are not counted.
StartFirstMiscounts(q, size, mon, ans, D) ==
  \E k \in LiveAt(q) :
    /\ \A j \in LiveAt(q) : k <= j
    /\ Dispatch(q[k])
    /\ queue' = Suffix(q, k)
    /\ queueSize' = size - 1
    /\ Deliver(mon, ans, D \cup At(q, 1..(k - 1)))

\* maybe_start_next when the first live request, at k, is dispatched: the dead
\* requests before it are dropped.
StartFirst(q, size, mon, ans, D) ==
  \E k \in LiveAt(q) :
    /\ \A j \in LiveAt(q) : k <= j
    /\ Dispatch(q[k])
    /\ queue' = Suffix(q, k)
    /\ queueSize' = size - k
    /\ Deliver(mon, ans, D \cup At(q, 1..(k - 1)))

\* maybe_start_next when the context refuses: each live request in turn is
\* answered with the refusal, until none is left.
RefuseAll(q, size, mon, ans, D) ==
  \E k \in LiveAt(q) :
    /\ \A j \in LiveAt(q) : j <= k
    /\ Refuses
    /\ Idle
    /\ queue' = Suffix(q, k)
    /\ queueSize' = size - k
    /\ Deliver(mon, [r \in Requests |->
                       IF r \in At(q, LiveAt(q)) THEN Refusal ELSE ans[r]],
               D \cup At(q, 1..Len(q)))

MaybeStartNext(q, size, mon, ans, D) ==
  \/ StartNone(q, size, mon, ans, D)
  \/ StartFirst(q, size, mon, ans, D)
  \/ RefuseAll(q, size, mon, ans, D)

-----------------------------------------------------------------------------
(* handle_call and handle_cast of the requests.                            *)

\* monitor_caller: monitoring a dead process sends the DOWN message at once.
Watched(r) ==
  [monitor EXCEPT ![r] = CASE r \notin Monitored -> "none"
                           [] r \in Monitored /\ Live(r) -> "set"
                           [] OTHER -> "down"]

\* busy? of the eval_async cast, then the two refusals of enqueue_eval.
Rejects(r) ==
  \/ r \in AsyncEvals \cap OnBusyError /\ (active # NoRequest \/ queue # <<>>)
  \/ active # NoRequest /\ (r \in OnBusyError \/ queueSize >= MaxQueueSize)

\* Mutant of RejectRequest: the refusal is sent and the request queued as well.
RejectAndQueue(r) ==
  /\ Rejects(r)
  /\ Deliver(Watched(r), [NoAnswer EXCEPT ![r] = "context_busy"], {r})
  /\ queue' = Append(queue, r)
  /\ queueSize' = queueSize + 1
  /\ UNCHANGED <<active, callerDown, running, ran, arrivals>>

RejectRequest(r) ==
  /\ Rejects(r)
  /\ Deliver(Watched(r), [NoAnswer EXCEPT ![r] = "context_busy"], {r})
  /\ UNCHANGED <<active, callerDown, queue, queueSize, running, ran, arrivals>>

\* Mutant of QueueRequest: the request goes to the front of the queue.
QueueAtFront(r) ==
  /\ active # NoRequest
  /\ ~Rejects(r)
  /\ queue' = <<r>> \o queue
  /\ queueSize' = queueSize + 1
  /\ arrivals' = Append(arrivals, r)
  /\ Deliver(Watched(r), NoAnswer, {})
  /\ UNCHANGED <<active, callerDown, running, ran>>

QueueRequest(r) ==
  /\ active # NoRequest
  /\ ~Rejects(r)
  /\ queue' = Append(queue, r)
  /\ queueSize' = queueSize + 1
  /\ arrivals' = Append(arrivals, r)
  /\ Deliver(Watched(r), NoAnswer, {})
  /\ UNCHANGED <<active, callerDown, running, ran>>

\* Mutant of StartRequest: the clause for an idle Server matches any state.
StartUnchecked(r) ==
  /\ ~Rejects(r)
  /\ arrivals' = Append(arrivals, r)
  /\ Dispatch(r)
  /\ Deliver(Watched(r), NoAnswer, {})
  /\ UNCHANGED <<queue, queueSize>>

StartRequest(r) ==
  /\ active = NoRequest
  /\ ~Rejects(r)
  /\ arrivals' = Append(arrivals, r)
  /\ \/ /\ Dispatch(r)
        /\ Deliver(Watched(r), NoAnswer, {})
        /\ UNCHANGED <<queue, queueSize>>
     \/ /\ Refuses
        /\ MaybeStartNext(queue, queueSize, Watched(r), [NoAnswer EXCEPT ![r] = Refusal], {r})

HandleRequest(c) ==
  /\ mail[c] # <<>>
  /\ mail' = [mail EXCEPT ![c] = Tail(@)]
  /\ LET r == Head(mail[c]) IN RejectRequest(r) \/ QueueRequest(r) \/ StartRequest(r)
  /\ UNCHANGED <<alive, sent, pending, registry, userState, deferred, casts, poisoned,
                 made, entries, parked, jsNames, ctxMail>>

\* install_api: its functions are registered one after the other.  This may fail, or
\* exhaust the context's memory, before or after JavaScript sees some of them.
InstallApi(a) ==
  \/ /\ registry' = registry \cup {a}
     /\ userState' = [userState EXCEPT ![a] = {}]
     /\ jsNames' = jsNames \cup {a}
     /\ UNCHANGED poisoned
  \/ /\ jsNames' \in {jsNames, jsNames \cup {a}}
     /\ poisoned' \in BOOLEAN
     /\ UNCHANGED <<registry, userState>>

\* Mutant of LoadApi: the clause for an idle Server matches any state.
LoadApiAnyTime(a) ==
  /\ ~Refuses
  /\ InstallApi(a)
  /\ UNCHANGED <<alive, sent, mail, monitor, active, callerDown, queue, queueSize, pending,
                 deferred, casts, running, made, entries, parked, ctxMail>>
  /\ UNCHANGED histVars

\* handle_call load_api: only while no eval is active.  A context that refuses
\* commands refuses these too, and nothing changes.
LoadApi(a) ==
  /\ active = NoRequest
  /\ ~Refuses
  /\ InstallApi(a)
  /\ UNCHANGED <<alive, sent, mail, monitor, active, callerDown, queue, queueSize, pending,
                 deferred, casts, running, made, entries, parked, ctxMail>>
  /\ UNCHANGED histVars

-----------------------------------------------------------------------------
(* handle_info and handle_cast of the context's, the tasks' and the        *)
(* monitors' messages.                                                     *)

\* The calls of the pending callbacks of P, and those of P that r made.
CallsIn(P)    == {p.call : p \in P}
PendingOf(r)  == {p \in pending : p.call[1] = r}

\* nif_resolve_async: settles the promises of C that are still awaited, and
\* answers :stale for the others.
ResolveAsync(C) == entries' = entries \ C

\* Mutant of FinishActive: the pending callbacks are kept.
FinishKeepsPending ==
  LET ans == IF callerDown THEN NoAnswer ELSE [NoAnswer EXCEPT ![active] = "result"] IN
  /\ MaybeStartNext(queue, queueSize, monitor, ans, {active})
  /\ UNCHANGED <<pending, registry, userState, deferred, entries, parked, arrivals>>

\* handle_info of the result of the active request: deliver_eval_result, then
\* clear_active_eval, then maybe_start_next.
FinishActive ==
  LET ans == IF callerDown THEN NoAnswer ELSE [NoAnswer EXCEPT ![active] = "result"] IN
  /\ pending' = pending \ PendingOf(active)
  /\ MaybeStartNext(queue, queueSize, monitor, ans, {active})
  /\ UNCHANGED <<registry, userState, deferred, entries, parked, arrivals>>

\* The catch-all clause: a result that is not the active request's.
IgnoreResult ==
  /\ UNCHANGED serverVars
  /\ UNCHANGED <<monitor, deferred, running, entries, parked, histVars>>

PutUserState(target, call) == userState' = [userState EXCEPT ![target] = @ \cup {call}]

\* handle_async_request of the active eval whose caller is alive, for a
\* registered function: handle_js_call returns {:reply, ..} or {:reject, ..},
\* or raises or returns something invalid, or returns {:noreply, ..}.
CallReturns(call, target) ==
  \/ /\ PutUserState(target, call)
     /\ ResolveAsync({call})
     /\ UNCHANGED <<pending, deferred>>
  \/ /\ ResolveAsync({call})
     /\ UNCHANGED <<userState, pending, deferred>>
  \/ /\ PutUserState(target, call)
     /\ pending' = pending \cup {[call |-> call, target |-> target]}
     /\ deferred' = deferred \cup {call}
     /\ UNCHANGED entries

\* Mutant of InvokesCallback: the clause for a dead caller is missing.
InvokesForTheDead(call, target) == active = call[1] /\ target \in registry

InvokesCallback(call, target) ==
  active = call[1] /\ ~callerDown /\ target \in registry

\* The other clauses of handle_async_request: the caller is gone, no such
\* function is registered, or the eval is not the active one.
AnswerAsync(call, target) ==
  /\ \/ InvokesCallback(call, target) /\ CallReturns(call, target)
     \/ /\ ~InvokesCallback(call, target)
        /\ ResolveAsync({call})
        /\ UNCHANGED <<userState, pending, deferred>>
  /\ UNCHANGED <<monitor, active, callerDown, queue, queueSize, registry, running, parked>>
  /\ UNCHANGED histVars

\* A sync callback gets an error and a module request what the loader returns,
\* through nif_signal_callback_result or nif_signal_module_result.
AnswerSync(call) ==
  /\ parked' = IF parked = call THEN NoCall ELSE parked
  /\ UNCHANGED serverVars
  /\ UNCHANGED <<monitor, deferred, running, entries, histVars>>

HandleContextMessage ==
  /\ ctxMail # <<>>
  /\ ctxMail' = Tail(ctxMail)
  /\ LET m == Head(ctxMail) IN
     \/ m.kind = "result" /\ m.eval = active /\ FinishActive
     \/ m.kind = "result" /\ m.eval # active /\ IgnoreResult
     \/ m.kind = "async" /\ AnswerAsync(m.call, m.target)
     \/ m.kind = "sync" /\ AnswerSync(m.call)
  /\ UNCHANGED <<alive, sent, mail, casts, poisoned, made, jsNames>>

\* apply_deferred_transition: there may be no transition function, or it may raise.
Transition(p) == PutUserState(p.target, p.call) \/ UNCHANGED userState

\* Mutant of HandleResolve: a transition that raises leaves the promise unsettled.
ResolveForgets(call) ==
  /\ call \in casts
  /\ casts' = casts \ {call}
  /\ \/ \E p \in pending :
          /\ p.call = call
          /\ pending' = pending \ {p}
          /\ \/ ResolveAsync({call}) /\ PutUserState(p.target, call)
             \/ UNCHANGED <<entries, userState>>
     \/ call \notin CallsIn(pending) /\ UNCHANGED <<pending, entries, userState>>
  /\ UNCHANGED <<alive, sent, mail, monitor, active, callerDown, queue, queueSize, registry,
                 deferred, running, poisoned, made, parked, jsNames, ctxMail>>
  /\ UNCHANGED histVars

\* handle_cast resolve_callback: the transition function is applied to the live
\* state; whatever becomes of it, the promise settles.
HandleResolve(call) ==
  /\ call \in casts
  /\ casts' = casts \ {call}
  /\ \/ \E p \in pending :
          /\ p.call = call
          /\ pending' = pending \ {p}
          /\ ResolveAsync({call})
          /\ Transition(p)
     \/ call \notin CallsIn(pending) /\ UNCHANGED <<pending, entries, userState>>
  /\ UNCHANGED <<alive, sent, mail, monitor, active, callerDown, queue, queueSize, registry,
                 deferred, running, poisoned, made, parked, jsNames, ctxMail>>
  /\ UNCHANGED histVars

\* drop_or_mark_dead_sync_request: the active eval's pending callbacks are
\* rejected and its caller is marked down; a queued request is removed.
MarkActiveDown(r) ==
  IF active = r
    THEN /\ ResolveAsync(CallsIn(PendingOf(r)))
         /\ pending' = pending \ PendingOf(r)
         /\ callerDown' = TRUE
    ELSE UNCHANGED <<entries, pending, callerDown>>

\* Mutant of DropQueued: the size is decremented when nothing was dropped too.
DropMiscounts(r) ==
  /\ queueSize' = queueSize - 1
  /\ IF Entered(queue, r)
       THEN \E i \in 1..Len(queue) :
              /\ queue[i] = r
              /\ queue' = [j \in 1..(Len(queue) - 1) |-> IF j < i THEN queue[j] ELSE queue[j + 1]]
       ELSE UNCHANGED queue

DropQueued(r) ==
  IF Entered(queue, r)
    THEN \E i \in 1..Len(queue) :
           /\ queue[i] = r
           /\ queue' = [j \in 1..(Len(queue) - 1) |-> IF j < i THEN queue[j] ELSE queue[j + 1]]
           /\ queueSize' = queueSize - 1
    ELSE UNCHANGED <<queue, queueSize>>

\* handle_info DOWN: after every message the dead caller sent.
HandleDown(r) ==
  /\ monitor[r] = "down"
  /\ mail[CallerOf[r]] = <<>>
  /\ monitor' = [monitor EXCEPT ![r] = "none"]
  /\ MarkActiveDown(r)
  /\ DropQueued(r)
  /\ UNCHANGED <<alive, sent, mail, active, registry, userState, deferred, casts, running,
                 poisoned, made, parked, jsNames, ctxMail>>
  /\ UNCHANGED histVars

-----------------------------------------------------------------------------
(* The native context, as far as the Server can see it.                    *)

\* JavaScript calls a Server function: a promise is made, a message sent.
ContextCalls(target) ==
  /\ running \in Evals
  /\ parked = NoCall
  /\ made[running] < MaxCalls
  /\ target \in jsNames
  /\ LET call == <<running, made[running] + 1>> IN
     /\ made' = [made EXCEPT ![running] = @ + 1]
     /\ entries' = entries \cup {call}
     /\ ctxMail' = Append(ctxMail, [kind |-> "async", call |-> call, target |-> target])
  /\ UNCHANGED <<alive, sent, mail, monitor, deferred, casts, running, poisoned, parked, jsNames>>
  /\ UNCHANGED serverVars /\ UNCHANGED histVars

\* JavaScript imports a module (or calls a sync callback): the thread parks.
ContextParks ==
  /\ running \in Evals
  /\ parked = NoCall
  /\ made[running] < MaxCalls
  /\ LET call == <<running, made[running] + 1>> IN
     /\ made' = [made EXCEPT ![running] = @ + 1]
     /\ parked' = call
     /\ ctxMail' = Append(ctxMail, [kind |-> "sync", call |-> call])
  /\ UNCHANGED <<alive, sent, mail, monitor, deferred, casts, running, poisoned, entries, jsNames>>
  /\ UNCHANGED serverVars /\ UNCHANGED histVars

\* The command ends, with a value or an error: busy and the entries are cleared
\* and the result is sent.  Running out of memory poisons the context.
ContextFinishes ==
  /\ running # NoRequest
  /\ parked = NoCall
  /\ running \in Awaiting => entries = {}
  /\ running' = NoRequest
  /\ entries' = {}
  /\ poisoned' \in BOOLEAN /\ (poisoned => poisoned')
  /\ ctxMail' = Append(ctxMail, [kind |-> "result", eval |-> running])
  /\ UNCHANGED <<alive, sent, mail, monitor, deferred, casts, made, parked, jsNames>>
  /\ UNCHANGED serverVars /\ UNCHANGED histVars

-----------------------------------------------------------------------------
(* The callers and the tasks.                                              *)

Send(r) ==
  /\ r \in Requests \ sent
  /\ CallerOf[r] \in alive
  /\ sent' = sent \cup {r}
  /\ mail' = [mail EXCEPT ![CallerOf[r]] = Append(@, r)]
  /\ UNCHANGED <<alive, monitor, deferred, casts, ctxMail>>
  /\ UNCHANGED serverVars /\ UNCHANGED ctxVars /\ UNCHANGED histVars

CallerExits(c) ==
  /\ c \in alive
  /\ alive' = alive \ {c}
  /\ monitor' = [r \in Requests |->
                   IF CallerOf[r] = c /\ monitor[r] = "set" THEN "down" ELSE monitor[r]]
  /\ UNCHANGED <<sent, mail, deferred, casts, ctxMail>>
  /\ UNCHANGED serverVars /\ UNCHANGED ctxVars /\ UNCHANGED histVars

\* resolve/2,3 or reject/2,3 by a task that holds the reference; nothing stops
\* a task from doing it again.
TaskResolves(call) ==
  /\ call \in deferred \ casts
  /\ casts' = casts \cup {call}
  /\ UNCHANGED <<alive, sent, mail, monitor, deferred, ctxMail>>
  /\ UNCHANGED serverVars /\ UNCHANGED ctxVars /\ UNCHANGED histVars

ServerStep ==
  \/ \E c \in Callers : HandleRequest(c)
  \/ \E a \in Apis : LoadApi(a)
  \/ HandleContextMessage
  \/ \E call \in Calls : HandleResolve(call)
  \/ \E r \in Monitored : HandleDown(r)

ContextStep ==
  \/ \E target \in Targets : ContextCalls(target)
  \/ ContextParks
  \/ ContextFinishes

Next ==
  \/ ServerStep
  \/ ContextStep
  \/ \E r \in Requests : Send(r)
  \/ \E c \in Callers : CallerExits(c)
  \/ \E call \in Calls : TaskResolves(call)

Spec == Init /\ [][Next]_vars

\* The Server handles every message of its mailbox, and JavaScript that waits
\* for nothing ends (its timeout sees to that).
SystemFairness ==
  /\ \A c \in Callers : WF_vars(HandleRequest(c))
  /\ \A r \in Monitored : WF_vars(HandleDown(r))
  /\ \A call \in Calls : WF_vars(HandleResolve(call))
  /\ WF_vars(HandleContextMessage)
  /\ WF_vars(ContextFinishes)
FairSpec == Spec /\ SystemFairness

\* Every task resolves the references it holds.
TaskFairness == \A call \in Calls : WF_vars(TaskResolves(call))

-----------------------------------------------------------------------------
(* Properties.                                                             *)

\* queue_size counts the queue through every append, pop and removal, and never
\* exceeds max_queue_size.
QueueCounted == queueSize = Len(queue) /\ Len(queue) <= MaxQueueSize

\* A pending callback always belongs to the active eval: none outlives the
\* result of its eval, so a late resolve/2 finds nothing to act on.
PendingOfActive == \A p \in pending : p.call[1] = active

\* Every promise JavaScript still awaits has someone to settle it: its request
\* is in the mailbox, or its callback is pending.  No path through the Server
\* (a dead caller, an unknown function, a raising handler) forgets a promise.
NoOrphanPromise ==
  \A call \in entries :
    \/ call \in CallsIn(pending)
    \/ \E i \in 1..Len(ctxMail) : ctxMail[i].kind = "async" /\ ctxMail[i].call = call

\* The pending callbacks and the promises they stand for agree.
CallbacksKept == PendingOfActive /\ NoOrphanPromise

\* No request is answered twice, whatever the order of results, refusals, DOWN
\* messages and exits.
AtMostOneReply == \A r \in Requests : Len(replies[r]) <= 1

\* A request the Server has taken is queued, active or answered, unless its
\* caller is dead: none is forgotten.
NoRequestForgotten ==
  \A r \in sent :
    \/ \E i \in 1..Len(mail[CallerOf[r]]) : mail[CallerOf[r]][i] = r
    \/ Entered(queue, r)
    \/ active = r
    \/ replies[r] # <<>>
    \/ ~Live(r)

\* A request answered {:error, :context_busy} or :context_poisoned has not run
\* and will not: its caller may safely send it again.
RefusedNeverRuns ==
  \A r \in Requests :
    replies[r] # <<>> /\ replies[r][1] # "result" =>
      ~Entered(ran, r) /\ ~Entered(queue, r) /\ active # r

\* Each request gets one answer, the right one: none is answered twice or forgotten,
\* and a refused one never runs.
AnsweredOnce == AtMostOneReply /\ NoRequestForgotten /\ RefusedNeverRuns

\* The Server takes itself to be busy exactly as long as the context runs its
\* command or the result is on its way: a dispatch never meets a busy context
\* and the Server never waits for a result that will not come.
ActiveIsUnderWay ==
  /\ running # NoRequest => running = active
  /\ active # NoRequest =>
       \/ running = active
       \/ \E i \in 1..Len(ctxMail) : ctxMail[i].kind = "result" /\ ctxMail[i].eval = active

\* Evals run in the order the Server took them, past rejected and dropped ones.
FifoOrder ==
  \A i, j \in 1..Len(ran) : i < j =>
    \E a, b \in 1..Len(arrivals) :
      a < b /\ arrivals[a] = ran[i] /\ arrivals[b] = ran[j]

\* The Server idles only when no live request is queued.
IdleOnlyWithoutWork ==
  active = NoRequest => \A i \in 1..Len(queue) : ~Live(queue[i])

\* Work is done in the order it arrived, and without idling.
WorkConserving == FifoOrder /\ IdleOnlyWithoutWork

\* No handler and no deferred transition undoes the update of another, in any
\* order of completion; a state slice is reset only by load_api, while no eval
\* is active.
NoLostUpdate ==
  [][\A t \in Targets : \/ userState[t] \subseteq userState'[t]
                        \/ active = NoRequest /\ pending = {} /\ t \in Apis]_vars

\* Where the serial executor sees a request: it waits while it is in the queue, and
\* it is being executed from its dispatch until the Server has handled its result.
Executing(r) ==
  \/ running = r
  \/ \E i \in 1..Len(ctxMail) : ctxMail[i].kind = "result" /\ ctxMail[i].eval = r
Untaken(r) ==
  r \notin sent \/ \E i \in 1..Len(mail[CallerOf[r]]) : mail[CallerOf[r]][i] = r
Phase(r) ==
  CASE Untaken(r) -> "new"
    [] ~Untaken(r) /\ Executing(r) -> "running"
    [] ~Untaken(r) /\ ~Executing(r) /\ Entered(queue, r) -> "waiting"
    [] OTHER -> "over"
Executor == INSTANCE SerialExecutor WITH Jobs <- Requests, phase <- [r \in Requests |-> Phase(r)]

\* The Server implements the serial executor: no request starts before the Server
\* has handled the result of the one before, or starts twice.
SerialExecution == Executor!Spec

\* If every task resolves its references, every request is answered, unless its
\* caller exits.
EveryRequestAnswered ==
  TaskFairness =>
    \A r \in Requests : (r \in sent) ~> (replies[r] # <<>> \/ CallerOf[r] \notin alive)

\* Even if no task ever resolves its references, an active eval whose sync
\* caller exits comes to its end and the next one can start.
DeadCallerFreesContext ==
  \A r \in Monitored :
    (active = r /\ CallerOf[r] \notin alive) ~> (active # r)

\* docs/server.md: "Queued work from dead callers is dropped."
DeadWorkDropped ==
  \A r \in Monitored :
    (Entered(queue, r) /\ CallerOf[r] \notin alive) ~> ~Entered(queue, r)
=============================================================================
