--------------------------- MODULE ContextThread ---------------------------
(***************************************************************************)
(* The native context of src/lib/quickjs_ex/nif.zig: one OS thread that    *)
(* owns the JavaScript runtime, the command queue through which the owner  *)
(* process drives it, the slot through which the owner answers a sync      *)
(* callback or a module request, and the list of async entries that any    *)
(* process may resolve.  The NIFs and the destructor run on other threads; *)
(* each section under queue_mutex or callback_mutex is one action.         *)
(***************************************************************************)
EXTENDS Naturals, Sequences, FiniteSets

CONSTANTS
  Evals,         \* the eval commands
  Others,        \* get, set, gas, gc and register commands: they run no callback
  Procs,         \* the BEAM processes
  FirstOwner,    \* the process that called nif_new
  Heirs,         \* the processes ownership may be transferred to
  MaxPending,    \* MAX_PENDING_ASYNC_CALLBACKS
  MaxReq,        \* bound: host calls JavaScript makes over the context's life
  MaxResolutions,\* bound: resolutions queued at once
  NoCommand, NoProc

Commands == Evals \cup Others
Ids == 1..MaxReq

ASSUME CommandsAssumption ==
  /\ Evals \cap Others = {}
  /\ NoCommand \notin Commands
  /\ NoProc \notin Procs
  /\ FirstOwner \in Procs
  /\ Heirs \subseteq Procs
ASSUME BoundsAssumption == MaxPending \in Nat /\ MaxReq \in Nat /\ MaxResolutions \in Nat

VARIABLES
  alive,        \* the processes that have not exited
  owner,        \* owner_pid
  dtor,         \* the destructor: "no", "flagged" (shutting_down set), "aborted"
  queue,        \* queue_head_ptr .. queue_tail_ptr
  busy,         \* busy
  shuttingDown, \* shutting_down
  poisoned,     \* poisoned
  activeCmd,    \* active_ref_term, or NoCommand when has_active_command is false
  reqId,        \* callback_req_id
  ready,        \* the request whose result the slot holds; 0: not ready
  abort,        \* callback_abort_reason
  entries,      \* the req_ids of the async entries
  count,        \* async_entries_count
  resolutions,  \* the req_ids of the queued async resolutions
  pc,           \* where the context thread is
  cmd,          \* the command it executes
  ownerSeen,    \* the pid it read before checking that the owner is alive
  caller,       \* history: cmd.caller_pid of each command
  refused,      \* history: commands an NIF refused
  replies,      \* history: how many replies each command got
  asked,        \* history: sync and module requests sent to a caller
  handed,       \* history: async requests sent to a caller
  settled       \* history: how often the promise of each entry was settled

procVars   == <<alive, owner, dtor>>
queueVars  == <<queue, busy>>
slotVars   == <<reqId, ready>>
asyncVars  == <<entries, count, resolutions>>
threadVars == <<pc, cmd, ownerSeen>>
histVars   == <<caller, refused, replies, asked, handed, settled>>
vars == <<alive, owner, dtor, queue, busy, shuttingDown, poisoned, activeCmd, reqId, ready,
          abort, entries, count, resolutions, pc, cmd, ownerSeen, caller, refused, replies,
          asked, handed, settled>>

\* dequeue: in dequeue_command; polled: there, with the mutex released; native:
\* executing a command that runs no callback; js: running JavaScript; post, wait:
\* in callback_dispatch_fn or module_loader_fn, before the message and in the wait
\* loop; postAsync: in async_dispatch_fn before the message; external, extwait: in
\* wait_for_external_resolution, before and in the wait loop; complete, send,
\* cleanup: in send_reply and after; check: at should_stop; drain, ended.
Places == {"dequeue", "polled", "native", "js", "post", "wait", "postAsync", "external",
           "extwait", "complete", "send", "cleanup", "check", "drain", "ended"}
InEval == {"js", "post", "wait", "postAsync", "external", "extwait"}

\* The types of the thread's, the queue's and the slot's fields, and of the history.
TypeOK ==
  /\ alive \subseteq Procs
  /\ owner \in Procs
  /\ dtor \in {"no", "flagged", "aborted"}
  /\ queue \in Seq(Commands)
  /\ busy \in BOOLEAN
  /\ shuttingDown \in BOOLEAN
  /\ poisoned \in BOOLEAN
  /\ activeCmd \in Evals \cup {NoCommand}
  /\ reqId \in 0..MaxReq
  /\ ready \in 0..MaxReq
  /\ abort \in {"none", "shutdown", "owner_down"}
  /\ entries \subseteq Ids
  /\ count \in Nat
  /\ resolutions \in Seq(Ids)
  /\ pc \in Places
  /\ cmd \in Commands \cup {NoCommand}
  /\ ownerSeen \in Procs \cup {NoProc}
  /\ caller \in [Commands -> Procs \cup {NoProc}]
  /\ refused \subseteq Commands
  /\ replies \in [Commands -> Nat]
  /\ asked \subseteq Evals \X Ids
  /\ handed \subseteq Evals \X Ids
  /\ settled \in [Ids -> Nat]

\* nif_new: the thread is up and waits for commands.
Init ==
  /\ alive = Procs
  /\ owner = FirstOwner
  /\ dtor = "no"
  /\ queue = <<>>
  /\ busy = FALSE
  /\ shuttingDown = FALSE
  /\ poisoned = FALSE
  /\ activeCmd = NoCommand
  /\ reqId = 0
  /\ ready = 0
  /\ abort = "none"
  /\ entries = {}
  /\ count = 0
  /\ resolutions = <<>>
  /\ pc = "dequeue"
  /\ cmd = NoCommand
  /\ ownerSeen = NoProc
  /\ caller = [c \in Commands |-> NoProc]
  /\ refused = {}
  /\ replies = [c \in Commands |-> 0]
  /\ asked = {}
  /\ handed = {}
  /\ settled = [i \in Ids |-> 0]

-----------------------------------------------------------------------------
(* The NIFs, the destructor and the processes.                             *)

Submitted(c) == caller[c] # NoProc \/ c \in refused

\* Mutant of Enqueue: busy is not checked.
EnqueueUnchecked(c) ==
  /\ owner \in alive /\ dtor = "no"
  /\ ~Submitted(c)
  /\ IF poisoned \/ shuttingDown
       THEN /\ refused' = refused \cup {c}
            /\ UNCHANGED <<queueVars, caller>>
       ELSE /\ busy' = TRUE
            /\ queue' = Append(queue, c)
            /\ caller' = [caller EXCEPT ![c] = owner]
            /\ UNCHANGED refused
  /\ UNCHANGED <<procVars, shuttingDown, poisoned, activeCmd, slotVars, abort, asyncVars,
                 threadVars, replies, asked, handed, settled>>

\* enqueue_checked, after the same checks of command_context_or_error (what they
\* read only ever becomes true, and the owner cannot change while it calls).
Enqueue(c) ==
  /\ owner \in alive /\ dtor = "no"
  /\ ~Submitted(c)
  /\ IF poisoned \/ shuttingDown \/ busy
       THEN /\ refused' = refused \cup {c}
            /\ UNCHANGED <<queueVars, caller>>
       ELSE /\ busy' = TRUE
            /\ queue' = Append(queue, c)
            /\ caller' = [caller EXCEPT ![c] = owner]
            /\ UNCHANGED refused
  /\ UNCHANGED <<procVars, shuttingDown, poisoned, activeCmd, slotVars, abort, asyncVars,
                 threadVars, replies, asked, handed, settled>>

\* The stale checks that the three NIFs share.
Current(c) == activeCmd = c /\ abort = "none" /\ ~shuttingDown

\* Mutant of Signal: the request id is not compared.
SignalAnyRequest(c, id) ==
  /\ <<c, id>> \in asked
  /\ caller[c] \in alive /\ dtor = "no"
  /\ caller[c] = owner
  /\ Current(c)
  /\ ready' = id
  /\ UNCHANGED <<procVars, queueVars, shuttingDown, poisoned, activeCmd, reqId, abort,
                 asyncVars, threadVars, histVars>>

\* nif_signal_callback_result and nif_signal_module_result: called by the process
\* the request was sent to, which must be the owner.
Signal(c, id) ==
  /\ <<c, id>> \in asked
  /\ caller[c] \in alive /\ dtor = "no"
  /\ caller[c] = owner
  /\ Current(c)
  /\ reqId = id
  /\ ready' = id
  /\ UNCHANGED <<procVars, queueVars, shuttingDown, poisoned, activeCmd, reqId, abort,
                 asyncVars, threadVars, histVars>>

\* nif_resolve_async: by any process, any number of times.
Resolve(c, id) ==
  /\ <<c, id>> \in handed
  /\ dtor = "no"
  /\ Current(c)
  /\ id \in entries
  /\ Len(resolutions) < MaxResolutions
  /\ resolutions' = Append(resolutions, id)
  /\ UNCHANGED <<procVars, queueVars, shuttingDown, poisoned, activeCmd, slotVars, abort,
                 entries, count, threadVars, histVars>>

\* nif_transfer_owner.
Transfer(p) ==
  /\ owner \in alive /\ dtor = "no"
  /\ owner' = p
  /\ UNCHANGED <<alive, dtor, queueVars, shuttingDown, poisoned, activeCmd, slotVars, abort,
                 asyncVars, threadVars, histVars>>

Exit(p) ==
  /\ p \in alive
  /\ alive' = alive \ {p}
  /\ UNCHANGED <<owner, dtor, queueVars, shuttingDown, poisoned, activeCmd, slotVars, abort,
                 asyncVars, threadVars, histVars>>

\* dtor, when no process refers to the context any more: shutdown_context_thread
\* sets the flag under queue_mutex, then the abort reason under callback_mutex.
\* A living process that waits for a reply still refers to its context: the await
\* loops use it when the reply has come.
Destroy ==
  /\ dtor = "no"
  /\ \A c \in Commands : caller[c] \in alive => replies[c] # 0
  /\ dtor' = "flagged"
  /\ shuttingDown' = TRUE
  /\ UNCHANGED <<alive, owner, queueVars, poisoned, activeCmd, slotVars, abort, asyncVars,
                 threadVars, histVars>>

SetAbort(reason) == abort' = reason /\ ready' = 0

DestroyAborts ==
  /\ dtor = "flagged"
  /\ dtor' = "aborted"
  /\ SetAbort("shutdown")
  /\ UNCHANGED <<alive, owner, queueVars, shuttingDown, poisoned, activeCmd, reqId, asyncVars,
                 threadVars, histVars>>

-----------------------------------------------------------------------------
(* The context thread: dequeue_command and the main loop.                  *)

Goto(place) == pc' = place /\ UNCHANGED <<cmd, ownerSeen>>

\* Mutant of Dequeue: set_active_command for any command.
DequeueActivatesAny ==
  /\ pc = "dequeue"
  /\ queue # <<>>
  /\ cmd' = Head(queue)
  /\ queue' = Tail(queue)
  /\ pc' = IF Head(queue) \in Evals THEN "js" ELSE "native"
  /\ activeCmd' = Head(queue)
  /\ UNCHANGED <<procVars, busy, shuttingDown, poisoned, slotVars, abort, asyncVars, ownerSeen,
                 histVars>>

\* A command found in the queue is executed even when the context is shutting down.
\* set_active_command for an eval.
Dequeue ==
  /\ pc = "dequeue"
  /\ queue # <<>>
  /\ cmd' = Head(queue)
  /\ queue' = Tail(queue)
  /\ IF Head(queue) \in Evals
       THEN pc' = "js" /\ activeCmd' = Head(queue)
       ELSE pc' = "native" /\ UNCHANGED activeCmd
  /\ UNCHANGED <<procVars, busy, shuttingDown, poisoned, slotVars, abort, asyncVars, ownerSeen,
                 histVars>>

\* Mutant of StopWaiting: the destructor's flag alone does not end the wait.
StopOnlyWithoutOwner ==
  /\ pc = "dequeue"
  /\ queue = <<>>
  /\ shuttingDown /\ owner \notin alive
  /\ Goto("drain")
  /\ UNCHANGED <<procVars, queueVars, shuttingDown, poisoned, activeCmd, slotVars, abort,
                 asyncVars, histVars>>

StopWaiting ==
  /\ pc = "dequeue"
  /\ queue = <<>>
  /\ shuttingDown
  /\ Goto("drain")
  /\ UNCHANGED <<procVars, queueVars, shuttingDown, poisoned, activeCmd, slotVars, abort,
                 asyncVars, histVars>>

\* The 100 ms timeout of the queue wait: owner_pid is read with the mutex
\* released, then the process is checked, then the flag is set.
ReadOwner ==
  /\ pc = "dequeue"
  /\ queue = <<>>
  /\ ~shuttingDown
  /\ pc' = "polled"
  /\ ownerSeen' = owner
  /\ UNCHANGED <<procVars, queueVars, shuttingDown, poisoned, activeCmd, slotVars, abort,
                 asyncVars, cmd, histVars>>

\* Mutants of CheckOwner: any timeout shuts down, or none does.
TimeoutShutsDown ==
  /\ pc = "polled"
  /\ pc' = "dequeue"
  /\ ownerSeen' = NoProc
  /\ shuttingDown' = TRUE
  /\ UNCHANGED <<procVars, queueVars, poisoned, activeCmd, slotVars, abort, asyncVars, cmd,
                 histVars>>

OwnerNotChecked ==
  /\ pc = "polled"
  /\ pc' = "dequeue"
  /\ ownerSeen' = NoProc
  /\ UNCHANGED <<procVars, queueVars, shuttingDown, poisoned, activeCmd, slotVars, abort,
                 asyncVars, cmd, histVars>>

CheckOwner ==
  /\ pc = "polled"
  /\ pc' = "dequeue"
  /\ ownerSeen' = NoProc
  /\ shuttingDown' = (shuttingDown \/ ownerSeen \notin alive)
  /\ UNCHANGED <<procVars, queueVars, poisoned, activeCmd, slotVars, abort, asyncVars, cmd,
                 histVars>>

\* Mutant of RunNative: an early return without a reply.
RunNativeSilently ==
  /\ pc = "native"
  /\ Goto("check")
  /\ UNCHANGED <<procVars, queueVars, shuttingDown, poisoned, activeCmd, slotVars, abort,
                 asyncVars, histVars>>

\* execute_get, execute_set_value and the others: an error may poison the context.
RunNative ==
  /\ pc = "native"
  /\ Goto("complete")
  /\ poisoned' \in {poisoned, TRUE}
  /\ UNCHANGED <<procVars, queueVars, shuttingDown, activeCmd, slotVars, abort, asyncVars,
                 histVars>>

\* send_reply: mark_command_complete, and only then enif_send.
Complete ==
  /\ pc = "complete"
  /\ activeCmd' = NoCommand
  /\ busy' = FALSE
  /\ Goto("send")
  /\ UNCHANGED <<procVars, queue, shuttingDown, poisoned, slotVars, abort, asyncVars, histVars>>

SendReply ==
  /\ pc = "send"
  /\ replies' = [replies EXCEPT ![cmd] = @ + 1]
  /\ Goto(IF cmd \in Evals THEN "cleanup" ELSE "check")
  /\ UNCHANGED <<procVars, queueVars, shuttingDown, poisoned, activeCmd, slotVars, abort,
                 asyncVars, caller, refused, asked, handed, settled>>

\* Mutant of Cleanup: the resolutions are not cleared.
CleanupEntriesOnly ==
  /\ pc = "cleanup"
  /\ entries' = {}
  /\ count' = 0
  /\ Goto("check")
  /\ UNCHANGED <<procVars, queueVars, shuttingDown, poisoned, activeCmd, slotVars, abort,
                 resolutions, histVars>>

\* The deferred calls of execute_eval: clear_async_entries, clear_async_resolutions.
Cleanup ==
  /\ pc = "cleanup"
  /\ entries' = {}
  /\ count' = 0
  /\ resolutions' = <<>>
  /\ Goto("check")
  /\ UNCHANGED <<procVars, queueVars, shuttingDown, poisoned, activeCmd, slotVars, abort, histVars>>

ShouldStop ==
  /\ pc = "check"
  /\ pc' = IF shuttingDown THEN "drain" ELSE "dequeue"
  /\ cmd' = NoCommand
  /\ UNCHANGED <<procVars, queueVars, shuttingDown, poisoned, activeCmd, slotVars, abort,
                 asyncVars, ownerSeen, histVars>>

\* drain_command_queue: each command still queued is answered {:error, :poisoned};
\* mark_command_complete clears busy for it.
Drain ==
  /\ pc = "drain"
  /\ replies' = [c \in Commands |->
                   IF \E i \in 1..Len(queue) : queue[i] = c THEN replies[c] + 1 ELSE replies[c]]
  /\ busy' = (busy /\ queue = <<>>)
  /\ queue' = <<>>
  /\ Goto("ended")
  /\ UNCHANGED <<procVars, shuttingDown, poisoned, activeCmd, slotVars, abort, asyncVars, caller,
                 refused, asked, handed, settled>>

-----------------------------------------------------------------------------
(* execute_eval: JavaScript, its host calls and its end.                   *)

CallerAlive == caller[cmd] \in alive

\* request_context_shutdown, called by the context thread.  Its two sections are
\* one step here: from the first one on, shutting_down makes the NIFs refuse all
\* that the abort reason would.
ShutDown(reason) == shuttingDown' = TRUE /\ SetAbort(reason)

\* process_is_alive fails at the start of a host call: the call throws.
CallerLost ==
  /\ pc = "js"
  /\ ~poisoned
  /\ ~CallerAlive
  /\ ShutDown("owner_down")
  /\ UNCHANGED <<procVars, queueVars, poisoned, activeCmd, reqId, asyncVars, threadVars, histVars>>

\* callback_dispatch_fn and module_loader_fn: the slot is reset for a new request.
SyncCall ==
  /\ pc = "js"
  /\ ~poisoned
  /\ CallerAlive
  /\ reqId < MaxReq
  /\ reqId' = reqId + 1
  /\ ready' = 0
  /\ abort' = "none"
  /\ Goto("post")
  /\ UNCHANGED <<procVars, queueVars, shuttingDown, poisoned, activeCmd, asyncVars, histVars>>

\* enif_send of the request.  If the caller has exited since it was checked, a
\* callback poisons the context and a module request shuts it down.
PostSync ==
  /\ pc = "post"
  /\ IF CallerAlive
       THEN /\ asked' = asked \cup {<<cmd, reqId>>}
            /\ Goto("wait")
            /\ UNCHANGED <<poisoned, shuttingDown, ready, abort>>
       ELSE /\ Goto("js")
            /\ \/ poisoned' = TRUE /\ UNCHANGED <<shuttingDown, ready, abort>>
               \/ ShutDown("owner_down") /\ UNCHANGED poisoned
            /\ UNCHANGED asked
  /\ UNCHANGED <<procVars, queueVars, activeCmd, reqId, asyncVars, caller, refused, replies,
                 handed, settled>>

\* The wait loop ends: an abort makes the call throw, a result is consumed.
WaitEnds ==
  /\ pc = "wait"
  /\ abort # "none" \/ ready # 0
  /\ ready' = IF abort # "none" THEN ready ELSE 0
  /\ Goto("js")
  /\ UNCHANGED <<procVars, queueVars, shuttingDown, poisoned, activeCmd, reqId, abort, asyncVars,
                 histVars>>

\* Mutant of PollCaller: the caller is not checked.
PollShutdownOnly ==
  /\ shuttingDown /\ SetAbort("shutdown")
  /\ UNCHANGED <<procVars, queueVars, shuttingDown, poisoned, activeCmd, reqId, asyncVars,
                 threadVars, histVars>>

\* The 100 ms timeout of the wait loops: what arrived just before the mutex was
\* taken again does not keep the loop from looking at the caller.
PollCaller ==
  /\ \/ ~CallerAlive /\ ShutDown("owner_down")
     \/ CallerAlive /\ shuttingDown /\ SetAbort("shutdown") /\ UNCHANGED shuttingDown
  /\ UNCHANGED <<procVars, queueVars, poisoned, activeCmd, reqId, asyncVars, threadVars, histVars>>

WaitTimesOut == pc = "wait" /\ PollCaller

\* async_dispatch_fn: an entry is inserted unless the context is stopping or the
\* limit is reached (then the call throws or its promise is rejected).
AsyncCall ==
  /\ pc = "js"
  /\ ~poisoned
  /\ CallerAlive
  /\ abort = "none" /\ ~shuttingDown
  /\ count < MaxPending
  /\ reqId < MaxReq
  /\ reqId' = reqId + 1
  /\ entries' = entries \cup {reqId + 1}
  /\ count' = count + 1
  /\ Goto("postAsync")
  /\ UNCHANGED <<procVars, queueVars, shuttingDown, poisoned, activeCmd, ready, abort,
                 resolutions, histVars>>

\* remove_async_entry
RemoveEntry(id) ==
  IF id \in entries
    THEN entries' = entries \ {id} /\ count' = count - 1
    ELSE UNCHANGED <<entries, count>>

PostAsync ==
  /\ pc = "postAsync"
  /\ Goto("js")
  /\ IF CallerAlive
       THEN /\ handed' = handed \cup {<<cmd, reqId>>}
            /\ UNCHANGED <<entries, count, shuttingDown, ready, abort>>
       ELSE /\ RemoveEntry(reqId)
            /\ ShutDown("owner_down")
            /\ UNCHANGED handed
  /\ UNCHANGED <<procVars, queueVars, poisoned, activeCmd, reqId, resolutions, caller, refused,
                 replies, asked, settled>>

\* settle_root_promise: the root promise is pending, no job is left.
AwaitPromise ==
  /\ pc = "js"
  /\ count > 0
  /\ Goto("external")
  /\ UNCHANGED <<procVars, queueVars, shuttingDown, poisoned, activeCmd, slotVars, abort,
                 asyncVars, histVars>>

\* pop_async_resolution and apply_async_resolution: the promise of an entry that
\* is still there is settled, a resolution without an entry is dropped.
ApplyResolution ==
  /\ resolutions # <<>>
  /\ resolutions' = Tail(resolutions)
  /\ RemoveEntry(Head(resolutions))
  /\ settled' = IF Head(resolutions) \in entries
                  THEN [settled EXCEPT ![Head(resolutions)] = @ + 1] ELSE settled
  /\ Goto("js")
  /\ UNCHANGED <<procVars, queueVars, shuttingDown, poisoned, activeCmd, slotVars, abort, caller,
                 refused, replies, asked, handed>>

\* wait_for_external_resolution first looks for a resolution, then waits.
TakeResolution == pc = "external" /\ ApplyResolution

WaitExternal ==
  /\ pc = "external"
  /\ resolutions = <<>>
  /\ Goto("extwait")
  /\ UNCHANGED <<procVars, queueVars, shuttingDown, poisoned, activeCmd, slotVars, abort,
                 asyncVars, histVars>>

ExternalArrives ==
  /\ pc = "extwait"
  /\ abort = "none" /\ ~shuttingDown
  /\ ApplyResolution

\* The wait is aborted (the eval ends with an exception), or there is nothing to
\* wait for (the eval ends as unsettled).
ExternalGivesUp ==
  /\ pc = "extwait"
  /\ abort # "none" \/ shuttingDown \/ (entries = {} /\ resolutions = <<>>)
  /\ Goto("complete")
  /\ UNCHANGED <<procVars, queueVars, shuttingDown, poisoned, activeCmd, slotVars, abort,
                 asyncVars, histVars>>

ExternalTimesOut == pc = "extwait" /\ PollCaller

\* interrupt_handler finds the owner dead: it stops the context and the script.
InterruptOwnerDead ==
  /\ pc \in {"js", "native"}
  /\ owner \notin alive
  /\ ShutDown("owner_down")
  /\ poisoned' \in {poisoned, TRUE}
  /\ Goto("complete")
  /\ UNCHANGED <<procVars, queueVars, activeCmd, reqId, asyncVars, histVars>>

\* The script ends: with a value, an exception, an interrupt (shutting down or
\* past its deadline), or out of memory, which poisons the context.
EndEval ==
  /\ pc = "js"
  /\ Goto("complete")
  /\ poisoned' \in {poisoned, TRUE}
  /\ UNCHANGED <<procVars, queueVars, shuttingDown, activeCmd, slotVars, abort, asyncVars, histVars>>

-----------------------------------------------------------------------------
NifStep ==
  \/ \E c \in Commands : Enqueue(c)
  \/ \E c \in Evals, id \in Ids : Signal(c, id)
  \/ \E c \in Evals, id \in Ids : Resolve(c, id)
  \/ \E p \in Heirs : Transfer(p)
  \/ Destroy
  \/ DestroyAborts

ThreadStep ==
  \/ Dequeue \/ StopWaiting \/ ReadOwner \/ CheckOwner \/ RunNative
  \/ Complete \/ SendReply \/ Cleanup \/ ShouldStop \/ Drain
  \/ CallerLost \/ SyncCall \/ PostSync \/ WaitEnds \/ WaitTimesOut
  \/ AsyncCall \/ PostAsync \/ AwaitPromise \/ TakeResolution \/ WaitExternal
  \/ ExternalArrives \/ ExternalGivesUp \/ ExternalTimesOut
  \/ InterruptOwnerDead \/ EndEval

Next == NifStep \/ ThreadStep \/ \E p \in Procs : Exit(p)

Spec == Init /\ [][Next]_vars

\* The thread is scheduled, JavaScript that waits for nothing ends, and the
\* destructor, once started, goes on.
FairSpec ==
  /\ Spec
  /\ WF_vars(ThreadStep)
  /\ WF_vars(EndEval)
  /\ WF_vars(DestroyAborts)

\* Callers answer what they are asked and tasks resolve what they hold.
AnswerFairness == \A c \in Evals, id \in Ids : WF_vars(Signal(c, id)) /\ WF_vars(Resolve(c, id))

-----------------------------------------------------------------------------
(* Properties.                                                             *)

Unfinished == IF cmd # NoCommand /\ pc \notin {"send", "cleanup", "check"} THEN 1 ELSE 0

\* busy is set exactly while one command is queued or executed and its reply not
\* yet under way: the NIFs never let a second command in, nor shut the context
\* off after the last one.
OneCommand == Len(queue) + Unfinished = IF busy THEN 1 ELSE 0

Accepted(c) == caller[c] # NoProc
Queued(c)   == \E i \in 1..Len(queue) : queue[i] = c
InHand(c)   == cmd = c /\ pc \notin {"cleanup", "check"}

\* A command that an NIF accepted is queued, being executed or answered, whatever
\* moment the context is shut down at; it is answered once, and none is still in
\* the queue when the thread has ended.
NothingLost ==
  /\ \A c \in Commands :
       replies[c] + (IF InHand(c) THEN 1 ELSE 0) + (IF Queued(c) THEN 1 ELSE 0)
         = IF Accepted(c) THEN 1 ELSE 0
  /\ pc = "ended" => queue = <<>>

WaitingRequest == <<cmd, reqId>>

\* The result that wakes a sync callback or module request is the answer to that
\* very request: never a late or repeated answer to an earlier one.
RightResult ==
  pc = "wait" =>
    /\ WaitingRequest \in asked
    /\ ready \in {0, reqId}
    /\ abort # "none" => ready = 0

\* A promise handed to JavaScript is settled at most once, though anyone may
\* resolve it any number of times.
SettledAtMostOnce ==
  \A id \in Ids : settled[id] + (IF id \in entries THEN 1 ELSE 0) <= 1

\* The counter that enforces the limit agrees with the list it counts.
CountsEntries == count = Cardinality(entries) /\ count <= MaxPending

\* Entries, resolutions and the active command belong to one eval: between two
\* commands nothing of the last one is left for the next to find.
CleanSlate ==
  /\ pc \notin InEval \cup {"complete", "send", "cleanup"} =>
       entries = {} /\ count = 0 /\ resolutions = <<>>
  /\ activeCmd = IF pc \in InEval \/ (pc = "complete" /\ cmd \in Evals)
                   THEN cmd ELSE NoCommand

\* The abort reason is only ever set once the context is shutting down, so that
\* an abort is never mistaken for the end of one call.
AbortMeansShutdown == abort # "none" => shuttingDown

\* As long as it is the process that created the context that owns it, the context
\* is shut down only by its destructor or because that owner has exited.
ShutdownHasCause ==
  owner = FirstOwner /\ shuttingDown => dtor # "no" \/ owner \notin alive

\* A command in the queue or in hand is the only one, it is neither dropped nor
\* answered twice, through shutdown and drain.
CommandsKept == OneCommand /\ NothingLost

\* Entries are settled at most once, counted right and never inherited by the next eval.
EntriesSound == SettledAtMostOnce /\ CountsEntries /\ CleanSlate

\* Where the serial executor sees a command.
CommandPhase(c) ==
  CASE replies[c] > 0 \/ c \in refused -> "over"
    [] ~(replies[c] > 0 \/ c \in refused) /\ cmd = c -> "running"
    [] ~(replies[c] > 0 \/ c \in refused) /\ cmd # c /\ Queued(c) -> "waiting"
    [] OTHER -> "new"
Executor == INSTANCE SerialExecutor
              WITH Jobs <- Commands, phase <- [c \in Commands |-> CommandPhase(c)]

\* The thread implements the serial executor: one command at a time, none twice.
SerialExecution == Executor!Spec

\* Nobody took the context over.
NeverMoved == [](owner = FirstOwner)

\* Every accepted command is answered, if callers and tasks answer.  After a transfer
\* the answer of the process that was asked is refused with :not_owner.
AcceptedAnswered ==
  AnswerFairness /\ NeverMoved => \A c \in Commands : Accepted(c) ~> (replies[c] = 1)

\* README.md: "owner death stops the context thread".  Whatever the thread is
\* waiting for, and though nobody answers it any more.
OwnerDeathStops == (owner \notin alive) ~> (pc = "ended")

\* It does as long as the context has not been handed over.
FirstOwnerDeathStops == NeverMoved => OwnerDeathStops

\* The destructor joins the thread: the join returns, whatever was handed over.
DestroyReturns == (dtor # "no") ~> (pc = "ended")
=============================================================================
