------------------------------- MODULE DirectApi -------------------------------
(***************************************************************************)
(* A process that uses contexts directly (quickjs_ex.ex): each call sends  *)
(* a command to the thread of a context and waits in a receive loop, which *)
(* also serves the host calls of the JavaScript.  A host function may call *)
(* the API again, also for another context: the loops nest, and all of     *)
(* them take their messages from the one mailbox of the process.           *)
(*                                                                         *)
(* The threads are those of ContextThread, reduced to what this process    *)
(* sees of them.  The functions a Context struct holds are left out: a     *)
(* host call is answered whether its function is found, returns or raises. *)
(***************************************************************************)
EXTENDS Naturals, Sequences, FiniteSets, FiniteSetsExt, SequencesExt

CONSTANTS
  Contexts,
  MaxCalls,     \* bound on the commands of the process
  MaxRequests   \* bound on the host calls of one eval

BoundsAssumption == MaxCalls \in Nat /\ MaxRequests \in Nat

VARIABLES
  thread,    \* what the thread of each context does: [state, ref, asked, pending, poisoned]
  frames,    \* the calls the process is in, innermost last: [ctx, ref, serving]
  mailbox,   \* messages of the threads: [kind, ref, id, out]
  tasks,     \* the running tasks of async callbacks: [ctx, ref, id]
  marked,    \* contexts with a poisoned_ref in the process dictionary
  refs,      \* number of request_refs made
  sent,      \* history: the result of each request
  got,       \* history: what its call returned
  killed     \* history: tasks that were killed
vars == <<thread, frames, mailbox, tasks, marked, refs, sent, got, killed>>

\* An error is a result like others, unless it poisons the context.
Results == {"ok", "oom"}
Top == frames[Len(frames)]
\* Code of the user runs in the process: outside of any call, or in a host function.
Runs == frames # <<>> => Top.serving # 0
Post(kind, ref, id, out) ==
  mailbox' = Append(mailbox, [kind |-> kind, ref |-> ref, id |-> id, out |-> out])
----------------------------------------------------------------------------
(* The process. *)

\* eval, get, set, gc, gas: refused here, refused by the NIF, or sent to the thread.
Call(c) ==
  /\ Runs /\ c \notin marked
  /\ \/ thread[c].poisoned
        /\ marked' = marked \union {c}          \* track_poisoned_error
        /\ UNCHANGED <<thread, frames, refs>>
     \/ ~thread[c].poisoned /\ thread[c].state = "idle" /\ refs < MaxCalls
        /\ refs' = refs + 1
        /\ thread' = [thread EXCEPT ![c] =
             [thread[c] EXCEPT !.state = "running", !.ref = refs + 1, !.asked = 0]]
        /\ frames' = Append(frames, [ctx |-> c, ref |-> refs + 1, serving |-> 0])
        /\ UNCHANGED marked
  /\ UNCHANGED <<mailbox, tasks, sent, got, killed>>

\* await_nif_result takes the first message of its own request.
MessagesOf(f) == {i \in DOMAIN mailbox : mailbox[i].ref = f.ref}
\* Mutant of Mine: a result is taken before the requests that came earlier.
ResultFirst(f) ==
  LET results == {i \in MessagesOf(f) : mailbox[i].kind = "result"} IN
  IF MessagesOf(f) = {} THEN {} ELSE IF results # {} THEN results ELSE {Min(MessagesOf(f))}
Mine(f) == IF MessagesOf(f) = {} THEN {} ELSE {Min(MessagesOf(f))}
Take(i) == mailbox' = RemoveAt(mailbox, i)
SetTop(f) == frames' = [frames EXCEPT ![Len(frames)] = f]

ReceiveResult(i) ==
  /\ mailbox[i].kind = "result"
  /\ frames' = Front(frames)
  /\ got' = [got EXCEPT ![Top.ref] = mailbox[i].out]
  /\ marked' = IF mailbox[i].out = "oom" THEN marked \union {Top.ctx} ELSE marked
  /\ UNCHANGED tasks
ReceiveCallback(i) ==
  /\ mailbox[i].kind = "callback"
  /\ SetTop([Top EXCEPT !.serving = mailbox[i].id])
  /\ UNCHANGED <<got, marked, tasks>>
ReceiveAsync(i) ==
  /\ mailbox[i].kind = "async"
  /\ tasks' = tasks \union {[ctx |-> Top.ctx, ref |-> Top.ref, id |-> mailbox[i].id]}
  /\ UNCHANGED <<got, marked, frames>>
Receive ==
  /\ ~Runs
  /\ \E i \in Mine(Top) :
       /\ Take(i)
       /\ ReceiveResult(i) \/ ReceiveCallback(i) \/ ReceiveAsync(i)
  /\ UNCHANGED <<thread, refs, sent, killed>>

\* The host function or the module loader returns or raises: its request is answered
\* (nif_signal_callback_result, nif_signal_module_result).
Signal ==
  /\ frames # <<>> /\ Top.serving # 0
  /\ LET t == thread[Top.ctx] IN
     thread' = IF t.state = "waiting" /\ t.ref = Top.ref /\ t.asked = Top.serving
               THEN [thread EXCEPT ![Top.ctx].state = "running"] ELSE thread
  /\ SetTop([Top EXCEPT !.serving = 0])
  /\ UNCHANGED <<mailbox, tasks, marked, refs, sent, got, killed>>

\* The function of an async callback returns or raises in its task, which answers
\* (nif_resolve_async); the answer may come after the eval.
Resolve(t) ==
  LET c == t.ctx IN
  /\ tasks' = tasks \ {t}
  /\ thread' = IF thread[c].ref = t.ref /\ t.id \in thread[c].pending
               THEN [thread EXCEPT ![c] = [thread[c] EXCEPT !.pending = @ \ {t.id},
                      !.state = IF @ = "awaiting" THEN "running" ELSE @]]
               ELSE thread
  /\ UNCHANGED <<frames, mailbox, marked, refs, sent, got, killed>>
\* Task.start monitors nothing: a task that is killed never answers.
Kill(t) ==
  /\ tasks' = tasks \ {t} /\ killed' = killed \union {t}
  /\ UNCHANGED <<thread, frames, mailbox, marked, refs, sent, got>>
----------------------------------------------------------------------------
(* The threads. *)

\* callback_dispatch_fn and module_loader_fn: the thread waits for the answer.
AskSync(c) ==
  /\ thread[c].state = "running" /\ thread[c].asked < MaxRequests
  /\ thread' = [thread EXCEPT ![c] = [thread[c] EXCEPT !.state = "waiting", !.asked = @ + 1]]
  /\ Post("callback", thread[c].ref, thread[c].asked + 1, "ok")
  /\ UNCHANGED <<frames, tasks, marked, refs, sent, got, killed>>
\* async_dispatch_fn
AskAsync(c) ==
  /\ thread[c].state = "running" /\ thread[c].asked < MaxRequests
  /\ thread' = [thread EXCEPT ![c] =
       [thread[c] EXCEPT !.asked = @ + 1, !.pending = @ \union {thread[c].asked + 1}]]
  /\ Post("async", thread[c].ref, thread[c].asked + 1, "ok")
  /\ UNCHANGED <<frames, tasks, marked, refs, sent, got, killed>>
\* settle_root_promise
Await(c) ==
  /\ thread[c].state = "running" /\ thread[c].pending # {}
  /\ thread' = [thread EXCEPT ![c].state = "awaiting"]
  /\ UNCHANGED <<frames, mailbox, tasks, marked, refs, sent, got, killed>>
\* The command ends, with what it still awaited or at its deadline also.
Finish(c, out) ==
  /\ thread[c].state \in {"running", "awaiting"}
  /\ thread' = [thread EXCEPT ![c] =
       [thread[c] EXCEPT !.state = "idle", !.pending = {}, !.poisoned = @ \/ out = "oom"]]
  /\ Post("result", thread[c].ref, 0, out)
  /\ sent' = [sent EXCEPT ![thread[c].ref] = out]
  /\ UNCHANGED <<frames, tasks, marked, refs, got, killed>>

Init ==
  /\ thread = [c \in Contexts |->
       [state |-> "idle", ref |-> 0, asked |-> 0, pending |-> {}, poisoned |-> FALSE]]
  /\ frames = <<>> /\ mailbox = <<>> /\ tasks = {} /\ marked = {} /\ refs = 0
  /\ sent = [r \in 1..MaxCalls |-> "none"] /\ got = [r \in 1..MaxCalls |-> "none"]
  /\ killed = {}
Next ==
  \/ \E c \in Contexts : \/ Call(c) \/ AskSync(c) \/ AskAsync(c) \/ Await(c)
                         \/ \E out \in Results : Finish(c, out)
  \/ Receive \/ Signal
  \/ \E t \in tasks : Resolve(t) \/ Kill(t)
Spec == Init /\ [][Next]_vars
----------------------------------------------------------------------------
TypeOK ==
  /\ \A c \in Contexts : thread[c].state \in {"idle", "running", "waiting", "awaiting"}
  /\ marked \subseteq Contexts /\ refs \in 0..MaxCalls
  /\ \A i \in DOMAIN frames : frames[i].ctx \in Contexts /\ frames[i].ref \in 1..refs
  /\ \A i \in DOMAIN mailbox : mailbox[i].ref \in 1..refs

Messages(kind, ref, id) ==
  Cardinality({i \in DOMAIN mailbox : mailbox[i].kind = kind /\ mailbox[i].ref = ref /\ mailbox[i].id = id})
Servers(ref, id) == Cardinality({i \in DOMAIN frames : frames[i].ref = ref /\ frames[i].serving = id})
\* A call that waits is waited for: its command runs, or its result is in the mailbox.
CallsAreServed ==
  \A i, j \in DOMAIN frames : LET f == frames[i] IN
    /\ i # j => f.ctx # frames[j].ctx
    /\ i < Len(frames) => f.serving # 0
    /\ thread[f.ctx].ref = f.ref
    /\ thread[f.ctx].state = "idle" <=> Messages("result", f.ref, 0) = 1
\* Each host call is in the mailbox, with the loop of its own eval or with a task, and in
\* one place only.
HostCallsAreServed ==
  \A c \in Contexts : LET t == thread[c] IN
    /\ t.state = "waiting" => Messages("callback", t.ref, t.asked) + Servers(t.ref, t.asked) = 1
    /\ \A id \in t.pending : LET k == [ctx |-> c, ref |-> t.ref, id |-> id] IN
         Messages("async", t.ref, id) + Cardinality({k} \intersect tasks)
           + Cardinality({k} \intersect killed) = 1
\* When a call has returned nothing of it is left in the mailbox, and it returned its result.
NothingLeft ==
  /\ \A i \in DOMAIN mailbox : \E j \in DOMAIN frames : frames[j].ref = mailbox[i].ref
  /\ \A r \in 1..refs : got[r] # "none" => got[r] = sent[r]
  /\ \A c \in marked : thread[c].poisoned

\* await_nif_result: however calls nest over contexts, and whenever tasks end or are killed,
\* every host call has one server, every call gets its own result, and the mailbox is
\* left clean.
LoopsServe == CallsAreServed /\ HostCallsAreServed /\ NothingLeft
=============================================================================
