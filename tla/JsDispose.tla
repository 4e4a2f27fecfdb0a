----------------------------- MODULE JsDispose -----------------------------
(***************************************************************************)
(* DisposableStack and AsyncDisposableStack of the JavaScript engine       *)
(* (src/c_src/quickjs_ng/quickjs.c).  Resources are disposed of in the     *)
(* reverse order of their addition; their methods are JavaScript, may fail *)
(* and may use the stacks themselves.  An asynchronous stack awaits what   *)
(* each method returns before it calls the next, in a chain of jobs.       *)
(*                                                                         *)
(* An error is named by the resource whose disposal failed; an error with  *)
(* what it suppresses is the sequence of their names, the last one first   *)
(* (js_new_suppressed_error).                                              *)
(***************************************************************************)
EXTENDS Naturals, Sequences, SequencesExt

CONSTANTS
  Stacks, AsyncStacks,   \* the stacks, and those of them that are asynchronous
  Resources,             \* values with a method, each added once
  Nothing,               \* a null resource: asynchronous stacks await undefined for it
  MaxDepth               \* bound: frames

StacksAssumption == AsyncStacks \subseteq Stacks
NothingAssumption == Nothing \notin Resources
DepthAssumption == MaxDepth \in Nat

VARIABLES
  made,       \* the stacks that exist (the others may be made by `move')
  disposed,   \* JSDisposableStack.disposed
  list,       \* JSDisposableStack.resources
  frames,     \* native code that is waiting for JavaScript to return, the innermost first
  chain,      \* the chain of promises of each disposeAsync
  used,       \* the resources added
  log,        \* history: the calls of methods, in order
  failed,     \* history: the resources whose disposal failed, the last one first, of each stack
  owed        \* history: what each disposal has to dispose of, in order

vars == <<made, disposed, list, frames, chain, used, log, failed, owed>>

Idle == [st |-> "none", left |-> <<>>, error |-> <<>>]

Init ==
  /\ made \in {{s} \union T : s \in Stacks, T \in {AsyncStacks, {}}}
  /\ disposed = [s \in Stacks |-> FALSE]
  /\ list = [s \in Stacks |-> <<>>]
  /\ frames = <<>>
  /\ chain = [s \in Stacks |-> Idle]
  /\ used = {}
  /\ log = <<>>
  /\ failed = [s \in Stacks |-> <<>>]
  /\ owed = [s \in Stacks |-> <<>>]

\* JavaScript is running: at the outermost level, in a getter or in a method.
Runs == frames # <<>> => frames[1].kind \in {"use", "method"}
CanCall == Runs /\ Len(frames) < MaxDepth
Open(s) == s \in made /\ ~disposed[s]

-----------------------------------------------------------------------------
(* Adding resources. *)

\* js_disposable_stack_adopt, js_disposable_stack_defer, and `use' of a null resource.
Add(s, r) ==
  /\ Runs /\ Open(s) /\ r \notin used
  /\ r = Nothing => s \in AsyncStacks
  /\ list' = [list EXCEPT ![s] = Append(@, r)]
  /\ used' = used \union {r}
  /\ UNCHANGED <<made, disposed, frames, chain, log, failed, owed>>

\* js_disposable_stack_use: the method is read from the resource, which runs its getter.
Use(s, r) ==
  /\ CanCall /\ Open(s) /\ r \notin used
  /\ frames' = <<[kind |-> "use", s |-> s, r |-> r]>> \o frames
  /\ used' = used \union {r}
  /\ UNCHANGED <<made, disposed, list, chain, log, failed, owed>>

\* The getter returns the method, or throws.  The stack is not looked at again.
UseReturns(ok) ==
  /\ frames # <<>> /\ frames[1].kind = "use"
  /\ frames' = Tail(frames)
  /\ list' = IF ok THEN [list EXCEPT ![frames[1].s] = Append(@, frames[1].r)] ELSE list
  /\ UNCHANGED <<made, disposed, chain, used, log, failed, owed>>

\* js_disposable_stack_move
Move(s, t) ==
  /\ Runs /\ Open(s) /\ t \notin made /\ (s \in AsyncStacks <=> t \in AsyncStacks)
  /\ made' = made \union {t}
  /\ list' = [list EXCEPT ![t] = list[s], ![s] = <<>>]
  /\ disposed' = [disposed EXCEPT ![s] = TRUE]
  /\ UNCHANGED <<frames, chain, used, log, failed, owed>>

-----------------------------------------------------------------------------
(* Disposing. *)

Method(s, r, left, error) == [kind |-> "method", s |-> s, r |-> r, left |-> left, error |-> error]

\* js_dispose_resources: the next method is called, or the loop ends.
DisposeFrom(s, left, error, below) ==
  /\ IF left = <<>>
       THEN frames' = below /\ list' = [list EXCEPT ![s] = <<>>] /\ UNCHANGED log
       ELSE /\ frames' = <<Method(s, Last(left), Front(left), error)>> \o below
            /\ log' = Append(log, Last(left))
            /\ UNCHANGED list

\* js_disposable_stack_dispose of a synchronous stack
Dispose(s) ==
  /\ CanCall /\ Open(s) /\ s \notin AsyncStacks
  /\ disposed' = [disposed EXCEPT ![s] = TRUE]
  /\ owed' = [owed EXCEPT ![s] = list[s]]
  /\ DisposeFrom(s, list[s], <<>>, frames)
  /\ UNCHANGED <<made, chain, used, failed>>

\* js_disposable_stack_dispose of an asynchronous stack: the last resource is disposed of at
\* once, the steps for the others are chained.
DisposeAsync(s) ==
  /\ CanCall /\ Open(s) /\ s \in AsyncStacks
  /\ disposed' = [disposed EXCEPT ![s] = TRUE]
  /\ owed' = [owed EXCEPT ![s] = list[s]]
  /\ IF list[s] = <<>> \/ Last(list[s]) = Nothing
       THEN /\ chain' = [chain EXCEPT ![s] =
                 [st |-> "ready", left |-> IF list[s] = <<>> THEN <<>> ELSE Front(list[s]), error |-> <<>>]]
            /\ list' = [list EXCEPT ![s] = <<>>]
            /\ UNCHANGED <<frames, log>>
       ELSE /\ frames' = <<Method(s, Last(list[s]), Front(list[s]), <<>>)>> \o frames
            /\ log' = Append(log, Last(list[s]))
            /\ UNCHANGED <<list, chain>>
  /\ UNCHANGED <<made, used, failed>>

\* A method returns ("done"), returns a promise ("promise"), or throws ("error").
MethodReturns(how) ==
  LET f == frames[1]
      error == IF how = "error" THEN <<f.r>> \o f.error ELSE f.error IN
  /\ frames # <<>> /\ f.kind = "method"
  /\ failed' = IF how = "error" THEN [failed EXCEPT ![f.s] = <<f.r>> \o @] ELSE failed
  /\ IF f.s \in AsyncStacks
       THEN /\ frames' = Tail(frames)
            /\ chain' = [chain EXCEPT ![f.s] =
                 [st |-> IF how = "promise" THEN "awaits" ELSE "ready", left |-> f.left, error |-> error]]
            /\ list' = [list EXCEPT ![f.s] = IF chain[f.s].st = "none" THEN <<>> ELSE @]
            /\ UNCHANGED log
       ELSE how # "promise" /\ DisposeFrom(f.s, f.left, error, Tail(frames)) /\ UNCHANGED chain
  /\ UNCHANGED <<made, disposed, used, owed>>

\* The promise that a method returned is settled.
AwaitEnds(s, ok) ==
  /\ frames = <<>> /\ chain[s].st = "awaits"
  /\ \E i \in DOMAIN owed[s] :
       /\ i = Len(chain[s].left) + 1
       /\ chain' = [chain EXCEPT ![s].st = "ready",
                                 ![s].error = IF ok THEN @ ELSE <<owed[s][i]>> \o @]
       /\ failed' = IF ok THEN failed ELSE [failed EXCEPT ![s] = <<owed[s][i]>> \o @]
  /\ UNCHANGED <<made, disposed, list, frames, used, log, owed>>

\* Mutant of DisposeStep: a method is not called any more once one has failed.
DisposeStepStops(s) ==
  LET c == chain[s] IN
  /\ frames = <<>> /\ c.st = "ready"
  /\ IF c.left = <<>> \/ c.error # <<>>
       THEN chain' = [chain EXCEPT ![s].st = "settled"] /\ UNCHANGED <<frames, log>>
     ELSE IF Last(c.left) = Nothing
       THEN chain' = [chain EXCEPT ![s].left = Front(@)] /\ UNCHANGED <<frames, log>>
     ELSE /\ frames' = <<Method(s, Last(c.left), Front(c.left), c.error)>>
          /\ log' = Append(log, Last(c.left))
          /\ chain' = [chain EXCEPT ![s].st = "calls"]
  /\ UNCHANGED <<made, disposed, list, used, failed, owed>>

\* js_async_dispose_step, a job, and js_async_dispose_to_undef at the end of the chain.
DisposeStep(s) ==
  LET c == chain[s] IN
  /\ frames = <<>> /\ c.st = "ready"
  /\ IF c.left = <<>>
       THEN chain' = [chain EXCEPT ![s].st = "settled"] /\ UNCHANGED <<frames, log>>
     ELSE IF Last(c.left) = Nothing
       THEN chain' = [chain EXCEPT ![s].left = Front(@)] /\ UNCHANGED <<frames, log>>
     ELSE /\ frames' = <<Method(s, Last(c.left), Front(c.left), c.error)>>
          /\ log' = Append(log, Last(c.left))
          /\ chain' = [chain EXCEPT ![s].st = "calls"]
  /\ UNCHANGED <<made, disposed, list, used, failed, owed>>

Next ==
  \/ \E s \in Stacks, r \in Resources \union {Nothing} : Add(s, r)
  \/ \E s \in Stacks, r \in Resources : Use(s, r)
  \/ \E ok \in BOOLEAN : UseReturns(ok)
  \/ \E s, t \in Stacks : Move(s, t)
  \/ \E s \in Stacks : Dispose(s) \/ DisposeAsync(s) \/ DisposeStep(s)
  \/ \E how \in {"done", "promise", "error"} : MethodReturns(how)
  \/ \E s \in Stacks, ok \in BOOLEAN : AwaitEnds(s, ok)

Spec == Init /\ [][Next]_vars

-----------------------------------------------------------------------------
TypeOK ==
  /\ made \subseteq Stacks /\ used \subseteq Resources \union {Nothing}
  /\ disposed \in [Stacks -> BOOLEAN]
  /\ \A s \in Stacks : list[s] \in Seq(Resources \union {Nothing})
  /\ \A s \in Stacks : chain[s].st \in {"none", "calls", "awaits", "ready", "settled"}
  /\ \A i \in DOMAIN frames : frames[i].kind \in {"use", "method"}

Disposing(s) == (\E i \in DOMAIN frames : frames[i].kind = "method" /\ frames[i].s = s)
                  \/ chain[s].st \in {"awaits", "ready"}
Called(r) == \E a \in DOMAIN log : log[a] = r

\* Whatever the methods do, throw, return promises that are rejected, move or dispose of other
\* stacks: those of one stack are called in the reverse order of their addition, each once,
\* and all of them have been when its disposal ends.
AllDisposedOnce ==
  /\ \A a, b \in DOMAIN log : log[a] = log[b] => a = b
  /\ ~Called(Nothing)
  /\ \A s \in Stacks : \A i, j \in DOMAIN owed[s] : i < j /\ owed[s][j] # Nothing =>
       \A a \in DOMAIN log : log[a] = owed[s][i] => \E b \in 1..(a - 1) : log[b] = owed[s][j]
  /\ \A s \in Stacks : disposed[s] /\ ~Disposing(s) =>
       \A i \in DOMAIN owed[s] : owed[s][i] = Nothing \/ Called(owed[s][i])

\* The error a disposal reports holds every failure, the last one outermost, and the method of
\* an asynchronous stack is called only when nothing of an earlier one is awaited.
ErrorsKept ==
  /\ \A s \in AsyncStacks : chain[s].st \in {"awaits", "ready", "settled"} => chain[s].error = failed[s]
  /\ \A i \in DOMAIN frames : frames[i].kind = "method" =>
       /\ frames[i].error = failed[frames[i].s]
       /\ chain[frames[i].s].st \in {"none", "calls"}
=============================================================================
