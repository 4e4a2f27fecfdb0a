----------------------------- MODULE JsModules -----------------------------
(***************************************************************************)
(* Evaluation of JavaScript modules (src/c_src/quickjs_ng/quickjs.c,       *)
(* js_evaluate_module, js_async_module_execution_fulfilled and what they   *)
(* call) for imports that come in while earlier ones are under way.        *)
(*                                                                         *)
(* A module graph is loaded and linked by the import that first needs it,  *)
(* and evaluated depth first; a module with top-level await (tla) ends     *)
(* later, in a job, and the modules that wait for it are run then.  The    *)
(* recursion of js_inner_module_evaluation is the stack `calls'; the list  *)
(* of modules js_async_module_execution_fulfilled is about to run is       *)
(* `exec'.  The code of a module may throw; it runs no other module.       *)
(***************************************************************************)
EXTENDS Naturals, Sequences, FiniteSets, SequencesExt

CONSTANTS
  Modules,     \* the modules there are
  Graphs,      \* the dependencies considered: functions from modules to sequences of modules
  Imports,     \* calls of import() and evaluations by the host
  NoModule
ModulesAssumption == NoModule \notin Modules /\ Graphs \subseteq [Modules -> Seq(Modules)]

VARIABLES
  deps, tla,   \* the graph and the modules with top-level await (not changed)
  status,      \* JSModuleStatus, of loaded and not yet loaded modules
  error,       \* eval_has_exception
  root,        \* cycle_root
  asyncEval,   \* async_evaluation
  stamp,       \* async_evaluation_timestamp
  pending,     \* pending_async_dependencies
  parents,     \* async_parent_modules
  promise,     \* of the module: "none", "pending", "fulfilled", "rejected"
  dfs, low,    \* dfs_index, dfs_ancestor_index, counted from the bottom of scc
  calls,       \* calls of js_inner_module_evaluation: module and index of its dependency
  scc,         \* the stack of modules being evaluated, topmost first
  exec,        \* modules still to be run by js_async_module_execution_fulfilled
  bodies,      \* modules with top-level await that have started and not ended
  queue,       \* imports not begun, as jobs
  import,      \* each import: the module whose promise it waits for
  settled,     \* imports answered before anything was evaluated
  ran, done    \* history: modules run, in order; modules whose code has ended without error

graph == <<deps, tla>>
state == <<status, error, root, asyncEval, stamp, pending, parents, promise>>
search == <<dfs, low, calls, scc>>
requests == <<queue, import, settled>>
vars == <<graph, state, search, exec, bodies, requests, ran, done>>

Loaded == {"linked", "evaluating", "async", "evaluated"}

TypeOK ==
  /\ deps \in Graphs /\ tla \subseteq Modules
  /\ status \in [Modules -> {"unlinked"} \union Loaded]
  /\ error \in [Modules -> BOOLEAN] /\ asyncEval \in [Modules -> BOOLEAN]
  /\ root \in [Modules -> Modules \union {NoModule}]
  /\ pending \in [Modules -> Nat] /\ stamp \in [Modules -> Nat]
  /\ parents \in [Modules -> Seq(Modules)]
  /\ promise \in [Modules -> {"none", "pending", "fulfilled", "rejected"}]
  /\ scc \in Seq(Modules) /\ exec \in Seq(Modules) /\ bodies \subseteq tla

Init ==
  /\ deps \in Graphs /\ tla \in SUBSET Modules
  /\ status = [m \in Modules |-> "unlinked"]
  /\ error = [m \in Modules |-> FALSE]
  /\ root = [m \in Modules |-> NoModule]
  /\ asyncEval = [m \in Modules |-> FALSE]
  /\ stamp = [m \in Modules |-> 0]
  /\ pending = [m \in Modules |-> 0]
  /\ parents = [m \in Modules |-> <<>>]
  /\ promise = [m \in Modules |-> "none"]
  /\ dfs = [m \in Modules |-> 0] /\ low = [m \in Modules |-> 0]
  /\ calls = <<>> /\ scc = <<>> /\ exec = <<>>
  /\ bodies = {}
  /\ queue = <<>>
  /\ import = [i \in Imports |-> NoModule]
  /\ settled = {}
  /\ ran = <<>> /\ done = {}

\* The modules m reaches, itself included.
Reach(m) ==
  LET step[n \in Nat] == IF n = 0 THEN {m}
                         ELSE step[n - 1] \union UNION {Range(deps[d]) : d \in step[n - 1]} IN
  step[Cardinality(Modules)]

Idle == calls = <<>> /\ exec = <<>>
Set(f, ms, v) == [m \in DOMAIN f |-> IF m \in ms THEN v ELSE f[m]]
NextStamp == Cardinality({m \in Modules : stamp[m] > 0}) + 1

-----------------------------------------------------------------------------
(* Imports. *)

\* js_dynamic_import, from any code; or the host evaluates a module.
Request(i, m) ==
  /\ import[i] = NoModule /\ i \notin settled
  /\ \A j \in DOMAIN queue : queue[j][1] # i
  /\ queue' = Append(queue, <<i, m>>)
  /\ UNCHANGED <<graph, state, search, exec, bodies, import, settled, ran, done>>

\* js_dynamic_import_job, JS_LoadModuleInternal, when the modules cannot be loaded or linked.
\* The depth-first linking leaves a set linked that is closed under dependencies.
ImportFails ==
  /\ Idle /\ queue # <<>>
  /\ LET i == Head(queue)[1]
         m == Head(queue)[2] IN
     /\ status[m] = "unlinked"
     /\ \E linked \in SUBSET {d \in Reach(m) \ {m} : status[d] = "unlinked"} :
          /\ \A d \in linked : \A e \in Reach(d) : status[e] = "unlinked" => e \in linked
          /\ status' = Set(status, linked, "linked")
     /\ settled' = settled \union {i}
  /\ queue' = Tail(queue)
  /\ UNCHANGED <<graph, error, root, asyncEval, stamp, pending, parents, promise, search, exec, bodies,
                 import, ran, done>>

\* js_link_module, js_evaluate_module: the promise of the root of m's cycle answers all imports.
ImportWaits ==
  /\ Idle /\ queue # <<>>
  /\ LET i == Head(queue)[1]
         m == Head(queue)[2]
         r == IF status[m] \in {"async", "evaluated"} THEN root[m] ELSE m IN
     /\ promise[r] # "none"
     /\ import' = [import EXCEPT ![i] = r]
  /\ queue' = Tail(queue)
  /\ UNCHANGED <<graph, state, search, exec, bodies, settled, ran, done>>

ImportEvaluates ==
  /\ Idle /\ queue # <<>>
  /\ LET i == Head(queue)[1]
         m == Head(queue)[2]
         linked == {d \in Reach(m) : status[d] = "unlinked"} IN
     /\ status[m] \in {"unlinked", "linked"}
     /\ import' = [import EXCEPT ![i] = m]
     /\ promise' = [promise EXCEPT ![m] = "pending"]
     /\ status' = [Set(status, linked, "linked") EXCEPT ![m] = "evaluating"]
     /\ dfs' = [dfs EXCEPT ![m] = 0] /\ low' = [low EXCEPT ![m] = 0]
     /\ pending' = [pending EXCEPT ![m] = 0]
     /\ scc' = <<m>> /\ calls' = <<[module |-> m, dep |-> 1]>>
  /\ queue' = Tail(queue)
  /\ UNCHANGED <<graph, error, root, asyncEval, stamp, parents, exec, bodies, settled, ran, done>>

\* A module evaluated as a dependency gets a promise when it is first imported itself.
ImportEvaluated ==
  /\ Idle /\ queue # <<>>
  /\ LET i == Head(queue)[1]
         m == root[Head(queue)[2]] IN
     /\ status[Head(queue)[2]] \in {"async", "evaluated"}
     /\ promise[m] = "none"
     /\ import' = [import EXCEPT ![i] = m]
     /\ promise' = [promise EXCEPT ![m] = IF error[m] THEN "rejected"
                                          ELSE IF asyncEval[m] THEN "pending" ELSE "fulfilled"]
  /\ queue' = Tail(queue)
  /\ UNCHANGED <<graph, status, error, root, asyncEval, stamp, pending, parents, search, exec, bodies,
                 settled, ran, done>>

-----------------------------------------------------------------------------
(* js_inner_module_evaluation *)

Module == calls[1].module
Dep == deps[Module][calls[1].dep]
AtDep == calls # <<>> /\ calls[1].dep <= Len(deps[Module])
AtEnd == calls # <<>> /\ calls[1].dep > Len(deps[Module])

\* The exception of a module ends js_evaluate_module.
Fails ==
  LET m == calls[Len(calls)].module IN
  /\ status' = Set(status, Range(scc), "evaluated")
  /\ error' = Set(error, Range(scc), TRUE)
  /\ root' = Set(root, Range(scc), m)
  /\ promise' = [promise EXCEPT ![m] = "rejected"]
  /\ calls' = <<>> /\ scc' = <<>>

Descend ==
  /\ AtDep
  /\ status[Dep] = "linked"
  /\ status' = [status EXCEPT ![Dep] = "evaluating"]
  /\ dfs' = [dfs EXCEPT ![Dep] = Len(scc)] /\ low' = [low EXCEPT ![Dep] = Len(scc)]
  /\ pending' = [pending EXCEPT ![Dep] = 0]
  /\ scc' = <<Dep>> \o scc
  /\ calls' = <<[module |-> Dep, dep |-> 1]>> \o calls
  /\ UNCHANGED <<graph, error, root, asyncEval, stamp, parents, promise, exec, bodies, requests, ran, done>>

DepFailed ==
  /\ AtDep
  /\ status[Dep] \in {"async", "evaluated"}
  /\ error[Dep] \/ error[root[Dep]]
  /\ Fails
  /\ UNCHANGED <<graph, asyncEval, stamp, pending, parents, dfs, low, exec, bodies, requests, ran, done>>

\* The module waits for an asynchronous dependency, or for its cycle.
Await(m) ==
  IF asyncEval[m]
    THEN /\ pending' = [pending EXCEPT ![Module] = @ + 1]
         /\ parents' = [parents EXCEPT ![m] = Append(@, Module)]
    ELSE UNCHANGED <<pending, parents>>

DepDone ==
  /\ AtDep
  /\ \/ /\ status[Dep] = "evaluating"
        /\ low' = [low EXCEPT ![Module] = IF low[Dep] < @ THEN low[Dep] ELSE @]
        /\ Await(Dep)
     \/ /\ status[Dep] \in {"async", "evaluated"}
        /\ ~error[Dep] /\ ~error[root[Dep]]
        /\ Await(root[Dep])
        /\ UNCHANGED low
  /\ calls' = [calls EXCEPT ![1].dep = @ + 1]
  /\ UNCHANGED <<graph, status, error, root, asyncEval, stamp, promise, dfs, scc, exec, bodies, requests,
                 ran, done>>

\* The end of js_inner_module_evaluation: a cycle that is complete leaves the stack.
Leaves(async) ==
  /\ calls' = Tail(calls)
  /\ IF low[Module] # dfs[Module]
       THEN /\ UNCHANGED <<status, root, scc, promise>>
       ELSE LET n == CHOOSE n \in DOMAIN scc : scc[n] = Module
                cycle == Range(SubSeq(scc, 1, n)) IN
            /\ scc' = SubSeq(scc, n + 1, Len(scc))
            /\ status' = [m \in Modules |-> IF m \notin cycle THEN status[m]
                                            ELSE IF async[m] THEN "async" ELSE "evaluated"]
            /\ root' = Set(root, cycle, Module)
            /\ promise' = IF Len(calls) = 1 /\ ~async[Module]
                            THEN [promise EXCEPT ![Module] = "fulfilled"] ELSE promise

\* A module that waits, or awaits.
EndAsync ==
  /\ AtEnd
  /\ pending[Module] > 0 \/ Module \in tla
  /\ asyncEval' = [asyncEval EXCEPT ![Module] = TRUE]
  /\ stamp' = [stamp EXCEPT ![Module] = NextStamp]
  /\ IF pending[Module] > 0
       THEN UNCHANGED <<bodies, ran>>
       ELSE bodies' = bodies \union {Module} /\ ran' = Append(ran, Module)
  /\ Leaves(asyncEval')
  /\ UNCHANGED <<graph, error, pending, parents, dfs, low, exec, requests, done>>

\* js_execute_sync_module
EndSync ==
  /\ AtEnd
  /\ pending[Module] = 0 /\ Module \notin tla
  /\ ran' = Append(ran, Module)
  /\ \/ /\ Leaves(asyncEval)
        /\ done' = done \union {Module}
        /\ UNCHANGED error
     \/ Fails /\ UNCHANGED done
  /\ UNCHANGED <<graph, asyncEval, stamp, pending, parents, dfs, low, exec, bodies, requests>>

Evaluate == Descend \/ DepFailed \/ DepDone \/ EndAsync \/ EndSync

-----------------------------------------------------------------------------
(* A module with top-level await ends. *)

\* js_async_module_execution_rejected, with its recursion: the modules that get the error.
Rejected(m) ==
  LET step[n \in Nat] == IF n = 0 THEN {m} \ {d \in Modules : status[d] = "evaluated"}
                         ELSE step[n - 1] \union
                              {d \in UNION {Range(parents[e]) : e \in step[n - 1]} : status[d] # "evaluated"} IN
  step[Cardinality(Modules)]

RejectAll(ms) ==
  /\ error' = Set(error, ms, TRUE)
  /\ status' = Set(status, ms, "evaluated")
  /\ promise' = [m \in Modules |-> IF m \in ms /\ promise[m] # "none" THEN "rejected" ELSE promise[m]]

RECURSIVE GatherFrom(_, _, _)
\* gather_available_ancestors from the parents ps, given the pending counts and the list so far.
GatherFrom(ps, count, list) ==
  IF ps = <<>> THEN [count |-> count, list |-> list]
  ELSE LET m == Head(ps) IN
       IF m \in Range(list) \/ error[root[m]] THEN GatherFrom(Tail(ps), count, list)
       ELSE LET less == [count EXCEPT ![m] = @ - 1] IN
            IF less[m] > 0 THEN GatherFrom(Tail(ps), less, list)
            ELSE LET sub == IF m \in tla THEN [count |-> less, list |-> Append(list, m)]
                            ELSE GatherFrom(parents[m], less, Append(list, m)) IN
                 GatherFrom(Tail(ps), sub.count, sub.list)

\* Mutant of Gather: every parent is taken.
GatherAll(m) == [count |-> pending, list |-> parents[m]]

Gather(m) == GatherFrom(parents[m], pending, <<>>)

\* js_async_module_execution_fulfilled, up to its loop.
BodyEnds(m) ==
  /\ Idle /\ m \in bodies
  /\ bodies' = bodies \ {m}
  /\ done' = done \union {m}
  /\ IF status[m] = "evaluated"
       THEN UNCHANGED <<status, asyncEval, promise, pending, exec>>
       ELSE /\ asyncEval' = [asyncEval EXCEPT ![m] = FALSE]
            /\ status' = [status EXCEPT ![m] = "evaluated"]
            /\ promise' = IF promise[m] = "none" THEN promise ELSE [promise EXCEPT ![m] = "fulfilled"]
            /\ pending' = Gather(m).count
            /\ exec' = SortSeq(Gather(m).list, LAMBDA a, b : stamp[a] < stamp[b])
  /\ UNCHANGED <<graph, error, root, stamp, parents, search, requests, ran>>

BodyThrows(m) ==
  /\ Idle /\ m \in bodies
  /\ bodies' = bodies \ {m}
  /\ RejectAll(Rejected(m))
  /\ UNCHANGED <<graph, root, asyncEval, stamp, pending, parents, search, exec, requests, ran, done>>

\* One round of its loop.
ExecNext ==
  /\ exec # <<>>
  /\ exec' = Tail(exec)
  /\ LET m == Head(exec) IN
     \/ /\ status[m] = "evaluated"
        /\ UNCHANGED <<status, error, promise, bodies, ran, done>>
     \/ /\ status[m] # "evaluated" /\ m \in tla
        /\ bodies' = bodies \union {m}
        /\ ran' = Append(ran, m)
        /\ UNCHANGED <<status, error, promise, done>>
     \/ /\ status[m] # "evaluated" /\ m \notin tla
        /\ ran' = Append(ran, m)
        /\ \/ /\ status' = [status EXCEPT ![m] = "evaluated"]
              /\ promise' = IF promise[m] = "none" THEN promise ELSE [promise EXCEPT ![m] = "fulfilled"]
              /\ done' = done \union {m}
              /\ UNCHANGED error
           \/ RejectAll(Rejected(m)) /\ UNCHANGED done
        /\ UNCHANGED bodies
  /\ UNCHANGED <<graph, root, asyncEval, stamp, pending, parents, search, requests>>

Next ==
  \/ \E i \in Imports, m \in Modules : Request(i, m)
  \/ ImportFails \/ ImportWaits \/ ImportEvaluates \/ ImportEvaluated
  \/ Evaluate
  \/ \E m \in Modules : BodyEnds(m) \/ BodyThrows(m)
  \/ ExecNext

Spec == Init /\ [][Next]_vars

-----------------------------------------------------------------------------
\* The code of a module runs once, and not before that of the modules it imports has ended
\* without error, those of its own cycle excepted; whichever import comes first.
DependenciesFirst ==
  /\ \A i, j \in DOMAIN ran : ran[i] = ran[j] => i = j
  /\ \A i \in DOMAIN ran : \A d \in Range(deps[ran[i]]) :
       ran[i] \in Reach(d) \/ Reach(d) \subseteq done

\* An import that succeeds finds its whole graph evaluated, and one that fails an error in it.
ImportMeansEvaluated ==
  \A m \in Modules :
    /\ promise[m] = "fulfilled" => Reach(m) \subseteq done /\ \A d \in Reach(m) : ~error[d]
    /\ promise[m] = "rejected" => \E d \in Reach(m) : error[d] /\ d \notin done

\* What the assertions of the two reactions and of gather_available_ancestors say: a
\* module that waits is met in no other state than EVALUATING_ASYNC, with something to wait for.
WaitersWait ==
  \A m \in Modules :
    /\ m \in bodies => IF status[m] = "evaluated" THEN error[m] ELSE asyncEval[m]
    /\ Idle /\ status[m] = "async" /\ m \notin bodies => pending[m] > 0
    /\ status[m] = "async" => asyncEval[m] /\ ~error[m]
=============================================================================
