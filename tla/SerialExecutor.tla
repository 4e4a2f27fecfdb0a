--------------------------- MODULE SerialExecutor ---------------------------
(***************************************************************************)
(* What both layers promise to those who submit work: jobs are executed one *)
(* at a time, a job that waits is executed or given up, and a job that is   *)
(* over stays over.  Server implements it for its requests, ContextThread   *)
(* for the commands of the native queue.                                    *)
(***************************************************************************)
CONSTANT Jobs

VARIABLE phase

Phases == {"new", "waiting", "running", "over"}

Moves == {<<"new", "waiting">>, <<"new", "running">>, <<"new", "over">>,
          <<"waiting", "running">>, <<"waiting", "over">>, <<"running", "over">>}

OneAtATime(p) == \A i, j \in Jobs : p[i] = "running" /\ p[j] = "running" => i = j

Init == phase = [j \in Jobs |-> "new"]

\* One step may move several jobs: a server that ends one job and starts the
\* next, or that refuses all the waiting ones.
Next ==
  /\ phase' \in [Jobs -> Phases]
  /\ \A j \in Jobs : phase'[j] = phase[j] \/ <<phase[j], phase'[j]>> \in Moves
  /\ OneAtATime(phase')

Spec == Init /\ [][Next]_phase
=============================================================================
