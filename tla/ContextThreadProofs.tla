------------------------- MODULE ContextThreadProofs -------------------------
(***************************************************************************)
(* Proofs about ContextThread, for any commands, processes and bounds.     *)
(***************************************************************************)
EXTENDS ContextThread, TLAPS, FiniteSetTheorems, SequenceTheorems

USE DEF procVars, queueVars, slotVars, asyncVars, threadVars, histVars, Goto, Commands, Ids

-----------------------------------------------------------------------------
(* Type correctness, with the counter of the async entries.                *)

\* Request ids are not used twice.
FreshIds == \A id \in Ids : id > reqId => id \notin entries /\ settled[id] = 0

\* What the thread holds at each of its places.
Control ==
  /\ pc \in InEval \cup {"cleanup"} => cmd \in Evals
  /\ pc = "native" => cmd \in Others
  /\ cmd = NoCommand <=> pc \in {"dequeue", "polled", "drain", "ended"}
  /\ pc \in {"post", "wait", "postAsync"} => reqId > 0

TypeInv == TypeOK /\ Control /\ CountsEntries /\ FreshIds

\* A set of entries is finite, as MaxReq bounds their ids.
LEMMA FiniteEntries ==
  ASSUME NEW S \in SUBSET Ids
  PROVE  IsFiniteSet(S) /\ Cardinality(S) \in Nat
<1>1. IsFiniteSet(Ids)
  BY FS_Interval, BoundsAssumption DEF Ids
<1>. QED
  BY <1>1, FS_Subset, FS_CardinalityType

\* remove_async_entry keeps the counter right.
LEMMA RemoveEntryCounts ==
  ASSUME TypeOK, CountsEntries, NEW id, RemoveEntry(id)
  PROVE  /\ entries' \subseteq entries
         /\ count' \in Nat
         /\ CountsEntries'
<1>1. IsFiniteSet(entries) /\ Cardinality(entries) \in Nat
  BY FiniteEntries DEF TypeOK
<1>2. CASE id \in entries
  <2>1. Cardinality(entries \ {id}) = Cardinality(entries) - 1
    BY <1>1, <1>2, FS_RemoveElement
  <2>2. Cardinality(entries \ {id}) \in Nat
    BY FiniteEntries DEF TypeOK
  <2>. QED
    BY <1>1, <1>2, <2>1, <2>2, BoundsAssumption DEF RemoveEntry, CountsEntries
<1>3. CASE id \notin entries
  BY <1>3 DEF RemoveEntry, CountsEntries, TypeOK
<1>. QED
  BY <1>2, <1>3

\* async_dispatch_fn counts the entry it inserts.
LEMMA AsyncCallCounts ==
  ASSUME TypeInv, AsyncCall
  PROVE  /\ reqId + 1 \in Ids
         /\ CountsEntries'
<1>1. reqId + 1 \in Ids /\ reqId + 1 \notin entries
  BY BoundsAssumption DEF TypeInv, TypeOK, FreshIds, AsyncCall
<1>2. IsFiniteSet(entries)
  BY FiniteEntries DEF TypeInv, TypeOK
<1>3. Cardinality(entries \cup {reqId + 1}) = Cardinality(entries) + 1
  BY <1>1, <1>2, FS_AddElement
<1>. QED
  BY <1>1, <1>3, BoundsAssumption DEF AsyncCall, TypeInv, TypeOK, CountsEntries

\* The initial state, of nif_new.
LEMMA InitTypeInv == Init => TypeInv
<1>. SUFFICES ASSUME Init PROVE TypeInv
  OBVIOUS
<1>1. TypeOK
  <2>1. shuttingDown \in BOOLEAN /\ poisoned \in BOOLEAN /\ busy \in BOOLEAN
    BY DEF Init
  <2>2. queue \in Seq(Commands) /\ resolutions \in Seq(Ids)
    BY DEF Init
  <2>3. reqId \in 0..MaxReq /\ ready \in 0..MaxReq
    BY BoundsAssumption DEF Init
  <2>4. /\ caller \in [Commands -> Procs \cup {NoProc}]
        /\ replies \in [Commands -> Nat]
        /\ settled \in [Ids -> Nat]
    BY DEF Init
  <2>. QED
    BY <2>1, <2>2, <2>3, <2>4, CommandsAssumption DEF Init, TypeOK, Places
<1>2. CountsEntries
  BY FS_EmptySet, BoundsAssumption DEF Init, CountsEntries
<1>3. FreshIds
  BY DEF Init, FreshIds
<1>4. Control
  BY DEF Init, Control, InEval
<1>. QED
  BY <1>1, <1>2, <1>3, <1>4 DEF TypeInv


\* Every step keeps the thread at a place that fits what it holds.
LEMMA StepControl == TypeOK /\ Control /\ [Next]_vars => Control'
<1>. SUFFICES ASSUME TypeOK, Control, [Next]_vars PROVE Control'
  OBVIOUS
<1>1. CASE \E c \in Commands : Enqueue(c)
  BY <1>1 DEF Enqueue, TypeOK, Control, InEval
<1>2. CASE \E c \in Evals, id \in Ids : Signal(c, id)
  BY <1>2 DEF Signal, Current, TypeOK, Control, InEval
<1>3. CASE \E c \in Evals, id \in Ids : Resolve(c, id)
  BY <1>3 DEF Resolve, Current, TypeOK, Control, InEval
<1>4. CASE \E p \in Heirs : Transfer(p)
  BY <1>4 DEF Transfer, TypeOK, Control, InEval
<1>5. CASE Destroy
  BY <1>5 DEF Destroy, TypeOK, Control, InEval
<1>6. CASE DestroyAborts
  BY <1>6 DEF DestroyAborts, SetAbort, TypeOK, Control, InEval
<1>7. CASE Dequeue
  <2>1. cmd' \in Commands
    BY <1>7, HeadTailProperties DEF Dequeue, TypeOK
  <2>. QED
    BY <1>7, <2>1, CommandsAssumption DEF Dequeue, Control, InEval
<1>8. CASE StopWaiting
  BY <1>8 DEF StopWaiting, TypeOK, Control, InEval
<1>9. CASE ReadOwner
  BY <1>9 DEF ReadOwner, TypeOK, Control, InEval
<1>10. CASE CheckOwner
  BY <1>10 DEF CheckOwner, TypeOK, Control, InEval
<1>11. CASE RunNative
  BY <1>11 DEF RunNative, TypeOK, Control, InEval
<1>12. CASE Complete
  BY <1>12 DEF Complete, TypeOK, Control, InEval
<1>13. CASE SendReply
  BY <1>13 DEF SendReply, TypeOK, Control, InEval
<1>14. CASE Cleanup
  BY <1>14 DEF Cleanup, TypeOK, Control, InEval
<1>15. CASE ShouldStop
  BY <1>15 DEF ShouldStop, TypeOK, Control, InEval
<1>16. CASE Drain
  BY <1>16 DEF Drain, TypeOK, Control, InEval
<1>17. CASE CallerLost
  BY <1>17 DEF CallerLost, ShutDown, SetAbort, TypeOK, Control, InEval
<1>18. CASE SyncCall
  BY <1>18 DEF SyncCall, TypeOK, Control, InEval
<1>19. CASE PostSync
  BY <1>19 DEF PostSync, ShutDown, SetAbort, TypeOK, Control, InEval
<1>20. CASE WaitEnds
  BY <1>20 DEF WaitEnds, TypeOK, Control, InEval
<1>21. CASE WaitTimesOut
  BY <1>21 DEF WaitTimesOut, PollCaller, ShutDown, SetAbort, TypeOK, Control, InEval
<1>22. CASE AsyncCall
  BY <1>22 DEF AsyncCall, TypeOK, Control, InEval
<1>23. CASE PostAsync
  BY <1>23 DEF PostAsync, RemoveEntry, ShutDown, SetAbort, TypeOK, Control, InEval
<1>24. CASE AwaitPromise
  BY <1>24 DEF AwaitPromise, TypeOK, Control, InEval
<1>25. CASE TakeResolution
  BY <1>25 DEF TakeResolution, ApplyResolution, RemoveEntry, TypeOK, Control, InEval
<1>26. CASE WaitExternal
  BY <1>26 DEF WaitExternal, TypeOK, Control, InEval
<1>27. CASE ExternalArrives
  BY <1>27 DEF ExternalArrives, ApplyResolution, RemoveEntry, TypeOK, Control, InEval
<1>28. CASE ExternalGivesUp
  BY <1>28 DEF ExternalGivesUp, TypeOK, Control, InEval
<1>29. CASE ExternalTimesOut
  BY <1>29 DEF ExternalTimesOut, PollCaller, ShutDown, SetAbort, TypeOK, Control, InEval
<1>30. CASE InterruptOwnerDead
  BY <1>30 DEF InterruptOwnerDead, ShutDown, SetAbort, TypeOK, Control, InEval
<1>31. CASE EndEval
  BY <1>31 DEF EndEval, TypeOK, Control, InEval
<1>32. CASE \E p \in Procs : Exit(p)
  BY <1>32 DEF Exit, TypeOK, Control, InEval
<1>33. CASE UNCHANGED vars
  BY <1>33 DEF vars, TypeOK, Control, InEval
<1>. QED
  BY <1>1, <1>2, <1>3, <1>4, <1>5, <1>6, <1>7, <1>8, <1>9, <1>10, <1>11, <1>12, <1>13,
     <1>14, <1>15, <1>16, <1>17, <1>18, <1>19, <1>20, <1>21, <1>22, <1>23, <1>24, <1>25,
     <1>26, <1>27, <1>28, <1>29, <1>30, <1>31, <1>32, <1>33 DEF Next, NifStep, ThreadStep

\* Every step keeps the types, the counter and the freshness of ids.
LEMMA StepTypeInv == TypeInv /\ [Next]_vars => TypeInv'
<1>. SUFFICES ASSUME TypeInv, [Next]_vars PROVE TypeInv'
  OBVIOUS
<1>0. Control'
  BY StepControl DEF TypeInv
<1>1. CASE \E c \in Commands : Enqueue(c)
  <2>1. PICK c \in Commands : Enqueue(c)
    BY <1>1
  <2>2. Append(queue, c) \in Seq(Commands)
    BY AppendProperties DEF TypeInv, TypeOK
  <2>. QED
    BY <1>0, <2>1, <2>2 DEF Enqueue, TypeInv, TypeOK, CountsEntries, FreshIds
<1>2. CASE \E c \in Evals, id \in Ids : Signal(c, id)
  BY <1>2, <1>0 DEF Signal, Current, TypeInv, TypeOK, CountsEntries, FreshIds, Places
<1>3. CASE \E c \in Evals, id \in Ids : Resolve(c, id)
  <2>1. PICK c \in Evals, id \in Ids : Resolve(c, id)
    BY <1>3
  <2>2. resolutions' \in Seq(Ids)
    BY <2>1, AppendProperties DEF Resolve, TypeInv, TypeOK
  <2>. QED
    BY <1>0, <2>1, <2>2 DEF Resolve, TypeInv, TypeOK, CountsEntries, FreshIds
<1>4. CASE \E p \in Heirs : Transfer(p)
  BY <1>0, <1>4, CommandsAssumption DEF Transfer, TypeInv, TypeOK, CountsEntries, FreshIds
<1>5. CASE Destroy
  BY <1>5, <1>0 DEF Destroy, TypeInv, TypeOK, CountsEntries, FreshIds, Places
<1>6. CASE DestroyAborts
  <2>1. poisoned' \in BOOLEAN /\ shuttingDown' \in BOOLEAN
    BY <1>6 DEF TypeInv, TypeOK, DestroyAborts, SetAbort
  <2>2. ready' \in 0..MaxReq /\ abort' \in {"none", "shutdown", "owner_down"}
    BY <1>6, BoundsAssumption DEF TypeInv, TypeOK, DestroyAborts, SetAbort
  <2>. QED
    BY <1>0, <1>6, <2>1, <2>2, BoundsAssumption
    DEF DestroyAborts, TypeInv, TypeOK, CountsEntries, FreshIds, Places
<1>7. CASE Dequeue
  <2>1. queue' \in Seq(Commands) /\ cmd' \in Commands
    BY <1>7, HeadTailProperties DEF Dequeue, TypeInv, TypeOK
  <2>. QED
    BY <1>0, <1>7, <2>1 DEF Dequeue, TypeInv, TypeOK, CountsEntries, FreshIds, Places
<1>8. CASE StopWaiting
  BY <1>8, <1>0 DEF StopWaiting, TypeInv, TypeOK, CountsEntries, FreshIds, Places
<1>9. CASE ReadOwner
  BY <1>9, <1>0 DEF ReadOwner, TypeInv, TypeOK, CountsEntries, FreshIds, Places
<1>10. CASE CheckOwner
  BY <1>10, <1>0 DEF CheckOwner, TypeInv, TypeOK, CountsEntries, FreshIds, Places
<1>11. CASE RunNative
  BY <1>11, <1>0 DEF RunNative, TypeInv, TypeOK, CountsEntries, FreshIds, Places
<1>12. CASE Complete
  BY <1>12, <1>0 DEF Complete, TypeInv, TypeOK, CountsEntries, FreshIds, Places
<1>13. CASE SendReply
  <2>1. replies' \in [Commands -> Nat]
    <3>1. CASE cmd \in Commands
      BY <1>13, <3>1 DEF SendReply, TypeInv, TypeOK
    <3>2. CASE cmd \notin Commands
      BY <1>13, <3>2 DEF SendReply, TypeInv, TypeOK
    <3>. QED
      BY <3>1, <3>2
  <2>. QED
    BY <1>0, <1>13, <2>1 DEF SendReply, TypeInv, TypeOK, CountsEntries, FreshIds, Places
<1>14. CASE Cleanup
  BY <1>0, <1>14, FS_EmptySet, BoundsAssumption DEF Cleanup, TypeInv, TypeOK, CountsEntries,
     FreshIds, Places
<1>15. CASE ShouldStop
  BY <1>15, <1>0 DEF ShouldStop, TypeInv, TypeOK, CountsEntries, FreshIds, Places
<1>16. CASE Drain
  <2>1. replies' \in [Commands -> Nat]
    BY <1>16 DEF Drain, TypeInv, TypeOK
  <2>. QED
    BY <1>0, <1>16, <2>1 DEF Drain, TypeInv, TypeOK, CountsEntries, FreshIds, Places
<1>17. CASE CallerLost
  <2>1. poisoned' \in BOOLEAN /\ shuttingDown' \in BOOLEAN
    BY <1>17 DEF TypeInv, TypeOK, CallerLost, ShutDown, SetAbort
  <2>2. ready' \in 0..MaxReq /\ abort' \in {"none", "shutdown", "owner_down"}
    BY <1>17, BoundsAssumption DEF TypeInv, TypeOK, CallerLost, ShutDown, SetAbort
  <2>. QED
    BY <1>0, <1>17, <2>1, <2>2, BoundsAssumption
    DEF CallerLost, TypeInv, TypeOK, CountsEntries, FreshIds, Places
<1>18. CASE SyncCall
  BY <1>0, <1>18, BoundsAssumption DEF SyncCall, TypeInv, TypeOK, CountsEntries, FreshIds,
     Places
<1>19. CASE PostSync
  <2>1. asked' \subseteq Evals \X Ids
    BY <1>19 DEF PostSync, TypeInv, TypeOK, Control, InEval
  <2>2. poisoned' \in BOOLEAN /\ shuttingDown' \in BOOLEAN
    BY <1>19 DEF TypeInv, TypeOK, PostSync, ShutDown
  <2>3. ready' \in 0..MaxReq /\ abort' \in {"none", "shutdown", "owner_down"}
    BY <1>19, BoundsAssumption DEF TypeInv, TypeOK, PostSync, ShutDown, SetAbort
  <2>. QED
    BY <1>0, <1>19, <2>1, <2>2, <2>3 DEF PostSync, TypeInv, TypeOK, CountsEntries, FreshIds,
       Places
<1>20. CASE WaitEnds
  <2>1. poisoned' \in BOOLEAN /\ shuttingDown' \in BOOLEAN
    BY <1>20 DEF TypeInv, TypeOK, WaitEnds
  <2>2. ready' \in 0..MaxReq /\ abort' \in {"none", "shutdown", "owner_down"}
    BY <1>20, BoundsAssumption DEF TypeInv, TypeOK, WaitEnds
  <2>. QED
    BY <1>0, <1>20, <2>1, <2>2, BoundsAssumption
    DEF WaitEnds, TypeInv, TypeOK, CountsEntries, FreshIds, Places
<1>21. CASE WaitTimesOut
  <2>1. poisoned' \in BOOLEAN /\ shuttingDown' \in BOOLEAN
    BY <1>21 DEF TypeInv, TypeOK, WaitTimesOut, PollCaller, ShutDown, SetAbort
  <2>2. ready' \in 0..MaxReq /\ abort' \in {"none", "shutdown", "owner_down"}
    BY <1>21, BoundsAssumption DEF TypeInv, TypeOK, WaitTimesOut, PollCaller, ShutDown, SetAbort
  <2>. QED
    BY <1>0, <1>21, <2>1, <2>2, BoundsAssumption
    DEF WaitTimesOut, PollCaller, TypeInv, TypeOK, CountsEntries, FreshIds, Places
<1>22. CASE AsyncCall
  <2>1. reqId + 1 \in Ids /\ CountsEntries'
    BY <1>22, AsyncCallCounts
  <2>. QED
    BY <1>0, <1>22, <2>1, BoundsAssumption DEF AsyncCall, TypeInv, TypeOK, FreshIds, Places
<1>23. CASE PostAsync
  <2>1. CASE CallerAlive
    <3>1. UNCHANGED <<entries, count, shuttingDown, ready, abort>>
      BY <1>23, <2>1 DEF PostAsync
    <3>2. handed' \subseteq Evals \X Ids
      BY <1>23, <2>1 DEF PostAsync, TypeInv, TypeOK, Control, InEval
    <3>. QED
      BY <1>0, <1>23, <3>1, <3>2 DEF PostAsync, TypeInv, TypeOK, CountsEntries, FreshIds, Places
  <2>2. CASE ~CallerAlive
    <3>1. RemoveEntry(reqId)
      BY <1>23, <2>2 DEF PostAsync
    <3>2. entries' \subseteq entries /\ count' \in Nat /\ CountsEntries'
      BY <3>1, RemoveEntryCounts DEF TypeInv
    <3>. QED
      BY <1>0, <1>23, <2>2, <3>2, BoundsAssumption DEF PostAsync, ShutDown, SetAbort, TypeInv,
         TypeOK, FreshIds, Places
  <2>. QED
    BY <2>1, <2>2
<1>24. CASE AwaitPromise
  BY <1>24, <1>0 DEF AwaitPromise, TypeInv, TypeOK, CountsEntries, FreshIds, Places
<1>25. CASE TakeResolution
  <2>. DEFINE id == Head(resolutions)
  <2>1. id \in Ids /\ resolutions' \in Seq(Ids)
    BY <1>25, HeadTailProperties DEF TakeResolution, ApplyResolution, TypeInv, TypeOK
  <2>2. RemoveEntry(id)
    BY <1>25 DEF TakeResolution, ApplyResolution
  <2>3. entries' \subseteq entries /\ count' \in Nat /\ CountsEntries'
    BY <2>2, RemoveEntryCounts DEF TypeInv
  <2>. QED
    BY <1>0, <1>25, <2>1, <2>3 DEF TakeResolution, ApplyResolution, TypeInv, TypeOK, FreshIds,
       Places
<1>26. CASE WaitExternal
  BY <1>26, <1>0 DEF WaitExternal, TypeInv, TypeOK, CountsEntries, FreshIds, Places
<1>27. CASE ExternalArrives
  <2>. DEFINE id == Head(resolutions)
  <2>1. id \in Ids /\ resolutions' \in Seq(Ids)
    BY <1>27, HeadTailProperties DEF ExternalArrives, ApplyResolution, TypeInv, TypeOK
  <2>2. RemoveEntry(id)
    BY <1>27 DEF ExternalArrives, ApplyResolution
  <2>3. entries' \subseteq entries /\ count' \in Nat /\ CountsEntries'
    BY <2>2, RemoveEntryCounts DEF TypeInv
  <2>. QED
    BY <1>0, <1>27, <2>1, <2>3 DEF ExternalArrives, ApplyResolution, TypeInv, TypeOK,
       FreshIds, Places
<1>28. CASE ExternalGivesUp
  BY <1>28, <1>0 DEF ExternalGivesUp, TypeInv, TypeOK, CountsEntries, FreshIds, Places
<1>29. CASE ExternalTimesOut
  <2>1. poisoned' \in BOOLEAN /\ shuttingDown' \in BOOLEAN
    BY <1>29 DEF TypeInv, TypeOK, ExternalTimesOut, PollCaller, ShutDown, SetAbort
  <2>2. ready' \in 0..MaxReq /\ abort' \in {"none", "shutdown", "owner_down"}
    BY <1>29, BoundsAssumption DEF TypeInv, TypeOK, ExternalTimesOut, PollCaller, ShutDown,
       SetAbort
  <2>. QED
    BY <1>0, <1>29, <2>1, <2>2, BoundsAssumption
    DEF ExternalTimesOut, PollCaller, TypeInv, TypeOK, CountsEntries, FreshIds, Places
<1>30. CASE InterruptOwnerDead
  <2>1. poisoned' \in BOOLEAN /\ shuttingDown' \in BOOLEAN
    BY <1>30 DEF TypeInv, TypeOK, InterruptOwnerDead, ShutDown, SetAbort
  <2>2. ready' \in 0..MaxReq /\ abort' \in {"none", "shutdown", "owner_down"}
    BY <1>30, BoundsAssumption DEF TypeInv, TypeOK, InterruptOwnerDead, ShutDown, SetAbort
  <2>. QED
    BY <1>0, <1>30, <2>1, <2>2, BoundsAssumption
    DEF InterruptOwnerDead, TypeInv, TypeOK, CountsEntries, FreshIds, Places
<1>31. CASE EndEval
  BY <1>31, <1>0 DEF EndEval, TypeInv, TypeOK, CountsEntries, FreshIds, Places
<1>32. CASE \E p \in Procs : Exit(p)
  BY <1>32, <1>0 DEF Exit, TypeInv, TypeOK, CountsEntries, FreshIds, Places
<1>33. CASE UNCHANGED vars
  BY <1>33, <1>0 DEF vars, TypeInv, TypeOK, CountsEntries, FreshIds, Places
<1>. QED
  BY <1>1, <1>2, <1>3, <1>4, <1>5, <1>6, <1>7, <1>8, <1>9, <1>10, <1>11, <1>12, <1>13,
     <1>14, <1>15, <1>16, <1>17, <1>18, <1>19, <1>20, <1>21, <1>22, <1>23, <1>24, <1>25,
     <1>26, <1>27, <1>28, <1>29, <1>30, <1>31, <1>32, <1>33 DEF Next, NifStep, ThreadStep

\* Every variable keeps its type, whatever the interleaving of the thread, the NIFs
\* and the exits of processes.
THEOREM TypeCorrect == Spec => []TypeOK
<1>1. TypeInv => TypeOK
  BY DEF TypeInv
<1>. QED
  BY <1>1, InitTypeInv, StepTypeInv, PTL DEF Spec

\* async_entries_count is the number of entries, and never above the limit.
THEOREM EntriesCounted == Spec => []CountsEntries
<1>1. TypeInv => CountsEntries
  BY DEF TypeInv
<1>. QED
  BY <1>1, InitTypeInv, StepTypeInv, PTL DEF Spec

-----------------------------------------------------------------------------
(* Commands: one at a time, and none lost.                                 *)

\* The thread drains the queue, and ends, only when no command can be added.
StoppedQueue == pc \in {"drain", "ended"} => shuttingDown

\* The thread executes only commands that an NIF accepted.
HandsAccepted == cmd # NoCommand => Accepted(cmd)

\* It cleans up only after it has replied.
HandsAnswered == pc \in {"cleanup", "check"} => replies[cmd] > 0

CommandInv == OneCommand /\ NothingLost /\ StoppedQueue /\ HandsAccepted /\ HandsAnswered

\* busy keeps the queue at one command at most.
LEMMA ShortQueue ==
  ASSUME TypeInv, OneCommand
  PROVE  queue = <<>> \/ \E c \in Commands : queue = <<c>>
<1>1. queue \in Seq(Commands) /\ Len(queue) \in Nat
  BY LenProperties DEF TypeInv, TypeOK
<1>2. Unfinished \in {0, 1}
  BY DEF Unfinished
<1>3. Len(queue) + Unfinished \in {0, 1}
  BY DEF OneCommand
<1>4. \A n \in Nat, u \in {0, 1} : n + u \in {0, 1} => n \in {0, 1}
  OBVIOUS
<1>5. Len(queue) \in {0, 1}
  BY <1>1, <1>2, <1>3, <1>4, Zenon
<1>. QED
  BY <1>1, <1>5

\* The queued commands of such a queue.
LEMMA QueuedInShort ==
  ASSUME NEW c, NEW d
  PROVE  /\ queue = <<>> => ~Queued(c)
         /\ queue = <<d>> => (Queued(c) <=> c = d)
         /\ queue' = <<>> => ~Queued(c)'
         /\ queue' = <<d>> => (Queued(c)' <=> c = d)
  BY DEF Queued

\* A step that leaves the commands alone and does not cross the places where
\* they are counted otherwise.
LEMMA QuietStep ==
  ASSUME CommandInv,
         UNCHANGED <<queue, busy, caller, replies, cmd>>,
         pc' = pc \/ pc' \notin {"send", "cleanup", "check", "ended"},
         pc \notin {"send", "cleanup", "check"} \/ pc' = pc,
         shuttingDown => shuttingDown',
         pc' = "drain" => pc = "drain" \/ shuttingDown'
  PROVE  CommandInv'
<1>1. \A c \in Commands : Queued(c)' <=> Queued(c)
  BY DEF Queued
<1>2. \A c \in Commands : InHand(c)' <=> InHand(c)
  BY DEF InHand
<1>3. OneCommand' /\ StoppedQueue' /\ HandsAccepted' /\ HandsAnswered'
  BY DEF CommandInv, OneCommand, Unfinished, StoppedQueue, HandsAccepted, HandsAnswered,
     Accepted
<1>4. NothingLost'
  BY <1>1, <1>2 DEF CommandInv, NothingLost, Accepted
<1>. QED
  BY <1>3, <1>4 DEF CommandInv

\* There is no command at the start.
LEMMA InitCommandInv == Init => CommandInv
<1>. SUFFICES ASSUME Init PROVE CommandInv
  OBVIOUS
<1>1. \A c \in Commands : ~Queued(c) /\ ~InHand(c)
  BY CommandsAssumption DEF Init, Queued, InHand
<1>2. NothingLost
  BY <1>1 DEF Init, NothingLost, Accepted
<1>. QED
  BY <1>2 DEF Init, CommandInv, OneCommand, Unfinished, StoppedQueue, HandsAccepted,
         HandsAnswered

\* Every step accounts for the commands.
LEMMA StepCommandInv == TypeInv /\ CommandInv /\ [Next]_vars => CommandInv'
<1>. SUFFICES ASSUME TypeInv, CommandInv, [Next]_vars PROVE CommandInv'
  OBVIOUS
<1>1. CASE \E c \in Commands : Enqueue(c)
  <2>1. PICK c \in Commands : Enqueue(c)
    BY <1>1
  <2>2. CASE poisoned \/ shuttingDown \/ busy
    BY <2>1, <2>2, QuietStep DEF Enqueue
  <2>3. CASE ~(poisoned \/ shuttingDown \/ busy)
    <3>1. Unfinished = 0 /\ queue = <<>>
      BY <2>3, ShortQueue DEF CommandInv, OneCommand, Unfinished, TypeInv, TypeOK
    <3>2. queue' = <<c>> /\ busy' = TRUE /\ UNCHANGED <<pc, cmd, replies, shuttingDown>>
      BY <2>1, <2>3, <3>1 DEF Enqueue
    <3>3. caller' = [caller EXCEPT ![c] = owner] /\ caller[c] = NoProc /\ owner # NoProc
      BY <2>1, <2>3, CommandsAssumption DEF Enqueue, Submitted, TypeInv, TypeOK
    <3>4. ~InHand(c) /\ replies[c] = 0
      BY <3>3 DEF CommandInv, NothingLost, Accepted, TypeInv, TypeOK
    <3>5. ASSUME NEW d \in Commands
          PROVE  /\ InHand(d)' <=> InHand(d)
                 /\ Accepted(d)' <=> (d = c \/ Accepted(d))
                 /\ Queued(d)' <=> d = c
                 /\ ~Queued(d)
      BY <3>1, <3>2, <3>3, QueuedInShort DEF InHand, Accepted, TypeInv, TypeOK
    <3>6. NothingLost'
      BY <2>3, <3>2, <3>4, <3>5 DEF CommandInv, NothingLost, StoppedQueue
    <3>7. OneCommand' /\ StoppedQueue' /\ HandsAnswered'
      BY <3>1, <3>2 DEF CommandInv, OneCommand, Unfinished, StoppedQueue, HandsAnswered
    <3>8. HandsAccepted'
      BY <3>2, <3>5 DEF CommandInv, HandsAccepted, TypeInv, TypeOK
    <3>. QED
      BY <3>6, <3>7, <3>8 DEF CommandInv
  <2>. QED
    BY <2>2, <2>3
<1>2. CASE \E c \in Evals, id \in Ids : Signal(c, id)
  BY <1>2, QuietStep DEF Signal, Current
<1>3. CASE \E c \in Evals, id \in Ids : Resolve(c, id)
  BY <1>3, QuietStep DEF Resolve, Current
<1>4. CASE \E p \in Heirs : Transfer(p)
  BY <1>4, QuietStep DEF Transfer
<1>5. CASE Destroy
  BY <1>5, QuietStep DEF Destroy
<1>6. CASE DestroyAborts
  BY <1>6, QuietStep DEF DestroyAborts, SetAbort
<1>7. CASE Dequeue
  <2>1. PICK c \in Commands : queue = <<c>>
    BY <1>7, ShortQueue DEF Dequeue, CommandInv
  <2>2. /\ cmd' = c /\ queue' = <<>> /\ pc' \in {"js", "native"}
        /\ UNCHANGED <<busy, caller, replies, shuttingDown>>
    BY <1>7, <2>1 DEF Dequeue
  <2>3. pc = "dequeue" /\ cmd = NoCommand /\ c # NoCommand
    BY <1>7, CommandsAssumption DEF Dequeue, TypeInv, Control
  <2>4. ASSUME NEW d \in Commands
        PROVE  /\ ~InHand(d) /\ (InHand(d)' <=> d = c)
               /\ ~Queued(d)' /\ (Queued(d) <=> d = c)
               /\ Accepted(d)' <=> Accepted(d)
    <3>1. ~InHand(d) /\ (InHand(d)' <=> d = c)
      BY <2>2, <2>3, CommandsAssumption DEF InHand
    <3>2. ~Queued(d)' /\ (Queued(d) <=> d = c)
      BY <2>1, <2>2, QueuedInShort
    <3>. QED
      BY <2>2, <3>1, <3>2 DEF Accepted
  <2>5. NothingLost'
    BY <2>2, <2>4 DEF CommandInv, NothingLost, TypeInv, TypeOK
  <2>6. OneCommand' /\ StoppedQueue' /\ HandsAnswered'
    BY <2>1, <2>2, <2>3 DEF CommandInv, OneCommand, Unfinished, StoppedQueue, HandsAnswered
  <2>7. HandsAccepted'
    <3>1. Accepted(c)
      BY <2>4 DEF CommandInv, NothingLost, TypeInv, TypeOK
    <3>. QED
      BY <2>2, <3>1 DEF HandsAccepted, Accepted
  <2>. QED
    BY <2>5, <2>6, <2>7 DEF CommandInv
<1>8. CASE StopWaiting
  BY <1>8, QuietStep DEF StopWaiting
<1>9. CASE ReadOwner
  BY <1>9, QuietStep DEF ReadOwner
<1>10. CASE CheckOwner
  BY <1>10, QuietStep DEF CheckOwner
<1>11. CASE RunNative
  BY <1>11, QuietStep DEF RunNative
<1>12. CASE Complete
  <2>1. queue = <<>>
    BY <1>12, ShortQueue DEF Complete, CommandInv, OneCommand, Unfinished, TypeInv, Control
  <2>2. \A d \in Commands : (InHand(d)' <=> InHand(d)) /\ (Queued(d)' <=> Queued(d))
    BY <1>12 DEF Complete, InHand, Queued
  <2>. QED
    BY <1>12, <2>1, <2>2
    DEF Complete, CommandInv, OneCommand, Unfinished, NothingLost, StoppedQueue, HandsAccepted,
        HandsAnswered, Accepted
<1>13. CASE SendReply
  <2>1. cmd \in Commands
    BY <1>13 DEF SendReply, TypeInv, TypeOK, Control
  <2>2. pc' \in {"cleanup", "check"}
    BY <1>13 DEF SendReply
  <2>3. ASSUME NEW d \in Commands
        PROVE  /\ InHand(d) <=> d = cmd
               /\ ~InHand(d)'
               /\ Queued(d)' <=> Queued(d)
               /\ replies'[d] = IF d = cmd THEN replies[d] + 1 ELSE replies[d]
    BY <1>13, <2>1, <2>2 DEF SendReply, InHand, Queued, TypeInv, TypeOK
  <2>4. NothingLost'
    BY <1>13, <2>2, <2>3 DEF SendReply, CommandInv, NothingLost, Accepted, TypeInv, TypeOK
  <2>5. replies'[cmd] > 0
    BY <2>1, <2>3 DEF TypeInv, TypeOK
  <2>. QED
    BY <1>13, <2>2, <2>4, <2>5
    DEF SendReply, CommandInv, OneCommand, Unfinished, StoppedQueue, HandsAccepted,
        HandsAnswered, Accepted
<1>14. CASE Cleanup
  <2>1. \A d \in Commands : ~InHand(d)' /\ ~InHand(d) /\ (Queued(d)' <=> Queued(d))
    BY <1>14 DEF Cleanup, InHand, Queued
  <2>. QED
    BY <1>14, <2>1
    DEF Cleanup, CommandInv, OneCommand, Unfinished, NothingLost, StoppedQueue, HandsAccepted,
        HandsAnswered, Accepted
<1>15. CASE ShouldStop
  <2>1. pc' \in {"drain", "dequeue"} /\ (pc' = "drain" => shuttingDown')
    BY <1>15 DEF ShouldStop
  <2>2. \A d \in Commands : ~InHand(d)' /\ ~InHand(d) /\ (Queued(d)' <=> Queued(d))
    BY <1>15, CommandsAssumption DEF ShouldStop, InHand, Queued
  <2>. QED
    BY <1>15, <2>1, <2>2
    DEF ShouldStop, CommandInv, OneCommand, Unfinished, NothingLost, StoppedQueue,
       HandsAccepted,
        HandsAnswered, Accepted
<1>16. CASE Drain
  <2>1. cmd = NoCommand /\ cmd' = NoCommand /\ queue' = <<>> /\ pc' = "ended"
    BY <1>16 DEF Drain, TypeInv, Control
  <2>2. ASSUME NEW d \in Commands
        PROVE  /\ ~InHand(d) /\ ~InHand(d)' /\ ~Queued(d)'
               /\ replies'[d] = IF Queued(d) THEN replies[d] + 1 ELSE replies[d]
    <3>1. ~InHand(d) /\ ~InHand(d)'
      BY <2>1, CommandsAssumption DEF InHand
    <3>2. ~Queued(d)'
      BY <2>1, QueuedInShort
    <3>3. replies'[d] = IF Queued(d) THEN replies[d] + 1 ELSE replies[d]
      BY <1>16 DEF Drain, Queued
    <3>. QED
      BY <3>1, <3>2, <3>3
  <2>3. NothingLost'
    <3>1. UNCHANGED caller
      BY <1>16 DEF Drain
    <3>2. ASSUME NEW d \in Commands
          PROVE  replies'[d] = IF Accepted(d)' THEN 1 ELSE 0
      <4>1. replies[d] \in Nat /\ (Accepted(d)' <=> Accepted(d))
        BY <3>1 DEF Accepted, TypeInv, TypeOK
      <4>2. replies[d] + (IF Queued(d) THEN 1 ELSE 0) = IF Accepted(d) THEN 1 ELSE 0
        BY <2>2, <4>1 DEF CommandInv, NothingLost
      <4>. QED
        BY <2>2, <4>1, <4>2
    <3>3. \A d \in Commands : replies'[d] \in Nat
      BY <3>2
    <3>. QED
      BY <2>1, <2>2, <3>2, <3>3 DEF NothingLost
  <2>4. busy' = FALSE
    <3>1. CASE queue = <<>>
      BY <1>16, <2>1, <3>1 DEF Drain, CommandInv, OneCommand, Unfinished, TypeInv, TypeOK
    <3>2. CASE queue # <<>>
      BY <1>16, <3>2 DEF Drain, TypeInv, TypeOK
    <3>. QED
      BY <3>1, <3>2
  <2>. QED
    BY <1>16, <2>1, <2>3, <2>4
    DEF Drain, CommandInv, OneCommand, Unfinished, StoppedQueue, HandsAccepted, HandsAnswered
<1>17. CASE CallerLost
  BY <1>17, QuietStep DEF CallerLost, ShutDown, SetAbort
<1>18. CASE SyncCall
  BY <1>18, QuietStep DEF SyncCall
<1>19. CASE PostSync
  BY <1>19, QuietStep DEF PostSync, ShutDown, SetAbort
<1>20. CASE WaitEnds
  BY <1>20, QuietStep DEF WaitEnds
<1>21. CASE WaitTimesOut
  BY <1>21, QuietStep DEF WaitTimesOut, PollCaller, ShutDown, SetAbort
<1>22. CASE AsyncCall
  BY <1>22, QuietStep DEF AsyncCall
<1>23. CASE PostAsync
  BY <1>23, QuietStep DEF PostAsync, RemoveEntry, ShutDown, SetAbort
<1>24. CASE AwaitPromise
  BY <1>24, QuietStep DEF AwaitPromise
<1>25. CASE TakeResolution
  BY <1>25, QuietStep DEF TakeResolution, ApplyResolution, RemoveEntry
<1>26. CASE WaitExternal
  BY <1>26, QuietStep DEF WaitExternal
<1>27. CASE ExternalArrives
  BY <1>27, QuietStep DEF ExternalArrives, ApplyResolution, RemoveEntry
<1>28. CASE ExternalGivesUp
  BY <1>28, QuietStep DEF ExternalGivesUp
<1>29. CASE ExternalTimesOut
  BY <1>29, QuietStep DEF ExternalTimesOut, PollCaller, ShutDown, SetAbort
<1>30. CASE InterruptOwnerDead
  BY <1>30, QuietStep DEF InterruptOwnerDead, ShutDown, SetAbort
<1>31. CASE EndEval
  BY <1>31, QuietStep DEF EndEval
<1>32. CASE \E p \in Procs : Exit(p)
  BY <1>32, QuietStep DEF Exit
<1>33. CASE UNCHANGED vars
  BY <1>33, QuietStep DEF vars
<1>. QED
  BY <1>1, <1>2, <1>3, <1>4, <1>5, <1>6, <1>7, <1>8, <1>9, <1>10, <1>11, <1>12, <1>13,
     <1>14, <1>15, <1>16, <1>17, <1>18, <1>19, <1>20, <1>21, <1>22, <1>23, <1>24, <1>25,
     <1>26, <1>27, <1>28, <1>29, <1>30, <1>31, <1>32, <1>33 DEF Next, NifStep, ThreadStep

\* The conjunction that the theorems below rest on.
Inv == TypeInv /\ CommandInv

\* Inv is inductive.
LEMMA Invariance == Spec => []Inv
<1>1. Init => Inv
  BY InitTypeInv, InitCommandInv DEF Inv
<1>2. Inv /\ [Next]_vars => Inv'
  BY StepTypeInv, StepCommandInv DEF Inv
<1>. QED
  BY <1>1, <1>2, PTL DEF Spec

\* busy admits one command at a time, and is cleared with the last one.
THEOREM OneCommandAtATime == Spec => []OneCommand
<1>1. Inv => OneCommand
  BY DEF Inv, CommandInv
<1>. QED
  BY <1>1, Invariance, PTL

\* An accepted command is queued, in hand or answered once, at whatever moment
\* the destructor, an exit or a dead owner shuts the context down.
THEOREM NoCommandLost == Spec => []NothingLost
<1>1. Inv => NothingLost
  BY DEF Inv, CommandInv
<1>. QED
  BY <1>1, Invariance, PTL

\* The two together.
THEOREM CommandsAreKept == Spec => []CommandsKept
<1>1. OneCommand /\ NothingLost => CommandsKept
  BY DEF CommandsKept
<1>. QED
  BY <1>1, OneCommandAtATime, NoCommandLost, PTL

-----------------------------------------------------------------------------
(* Aborts, results and promises.                                           *)

\* The abort reason follows the flag, also in the destructor's two sections.
AbortInv == AbortMeansShutdown /\ (dtor # "no" => shuttingDown)

\* Every step that sets the abort reason comes after the flag or sets it.
LEMMA StepAbortInv == AbortInv /\ [Next]_vars => AbortInv'
<1>. SUFFICES ASSUME AbortInv, [Next]_vars PROVE AbortInv'
  OBVIOUS
<1>1. CASE \E c \in Commands : Enqueue(c)
  BY <1>1 DEF Enqueue, AbortInv, AbortMeansShutdown
<1>2. CASE \E c \in Evals, id \in Ids : Signal(c, id)
  BY <1>2 DEF Signal, Current, AbortInv, AbortMeansShutdown
<1>3. CASE \E c \in Evals, id \in Ids : Resolve(c, id)
  BY <1>3 DEF Resolve, Current, AbortInv, AbortMeansShutdown
<1>4. CASE \E p \in Heirs : Transfer(p)
  BY <1>4 DEF Transfer, AbortInv, AbortMeansShutdown
<1>5. CASE Destroy
  BY <1>5 DEF Destroy, AbortInv, AbortMeansShutdown
<1>6. CASE DestroyAborts
  BY <1>6 DEF DestroyAborts, SetAbort, AbortInv, AbortMeansShutdown
<1>7. CASE Dequeue
  BY <1>7 DEF Dequeue, AbortInv, AbortMeansShutdown
<1>8. CASE StopWaiting
  BY <1>8 DEF StopWaiting, AbortInv, AbortMeansShutdown
<1>9. CASE ReadOwner
  BY <1>9 DEF ReadOwner, AbortInv, AbortMeansShutdown
<1>10. CASE CheckOwner
  BY <1>10 DEF CheckOwner, AbortInv, AbortMeansShutdown
<1>11. CASE RunNative
  BY <1>11 DEF RunNative, AbortInv, AbortMeansShutdown
<1>12. CASE Complete
  BY <1>12 DEF Complete, AbortInv, AbortMeansShutdown
<1>13. CASE SendReply
  BY <1>13 DEF SendReply, AbortInv, AbortMeansShutdown
<1>14. CASE Cleanup
  BY <1>14 DEF Cleanup, AbortInv, AbortMeansShutdown
<1>15. CASE ShouldStop
  BY <1>15 DEF ShouldStop, AbortInv, AbortMeansShutdown
<1>16. CASE Drain
  BY <1>16 DEF Drain, AbortInv, AbortMeansShutdown
<1>17. CASE CallerLost
  BY <1>17 DEF CallerLost, ShutDown, SetAbort, AbortInv, AbortMeansShutdown
<1>18. CASE SyncCall
  BY <1>18 DEF SyncCall, AbortInv, AbortMeansShutdown
<1>19. CASE PostSync
  BY <1>19 DEF PostSync, ShutDown, SetAbort, AbortInv, AbortMeansShutdown
<1>20. CASE WaitEnds
  BY <1>20 DEF WaitEnds, AbortInv, AbortMeansShutdown
<1>21. CASE WaitTimesOut
  BY <1>21 DEF WaitTimesOut, PollCaller, ShutDown, SetAbort, AbortInv, AbortMeansShutdown
<1>22. CASE AsyncCall
  BY <1>22 DEF AsyncCall, AbortInv, AbortMeansShutdown
<1>23. CASE PostAsync
  BY <1>23 DEF PostAsync, RemoveEntry, ShutDown, SetAbort, AbortInv, AbortMeansShutdown
<1>24. CASE AwaitPromise
  BY <1>24 DEF AwaitPromise, AbortInv, AbortMeansShutdown
<1>25. CASE TakeResolution
  BY <1>25 DEF TakeResolution, ApplyResolution, RemoveEntry, AbortInv, AbortMeansShutdown
<1>26. CASE WaitExternal
  BY <1>26 DEF WaitExternal, AbortInv, AbortMeansShutdown
<1>27. CASE ExternalArrives
  BY <1>27 DEF ExternalArrives, ApplyResolution, RemoveEntry, AbortInv, AbortMeansShutdown
<1>28. CASE ExternalGivesUp
  BY <1>28 DEF ExternalGivesUp, AbortInv, AbortMeansShutdown
<1>29. CASE ExternalTimesOut
  BY <1>29 DEF ExternalTimesOut, PollCaller, ShutDown, SetAbort, AbortInv,
     AbortMeansShutdown
<1>30. CASE InterruptOwnerDead
  BY <1>30 DEF InterruptOwnerDead, ShutDown, SetAbort, AbortInv, AbortMeansShutdown
<1>31. CASE EndEval
  BY <1>31 DEF EndEval, AbortInv, AbortMeansShutdown
<1>32. CASE \E p \in Procs : Exit(p)
  BY <1>32 DEF Exit, AbortInv, AbortMeansShutdown
<1>33. CASE UNCHANGED vars
  BY <1>33 DEF vars, AbortInv, AbortMeansShutdown
<1>. QED
  BY <1>1, <1>2, <1>3, <1>4, <1>5, <1>6, <1>7, <1>8, <1>9, <1>10, <1>11, <1>12, <1>13,
     <1>14, <1>15, <1>16, <1>17, <1>18, <1>19, <1>20, <1>21, <1>22, <1>23, <1>24, <1>25,
     <1>26, <1>27, <1>28, <1>29, <1>30, <1>31, <1>32, <1>33 DEF Next, NifStep, ThreadStep

\* No call is aborted in a context that goes on: an abort reason is set only once
\* the context shuts down.
THEOREM AbortOnlyInShutdown == Spec => []AbortMeansShutdown
<1>1. Init => AbortInv
  BY DEF Init, AbortInv, AbortMeansShutdown
<1>2. AbortInv => AbortMeansShutdown
  BY DEF AbortInv
<1>. QED
  BY <1>1, <1>2, StepAbortInv, PTL DEF Spec

\* The slot holds nothing or the answer to the current request, from the moment
\* the request is made: an answer may come as soon as the message is sent.
SlotInv ==
  /\ pc \in {"post", "wait"} => ready \in {0, reqId} /\ (abort # "none" => ready = 0)
  /\ pc = "wait" => WaitingRequest \in asked

\* Every step keeps the slot to the current request.
LEMMA StepSlotInv == SlotInv /\ [Next]_vars => SlotInv'
<1>. SUFFICES ASSUME SlotInv, [Next]_vars PROVE SlotInv'
  OBVIOUS
<1>1. CASE \E c \in Commands : Enqueue(c)
  BY <1>1 DEF Enqueue, SlotInv, WaitingRequest
<1>2. CASE \E c \in Evals, id \in Ids : Signal(c, id)
  BY <1>2 DEF Signal, Current, SlotInv, WaitingRequest
<1>3. CASE \E c \in Evals, id \in Ids : Resolve(c, id)
  BY <1>3 DEF Resolve, Current, SlotInv, WaitingRequest
<1>4. CASE \E p \in Heirs : Transfer(p)
  BY <1>4 DEF Transfer, SlotInv, WaitingRequest
<1>5. CASE Destroy
  BY <1>5 DEF Destroy, SlotInv, WaitingRequest
<1>6. CASE DestroyAborts
  BY <1>6 DEF DestroyAborts, SetAbort, SlotInv, WaitingRequest
<1>7. CASE Dequeue
  BY <1>7 DEF Dequeue, SlotInv, WaitingRequest
<1>8. CASE StopWaiting
  BY <1>8 DEF StopWaiting, SlotInv, WaitingRequest
<1>9. CASE ReadOwner
  BY <1>9 DEF ReadOwner, SlotInv, WaitingRequest
<1>10. CASE CheckOwner
  BY <1>10 DEF CheckOwner, SlotInv, WaitingRequest
<1>11. CASE RunNative
  BY <1>11 DEF RunNative, SlotInv, WaitingRequest
<1>12. CASE Complete
  BY <1>12 DEF Complete, SlotInv, WaitingRequest
<1>13. CASE SendReply
  BY <1>13 DEF SendReply, SlotInv, WaitingRequest
<1>14. CASE Cleanup
  BY <1>14 DEF Cleanup, SlotInv, WaitingRequest
<1>15. CASE ShouldStop
  BY <1>15 DEF ShouldStop, SlotInv, WaitingRequest
<1>16. CASE Drain
  BY <1>16 DEF Drain, SlotInv, WaitingRequest
<1>17. CASE CallerLost
  BY <1>17 DEF CallerLost, ShutDown, SetAbort, SlotInv, WaitingRequest
<1>18. CASE SyncCall
  BY <1>18 DEF SyncCall, SlotInv, WaitingRequest
<1>19. CASE PostSync
  BY <1>19 DEF PostSync, ShutDown, SetAbort, SlotInv, WaitingRequest
<1>20. CASE WaitEnds
  BY <1>20 DEF WaitEnds, SlotInv, WaitingRequest
<1>21. CASE WaitTimesOut
  BY <1>21 DEF WaitTimesOut, PollCaller, ShutDown, SetAbort, SlotInv, WaitingRequest
<1>22. CASE AsyncCall
  BY <1>22 DEF AsyncCall, SlotInv, WaitingRequest
<1>23. CASE PostAsync
  BY <1>23 DEF PostAsync, RemoveEntry, ShutDown, SetAbort, SlotInv, WaitingRequest
<1>24. CASE AwaitPromise
  BY <1>24 DEF AwaitPromise, SlotInv, WaitingRequest
<1>25. CASE TakeResolution
  BY <1>25 DEF TakeResolution, ApplyResolution, RemoveEntry, SlotInv, WaitingRequest
<1>26. CASE WaitExternal
  BY <1>26 DEF WaitExternal, SlotInv, WaitingRequest
<1>27. CASE ExternalArrives
  BY <1>27 DEF ExternalArrives, ApplyResolution, RemoveEntry, SlotInv, WaitingRequest
<1>28. CASE ExternalGivesUp
  BY <1>28 DEF ExternalGivesUp, SlotInv, WaitingRequest
<1>29. CASE ExternalTimesOut
  BY <1>29 DEF ExternalTimesOut, PollCaller, ShutDown, SetAbort, SlotInv, WaitingRequest
<1>30. CASE InterruptOwnerDead
  BY <1>30 DEF InterruptOwnerDead, ShutDown, SetAbort, SlotInv, WaitingRequest
<1>31. CASE EndEval
  BY <1>31 DEF EndEval, SlotInv, WaitingRequest
<1>32. CASE \E p \in Procs : Exit(p)
  BY <1>32 DEF Exit, SlotInv, WaitingRequest
<1>33. CASE UNCHANGED vars
  BY <1>33 DEF vars, SlotInv, WaitingRequest
<1>. QED
  BY <1>1, <1>2, <1>3, <1>4, <1>5, <1>6, <1>7, <1>8, <1>9, <1>10, <1>11, <1>12, <1>13,
     <1>14, <1>15, <1>16, <1>17, <1>18, <1>19, <1>20, <1>21, <1>22, <1>23, <1>24, <1>25,
     <1>26, <1>27, <1>28, <1>29, <1>30, <1>31, <1>32, <1>33 DEF Next, NifStep, ThreadStep

\* A waiting host call gets the answer to its own request or none: late, repeated
\* and forged answers never reach it.
THEOREM OwnResult == Spec => []RightResult
<1>1. Init => SlotInv
  BY DEF Init, SlotInv
<1>2. SlotInv => RightResult
  BY DEF SlotInv, RightResult
<1>. QED
  BY <1>1, <1>2, StepSlotInv, PTL DEF Spec

\* A promise is settled only as its entry goes.
LEMMA StepSettled == TypeInv /\ SettledAtMostOnce /\ [Next]_vars => SettledAtMostOnce'
<1>. SUFFICES ASSUME TypeInv, SettledAtMostOnce, [Next]_vars PROVE SettledAtMostOnce'
  OBVIOUS
<1>1. CASE \E c \in Commands : Enqueue(c)
  BY <1>1 DEF Enqueue, SettledAtMostOnce
<1>2. CASE \E c \in Evals, id \in Ids : Signal(c, id)
  BY <1>2 DEF Signal, Current, SettledAtMostOnce
<1>3. CASE \E c \in Evals, id \in Ids : Resolve(c, id)
  BY <1>3 DEF Resolve, Current, SettledAtMostOnce
<1>4. CASE \E p \in Heirs : Transfer(p)
  BY <1>4 DEF Transfer, SettledAtMostOnce
<1>5. CASE Destroy
  BY <1>5 DEF Destroy, SettledAtMostOnce
<1>6. CASE DestroyAborts
  BY <1>6 DEF DestroyAborts, SetAbort, SettledAtMostOnce
<1>7. CASE Dequeue
  BY <1>7 DEF Dequeue, SettledAtMostOnce
<1>8. CASE StopWaiting
  BY <1>8 DEF StopWaiting, SettledAtMostOnce
<1>9. CASE ReadOwner
  BY <1>9 DEF ReadOwner, SettledAtMostOnce
<1>10. CASE CheckOwner
  BY <1>10 DEF CheckOwner, SettledAtMostOnce
<1>11. CASE RunNative
  BY <1>11 DEF RunNative, SettledAtMostOnce
<1>12. CASE Complete
  BY <1>12 DEF Complete, SettledAtMostOnce
<1>13. CASE SendReply
  BY <1>13 DEF SendReply, SettledAtMostOnce
<1>14. CASE Cleanup
  BY <1>14 DEF Cleanup, SettledAtMostOnce, TypeInv, TypeOK
<1>15. CASE ShouldStop
  BY <1>15 DEF ShouldStop, SettledAtMostOnce
<1>16. CASE Drain
  BY <1>16 DEF Drain, SettledAtMostOnce
<1>17. CASE CallerLost
  BY <1>17 DEF CallerLost, ShutDown, SetAbort, SettledAtMostOnce
<1>18. CASE SyncCall
  BY <1>18 DEF SyncCall, SettledAtMostOnce
<1>19. CASE PostSync
  BY <1>19 DEF PostSync, ShutDown, SetAbort, SettledAtMostOnce
<1>20. CASE WaitEnds
  BY <1>20 DEF WaitEnds, SettledAtMostOnce
<1>21. CASE WaitTimesOut
  BY <1>21 DEF WaitTimesOut, PollCaller, ShutDown, SetAbort, SettledAtMostOnce
<1>22. CASE AsyncCall
  <2>1. reqId + 1 \in Ids /\ settled[reqId + 1] = 0
    BY <1>22, AsyncCallCounts DEF TypeInv, TypeOK, FreshIds
  <2>. QED
    BY <1>22, <2>1 DEF AsyncCall, SettledAtMostOnce, TypeInv, TypeOK
<1>23. CASE PostAsync
  <2>1. entries' \subseteq entries /\ UNCHANGED settled
    BY <1>23 DEF PostAsync, RemoveEntry
  <2>. QED
    BY <2>1 DEF SettledAtMostOnce, TypeInv, TypeOK
<1>24. CASE AwaitPromise
  BY <1>24 DEF AwaitPromise, SettledAtMostOnce
<1>25. CASE TakeResolution
  <2>. DEFINE id == Head(resolutions)
  <2>1. id \in Ids
    BY <1>25, HeadTailProperties DEF TakeResolution, ApplyResolution, TypeInv, TypeOK
  <2>2. entries' \subseteq entries /\ id \notin entries'
    BY <1>25 DEF TakeResolution, ApplyResolution, RemoveEntry
  <2>3. ASSUME NEW i \in Ids, i # id
        PROVE  settled'[i] = settled[i]
    BY <1>25, <2>3 DEF TakeResolution, ApplyResolution, TypeInv, TypeOK
  <2>4. settled'[id] = IF id \in entries THEN settled[id] + 1 ELSE settled[id]
    BY <1>25, <2>1 DEF TakeResolution, ApplyResolution, TypeInv, TypeOK
  <2>5. ASSUME NEW i \in Ids
        PROVE  settled'[i] + (IF i \in entries' THEN 1 ELSE 0) <= 1
    <3>1. settled[i] \in Nat /\ settled[i] + (IF i \in entries THEN 1 ELSE 0) <= 1
      BY DEF SettledAtMostOnce, TypeInv, TypeOK
    <3>2. CASE i = id
      BY <2>2, <2>4, <3>1, <3>2
    <3>3. CASE i # id
      BY <2>2, <2>3, <3>1, <3>3
    <3>. QED
      BY <3>2, <3>3
  <2>. QED
    BY <2>5 DEF SettledAtMostOnce
<1>26. CASE WaitExternal
  BY <1>26 DEF WaitExternal, SettledAtMostOnce
<1>27. CASE ExternalArrives
  <2>. DEFINE id == Head(resolutions)
  <2>1. id \in Ids
    BY <1>27, HeadTailProperties DEF ExternalArrives, ApplyResolution, TypeInv, TypeOK
  <2>2. entries' \subseteq entries /\ id \notin entries'
    BY <1>27 DEF ExternalArrives, ApplyResolution, RemoveEntry
  <2>3. ASSUME NEW i \in Ids, i # id
        PROVE  settled'[i] = settled[i]
    BY <1>27, <2>3 DEF ExternalArrives, ApplyResolution, TypeInv, TypeOK
  <2>4. settled'[id] = IF id \in entries THEN settled[id] + 1 ELSE settled[id]
    BY <1>27, <2>1 DEF ExternalArrives, ApplyResolution, TypeInv, TypeOK
  <2>5. ASSUME NEW i \in Ids
        PROVE  settled'[i] + (IF i \in entries' THEN 1 ELSE 0) <= 1
    <3>1. settled[i] \in Nat /\ settled[i] + (IF i \in entries THEN 1 ELSE 0) <= 1
      BY DEF SettledAtMostOnce, TypeInv, TypeOK
    <3>2. CASE i = id
      BY <2>2, <2>4, <3>1, <3>2
    <3>3. CASE i # id
      BY <2>2, <2>3, <3>1, <3>3
    <3>. QED
      BY <3>2, <3>3
  <2>. QED
    BY <2>5 DEF SettledAtMostOnce
<1>28. CASE ExternalGivesUp
  BY <1>28 DEF ExternalGivesUp, SettledAtMostOnce
<1>29. CASE ExternalTimesOut
  BY <1>29 DEF ExternalTimesOut, PollCaller, ShutDown, SetAbort, SettledAtMostOnce
<1>30. CASE InterruptOwnerDead
  BY <1>30 DEF InterruptOwnerDead, ShutDown, SetAbort, SettledAtMostOnce
<1>31. CASE EndEval
  BY <1>31 DEF EndEval, SettledAtMostOnce
<1>32. CASE \E p \in Procs : Exit(p)
  BY <1>32 DEF Exit, SettledAtMostOnce
<1>33. CASE UNCHANGED vars
  BY <1>33 DEF vars, SettledAtMostOnce
<1>. QED
  BY <1>1, <1>2, <1>3, <1>4, <1>5, <1>6, <1>7, <1>8, <1>9, <1>10, <1>11, <1>12, <1>13,
     <1>14, <1>15, <1>16, <1>17, <1>18, <1>19, <1>20, <1>21, <1>22, <1>23, <1>24, <1>25,
     <1>26, <1>27, <1>28, <1>29, <1>30, <1>31, <1>32, <1>33 DEF Next, NifStep, ThreadStep

\* However often a promise is resolved, and by whomever, it is settled once.
THEOREM SettledOnce == Spec => []SettledAtMostOnce
<1>1. Init => TypeInv /\ SettledAtMostOnce
  BY InitTypeInv DEF Init, SettledAtMostOnce
<1>2. TypeInv /\ SettledAtMostOnce /\ [Next]_vars => TypeInv' /\ SettledAtMostOnce'
  BY StepTypeInv, StepSettled
<1>. QED
  BY <1>1, <1>2, PTL DEF Spec

\* What an eval leaves is gone when the thread takes another command; another
\* command leaves nothing.
NothingLeft == entries = {} /\ count = 0 /\ resolutions = <<>>
SlateInv ==
  /\ CleanSlate
  /\ pc \in {"complete", "send"} /\ cmd \notin Evals => NothingLeft

\* What an eval adds, its end takes away before the next command.
LEMMA StepSlateInv == TypeInv /\ SlateInv /\ [Next]_vars => SlateInv'
<1>. SUFFICES ASSUME TypeInv, SlateInv, [Next]_vars PROVE SlateInv'
  OBVIOUS
<1>1. CASE \E c \in Commands : Enqueue(c)
  BY <1>1 DEF Enqueue, SlateInv, CleanSlate, NothingLeft, TypeInv, Control, InEval
<1>2. CASE \E c \in Evals, id \in Ids : Signal(c, id)
  BY <1>2 DEF Signal, Current, SlateInv, CleanSlate, NothingLeft, TypeInv, Control, InEval
<1>3. CASE \E c \in Evals, id \in Ids : Resolve(c, id)
  <2>1. PICK c \in Evals, id \in Ids : Resolve(c, id)
    BY <1>3
  <2>2. pc \in InEval \/ (pc = "complete" /\ cmd \in Evals)
    BY <2>1, CommandsAssumption DEF Resolve, Current, SlateInv, CleanSlate
  <2>. QED
    BY <2>1, <2>2 DEF Resolve, SlateInv, CleanSlate, NothingLeft, InEval
<1>4. CASE \E p \in Heirs : Transfer(p)
  BY <1>4 DEF Transfer, SlateInv, CleanSlate, NothingLeft, TypeInv, Control, InEval
<1>5. CASE Destroy
  BY <1>5 DEF Destroy, SlateInv, CleanSlate, NothingLeft, TypeInv, Control, InEval
<1>6. CASE DestroyAborts
  BY <1>6 DEF DestroyAborts, SetAbort, SlateInv, CleanSlate, NothingLeft, TypeInv, Control,
     InEval
<1>7. CASE Dequeue
  <2>1. Head(queue) \in Commands
    BY <1>7, HeadTailProperties DEF Dequeue, TypeInv, TypeOK
  <2>. QED
    BY <1>7, <2>1, CommandsAssumption DEF Dequeue, SlateInv, CleanSlate, NothingLeft, InEval
<1>8. CASE StopWaiting
  BY <1>8 DEF StopWaiting, SlateInv, CleanSlate, NothingLeft, TypeInv, Control, InEval
<1>9. CASE ReadOwner
  BY <1>9 DEF ReadOwner, SlateInv, CleanSlate, NothingLeft, TypeInv, Control, InEval
<1>10. CASE CheckOwner
  BY <1>10 DEF CheckOwner, SlateInv, CleanSlate, NothingLeft, TypeInv, Control, InEval
<1>11. CASE RunNative
  BY <1>11, CommandsAssumption DEF RunNative, SlateInv, CleanSlate, NothingLeft, TypeInv,
     Control, InEval
<1>12. CASE Complete
  BY <1>12 DEF Complete, SlateInv, CleanSlate, NothingLeft, TypeInv, Control, InEval
<1>13. CASE SendReply
  BY <1>13 DEF SendReply, SlateInv, CleanSlate, NothingLeft, TypeInv, Control, InEval
<1>14. CASE Cleanup
  BY <1>14 DEF Cleanup, SlateInv, CleanSlate, NothingLeft, TypeInv, Control, InEval
<1>15. CASE ShouldStop
  BY <1>15 DEF ShouldStop, SlateInv, CleanSlate, NothingLeft, TypeInv, Control, InEval
<1>16. CASE Drain
  BY <1>16 DEF Drain, SlateInv, CleanSlate, NothingLeft, TypeInv, Control, InEval
<1>17. CASE CallerLost
  BY <1>17 DEF CallerLost, ShutDown, SetAbort, SlateInv, CleanSlate, NothingLeft, TypeInv,
     Control, InEval
<1>18. CASE SyncCall
  BY <1>18 DEF SyncCall, SlateInv, CleanSlate, NothingLeft, TypeInv, Control, InEval
<1>19. CASE PostSync
  BY <1>19 DEF PostSync, ShutDown, SetAbort, SlateInv, CleanSlate, NothingLeft, TypeInv,
     Control, InEval
<1>20. CASE WaitEnds
  BY <1>20 DEF WaitEnds, SlateInv, CleanSlate, NothingLeft, TypeInv, Control, InEval
<1>21. CASE WaitTimesOut
  BY <1>21 DEF WaitTimesOut, PollCaller, ShutDown, SetAbort, SlateInv, CleanSlate,
     NothingLeft, TypeInv, Control, InEval
<1>22. CASE AsyncCall
  BY <1>22 DEF AsyncCall, SlateInv, CleanSlate, NothingLeft, TypeInv, Control, InEval
<1>23. CASE PostAsync
  BY <1>23 DEF PostAsync, RemoveEntry, ShutDown, SetAbort, SlateInv, CleanSlate,
     NothingLeft, TypeInv, Control, InEval
<1>24. CASE AwaitPromise
  BY <1>24 DEF AwaitPromise, SlateInv, CleanSlate, NothingLeft, TypeInv, Control, InEval
<1>25. CASE TakeResolution
  BY <1>25 DEF TakeResolution, ApplyResolution, RemoveEntry, SlateInv, CleanSlate,
     NothingLeft, TypeInv, Control, InEval
<1>26. CASE WaitExternal
  BY <1>26 DEF WaitExternal, SlateInv, CleanSlate, NothingLeft, TypeInv, Control, InEval
<1>27. CASE ExternalArrives
  BY <1>27 DEF ExternalArrives, ApplyResolution, RemoveEntry, SlateInv, CleanSlate,
     NothingLeft, TypeInv, Control, InEval
<1>28. CASE ExternalGivesUp
  BY <1>28 DEF ExternalGivesUp, SlateInv, CleanSlate, NothingLeft, TypeInv, Control, InEval
<1>29. CASE ExternalTimesOut
  BY <1>29 DEF ExternalTimesOut, PollCaller, ShutDown, SetAbort, SlateInv, CleanSlate,
     NothingLeft, TypeInv, Control, InEval
<1>30. CASE InterruptOwnerDead
  BY <1>30, CommandsAssumption
     DEF InterruptOwnerDead, ShutDown, SetAbort, SlateInv, CleanSlate, NothingLeft, TypeInv,
        Control,
         InEval
<1>31. CASE EndEval
  BY <1>31 DEF EndEval, SlateInv, CleanSlate, NothingLeft, TypeInv, Control, InEval
<1>32. CASE \E p \in Procs : Exit(p)
  BY <1>32 DEF Exit, SlateInv, CleanSlate, NothingLeft, TypeInv, Control, InEval
<1>33. CASE UNCHANGED vars
  BY <1>33 DEF vars, SlateInv, CleanSlate, NothingLeft, TypeInv, Control, InEval
<1>. QED
  BY <1>1, <1>2, <1>3, <1>4, <1>5, <1>6, <1>7, <1>8, <1>9, <1>10, <1>11, <1>12, <1>13,
     <1>14, <1>15, <1>16, <1>17, <1>18, <1>19, <1>20, <1>21, <1>22, <1>23, <1>24, <1>25,
     <1>26, <1>27, <1>28, <1>29, <1>30, <1>31, <1>32, <1>33 DEF Next, NifStep, ThreadStep

\* No command finds entries, resolutions or an active request of an earlier one.
THEOREM SlateClean == Spec => []CleanSlate
<1>1. Init => TypeInv /\ SlateInv
  BY InitTypeInv DEF Init, SlateInv, CleanSlate, NothingLeft, InEval
<1>2. TypeInv /\ SlateInv /\ [Next]_vars => TypeInv' /\ SlateInv'
  BY StepTypeInv, StepSlateInv
<1>3. SlateInv => CleanSlate
  BY DEF SlateInv
<1>. QED
  BY <1>1, <1>2, <1>3, PTL DEF Spec

\* The list of entries is sound in all three respects.
THEOREM EntriesAreSound == Spec => []EntriesSound
<1>1. SettledAtMostOnce /\ CountsEntries /\ CleanSlate => EntriesSound
  BY DEF EntriesSound
<1>. QED
  BY <1>1, SettledOnce, EntriesCounted, SlateClean, PTL

-----------------------------------------------------------------------------
(* What shuts a context down.                                              *)

\* Until the first transfer, the owner makes all the requests.
KeptInv ==
  /\ shuttingDown => dtor # "no" \/ owner \notin alive
  /\ \A c \in Commands : caller[c] \in {owner, NoProc}
  /\ pc = "polled" => ownerSeen = owner

CauseInv == owner = FirstOwner => KeptInv

\* So the caller an eval looks at is the owner.
LEMMA OwnerCalls ==
  ASSUME Inv, KeptInv, pc \in InEval
  PROVE  CallerAlive <=> owner \in alive
<1>1. cmd \in Commands /\ cmd # NoCommand
  BY CommandsAssumption DEF Inv, TypeInv, Control
<1>2. caller[cmd] = owner
  BY <1>1 DEF Inv, CommandInv, HandsAccepted, Accepted, KeptInv
<1>. QED
  BY <1>2 DEF CallerAlive

\* Every step that shuts the context down has found the owner gone.
LEMMA StepKeptInv ==
  ASSUME Inv, KeptInv, [Next]_vars, owner' = owner
  PROVE  KeptInv'
<1>0. TypeInv
  BY DEF Inv
<1>1. CASE \E c \in Commands : Enqueue(c)
  <2>1. PICK c \in Commands : Enqueue(c)
    BY <1>1
  <2>2. caller' = caller \/ caller' = [caller EXCEPT ![c] = owner]
    BY <2>1 DEF Enqueue
  <2>3. \A d \in Commands : caller'[d] \in {owner, NoProc}
    BY <1>0, <2>2 DEF KeptInv, TypeInv, TypeOK
  <2>. QED
    BY <2>1, <2>3 DEF Enqueue, KeptInv
<1>2. CASE \E c \in Evals, id \in Ids : Signal(c, id)
  BY <1>2 DEF Signal, Current, KeptInv
<1>3. CASE \E c \in Evals, id \in Ids : Resolve(c, id)
  BY <1>3 DEF Resolve, Current, KeptInv
<1>4. CASE \E p \in Heirs : Transfer(p)
  BY <1>4 DEF Transfer, KeptInv
<1>5. CASE Destroy
  BY <1>5 DEF Destroy, KeptInv
<1>6. CASE DestroyAborts
  BY <1>6 DEF DestroyAborts, SetAbort, KeptInv
<1>7. CASE Dequeue
  BY <1>7 DEF Dequeue, KeptInv
<1>8. CASE StopWaiting
  BY <1>8 DEF StopWaiting, KeptInv
<1>9. CASE ReadOwner
  BY <1>9 DEF ReadOwner, KeptInv
<1>10. CASE CheckOwner
  BY <1>10 DEF CheckOwner, KeptInv
<1>11. CASE RunNative
  BY <1>11 DEF RunNative, KeptInv
<1>12. CASE Complete
  BY <1>12 DEF Complete, KeptInv
<1>13. CASE SendReply
  BY <1>13 DEF SendReply, KeptInv
<1>14. CASE Cleanup
  BY <1>14 DEF Cleanup, KeptInv
<1>15. CASE ShouldStop
  BY <1>15 DEF ShouldStop, KeptInv
<1>16. CASE Drain
  BY <1>16 DEF Drain, KeptInv
<1>17. CASE CallerLost
  <2>1. CallerAlive <=> owner \in alive
    BY <1>17, OwnerCalls DEF CallerLost, InEval
  <2>. QED
    BY <1>17, <2>1 DEF CallerLost, ShutDown, SetAbort, KeptInv
<1>18. CASE SyncCall
  BY <1>18 DEF SyncCall, KeptInv
<1>19. CASE PostSync
  <2>1. CallerAlive <=> owner \in alive
    BY <1>19, OwnerCalls DEF PostSync, InEval
  <2>. QED
    BY <1>19, <2>1 DEF PostSync, ShutDown, SetAbort, KeptInv
<1>20. CASE WaitEnds
  BY <1>20 DEF WaitEnds, KeptInv
<1>21. CASE WaitTimesOut
  <2>1. CallerAlive <=> owner \in alive
    BY <1>21, OwnerCalls DEF WaitTimesOut, InEval
  <2>. QED
    BY <1>21, <2>1 DEF WaitTimesOut, PollCaller, ShutDown, SetAbort, KeptInv
<1>22. CASE AsyncCall
  BY <1>22 DEF AsyncCall, KeptInv
<1>23. CASE PostAsync
  <2>1. CallerAlive <=> owner \in alive
    BY <1>23, OwnerCalls DEF PostAsync, InEval
  <2>. QED
    BY <1>23, <2>1 DEF PostAsync, ShutDown, SetAbort, KeptInv
<1>24. CASE AwaitPromise
  BY <1>24 DEF AwaitPromise, KeptInv
<1>25. CASE TakeResolution
  BY <1>25 DEF TakeResolution, ApplyResolution, RemoveEntry, KeptInv
<1>26. CASE WaitExternal
  BY <1>26 DEF WaitExternal, KeptInv
<1>27. CASE ExternalArrives
  BY <1>27 DEF ExternalArrives, ApplyResolution, RemoveEntry, KeptInv
<1>28. CASE ExternalGivesUp
  BY <1>28 DEF ExternalGivesUp, KeptInv
<1>29. CASE ExternalTimesOut
  <2>1. CallerAlive <=> owner \in alive
    BY <1>29, OwnerCalls DEF ExternalTimesOut, InEval
  <2>. QED
    BY <1>29, <2>1 DEF ExternalTimesOut, PollCaller, ShutDown, SetAbort, KeptInv
<1>30. CASE InterruptOwnerDead
  BY <1>30 DEF InterruptOwnerDead, ShutDown, SetAbort, KeptInv
<1>31. CASE EndEval
  BY <1>31 DEF EndEval, KeptInv
<1>32. CASE \E p \in Procs : Exit(p)
  BY <1>32 DEF Exit, KeptInv
<1>33. CASE UNCHANGED vars
  BY <1>33 DEF vars, KeptInv
<1>. QED
  BY <1>1, <1>2, <1>3, <1>4, <1>5, <1>6, <1>7, <1>8, <1>9, <1>10, <1>11, <1>12, <1>13,
     <1>14, <1>15, <1>16, <1>17, <1>18, <1>19, <1>20, <1>21, <1>22, <1>23, <1>24, <1>25,
     <1>26, <1>27, <1>28, <1>29, <1>30, <1>31, <1>32, <1>33 DEF Next, NifStep, ThreadStep

\* Only a transfer changes the owner.
LEMMA OwnerMoves ==
  ASSUME [Next]_vars
  PROVE  owner' = owner \/ owner' \in Heirs
<1>1. CASE NifStep
  BY <1>1 DEF NifStep, Enqueue, Signal, Resolve, Transfer, Destroy, DestroyAborts
<1>2. CASE ThreadStep
  <2>1. CASE Dequeue \/ StopWaiting \/ ReadOwner \/ CheckOwner \/ RunNative
    BY <2>1 DEF Dequeue, StopWaiting, ReadOwner, CheckOwner, RunNative, procVars
  <2>2. CASE Complete \/ SendReply \/ Cleanup \/ ShouldStop \/ Drain
    BY <2>2 DEF Complete, SendReply, Cleanup, ShouldStop, Drain, procVars
  <2>3. CASE CallerLost \/ SyncCall \/ PostSync \/ WaitEnds \/ WaitTimesOut
    BY <2>3 DEF CallerLost, SyncCall, PostSync, WaitEnds, WaitTimesOut, PollCaller, procVars
  <2>4. CASE AsyncCall \/ PostAsync \/ AwaitPromise \/ TakeResolution \/ WaitExternal
    BY <2>4 DEF AsyncCall, PostAsync, AwaitPromise, TakeResolution, WaitExternal,
       ApplyResolution, procVars
  <2>5. CASE ExternalArrives \/ ExternalGivesUp \/ ExternalTimesOut \/ InterruptOwnerDead
    BY <2>5 DEF ExternalArrives, ExternalGivesUp, ExternalTimesOut, PollCaller,
       ApplyResolution, InterruptOwnerDead, procVars
  <2>6. CASE EndEval
    BY <2>6 DEF EndEval, procVars
  <2>. QED
    BY <1>2, <2>1, <2>2, <2>3, <2>4, <2>5, <2>6 DEF ThreadStep
<1>3. CASE \E p \in Procs : Exit(p)
  BY <1>3 DEF Exit
<1>4. CASE UNCHANGED vars
  BY <1>4 DEF vars
<1>. QED
  BY <1>1, <1>2, <1>3, <1>4 DEF Next

\* Where ownership never returns to the process that created the context, nothing but
\* the destructor and the exit of that process shuts the context down while it owns it.
THEOREM ShutdownCaused ==
  ASSUME FirstOwner \notin Heirs
  PROVE  Spec => []ShutdownHasCause
<1>1. Init => CauseInv
  BY DEF Init, CauseInv, KeptInv
<1>2. Inv /\ CauseInv /\ [Next]_vars => CauseInv'
  BY StepKeptInv, OwnerMoves DEF CauseInv
<1>3. CauseInv => ShutdownHasCause
  BY DEF CauseInv, KeptInv, ShutdownHasCause
<1>. QED
  BY <1>1, <1>2, <1>3, Invariance, PTL DEF Spec

-----------------------------------------------------------------------------
(* The thread implements the serial executor.                              *)

Over(c) == replies[c] > 0 \/ c \in refused

\* How a command may move in one step.
Moving(c) ==
  /\ Over(c) => Over(c)'
  /\ cmd = c => cmd' = c \/ Over(c)
  /\ Queued(c) => Queued(c)' \/ cmd' = c \/ Over(c)'

\* A step that leaves queue, command, replies and refusals alone moves no command.
LEMMA QuietMoves ==
  ASSUME UNCHANGED <<queue, cmd, replies, refused>>, NEW c
  PROVE  Moving(c)
  BY DEF Moving, Over, Queued

\* Every step moves a command forward, if at all.
LEMMA StepMoves ==
  ASSUME Inv, [Next]_vars, NEW b \in Commands
  PROVE  Moving(b)
<1>1. CASE \E c \in Commands : Enqueue(c)
  <2>1. PICK d \in Commands : Enqueue(d)
    BY <1>1
  <2>2. CASE poisoned \/ shuttingDown \/ busy
    BY <2>1, <2>2 DEF Enqueue, Moving, Over, Queued
  <2>3. CASE ~(poisoned \/ shuttingDown \/ busy)
    <3>1. Unfinished = 0 /\ queue = <<>>
      BY <2>3, ShortQueue DEF Inv, CommandInv, OneCommand, Unfinished, TypeInv, TypeOK
    <3>. QED
      BY <2>1, <2>3, <3>1, QueuedInShort DEF Enqueue, Moving, Over
  <2>. QED
    BY <2>2, <2>3
<1>2. CASE \E c \in Evals, id \in Ids : Signal(c, id)
  BY <1>2, QuietMoves DEF Signal
<1>3. CASE \E c \in Evals, id \in Ids : Resolve(c, id)
  BY <1>3, QuietMoves DEF Resolve
<1>4. CASE \E p \in Heirs : Transfer(p)
  BY <1>4, QuietMoves DEF Transfer
<1>5. CASE Destroy
  BY <1>5, QuietMoves DEF Destroy
<1>6. CASE DestroyAborts
  BY <1>6, QuietMoves DEF DestroyAborts
<1>7. CASE Dequeue
  <2>1. PICK d \in Commands : queue = <<d>>
    BY <1>7, ShortQueue DEF Dequeue, Inv, CommandInv
  <2>2. cmd' = d /\ UNCHANGED <<replies, refused>>
    BY <1>7, <2>1 DEF Dequeue
  <2>3. cmd # b
    BY <1>7, CommandsAssumption DEF Dequeue, Inv, TypeInv, Control
  <2>. QED
    BY <2>1, <2>2, <2>3, QueuedInShort DEF Moving, Over
<1>8. CASE StopWaiting
  BY <1>8, QuietMoves DEF StopWaiting
<1>9. CASE ReadOwner
  BY <1>9, QuietMoves DEF ReadOwner
<1>10. CASE CheckOwner
  BY <1>10, QuietMoves DEF CheckOwner
<1>11. CASE RunNative
  BY <1>11, QuietMoves DEF RunNative
<1>12. CASE Complete
  BY <1>12, QuietMoves DEF Complete
<1>13. CASE SendReply
  <2>1. replies[b] \in Nat /\ replies'[b] \in {replies[b], replies[b] + 1}
    BY <1>13 DEF SendReply, Inv, TypeInv, TypeOK
  <2>2. UNCHANGED <<queue, cmd, refused>>
    BY <1>13 DEF SendReply
  <2>. QED
    BY <2>1, <2>2 DEF Moving, Over, Queued
<1>14. CASE Cleanup
  BY <1>14, QuietMoves DEF Cleanup
<1>15. CASE ShouldStop
  <2>1. cmd = b => replies[b] > 0
    BY <1>15 DEF ShouldStop, Inv, CommandInv, HandsAnswered
  <2>2. UNCHANGED <<queue, replies, refused>>
    BY <1>15 DEF ShouldStop
  <2>. QED
    BY <2>1, <2>2 DEF Moving, Over, Queued
<1>16. CASE Drain
  <2>1. /\ replies[b] \in Nat
        /\ replies'[b] = IF Queued(b) THEN replies[b] + 1 ELSE replies[b]
        /\ UNCHANGED <<cmd, refused>>
    BY <1>16 DEF Drain, Queued, Inv, TypeInv, TypeOK
  <2>. QED
    BY <2>1 DEF Moving, Over
<1>17. CASE CallerLost
  BY <1>17, QuietMoves DEF CallerLost
<1>18. CASE SyncCall
  BY <1>18, QuietMoves DEF SyncCall
<1>19. CASE PostSync
  BY <1>19, QuietMoves DEF PostSync
<1>20. CASE WaitEnds
  BY <1>20, QuietMoves DEF WaitEnds
<1>21. CASE WaitTimesOut
  BY <1>21, QuietMoves DEF WaitTimesOut, PollCaller
<1>22. CASE AsyncCall
  BY <1>22, QuietMoves DEF AsyncCall
<1>23. CASE PostAsync
  BY <1>23, QuietMoves DEF PostAsync
<1>24. CASE AwaitPromise
  BY <1>24, QuietMoves DEF AwaitPromise
<1>25. CASE TakeResolution
  BY <1>25, QuietMoves DEF TakeResolution, ApplyResolution
<1>26. CASE WaitExternal
  BY <1>26, QuietMoves DEF WaitExternal
<1>27. CASE ExternalArrives
  BY <1>27, QuietMoves DEF ExternalArrives, ApplyResolution
<1>28. CASE ExternalGivesUp
  BY <1>28, QuietMoves DEF ExternalGivesUp
<1>29. CASE ExternalTimesOut
  BY <1>29, QuietMoves DEF ExternalTimesOut, PollCaller
<1>30. CASE InterruptOwnerDead
  BY <1>30, QuietMoves DEF InterruptOwnerDead
<1>31. CASE EndEval
  BY <1>31, QuietMoves DEF EndEval
<1>32. CASE \E p \in Procs : Exit(p)
  BY <1>32, QuietMoves DEF Exit
<1>33. CASE UNCHANGED vars
  BY <1>33, QuietMoves DEF vars
<1>. QED
  BY <1>1, <1>2, <1>3, <1>4, <1>5, <1>6, <1>7, <1>8, <1>9, <1>10, <1>11, <1>12, <1>13,
     <1>14, <1>15, <1>16, <1>17, <1>18, <1>19, <1>20, <1>21, <1>22, <1>23, <1>24, <1>25,
     <1>26, <1>27, <1>28, <1>29, <1>30, <1>31, <1>32, <1>33 DEF Next, NifStep, ThreadStep

\* Every step is one of the serial executor, or a stutter.
LEMMA StepRefines ==
  ASSUME Inv, [Next]_vars
  PROVE  [Executor!Next]_[c \in Commands |-> CommandPhase(c)]
<1>. DEFINE P == [c \in Commands |-> CommandPhase(c)]
<1>1. ASSUME NEW c \in Commands
      PROVE  CommandPhase(c)' = CommandPhase(c)
               \/ <<CommandPhase(c), CommandPhase(c)'>> \in Executor!Moves
  BY StepMoves DEF Moving, Over, CommandPhase, Executor!Moves
<1>2. ASSUME NEW c \in Commands
      PROVE  /\ CommandPhase(c)' \in Executor!Phases
             /\ CommandPhase(c)' = "running" => cmd' = c
  BY DEF CommandPhase, Executor!Phases
<1>. QED
  BY <1>1, <1>2 DEF Executor!Next, Executor!OneAtATime

\* Commands are executed one at a time, each goes from the queue to its execution
\* to its end, and what is over stays over.
THEOREM Refinement == Spec => SerialExecution
<1>1. Init => Executor!Init
  BY CommandsAssumption DEF Init, Executor!Init, CommandPhase, Queued
<1>2. Inv /\ [Next]_vars => [Executor!Next]_[c \in Commands |-> CommandPhase(c)]
  BY StepRefines
<1>. QED
  BY <1>1, <1>2, Invariance, PTL DEF Spec, SerialExecution, Executor!Spec

=============================================================================
