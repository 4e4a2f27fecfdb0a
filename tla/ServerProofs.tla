---------------------------- MODULE ServerProofs ----------------------------
(***************************************************************************)
(* Proofs about Server, for any requests, callers, APIs and bounds.        *)
(***************************************************************************)
EXTENDS Server, TLAPS, SequenceTheorems

USE DEF serverVars, ctxVars, histVars

-----------------------------------------------------------------------------
(* What the operations on sequences do to the elements of a sequence.      *)

Distinct(s) == \A i, j \in 1..Len(s) : s[i] = s[j] => i = j

\* One element is added.
LEMMA AppendEntered ==
  ASSUME NEW S, NEW s \in Seq(S), NEW e \in S, NEW x
  PROVE  Entered(Append(s, e), x) <=> Entered(s, x) \/ x = e
<1>1. /\ Len(Append(s, e)) = Len(s) + 1 /\ Len(s) \in Nat
      /\ \A i \in 1..Len(s) : Append(s, e)[i] = s[i]
      /\ Append(s, e)[Len(s) + 1] = e
  BY AppendProperties, LenProperties
<1>. QED
  BY <1>1 DEF Entered

\* A new element leaves the elements distinct.
LEMMA AppendDistinct ==
  ASSUME NEW S, NEW s \in Seq(S), NEW e \in S, Distinct(s), ~Entered(s, e)
  PROVE  Distinct(Append(s, e))
<1>1. /\ Len(Append(s, e)) = Len(s) + 1 /\ Len(s) \in Nat
      /\ \A i \in 1..Len(s) : Append(s, e)[i] = s[i]
      /\ Append(s, e)[Len(s) + 1] = e
  BY AppendProperties, LenProperties
<1>. QED
  BY <1>1 DEF Entered, Distinct

\* The head is removed from a sequence of distinct elements.
LEMMA TailEntered ==
  ASSUME NEW S, NEW s \in Seq(S), s # <<>>, Distinct(s)
  PROVE  /\ Tail(s) \in Seq(S) /\ Head(s) \in S /\ Entered(s, Head(s))
         /\ Distinct(Tail(s))
         /\ \A x : Entered(Tail(s), x) <=> Entered(s, x) /\ x # Head(s)
<1>1. /\ Tail(s) \in Seq(S) /\ Len(Tail(s)) = Len(s) - 1 /\ Len(s) \in Nat \ {0}
      /\ \A i \in 1..Len(Tail(s)) : Tail(s)[i] = s[i + 1]
      /\ Head(s) = s[1] /\ Head(s) \in S
  BY HeadTailProperties, EmptySeq
<1>2. \A i \in 1..Len(s) : i = 1 \/ i - 1 \in 1..Len(Tail(s))
  BY <1>1
<1>3. Distinct(Tail(s)) /\ Entered(s, Head(s))
  BY <1>1 DEF Distinct, Entered
<1>4. ASSUME NEW x, Entered(Tail(s), x)
      PROVE  Entered(s, x) /\ x # Head(s)
  BY <1>1, <1>4 DEF Distinct, Entered
<1>5. ASSUME NEW x, Entered(s, x), x # Head(s)
      PROVE  Entered(Tail(s), x)
  <2>1. PICK i \in 1..Len(s) : s[i] = x
    BY <1>5 DEF Entered
  <2>2. i - 1 \in 1..Len(Tail(s)) /\ Tail(s)[i - 1] = x
    BY <1>1, <1>5, <2>1
  <2>. QED
    BY <2>2 DEF Entered
<1>. QED
  BY <1>1, <1>3, <1>4, <1>5

\* The first k elements are removed.
LEMMA SuffixProperties ==
  ASSUME NEW S, NEW s \in Seq(S), NEW k \in 0..Len(s)
  PROVE  /\ Suffix(s, k) \in Seq(S)
         /\ Len(Suffix(s, k)) = Len(s) - k
         /\ \A i \in 1..(Len(s) - k) : Suffix(s, k)[i] = s[k + i]
<1>1. Len(s) \in Nat /\ \A i \in (k + 1)..Len(s) : s[i] \in S
  BY LenProperties, ElementOfSeq
<1>2. /\ Suffix(s, k) \in Seq(S)
      /\ Len(Suffix(s, k)) = IF k + 1 <= Len(s) THEN Len(s) - (k + 1) + 1 ELSE 0
      /\ \A i \in 1..(Len(s) - (k + 1) + 1) : Suffix(s, k)[i] = s[(k + 1) + i - 1]
  BY <1>1, SubSeqProperties, k + 1 \in Int, Len(s) \in Int DEF Suffix
<1>. QED
  BY <1>1, <1>2

\* The elements that are left, when they are distinct.
LEMMA SuffixEntered ==
  ASSUME NEW S, NEW s \in Seq(S), NEW k \in 1..Len(s), Distinct(s)
  PROVE  /\ Distinct(Suffix(s, k))
         /\ \A x : Entered(Suffix(s, k), x) => Entered(s, x) /\ x # s[k]
         /\ \A x : Entered(s, x) =>
              Entered(Suffix(s, k), x) \/ \E i \in 1..k : s[i] = x
<1>0. Len(s) \in Nat /\ k \in 0..Len(s)
  BY LenProperties
<1>1. /\ Len(s) \in Nat /\ k \in 0..Len(s)
      /\ Len(Suffix(s, k)) = Len(s) - k
      /\ \A i \in 1..(Len(s) - k) : Suffix(s, k)[i] = s[k + i]
  BY <1>0, SuffixProperties
<1>2. Distinct(Suffix(s, k))
  BY <1>1 DEF Distinct
<1>3. ASSUME NEW x, Entered(Suffix(s, k), x)
      PROVE  Entered(s, x) /\ x # s[k]
  BY <1>1, <1>3 DEF Distinct, Entered
<1>4. ASSUME NEW x, Entered(s, x), ~ \E i \in 1..k : s[i] = x
      PROVE  Entered(Suffix(s, k), x)
  <2>1. PICK i \in 1..Len(s) : s[i] = x
    BY <1>4 DEF Entered
  <2>2. i - k \in 1..(Len(s) - k) /\ Suffix(s, k)[i - k] = x
    BY <1>1, <1>4, <2>1
  <2>. QED
    BY <1>1, <2>2 DEF Entered
<1>. QED
  BY <1>2, <1>3, <1>4

\* drop_queued: one element is removed from the middle.
Without(s, i) == [j \in 1..(Len(s) - 1) |-> IF j < i THEN s[j] ELSE s[j + 1]]

LEMMA WithoutTypes ==
  ASSUME NEW S, NEW s \in Seq(S), NEW i \in 1..Len(s)
  PROVE  /\ Without(s, i) \in Seq(S)
         /\ Len(Without(s, i)) = Len(s) - 1
         /\ \A j \in 1..(Len(s) - 1) : Without(s, i)[j] = IF j < i THEN s[j] ELSE s[j + 1]
<1>1. Len(s) \in Nat \ {0} /\ Len(s) - 1 \in Nat
  BY LenProperties
<1>2. \A j \in 1..(Len(s) - 1) : (IF j < i THEN s[j] ELSE s[j + 1]) \in S
  BY <1>1, ElementOfSeq
<1>3. Without(s, i) \in [1..(Len(s) - 1) -> S]
  BY <1>2 DEF Without
<1>4. Without(s, i) \in Seq(S)
  BY <1>1, <1>3, SeqDef
<1>5. Len(Without(s, i)) = Len(s) - 1
  BY <1>1, <1>3, <1>4, LenProperties
<1>. QED
  BY <1>4, <1>5 DEF Without

LEMMA WithoutProperties ==
  ASSUME NEW S, NEW s \in Seq(S), NEW i \in 1..Len(s), Distinct(s)
  PROVE  /\ Distinct(Without(s, i))
         /\ \A x : Entered(Without(s, i), x) <=> Entered(s, x) /\ x # s[i]
<1>1. Len(s) \in Nat \ {0} /\ Len(s) - 1 \in Nat
  BY LenProperties
<1>5. Len(Without(s, i)) = Len(s) - 1
  BY WithoutTypes
<1>6. \A j \in 1..(Len(s) - 1) : Without(s, i)[j] = IF j < i THEN s[j] ELSE s[j + 1]
  BY WithoutTypes
<1>7. Distinct(Without(s, i))
  BY <1>1, <1>5, <1>6 DEF Distinct
<1>8. ASSUME NEW x, Entered(Without(s, i), x)
      PROVE  Entered(s, x) /\ x # s[i]
  BY <1>1, <1>5, <1>6, <1>8 DEF Distinct, Entered
<1>9. ASSUME NEW x, Entered(s, x), x # s[i]
      PROVE  Entered(Without(s, i), x)
  <2>1. PICK j \in 1..Len(s) : s[j] = x
    BY <1>9 DEF Entered
  <2>2. CASE j < i
    BY <1>1, <1>5, <1>6, <2>1, <2>2 DEF Entered
  <2>3. CASE j > i
    <3>1. j - 1 \in 1..(Len(s) - 1) /\ Without(s, i)[j - 1] = x
      BY <1>1, <1>6, <2>1, <2>3
    <3>. QED
      BY <1>5, <3>1 DEF Entered
  <2>. QED
    BY <1>9, <2>1, <2>2, <2>3
<1>. QED
  BY <1>7, <1>8, <1>9

-----------------------------------------------------------------------------
(* Type correctness, with the size of the queue.                           *)

TypeInv == TypeOK /\ QueueCounted

\* The constants, as the steps use them.
LEMMA Constants ==
  /\ Evals \subseteq Requests /\ Monitored \subseteq Requests
  /\ NoRequest \notin Requests
  /\ NoCall \notin Calls
  /\ CallerOf \in [Requests -> Callers]
  /\ Root \in Targets /\ Root \notin Apis /\ Apis \subseteq Targets
  /\ MaxQueueSize \in Nat /\ MaxCalls \in Nat
  BY RequestsAssumption, BoundsAssumption DEF Evals, Monitored, Requests, Targets

\* What the messages of the context carry.
LEMMA MessageTypes ==
  ASSUME NEW m \in Message
  PROVE  /\ m.kind = "async" => m.call \in Calls /\ m.target \in Targets
         /\ m.kind = "sync" => m.call \in Calls
         /\ m.kind = "result" => m.eval \in Requests
  BY DEF Message

\* A call the running eval makes.
LEMMA CallTypes ==
  ASSUME TypeOK, running \in Evals, made[running] < MaxCalls
  PROVE  /\ <<running, made[running] + 1>> \in Calls
         /\ [made EXCEPT ![running] = @ + 1] \in [Requests -> 0..MaxCalls]
<1>1. made[running] \in 0..MaxCalls /\ made[running] + 1 \in 1..MaxCalls
  BY Constants DEF TypeOK
<1>. QED
  BY <1>1, Constants DEF TypeOK, Calls

Answers == [Requests -> Outcomes \cup {Silent}]
Monitors == [Requests -> {"none", "set", "down"}]

\* deliver_eval_result keeps the types of the history and of the monitors.
LEMMA DeliverTypes ==
  ASSUME TypeOK, NEW mon \in Monitors, NEW ans \in Answers, NEW D, Deliver(mon, ans, D)
  PROVE  replies' \in [Requests -> Seq(Outcomes)] /\ monitor' \in Monitors
<1>1. ASSUME NEW r \in Requests
      PROVE  (IF ans[r] = Silent THEN replies[r] ELSE Append(replies[r], ans[r])) \in Seq(Outcomes)
  BY AppendProperties DEF TypeOK, Answers
<1>. QED
  BY <1>1 DEF Deliver, Monitors

LEMMA AnswerTypes ==
  /\ NoAnswer \in Answers
  /\ \A r \in Requests, o \in Outcomes : [NoAnswer EXCEPT ![r] = o] \in Answers
  /\ Refusal \in Outcomes
  BY DEF NoAnswer, Answers, Outcomes, Refusal

LEMMA WatchedTypes ==
  ASSUME TypeOK, NEW r \in Requests
  PROVE  Watched(r) \in Monitors
  BY DEF TypeOK, Watched, Monitors

\* maybe_start_next keeps the types, and the size right.
LEMMA StartNextTypes ==
  ASSUME TypeInv, NEW mon \in Monitors, NEW ans \in Answers, NEW D,
         MaybeStartNext(queue, queueSize, mon, ans, D)
  PROVE  /\ active' \in Requests \cup {NoRequest} /\ callerDown' \in BOOLEAN
         /\ queue' \in Seq(Requests) /\ queueSize' \in Nat /\ QueueCounted'
         /\ running' \in Requests \cup {NoRequest}
         /\ ran' \in Seq(Requests)
         /\ replies' \in [Requests -> Seq(Outcomes)] /\ monitor' \in Monitors
<1>0. queue \in Seq(Requests) /\ queueSize = Len(queue) /\ Len(queue) \in Nat
        /\ queueSize <= MaxQueueSize /\ MaxQueueSize \in Nat
  BY LenProperties, Constants DEF TypeInv, TypeOK, QueueCounted
<1>1. ASSUME NEW k \in LiveAt(queue)
      PROVE  /\ queue[k] \in Requests
             /\ Suffix(queue, k) \in Seq(Requests)
             /\ Len(Suffix(queue, k)) = queueSize - k
             /\ queueSize - k \in Nat /\ queueSize - k <= MaxQueueSize
  <2>1. k \in 1..Len(queue) /\ k \in 0..Len(queue)
    BY <1>0 DEF LiveAt
  <2>2. queue[k] \in Requests
    BY <1>0, <2>1, ElementOfSeq
  <2>3. Suffix(queue, k) \in Seq(Requests) /\ Len(Suffix(queue, k)) = Len(queue) - k
    BY <1>0, <2>1, SuffixProperties
  <2>. QED
    BY <1>0, <2>1, <2>2, <2>3
<1>2. CASE StartNone(queue, queueSize, mon, ans, D)
  <2>1. replies' \in [Requests -> Seq(Outcomes)] /\ monitor' \in Monitors
    BY <1>2, DeliverTypes DEF StartNone, TypeInv
  <2>. QED
    BY <1>0, <1>2, <2>1 DEF StartNone, Idle, TypeInv, TypeOK, QueueCounted
<1>3. CASE StartFirst(queue, queueSize, mon, ans, D)
  <2>1. PICK k \in LiveAt(queue) :
          /\ Dispatch(queue[k])
          /\ queue' = Suffix(queue, k)
          /\ queueSize' = queueSize - k
          /\ Deliver(mon, ans, D \cup At(queue, 1..(k - 1)))
    BY <1>3 DEF StartFirst
  <2>2. replies' \in [Requests -> Seq(Outcomes)] /\ monitor' \in Monitors
    BY <2>1, DeliverTypes DEF TypeInv
  <2>3. ran' \in Seq(Requests)
    BY <1>1, <2>1, AppendProperties DEF Dispatch, TypeInv, TypeOK
  <2>. QED
    BY <1>0, <1>1, <2>1, <2>2, <2>3 DEF Dispatch, QueueCounted
<1>4. CASE RefuseAll(queue, queueSize, mon, ans, D)
  <2>. DEFINE refused(k) == [r \in Requests |-> IF r \in At(queue, LiveAt(queue)) THEN Refusal ELSE ans[r]]
  <2>1. PICK k \in LiveAt(queue) :
          /\ Idle
          /\ queue' = Suffix(queue, k)
          /\ queueSize' = queueSize - k
          /\ Deliver(mon, refused(k), D \cup At(queue, 1..Len(queue)))
    BY <1>4 DEF RefuseAll
  <2>2. refused(k) \in Answers
    BY AnswerTypes DEF Answers
  <2>3. replies' \in [Requests -> Seq(Outcomes)] /\ monitor' \in Monitors
    BY <2>1, <2>2, DeliverTypes DEF TypeInv
  <2>. QED
    BY <1>0, <1>1, <2>1, <2>3 DEF Idle, TypeInv, TypeOK, QueueCounted
<1>. QED
  BY <1>2, <1>3, <1>4 DEF MaybeStartNext

\* The initial state.
LEMMA InitTypeInv == Init => TypeInv
<1>. SUFFICES ASSUME Init PROVE TypeInv
  OBVIOUS
<1>1. TypeOK
  <2>1. mail \in [Callers -> Seq(Requests)] /\ replies \in [Requests -> Seq(Outcomes)]
    BY DEF Init
  <2>2. queue \in Seq(Requests) /\ ran \in Seq(Requests) /\ arrivals \in Seq(Requests)
          /\ ctxMail \in Seq(Message)
    BY DEF Init
  <2>3. made \in [Requests -> 0..MaxCalls] /\ monitor \in [Requests -> {"none", "set", "down"}]
    BY Constants DEF Init
  <2>4. registry \subseteq Targets /\ jsNames \subseteq Targets /\ userState \in [Targets -> SUBSET Calls]
    BY Constants DEF Init
  <2>. QED
    BY <2>1, <2>2, <2>3, <2>4 DEF Init, TypeOK
<1>2. QueueCounted
  BY Constants DEF Init, QueueCounted
<1>. QED
  BY <1>1, <1>2 DEF TypeInv
\* handle_call and handle_cast of a request.
LEMMA HandleRequestTypes ==
  ASSUME TypeInv, NEW c \in Callers, HandleRequest(c)
  PROVE  TypeInv'
<1>. DEFINE r == Head(mail[c])
<1>1. r \in Requests /\ mail' \in [Callers -> Seq(Requests)]
  BY HeadTailProperties DEF HandleRequest, TypeInv, TypeOK
<1>2. Watched(r) \in Monitors /\ NoAnswer \in Answers
        /\ \A o \in Outcomes : [NoAnswer EXCEPT ![r] = o] \in Answers
  BY <1>1, WatchedTypes, AnswerTypes DEF TypeInv
<1>3. arrivals' \in Seq(Requests)
  <2>1. arrivals' = arrivals \/ arrivals' = Append(arrivals, r)
    BY DEF HandleRequest, RejectRequest, QueueRequest, StartRequest
  <2>2. arrivals \in Seq(Requests)
    BY DEF TypeInv, TypeOK
  <2>3. Append(arrivals, r) \in Seq(Requests)
    BY <1>1, <2>2, AppendProperties
  <2>. QED
    BY <2>1, <2>2, <2>3
<1>4. /\ active' \in Requests \cup {NoRequest} /\ callerDown' \in BOOLEAN
      /\ queue' \in Seq(Requests) /\ queueSize' \in Nat /\ QueueCounted'
      /\ running' \in Requests \cup {NoRequest}
      /\ ran' \in Seq(Requests)
      /\ replies' \in [Requests -> Seq(Outcomes)] /\ monitor' \in Monitors
  <2>1. CASE RejectRequest(r)
    <3>1. "context_busy" \in Outcomes
      BY DEF Outcomes
    <3>2. replies' \in [Requests -> Seq(Outcomes)] /\ monitor' \in Monitors
      BY <1>2, <2>1, <3>1, DeliverTypes DEF RejectRequest, TypeInv
    <3>. QED
      BY <2>1, <3>2 DEF RejectRequest, TypeInv, TypeOK, QueueCounted
  <2>2. CASE QueueRequest(r)
    <3>1. replies' \in [Requests -> Seq(Outcomes)] /\ monitor' \in Monitors
      BY <1>2, <2>2, DeliverTypes DEF QueueRequest, TypeInv
    <3>2. queue' \in Seq(Requests) /\ Len(queue') = Len(queue) + 1 /\ Len(queue) \in Nat
      BY <1>1, <2>2, AppendProperties, LenProperties DEF QueueRequest, TypeInv, TypeOK
    <3>3. queueSize = Len(queue) /\ queueSize < MaxQueueSize /\ queueSize' = queueSize + 1
      BY <2>2, Constants DEF QueueRequest, Rejects, TypeInv, TypeOK, QueueCounted
    <3>4. queueSize' \in Nat /\ QueueCounted'
      BY <3>2, <3>3, Constants DEF QueueCounted
    <3>5. UNCHANGED <<active, callerDown, running, ran>>
      BY <2>2 DEF QueueRequest
    <3>. QED
      BY <3>1, <3>2, <3>4, <3>5 DEF TypeInv, TypeOK
  <2>3. CASE StartRequest(r)
    <3>1. CASE /\ Dispatch(r)
               /\ Deliver(Watched(r), NoAnswer, {})
               /\ UNCHANGED <<queue, queueSize>>
      <4>1. replies' \in [Requests -> Seq(Outcomes)] /\ monitor' \in Monitors
        BY <1>2, <3>1, DeliverTypes DEF TypeInv
      <4>2. ran' \in Seq(Requests)
        BY <1>1, <3>1, AppendProperties DEF Dispatch, TypeInv, TypeOK
      <4>. QED
        BY <1>1, <3>1, <4>1, <4>2 DEF Dispatch, TypeInv, TypeOK, QueueCounted
    <3>2. CASE MaybeStartNext(queue, queueSize, Watched(r), [NoAnswer EXCEPT ![r] = Refusal], {r})
      BY <1>1, <1>2, <3>2, AnswerTypes, StartNextTypes
    <3>. QED
      BY <2>3, <3>1, <3>2 DEF StartRequest
  <2>. QED
    BY <2>1, <2>2, <2>3 DEF HandleRequest
<1>. QED
  BY <1>1, <1>3, <1>4 DEF HandleRequest, TypeInv, TypeOK, Monitors

\* put_user_state keeps the types.
LEMMA PutTypes ==
  ASSUME TypeOK, NEW target \in Targets, NEW call \in Calls, PutUserState(target, call)
  PROVE  userState' \in [Targets -> SUBSET Calls]
<1>1. userState \in [Targets -> SUBSET Calls]
  BY DEF TypeOK
<1>2. userState[target] \cup {call} \in SUBSET Calls
  BY <1>1
<1>. QED
  BY <1>1, <1>2 DEF PutUserState

\* handle_info of the context's messages.
LEMMA HandleContextMessageTypes ==
  ASSUME TypeInv, HandleContextMessage
  PROVE  TypeInv'
<1>. DEFINE m == Head(ctxMail)
<1>1. m \in Message /\ ctxMail' \in Seq(Message)
  BY HeadTailProperties DEF HandleContextMessage, TypeInv, TypeOK
<1>2. CASE m.kind = "result" /\ m.eval = active /\ FinishActive
  <2>. DEFINE ans == IF callerDown THEN NoAnswer ELSE [NoAnswer EXCEPT ![active] = "result"]
  <2>1. active \in Requests
    BY <1>1, <1>2, MessageTypes
  <2>2. ans \in Answers /\ monitor \in Monitors
    BY <2>1, AnswerTypes DEF Outcomes, TypeInv, TypeOK, Monitors
  <2>3. MaybeStartNext(queue, queueSize, monitor, ans, {active})
    BY <1>2 DEF FinishActive
  <2>4. /\ active' \in Requests \cup {NoRequest} /\ callerDown' \in BOOLEAN
        /\ queue' \in Seq(Requests) /\ queueSize' \in Nat /\ QueueCounted'
        /\ running' \in Requests \cup {NoRequest}
        /\ ran' \in Seq(Requests)
        /\ replies' \in [Requests -> Seq(Outcomes)] /\ monitor' \in Monitors
    BY <2>2, <2>3, StartNextTypes
  <2>5. pending' \subseteq pending /\ UNCHANGED <<registry, userState, deferred, entries, parked, arrivals>>
    BY <1>2 DEF FinishActive
  <2>. QED
    BY <1>1, <2>4, <2>5 DEF HandleContextMessage, TypeInv, TypeOK, Monitors
<1>3. CASE m.kind = "result" /\ m.eval # active /\ IgnoreResult
  BY <1>1, <1>3 DEF HandleContextMessage, IgnoreResult, TypeInv, TypeOK, QueueCounted
<1>4. CASE m.kind = "async" /\ AnswerAsync(m.call, m.target)
  <2>1. m.call \in Calls /\ m.target \in Targets
    BY <1>1, <1>4, MessageTypes
  <2>2. /\ entries' \subseteq entries
        /\ userState' \in [Targets -> SUBSET Calls]
        /\ pending' \subseteq pending \cup {[call |-> m.call, target |-> m.target]}
        /\ deferred \subseteq deferred' /\ deferred' \subseteq deferred \cup {m.call}
    <3>1. CASE CallReturns(m.call, m.target)
      <4>1. entries' \subseteq entries
        BY <3>1 DEF CallReturns, ResolveAsync
      <4>2. userState' \in [Targets -> SUBSET Calls]
        BY <2>1, <3>1, PutTypes DEF CallReturns, TypeInv, TypeOK
      <4>3. /\ pending' \subseteq pending \cup {[call |-> m.call, target |-> m.target]}
            /\ deferred \subseteq deferred' /\ deferred' \subseteq deferred \cup {m.call}
        BY <3>1 DEF CallReturns
      <4>. QED
        BY <4>1, <4>2, <4>3
    <3>2. CASE ResolveAsync({m.call}) /\ UNCHANGED <<userState, pending, deferred>>
      BY <3>2 DEF ResolveAsync, TypeInv, TypeOK
    <3>. QED
      BY <1>4, <3>1, <3>2 DEF AnswerAsync
  <2>3. UNCHANGED <<monitor, active, callerDown, queue, queueSize, registry, running, parked,
                    replies, arrivals, ran>>
    BY <1>4 DEF AnswerAsync
  <2>4. UNCHANGED <<alive, sent, mail, casts, poisoned, made, jsNames>>
    BY DEF HandleContextMessage
  <2>5. /\ pending' \subseteq [call : Calls, target : Targets]
        /\ deferred' \subseteq Calls /\ casts' \subseteq deferred'
    BY <2>1, <2>2, <2>4 DEF TypeInv, TypeOK
  <2>. QED
    BY <1>1, <2>2, <2>3, <2>4, <2>5 DEF TypeInv, TypeOK, QueueCounted
<1>5. CASE m.kind = "sync" /\ AnswerSync(m.call)
  BY <1>1, <1>5 DEF HandleContextMessage, AnswerSync, TypeInv, TypeOK, QueueCounted
<1>. QED
  BY <1>2, <1>3, <1>4, <1>5 DEF HandleContextMessage

\* handle_info DOWN.
LEMMA HandleDownTypes ==
  ASSUME TypeInv, NEW r \in Monitored, HandleDown(r)
  PROVE  TypeInv'
<1>1. monitor' \in Monitors
  BY DEF HandleDown, TypeInv, TypeOK, Monitors
<1>2. entries' \subseteq entries /\ pending' \subseteq pending /\ callerDown' \in BOOLEAN
  BY DEF HandleDown, MarkActiveDown, ResolveAsync, TypeInv, TypeOK
<1>3. queue' \in Seq(Requests) /\ queueSize' \in Nat /\ QueueCounted'
  <2>1. CASE Entered(queue, r)
    <3>1. PICK i \in 1..Len(queue) :
            queue[i] = r /\ queue' = Without(queue, i) /\ queueSize' = queueSize - 1
      BY <2>1 DEF HandleDown, DropQueued, Without
    <3>2. queue \in Seq(Requests) /\ Len(queue) \in Nat /\ queueSize = Len(queue)
            /\ Len(queue) <= MaxQueueSize
      BY LenProperties DEF TypeInv, TypeOK, QueueCounted
    <3>3. queue' \in Seq(Requests) /\ Len(queue') = Len(queue) - 1
      BY <3>1, <3>2, WithoutTypes
    <3>. QED
      BY <3>1, <3>2, <3>3, Constants DEF QueueCounted
  <2>2. CASE ~Entered(queue, r)
    BY <2>2 DEF HandleDown, DropQueued, TypeInv, TypeOK, QueueCounted
  <2>. QED
    BY <2>1, <2>2
<1>. QED
  BY <1>1, <1>2, <1>3 DEF HandleDown, TypeInv, TypeOK, Monitors

\* Every step keeps the types and the size of the queue.
LEMMA StepTypeInv == TypeInv /\ [Next]_vars => TypeInv'
<1>. SUFFICES ASSUME TypeInv, [Next]_vars PROVE TypeInv'
  OBVIOUS
<1>1. CASE \E c \in Callers : HandleRequest(c)
  BY <1>1, HandleRequestTypes
<1>2. CASE \E a \in Apis : LoadApi(a)
  <2>1. PICK a \in Apis : LoadApi(a)
    BY <1>2
  <2>2. /\ registry' \subseteq Targets /\ jsNames' \subseteq Targets
        /\ userState' \in [Targets -> SUBSET Calls] /\ poisoned' \in BOOLEAN
    BY <2>1, Constants DEF LoadApi, InstallApi, TypeInv, TypeOK
  <2>. QED
    BY <2>1, <2>2 DEF LoadApi, TypeInv, TypeOK, QueueCounted
<1>3. CASE HandleContextMessage
  BY <1>3, HandleContextMessageTypes
<1>4. CASE \E call \in Calls : HandleResolve(call)
  <2>1. PICK call \in Calls : HandleResolve(call)
    BY <1>4
  <2>2. pending' \subseteq pending /\ entries' \subseteq entries /\ userState' \in [Targets -> SUBSET Calls]
    <3>1. pending' \subseteq pending /\ entries' \subseteq entries
      BY <2>1 DEF HandleResolve, ResolveAsync
    <3>2. CASE UNCHANGED userState
      BY <3>1, <3>2 DEF TypeInv, TypeOK
    <3>3. CASE \E p \in pending : PutUserState(p.target, p.call)
      <4>1. PICK p \in pending : PutUserState(p.target, p.call)
        BY <3>3
      <4>2. p.target \in Targets /\ p.call \in Calls
        BY DEF TypeInv, TypeOK
      <4>. QED
        BY <3>1, <4>1, <4>2, PutTypes DEF TypeInv
    <3>4. UNCHANGED userState \/ \E p \in pending : PutUserState(p.target, p.call)
      BY <2>1 DEF HandleResolve, Transition
    <3>. QED
      BY <3>1, <3>2, <3>3, <3>4
  <2>. QED
    BY <2>1, <2>2 DEF HandleResolve, TypeInv, TypeOK, QueueCounted
<1>5. CASE \E r \in Monitored : HandleDown(r)
  BY <1>5, HandleDownTypes
<1>6. CASE \E target \in Targets : ContextCalls(target)
  <2>. DEFINE call == <<running, made[running] + 1>>
  <2>1. PICK target \in Targets : ContextCalls(target)
    BY <1>6
  <2>2. call \in Calls /\ made' \in [Requests -> 0..MaxCalls]
    BY <2>1, CallTypes DEF ContextCalls, TypeInv
  <2>3. [kind |-> "async", call |-> call, target |-> target] \in Message
    BY <2>2 DEF Message
  <2>4. ctxMail' \in Seq(Message)
    BY <2>1, <2>3, AppendProperties DEF ContextCalls, TypeInv, TypeOK
  <2>. QED
    BY <2>1, <2>2, <2>4 DEF ContextCalls, TypeInv, TypeOK, QueueCounted
<1>7. CASE ContextParks
  <2>. DEFINE call == <<running, made[running] + 1>>
  <2>1. call \in Calls /\ made' \in [Requests -> 0..MaxCalls]
    BY <1>7, CallTypes DEF ContextParks, TypeInv
  <2>2. [kind |-> "sync", call |-> call] \in Message
    BY <2>1 DEF Message
  <2>3. ctxMail' \in Seq(Message)
    BY <1>7, <2>2, AppendProperties DEF ContextParks, TypeInv, TypeOK
  <2>. QED
    BY <1>7, <2>1, <2>3 DEF ContextParks, TypeInv, TypeOK, QueueCounted
<1>8. CASE ContextFinishes
  <2>1. [kind |-> "result", eval |-> running] \in Message
    BY <1>8 DEF ContextFinishes, Message, TypeInv, TypeOK
  <2>2. ctxMail' \in Seq(Message)
    BY <1>8, <2>1, AppendProperties DEF ContextFinishes, TypeInv, TypeOK
  <2>. QED
    BY <1>8, <2>2 DEF ContextFinishes, TypeInv, TypeOK, QueueCounted
<1>9. CASE \E r \in Requests : Send(r)
  <2>1. PICK r \in Requests : Send(r)
    BY <1>9
  <2>2. mail' \in [Callers -> Seq(Requests)]
    BY <2>1, Constants, AppendProperties DEF Send, TypeInv, TypeOK
  <2>. QED
    BY <2>1, <2>2 DEF Send, TypeInv, TypeOK, QueueCounted
<1>10. CASE \E c \in Callers : CallerExits(c)
  BY <1>10 DEF CallerExits, TypeInv, TypeOK, QueueCounted
<1>11. CASE \E call \in Calls : TaskResolves(call)
  BY <1>11 DEF TaskResolves, TypeInv, TypeOK, QueueCounted
<1>12. CASE UNCHANGED vars
  BY <1>12 DEF vars, TypeInv, TypeOK, QueueCounted
<1>. QED
  BY <1>1, <1>2, <1>3, <1>4, <1>5, <1>6, <1>7, <1>8, <1>9, <1>10, <1>11, <1>12
  DEF Next, ServerStep, ContextStep
\* Types: every variable keeps its type in every interleaving of callers, tasks,
\* context and Server.
THEOREM TypeCorrect == Spec => []TypeOK
<1>1. TypeInv => TypeOK
  BY DEF TypeInv
<1>. QED
  BY <1>1, InitTypeInv, StepTypeInv, PTL DEF Spec

\* The counter queue_size is the length of the queue, and never above the limit.
THEOREM QueueIsCounted == Spec => []QueueCounted
<1>1. TypeInv => QueueCounted
  BY DEF TypeInv
<1>. QED
  BY <1>1, InitTypeInv, StepTypeInv, PTL DEF Spec

-----------------------------------------------------------------------------
(* The active request is under way.                                        *)

\* The results in the Server's mailbox.
Results == {i \in 1..Len(ctxMail) : ctxMail[i].kind = "result"}

\* At most one result is on its way: that of the active request, after its command.
UnderWay ==
  /\ running # NoRequest => running = active /\ Results = {}
  /\ active # NoRequest => running = active \/ Results # {}
  /\ \A i \in Results : ctxMail[i].eval = active
  /\ \A i, j \in Results : i = j

\* The context sends a message.
LEMMA SendMessage ==
  ASSUME TypeOK, NEW m \in Message, ctxMail' = Append(ctxMail, m)
  PROVE  /\ \A i \in 1..Len(ctxMail) : i \in 1..Len(ctxMail') /\ ctxMail'[i] = ctxMail[i]
         /\ Len(ctxMail') \in 1..Len(ctxMail') /\ ctxMail'[Len(ctxMail')] = m
         /\ \A i \in 1..Len(ctxMail') : i \in 1..Len(ctxMail) \/ i = Len(ctxMail')
         /\ m.kind # "result" => Results' = Results
         /\ m.kind = "result" => Results' = Results \cup {Len(ctxMail')}
<1>1. ctxMail \in Seq(Message) /\ Len(ctxMail) \in Nat
  BY LenProperties DEF TypeOK
<1>2. /\ Len(ctxMail') = Len(ctxMail) + 1
      /\ \A i \in 1..Len(ctxMail) : ctxMail'[i] = ctxMail[i]
      /\ ctxMail'[Len(ctxMail) + 1] = m
  BY <1>1, AppendProperties
<1>. QED
  BY <1>1, <1>2 DEF Results

\* The Server takes the first message.
LEMMA TakeMessage ==
  ASSUME TypeOK, ctxMail # <<>>, ctxMail' = Tail(ctxMail)
  PROVE  /\ Head(ctxMail) \in Message /\ Head(ctxMail) = ctxMail[1] /\ 1 \in 1..Len(ctxMail)
         /\ \A i \in 1..Len(ctxMail') : i + 1 \in 1..Len(ctxMail) /\ ctxMail'[i] = ctxMail[i + 1]
         /\ \A i \in 1..Len(ctxMail) : i = 1 \/ (i - 1 \in 1..Len(ctxMail') /\ ctxMail'[i - 1] = ctxMail[i])
         /\ \A i \in Results' : i + 1 \in Results
         /\ \A i \in Results : i = 1 \/ i - 1 \in Results'
<1>1. ctxMail \in Seq(Message) /\ Len(ctxMail) \in Nat \ {0}
  BY EmptySeq, LenProperties DEF TypeOK
<1>2. /\ Head(ctxMail) \in Message /\ Head(ctxMail) = ctxMail[1]
      /\ Len(ctxMail') = Len(ctxMail) - 1
      /\ \A i \in 1..Len(ctxMail') : ctxMail'[i] = ctxMail[i + 1]
  BY <1>1, HeadTailProperties
<1>3. \A i \in 1..Len(ctxMail) : i = 1 \/ i - 1 \in 1..Len(ctxMail')
  BY <1>1, <1>2
<1>4. \A i \in 1..Len(ctxMail') : i + 1 \in 1..Len(ctxMail)
  BY <1>1, <1>2
<1>5. \A i \in 1..Len(ctxMail) : i = 1 \/ (i - 1) + 1 = i
  BY <1>1
<1>6. \A i \in 1..Len(ctxMail) : i = 1 \/ (i - 1 \in 1..Len(ctxMail') /\ ctxMail'[i - 1] = ctxMail[i])
  BY <1>2, <1>3, <1>5
<1>. QED
  BY <1>1, <1>2, <1>4, <1>6 DEF Results

\* What maybe_start_next does to the active request and to the context.
LEMMA StartNextActive ==
  ASSUME TypeInv, NEW mon, NEW ans, NEW D, MaybeStartNext(queue, queueSize, mon, ans, D)
  PROVE  \/ active' = NoRequest /\ running' = running
         \/ running = NoRequest /\ active' = running' /\ active' \in Requests
<1>1. \A k \in LiveAt(queue) : queue[k] \in Requests
  BY ElementOfSeq DEF LiveAt, TypeInv, TypeOK
<1>. QED
  BY <1>1 DEF MaybeStartNext, StartNone, StartFirst, RefuseAll, Idle, Dispatch, Refuses

\* An idle Server has an idle context, and no result to wait for.
LEMMA IdleServer ==
  ASSUME TypeInv, UnderWay, active = NoRequest
  PROVE  running = NoRequest /\ Results = {}
<1>1. running = NoRequest
  BY DEF UnderWay
<1>2. ASSUME NEW i \in Results PROVE FALSE
  <2>1. ctxMail[i] \in Message
    BY ElementOfSeq DEF Results, TypeInv, TypeOK
  <2>2. ctxMail[i].eval \in Requests
    BY <2>1, MessageTypes DEF Results
  <2>. QED
    BY <2>2, Constants DEF UnderWay
<1>. QED
  BY <1>1, <1>2

LEMMA HandleRequestUnderWay ==
  ASSUME TypeInv, UnderWay, NEW c \in Callers, HandleRequest(c)
  PROVE  UnderWay'
<1>. DEFINE r == Head(mail[c])
<1>0. r \in Requests /\ ctxMail' = ctxMail
  BY HeadTailProperties DEF HandleRequest, TypeInv, TypeOK
<1>1. CASE RejectRequest(r) \/ QueueRequest(r)
  BY <1>0, <1>1 DEF RejectRequest, QueueRequest, UnderWay, Results
<1>2. CASE StartRequest(r)
  <2>1. running = NoRequest /\ Results = {} /\ active = NoRequest
    BY <1>2, IdleServer DEF StartRequest
  <2>2. \/ active' = NoRequest /\ running' = running
        \/ running = NoRequest /\ active' = running' /\ active' \in Requests
    BY <1>0, <1>2, <2>1, StartNextActive DEF StartRequest, Dispatch, Refuses
  <2>. QED
    BY <1>0, <2>1, <2>2 DEF UnderWay, Results
<1>. QED
  BY <1>1, <1>2 DEF HandleRequest

LEMMA HandleContextMessageUnderWay ==
  ASSUME TypeInv, UnderWay, HandleContextMessage
  PROVE  UnderWay'
<1>. DEFINE m == Head(ctxMail)
<1>0. ctxMail # <<>> /\ ctxMail' = Tail(ctxMail) /\ TypeOK
  BY DEF HandleContextMessage, TypeInv
<1>1. /\ m \in Message /\ m = ctxMail[1] /\ 1 \in 1..Len(ctxMail)
      /\ \A i \in Results' : i + 1 \in Results /\ ctxMail'[i] = ctxMail[i + 1]
      /\ \A i \in Results : i = 1 \/ i - 1 \in Results'
      /\ \A i \in Results' : i \in Nat /\ i # 0
  BY <1>0, TakeMessage DEF Results
<1>2. CASE m.kind = "result" /\ m.eval = active /\ FinishActive
  <2>1. 1 \in Results /\ running = NoRequest
    BY <1>1, <1>2 DEF Results, UnderWay
  <2>2. Results' = {}
    BY <1>1, <2>1 DEF UnderWay
  <2>3. \/ active' = NoRequest /\ running' = running
        \/ running = NoRequest /\ active' = running' /\ active' \in Requests
    BY <1>2, StartNextActive DEF FinishActive
  <2>. QED
    BY <2>1, <2>2, <2>3 DEF UnderWay
<1>3. CASE m.kind = "result" /\ m.eval # active /\ IgnoreResult
  <2>1. 1 \in Results
    BY <1>1, <1>3 DEF Results
  <2>. QED
    BY <1>1, <1>3, <2>1 DEF UnderWay
<1>4. CASE m.kind # "result" /\ UNCHANGED <<active, running>>
  <2>1. 1 \notin Results
    BY <1>1, <1>4 DEF Results
  <2>2. Results = {} <=> Results' = {}
    BY <1>1, <2>1
  <2>. QED
    BY <1>1, <1>4, <2>1, <2>2 DEF UnderWay
<1>5. CASE m.kind = "async" /\ AnswerAsync(m.call, m.target)
  BY <1>4, <1>5 DEF AnswerAsync
<1>6. CASE m.kind = "sync" /\ AnswerSync(m.call)
  BY <1>4, <1>6 DEF AnswerSync
<1>. QED
  BY <1>2, <1>3, <1>5, <1>6 DEF HandleContextMessage

\* The context's messages other than results leave the active request under way.
LEMMA SendsUnderWay ==
  ASSUME TypeInv, UnderWay, NEW m \in Message, m.kind # "result",
         ctxMail' = Append(ctxMail, m), UNCHANGED <<active, running>>
  PROVE  UnderWay'
<1>1. TypeOK
  BY DEF TypeInv
<1>2. Results' = Results /\ \A i \in Results : ctxMail'[i] = ctxMail[i]
  BY <1>1, SendMessage DEF Results
<1>. QED
  BY <1>2 DEF UnderWay

LEMMA ContextFinishesUnderWay ==
  ASSUME TypeInv, UnderWay, ContextFinishes
  PROVE  UnderWay'
<1>. DEFINE m == [kind |-> "result", eval |-> running]
<1>1. TypeOK /\ m \in Message /\ ctxMail' = Append(ctxMail, m)
  BY DEF ContextFinishes, Message, TypeInv, TypeOK
<1>2. Results = {} /\ running = active /\ active' = active /\ running' = NoRequest
  BY DEF ContextFinishes, UnderWay
<1>3. Results' = {Len(ctxMail')} /\ ctxMail'[Len(ctxMail')].eval = active
  BY <1>1, <1>2, SendMessage
<1>. QED
  BY <1>2, <1>3 DEF UnderWay

LEMMA StepUnderWay ==
  ASSUME TypeInv, UnderWay, [Next]_vars
  PROVE  UnderWay'
<1>0. CASE UNCHANGED <<active, running, ctxMail>>
  BY <1>0 DEF UnderWay, Results
<1>1. CASE \E c \in Callers : HandleRequest(c)
  BY <1>1, HandleRequestUnderWay
<1>2. CASE \E a \in Apis : LoadApi(a)
  BY <1>0, <1>2 DEF LoadApi
<1>3. CASE HandleContextMessage
  BY <1>3, HandleContextMessageUnderWay
<1>4. CASE \E call \in Calls : HandleResolve(call)
  BY <1>0, <1>4 DEF HandleResolve
<1>5. CASE \E r \in Monitored : HandleDown(r)
  BY <1>0, <1>5 DEF HandleDown
<1>6. CASE \E target \in Targets : ContextCalls(target)
  <2>. DEFINE call == <<running, made[running] + 1>>
  <2>1. PICK target \in Targets : ContextCalls(target)
    BY <1>6
  <2>2. [kind |-> "async", call |-> call, target |-> target] \in Message
    BY <2>1, CallTypes DEF ContextCalls, Message, TypeInv
  <2>. QED
    BY <2>1, <2>2, SendsUnderWay DEF ContextCalls
<1>7. CASE ContextParks
  <2>. DEFINE call == <<running, made[running] + 1>>
  <2>1. [kind |-> "sync", call |-> call] \in Message
    BY <1>7, CallTypes DEF ContextParks, Message, TypeInv
  <2>. QED
    BY <1>7, <2>1, SendsUnderWay DEF ContextParks
<1>8. CASE ContextFinishes
  BY <1>8, ContextFinishesUnderWay
<1>9. CASE \E r \in Requests : Send(r)
  BY <1>0, <1>9 DEF Send
<1>10. CASE \E c \in Callers : CallerExits(c)
  BY <1>0, <1>10 DEF CallerExits
<1>11. CASE \E call \in Calls : TaskResolves(call)
  BY <1>0, <1>11 DEF TaskResolves
<1>12. CASE UNCHANGED vars
  BY <1>0, <1>12 DEF vars
<1>. QED
  BY <1>1, <1>2, <1>3, <1>4, <1>5, <1>6, <1>7, <1>8, <1>9, <1>10, <1>11, <1>12
  DEF Next, ServerStep, ContextStep
-----------------------------------------------------------------------------
(* The pending callbacks and the promises.                                 *)

\* Only the command in execution has promises that wait.
PromiseInv ==
  /\ \A call \in entries : call[1] = running
  /\ PendingOfActive
  /\ NoOrphanPromise

\* An idle context has no promises, and an idle Server no pending callbacks.
LEMMA NothingPending ==
  ASSUME TypeInv, PromiseInv
  PROVE  /\ running = NoRequest => entries = {}
         /\ active = NoRequest => pending = {}
<1>1. \A call \in Calls : call[1] \in Requests
  BY Constants DEF Calls
<1>2. \A call \in entries : call[1] \in Requests
  BY <1>1 DEF TypeInv, TypeOK
<1>3. \A p \in pending : p.call[1] \in Requests
  BY <1>1 DEF TypeInv, TypeOK
<1>. QED
  BY <1>2, <1>3, Constants DEF PromiseInv, PendingOfActive

\* The messages that stand for a promise JavaScript waits for.
Announced(call) == \E i \in 1..Len(ctxMail) : ctxMail[i].kind = "async" /\ ctxMail[i].call = call

LEMMA HandleRequestPromise ==
  ASSUME TypeInv, UnderWay, PromiseInv, NEW c \in Callers, HandleRequest(c)
  PROVE  PromiseInv'
<1>. DEFINE r == Head(mail[c])
<1>1. UNCHANGED <<ctxMail, pending, entries>>
  BY DEF HandleRequest
<1>2. CASE RejectRequest(r) \/ QueueRequest(r)
  BY <1>1, <1>2 DEF RejectRequest, QueueRequest, PromiseInv, PendingOfActive, NoOrphanPromise, CallsIn
<1>3. CASE StartRequest(r)
  <2>1. running = NoRequest /\ active = NoRequest
    BY <1>3, IdleServer DEF StartRequest
  <2>2. entries = {} /\ pending = {}
    BY <2>1, NothingPending
  <2>. QED
    BY <1>1, <2>2 DEF PromiseInv, PendingOfActive, NoOrphanPromise
<1>. QED
  BY <1>2, <1>3 DEF HandleRequest

LEMMA HandleContextMessagePromise ==
  ASSUME TypeInv, UnderWay, PromiseInv, HandleContextMessage
  PROVE  PromiseInv'
<1>. DEFINE m == Head(ctxMail)
<1>0. ctxMail # <<>> /\ ctxMail' = Tail(ctxMail) /\ TypeOK
  BY DEF HandleContextMessage, TypeInv
<1>1. /\ m \in Message /\ m = ctxMail[1] /\ 1 \in 1..Len(ctxMail)
      /\ \A i \in 1..Len(ctxMail) : i = 1 \/ (i - 1 \in 1..Len(ctxMail') /\ ctxMail'[i - 1] = ctxMail[i])
  BY <1>0, TakeMessage
<1>2. \A call : Announced(call) => Announced(call)' \/ (m.kind = "async" /\ m.call = call)
  BY <1>1 DEF Announced
<1>3. CASE m.kind = "result" /\ m.eval = active /\ FinishActive
  <2>1. 1 \in Results
    BY <1>1, <1>3 DEF Results
  <2>2. running = NoRequest
    BY <2>1 DEF UnderWay
  <2>3. entries' = {}
    BY <1>3, <2>2, NothingPending DEF FinishActive
  <2>4. pending' = {}
    BY <1>3 DEF FinishActive, PendingOf, PromiseInv, PendingOfActive
  <2>. QED
    BY <2>3, <2>4 DEF PromiseInv, PendingOfActive, NoOrphanPromise
<1>4. CASE m.kind = "result" /\ m.eval # active /\ IgnoreResult
  BY <1>2, <1>4 DEF IgnoreResult, PromiseInv, PendingOfActive, NoOrphanPromise, Announced, CallsIn
<1>5. CASE m.kind = "async" /\ AnswerAsync(m.call, m.target)
  <2>1. UNCHANGED <<active, running>>
    BY <1>5 DEF AnswerAsync
  <2>2. CASE entries' = entries \ {m.call} /\ UNCHANGED pending
    BY <1>2, <2>1, <2>2 DEF PromiseInv, PendingOfActive, NoOrphanPromise, Announced, CallsIn
  <2>3. CASE /\ InvokesCallback(m.call, m.target)
             /\ pending' = pending \cup {[call |-> m.call, target |-> m.target]}
             /\ UNCHANGED entries
    <3>1. active = m.call[1]
      BY <2>3 DEF InvokesCallback
    <3>2. PendingOfActive'
      BY <2>1, <2>3, <3>1 DEF PromiseInv, PendingOfActive
    <3>3. \A call : call \in CallsIn(pending) \/ call = m.call => call \in CallsIn(pending')
      <4>. DEFINE p == [call |-> m.call, target |-> m.target]
      <4>1. p \in pending' /\ p.call = m.call /\ pending \subseteq pending'
        BY <2>3
      <4>. QED
        BY <4>1 DEF CallsIn
    <3>4. ASSUME NEW call \in entries
          PROVE  call \in CallsIn(pending') \/ Announced(call)'
      BY <1>2, <3>3 DEF PromiseInv, NoOrphanPromise, Announced
    <3>. QED
      BY <2>1, <2>3, <3>2, <3>4 DEF PromiseInv, NoOrphanPromise, Announced, CallsIn
  <2>. QED
    BY <1>5, <2>2, <2>3 DEF AnswerAsync, CallReturns, ResolveAsync
<1>6. CASE m.kind = "sync" /\ AnswerSync(m.call)
  BY <1>2, <1>6 DEF AnswerSync, PromiseInv, PendingOfActive, NoOrphanPromise, Announced, CallsIn
<1>. QED
  BY <1>3, <1>4, <1>5, <1>6 DEF HandleContextMessage

LEMMA HandleResolvePromise ==
  ASSUME TypeInv, PromiseInv, NEW call \in Calls, HandleResolve(call)
  PROVE  PromiseInv'
<1>1. UNCHANGED <<active, running, ctxMail>>
  BY DEF HandleResolve
<1>2. CASE UNCHANGED <<pending, entries>>
  BY <1>1, <1>2 DEF PromiseInv, PendingOfActive, NoOrphanPromise, CallsIn
<1>3. CASE \E p \in pending : p.call = call /\ pending' = pending \ {p} /\ entries' = entries \ {call}
  BY <1>1, <1>3 DEF PromiseInv, PendingOfActive, NoOrphanPromise, CallsIn
<1>. QED
  BY <1>2, <1>3 DEF HandleResolve, ResolveAsync

LEMMA HandleDownPromise ==
  ASSUME TypeInv, PromiseInv, NEW r \in Monitored, HandleDown(r)
  PROVE  PromiseInv'
<1>1. UNCHANGED <<active, running, ctxMail>>
  BY DEF HandleDown
<1>2. CASE active = r
  <2>1. pending' = pending \ PendingOf(r) /\ entries' = entries \ CallsIn(PendingOf(r))
    BY <1>2 DEF HandleDown, MarkActiveDown, ResolveAsync
  <2>. QED
    BY <1>1, <2>1 DEF PromiseInv, PendingOfActive, NoOrphanPromise, CallsIn
<1>3. CASE active # r
  BY <1>1, <1>3 DEF HandleDown, MarkActiveDown, PromiseInv, PendingOfActive, NoOrphanPromise, CallsIn
<1>. QED
  BY <1>2, <1>3

LEMMA ContextCallsPromise ==
  ASSUME TypeInv, PromiseInv, NEW target \in Targets, ContextCalls(target)
  PROVE  PromiseInv'
<1>. DEFINE call == <<running, made[running] + 1>>
<1>. DEFINE m == [kind |-> "async", call |-> call, target |-> target]
<1>1. m \in Message /\ ctxMail' = Append(ctxMail, m) /\ TypeOK
  BY CallTypes DEF ContextCalls, Message, TypeInv
<1>2. /\ \A i \in 1..Len(ctxMail) : i \in 1..Len(ctxMail') /\ ctxMail'[i] = ctxMail[i]
      /\ Len(ctxMail') \in 1..Len(ctxMail') /\ ctxMail'[Len(ctxMail')] = m
  BY <1>1, SendMessage
<1>3. /\ \A x : Announced(x) => Announced(x)'
      /\ \A x : x = call => Announced(x)'
  <2>1. m.kind = "async" /\ m.call = call
    OBVIOUS
  <2>. HIDE DEF m, call
  <2>. QED
    BY <1>2, <2>1 DEF Announced
<1>4. entries' = entries \cup {call} /\ UNCHANGED <<running, active, pending>>
  BY DEF ContextCalls
<1>5. call[1] = running
  OBVIOUS
<1>. HIDE DEF call
<1>. QED
  BY <1>3, <1>4, <1>5 DEF PromiseInv, PendingOfActive, NoOrphanPromise, Announced, CallsIn

LEMMA StepPromise ==
  ASSUME TypeInv, UnderWay, PromiseInv, [Next]_vars
  PROVE  PromiseInv'
<1>0. CASE UNCHANGED <<active, running, ctxMail, pending, entries>>
  BY <1>0 DEF PromiseInv, PendingOfActive, NoOrphanPromise, CallsIn
<1>1. CASE \E c \in Callers : HandleRequest(c)
  BY <1>1, HandleRequestPromise
<1>2. CASE \E a \in Apis : LoadApi(a)
  BY <1>0, <1>2 DEF LoadApi
<1>3. CASE HandleContextMessage
  BY <1>3, HandleContextMessagePromise
<1>4. CASE \E call \in Calls : HandleResolve(call)
  BY <1>4, HandleResolvePromise
<1>5. CASE \E r \in Monitored : HandleDown(r)
  BY <1>5, HandleDownPromise
<1>6. CASE \E target \in Targets : ContextCalls(target)
  BY <1>6, ContextCallsPromise
<1>7. CASE ContextParks
  <2>. DEFINE m == [kind |-> "sync", call |-> <<running, made[running] + 1>>]
  <2>1. m \in Message /\ ctxMail' = Append(ctxMail, m) /\ TypeOK
    BY <1>7, CallTypes DEF ContextParks, Message, TypeInv
  <2>2. \A i \in 1..Len(ctxMail) : i \in 1..Len(ctxMail') /\ ctxMail'[i] = ctxMail[i]
    BY <2>1, SendMessage
  <2>3. \A x : Announced(x) => Announced(x)'
    BY <2>2 DEF Announced
  <2>. QED
    BY <1>7, <2>3 DEF ContextParks, PromiseInv, PendingOfActive, NoOrphanPromise, Announced, CallsIn
<1>8. CASE ContextFinishes
  BY <1>8 DEF ContextFinishes, PromiseInv, PendingOfActive, NoOrphanPromise
<1>9. CASE \E r \in Requests : Send(r)
  BY <1>0, <1>9 DEF Send
<1>10. CASE \E c \in Callers : CallerExits(c)
  BY <1>0, <1>10 DEF CallerExits
<1>11. CASE \E call \in Calls : TaskResolves(call)
  BY <1>0, <1>11 DEF TaskResolves
<1>12. CASE UNCHANGED vars
  BY <1>0, <1>12 DEF vars
<1>. QED
  BY <1>1, <1>2, <1>3, <1>4, <1>5, <1>6, <1>7, <1>8, <1>9, <1>10, <1>11, <1>12
  DEF Next, ServerStep, ContextStep

-----------------------------------------------------------------------------
(* The mailbox and the monitors.                                           *)

\* A request is in its caller's part of the mailbox once.
MailSound ==
  \A c \in Callers :
    /\ Distinct(mail[c])
    /\ \A r : Entered(mail[c], r) => CallerOf[r] = c /\ r \in sent

\* A DOWN message says that the caller has exited, and so does caller_down?.
DownIsDead ==
  /\ \A r \in Requests : monitor[r] = "down" => CallerOf[r] \notin alive
  /\ callerDown => active # NoRequest /\ ~Live(active)

MailInv == MailSound /\ DownIsDead

\* handle_call and handle_cast take one request, and no other step does.
LEMMA TakeRequest ==
  ASSUME TypeInv, MailSound, NEW c \in Callers, mail[c] # <<>>,
         mail' = [mail EXCEPT ![c] = Tail(@)], UNCHANGED sent
  PROVE  /\ MailSound'
         /\ Head(mail[c]) \in Requests /\ Untaken(Head(mail[c])) /\ Head(mail[c]) \in sent
         /\ CallerOf[Head(mail[c])] = c
         /\ \A r \in Requests : Untaken(r)' <=> Untaken(r) /\ r # Head(mail[c])
<1>1. mail \in [Callers -> Seq(Requests)] /\ mail[c] \in Seq(Requests)
  BY DEF TypeInv, TypeOK
<1>2. /\ Tail(mail[c]) \in Seq(Requests) /\ Head(mail[c]) \in Requests
      /\ Entered(mail[c], Head(mail[c]))
      /\ Distinct(Tail(mail[c]))
      /\ \A x : Entered(Tail(mail[c]), x) <=> Entered(mail[c], x) /\ x # Head(mail[c])
  BY <1>1, TailEntered DEF MailSound
<1>3. \A d \in Callers : mail'[d] = IF d = c THEN Tail(mail[c]) ELSE mail[d]
  BY <1>1
<1>4. MailSound'
  BY <1>2, <1>3 DEF MailSound
<1>5. CallerOf[Head(mail[c])] = c /\ Head(mail[c]) \in sent
  BY <1>2 DEF MailSound
<1>6. \A r \in Requests : Untaken(r) <=> (r \notin sent \/ Entered(mail[CallerOf[r]], r))
  BY DEF Untaken, Entered
<1>7. \A r \in Requests : Untaken(r)' <=> (r \notin sent \/ Entered(mail'[CallerOf[r]], r))
  BY DEF Untaken, Entered
<1>8. ASSUME NEW r \in Requests
      PROVE  Untaken(r)' <=> Untaken(r) /\ r # Head(mail[c])
  <2>1. CallerOf[r] \in Callers
    BY Constants
  <2>2. CASE CallerOf[r] = c
    BY <1>2, <1>3, <1>5, <1>6, <1>7, <2>2
  <2>3. CASE CallerOf[r] # c
    BY <1>3, <1>5, <1>6, <1>7, <2>1, <2>3
  <2>. QED
    BY <2>2, <2>3
<1>. QED
  BY <1>2, <1>4, <1>5, <1>6, <1>8

\* A caller sends one request.
LEMMA SendRequest ==
  ASSUME TypeInv, MailSound, NEW q \in Requests, Send(q)
  PROVE  /\ MailSound'
         /\ \A r \in Requests : Untaken(r)' <=> Untaken(r)
<1>. DEFINE c == CallerOf[q]
<1>1. mail \in [Callers -> Seq(Requests)] /\ c \in Callers /\ mail[c] \in Seq(Requests)
  BY Constants DEF TypeInv, TypeOK
<1>2. /\ q \notin sent /\ sent' = sent \cup {q}
      /\ mail' = [mail EXCEPT ![c] = Append(@, q)]
  BY DEF Send
<1>3. ~Entered(mail[c], q)
  BY <1>1, <1>2 DEF MailSound
<1>4. /\ Distinct(Append(mail[c], q))
      /\ \A x : Entered(Append(mail[c], q), x) <=> Entered(mail[c], x) \/ x = q
  BY <1>1, <1>3, AppendDistinct, AppendEntered DEF MailSound
<1>5. \A d \in Callers : mail'[d] = IF d = c THEN Append(mail[c], q) ELSE mail[d]
  BY <1>1, <1>2
<1>6. MailSound'
  BY <1>2, <1>4, <1>5 DEF MailSound
<1>7. \A r \in Requests : Untaken(r) <=> (r \notin sent \/ Entered(mail[CallerOf[r]], r))
  BY DEF Untaken, Entered
<1>8. \A r \in Requests : Untaken(r)' <=> (r \notin sent' \/ Entered(mail'[CallerOf[r]], r))
  BY DEF Untaken, Entered
<1>9. ASSUME NEW r \in Requests
      PROVE  Untaken(r)' <=> Untaken(r)
  <2>1. CallerOf[r] \in Callers
    BY Constants
  <2>. QED
    BY <1>2, <1>4, <1>5, <1>7, <1>8, <2>1
<1>. QED
  BY <1>6, <1>9

\* Steps that leave the mailbox alone.
LEMMA QuietMail ==
  ASSUME UNCHANGED <<sent, mail>>
  PROVE  /\ MailSound => MailSound'
         /\ \A r : Untaken(r)' <=> Untaken(r)
  BY DEF MailSound, Untaken

\* monitor_caller, and the delivery of an answer, set no wrong monitor.
LEMMA DeliverDown ==
  ASSUME DownIsDead, NEW mon, NEW ans, NEW D, Deliver(mon, ans, D), UNCHANGED alive,
         \A r \in Requests : mon[r] = "down" => CallerOf[r] \notin alive
  PROVE  \A r \in Requests : monitor'[r] = "down" => CallerOf[r] \notin alive'
  BY DEF Deliver

LEMMA WatchedDown ==
  ASSUME TypeInv, DownIsDead, NEW r \in Requests
  PROVE  \A x \in Requests : Watched(r)[x] = "down" => CallerOf[x] \notin alive
<1>1. monitor \in [Requests -> {"none", "set", "down"}]
  BY DEF TypeInv, TypeOK
<1>. QED
  BY <1>1 DEF Watched, DownIsDead, Live

\* maybe_start_next leaves no active request whose caller is known to be dead.
LEMMA StartNextDown ==
  ASSUME DownIsDead, NEW mon, NEW ans, NEW D, MaybeStartNext(queue, queueSize, mon, ans, D),
         UNCHANGED alive,
         \A r \in Requests : mon[r] = "down" => CallerOf[r] \notin alive
  PROVE  DownIsDead'
<1>1. callerDown' = FALSE
  BY DEF MaybeStartNext, StartNone, StartFirst, RefuseAll, Idle, Dispatch
<1>2. \E a, E : Deliver(mon, a, E)
  BY DEF MaybeStartNext, StartNone, StartFirst, RefuseAll
<1>. QED
  BY <1>1, <1>2, DeliverDown DEF DownIsDead

LEMMA HandleRequestMail ==
  ASSUME TypeInv, MailInv, NEW c \in Callers, HandleRequest(c)
  PROVE  MailInv'
<1>. DEFINE r == Head(mail[c])
<1>1. UNCHANGED <<alive, sent>> /\ mail[c] # <<>> /\ mail' = [mail EXCEPT ![c] = Tail(@)]
  BY DEF HandleRequest
<1>2. MailSound' /\ r \in Requests
  BY <1>1, TakeRequest DEF MailInv
<1>. HIDE DEF r
<1>3. \A x \in Requests : Watched(r)[x] = "down" => CallerOf[x] \notin alive
  BY <1>2, WatchedDown DEF MailInv
<1>4. CASE RejectRequest(r) \/ QueueRequest(r)
  <2>1. \E ans, D : Deliver(Watched(r), ans, D)
    BY <1>4 DEF RejectRequest, QueueRequest
  <2>2. \A x \in Requests : monitor'[x] = "down" => CallerOf[x] \notin alive'
    BY <1>1, <1>3, <2>1, DeliverDown DEF MailInv
  <2>3. UNCHANGED <<active, callerDown>>
    BY <1>4 DEF RejectRequest, QueueRequest
  <2>. QED
    BY <1>1, <1>2, <2>2, <2>3 DEF MailInv, DownIsDead, Live
<1>5. CASE StartRequest(r)
  <2>1. CASE MaybeStartNext(queue, queueSize, Watched(r), [NoAnswer EXCEPT ![r] = Refusal], {r})
    BY <1>1, <1>2, <1>3, <2>1, StartNextDown DEF MailInv
  <2>2. CASE Dispatch(r) /\ Deliver(Watched(r), NoAnswer, {})
    <3>1. \A x \in Requests : monitor'[x] = "down" => CallerOf[x] \notin alive'
      BY <1>1, <1>3, <2>2, DeliverDown DEF MailInv
    <3>. QED
      BY <1>2, <2>2, <3>1 DEF Dispatch, MailInv, DownIsDead
  <2>. QED
    BY <1>5, <2>1, <2>2 DEF StartRequest
<1>. QED
  BY <1>4, <1>5 DEF HandleRequest, r

LEMMA StepMail ==
  ASSUME TypeInv, MailInv, [Next]_vars
  PROVE  MailInv'
<1>0. CASE UNCHANGED <<alive, sent, mail, monitor, active, callerDown>>
  BY <1>0, QuietMail DEF MailInv, DownIsDead, Live
<1>1. CASE \E c \in Callers : HandleRequest(c)
  BY <1>1, HandleRequestMail
<1>2. CASE \E a \in Apis : LoadApi(a)
  BY <1>0, <1>2 DEF LoadApi
<1>3. CASE HandleContextMessage
  <2>. DEFINE m == Head(ctxMail)
  <2>1. UNCHANGED <<alive, sent, mail>>
    BY <1>3 DEF HandleContextMessage
  <2>2. CASE m.kind = "result" /\ m.eval = active /\ FinishActive
    BY <2>1, <2>2, QuietMail, StartNextDown DEF FinishActive, MailInv, DownIsDead
  <2>3. CASE m.kind = "result" /\ m.eval # active /\ IgnoreResult
    BY <1>0, <2>1, <2>3 DEF IgnoreResult
  <2>4. CASE m.kind = "async" /\ AnswerAsync(m.call, m.target)
    BY <1>0, <2>1, <2>4 DEF AnswerAsync
  <2>5. CASE m.kind = "sync" /\ AnswerSync(m.call)
    BY <1>0, <2>1, <2>5 DEF AnswerSync
  <2>. QED
    BY <1>3, <2>2, <2>3, <2>4, <2>5 DEF HandleContextMessage
<1>4. CASE \E call \in Calls : HandleResolve(call)
  BY <1>0, <1>4 DEF HandleResolve
<1>5. CASE \E r \in Monitored : HandleDown(r)
  <2>1. PICK r \in Monitored : HandleDown(r)
    BY <1>5
  <2>2. r \in Requests /\ UNCHANGED <<alive, sent, mail, active>>
    BY <2>1, Constants DEF HandleDown
  <2>3. ~Live(r)
    BY <2>1, <2>2 DEF HandleDown, MailInv, DownIsDead, Live
  <2>4. \A x \in Requests : monitor'[x] = "down" => monitor[x] = "down"
    BY <2>1 DEF HandleDown, TypeInv, TypeOK
  <2>5. callerDown' => callerDown \/ active = r
    BY <2>1 DEF HandleDown, MarkActiveDown
  <2>. QED
    BY <2>2, <2>3, <2>4, <2>5, QuietMail, Constants DEF MailInv, DownIsDead, Live
<1>6. CASE \E target \in Targets : ContextCalls(target)
  BY <1>0, <1>6 DEF ContextCalls
<1>7. CASE ContextParks
  BY <1>0, <1>7 DEF ContextParks
<1>8. CASE ContextFinishes
  BY <1>0, <1>8 DEF ContextFinishes
<1>9. CASE \E r \in Requests : Send(r)
  <2>1. PICK r \in Requests : Send(r)
    BY <1>9
  <2>2. MailSound'
    BY <2>1, SendRequest DEF MailInv
  <2>3. UNCHANGED <<alive, monitor, active, callerDown>>
    BY <2>1 DEF Send
  <2>. QED
    BY <2>2, <2>3 DEF MailInv, DownIsDead, Live
<1>10. CASE \E c \in Callers : CallerExits(c)
  BY <1>10, QuietMail DEF CallerExits, MailInv, DownIsDead, Live
<1>11. CASE \E call \in Calls : TaskResolves(call)
  BY <1>0, <1>11 DEF TaskResolves
<1>12. CASE UNCHANGED vars
  BY <1>0, <1>12 DEF vars
<1>. QED
  BY <1>1, <1>2, <1>3, <1>4, <1>5, <1>6, <1>7, <1>8, <1>9, <1>10, <1>11, <1>12
  DEF Next, ServerStep, ContextStep
-----------------------------------------------------------------------------
(* Each request is in one place.                                           *)

\* A request that the Server has not taken has left no trace.
Fresh(r) ==
  /\ ~Entered(queue, r) /\ ~Entered(ran, r) /\ ~Entered(arrivals, r)
  /\ replies[r] = <<>> /\ active # r

\* It is taken, then queued, then active, then answered, or given up with its caller.
PlaceOf(r) ==
  /\ Untaken(r) => Fresh(r)
  /\ Entered(queue, r) => replies[r] = <<>> /\ ~Entered(ran, r) /\ active # r
  /\ active = r => replies[r] = <<>>
  /\ replies[r] # <<>> =>
       Len(replies[r]) = 1 /\ (replies[r][1] # "result" => ~Entered(ran, r))
  /\ ~Untaken(r) => Entered(queue, r) \/ active = r \/ replies[r] # <<>> \/ ~Live(r)

PlaceInv == Distinct(queue) /\ \A r \in Requests : PlaceOf(r)

\* The first answer of a request.
LEMMA FirstAnswer ==
  ASSUME TypeInv, NEW mon, NEW ans \in Answers, NEW D, Deliver(mon, ans, D), NEW x \in Requests
  PROVE  /\ ans[x] = Silent => replies'[x] = replies[x]
         /\ ans[x] # Silent /\ replies[x] = <<>> =>
              replies'[x] # <<>> /\ Len(replies'[x]) = 1 /\ replies'[x][1] = ans[x]
<1>1. replies'[x] = IF ans[x] = Silent THEN replies[x] ELSE Append(replies[x], ans[x])
  BY DEF Deliver
<1>2. ASSUME NEW o
      PROVE  Append(<<>>, o) # <<>> /\ Len(Append(<<>>, o)) = 1 /\ Append(<<>>, o)[1] = o
  OBVIOUS
<1>3. CASE ans[x] = Silent
  BY <1>1, <1>3
<1>4. CASE ans[x] # Silent /\ replies[x] = <<>>
  <2>1. replies'[x] = Append(<<>>, ans[x])
    BY <1>1, <1>4
  <2>. QED
    BY <1>2, <1>4, <2>1
<1>. QED
  BY <1>3, <1>4

\* A step that leaves the places alone: only callers may exit.
LEMMA QuietPlace ==
  ASSUME PlaceInv, UNCHANGED <<queue, active, ran, arrivals, replies>>, alive' \subseteq alive,
         \A r \in Requests : Untaken(r)' <=> Untaken(r)
  PROVE  PlaceInv'
  BY DEF PlaceInv, PlaceOf, Fresh, Live, Entered, Distinct

\* maybe_start_next, after d has been answered or has lost its caller.
LEMMA StartNextPlace ==
  ASSUME TypeInv, PlaceInv, NEW d \in Requests, NEW mon, NEW ans \in Answers, NEW D,
         MaybeStartNext(queue, queueSize, mon, ans, D),
         UNCHANGED alive,
         ~Entered(queue, d), replies[d] = <<>>,
         active = NoRequest \/ active = d,
         \A x \in Requests : x # d => ans[x] = Silent,
         ans[d] = Silent => ~Live(d),
         ans[d] \in {"result", Silent} \/ ~Entered(ran, d),
         \A x \in Requests : Untaken(x)' <=> Untaken(x) /\ x # d,
         \A x \in Requests : Entered(arrivals, x)' => Entered(arrivals, x) \/ x = d
  PROVE  PlaceInv'
<1>0. queue \in Seq(Requests) /\ ran \in Seq(Requests) /\ Distinct(queue) /\ Len(queue) \in Nat
  BY LenProperties DEF TypeInv, TypeOK, PlaceInv
<1>1. \A x \in Requests : PlaceOf(x)
  BY DEF PlaceInv
<1>2. CASE StartNone(queue, queueSize, mon, ans, D)
  <2>1. active' = NoRequest /\ UNCHANGED <<ran, queue>>
    BY <1>2 DEF StartNone, Idle
  <2>2. \A x \in Requests :
          /\ ans[x] = Silent => replies'[x] = replies[x]
          /\ ans[x] # Silent /\ replies[x] = <<>> =>
               replies'[x] # <<>> /\ Len(replies'[x]) = 1 /\ replies'[x][1] = ans[x]
    BY <1>2, FirstAnswer DEF StartNone
  <2>3. ASSUME NEW x \in Requests PROVE PlaceOf(x)'
    BY <1>1, <2>1, <2>2, Constants DEF PlaceOf, Fresh, Live
  <2>. QED
    BY <1>0, <2>1, <2>3 DEF PlaceInv
<1>3. CASE StartFirst(queue, queueSize, mon, ans, D)
  <2>1. PICK k \in LiveAt(queue) :
          /\ \A j \in LiveAt(queue) : k <= j
          /\ Dispatch(queue[k])
          /\ queue' = Suffix(queue, k)
          /\ Deliver(mon, ans, D \cup At(queue, 1..(k - 1)))
    BY <1>3 DEF StartFirst
  <2>. DEFINE s == queue[k]
  <2>2. k \in 1..Len(queue) /\ s \in Requests /\ Entered(queue, s)
    BY <1>0, ElementOfSeq DEF LiveAt, Entered
  <2>3. active' = s /\ \A x \in Requests : Entered(ran', x) <=> Entered(ran, x) \/ x = s
    BY <1>0, <2>1, <2>2, AppendEntered DEF Dispatch
  <2>4. \A x \in Requests :
          /\ ans[x] = Silent => replies'[x] = replies[x]
          /\ ans[x] # Silent /\ replies[x] = <<>> =>
               replies'[x] # <<>> /\ Len(replies'[x]) = 1 /\ replies'[x][1] = ans[x]
    BY <2>1, FirstAnswer
  <2>5. /\ Distinct(queue')
        /\ \A x : Entered(queue', x) => Entered(queue, x) /\ x # s
        /\ \A x : Entered(queue, x) => Entered(queue', x) \/ \E i \in 1..k : queue[i] = x
    BY <1>0, <2>1, <2>2, SuffixEntered
  <2>6. \A x : Entered(queue, x) => Entered(queue', x) \/ x = s \/ ~Live(x)
    <3>1. \A i \in 1..k : i = k \/ ~Live(queue[i])
      BY <1>0, <2>1, <2>2 DEF LiveAt
    <3>. QED
      BY <2>5, <3>1
  <2>. HIDE DEF s
  <2>7. ASSUME NEW x \in Requests PROVE PlaceOf(x)'
    <3>1. Entered(ran, x)' <=> Entered(ran, x) \/ x = s
      BY <2>3
    <3>2. Entered(queue, x)' => Entered(queue, x) /\ x # s
      BY <2>5
    <3>3. Live(x)' <=> Live(x)
      BY DEF Live
    <3>. QED
      BY <1>1, <2>2, <2>3, <2>4, <2>5, <2>6, <3>1, <3>2, <3>3, Constants DEF PlaceOf, Fresh
  <2>. QED
    BY <2>5, <2>7 DEF PlaceInv, Distinct
<1>4. CASE RefuseAll(queue, queueSize, mon, ans, D)
  <2>. DEFINE all == [r \in Requests |-> IF r \in At(queue, LiveAt(queue)) THEN Refusal ELSE ans[r]]
  <2>1. PICK k \in LiveAt(queue) :
          /\ \A j \in LiveAt(queue) : j <= k
          /\ Idle
          /\ queue' = Suffix(queue, k)
          /\ Deliver(mon, all, D \cup At(queue, 1..Len(queue)))
    BY <1>4 DEF RefuseAll
  <2>2. all \in Answers /\ Refusal # Silent /\ Refusal # "result"
    BY AnswerTypes DEF Answers, Refusal, Silent
  <2>3. active' = NoRequest /\ ran' = ran
    BY <2>1 DEF Idle
  <2>4. \A x \in Requests :
          /\ all[x] = Silent => replies'[x] = replies[x]
          /\ all[x] # Silent /\ replies[x] = <<>> =>
               replies'[x] # <<>> /\ Len(replies'[x]) = 1 /\ replies'[x][1] = all[x]
    BY <2>1, <2>2, FirstAnswer
  <2>5. k \in 1..Len(queue)
    BY DEF LiveAt
  <2>6. /\ Distinct(queue')
        /\ \A x : Entered(queue', x) => Entered(queue, x)
        /\ \A x : Entered(queue, x) => Entered(queue', x) \/ \E i \in 1..k : queue[i] = x
    BY <1>0, <2>1, <2>5, SuffixEntered
  <2>7. \A x : x \in At(queue, LiveAt(queue)) <=> Entered(queue, x) /\ Live(x)
    BY DEF At, LiveAt, Entered
  <2>8. ASSUME NEW x, Entered(queue', x) PROVE ~Live(x)
    <3>1. PICK i \in 1..Len(queue') : queue'[i] = x
      BY <2>8 DEF Entered
    <3>2. Len(queue') = Len(queue) - k /\ \A j \in 1..(Len(queue) - k) : queue'[j] = queue[k + j]
      BY <1>0, <2>1, <2>5, SuffixProperties, k \in 0..Len(queue)
    <3>3. k + i \in 1..Len(queue) /\ queue[k + i] = x /\ ~(k + i <= k)
      BY <1>0, <2>5, <3>1, <3>2
    <3>. QED
      BY <2>1, <3>3 DEF LiveAt
  <2>9. \A x \in Requests : all[x] = IF Entered(queue, x) /\ Live(x) THEN Refusal ELSE ans[x]
    BY <2>7
  <2>. HIDE DEF all
  <2>10. ASSUME NEW x \in Requests PROVE PlaceOf(x)'
    <3>1. Entered(ran, x)' <=> Entered(ran, x)
      BY <2>3
    <3>2. Entered(queue, x)' => Entered(queue, x) /\ ~Live(x)
      BY <2>6, <2>8
    <3>3. Live(x)' <=> Live(x)
      BY DEF Live
    <3>4. CASE Entered(queue, x)
      <4>1. replies[x] = <<>> /\ ~Entered(ran, x) /\ x # d /\ ans[x] = Silent /\ ~Untaken(x)
        BY <1>1, <3>4 DEF PlaceOf, Fresh
      <4>2. CASE Live(x)
        BY <2>2, <2>3, <2>4, <2>9, <3>1, <3>2, <3>3, <3>4, <4>1, <4>2, Constants DEF PlaceOf
      <4>3. CASE ~Live(x)
        BY <2>3, <2>4, <2>9, <3>1, <3>2, <3>3, <3>4, <4>1, <4>3, Constants DEF PlaceOf
      <4>. QED
        BY <4>2, <4>3
    <3>5. CASE ~Entered(queue, x)
      BY <1>1, <2>3, <2>4, <2>9, <3>1, <3>2, <3>3, <3>5, Constants DEF PlaceOf, Fresh
    <3>. QED
      BY <3>4, <3>5
  <2>. QED
    BY <2>6, <2>10 DEF PlaceInv, Distinct
<1>. QED
  BY <1>2, <1>3, <1>4 DEF MaybeStartNext

LEMMA HandleRequestPlace ==
  ASSUME TypeInv, MailInv, PlaceInv, NEW c \in Callers, HandleRequest(c)
  PROVE  PlaceInv'
<1>. DEFINE r == Head(mail[c])
<1>0. UNCHANGED <<alive, sent>> /\ mail[c] # <<>> /\ mail' = [mail EXCEPT ![c] = Tail(@)]
  BY DEF HandleRequest
<1>1. /\ r \in Requests /\ Untaken(r)
      /\ \A x \in Requests : Untaken(x)' <=> Untaken(x) /\ x # r
  BY <1>0, TakeRequest DEF MailInv
<1>2. RejectRequest(r) \/ QueueRequest(r) \/ StartRequest(r)
  BY DEF HandleRequest
<1>. HIDE DEF r
<1>3. Fresh(r) /\ Distinct(queue) /\ \A x \in Requests : PlaceOf(x)
  BY <1>1 DEF PlaceInv, PlaceOf
<1>4. queue \in Seq(Requests) /\ ran \in Seq(Requests) /\ arrivals \in Seq(Requests)
  BY DEF TypeInv, TypeOK
<1>5. \A x \in Requests : Live(x)' <=> Live(x)
  BY <1>0 DEF Live
<1>6. NoAnswer \in Answers /\ \A o \in Outcomes : [NoAnswer EXCEPT ![r] = o] \in Answers
  BY <1>1, AnswerTypes
<1>7. /\ \A x \in Requests : NoAnswer[x] = Silent
      /\ \A o : [NoAnswer EXCEPT ![r] = o][r] = o
      /\ \A o : \A x \in Requests : x # r => [NoAnswer EXCEPT ![r] = o][x] = Silent
  BY <1>1 DEF NoAnswer
<1>8. CASE RejectRequest(r)
  <2>. DEFINE ans == [NoAnswer EXCEPT ![r] = "context_busy"]
  <2>1. ans \in Answers /\ "context_busy" # Silent /\ "context_busy" # "result"
    BY <1>6 DEF Outcomes, Silent
  <2>2. \A x \in Requests :
          /\ ans[x] = Silent => replies'[x] = replies[x]
          /\ ans[x] # Silent /\ replies[x] = <<>> =>
               replies'[x] # <<>> /\ Len(replies'[x]) = 1 /\ replies'[x][1] = ans[x]
    BY <1>8, <2>1, FirstAnswer DEF RejectRequest
  <2>3. ans[r] = "context_busy" /\ \A x \in Requests : x # r => ans[x] = Silent
    BY <1>7
  <2>. HIDE DEF ans
  <2>4. UNCHANGED <<active, queue, ran, arrivals>>
    BY <1>8 DEF RejectRequest
  <2>5. ASSUME NEW x \in Requests PROVE PlaceOf(x)'
    BY <1>1, <1>3, <1>5, <2>1, <2>2, <2>3, <2>4 DEF PlaceOf, Fresh
  <2>. QED
    BY <1>3, <2>4, <2>5 DEF PlaceInv
<1>9. CASE QueueRequest(r)
  <2>1. \A x \in Requests : replies'[x] = replies[x]
    BY <1>6, <1>7, <1>9, FirstAnswer DEF QueueRequest
  <2>2. /\ queue' = Append(queue, r) /\ arrivals' = Append(arrivals, r)
        /\ UNCHANGED <<active, ran>>
    BY <1>9 DEF QueueRequest
  <2>3. /\ Distinct(queue')
        /\ \A x : Entered(queue', x) <=> Entered(queue, x) \/ x = r
        /\ \A x : Entered(arrivals', x) <=> Entered(arrivals, x) \/ x = r
    BY <1>1, <1>3, <1>4, <2>2, AppendDistinct, AppendEntered DEF Fresh
  <2>4. ASSUME NEW x \in Requests PROVE PlaceOf(x)'
    <3>1. /\ Entered(queue, x)' <=> Entered(queue, x) \/ x = r
          /\ Entered(arrivals, x)' <=> Entered(arrivals, x) \/ x = r
          /\ Entered(ran, x)' <=> Entered(ran, x)
      BY <2>2, <2>3
    <3>. QED
      BY <1>1, <1>3, <1>5, <2>1, <2>2, <3>1 DEF PlaceOf, Fresh
  <2>. QED
    BY <2>3, <2>4 DEF PlaceInv, Distinct
<1>10. CASE StartRequest(r)
  <2>1. arrivals' = Append(arrivals, r) /\ active = NoRequest
    BY <1>10 DEF StartRequest
  <2>2. \A x \in Requests : Entered(arrivals, x)' <=> Entered(arrivals, x) \/ x = r
    BY <1>1, <1>4, <2>1, AppendEntered
  <2>3. CASE Dispatch(r) /\ Deliver(Watched(r), NoAnswer, {}) /\ UNCHANGED queue
    <3>1. \A x \in Requests : replies'[x] = replies[x]
      BY <1>6, <1>7, <2>3, FirstAnswer
    <3>2. active' = r /\ \A x \in Requests : Entered(ran, x)' <=> Entered(ran, x) \/ x = r
      BY <1>1, <1>4, <2>3, AppendEntered DEF Dispatch
    <3>3. ASSUME NEW x \in Requests PROVE PlaceOf(x)'
      <4>1. Entered(queue, x)' <=> Entered(queue, x)
        BY <2>3
      <4>. QED
        BY <1>1, <1>3, <1>5, <2>1, <2>2, <2>3, <3>1, <3>2, <4>1, Constants DEF PlaceOf, Fresh
    <3>. QED
      BY <1>3, <2>3, <3>3 DEF PlaceInv
  <2>4. CASE MaybeStartNext(queue, queueSize, Watched(r), [NoAnswer EXCEPT ![r] = Refusal], {r})
    <3>. DEFINE ans == [NoAnswer EXCEPT ![r] = Refusal]
    <3>1. ans \in Answers /\ ans[r] # Silent /\ \A x \in Requests : x # r => ans[x] = Silent
      BY <1>6, <1>7, AnswerTypes DEF Outcomes, Silent
    <3>. HIDE DEF ans
    <3>2. MaybeStartNext(queue, queueSize, Watched(r), ans, {r})
      BY <2>4 DEF ans
    <3>. QED
      BY <1>0, <1>1, <1>3, <2>1, <2>2, <3>1, <3>2, StartNextPlace DEF Fresh
  <2>. QED
    BY <1>10, <2>3, <2>4 DEF StartRequest
<1>. QED
  BY <1>2, <1>8, <1>9, <1>10

LEMMA FinishActivePlace ==
  ASSUME TypeInv, MailInv, PlaceInv, active \in Requests, FinishActive,
         UNCHANGED <<alive, sent, mail>>
  PROVE  PlaceInv'
<1>. DEFINE ans == IF callerDown THEN NoAnswer ELSE [NoAnswer EXCEPT ![active] = "result"]
<1>1. MaybeStartNext(queue, queueSize, monitor, ans, {active}) /\ arrivals' = arrivals
  BY DEF FinishActive
<1>2. ans \in Answers
  BY AnswerTypes DEF Outcomes
<1>3. /\ \A x \in Requests : x # active => ans[x] = Silent
      /\ ans[active] = IF callerDown THEN Silent ELSE "result"
  BY DEF NoAnswer
<1>4. callerDown => ~Live(active)
  BY DEF MailInv, DownIsDead
<1>5. PlaceOf(active)
  BY DEF PlaceInv
<1>6. ~Untaken(active) /\ ~Entered(queue, active) /\ replies[active] = <<>>
  BY <1>5 DEF PlaceOf, Fresh
<1>7. \A x \in Requests : Untaken(x)' <=> Untaken(x) /\ x # active
  BY <1>6, QuietMail
<1>8. \A x \in Requests : Entered(arrivals, x)' <=> Entered(arrivals, x)
  BY <1>1
<1>9. /\ UNCHANGED alive
      /\ active = NoRequest \/ active = active
      /\ ans[active] = Silent => ~Live(active)
      /\ ans[active] \in {"result", Silent} \/ ~Entered(ran, active)
  BY <1>3, <1>4 DEF Silent
<1>10. \A x \in Requests : Entered(arrivals, x)' => Entered(arrivals, x) \/ x = active
  BY <1>8
<1>. HIDE DEF ans
<1>11. \A x \in Requests : x # active => ans[x] = Silent
  BY <1>3
<1>. QED
  BY <1>1, <1>2, <1>6, <1>7, <1>9, <1>10, <1>11, StartNextPlace
LEMMA HandleDownPlace ==
  ASSUME TypeInv, MailInv, PlaceInv, NEW r \in Monitored, HandleDown(r)
  PROVE  PlaceInv'
<1>1. UNCHANGED <<alive, sent, mail, active, ran, arrivals, replies>> /\ DropQueued(r)
  BY DEF HandleDown
<1>2. r \in Requests /\ ~Live(r)
  BY Constants DEF HandleDown, MailInv, DownIsDead, Live
<1>3. Distinct(queue) /\ queue \in Seq(Requests) /\ \A x \in Requests : PlaceOf(x)
  BY DEF PlaceInv, TypeInv, TypeOK
<1>4. Distinct(queue') /\ \A x : Entered(queue', x) => Entered(queue, x)
  <2>1. CASE Entered(queue, r)
    <3>1. PICK i \in 1..Len(queue) : queue' = Without(queue, i)
      BY <1>1, <2>1 DEF DropQueued, Without
    <3>. QED
      BY <1>3, <3>1, WithoutProperties
  <2>2. CASE ~Entered(queue, r)
    BY <1>1, <1>3, <2>2 DEF DropQueued
  <2>. QED
    BY <2>1, <2>2
<1>5. \A x : Entered(queue, x) => Entered(queue', x) \/ x = r
  <2>1. CASE Entered(queue, r)
    <3>1. PICK i \in 1..Len(queue) : queue[i] = r /\ queue' = Without(queue, i)
      BY <1>1, <2>1 DEF DropQueued, Without
    <3>. QED
      BY <1>3, <3>1, WithoutProperties
  <2>2. CASE ~Entered(queue, r)
    BY <1>1, <1>3, <2>2 DEF DropQueued
  <2>. QED
    BY <2>1, <2>2
<1>6. \A x \in Requests : (Untaken(x)' <=> Untaken(x)) /\ (Live(x)' <=> Live(x))
  BY <1>1, QuietMail DEF Live
<1>7. ASSUME NEW x \in Requests PROVE PlaceOf(x)'
  <2>1. /\ Entered(queue, x)' => Entered(queue, x)
        /\ Entered(queue, x) => Entered(queue, x)' \/ x = r
        /\ Entered(ran, x)' <=> Entered(ran, x)
        /\ Entered(arrivals, x)' <=> Entered(arrivals, x)
    BY <1>1, <1>4, <1>5
  <2>. QED
    BY <1>1, <1>2, <1>3, <1>6, <2>1 DEF PlaceOf, Fresh
<1>. QED
  BY <1>4, <1>7 DEF PlaceInv, Distinct

LEMMA StepPlace ==
  ASSUME TypeInv, MailInv, PlaceInv, [Next]_vars
  PROVE  PlaceInv'
<1>0. CASE UNCHANGED <<alive, sent, mail, queue, active, ran, arrivals, replies>>
  BY <1>0, QuietMail, QuietPlace
<1>1. CASE \E c \in Callers : HandleRequest(c)
  BY <1>1, HandleRequestPlace
<1>2. CASE \E a \in Apis : LoadApi(a)
  BY <1>0, <1>2 DEF LoadApi
<1>3. CASE HandleContextMessage
  <2>1. Head(ctxMail) \in Message /\ UNCHANGED <<alive, sent, mail>>
    BY <1>3, HeadTailProperties DEF HandleContextMessage, TypeInv, TypeOK
  <2>2. CASE active \in Requests /\ FinishActive
    BY <2>1, <2>2, FinishActivePlace
  <2>3. CASE IgnoreResult \/ \E call, target : AnswerAsync(call, target) \/ AnswerSync(call)
    BY <1>0, <2>1, <2>3 DEF IgnoreResult, AnswerAsync, AnswerSync
  <2>. QED
    BY <1>3, <2>1, <2>2, <2>3, MessageTypes DEF HandleContextMessage
<1>4. CASE \E call \in Calls : HandleResolve(call)
  BY <1>0, <1>4 DEF HandleResolve
<1>5. CASE \E r \in Monitored : HandleDown(r)
  BY <1>5, HandleDownPlace
<1>6. CASE ContextStep
  BY <1>0, <1>6 DEF ContextStep, ContextCalls, ContextParks, ContextFinishes
<1>7. CASE \E r \in Requests : Send(r)
  <2>1. PICK r \in Requests : Send(r)
    BY <1>7
  <2>2. \A x \in Requests : Untaken(x)' <=> Untaken(x)
    BY <2>1, SendRequest DEF MailInv
  <2>3. UNCHANGED <<alive, queue, active, ran, arrivals, replies>>
    BY <2>1 DEF Send
  <2>. QED
    BY <2>2, <2>3, QuietPlace
<1>8. CASE \E c \in Callers : CallerExits(c)
  <2>1. alive' \subseteq alive /\ UNCHANGED <<sent, mail, queue, active, ran, arrivals, replies>>
    BY <1>8 DEF CallerExits
  <2>. QED
    BY <2>1, QuietMail, QuietPlace
<1>9. CASE \E call \in Calls : TaskResolves(call)
  BY <1>0, <1>9 DEF TaskResolves
<1>10. CASE UNCHANGED vars
  BY <1>0, <1>10 DEF vars
<1>. QED
  BY <1>1, <1>2, <1>3, <1>4, <1>5, <1>6, <1>7, <1>8, <1>9, <1>10 DEF Next, ServerStep
-----------------------------------------------------------------------------
(* Requests run in the order in which the Server took them.                *)

\* x comes before y in s.
Before(s, x, y) == \E a, b \in 1..Len(s) : a < b /\ s[a] = x /\ s[b] = y

OrderInv ==
  /\ \A i \in 1..Len(ran) : Entered(arrivals, ran[i])
  /\ \A i \in 1..Len(queue) : Entered(arrivals, queue[i])
  /\ \A i, j \in 1..Len(ran) : i < j => Before(arrivals, ran[i], ran[j])
  /\ \A i, j \in 1..Len(queue) : i < j => Before(arrivals, queue[i], queue[j])
  /\ \A i \in 1..Len(ran), j \in 1..Len(queue) : Live(queue[j]) => Before(arrivals, ran[i], queue[j])

\* q holds elements of p, in the order of p.
Kept(p, q) ==
  /\ \A i \in 1..Len(q) : Entered(p, q[i])
  /\ \A i, j \in 1..Len(q) :
       i < j => Before(p, q[i], q[j])

LEMMA SuffixKept ==
  ASSUME NEW S, NEW s \in Seq(S), NEW k \in 0..Len(s)
  PROVE  Kept(s, Suffix(s, k))
<1>1. /\ Len(s) \in Nat /\ Len(Suffix(s, k)) = Len(s) - k
      /\ \A i \in 1..(Len(s) - k) : k + i \in 1..Len(s) /\ Suffix(s, k)[i] = s[k + i]
  BY SuffixProperties, LenProperties
<1>2. ASSUME NEW i \in 1..Len(Suffix(s, k))
      PROVE  k + i \in 1..Len(s) /\ Suffix(s, k)[i] = s[k + i]
  BY <1>1
<1>3. \A i \in 1..Len(Suffix(s, k)) : Entered(s, Suffix(s, k)[i])
  BY <1>2 DEF Entered
<1>4. ASSUME NEW i \in 1..Len(Suffix(s, k)), NEW j \in 1..Len(Suffix(s, k)), i < j
      PROVE  Before(s, Suffix(s, k)[i], Suffix(s, k)[j])
  <2>1. k + i < k + j
    BY <1>1, <1>4
  <2>. QED
    BY <1>2, <2>1 DEF Before
<1>. QED
  BY <1>3, <1>4 DEF Kept

LEMMA WithoutKept ==
  ASSUME NEW S, NEW s \in Seq(S), NEW k \in 1..Len(s)
  PROVE  Kept(s, Without(s, k))
<1>1. /\ Len(s) \in Nat /\ Len(Without(s, k)) = Len(s) - 1
      /\ \A i \in 1..(Len(s) - 1) : Without(s, k)[i] = s[IF i < k THEN i ELSE i + 1]
  BY WithoutTypes, LenProperties
<1>2. \A i \in 1..(Len(s) - 1) : (IF i < k THEN i ELSE i + 1) \in 1..Len(s)
  BY <1>1
<1>3. ASSUME NEW i \in 1..(Len(s) - 1), NEW j \in 1..(Len(s) - 1), i < j
      PROVE  (IF i < k THEN i ELSE i + 1) < (IF j < k THEN j ELSE j + 1)
  BY <1>1, <1>3
<1>. DEFINE at(i) == IF i < k THEN i ELSE i + 1
<1>4. /\ \A i \in 1..Len(Without(s, k)) : at(i) \in 1..Len(s) /\ Without(s, k)[i] = s[at(i)]
      /\ \A i, j \in 1..Len(Without(s, k)) : i < j => at(i) < at(j)
  BY <1>1, <1>2, <1>3
<1>. HIDE DEF at
<1>. QED
  BY <1>4 DEF Kept, Entered, Before

\* A request that is taken comes after those taken before.
LEMMA ArrivalOrder ==
  ASSUME TypeInv, NEW r \in Requests, arrivals' = Append(arrivals, r)
  PROVE  /\ \A x, y : Before(arrivals, x, y) => Before(arrivals', x, y)
         /\ \A x : Entered(arrivals, x) => Entered(arrivals', x) /\ Before(arrivals', x, r)
         /\ Entered(arrivals', r)
<1>1. /\ arrivals \in Seq(Requests) /\ Len(arrivals) \in Nat
      /\ Len(arrivals') = Len(arrivals) + 1
      /\ \A i \in 1..Len(arrivals) : arrivals'[i] = arrivals[i]
      /\ arrivals'[Len(arrivals) + 1] = r
  BY AppendProperties, LenProperties DEF TypeInv, TypeOK
<1>2. \A x, y : Before(arrivals, x, y) => Before(arrivals', x, y)
  BY <1>1 DEF Before
<1>3. ASSUME NEW x, Entered(arrivals, x)
      PROVE  Entered(arrivals', x) /\ Before(arrivals', x, r)
  BY <1>1, <1>3 DEF Before, Entered
<1>. QED
  BY <1>1, <1>2, <1>3 DEF Entered

\* Requests may be dropped from the queue, and callers may exit.
LEMMA QuietOrder ==
  ASSUME OrderInv, Kept(queue, queue'), UNCHANGED ran, alive' \subseteq alive,
         \A x, y : Before(arrivals, x, y) => Before(arrivals', x, y),
         \A x : Entered(arrivals, x) => Entered(arrivals', x)
  PROVE  OrderInv'
<1>1. \A r : Live(r)' => Live(r)
  BY DEF Live
<1>2. \A i \in 1..Len(queue') : Entered(queue, queue'[i])
  BY DEF Kept
<1>3. ASSUME NEW i \in 1..Len(queue') PROVE Entered(arrivals', queue'[i])
  <2>1. PICK a \in 1..Len(queue) : queue[a] = queue'[i]
    BY <1>2 DEF Entered
  <2>. QED
    BY <2>1 DEF OrderInv
<1>4. \A i \in 1..Len(ran') : Entered(arrivals', ran'[i])
  BY DEF OrderInv
<1>5. \A i, j \in 1..Len(ran') : i < j => Before(arrivals', ran'[i], ran'[j])
  BY DEF OrderInv
<1>6. ASSUME NEW i \in 1..Len(queue'), NEW j \in 1..Len(queue'), i < j
      PROVE  Before(arrivals', queue'[i], queue'[j])
  <2>1. PICK a \in 1..Len(queue), b \in 1..Len(queue) :
          a < b /\ queue[a] = queue'[i] /\ queue[b] = queue'[j]
    BY <1>6 DEF Kept, Before
  <2>2. Before(arrivals, queue[a], queue[b])
    BY <2>1 DEF OrderInv
  <2>. QED
    BY <2>1, <2>2
<1>7. ASSUME NEW i \in 1..Len(ran'), NEW j \in 1..Len(queue'), Live(queue[j])'
      PROVE  Before(arrivals', ran'[i], queue'[j])
  <2>1. PICK b \in 1..Len(queue) : queue[b] = queue'[j]
    BY <1>2 DEF Entered
  <2>2. Before(arrivals, ran[i], queue[b])
    BY <1>1, <1>7, <2>1 DEF OrderInv
  <2>. QED
    BY <2>1, <2>2
<1>. QED
  BY <1>3, <1>4, <1>5, <1>6, <1>7 DEF OrderInv

\* A request is dispatched after all that ran: q is what is left of the queue.
LEMMA DispatchOrder ==
  ASSUME TypeInv, OrderInv, NEW s \in Requests, ran' = Append(ran, s),
         Kept(queue, queue'), alive' \subseteq alive,
         \A x, y : Before(arrivals, x, y) => Before(arrivals', x, y),
         \A x : Entered(arrivals, x) => Entered(arrivals', x),
         Entered(arrivals', s),
         \A i \in 1..Len(ran) : Before(arrivals', ran[i], s),
         \A j \in 1..Len(queue') : Live(queue[j])' => Before(arrivals', s, queue'[j])
  PROVE  OrderInv'
<1>1. /\ ran \in Seq(Requests) /\ Len(ran) \in Nat
      /\ Len(ran') = Len(ran) + 1
      /\ \A i \in 1..Len(ran) : ran'[i] = ran[i]
      /\ ran'[Len(ran) + 1] = s
  BY AppendProperties, LenProperties DEF TypeInv, TypeOK
<1>2. \A r : Live(r)' => Live(r)
  BY DEF Live
<1>3. \A i \in 1..Len(queue') : Entered(queue, queue'[i])
  BY DEF Kept
<1>4. ASSUME NEW i \in 1..Len(queue') PROVE Entered(arrivals', queue'[i])
  <2>1. PICK a \in 1..Len(queue) : queue[a] = queue'[i]
    BY <1>3 DEF Entered
  <2>. QED
    BY <2>1 DEF OrderInv
<1>5. \A i \in 1..Len(ran') : i \in 1..Len(ran) \/ i = Len(ran) + 1
  BY <1>1
<1>6. \A i \in 1..Len(ran') : Entered(arrivals', ran'[i])
  BY <1>1, <1>5 DEF OrderInv
<1>7. ASSUME NEW i \in 1..Len(ran'), NEW j \in 1..Len(ran'), i < j
      PROVE  Before(arrivals', ran'[i], ran'[j])
  <2>1. i \in 1..Len(ran)
    BY <1>1, <1>7
  <2>2. CASE j \in 1..Len(ran)
    <3>1. Before(arrivals, ran[i], ran[j])
      BY <1>7, <2>1, <2>2 DEF OrderInv
    <3>. QED
      BY <1>1, <2>1, <2>2, <3>1
  <2>3. CASE j = Len(ran) + 1
    BY <1>1, <2>1, <2>3
  <2>. QED
    BY <1>5, <2>2, <2>3
<1>8. ASSUME NEW i \in 1..Len(queue'), NEW j \in 1..Len(queue'), i < j
      PROVE  Before(arrivals', queue'[i], queue'[j])
  <2>1. PICK a \in 1..Len(queue), b \in 1..Len(queue) :
          a < b /\ queue[a] = queue'[i] /\ queue[b] = queue'[j]
    BY <1>8 DEF Kept, Before
  <2>2. Before(arrivals, queue[a], queue[b])
    BY <2>1 DEF OrderInv
  <2>. QED
    BY <2>1, <2>2
<1>9. ASSUME NEW i \in 1..Len(ran'), NEW j \in 1..Len(queue'), Live(queue[j])'
      PROVE  Before(arrivals', ran'[i], queue'[j])
  <2>1. CASE i = Len(ran) + 1
    BY <1>1, <1>9, <2>1
  <2>2. CASE i \in 1..Len(ran)
    <3>1. PICK b \in 1..Len(queue) : queue[b] = queue'[j]
      BY <1>3 DEF Entered
    <3>2. Before(arrivals, ran[i], queue[b])
      BY <1>2, <1>9, <2>2, <3>1 DEF OrderInv
    <3>. QED
      BY <1>1, <2>2, <3>1, <3>2
  <2>. QED
    BY <1>5, <2>1, <2>2
<1>. QED
  BY <1>4, <1>6, <1>7, <1>8, <1>9 DEF OrderInv
\* The queue is left as it was.
LEMMA SameKept ==
  ASSUME NEW s
  PROVE  Kept(s, s)
  BY DEF Kept, Entered, Before

WorkInv == OrderInv /\ IdleOnlyWithoutWork

\* maybe_start_next.
LEMMA StartNextOrder ==
  ASSUME TypeInv, OrderInv, NEW mon, NEW ans, NEW D,
         MaybeStartNext(queue, queueSize, mon, ans, D), UNCHANGED alive,
         \A x, y : Before(arrivals, x, y) => Before(arrivals', x, y),
         \A x : Entered(arrivals, x) => Entered(arrivals', x)
  PROVE  WorkInv'
<1>0. queue \in Seq(Requests) /\ Len(queue) \in Nat
  BY LenProperties DEF TypeInv, TypeOK
<1>1. \A r : Live(r)' <=> Live(r)
  BY DEF Live
<1>2. CASE StartNone(queue, queueSize, mon, ans, D)
  <2>1. UNCHANGED <<queue, ran>> /\ LiveAt(queue) = {}
    BY <1>2 DEF StartNone, Idle
  <2>2. OrderInv'
    BY <2>1, QuietOrder, SameKept
  <2>. QED
    BY <1>1, <2>1, <2>2 DEF WorkInv, IdleOnlyWithoutWork, LiveAt
<1>3. CASE StartFirst(queue, queueSize, mon, ans, D)
  <2>1. PICK k \in LiveAt(queue) : Dispatch(queue[k]) /\ queue' = Suffix(queue, k)
    BY <1>3 DEF StartFirst
  <2>2. k \in 1..Len(queue) /\ k \in 0..Len(queue) /\ queue[k] \in Requests /\ Live(queue[k])
    BY <1>0, <2>1, ElementOfSeq DEF LiveAt
  <2>3. Kept(queue, queue')
    BY <1>0, <2>1, <2>2, SuffixKept
  <2>4. /\ Entered(arrivals', queue[k])
        /\ \A i \in 1..Len(ran) : Before(arrivals', ran[i], queue[k])
    BY <2>2 DEF OrderInv
  <2>5. ASSUME NEW j \in 1..Len(queue') PROVE Before(arrivals', queue[k], queue'[j])
    <3>0. /\ Len(queue') = Len(queue) - k
          /\ \A i \in 1..(Len(queue) - k) : queue'[i] = queue[k + i]
      BY <1>0, <2>1, <2>2, SuffixProperties
    <3>1. k + j \in 1..Len(queue) /\ k < k + j /\ queue'[j] = queue[k + j]
      BY <1>0, <2>2, <3>0
    <3>. QED
      BY <2>2, <3>1 DEF OrderInv
  <2>6. ran' = Append(ran, queue[k]) /\ active' = queue[k]
    BY <2>1 DEF Dispatch
  <2>7. OrderInv'
    BY <2>2, <2>3, <2>4, <2>5, <2>6, DispatchOrder
  <2>. QED
    BY <2>2, <2>6, <2>7, Constants DEF WorkInv, IdleOnlyWithoutWork
<1>4. CASE RefuseAll(queue, queueSize, mon, ans, D)
  <2>1. PICK k \in LiveAt(queue) :
          (\A j \in LiveAt(queue) : j <= k) /\ Idle /\ queue' = Suffix(queue, k)
    BY <1>4 DEF RefuseAll
  <2>2. k \in 1..Len(queue) /\ k \in 0..Len(queue)
    BY <1>0, <2>1 DEF LiveAt
  <2>3. Kept(queue, queue') /\ ran' = ran
    BY <1>0, <2>1, <2>2, SuffixKept DEF Idle
  <2>4. OrderInv'
    BY <2>3, QuietOrder
  <2>5. ASSUME NEW j \in 1..Len(queue') PROVE ~Live(queue'[j])
    <3>0. /\ Len(queue') = Len(queue) - k
          /\ \A i \in 1..(Len(queue) - k) : queue'[i] = queue[k + i]
      BY <1>0, <2>1, <2>2, SuffixProperties
    <3>1. k + j \in 1..Len(queue) /\ ~(k + j <= k) /\ queue'[j] = queue[k + j]
      BY <1>0, <2>2, <3>0
    <3>. QED
      BY <2>1, <3>1 DEF LiveAt
  <2>6. \A j \in 1..Len(queue') : ~Live(queue[j])'
    BY <2>5 DEF Live
  <2>. QED
    BY <2>4, <2>6 DEF WorkInv, IdleOnlyWithoutWork
<1>. QED
  BY <1>2, <1>3, <1>4 DEF MaybeStartNext

LEMMA HandleRequestOrder ==
  ASSUME TypeInv, WorkInv, NEW c \in Callers, HandleRequest(c)
  PROVE  WorkInv'
<1>. DEFINE r == Head(mail[c])
<1>1. UNCHANGED alive /\ r \in Requests
  BY HeadTailProperties DEF HandleRequest, TypeInv, TypeOK
<1>2. RejectRequest(r) \/ QueueRequest(r) \/ StartRequest(r)
  BY DEF HandleRequest
<1>. HIDE DEF r
<1>3. OrderInv /\ IdleOnlyWithoutWork
  BY DEF WorkInv
<1>4. CASE RejectRequest(r)
  <2>1. UNCHANGED <<active, queue, ran, arrivals>>
    BY <1>4 DEF RejectRequest
  <2>. QED
    BY <1>1, <1>3, <2>1 DEF WorkInv, OrderInv, IdleOnlyWithoutWork, Live
<1>5. CASE QueueRequest(r)
  <2>1. /\ active' # NoRequest /\ ran' = ran
        /\ queue' = Append(queue, r) /\ arrivals' = Append(arrivals, r)
    BY <1>5 DEF QueueRequest
  <2>2. /\ Len(queue) \in Nat /\ Len(queue') = Len(queue) + 1
        /\ \A i \in 1..Len(queue) : queue'[i] = queue[i]
        /\ queue'[Len(queue) + 1] = r
    BY <1>1, <2>1, AppendProperties, LenProperties DEF TypeInv, TypeOK
  <2>3. /\ \A x, y : Before(arrivals, x, y) => Before(arrivals', x, y)
        /\ \A x : Entered(arrivals, x) => Entered(arrivals', x) /\ Before(arrivals', x, r)
        /\ Entered(arrivals', r)
    BY <1>1, <2>1, ArrivalOrder
  <2>4. \A i \in 1..Len(queue') : i \in 1..Len(queue) \/ i = Len(queue) + 1
    BY <2>2
  <2>5. /\ \A i \in 1..Len(ran) : Entered(arrivals', ran[i])
        /\ \A i \in 1..Len(queue') : Entered(arrivals', queue'[i])
        /\ \A i, j \in 1..Len(ran) : i < j => Before(arrivals', ran[i], ran[j])
    BY <1>3, <2>2, <2>3, <2>4 DEF OrderInv
  <2>6. ASSUME NEW i \in 1..Len(queue'), NEW j \in 1..Len(queue'), i < j
        PROVE  Before(arrivals', queue'[i], queue'[j])
    <3>1. i \in 1..Len(queue)
      BY <2>2, <2>6
    <3>2. CASE j \in 1..Len(queue)
      BY <1>3, <2>2, <2>3, <2>6, <3>1, <3>2 DEF OrderInv
    <3>3. CASE j = Len(queue) + 1
      BY <1>3, <2>2, <2>3, <3>1, <3>3 DEF OrderInv
    <3>. QED
      BY <2>4, <3>2, <3>3
  <2>7. ASSUME NEW i \in 1..Len(ran), NEW j \in 1..Len(queue'), Live(queue[j])'
        PROVE  Before(arrivals', ran[i], queue'[j])
    <3>1. CASE j \in 1..Len(queue)
      <4>1. Live(queue[j])
        BY <1>1, <2>2, <2>7, <3>1 DEF Live
      <4>. QED
        BY <1>3, <2>2, <2>3, <3>1, <4>1 DEF OrderInv
    <3>2. CASE j = Len(queue) + 1
      BY <1>3, <2>2, <2>3, <3>2 DEF OrderInv
    <3>. QED
      BY <2>4, <3>1, <3>2
  <2>8. OrderInv'
    BY <2>1, <2>5, <2>6, <2>7 DEF OrderInv
  <2>. QED
    BY <2>1, <2>8 DEF WorkInv, IdleOnlyWithoutWork
<1>6. CASE StartRequest(r)
  <2>1. arrivals' = Append(arrivals, r) /\ active = NoRequest
    BY <1>6 DEF StartRequest
  <2>2. /\ \A x, y : Before(arrivals, x, y) => Before(arrivals', x, y)
        /\ \A x : Entered(arrivals, x) => Entered(arrivals', x) /\ Before(arrivals', x, r)
        /\ Entered(arrivals', r)
    BY <1>1, <2>1, ArrivalOrder
  <2>3. CASE Dispatch(r) /\ UNCHANGED queue
    <3>1. ran' = Append(ran, r) /\ active' = r
      BY <2>3 DEF Dispatch
    <3>2. \A j \in 1..Len(queue') : ~Live(queue[j])'
      BY <1>1, <1>3, <2>1, <2>3 DEF IdleOnlyWithoutWork, Live
    <3>3. \A i \in 1..Len(ran) : Before(arrivals', ran[i], r)
      BY <1>3, <2>2 DEF OrderInv
    <3>4. Kept(queue, queue')
      BY <2>3, SameKept
    <3>5. OrderInv'
      BY <1>1, <1>3, <2>2, <3>1, <3>2, <3>3, <3>4, DispatchOrder
    <3>. QED
      BY <1>1, <3>1, <3>5, Constants DEF WorkInv, IdleOnlyWithoutWork
  <2>4. CASE MaybeStartNext(queue, queueSize, Watched(r), [NoAnswer EXCEPT ![r] = Refusal], {r})
    BY <1>1, <1>3, <2>2, <2>4, StartNextOrder
  <2>. QED
    BY <1>6, <2>3, <2>4 DEF StartRequest
<1>. QED
  BY <1>2, <1>4, <1>5, <1>6

LEMMA HandleDownOrder ==
  ASSUME TypeInv, WorkInv, NEW r \in Monitored, HandleDown(r)
  PROVE  WorkInv'
<1>1. UNCHANGED <<alive, active, ran, arrivals>> /\ DropQueued(r)
  BY DEF HandleDown
<1>2. Kept(queue, queue')
  <2>1. CASE Entered(queue, r)
    <3>1. PICK i \in 1..Len(queue) : queue' = Without(queue, i)
      BY <1>1, <2>1 DEF DropQueued, Without
    <3>. QED
      BY <3>1, WithoutKept DEF TypeInv, TypeOK
  <2>2. CASE ~Entered(queue, r)
    BY <1>1, <2>2, SameKept DEF DropQueued
  <2>. QED
    BY <2>1, <2>2
<1>3. OrderInv'
  BY <1>1, <1>2, QuietOrder DEF WorkInv
<1>4. ASSUME active = NoRequest, NEW j \in 1..Len(queue') PROVE ~Live(queue[j])'
  <2>1. PICK i \in 1..Len(queue) : queue[i] = queue'[j]
    BY <1>2 DEF Kept, Entered
  <2>. QED
    BY <1>1, <1>4, <2>1 DEF WorkInv, IdleOnlyWithoutWork, Live
<1>. QED
  BY <1>1, <1>3, <1>4 DEF WorkInv, IdleOnlyWithoutWork

LEMMA StepOrder ==
  ASSUME TypeInv, WorkInv, [Next]_vars
  PROVE  WorkInv'
<1>0. CASE alive' \subseteq alive /\ UNCHANGED <<active, queue, ran, arrivals>>
  <2>1. OrderInv'
    BY <1>0, SameKept, QuietOrder DEF WorkInv
  <2>. QED
    BY <1>0, <2>1 DEF WorkInv, IdleOnlyWithoutWork, Live
<1>1. CASE \E c \in Callers : HandleRequest(c)
  BY <1>1, HandleRequestOrder
<1>2. CASE \E a \in Apis : LoadApi(a)
  BY <1>0, <1>2 DEF LoadApi
<1>3. CASE HandleContextMessage
  <2>1. UNCHANGED alive
    BY <1>3 DEF HandleContextMessage
  <2>2. CASE FinishActive
    BY <2>1, <2>2, StartNextOrder DEF FinishActive, WorkInv
  <2>3. CASE IgnoreResult \/ \E call, target : AnswerAsync(call, target) \/ AnswerSync(call)
    BY <1>0, <2>1, <2>3 DEF IgnoreResult, AnswerAsync, AnswerSync
  <2>. QED
    BY <1>3, <2>2, <2>3 DEF HandleContextMessage
<1>4. CASE \E call \in Calls : HandleResolve(call)
  BY <1>0, <1>4 DEF HandleResolve
<1>5. CASE \E r \in Monitored : HandleDown(r)
  BY <1>5, HandleDownOrder
<1>6. CASE ContextStep
  BY <1>0, <1>6 DEF ContextStep, ContextCalls, ContextParks, ContextFinishes
<1>7. CASE \E r \in Requests : Send(r)
  BY <1>0, <1>7 DEF Send
<1>8. CASE \E c \in Callers : CallerExits(c)
  BY <1>0, <1>8 DEF CallerExits
<1>9. CASE \E call \in Calls : TaskResolves(call)
  BY <1>0, <1>9 DEF TaskResolves
<1>10. CASE UNCHANGED vars
  BY <1>0, <1>10 DEF vars
<1>. QED
  BY <1>1, <1>2, <1>3, <1>4, <1>5, <1>6, <1>7, <1>8, <1>9, <1>10 DEF Next, ServerStep
-----------------------------------------------------------------------------
(* The inductive invariant.                                                *)

Inv == TypeInv /\ UnderWay /\ PromiseInv /\ MailInv /\ PlaceInv /\ WorkInv

LEMMA InitInv == Init => Inv
<1>. SUFFICES ASSUME Init PROVE Inv
  OBVIOUS
<1>1. \A x : ~Entered(<<>>, x)
  BY DEF Entered
<1>2. UnderWay /\ Results = {}
  BY DEF Init, UnderWay, Results
<1>3. PromiseInv
  BY DEF Init, PromiseInv, PendingOfActive, NoOrphanPromise
<1>4. MailInv
  BY <1>1 DEF Init, MailInv, MailSound, DownIsDead, Distinct
<1>5. PlaceInv
  <2>1. \A r \in Requests : Untaken(r) /\ Fresh(r)
    BY <1>1, Constants DEF Init, Untaken, Fresh
  <2>. QED
    BY <1>1, <2>1, Constants DEF Init, PlaceInv, PlaceOf, Fresh, Distinct
<1>6. WorkInv
  BY DEF Init, WorkInv, OrderInv, IdleOnlyWithoutWork
<1>. QED
  BY <1>2, <1>3, <1>4, <1>5, <1>6, InitTypeInv DEF Inv

LEMMA StepInv == Inv /\ [Next]_vars => Inv'
  BY StepTypeInv, StepUnderWay, StepPromise, StepMail, StepPlace, StepOrder DEF Inv

LEMMA Invariance == Spec => []Inv
  BY InitInv, StepInv, PTL DEF Spec

-----------------------------------------------------------------------------
(* What follows from it.                                                   *)

\* The Server takes itself to be busy exactly as long as the context runs the
\* command of its active request, or that command's result is in the mailbox: no
\* dispatch meets a busy context, and no result is waited for in vain.
THEOREM BusyAsLongAsTheContext == Spec => []ActiveIsUnderWay
<1>1. Inv => ActiveIsUnderWay
  BY DEF Inv, UnderWay, Results, ActiveIsUnderWay
<1>. QED
  BY <1>1, Invariance, PTL

\* A pending callback belongs to the active eval, and a promise JavaScript still
\* awaits is pending or announced in the mailbox: none is forgotten, whatever
\* becomes of its caller and its handler.
THEOREM NoPromiseForgotten == Spec => []CallbacksKept
<1>1. Inv => CallbacksKept
  BY DEF Inv, PromiseInv, CallbacksKept
<1>. QED
  BY <1>1, Invariance, PTL

\* Each request is answered at most once; one that the Server has taken is queued,
\* active or answered, or its caller is gone; and one that was refused has not
\* run and will not.
THEOREM OneAnswer == Spec => []AnsweredOnce
<1>1. Inv => AtMostOneReply
  <2>1. ASSUME Inv, NEW r \in Requests PROVE Len(replies[r]) <= 1
    <3>1. CASE replies[r] = <<>>
      BY <3>1
    <3>2. CASE replies[r] # <<>>
      <4>1. PlaceOf(r)
        BY <2>1 DEF Inv, PlaceInv
      <4>2. Len(replies[r]) = 1
        BY <3>2, <4>1 DEF PlaceOf
      <4>. QED
        BY <4>2
    <3>. QED
      BY <3>1, <3>2
  <2>. QED
    BY <2>1 DEF AtMostOneReply
<1>2. Inv => NoRequestForgotten
  BY DEF Inv, PlaceInv, PlaceOf, NoRequestForgotten, Untaken, TypeInv, TypeOK
<1>3. Inv => RefusedNeverRuns
  BY DEF Inv, PlaceInv, PlaceOf, RefusedNeverRuns
<1>. QED
  BY <1>1, <1>2, <1>3, Invariance, PTL DEF AnsweredOnce

\* Requests run in the order in which the Server took them, and the Server idles
\* only when no request of a live caller is queued.
THEOREM InOrderWithoutIdling == Spec => []WorkConserving
<1>1. Inv => WorkConserving
  BY DEF Inv, WorkInv, OrderInv, Before, WorkConserving, FifoOrder
<1>. QED
  BY <1>1, Invariance, PTL

\* The state of a target loses nothing but to load_api.
LEMMA StepKeepsState ==
  ASSUME Inv, [Next]_vars, NEW t \in Targets
  PROVE  \/ userState[t] \subseteq userState'[t]
         \/ active = NoRequest /\ pending = {} /\ t \in Apis
<1>1. userState \in [Targets -> SUBSET Calls]
  BY DEF Inv, TypeInv, TypeOK
<1>2. ASSUME NEW target, NEW call, PutUserState(target, call)
      PROVE  userState[t] \subseteq userState'[t]
  BY <1>1, <1>2 DEF PutUserState
<1>3. CASE \E a \in Apis : LoadApi(a)
  <2>1. PICK a \in Apis : LoadApi(a)
    BY <1>3
  <2>2. active = NoRequest /\ pending = {}
    BY <2>1, NothingPending DEF LoadApi, Inv
  <2>. QED
    BY <1>1, <2>1, <2>2 DEF LoadApi, InstallApi
<1>4. CASE HandleContextMessage
  BY <1>2, <1>4 DEF HandleContextMessage, FinishActive, IgnoreResult, AnswerAsync, CallReturns, AnswerSync
<1>5. CASE \E call \in Calls : HandleResolve(call)
  BY <1>2, <1>5 DEF HandleResolve, Transition
<1>6. CASE UNCHANGED userState
  BY <1>6
<1>7. CASE \E c \in Callers : HandleRequest(c)
  BY <1>6, <1>7 DEF HandleRequest
<1>8. CASE \E r \in Monitored : HandleDown(r)
  BY <1>6, <1>8 DEF HandleDown
<1>9. CASE ContextStep
  BY <1>6, <1>9 DEF ContextStep, ContextCalls, ContextParks, ContextFinishes
<1>10. CASE (\E r \in Requests : Send(r)) \/ (\E c \in Callers : CallerExits(c))
         \/ (\E call \in Calls : TaskResolves(call)) \/ UNCHANGED vars
  BY <1>6, <1>10 DEF Send, CallerExits, TaskResolves, vars
<1>. QED
  BY <1>3, <1>4, <1>5, <1>7, <1>8, <1>9, <1>10 DEF Next, ServerStep

\* No handler and no deferred transition undoes another's update of the user state,
\* whatever the order in which the tasks resolve; only load_api resets the slice of
\* its own API, when no eval is active and no callback is pending.
THEOREM UpdatesKept == Spec => NoLostUpdate
<1>1. Inv /\ [Next]_vars =>
        [\A t \in Targets : \/ userState[t] \subseteq userState'[t]
                            \/ active = NoRequest /\ pending = {} /\ t \in Apis]_vars
  BY StepKeepsState
<1>. QED
  BY <1>1, Invariance, PTL DEF Spec, NoLostUpdate

-----------------------------------------------------------------------------
(* The Server implements the serial executor.                              *)

\* For the executor, a request runs while it is the active one.
PhaseIsPlace ==
  \A r \in Requests :
    /\ Phase(r) = IF Untaken(r) THEN "new"
                  ELSE IF active = r THEN "running"
                  ELSE IF Entered(queue, r) THEN "waiting" ELSE "over"
    /\ Entered(queue, r) => ~Untaken(r) /\ active # r
    /\ active = r => ~Untaken(r)

LEMMA PhaseOfPlace == Inv => PhaseIsPlace
<1>. SUFFICES ASSUME Inv, NEW r \in Requests
             PROVE  /\ Phase(r) = IF Untaken(r) THEN "new"
                                  ELSE IF active = r THEN "running"
                                  ELSE IF Entered(queue, r) THEN "waiting" ELSE "over"
                    /\ Entered(queue, r) => ~Untaken(r) /\ active # r
                    /\ active = r => ~Untaken(r)
  BY DEF PhaseIsPlace
<1>1. Executing(r) <=> active = r
  BY Constants DEF Inv, UnderWay, Results, Executing
<1>. QED
  BY <1>1 DEF Phase, Inv, PlaceInv, PlaceOf, Fresh

\* maybe_start_next takes requests from the queue only.
LEMMA StartNextMoves ==
  ASSUME TypeInv, Distinct(queue), NEW mon, NEW ans, NEW D,
         MaybeStartNext(queue, queueSize, mon, ans, D), NEW r \in Requests
  PROVE  /\ Entered(queue', r) => Entered(queue, r)
         /\ active' = r => Entered(queue, r)
<1>0. queue \in Seq(Requests) /\ Len(queue) \in Nat
  BY LenProperties DEF TypeInv, TypeOK
<1>1. CASE StartNone(queue, queueSize, mon, ans, D)
  BY <1>1, Constants DEF StartNone, Idle
<1>2. CASE StartFirst(queue, queueSize, mon, ans, D)
  <2>1. PICK k \in 1..Len(queue) : active' = queue[k] /\ queue' = Suffix(queue, k)
    BY <1>2 DEF StartFirst, Dispatch, LiveAt
  <2>2. Entered(queue, queue[k])
    BY <2>1 DEF Entered
  <2>. QED
    BY <1>0, <2>1, <2>2, SuffixEntered
<1>3. CASE RefuseAll(queue, queueSize, mon, ans, D)
  <2>1. PICK k \in 1..Len(queue) : active' = NoRequest /\ queue' = Suffix(queue, k)
    BY <1>3 DEF RefuseAll, Idle, LiveAt
  <2>. QED
    BY <1>0, <2>1, Constants, SuffixEntered
<1>. QED
  BY <1>1, <1>2, <1>3 DEF MaybeStartNext

\* What a step may do to the place of a request.
LEMMA StepMoves ==
  ASSUME Inv, [Next]_vars, NEW r \in Requests
  PROVE  /\ Untaken(r)' => Untaken(r)
         /\ Entered(queue', r) => Entered(queue, r) \/ Untaken(r)
         /\ active' = r => active = r \/ Entered(queue, r) \/ Untaken(r)
<1>0. CASE UNCHANGED <<sent, mail, queue, active>>
  BY <1>0, QuietMail
<1>1. CASE \E c \in Callers : HandleRequest(c)
  <2>1. PICK c \in Callers : HandleRequest(c)
    BY <1>1
  <2>. DEFINE q == Head(mail[c])
  <2>2. /\ q \in Requests /\ Untaken(q)
        /\ \A x \in Requests : Untaken(x)' <=> Untaken(x) /\ x # q
    BY <2>1, TakeRequest DEF HandleRequest, Inv, MailInv
  <2>3. RejectRequest(q) \/ QueueRequest(q) \/ StartRequest(q)
    BY <2>1 DEF HandleRequest
  <2>. HIDE DEF q
  <2>4. CASE RejectRequest(q)
    BY <2>2, <2>4 DEF RejectRequest
  <2>5. CASE QueueRequest(q)
    <3>1. queue' = Append(queue, q) /\ active' = active
      BY <2>5 DEF QueueRequest
    <3>. QED
      BY <2>2, <3>1, AppendEntered DEF Inv, TypeInv, TypeOK
  <2>6. CASE StartRequest(q)
    <3>1. CASE Dispatch(q) /\ UNCHANGED queue
      BY <2>2, <3>1 DEF Dispatch
    <3>2. CASE MaybeStartNext(queue, queueSize, Watched(q), [NoAnswer EXCEPT ![q] = Refusal], {q})
      BY <2>2, <3>2, StartNextMoves DEF Inv, PlaceInv
    <3>. QED
      BY <2>6, <3>1, <3>2 DEF StartRequest
  <2>. QED
    BY <2>3, <2>4, <2>5, <2>6
<1>2. CASE \E a \in Apis : LoadApi(a)
  BY <1>0, <1>2 DEF LoadApi
<1>3. CASE HandleContextMessage
  <2>1. UNCHANGED <<sent, mail>>
    BY <1>3 DEF HandleContextMessage
  <2>2. CASE FinishActive
    BY <2>1, <2>2, StartNextMoves, QuietMail DEF FinishActive, Inv, PlaceInv
  <2>3. CASE IgnoreResult \/ \E call, target : AnswerAsync(call, target) \/ AnswerSync(call)
    BY <1>0, <2>1, <2>3 DEF IgnoreResult, AnswerAsync, AnswerSync
  <2>. QED
    BY <1>3, <2>2, <2>3 DEF HandleContextMessage
<1>4. CASE \E call \in Calls : HandleResolve(call)
  BY <1>0, <1>4 DEF HandleResolve
<1>5. CASE \E d \in Monitored : HandleDown(d)
  <2>1. PICK d \in Monitored : HandleDown(d)
    BY <1>5
  <2>2. UNCHANGED <<sent, mail, active>> /\ DropQueued(d)
    BY <2>1 DEF HandleDown
  <2>3. CASE Entered(queue, d)
    <3>1. PICK i \in 1..Len(queue) : queue' = Without(queue, i)
      BY <2>2, <2>3 DEF DropQueued, Without
    <3>2. Entered(queue', r) => Entered(queue, r)
      BY <3>1, WithoutProperties DEF Inv, TypeInv, TypeOK, PlaceInv
    <3>. QED
      BY <2>2, <3>2, QuietMail
  <2>4. CASE ~Entered(queue, d)
    BY <1>0, <2>2, <2>4 DEF DropQueued
  <2>. QED
    BY <2>3, <2>4
<1>6. CASE ContextStep
  BY <1>0, <1>6 DEF ContextStep, ContextCalls, ContextParks, ContextFinishes
<1>7. CASE \E q \in Requests : Send(q)
  <2>1. PICK q \in Requests : Send(q)
    BY <1>7
  <2>2. Untaken(r)' <=> Untaken(r)
    BY <2>1, SendRequest DEF Inv, MailInv
  <2>3. UNCHANGED <<queue, active>>
    BY <2>1 DEF Send
  <2>. QED
    BY <2>2, <2>3
<1>8. CASE \E c \in Callers : CallerExits(c)
  BY <1>0, <1>8 DEF CallerExits
<1>9. CASE \E call \in Calls : TaskResolves(call)
  BY <1>0, <1>9 DEF TaskResolves
<1>10. CASE UNCHANGED vars
  BY <1>0, <1>10 DEF vars
<1>. QED
  BY <1>1, <1>2, <1>3, <1>4, <1>5, <1>6, <1>7, <1>8, <1>9, <1>10 DEF Next, ServerStep

LEMMA StepRefines ==
  ASSUME Inv, PhaseIsPlace, PhaseIsPlace', [Next]_vars
  PROVE  [Executor!Next]_[r \in Requests |-> Phase(r)]
<1>1. ASSUME NEW r \in Requests
      PROVE  /\ Phase(r)' = Phase(r) \/ <<Phase(r), Phase(r)'>> \in Executor!Moves
             /\ Phase(r)' \in Executor!Phases
             /\ Phase(r)' = "running" => active' = r
  <2>1. /\ Phase(r) = IF Untaken(r) THEN "new"
                      ELSE IF active = r THEN "running"
                      ELSE IF Entered(queue, r) THEN "waiting" ELSE "over"
        /\ Entered(queue, r) => ~Untaken(r) /\ active # r
        /\ active = r => ~Untaken(r)
    BY DEF PhaseIsPlace
  <2>2. /\ Phase(r)' = IF Untaken(r)' THEN "new"
                       ELSE IF active' = r THEN "running"
                       ELSE IF Entered(queue', r) THEN "waiting" ELSE "over"
        /\ Entered(queue', r) => ~Untaken(r)' /\ active' # r
        /\ active' = r => ~Untaken(r)'
    BY DEF PhaseIsPlace
  <2>3. /\ Untaken(r)' => Untaken(r)
        /\ Entered(queue', r) => Entered(queue, r) \/ Untaken(r)
        /\ active' = r => active = r \/ Entered(queue, r) \/ Untaken(r)
    BY StepMoves
  <2>. QED
    BY <2>1, <2>2, <2>3 DEF Executor!Moves, Executor!Phases
<1>. QED
  BY <1>1 DEF Executor!Next, Executor!OneAtATime

\* The requests are executed one at a time: one starts when the Server has handled
\* the result of the one before, each goes from the mailbox through the queue to
\* its execution to its end, and none starts twice.
THEOREM Refinement == Spec => SerialExecution
<1>1. Init => Executor!Init
  <2>1. ASSUME Init, NEW r \in Requests PROVE Phase(r) = "new"
    BY <2>1 DEF Init, Untaken, Phase
  <2>. QED
    BY <2>1 DEF Executor!Init
<1>2. Inv /\ PhaseIsPlace /\ PhaseIsPlace' /\ [Next]_vars
        => [Executor!Next]_[r \in Requests |-> Phase(r)]
  BY StepRefines
<1>. QED
  BY <1>1, <1>2, Invariance, PhaseOfPlace, PTL DEF Spec, SerialExecution, Executor!Spec
=============================================================================
