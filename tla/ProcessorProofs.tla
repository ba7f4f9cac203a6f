-------------------------- MODULE ProcessorProofs --------------------------
(***************************************************************************)
(* Proofs of the safety properties of Processor for every number of         *)
(* sessions, processors, workers and messages and every retry limit.  The   *)
(* processors are callers that the queue allows, so the invariant of the    *)
(* queue carries over; ProcessorInv adds what a worker holds at each point  *)
(* of its loop and how RetryCount relates to the deliveries made.           *)
(***************************************************************************)
EXTENDS Processor, QueueProofs

USE DEF lockVars, schedVars, workerVars

(* A worker that has a message to deliver or requeue holds a message. *)
LEMMA InHand ==
    ASSUME ProcessorInv, NEW w \in Workers, hand[w] /= NoMsg
    PROVE  w \in Clients /\ hand[w] \in Msgs
  BY ProcessorConstants, Zenon DEF ProcessorInv, QueueInv, QueueTypeOK

(* Whatever a session, a worker or Stop does to the queue is something the  *)
(* queue allows its callers, or leaves the queue alone.                     *)
LEMMA UsesQueueStep == ProcessorInv /\ [Next]_vars => [QueueNext]_queueVars
<1> SUFFICES ASSUME ProcessorInv, [Next]_vars PROVE [QueueNext]_queueVars
  BY Zenon
<1>1. CASE QueueInternal
  BY <1>1, Zenon DEF QueueInternal, QueueNext
<1>2. ASSUME NEW s \in Sessions, Session(s) PROVE QueueNext
  BY <1>2, ProcessorConstants, Zenon DEF Session, QueueNext, Client
<1>3. ASSUME NEW w \in Workers, Worker(w) PROVE [QueueNext]_queueVars
  <2>0. w \in Clients
    BY ProcessorConstants, Zenon
  <2>1. CASE WorkerTop(w) \/ WorkerNoMessage(w) \/ DeliverInterrupted(w)
    BY <2>1, Zenon DEF WorkerTop, WorkerNoMessage, DeliverInterrupted
  <2>2. CASE WorkerReceive(w)
    BY <2>0, <2>2, Zenon DEF WorkerReceive, QueueNext, Client
  <2>3. ASSUME NEW v \in Verdicts, DeliverFinal(w, v) PROVE QueueNext
    BY <2>0, <2>3, Zenon DEF DeliverFinal, QueueNext, Client
  <2>4. CASE DeliverTemporary(w) \/ DeliverTimeout(w)
    <3>1. hand[w] \in Msgs
      BY <2>4, InHand, Zenon DEF DeliverTemporary, DeliverTimeout, ProcessorInv, WorkerInv
    <3>2. PICK n \in 0..RetryCap : n = retryCount[hand[w]]
      BY <3>1, Zenon DEF ProcessorInv, ProcessorTypeOK
    <3>3. RetryDelaysAt(n + 1) \subseteq RetryDelays
      <4>1. n = 0 \/ n \in 1..RetryCap
        BY ProcessorConstants
      <4>2. n = 0 => n + 1 = 1
        OBVIOUS
      <4>3. QED
        BY <4>1, <4>2, ProcessorConstants, Zenon
    <3>4. PICK d \in RetryDelaysAt(n + 1) : Postpone(w, d)
      BY <2>4, <3>2, Zenon DEF DeliverTemporary, DeliverTimeout, Retry
    <3>5. QED
      BY <2>0, <3>3, <3>4, Zenon DEF QueueNext, Client
  <2>5. CASE WorkerRequeue(w)
    BY <2>0, <2>5, Zenon DEF WorkerRequeue, QueueNext, Client
  <2>6. CASE WorkerSignal(w)
    BY <2>0, <2>6, Zenon DEF WorkerSignal, QueueNext, Client
  <2>7. QED
    BY <1>3, <2>1, <2>2, <2>3, <2>4, <2>5, <2>6, Zenon DEF Worker
<1>4. ASSUME NEW p \in Processors, Stop(p) PROVE [QueueNext]_queueVars
  <2> DEFINE C == {w \in Workers : ProcOf[w] = p}
  <2>1. C \in SUBSET Clients /\ Cancel(C)
    BY <1>4, ProcessorConstants, Zenon DEF Stop
  <2> HIDE DEF C
  <2>2. CASE C = {}
    <3>1. ctxDone' = ctxDone
      BY <2>1, <2>2, Zenon DEF Cancel
    <3>2. QED
      BY <2>1, <3>1, Zenon DEF Cancel, queueVars
  <2>3. CASE C /= {}
    <3>1. C \in (SUBSET Clients) \ {{}}
      BY <2>1, <2>3, Zenon
    <3>2. QED
      BY <2>1, <3>1, Zenon DEF QueueNext
  <2>4. QED
    BY <2>2, <2>3, Zenon
<1>5. CASE UNCHANGED vars
  BY <1>5, Zenon DEF vars
<1>6. QED
  BY <1>1, <1>2, <1>3, <1>4, <1>5, Zenon DEF Next

(* The count of the deliveries made stays within its bound. *)
LEMMA AttemptsTyped ==
    ASSUME ProcessorInv, NEW m \in Msgs, Attempted(m)
    PROVE  attempts' \in [Msgs -> 0..(RetryCap + 1)]
<1>1. attempts \in [Msgs -> 0..(RetryCap + 1)]
  BY Zenon DEF ProcessorInv, ProcessorTypeOK
<1>2. UpTo(RetryCap + 1, attempts[m] + 1) \in 0..(RetryCap + 1)
  BY <1>1, ProcessorConstants DEF UpTo
<1>3. QED
  BY <1>1, <1>2, Zenon DEF Attempted

(* The counters and control states keep their types. *)
LEMMA ProcessorTypeStep ==
    ProcessorInv /\ [Next]_vars /\ QueueTypeOK' => ProcessorTypeOK'
<1> SUFFICES ASSUME ProcessorInv, [Next]_vars, QueueTypeOK' PROVE ProcessorTypeOK'
  BY Zenon
<1> USE DEF ProcessorTypeOK, ProcessorInv
<1>1. CASE UNCHANGED workerVars
  BY <1>1, Zenon
<1>2. ASSUME NEW w \in Workers, Worker(w) PROVE ProcessorTypeOK'
  <2>1. wpc' \in [Workers -> WorkerStates] /\ leaving' \in SUBSET Workers
    BY <1>2, Zenon DEF Worker, WorkerTop, WorkerReceive, WorkerNoMessage, DeliverFinal,
         DeliverTemporary, DeliverTimeout, DeliverInterrupted, Retry, WorkerRequeue,
         WorkerSignal, AfterRequeue, Goto, WorkerStates
  <2>2. CASE DeliverTemporary(w) \/ DeliverTimeout(w)
    <3>1. hand[w] \in Msgs /\ Retry(w)
      BY <2>2, InHand, Zenon DEF DeliverTemporary, DeliverTimeout, WorkerInv
    <3>2. UpTo(RetryCap, retryCount[hand[w]] + 1) \in 0..RetryCap
      BY <3>1, ProcessorConstants DEF UpTo
    <3>3. retryCount' \in [Msgs -> 0..RetryCap]
      BY <3>1, <3>2, Zenon DEF Retry
    <3>4. attempts' \in [Msgs -> 0..(RetryCap + 1)]
      BY <3>1, AttemptsTyped, Zenon DEF Retry
    <3>5. timedOut' \in SUBSET Msgs /\ verdict' = verdict
      BY <2>2, <3>1, Zenon DEF DeliverTemporary, DeliverTimeout, Retry
    <3>6. QED
      BY <2>1, <3>3, <3>4, <3>5, Zenon
  <2>3. ASSUME NEW v \in Verdicts, DeliverFinal(w, v) PROVE ProcessorTypeOK'
    <3>1. attempts' \in [Msgs -> 0..(RetryCap + 1)]
      BY <2>3, InHand, AttemptsTyped, Zenon DEF DeliverFinal, WorkerInv
    <3>2. verdict' \in [Msgs -> Verdicts]
      BY <2>3, Zenon DEF DeliverFinal
    <3>3. QED
      BY <2>1, <2>3, <3>1, <3>2, Zenon DEF DeliverFinal
  <2>4. CASE DeliverInterrupted(w)
    <3>1. attempts' \in [Msgs -> 0..(RetryCap + 1)]
      BY <2>4, InHand, AttemptsTyped, Zenon DEF DeliverInterrupted, WorkerInv
    <3>2. QED
      BY <2>1, <2>4, <3>1, Zenon DEF DeliverInterrupted
  <2>5. CASE UNCHANGED <<retryCount, attempts, timedOut, verdict>>
    BY <2>1, <2>5, Zenon
  <2>6. QED
    BY <1>2, <2>2, <2>3, <2>4, <2>5, Zenon
    DEF Worker, WorkerTop, WorkerReceive, WorkerNoMessage, WorkerRequeue, WorkerSignal
<1>3. QED
  BY <1>1, <1>2, Zenon DEF Next, QueueInternal, Session, Stop, vars

(* A step of one session keeps WorkerInv if that session's call does. *)
LEMMA SessionTouches ==
    ASSUME WorkerInv, NEW s \in Sessions, UNCHANGED wpc,
           \A e \in Clients \ {s} : hand'[e] = hand[e] /\ call'[e] = call[e],
           hand'[s] /= NoMsg => call'[s] = "enqueue"
    PROVE  WorkerInv'
<1>1. \A w \in Workers : w \in Clients \ {s}
  BY ProcessorConstants, Zenon
<1>2. \A t \in Sessions : t = s \/ t \in Clients \ {s}
  BY ProcessorConstants, Zenon
<1>3. QED
  BY <1>1, <1>2, Zenon DEF WorkerInv

(* What a worker or a session holds agrees with where it is in its code. *)
LEMMA WorkerStep == ProcessorInv /\ [Next]_vars => WorkerInv'
<1> SUFFICES ASSUME ProcessorInv, [Next]_vars PROVE WorkerInv'
  BY Zenon
<1> USE ProcessorConstants, QueueConstants
    DEF ProcessorInv, ProcessorTypeOK, QueueInv, QueueTypeOK, CallInv, WorkerInv
<1>1. CASE UNCHANGED <<wpc, call, hand>>
  BY <1>1, Zenon
<1>2. ASSUME NEW s \in Sessions, Session(s) PROVE WorkerInv'
  <2>1. CASE \E m \in Msgs, d \in EnqueueDelays : EnqueueCheck(s, m, d)
    <3>1. UNCHANGED wpc /\ \A e \in Clients \ {s} : hand'[e] = hand[e] /\ call'[e] = call[e]
      BY <1>2, <2>1 DEF Session, EnqueueCheck
    <3>2. hand'[s] /= NoMsg => call'[s] = "enqueue"
      BY <2>1 DEF EnqueueCheck
    <3>3. QED
      BY <3>1, <3>2, SessionTouches, Zenon
  <2>2. CASE EnqueueSend(s) \/ EnqueuePanic(s) \/ EnqueueGiveUp(s)
    <3>1. EnqueueReturn(s, "accepted") \/ EnqueueReturn(s, "panicked") \/ EnqueueReturn(s, "refused")
      BY <2>2, Zenon DEF EnqueueSend, EnqueuePanic, EnqueueGiveUp
    <3>2. /\ \A e \in Clients \ {s} : hand'[e] = hand[e] /\ call'[e] = call[e]
          /\ hand'[s] = NoMsg
      BY <3>1 DEF EnqueueReturn
    <3>3. UNCHANGED wpc
      BY <1>2, Zenon DEF Session
    <3>4. QED
      BY <3>2, <3>3, SessionTouches, Zenon
  <2>3. QED
    BY <1>2, <2>1, <2>2, Zenon DEF Session
<1>3. ASSUME NEW w \in Workers, WorkerTop(w) PROVE WorkerInv'
  BY <1>3 DEF WorkerTop, Goto, queueVars
<1>4. ASSUME NEW w \in Workers, WorkerNoMessage(w) PROVE WorkerInv'
  BY <1>4 DEF WorkerNoMessage, Goto, queueVars
<1>5. ASSUME NEW w \in Workers, WorkerReceive(w) PROVE WorkerInv'
  <2>1. Head(readyChan) \in Msgs
    BY <1>5, ReceiveChanges, Zenon DEF WorkerReceive, Dequeue, OneOwner
  <2>2. QED
    BY <1>5, <2>1 DEF WorkerReceive, Dequeue, Goto
<1>6. ASSUME NEW w \in Workers, NEW v \in Verdicts, DeliverFinal(w, v) PROVE WorkerInv'
  BY <1>6 DEF DeliverFinal, Settle, Goto
<1>7. ASSUME NEW w \in Workers, DeliverTemporary(w) \/ DeliverTimeout(w)
      PROVE  WorkerInv'
  <2>1. UNCHANGED <<call, hand>> /\ hand[w] /= NoMsg /\ call[w] = "idle"
        /\ wpc' = [wpc EXCEPT ![w] = "requeue"]
    BY <1>7, Zenon DEF DeliverTemporary, DeliverTimeout, Retry, Postpone, Goto
  <2>2. QED
    BY <2>1
<1>8. ASSUME NEW w \in Workers, DeliverInterrupted(w) PROVE WorkerInv'
  BY <1>8 DEF DeliverInterrupted, Goto, queueVars
<1>9. ASSUME NEW w \in Workers, WorkerRequeue(w) PROVE WorkerInv'
  <2>1. hand' = [hand EXCEPT ![w] = NoMsg] /\ call[w] = "idle"
    BY <1>9, Zenon DEF WorkerRequeue, RequeuePush
  <2>2. CASE closed
    <3>1. call' = call /\ wpc' = [wpc EXCEPT ![w] = AfterRequeue(w)]
      BY <1>9, <2>2, Zenon DEF WorkerRequeue, RequeuePush, Goto
    <3>2. QED
      BY <2>1, <3>1 DEF AfterRequeue
  <2>3. CASE ~closed
    <3>1. /\ call' = [call EXCEPT ![w] = "requeue"]
          /\ wpc' = [wpc EXCEPT ![w] = "signal"]
      BY <1>9, <2>3, Zenon DEF WorkerRequeue, RequeuePush, Goto
    <3>2. QED
      BY <2>1, <3>1
  <2>4. QED
    BY <2>2, <2>3, Zenon
<1>10. ASSUME NEW w \in Workers, WorkerSignal(w) PROVE WorkerInv'
  BY <1>10 DEF WorkerSignal, RequeueSignal, RequeueCancelled, RequeueReturn, Goto,
       AfterRequeue
<1>11. CASE QueueInternal
  BY <1>1, <1>11, Zenon DEF QueueInternal, Scheduler, SchedDelay, SchedTimer, SchedMetrics,
       SchedSignal, SchedStop, SchedGoto, PromoteBegin, PromoteSend, PromoteReturn,
       PromoteEnd, PromoteStop, PromoteFull, CloseBegin, CloseFinish, Tick
<1>12. QED
  BY <1>1, <1>2, <1>3, <1>4, <1>5, <1>6, <1>7, <1>8, <1>9, <1>10, <1>11, Zenon
  DEF Next, Worker, Stop, Cancel, vars, queueVars

(* RetryCount never runs ahead of the deliveries made, a message is given up  *)
(* late enough, and RetryCount passes MaxRetries only by timeouts.            *)
LEMMA CountStep ==
    ProcessorInv /\ [Next]_vars => CountInv' /\ GivesUpLate' /\ RetryBudget'
<1> SUFFICES ASSUME ProcessorInv, [Next]_vars
             PROVE  CountInv' /\ GivesUpLate' /\ RetryBudget'
  BY Zenon
<1> USE ProcessorConstants
    DEF ProcessorInv, ProcessorTypeOK, WorkerInv, CountInv, GivesUpLate, RetryBudget
<1>1. CASE UNCHANGED workerVars
  BY <1>1, Zenon
<1>2. ASSUME NEW w \in Workers, Worker(w)
      PROVE  CountInv' /\ GivesUpLate' /\ RetryBudget'
  <2>1. ASSUME NEW v \in Verdicts, DeliverFinal(w, v)
        PROVE  CountInv' /\ GivesUpLate' /\ RetryBudget'
    <3>1. PICK m \in Msgs : m = hand[w]
      BY <2>1, InHand, Zenon DEF DeliverFinal
    <3>2. attempts' = [attempts EXCEPT ![m] = UpTo(RetryCap + 1, attempts[m] + 1)]
          /\ retryCount' = retryCount /\ timedOut' = timedOut
          /\ verdict' = [verdict EXCEPT ![m] = v]
          /\ (v = "exhausted" => retryCount[m] >= MaxRetries)
      BY <2>1, <3>1, Zenon DEF DeliverFinal, Attempted
    <3>3. QED
      BY <3>2 DEF UpTo
  <2>2. CASE DeliverTemporary(w) \/ DeliverTimeout(w)
    <3>1. PICK m \in Msgs : m = hand[w]
      BY <2>2, InHand, Zenon DEF DeliverTemporary, DeliverTimeout
    <3>2. attempts' = [attempts EXCEPT ![m] = UpTo(RetryCap + 1, attempts[m] + 1)]
          /\ retryCount' = [retryCount EXCEPT ![m] = UpTo(RetryCap, retryCount[m] + 1)]
          /\ verdict' = verdict
          /\ \/ timedOut' = timedOut /\ retryCount[m] < MaxRetries
             \/ timedOut' = timedOut \cup {m}
      BY <2>2, <3>1, Zenon DEF DeliverTemporary, DeliverTimeout, Retry, Attempted
    <3>3. QED
      BY <3>2 DEF UpTo
  <2>3. CASE DeliverInterrupted(w)
    <3>1. PICK m \in Msgs : m = hand[w]
      BY <2>3, InHand, Zenon DEF DeliverInterrupted
    <3>2. attempts' = [attempts EXCEPT ![m] = UpTo(RetryCap + 1, attempts[m] + 1)]
          /\ UNCHANGED <<retryCount, timedOut, verdict>>
      BY <2>3, <3>1, Zenon DEF DeliverInterrupted, Attempted
    <3>3. QED
      BY <3>2 DEF UpTo
  <2>4. CASE UNCHANGED <<retryCount, attempts, timedOut, verdict>>
    BY <2>4, Zenon
  <2>5. QED
    BY <1>2, <2>1, <2>2, <2>3, <2>4, Zenon
    DEF Worker, WorkerTop, WorkerReceive, WorkerNoMessage, WorkerRequeue, WorkerSignal
<1>3. QED
  BY <1>1, <1>2, Zenon DEF Next, QueueInternal, Session, Stop, vars

(* Only a worker settles a message, and nothing else happens to a settled one. *)
LEMMA SettledByWorker ==
    ASSUME ProcessorInv, [Next]_vars
    PROVE  \/ /\ \A m \in Msgs : fate'[m] = "settled" <=> fate[m] = "settled"
              /\ verdict' = verdict
           \/ \E w \in Workers, v \in Verdicts \ {"none"} : DeliverFinal(w, v)
<1> USE QueueConstants, ProcessorConstants
    DEF ProcessorInv, QueueInv, QueueTypeOK, CallInv, OneOwner
<1>1. CASE UNCHANGED <<fate, verdict>>
  BY <1>1, Zenon
<1>2. ASSUME NEW s \in Sessions, Session(s)
      PROVE  (\A m \in Msgs : fate'[m] = "settled" <=> fate[m] = "settled") /\ verdict' = verdict
  <2>1. s \in Clients /\ verdict' = verdict
    BY <1>2, Zenon DEF Session
  <2>2. ASSUME NEW n \in Msgs, NEW d \in EnqueueDelays, EnqueueCheck(s, n, d)
        PROVE  \A m \in Msgs : fate'[m] = "settled" <=> fate[m] = "settled"
    BY <2>2 DEF EnqueueCheck
  <2>3. CASE EnqueueSend(s) \/ EnqueuePanic(s) \/ EnqueueGiveUp(s)
    <3>1. hand[s] \in Msgs /\ fate[hand[s]] = "offered"
      BY <2>1, <2>3, Zenon DEF EnqueueSend, EnqueuePanic, EnqueueGiveUp
    <3>2. \/ fate' = [fate EXCEPT ![hand[s]] = "accepted"]
          \/ fate' = [fate EXCEPT ![hand[s]] = "panicked"]
          \/ fate' = [fate EXCEPT ![hand[s]] = "refused"]
      BY <2>3, Zenon DEF EnqueueSend, EnqueuePanic, EnqueueGiveUp, EnqueueReturn
    <3>3. QED
      BY <2>1, <3>1, <3>2
  <2>4. QED
    BY <1>2, <2>1, <2>2, <2>3, Zenon DEF Session
<1>3. ASSUME NEW w \in Workers, WorkerRequeue(w)
      PROVE  (\A m \in Msgs : fate'[m] = "settled" <=> fate[m] = "settled") /\ verdict' = verdict
  <2>1. w \in Clients /\ hand[w] \in Msgs /\ fate[hand[w]] = "accepted"
    BY <1>3, Zenon DEF WorkerRequeue, RequeuePush
  <2>2. fate' = fate \/ fate' = [fate EXCEPT ![hand[w]] = "lost"]
    BY <1>3, Zenon DEF WorkerRequeue, RequeuePush
  <2>3. QED
    BY <1>3, <2>1, <2>2 DEF WorkerRequeue
<1>4. CASE CloseFinish /\ UNCHANGED workerVars
  BY <1>4, Zenon DEF CloseFinish
<1>5. CASE QueueInternal
  BY <1>1, <1>4, <1>5, Zenon DEF QueueInternal, Scheduler, SchedDelay, SchedTimer, SchedMetrics,
       SchedSignal, SchedStop, SchedGoto, PromoteBegin, PromoteSend, PromoteReturn,
       PromoteEnd, PromoteStop, PromoteFull, CloseBegin, Tick
<1>6. ASSUME NEW w \in Workers, Worker(w)
      PROVE  \/ UNCHANGED <<fate, verdict>>
             \/ WorkerRequeue(w)
             \/ \E v \in Verdicts \ {"none"} : DeliverFinal(w, v)
  BY <1>6, Zenon DEF Worker, WorkerTop, WorkerNoMessage, WorkerReceive, Dequeue, DeliverTemporary,
       DeliverTimeout, Retry, Postpone, DeliverInterrupted, WorkerSignal, RequeueSignal,
       RequeueCancelled, RequeueReturn, queueVars
<1>7. QED
  BY <1>1, <1>2, <1>3, <1>5, <1>6, Zenon DEF Next, Stop, Cancel, vars, queueVars

(* The verdicts and the fates of the messages keep in step, and a message     *)
(* that has a verdict is not touched again.                                   *)
LEMMA VerdictStep ==
    ASSUME ProcessorInv, VerdictInv, [Next]_vars
    PROVE  /\ VerdictInv'
           /\ \A m \in Msgs : verdict[m] /= "none" => verdict'[m] = verdict[m]
<1> USE DEF VerdictInv, ProcessorInv, ProcessorTypeOK
<1>1. CASE (\A m \in Msgs : fate'[m] = "settled" <=> fate[m] = "settled") /\ verdict' = verdict
  BY <1>1, Zenon
<1>2. ASSUME NEW w \in Workers, NEW v \in Verdicts \ {"none"}, DeliverFinal(w, v)
      PROVE  VerdictInv' /\ \A m \in Msgs : verdict[m] /= "none" => verdict'[m] = verdict[m]
  <2>1. PICK n \in Msgs : n = hand[w]
    BY <1>2, InHand, Zenon DEF DeliverFinal, Settle
  <2>2. fate[n] = "accepted"
    BY <1>2, <2>1, InHand, Zenon DEF DeliverFinal, Settle, QueueInv, CallInv
  <2>3. /\ fate' = [fate EXCEPT ![n] = "settled"]
        /\ verdict' = [verdict EXCEPT ![n] = v]
    BY <1>2, <2>1, Zenon DEF DeliverFinal, Settle
  <2>4. fate \in [Msgs -> Fates]
    BY Zenon DEF QueueTypeOK
  <2>5. QED
    BY <2>2, <2>3, <2>4, Zenon
<1>3. QED
  BY <1>1, <1>2, SettledByWorker, Zenon

(* Nobody delivers a message before its time. *)
LEMMA EarlyStep == ProcessorInv /\ NoEarlyDelivery /\ [Next]_vars => NoEarlyDelivery'
<1> SUFFICES ASSUME ProcessorInv, NoEarlyDelivery, [Next]_vars, NEW w \in Workers, wpc'[w] = "deliver"
             PROVE  nextAttempt'[hand'[w]] = 0
  BY Zenon DEF NoEarlyDelivery
<1> USE QueueConstants, ProcessorConstants
    DEF ProcessorInv, ProcessorTypeOK, QueueInv, QueueTypeOK
<1>1. CASE UNCHANGED <<wpc, hand, nextAttempt>>
  BY <1>1, Zenon DEF NoEarlyDelivery
<1>2. ASSUME wpc[w] = "deliver"
      PROVE  hand[w] \in Msgs /\ fate[hand[w]] = "accepted" /\ nextAttempt[hand[w]] = 0
  <2>1. w \in Clients /\ hand[w] \in Msgs
    BY <1>2, InHand, Zenon DEF WorkerInv
  <2>2. call[w] /= "requeue" /\ call[w] /= "enqueue"
    BY <1>2, Zenon DEF WorkerInv
  <2>3. QED
    BY <1>2, <2>1, <2>2, Zenon DEF CallInv, NoEarlyDelivery
<1>3. ASSUME NEW s \in Sessions, Session(s) PROVE nextAttempt'[hand'[w]] = 0
  <2>1. wpc[w] = "deliver" /\ w /= s
    BY <1>3, Zenon DEF Session
  <2>2. ASSUME NEW n \in Msgs, NEW d \in EnqueueDelays, EnqueueCheck(s, n, d)
        PROVE  hand'[w] = hand[w] /\ nextAttempt'[hand[w]] = nextAttempt[hand[w]]
    <3>1. hand' = hand \/ hand' = [hand EXCEPT ![s] = n]
      BY <2>2, Zenon DEF EnqueueCheck
    <3>2. /\ fate[n] /= "accepted"
          /\ nextAttempt' = nextAttempt \/ nextAttempt' = [nextAttempt EXCEPT ![n] = d]
      BY <2>2, Zenon DEF EnqueueCheck
    <3>3. QED
      BY <1>2, <2>1, <3>1, <3>2, Zenon
  <2>3. CASE EnqueueSend(s) \/ EnqueuePanic(s) \/ EnqueueGiveUp(s)
    BY <1>2, <2>1, <2>3, Zenon DEF EnqueueSend, EnqueuePanic, EnqueueGiveUp, EnqueueReturn
  <2>4. QED
    BY <1>2, <1>3, <2>1, <2>2, <2>3, Zenon DEF Session
<1>4. CASE Tick /\ UNCHANGED workerVars
  BY <1>2, <1>4, Zenon DEF Tick, Less1
<1>5. CASE QueueInternal
  BY <1>1, <1>4, <1>5, Zenon DEF QueueInternal, Scheduler, SchedDelay, SchedTimer, SchedMetrics,
       SchedSignal, SchedStop, SchedGoto, PromoteBegin, PromoteSend, PromoteReturn,
       PromoteEnd, PromoteStop, PromoteFull, CloseBegin, CloseFinish
<1>6. ASSUME WorkerReceive(w) PROVE nextAttempt'[hand'[w]] = 0
  <2>1. Head(readyChan) \in Msgs
    BY <1>6, ReceiveChanges, Zenon DEF WorkerReceive, Dequeue, OneOwner
  <2>2. hand'[w] = Head(readyChan) /\ nextAttempt' = nextAttempt
    BY <1>6, Zenon DEF WorkerReceive, Dequeue
  <2>3. ~(nextAttempt[Head(readyChan)] > 0)
    BY <1>6, Zenon DEF WorkerReceive, Goto
  <2>4. PICK m \in Msgs : m = Head(readyChan)
    BY <2>1, Zenon
  <2>5. nextAttempt[m] \in Nat
    BY <2>4, Zenon
  <2>6. QED
    BY <2>2, <2>3, <2>4, <2>5
<1>7. ASSUME Worker(w), ~WorkerReceive(w) PROVE FALSE
  BY <1>7, Zenon DEF Worker, WorkerTop, WorkerNoMessage, DeliverFinal, DeliverTemporary,
       DeliverTimeout, Retry, DeliverInterrupted, WorkerRequeue, WorkerSignal,
       AfterRequeue, Goto, WorkerStates
<1>8. ASSUME NEW u \in Workers, u /= w, Worker(u) PROVE nextAttempt'[hand'[w]] = 0
  <2>1. wpc[w] = "deliver"
    BY <1>8, Zenon DEF Worker, WorkerTop, WorkerNoMessage, WorkerReceive, DeliverFinal,
       DeliverTemporary, DeliverTimeout, Retry, DeliverInterrupted, WorkerRequeue,
       WorkerSignal, Goto
  <2>2. hand'[w] = hand[w]
    BY <1>8, Zenon DEF Worker, WorkerTop, WorkerNoMessage, WorkerReceive, Dequeue, DeliverFinal,
       Settle, DeliverTemporary, DeliverTimeout, Retry, Postpone, DeliverInterrupted,
       WorkerRequeue, RequeuePush, WorkerSignal, RequeueSignal, RequeueCancelled,
       RequeueReturn, queueVars
  <2>3. hand[u] /= NoMsg => hand[u] \in Msgs /\ hand[u] /= hand[w]
    BY <1>2, <1>8, <2>1, InHand, Zenon DEF OneOwner
  <2>4. CASE nextAttempt' = nextAttempt
    BY <1>2, <2>1, <2>2, <2>4, Zenon
  <2>5. CASE DeliverTemporary(u) \/ DeliverTimeout(u) \/ WorkerRequeue(u)
    <3>1. hand[u] /= NoMsg
      BY <2>5, Zenon DEF DeliverTemporary, DeliverTimeout, Retry, Postpone, WorkerRequeue,
         RequeuePush
    <3>2. nextAttempt'[hand[w]] = nextAttempt[hand[w]]
      <4>1. \/ nextAttempt' = nextAttempt
            \/ \E d : nextAttempt' = [nextAttempt EXCEPT ![hand[u]] = d]
        BY <2>5, Zenon DEF DeliverTemporary, DeliverTimeout, Retry, Postpone, WorkerRequeue,
           RequeuePush
      <4>2. QED
        BY <1>2, <2>1, <2>3, <3>1, <4>1, Zenon
    <3>3. QED
      BY <1>2, <2>1, <2>2, <3>2, Zenon
  <2>6. QED
    BY <1>8, <2>4, <2>5, Zenon DEF Worker, WorkerTop, WorkerNoMessage, WorkerReceive, Dequeue,
       DeliverFinal, Settle, DeliverInterrupted, WorkerSignal, RequeueSignal,
       RequeueCancelled, RequeueReturn, queueVars
<1>9. QED
  BY <1>1, <1>3, <1>5, <1>6, <1>7, <1>8, Zenon DEF Next, Stop, Cancel, vars, queueVars

(* The inductive invariant of the processors and their queue holds in every   *)
(* reachable state.                                                           *)
THEOREM ProcessorInvariant == Spec => []ProcessorInv
<1>1. Init => ProcessorInv
  <2> SUFFICES ASSUME Init PROVE ProcessorInv
    BY Zenon
  <2> USE ProcessorConstants DEF Init
  <2>1. QueueInv
    BY QueueInitially, Zenon
  <2>2. ProcessorTypeOK
    BY <2>1 DEF ProcessorTypeOK, QueueInv, WorkerStates, Verdicts
  <2>3. WorkerInv /\ CountInv /\ GivesUpLate /\ RetryBudget
    BY DEF WorkerInv, CountInv, GivesUpLate, RetryBudget, QueueInit
  <2>4. QED
    BY <2>1, <2>2, <2>3, Zenon DEF ProcessorInv
<1>2. ProcessorInv /\ [Next]_vars => ProcessorInv'
  <2> SUFFICES ASSUME ProcessorInv, [Next]_vars PROVE ProcessorInv'
    BY Zenon
  <2>1. QueueInv'
    BY UsesQueueStep, QueueStep, Zenon DEF ProcessorInv
  <2>2. ProcessorTypeOK'
    BY <2>1, ProcessorTypeStep, Zenon DEF QueueInv
  <2>3. QED
    BY <2>1, <2>2, WorkerStep, CountStep, Zenon DEF ProcessorInv
<1>3. QED
  BY <1>1, <1>2, PTL DEF Spec

(* Sessions and processors use the queue within its rules: the whole          *)
(* implements QueueSpec.                                                      *)
THEOREM ProcessorUsesQueueProperly == Spec => UsesQueueProperly
<1>1. Init => QueueInit
  BY Zenon DEF Init
<1>2. QED
  BY <1>1, UsesQueueStep, ProcessorInvariant, PTL DEF Spec, UsesQueueProperly, QueueSpec

(* Workers that have exited left every accepted, unfinished message in the    *)
(* queue, and mu unlocked.                                                    *)
THEOREM ProcessorShutdownKeepsMail == Spec => []ShutdownKeepsMail
<1>1. ProcessorInv => ShutdownKeepsMail
  <2> SUFFICES ASSUME ProcessorInv, \A w \in Workers : wpc[w] = "exited", ~closed
               PROVE  /\ \A m \in Msgs : fate[m] = "accepted" => InReady(m) \/ m \in retryHeap
                      /\ mu \notin Workers
    BY Zenon DEF ShutdownKeepsMail
  <2> USE ProcessorConstants, QueueConstants DEF ProcessorInv, QueueInv, WorkerInv
  <2>1. ASSUME NEW m \in Msgs, fate[m] = "accepted" PROVE ~Held(m)
    <3>1. \A w \in Workers : hand[w] = NoMsg
      BY Zenon
    <3>2. \A s \in Sessions : hand[s] /= m
      BY <2>1 DEF CallInv
    <3>3. QED
      BY <3>1, <3>2, Zenon DEF Held
  <2>2. mu \notin Workers
    BY Zenon DEF LockInv
  <2>3. QED
    BY <2>1, <2>2, Zenon DEF AcceptedIsKept
<1>2. QED
  BY <1>1, ProcessorInvariant, PTL

(* The state of workers, processors and queue stays well-typed. *)
THEOREM ProcessorTypes == Spec => []ProcessorTypeOK
<1>1. ProcessorInv => ProcessorTypeOK
  BY Zenon DEF ProcessorInv
<1>2. QED
  BY <1>1, ProcessorInvariant, PTL

(* No message is given up before MaxRetries retries have failed. *)
THEOREM ProcessorGivesUpLate == Spec => []GivesUpLate
<1>1. ProcessorInv => GivesUpLate
  BY Zenon DEF ProcessorInv
<1>2. QED
  BY <1>1, ProcessorInvariant, PTL

(* RetryCount passes MaxRetries only by time-outs, which are not limited. *)
THEOREM ProcessorRetries == Spec => []RetryBudget
<1>1. ProcessorInv => RetryBudget
  BY Zenon DEF ProcessorInv
<1>2. QED
  BY <1>1, ProcessorInvariant, PTL

(* No message is handed to Deliver before its NextAttemptAt, although the     *)
(* queue may hand it to a worker earlier.                                     *)
THEOREM ProcessorNoEarlyDelivery == Spec => []NoEarlyDelivery
<1>1. Init => NoEarlyDelivery
  BY Zenon DEF Init, NoEarlyDelivery
<1>2. QED
  BY <1>1, EarlyStep, ProcessorInvariant, PTL DEF Spec

(* A message that was delivered or given up is never held, delivered or       *)
(* judged again.                                                              *)
THEOREM ProcessorFinishedIsFinal == Spec => FinishedIsFinal
<1> DEFINE Stands(m) == verdict[m] /= "none"
               => verdict'[m] = verdict[m] /\ attempts'[m] = attempts[m] /\ ~Held(m)'
<1>1. ASSUME ProcessorInv, ProcessorInv', VerdictInv, VerdictInv', [Next]_vars,
             NEW m \in Msgs, verdict[m] /= "none"
      PROVE  verdict'[m] = verdict[m] /\ attempts'[m] = attempts[m] /\ ~Held(m)'
  <2>1. verdict'[m] = verdict[m]
    BY <1>1, VerdictStep, Zenon
  <2>2. fate[m] = "settled" /\ fate'[m] = "settled"
    BY <1>1, <2>1, Zenon DEF VerdictInv
  <2>3. ~Held(m) /\ ~Held(m)'
    BY <1>1, <2>2, Zenon DEF ProcessorInv, QueueInv, OneOwner
  <2>4. \A w \in Workers : hand[w] /= m
    BY <2>3, ProcessorConstants, Zenon DEF Held
  <2>5. attempts'[m] = attempts[m]
    <3>1. ASSUME NEW w \in Workers, wpc[w] = "deliver", Attempted(hand[w])
          PROVE  attempts'[m] = attempts[m]
      BY <1>1, <2>4, <3>1, Zenon DEF Attempted, ProcessorInv, ProcessorTypeOK
    <3>2. ASSUME NEW w \in Workers, Worker(w)
          PROVE  attempts' = attempts
                   \/ (wpc[w] = "deliver" /\ Attempted(hand[w]))
      BY <3>2, Zenon DEF Worker, WorkerTop, WorkerNoMessage, WorkerReceive, DeliverFinal,
         DeliverTemporary, DeliverTimeout, Retry, DeliverInterrupted, WorkerRequeue,
         WorkerSignal
    <3>3. QED
      BY <1>1, <3>1, <3>2, Zenon DEF Next, QueueInternal, Session, Stop, vars
  <2>6. QED
    BY <2>1, <2>3, <2>5, Zenon
<1>2. ProcessorInv /\ ProcessorInv' /\ VerdictInv /\ VerdictInv' /\ [Next]_vars
        => [\A m \in Msgs : Stands(m)]_vars
  BY <1>1, Zenon
<1>3. Init => VerdictInv
  BY Zenon DEF Init, QueueInit, VerdictInv
<1>4. ProcessorInv /\ VerdictInv /\ [Next]_vars => VerdictInv'
  BY VerdictStep, Zenon
<1> HIDE DEF Stands
<1>5. Spec => [][\A m \in Msgs : Stands(m)]_vars
  BY <1>2, <1>3, <1>4, ProcessorInvariant, PTL DEF Spec
<1>6. QED
  BY <1>5, Zenon DEF FinishedIsFinal, Stands

(* A Requeue that waits for a full signal slot can go on, or the scheduler    *)
(* is at the select that empties the slot, or the queue is wedged.            *)
THEOREM ProcessorOnlyWedge == Spec => []OnlyWedge
<1>1. ProcessorInv => OnlyWedge
  <2> SUFFICES ASSUME ProcessorInv, NEW w \in Workers, wpc[w] = "signal", retrySignal,
                      w \notin ctxDone, sched /= "select"
               PROVE  Wedged
    BY Zenon DEF OnlyWedge
  <2>1. mu = w /\ w \in Clients
    BY ProcessorConstants, Zenon DEF ProcessorInv, WorkerInv, QueueInv, LockInv
  <2>2. sched /= "promoting" /\ sched /= "done"
    BY <2>1, QueueConstants, Zenon DEF ProcessorInv, QueueInv, LockInv
  <2>3. QED
    BY <2>2, Zenon DEF Wedged, ProcessorInv, QueueInv, QueueTypeOK
<1>2. QED
  BY <1>1, ProcessorInvariant, PTL

(* A wedged queue stays wedged until a processor is stopped.                  *)
THEOREM ProcessorWedgeLasts == Spec => WedgeLasts
<1>1. ASSUME ProcessorInv, [Next]_vars, Wedged, ctxDone' = ctxDone
      PROVE  Wedged'
  <2>1. PICK w \in Workers : wpc[w] = "signal" /\ w \notin ctxDone
    BY <1>1, Zenon DEF Wedged
  <2>2. mu = w /\ w \in Clients /\ mu /= "free" /\ mu /= "scheduler"
    BY <1>1, <2>1, ProcessorConstants, QueueConstants, Zenon DEF ProcessorInv, WorkerInv,
       QueueInv, LockInv
  <2>3. retrySignal /\ sched \in {"delay", "promote"}
    BY <1>1, Zenon DEF Wedged
  <2>4. wpc'[w] = "signal"
    <3>1. ASSUME Worker(w) PROVE FALSE
      BY <2>1, <2>3, <3>1, Zenon DEF Worker, WorkerTop, WorkerNoMessage, WorkerReceive,
         DeliverFinal,
         DeliverTemporary, DeliverTimeout, Retry, DeliverInterrupted, WorkerRequeue,
         WorkerSignal, RequeueSignal, RequeueCancelled
    <3>2. ASSUME NEW u \in Workers, u /= w, Worker(u) PROVE wpc'[w] = wpc[w]
      BY <1>1, <3>2, Zenon DEF Worker, WorkerTop, WorkerNoMessage, WorkerReceive, DeliverFinal,
         DeliverTemporary, DeliverTimeout, Retry, DeliverInterrupted, WorkerRequeue,
         WorkerSignal, Goto, ProcessorInv, ProcessorTypeOK
    <3>3. QED
      BY <1>1, <2>1, <3>1, <3>2, Zenon DEF Next, QueueInternal, Session, Stop, vars
  <2>5. retrySignal' /\ sched' = sched
    <3>1. [QueueNext]_queueVars
      BY <1>1, UsesQueueStep, Zenon
    <3>2. CASE Scheduler
      BY <2>2, <2>3, <3>2, Zenon DEF Scheduler, SchedDelay, SchedTimer, SchedMetrics, SchedSignal,
         SchedStop, SchedGoto, PromoteBegin, PromoteSend, PromoteReturn, PromoteEnd,
         PromoteStop, PromoteFull
    <3>3. ASSUME NEW c \in Clients, Client(c) PROVE retrySignal' /\ sched' = sched
      BY <2>3, <3>3, Zenon DEF Client, EnqueueCheck, EnqueueSend, EnqueuePanic, EnqueueGiveUp,
         EnqueueReturn, Dequeue, Postpone, Settle, RequeuePush, RequeueSignal,
         RequeueCancelled, RequeueReturn
    <3>4. QED
      BY <2>3, <3>1, <3>2, <3>3, Zenon DEF QueueNext, Cancel, CloseBegin, CloseFinish, Tick,
         queueVars
  <2>6. QED
    BY <1>1, <2>1, <2>3, <2>4, <2>5, Zenon DEF Wedged
<1>2. ProcessorInv /\ [Next]_vars => [Wedged => Wedged' \/ ctxDone' /= ctxDone]_vars
  BY <1>1, Zenon
<1>3. QED
  BY <1>2, ProcessorInvariant, PTL DEF Spec, WedgeLasts

(* With the sessions and processors of the server as its callers the queue    *)
(* keeps its promise: every message has one standing at a time, moves along   *)
(* the edges of Custody and gets lost only once the queue is shut.            *)
THEOREM ProcessorKeepsCustody == Spec => KeepsCustody
  BY ProcessorUsesQueueProperly, QueueKeepsCustody, PTL DEF UsesQueueProperly
============================================================================
