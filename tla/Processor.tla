----------------------------- MODULE Processor -----------------------------
(***************************************************************************)
(* The queue processors of internal/processor/processor.go working on the   *)
(* queue of module Queue, as cmd/smtpd wires them: sessions call Enqueue,   *)
(* and the workers of every processor (one per SMTP server) share one       *)
(* queue.  Delivery itself is any implementation of the Deliverer           *)
(* interface: it succeeds or fails, for good or for now, or reports that    *)
(* its context is done.                                                     *)
(*                                                                          *)
(* cmd/smtpd never closes the queue; QueueMayClose says whether a caller of *)
(* Close is part of the system.                                             *)
(***************************************************************************)
EXTENDS Queue

CONSTANTS
    Sessions,        \* goroutines that call Enqueue
    Workers,         \* worker goroutines of all processors
    Processors,      \* queue processors
    ProcOf,          \* the processor of each worker
    MaxRetries, BaseRetryDelay, MaxRetryDelay,
    RetryCap,        \* bound: a RetryCount of RetryCap stands for every larger one too
    QueueMayClose    \* whether Close is ever called

(* min(BaseRetryDelay * 2^(retryCount-1), MaxRetryDelay).  Backoff.tla has the *)
(* 64-bit arithmetic of the code; it agrees with this up to retryCount = 28.   *)
calculateRetryDelay(retryCount) ==
    LET delay == BaseRetryDelay * 2^(retryCount - 1)
    IN  IF retryCount <= 0 THEN BaseRetryDelay
        ELSE IF delay > MaxRetryDelay THEN MaxRetryDelay ELSE delay

(* What it may return for a RetryCount that is n or, beyond RetryCap, any     *)
(* number from n on: the longest delay or, when the product overflows, none.  *)
RetryDelaysAt(n) ==
    IF n <= RetryCap THEN {calculateRetryDelay(n)} ELSE {MaxRetryDelay, 0}

(* A counter with the bound cap. *)
UpTo(cap, n) == IF n > cap THEN cap ELSE n

ASSUME ProcessorConstants ==
    /\ Clients = Sessions \cup Workers
    /\ Sessions \cap Workers = {}
    /\ ProcOf \in [Workers -> Processors]
    /\ MaxRetries \in Nat
    /\ RetryCap \in Nat
    /\ MaxRetries <= RetryCap
    /\ RetryDelaysAt(1) \subseteq RetryDelays
    /\ \A n \in 1..RetryCap : RetryDelaysAt(n + 1) \subseteq RetryDelays
    /\ calculateRetryDelay(RetryCap) = MaxRetryDelay
    /\ QueueMayClose \in BOOLEAN

VARIABLES
    wpc,         \* control state of each worker's process loop
    leaving,     \* workers that return once their Requeue returns
    retryCount,  \* RetryCount of each message
    attempts,    \* history: calls of Deliver that returned, RetryCap + 1 for more
    timedOut,    \* history: messages with a delivery that timed out
    verdict      \* history: how the processor finished with each message

workerVars == <<wpc, leaving, retryCount, attempts, timedOut, verdict>>
vars == <<queueVars, workerVars>>

WorkerStates == {"top", "dequeue", "deliver", "requeue", "signal", "exited"}
Verdicts == {"none", "delivered", "permanent", "exhausted"}

ProcessorTypeOK ==
    /\ QueueTypeOK
    /\ wpc \in [Workers -> WorkerStates]
    /\ leaving \in SUBSET Workers
    /\ retryCount \in [Msgs -> 0..RetryCap]
    /\ attempts \in [Msgs -> 0..(RetryCap + 1)]
    /\ timedOut \in SUBSET Msgs
    /\ verdict \in [Msgs -> Verdicts]

Init ==
    /\ QueueInit
    /\ wpc = [w \in Workers |-> "top"]
    /\ leaving = {}
    /\ retryCount = [m \in Msgs |-> 0]
    /\ attempts = [m \in Msgs |-> 0]
    /\ timedOut = {}
    /\ verdict = [m \in Msgs |-> "none"]

Goto(w, to) == wpc' = [wpc EXCEPT ![w] = to]
Attempted(m) == attempts' = [attempts EXCEPT ![m] = UpTo(RetryCap + 1, @ + 1)]

----------------------------------------------------------------------------
(* The select at the top of the loop. *)
WorkerTop(w) ==
    /\ wpc[w] = "top"
    /\ Goto(w, IF w \in ctxDone THEN "exited" ELSE "dequeue")
    /\ UNCHANGED <<queueVars, leaving, retryCount, attempts, timedOut, verdict>>

(* Dequeue returned a message; one whose time has not come goes back. *)
WorkerReceive(w) ==
    /\ wpc[w] = "dequeue"
    /\ Dequeue(w)
    /\ Goto(w, IF nextAttempt[Head(readyChan)] > 0 THEN "requeue" ELSE "deliver")
    /\ UNCHANGED <<leaving, retryCount, attempts, timedOut, verdict>>

(* Dequeue returned an error: a context is done, its own one-second timeout  *)
(* or the processor's; or the queue is closed.                               *)
WorkerNoMessage(w) ==
    /\ wpc[w] = "dequeue"
    /\ \/ w \in ctxDone /\ Goto(w, "exited")
       \/ (w \notin ctxDone \/ closed) /\ Goto(w, "top")
    /\ UNCHANGED <<queueVars, leaving, retryCount, attempts, timedOut, verdict>>

(* Faulty variant: a finished message is requeued all the same. *)
SettlesAndRequeues(w, v) ==
    /\ wpc[w] = "deliver"
    /\ fate' = [fate EXCEPT ![hand[w]] = "settled"]
    /\ verdict' = [verdict EXCEPT ![hand[w]] = v]
    /\ Goto(w, "requeue")
    /\ UNCHANGED <<lockVars, schedVars, readyChan, retryHeap, retrySignal, nextAttempt,
                   call, hand, ctxDone, leaving, retryCount, attempts, timedOut>>

(* Deliver returned and the message is not requeued: it was delivered, the   *)
(* failure is permanent, or the retries are used up.                         *)
DeliverFinal(w, v) ==
    /\ wpc[w] = "deliver"
    /\ v = "exhausted" => retryCount[hand[w]] >= MaxRetries
    /\ Settle(w)
    /\ verdict' = [verdict EXCEPT ![hand[w]] = v]
    /\ Attempted(hand[w])
    /\ Goto(w, "top")
    /\ UNCHANGED <<leaving, retryCount, timedOut>>

(* RetryCount++, the next NextAttemptAt, and on to Requeue. *)
Retry(w) ==
    /\ wpc[w] = "deliver"
    /\ retryCount' = [retryCount EXCEPT ![hand[w]] = UpTo(RetryCap, @ + 1)]
    /\ \E d \in RetryDelaysAt(retryCount[hand[w]] + 1) : Postpone(w, d)
    /\ Attempted(hand[w])
    /\ Goto(w, "requeue")
    /\ UNCHANGED <<leaving, verdict>>

(* Faulty variant: temporary failures do not look at MaxRetries. *)
RetryForever(w) ==
    /\ wpc[w] = "deliver"
    /\ Retry(w)
    /\ UNCHANGED timedOut

DeliverTemporary(w) ==
    /\ wpc[w] = "deliver"
    /\ retryCount[hand[w]] < MaxRetries
    /\ Retry(w)
    /\ UNCHANGED timedOut

(* The two-minute timeout: MaxRetries is not consulted. *)
DeliverTimeout(w) ==
    /\ wpc[w] = "deliver"
    /\ w \notin ctxDone
    /\ Retry(w)
    /\ timedOut' = timedOut \cup {hand[w]}

(* Faulty variant: the worker returns without requeueing. *)
AbandonDelivery(w) ==
    /\ wpc[w] = "deliver"
    /\ w \in ctxDone
    /\ Attempted(hand[w])
    /\ Goto(w, "exited")
    /\ UNCHANGED <<queueVars, leaving, retryCount, timedOut, verdict>>

(* The processor's context ended the delivery: requeue, then return. *)
DeliverInterrupted(w) ==
    /\ wpc[w] = "deliver"
    /\ w \in ctxDone
    /\ leaving' = leaving \cup {w}
    /\ Attempted(hand[w])
    /\ Goto(w, "requeue")
    /\ UNCHANGED <<queueVars, retryCount, timedOut, verdict>>

(* Requeue returned; its error is logged. *)
AfterRequeue(w) == IF w \in leaving THEN "exited" ELSE "top"

WorkerRequeue(w) ==
    /\ wpc[w] = "requeue"
    /\ RequeuePush(w)
    /\ Goto(w, IF closed THEN AfterRequeue(w) ELSE "signal")
    /\ UNCHANGED <<leaving, retryCount, attempts, timedOut, verdict>>

(* Faulty variant: Requeue goes on waiting when the context is done. *)
WorkerWaitsOn(w) ==
    /\ wpc[w] = "signal"
    /\ \/ RequeueSignal(w) /\ Goto(w, AfterRequeue(w))
       \/ w \in ctxDone /\ UNCHANGED <<queueVars, wpc>>
    /\ UNCHANGED <<leaving, retryCount, attempts, timedOut, verdict>>

WorkerSignal(w) ==
    /\ wpc[w] = "signal"
    /\ RequeueSignal(w) \/ RequeueCancelled(w)
    /\ Goto(w, AfterRequeue(w))
    /\ UNCHANGED <<leaving, retryCount, attempts, timedOut, verdict>>

Worker(w) ==
    \/ WorkerTop(w)
    \/ WorkerReceive(w)
    \/ WorkerNoMessage(w)
    \/ \E v \in Verdicts \ {"none"} : DeliverFinal(w, v)
    \/ DeliverTemporary(w)
    \/ DeliverTimeout(w)
    \/ DeliverInterrupted(w)
    \/ WorkerRequeue(w)
    \/ WorkerSignal(w)

(* Stop(p): close(p.stopChan), on which Start's goroutine cancels the        *)
(* context of p's workers.  Stop then waits until they have exited.          *)
Stop(p) ==
    /\ Cancel({w \in Workers : ProcOf[w] = p})
    /\ UNCHANGED workerVars

(* A session's Enqueue has context.Background(), which is never done. *)
Session(s) ==
    /\ \/ \E m \in Msgs, d \in EnqueueDelays : EnqueueCheck(s, m, d)
       \/ EnqueueSend(s)
       \/ EnqueuePanic(s)
       \/ EnqueueGiveUp(s)
    /\ UNCHANGED workerVars

QueueInternal ==
    /\ Scheduler \/ Tick \/ (QueueMayClose /\ (CloseBegin \/ CloseFinish))
    /\ UNCHANGED workerVars

Next ==
    \/ QueueInternal
    \/ \E s \in Sessions : Session(s)
    \/ \E w \in Workers : Worker(w)
    \/ \E p \in Processors : Stop(p)

Spec == Init /\ [][Next]_vars

----------------------------------------------------------------------------
(* A worker that has returned left nothing behind: so when all workers have  *)
(* exited and the queue is open, every accepted message that is not finished *)
(* is in the ready channel or in the heap, whatever the workers were doing   *)
(* when Stop was called, and mu is not left locked.                          *)
ShutdownKeepsMail ==
    (\A w \in Workers : wpc[w] = "exited") /\ ~closed
        => /\ \A m \in Msgs : fate[m] = "accepted" => InReady(m) \/ m \in retryHeap
           /\ mu \notin Workers

(* A message is given up for too many retries only after MaxRetries + 1      *)
(* deliveries of it have failed.                                             *)
GivesUpLate ==
    \A m \in Msgs : verdict[m] = "exhausted" => attempts[m] > MaxRetries

(* RetryCount stays within MaxRetries for a message whose deliveries never   *)
(* timed out, across all its trips through the heap and whichever workers    *)
(* handled it; timed-out deliveries skip the check and can exceed it.        *)
RetryBudget ==
    \A m \in Msgs \ timedOut : retryCount[m] <= MaxRetries

(* No message is handed to Deliver before its NextAttemptAt: a worker that   *)
(* dequeues it early puts it back, and nobody else changes the NextAttemptAt *)
(* of a message that a worker holds.                                         *)
NoEarlyDelivery ==
    \A w \in Workers : wpc[w] = "deliver" => nextAttempt[hand[w]] = 0

(* A message that was delivered or given up is finished: whatever the other  *)
(* workers, the scheduler and Close do, no goroutine gets hold of it again,  *)
(* it is not delivered again and its verdict stands.                         *)
FinishedIsFinal ==
    [][\A m \in Msgs : verdict[m] /= "none"
          => verdict'[m] = verdict[m] /\ attempts'[m] = attempts[m] /\ ~Held(m)']_vars

(* What a goroutine holds at each point of its loop, and how the counters    *)
(* compare: what ShutdownKeepsMail and GivesUpLate need to be inductive.     *)
WorkerInv ==
    /\ \A w \in Workers :
         /\ wpc[w] \in {"deliver", "requeue"} <=> hand[w] /= NoMsg
         /\ wpc[w] = "signal" <=> call[w] = "requeue"
         /\ call[w] /= "enqueue"
    /\ \A s \in Sessions : hand[s] /= NoMsg => call[s] = "enqueue"

CountInv == \A m \in Msgs : retryCount[m] <= attempts[m]

(* The processor has finished with exactly the messages that left the queue  *)
(* because a worker settled them.                                            *)
VerdictInv == \A m \in Msgs : verdict[m] /= "none" <=> fate[m] = "settled"

ProcessorInv ==
    /\ QueueInv /\ ProcessorTypeOK
    /\ WorkerInv /\ CountInv
    /\ GivesUpLate /\ RetryBudget

(* The sessions and workers use the queue within the rules of module Queue:  *)
(* every step of the whole is a step the queue allows some caller, so what   *)
(* holds of the queue under any callers (OneOwner, AcceptedIsKept and the    *)
(* rest) holds here.                                                         *)
UsesQueueProperly == QueueSpec

(* A worker that waits in Requeue for the signal slot while the scheduler,   *)
(* the only goroutine that empties the slot, waits for the mu it holds.      *)
Wedged ==
    /\ \E w \in Workers : wpc[w] = "signal" /\ w \notin ctxDone
    /\ retrySignal
    /\ sched \in {"delay", "promote"}

(* A Requeue that waits for a full signal slot meets one of three things:    *)
(* its context is done, the scheduler is at the select that empties the      *)
(* slot, or the queue is wedged.  There is no other way to get stuck.        *)
OnlyWedge ==
    \A w \in Workers :
        wpc[w] = "signal" /\ retrySignal
            => w \in ctxDone \/ sched = "select" \/ Wedged

(* A wedged queue stays wedged until a processor is stopped: no session,     *)
(* worker or timer, and not Close, gets it going again.                      *)
WedgeLasts == [][Wedged => Wedged' \/ ctxDone' /= ctxDone]_vars

(* Goroutines keep running.  sync.Mutex hands itself to a waiter that has    *)
(* waited long enough, a channel serves its waiters in turn, and select      *)
(* picks among ready cases at random: these steps are strongly fair.  So is  *)
(* the promotion of each message: which of the due ones comes first is left  *)
(* open in module Queue, but the heap orders them by NextAttemptAt, and a    *)
(* message that is put back later is due later than one that is due already. *)
(* Deliver is taken to return, since it is given a deadline; module Outbound *)
(* shows where the one of pkg/outbound does not.                             *)
Fairness ==
    /\ WF_vars(Tick /\ UNCHANGED workerVars)
    /\ SF_vars(SchedDelay /\ UNCHANGED workerVars)
    /\ SF_vars(SchedTimer /\ UNCHANGED workerVars)
    /\ WF_vars(SchedMetrics /\ UNCHANGED workerVars)
    /\ SF_vars(SchedStop /\ UNCHANGED workerVars)
    /\ SF_vars(PromoteBegin /\ UNCHANGED workerVars)
    /\ WF_vars(/\ PromoteEnd \/ PromoteStop \/ PromoteFull
                    \/ \E m \in Msgs : PromoteSend(m)
               /\ UNCHANGED workerVars)
    /\ \A m \in Msgs : SF_vars(PromoteSend(m) /\ UNCHANGED workerVars)
    /\ WF_vars(CloseFinish /\ UNCHANGED workerVars)
    /\ \A w \in Workers :
         /\ WF_vars(WorkerTop(w))
         /\ SF_vars(WorkerReceive(w))
         /\ WF_vars(WorkerNoMessage(w))
         /\ WF_vars(wpc[w] = "deliver" /\ Worker(w))
         /\ SF_vars(WorkerRequeue(w))
         /\ WF_vars(WorkerSignal(w))

FairSpec == Spec /\ Fairness

(* Once every processor has been told to stop, every worker returns: the     *)
(* cancelled context frees even a worker that waits in Requeue with mu held. *)
StopReturns ==
    Workers \subseteq ctxDone ~> \A w \in Workers : wpc[w] = "exited"

(* A delivery of m runs into its two minutes. *)
TimesOut(m) == \E w \in Workers : hand[w] = m /\ DeliverTimeout(w)

(* Every accepted message whose deliveries do not time out for ever is       *)
(* delivered or given up, unless a processor is stopped, the queue is closed *)
(* or it wedges on a Requeue.  One whose deliveries do time out for ever is  *)
(* retried for ever, since nothing counts time-outs (processor.go:185-193).  *)
EventuallySettled ==
    \A m \in Msgs :
        <>[][~TimesOut(m)]_vars =>
            (fate[m] = "accepted"
                ~> fate[m] = "settled" \/ ctxDone /= {} \/ closed \/ Wedged)

(* "Requeue adds a message back for a later retry attempt": a message in the *)
(* heap leaves it again, as long as no processor is stopped.                 *)
RequeuedIsRetried ==
    \A m \in Msgs : m \in retryHeap ~> m \notin retryHeap \/ ctxDone /= {}
============================================================================
