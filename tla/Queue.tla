------------------------------- MODULE Queue -------------------------------
(***************************************************************************)
(* The in-memory queue of internal/queue/queue.go: a bounded ready channel, *)
(* a retry heap, the scheduler goroutine that moves due messages from the   *)
(* heap to the channel, and the callers of Enqueue, Dequeue, Requeue and    *)
(* Close.  The callers here are as general as the interface allows: anyone  *)
(* may offer a message, take one, put back or finish the one it took.       *)
(*                                                                          *)
(* Time is relative.  nextAttempt[m] is NextAttemptAt minus now and timer   *)
(* is what is left on heapCheckTimer, both cut off at 0, so no clock grows. *)
(* A critical section of mu that cannot block is one step; the two that     *)
(* other goroutines can observe half-way (Requeue waiting to signal, the    *)
(* promotion loop) hold mu across steps.                                    *)
(***************************************************************************)
EXTENDS Integers, Sequences, FiniteSets

CONSTANTS
    Msgs,           \* messages
    NoMsg,          \* no message in hand
    Clients,        \* goroutines that call the queue
    BufferSize,     \* capacity of readyChan
    EnqueueDelays,  \* NextAttemptAt - now that callers of Enqueue may preset
    RetryDelays,    \* NextAttemptAt - now that callers of Requeue may set
    FiveSeconds,    \* what Requeue substitutes for a NextAttemptAt in the past
    Hour            \* timer setting for an empty heap

ASSUME QueueConstants ==
    /\ NoMsg \notin Msgs
    /\ Clients \cap {"free", "scheduler"} = {}
    /\ BufferSize \in Nat \ {0}
    /\ EnqueueDelays \subseteq Nat
    /\ RetryDelays \subseteq Nat
    /\ FiveSeconds \in Nat \ {0}
    /\ Hour \in Nat \ {0}

VARIABLES
    mu,          \* holder of q.mu: "free", "scheduler" or a client
    closed,      \* q.closed; stopChan is closed in the same critical section
    readyChan,   \* contents of the buffered channel
    readyClosed, \* close(readyChan) has been executed
    retryHeap,   \* messages in the heap (its array order is container/heap's)
    retrySignal, \* the one slot of retrySignal is full
    nextAttempt, \* NextAttemptAt - now of each message
    sched,       \* control state of scheduleRetryMessages
    timer,       \* time left on heapCheckTimer
    due,         \* promotion loop: heap messages not after its `now'
    closer,      \* control state of the caller of Close
    call,        \* the queue operation each client is blocked in
    hand,        \* the message each client owns
    ctxDone,     \* clients whose context is done
    fate,        \* history: what became of each message
    quiet        \* history: a push since the last timer reset was not signalled

queueVars == <<mu, closed, readyChan, readyClosed, retryHeap, retrySignal,
               nextAttempt, sched, timer, due, closer, call, hand, ctxDone,
               fate, quiet>>

lockVars == <<mu, closed, readyClosed, closer>>
schedVars == <<sched, timer, due, quiet>>

Fates == {"new", "offered", "accepted", "refused", "panicked", "lost", "settled"}

QueueTypeOK ==
    /\ mu \in Clients \cup {"free", "scheduler"}
    /\ closed \in BOOLEAN
    /\ readyChan \in Seq(Msgs)
    /\ Len(readyChan) <= BufferSize
    /\ readyClosed \in BOOLEAN
    /\ retryHeap \in SUBSET Msgs
    /\ retrySignal \in BOOLEAN
    /\ nextAttempt \in [Msgs -> Nat]
    /\ sched \in {"delay", "select", "promote", "promoting", "done"}
    /\ timer \in Nat
    /\ due \in SUBSET Msgs
    /\ closer \in {"idle", "wait", "done"}
    /\ call \in [Clients -> {"idle", "enqueue", "requeue"}]
    /\ hand \in [Clients -> Msgs \cup {NoMsg}]
    /\ ctxDone \in SUBSET Clients
    /\ fate \in [Msgs -> Fates]
    /\ quiet \in BOOLEAN

(* NewQueue: everything empty, the scheduler about to compute its first delay. *)
QueueInit ==
    /\ mu = "free" /\ closed = FALSE
    /\ readyChan = <<>> /\ readyClosed = FALSE
    /\ retryHeap = {} /\ retrySignal = FALSE
    /\ nextAttempt = [m \in Msgs |-> 0]
    /\ sched = "delay" /\ timer = Hour /\ due = {}
    /\ closer = "idle"
    /\ call = [c \in Clients |-> "idle"]
    /\ hand = [c \in Clients |-> NoMsg]
    /\ ctxDone = {}
    /\ fate = [m \in Msgs |-> "new"]
    /\ quiet = FALSE

----------------------------------------------------------------------------
(* Enqueue, up to the unlock: refused when closed; a NextAttemptAt that the *)
(* caller did not set becomes now, which is 0 here.                         *)
EnqueueCheck(c, m, d) ==
    /\ call[c] = "idle" /\ hand[c] = NoMsg
    /\ fate[m] = "new"
    /\ mu = "free"
    /\ IF closed
       THEN /\ fate' = [fate EXCEPT ![m] = "refused"]
            /\ UNCHANGED <<call, hand, nextAttempt>>
       ELSE /\ fate' = [fate EXCEPT ![m] = "offered"]
            /\ nextAttempt' = [nextAttempt EXCEPT ![m] = d]
            /\ call' = [call EXCEPT ![c] = "enqueue"]
            /\ hand' = [hand EXCEPT ![c] = m]
    /\ UNCHANGED <<lockVars, schedVars, readyChan, retryHeap, retrySignal, ctxDone>>

(* The end of an Enqueue call: the caller no longer owns the message. *)
EnqueueReturn(c, result) ==
    /\ fate' = [fate EXCEPT ![hand[c]] = result]
    /\ call' = [call EXCEPT ![c] = "idle"]
    /\ hand' = [hand EXCEPT ![c] = NoMsg]
    /\ UNCHANGED <<lockVars, schedVars, retryHeap, retrySignal, nextAttempt, ctxDone>>

(* The select of Enqueue runs without mu.  A send on a closed channel panics *)
(* when select picks it.                                                     *)
EnqueueSend(c) ==
    /\ call[c] = "enqueue"
    /\ ~readyClosed
    /\ Len(readyChan) < BufferSize
    /\ readyChan' = Append(readyChan, hand[c])
    /\ EnqueueReturn(c, "accepted")

EnqueuePanic(c) ==
    /\ call[c] = "enqueue"
    /\ readyClosed
    /\ UNCHANGED readyChan
    /\ EnqueueReturn(c, "panicked")

EnqueueGiveUp(c) ==
    /\ call[c] = "enqueue"
    /\ closed \/ c \in ctxDone
    /\ UNCHANGED readyChan
    /\ EnqueueReturn(c, "refused")

(* Dequeue, when select picks the channel.  Its other cases, and a receive   *)
(* from the drained closed channel, return an error and change nothing here. *)
Dequeue(c) ==
    /\ call[c] = "idle" /\ hand[c] = NoMsg
    /\ readyChan /= <<>>
    /\ hand' = [hand EXCEPT ![c] = Head(readyChan)]
    /\ readyChan' = Tail(readyChan)
    /\ UNCHANGED <<lockVars, schedVars, retryHeap, retrySignal, nextAttempt,
                   call, ctxDone, fate>>

(* The owner of a message sets its NextAttemptAt before it calls Requeue. *)
Postpone(c, d) ==
    /\ call[c] = "idle" /\ hand[c] /= NoMsg
    /\ nextAttempt' = [nextAttempt EXCEPT ![hand[c]] = d]
    /\ UNCHANGED <<lockVars, schedVars, readyChan, retryHeap, retrySignal,
                   call, hand, ctxDone, fate>>

(* The owner of a message is done with it: delivered, or given up. *)
Settle(c) ==
    /\ call[c] = "idle" /\ hand[c] /= NoMsg
    /\ fate' = [fate EXCEPT ![hand[c]] = "settled"]
    /\ hand' = [hand EXCEPT ![c] = NoMsg]
    /\ UNCHANGED <<lockVars, schedVars, readyChan, retryHeap, retrySignal,
                   nextAttempt, call, ctxDone>>

(* Faulty variants of RequeuePush: the caller goes on using the message;     *)
(* the closed flag is not checked.                                           *)
RequeueStillInHand(c) ==
    /\ call[c] = "idle" /\ hand[c] /= NoMsg
    /\ mu = "free" /\ ~closed
    /\ retryHeap' = retryHeap \cup {hand[c]}
    /\ UNCHANGED <<lockVars, schedVars, readyChan, retrySignal, nextAttempt, call,
                   hand, ctxDone, fate>>

RequeueUnchecked(c) ==
    /\ call[c] = "idle" /\ hand[c] /= NoMsg
    /\ mu = "free"
    /\ hand' = [hand EXCEPT ![c] = NoMsg]
    /\ retryHeap' = retryHeap \cup {hand[c]}
    /\ mu' = c
    /\ call' = [call EXCEPT ![c] = "requeue"]
    /\ UNCHANGED <<closed, readyClosed, closer, schedVars, readyChan, retrySignal,
                   nextAttempt, ctxDone, fate>>

(* Requeue, up to its select, which it enters with mu held.  On a closed     *)
(* queue the error leaves the message to the caller, which only logs it.     *)
RequeuePush(c) ==
    /\ call[c] = "idle" /\ hand[c] /= NoMsg
    /\ mu = "free"
    /\ hand' = [hand EXCEPT ![c] = NoMsg]
    /\ IF closed
       THEN /\ fate' = [fate EXCEPT ![hand[c]] = "lost"]
            /\ UNCHANGED <<mu, call, retryHeap, nextAttempt>>
       ELSE /\ retryHeap' = retryHeap \cup {hand[c]}
            /\ nextAttempt' = [nextAttempt EXCEPT ![hand[c]] =
                                   IF @ = 0 THEN FiveSeconds ELSE @]
            /\ mu' = c
            /\ call' = [call EXCEPT ![c] = "requeue"]
            /\ UNCHANGED fate
    /\ UNCHANGED <<closed, readyClosed, closer, schedVars, readyChan,
                   retrySignal, ctxDone>>

RequeueReturn(c) ==
    /\ mu' = "free"
    /\ call' = [call EXCEPT ![c] = "idle"]
    /\ UNCHANGED <<closed, readyClosed, closer, readyChan, retryHeap,
                   nextAttempt, sched, timer, due, hand, ctxDone, fate>>

(* Faulty variant: no signal is sent. *)
RequeueNoSignal(c) ==
    call[c] = "requeue" /\ UNCHANGED <<retrySignal, quiet>> /\ RequeueReturn(c)

(* The select of Requeue.  Its stopChan case is dead code: stopChan is only  *)
(* closed under mu, together with closed, and closed was FALSE under this    *)
(* hold of mu.                                                               *)
RequeueSignal(c) ==
    /\ call[c] = "requeue"
    /\ ~retrySignal
    /\ retrySignal' = TRUE
    /\ UNCHANGED quiet
    /\ RequeueReturn(c)

RequeueCancelled(c) ==
    /\ call[c] = "requeue"
    /\ c \in ctxDone
    /\ quiet' = TRUE
    /\ UNCHANGED retrySignal
    /\ RequeueReturn(c)

(* The contexts of some clients are cancelled. *)
Cancel(C) ==
    /\ C \cap ctxDone = {}
    /\ ctxDone' = ctxDone \cup C
    /\ UNCHANGED <<lockVars, schedVars, readyChan, retryHeap, retrySignal,
                   nextAttempt, call, hand, fate>>

----------------------------------------------------------------------------
(* m may be retryHeap[0]: no message of the heap is due earlier. *)
HeapTop(m) ==
    /\ m \in retryHeap
    /\ \A n \in retryHeap : nextAttempt[m] <= nextAttempt[n]

(* getNextRetryDelay and the timer reset at the top of the scheduler's loop. *)
SchedDelay ==
    /\ sched = "delay"
    /\ mu = "free"
    /\ \/ retryHeap = {} /\ timer' = Hour
       \/ \E m \in Msgs : HeapTop(m) /\ timer' = nextAttempt[m]
    /\ sched' = "select"
    /\ quiet' = FALSE
    /\ UNCHANGED <<lockVars, readyChan, retryHeap, retrySignal, nextAttempt,
                   due, call, hand, ctxDone, fate>>

SchedGoto(to) ==
    /\ sched = "select"
    /\ sched' = to
    /\ UNCHANGED <<lockVars, readyChan, retryHeap, nextAttempt, timer, due, quiet,
                   call, hand, ctxDone, fate>>

(* Faulty variants: the timer case does not promote; there is no stop case.  *)
SchedTimerOnly == timer = 0 /\ UNCHANGED retrySignal /\ SchedGoto("delay")
SchedNoStop == FALSE

(* The four cases of the scheduler's select. *)
SchedTimer   == timer = 0 /\ UNCHANGED retrySignal /\ SchedGoto("promote")
SchedMetrics == UNCHANGED retrySignal /\ SchedGoto("delay")
SchedSignal  == retrySignal /\ retrySignal' = FALSE /\ SchedGoto("delay")
SchedStop    == closed /\ UNCHANGED retrySignal /\ SchedGoto("done")

(* Faulty variant: the loop does not look at the priorities. *)
PromoteAll ==
    /\ sched = "promote"
    /\ mu = "free"
    /\ mu' = "scheduler"
    /\ sched' = "promoting"
    /\ due' = retryHeap
    /\ UNCHANGED <<closed, readyClosed, closer, readyChan, retryHeap, retrySignal,
                   nextAttempt, timer, quiet, call, hand, ctxDone, fate>>

(* promoteReadyMessages: the lock and the reading of the clock, *)
PromoteBegin ==
    /\ sched = "promote"
    /\ mu = "free"
    /\ mu' = "scheduler"
    /\ sched' = "promoting"
    /\ due' = {m \in retryHeap : nextAttempt[m] = 0}
    /\ UNCHANGED <<closed, readyClosed, closer, readyChan, retryHeap, retrySignal,
                   nextAttempt, timer, quiet, call, hand, ctxDone, fate>>

(* one turn of its loop (Pop and a send that does not block), *)
PromoteSend(m) ==
    /\ sched = "promoting"
    /\ m \in due
    /\ Len(readyChan) < BufferSize
    /\ readyChan' = Append(readyChan, m)
    /\ retryHeap' = retryHeap \ {m}
    /\ due' = due \ {m}
    /\ UNCHANGED <<lockVars, retrySignal, nextAttempt, sched, timer, quiet, call,
                   hand, ctxDone, fate>>

(* and its three ends: nothing due is left; stopChan is closed; the channel *)
(* is full.  In the last two the popped message is pushed back.             *)
PromoteReturn ==
    /\ sched = "promoting"
    /\ mu' = "free"
    /\ sched' = "delay"
    /\ due' = {}
    /\ UNCHANGED <<closed, readyClosed, closer, readyChan, retryHeap, nextAttempt,
                   timer, quiet, call, hand, ctxDone, fate>>

PromoteEnd  == due = {} /\ UNCHANGED retrySignal /\ PromoteReturn
PromoteStop == due /= {} /\ closed /\ UNCHANGED retrySignal /\ PromoteReturn

(* Faulty variant: a popped message that finds the channel full is not       *)
(* pushed back.                                                              *)
PromoteFullDrops ==
    /\ sched = "promoting"
    /\ Len(readyChan) = BufferSize
    /\ \E m \in due : retryHeap' = retryHeap \ {m}
    /\ mu' = "free" /\ sched' = "delay" /\ due' = {} /\ retrySignal' = TRUE
    /\ UNCHANGED <<closed, readyClosed, closer, readyChan, nextAttempt, timer,
                   quiet, call, hand, ctxDone, fate>>

PromoteFull ==
    /\ due /= {} /\ ~closed
    /\ Len(readyChan) = BufferSize
    /\ retrySignal' = TRUE
    /\ PromoteReturn

----------------------------------------------------------------------------
(* Close: mark closed and close stopChan; wait for the scheduler; then close *)
(* the channel and drop the heap.                                            *)
CloseBegin ==
    /\ closer = "idle"
    /\ mu = "free"
    /\ closed' = TRUE
    /\ closer' = "wait"
    /\ UNCHANGED <<mu, readyClosed, schedVars, readyChan, retryHeap, retrySignal,
                   nextAttempt, call, hand, ctxDone, fate>>

CloseFinish ==
    /\ closer = "wait"
    /\ sched = "done"
    /\ mu = "free"
    /\ readyClosed' = TRUE
    /\ retryHeap' = {}
    /\ fate' = [m \in Msgs |-> IF m \in retryHeap THEN "lost" ELSE fate[m]]
    /\ closer' = "done"
    /\ UNCHANGED <<mu, closed, schedVars, readyChan, retrySignal, nextAttempt,
                   call, hand, ctxDone>>

(* One unit of time passes. *)
Less1(d) == IF d = 0 THEN 0 ELSE d - 1

Tick ==
    /\ timer > 0 \/ \E m \in Msgs : nextAttempt[m] > 0
    /\ timer' = Less1(timer)
    /\ nextAttempt' = [m \in Msgs |-> Less1(nextAttempt[m])]
    /\ UNCHANGED <<lockVars, readyChan, retryHeap, retrySignal, sched, due, quiet,
                   call, hand, ctxDone, fate>>

----------------------------------------------------------------------------
Scheduler ==
    \/ SchedDelay
    \/ SchedTimer
    \/ SchedMetrics
    \/ SchedSignal
    \/ SchedStop
    \/ PromoteBegin
    \/ \E m \in Msgs : PromoteSend(m)
    \/ PromoteEnd
    \/ PromoteStop
    \/ PromoteFull

Client(c) ==
    \/ \E m \in Msgs, d \in EnqueueDelays : EnqueueCheck(c, m, d)
    \/ EnqueueSend(c)
    \/ EnqueuePanic(c)
    \/ EnqueueGiveUp(c)
    \/ Dequeue(c)
    \/ \E d \in RetryDelays : Postpone(c, d)
    \/ Settle(c)
    \/ RequeuePush(c)
    \/ RequeueSignal(c)
    \/ RequeueCancelled(c)

QueueNext ==
    \/ Scheduler
    \/ \E c \in Clients : Client(c)
    \/ \E C \in (SUBSET Clients) \ {{}} : Cancel(C)
    \/ CloseBegin
    \/ CloseFinish
    \/ Tick

QueueSpec == QueueInit /\ [][QueueNext]_queueVars

----------------------------------------------------------------------------
InReady(m) == \E i \in DOMAIN readyChan : readyChan[i] = m
Held(m) == \E c \in Clients : hand[c] = m

(* Every message is in at most one place (one slot of readyChan, the heap,  *)
(* one goroutine's hand), so no two goroutines ever work on the same        *)
(* *message.Message and none is delivered twice; and a message that was     *)
(* refused, settled or dropped is in no place at all.                       *)
OneOwner ==
    /\ \A i, j \in DOMAIN readyChan : readyChan[i] = readyChan[j] => i = j
    /\ \A c, d \in Clients : hand[c] = hand[d] /\ hand[c] /= NoMsg => c = d
    /\ \A m \in Msgs :
         /\ InReady(m) => fate[m] = "accepted" /\ m \notin retryHeap /\ ~Held(m)
         /\ m \in retryHeap => fate[m] = "accepted" /\ ~Held(m)
         /\ Held(m) => fate[m] \in {"offered", "accepted"}

(* A message that Enqueue accepted stays in the channel, in the heap or with *)
(* the goroutine that took it until that goroutine settles it: a promotion   *)
(* that meets a full channel or a stop, a Requeue that is cancelled, lose    *)
(* nothing.  Only Close and what follows it may drop a message.              *)
AcceptedIsKept ==
    \A m \in Msgs :
        /\ fate[m] = "accepted" => InReady(m) \/ m \in retryHeap \/ Held(m)
        /\ fate[m] \in {"lost", "panicked"} => closed

(* Who holds mu, and what a goroutine inside an operation holds: mu belongs  *)
(* to the client waiting in Requeue's select or to the promotion loop, and   *)
(* no client waits in that select once the queue is closed.                  *)
LockInv ==
    /\ \A c \in Clients : call[c] = "requeue" <=> mu = c
    /\ sched = "promoting" <=> mu = "scheduler"
    /\ mu \in Clients => ~closed
    /\ due \subseteq retryHeap
    /\ due /= {} => sched = "promoting"
    /\ \A m \in due : nextAttempt[m] = 0
    /\ closed <=> closer /= "idle"
    /\ readyClosed => closer = "done"
    /\ sched = "done" => closed
    /\ closer = "done" => retryHeap = {} /\ sched = "done"

CallInv ==
    \A c \in Clients :
        /\ call[c] = "enqueue" => hand[c] \in Msgs /\ fate[hand[c]] = "offered"
        /\ call[c] = "requeue" => hand[c] = NoMsg
        /\ call[c] = "idle" /\ hand[c] /= NoMsg => fate[hand[c]] = "accepted"

(* The inductive invariant behind OneOwner, AcceptedIsKept and CloseIsFinal. *)
QueueInv == QueueTypeOK /\ CallInv /\ LockInv /\ OneOwner /\ AcceptedIsKept

(* While the scheduler sleeps in its select, its timer goes off no later     *)
(* than any message of the heap becomes due, unless the retry signal is      *)
(* pending, a Requeue is about to raise it, or a cancelled Requeue withheld  *)
(* it.                                                                       *)
NoLostWakeup ==
    sched = "select" /\ ~closed /\ ~retrySignal /\ ~quiet
        => \A m \in retryHeap :
               timer <= nextAttempt[m] \/ \E c \in Clients : call[c] = "requeue"

(* Once Close has returned, the queue stays shut: whatever Requeue and the   *)
(* scheduler were doing meanwhile, nothing is parked in the heap any more,   *)
(* where no scheduler would ever find it, and mu is not left locked.         *)
CloseIsFinal ==
    closer = "done" => retryHeap = {} /\ mu = "free" /\ sched = "done"

(* While the queue is open, a message leaves the retry heap only once its    *)
(* NextAttemptAt has passed: the backoff is respected although the loop of   *)
(* promoteReadyMessages works from a clock reading taken at its start.       *)
NoEarlyPromotion ==
    [][\A m \in retryHeap \ retryHeap' : nextAttempt[m] = 0 \/ closed]_queueVars

(* Where a message stands, seen from outside the queue. *)
Standing(m) ==
    IF fate[m] /= "accepted" THEN fate[m]
    ELSE IF Held(m) THEN "working" ELSE "waiting"

Promise == INSTANCE Custody WITH status <- [m \in Msgs |-> Standing(m)], shut <- closed

(* The queue keeps its promise: whatever channel, heap, lock, scheduler and  *)
(* Close do, each step moves at most one message, along an edge of Custody,  *)
(* except that Close may drop several.                                       *)
KeepsCustody == Promise!Spec

(* Once Close has closed stopChan it returns: no Requeue can be holding mu   *)
(* then or take it for good later, so the scheduler always gets to see the   *)
(* stop and Close always gets the lock back.                                 *)
CloseReturns == closer = "wait" ~> closer = "done"
============================================================================
