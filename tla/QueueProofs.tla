---------------------------- MODULE QueueProofs ----------------------------
(***************************************************************************)
(* Proofs of the safety properties of Queue for every number of messages,   *)
(* callers and channel slots.  The inductive invariant is QueueInv: types,  *)
(* who holds mu (LockInv), what a caller inside an operation holds          *)
(* (CallInv), and the two ownership properties, which need each other.      *)
(* One lemma per part shows that every step preserves it; each has one case *)
(* per action.                                                              *)
(***************************************************************************)
EXTENDS Queue, TLAPS

USE DEF lockVars, schedVars

(* What a send does to the contents of a channel. *)
LEMMA AppendContents ==
    ASSUME NEW S, NEW s \in Seq(S), NEW x \in S
    PROVE  /\ Append(s, x) \in Seq(S)
           /\ Len(Append(s, x)) = Len(s) + 1
           /\ \A m : (\E i \in DOMAIN Append(s, x) : Append(s, x)[i] = m)
                       <=> (\E i \in DOMAIN s : s[i] = m) \/ m = x
           /\ (\A i, j \in DOMAIN s : s[i] = s[j] => i = j)
                 /\ (\A i \in DOMAIN s : s[i] /= x)
                 => \A i, j \in DOMAIN Append(s, x) :
                       Append(s, x)[i] = Append(s, x)[j] => i = j
<1> DEFINE t == Append(s, x)
<1>1. t \in Seq(S) /\ Len(t) = Len(s) + 1 /\ DOMAIN t = 1..(Len(s) + 1)
      /\ DOMAIN s = 1..Len(s) /\ Len(s) \in Nat
  OBVIOUS
<1>2. t[Len(s) + 1] = x /\ \A i \in DOMAIN s : t[i] = s[i]
  OBVIOUS
<1> HIDE DEF t
<1>3. \A m : (\E i \in DOMAIN t : t[i] = m) <=> (\E i \in DOMAIN s : s[i] = m) \/ m = x
  BY <1>1, <1>2
<1>4. ASSUME \A i, j \in DOMAIN s : s[i] = s[j] => i = j,
             \A i \in DOMAIN s : s[i] /= x
      PROVE  \A i, j \in DOMAIN t : t[i] = t[j] => i = j
  BY <1>1, <1>2, <1>4
<1>5. QED
  BY <1>1, <1>3, <1>4, Zenon DEF t

(* What a receive does to the contents of a channel without duplicates. *)
LEMMA TailContents ==
    ASSUME NEW S, NEW s \in Seq(S), s /= <<>>,
           \A i, j \in DOMAIN s : s[i] = s[j] => i = j
    PROVE  /\ Tail(s) \in Seq(S) /\ Len(Tail(s)) = Len(s) - 1
           /\ Head(s) \in S /\ \E i \in DOMAIN s : s[i] = Head(s)
           /\ \A m : (\E i \in DOMAIN Tail(s) : Tail(s)[i] = m)
                       <=> (\E i \in DOMAIN s : s[i] = m) /\ m /= Head(s)
           /\ \A i, j \in DOMAIN Tail(s) : Tail(s)[i] = Tail(s)[j] => i = j
<1> DEFINE t == Tail(s)
<1>1. /\ t \in Seq(S) /\ Len(t) = Len(s) - 1 /\ DOMAIN t = 1..(Len(s) - 1)
      /\ Len(s) \in Nat \ {0} /\ DOMAIN s = 1..Len(s)
      /\ Head(s) = s[1] /\ Head(s) \in S
  OBVIOUS
<1>2. \A i \in DOMAIN t : t[i] = s[i + 1]
  OBVIOUS
<1> HIDE DEF t
<1>3. \A m : (\E i \in DOMAIN t : t[i] = m) <=> (\E i \in DOMAIN s : s[i] = m) /\ m /= s[1]
  <2> TAKE m
  <2>1. ASSUME NEW i \in DOMAIN t, t[i] = m
        PROVE  (\E k \in DOMAIN s : s[k] = m) /\ m /= s[1]
    <3>1. i + 1 \in DOMAIN s /\ 1 \in DOMAIN s /\ i + 1 /= 1
      BY <1>1
    <3>2. QED
      BY <1>2, <2>1, <3>1, Zenon
  <2>2. ASSUME NEW i \in DOMAIN s, s[i] = m, m /= s[1]
        PROVE  \E k \in DOMAIN t : t[k] = m
    <3>1. i - 1 \in DOMAIN t /\ (i - 1) + 1 = i
      BY <1>1, <2>2
    <3>2. t[i - 1] = m
      BY <1>2, <2>2, <3>1, Zenon
    <3>3. QED
      BY <3>1, <3>2, Zenon
  <2>3. QED
    BY <2>1, <2>2, Zenon
<1>4. \A i, j \in DOMAIN t : t[i] = t[j] => i = j
  <2> TAKE i \in DOMAIN t, j \in DOMAIN t
  <2>1. i + 1 \in DOMAIN s /\ j + 1 \in DOMAIN s /\ i \in Int /\ j \in Int
    BY <1>1
  <2>2. t[i] = s[i + 1] /\ t[j] = s[j + 1]
    BY <1>2, Zenon
  <2>3. t[i] = t[j] => i + 1 = j + 1
    BY <2>1, <2>2, Zenon
  <2>4. QED
    BY <2>1, <2>3
<1>5. QED
  BY <1>1, <1>3, <1>4 DEF t

(* What a send does to readyChan, in the terms of Queue. *)
LEMMA SendChanges ==
    ASSUME NEW m \in Msgs, readyChan \in Seq(Msgs), readyChan' = Append(readyChan, m)
    PROVE  \A n : InReady(n)' <=> InReady(n) \/ n = m
  <1>1. \A n : (\E i \in DOMAIN Append(readyChan, m) : Append(readyChan, m)[i] = n)
                  <=> (\E i \in DOMAIN readyChan : readyChan[i] = n) \/ n = m
    BY AppendContents
  <1>2. QED
    BY <1>1, Zenon DEF InReady

(* What a receive does to readyChan, and what it hands over. *)
LEMMA ReceiveChanges ==
    ASSUME readyChan \in Seq(Msgs), readyChan /= <<>>, readyChan' = Tail(readyChan),
           \A i, j \in DOMAIN readyChan : readyChan[i] = readyChan[j] => i = j
    PROVE  /\ \A n : InReady(n)' <=> InReady(n) /\ n /= Head(readyChan)
           /\ InReady(Head(readyChan)) /\ Head(readyChan) \in Msgs
  <1>1. /\ \A n : (\E i \in DOMAIN Tail(readyChan) : Tail(readyChan)[i] = n)
                    <=> (\E i \in DOMAIN readyChan : readyChan[i] = n)
                        /\ n /= Head(readyChan)
        /\ \E i \in DOMAIN readyChan : readyChan[i] = Head(readyChan)
        /\ Head(readyChan) \in Msgs
    BY TailContents, Zenon
  <1>2. QED
    BY <1>1, Zenon DEF InReady

(* Types. *)
LEMMA TypeStep == QueueInv /\ [QueueNext]_queueVars => QueueTypeOK'
<1> SUFFICES ASSUME QueueInv, [QueueNext]_queueVars PROVE QueueTypeOK'
  BY Zenon
<1> USE DEF QueueInv, QueueTypeOK
<1>1. ASSUME NEW c \in Clients, NEW m \in Msgs, NEW d \in EnqueueDelays,
             EnqueueCheck(c, m, d)
      PROVE  QueueTypeOK'
  <2>1. CASE closed
    <3>1. fate' \in [Msgs -> Fates]
      BY <1>1, <2>1, Zenon DEF EnqueueCheck, Fates
    <3>2. QED
      BY <1>1, <2>1, <3>1, Zenon DEF EnqueueCheck
  <2>2. CASE ~closed
    <3>1. fate' \in [Msgs -> Fates]
      BY <1>1, <2>2, Zenon DEF EnqueueCheck, Fates
    <3>2. hand' \in [Clients -> Msgs \cup {NoMsg}]
      BY <1>1, <2>2 DEF EnqueueCheck
    <3>3. call' \in [Clients -> {"idle", "enqueue", "requeue"}]
      BY <1>1, <2>2, Zenon DEF EnqueueCheck
    <3>4. nextAttempt' \in [Msgs -> Nat]
      BY <1>1, <2>2, QueueConstants DEF EnqueueCheck
    <3>5. QED
      BY <1>1, <3>1, <3>2, <3>3, <3>4, Zenon DEF EnqueueCheck
  <2>3. QED
    BY <2>1, <2>2, Zenon
<1>2. ASSUME NEW c \in Clients, EnqueueSend(c) PROVE QueueTypeOK'
  <2>1. hand[c] \in Msgs
    BY <1>2, Zenon DEF EnqueueSend, CallInv
  <2>2. readyChan' \in Seq(Msgs) /\ Len(readyChan') <= BufferSize
    BY <1>2, <2>1, AppendContents, QueueConstants DEF EnqueueSend
  <2>3. fate' \in [Msgs -> Fates]
    BY <1>2, Zenon DEF EnqueueSend, EnqueueReturn, Fates
  <2>4. QED
    BY <1>2, <2>1, <2>2, <2>3, Zenon DEF EnqueueSend, EnqueueReturn
<1>3. ASSUME NEW c \in Clients, EnqueuePanic(c) \/ EnqueueGiveUp(c)
      PROVE  QueueTypeOK'
  <2>1. fate' \in [Msgs -> Fates] /\ hand' \in [Clients -> Msgs \cup {NoMsg}]
    BY <1>3, Zenon DEF EnqueuePanic, EnqueueGiveUp, EnqueueReturn, Fates
  <2>2. call' \in [Clients -> {"idle", "enqueue", "requeue"}]
    BY <1>3, Zenon DEF EnqueuePanic, EnqueueGiveUp, EnqueueReturn
  <2>3. nextAttempt' \in [Msgs -> Nat]
    BY <1>3, QueueConstants, Zenon DEF EnqueuePanic, EnqueueGiveUp, EnqueueReturn
  <2>4. QED
    BY <1>3, <2>1, <2>2, <2>3 DEF EnqueuePanic, EnqueueGiveUp, EnqueueReturn
<1>4. ASSUME NEW c \in Clients, Dequeue(c) PROVE QueueTypeOK'
  <2>1. readyChan' \in Seq(Msgs) /\ Len(readyChan') <= BufferSize /\ Head(readyChan) \in Msgs
    BY <1>4, TailContents, QueueConstants DEF Dequeue, OneOwner
  <2>2. QED
    BY <1>4, <2>1 DEF Dequeue
<1>5. ASSUME NEW c \in Clients, NEW d \in RetryDelays, Postpone(c, d)
      PROVE  QueueTypeOK'
  <2>1. d \in Nat
    BY QueueConstants, Zenon
  <2>2. QED
    BY <1>5, <2>1 DEF Postpone
<1>6. ASSUME NEW c \in Clients, Settle(c) PROVE QueueTypeOK'
  BY <1>6 DEF Settle, Fates
<1>7. ASSUME NEW c \in Clients, RequeuePush(c) PROVE QueueTypeOK'
  <2>1. fate' \in [Msgs -> Fates] /\ hand' \in [Clients -> Msgs \cup {NoMsg}]
    BY <1>7, Zenon DEF RequeuePush, Fates
  <2>2. call' \in [Clients -> {"idle", "enqueue", "requeue"}]
    BY <1>7, Zenon DEF RequeuePush
  <2>3. nextAttempt' \in [Msgs -> Nat]
    <3>1. FiveSeconds \in Nat
      BY QueueConstants, Zenon
    <3>2. CASE closed
      BY <1>7, <3>2, Zenon DEF RequeuePush
    <3>3. CASE ~closed
      BY <1>7, <3>1, <3>3, Zenon DEF RequeuePush
    <3>4. QED
      BY <3>2, <3>3, Zenon
  <2>4. mu' \in Clients \cup {"free", "scheduler"} /\ retryHeap' \in SUBSET Msgs
    BY <1>7 DEF RequeuePush
  <2>5. QED
    BY <1>7, <2>1, <2>2, <2>3, <2>4, Zenon DEF RequeuePush
<1>8. ASSUME NEW c \in Clients, RequeueSignal(c) \/ RequeueCancelled(c)
      PROVE  QueueTypeOK'
  BY <1>8, Zenon DEF RequeueSignal, RequeueCancelled, RequeueReturn
<1>9. ASSUME NEW C \in SUBSET Clients, Cancel(C) PROVE QueueTypeOK'
  BY <1>9 DEF Cancel
<1>10. CASE SchedDelay
  BY <1>10, QueueConstants, Zenon DEF SchedDelay, HeapTop
<1>11. CASE SchedTimer \/ SchedMetrics \/ SchedSignal \/ SchedStop
  BY <1>11, Zenon DEF SchedTimer, SchedMetrics, SchedSignal, SchedStop, SchedGoto
<1>12. CASE PromoteBegin
  BY <1>12, Zenon DEF PromoteBegin
<1>13. ASSUME NEW m \in Msgs, PromoteSend(m) PROVE QueueTypeOK'
  <2>1. readyChan' \in Seq(Msgs) /\ Len(readyChan') <= BufferSize
    BY <1>13, AppendContents, QueueConstants DEF PromoteSend
  <2>2. QED
    BY <1>13, <2>1, Zenon DEF PromoteSend
<1>14. CASE PromoteEnd \/ PromoteStop \/ PromoteFull
  BY <1>14, Zenon DEF PromoteEnd, PromoteStop, PromoteFull, PromoteReturn
<1>15. CASE CloseBegin
  BY <1>15, Zenon DEF CloseBegin
<1>16. CASE CloseFinish
  BY <1>16, Zenon DEF CloseFinish, Fates
<1>17. CASE Tick
  BY <1>17 DEF Tick, Less1
<1>18. CASE UNCHANGED queueVars
  BY <1>18 DEF queueVars
<1>19. QED
  BY <1>1, <1>2, <1>3, <1>4, <1>5, <1>6, <1>7, <1>8, <1>9, <1>10, <1>11,
     <1>12, <1>13, <1>14, <1>15, <1>16, <1>17, <1>18, Zenon
     DEF QueueNext, Client, Scheduler

(* What a caller inside an operation holds. *)
LEMMA CallStep == QueueInv /\ [QueueNext]_queueVars => CallInv'
<1> SUFFICES ASSUME QueueInv, [QueueNext]_queueVars PROVE CallInv'
  BY Zenon
<1> USE QueueConstants DEF QueueInv, QueueTypeOK, CallInv, OneOwner, InReady, Held
<1>1. ASSUME NEW c \in Clients, NEW m \in Msgs, NEW d \in EnqueueDelays,
             EnqueueCheck(c, m, d)
      PROVE  CallInv'
  BY <1>1 DEF EnqueueCheck
<1>2. ASSUME NEW c \in Clients, EnqueueSend(c) PROVE CallInv'
  BY <1>2 DEF EnqueueSend, EnqueueReturn
<1>3. ASSUME NEW c \in Clients, EnqueuePanic(c) \/ EnqueueGiveUp(c)
      PROVE  CallInv'
  BY <1>3 DEF EnqueuePanic, EnqueueGiveUp, EnqueueReturn
<1>4. ASSUME NEW c \in Clients, Dequeue(c) PROVE CallInv'
  BY <1>4 DEF Dequeue
<1>5. ASSUME NEW c \in Clients, NEW d \in RetryDelays, Postpone(c, d)
      PROVE  CallInv'
  BY <1>5, Zenon DEF Postpone
<1>6. ASSUME NEW c \in Clients, Settle(c) PROVE CallInv'
  BY <1>6 DEF Settle
<1>7. ASSUME NEW c \in Clients, RequeuePush(c) PROVE CallInv'
  BY <1>7 DEF RequeuePush
<1>8. ASSUME NEW c \in Clients, RequeueSignal(c) \/ RequeueCancelled(c)
      PROVE  CallInv'
  BY <1>8 DEF RequeueSignal, RequeueCancelled, RequeueReturn
<1>9. ASSUME NEW C \in SUBSET Clients, Cancel(C) PROVE CallInv'
  BY <1>9, Zenon DEF Cancel
<1>10. CASE SchedDelay
  BY <1>10, Zenon DEF SchedDelay, HeapTop
<1>11. CASE SchedTimer \/ SchedMetrics \/ SchedSignal \/ SchedStop
  BY <1>11 DEF SchedTimer, SchedMetrics, SchedSignal, SchedStop, SchedGoto
<1>12. CASE PromoteBegin
  BY <1>12, Zenon DEF PromoteBegin
<1>13. ASSUME NEW m \in Msgs, PromoteSend(m) PROVE CallInv'
  BY <1>13, Zenon DEF PromoteSend
<1>14. CASE PromoteEnd \/ PromoteStop \/ PromoteFull
  BY <1>14 DEF PromoteEnd, PromoteStop, PromoteFull, PromoteReturn
<1>15. CASE CloseBegin
  BY <1>15, Zenon DEF CloseBegin
<1>16. CASE CloseFinish
  BY <1>16, Zenon DEF CloseFinish
<1>17. CASE Tick
  BY <1>17, Zenon DEF Tick, Less1
<1>18. CASE UNCHANGED queueVars
  BY <1>18, Zenon DEF queueVars
<1>19. QED
  BY <1>1, <1>2, <1>3, <1>4, <1>5, <1>6, <1>7, <1>8, <1>9, <1>10, <1>11,
     <1>12, <1>13, <1>14, <1>15, <1>16, <1>17, <1>18, Zenon
     DEF QueueNext, Client, Scheduler

(* Who holds mu, and how far Close has come. *)
LEMMA LockStep == QueueInv /\ [QueueNext]_queueVars => LockInv'
<1> SUFFICES ASSUME QueueInv, [QueueNext]_queueVars PROVE LockInv'
  BY Zenon
<1> USE QueueConstants DEF QueueInv, QueueTypeOK, CallInv, LockInv, OneOwner, InReady, Held
<1>1. ASSUME NEW c \in Clients, NEW m \in Msgs, NEW d \in EnqueueDelays,
             EnqueueCheck(c, m, d)
      PROVE  LockInv'
  BY <1>1 DEF EnqueueCheck
<1>2. ASSUME NEW c \in Clients, EnqueueSend(c) PROVE LockInv'
  BY <1>2 DEF EnqueueSend, EnqueueReturn
<1>3. ASSUME NEW c \in Clients, EnqueuePanic(c) \/ EnqueueGiveUp(c)
      PROVE  LockInv'
  BY <1>3 DEF EnqueuePanic, EnqueueGiveUp, EnqueueReturn
<1>4. ASSUME NEW c \in Clients, Dequeue(c) PROVE LockInv'
  BY <1>4, Zenon DEF Dequeue
<1>5. ASSUME NEW c \in Clients, NEW d \in RetryDelays, Postpone(c, d)
      PROVE  LockInv'
  BY <1>5 DEF Postpone
<1>6. ASSUME NEW c \in Clients, Settle(c) PROVE LockInv'
  BY <1>6, Zenon DEF Settle
<1>7. ASSUME NEW c \in Clients, RequeuePush(c) PROVE LockInv'
  BY <1>7 DEF RequeuePush
<1>8. ASSUME NEW c \in Clients, RequeueSignal(c) \/ RequeueCancelled(c)
      PROVE  LockInv'
  BY <1>8 DEF RequeueSignal, RequeueCancelled, RequeueReturn
<1>9. ASSUME NEW C \in SUBSET Clients, Cancel(C) PROVE LockInv'
  BY <1>9, Zenon DEF Cancel
<1>10. CASE SchedDelay
  BY <1>10, Zenon DEF SchedDelay, HeapTop
<1>11. CASE SchedTimer \/ SchedMetrics \/ SchedSignal \/ SchedStop
  BY <1>11 DEF SchedTimer, SchedMetrics, SchedSignal, SchedStop, SchedGoto
<1>12. CASE PromoteBegin
  BY <1>12, Zenon DEF PromoteBegin
<1>13. ASSUME NEW m \in Msgs, PromoteSend(m) PROVE LockInv'
  BY <1>13, Zenon DEF PromoteSend
<1>14. CASE PromoteEnd \/ PromoteStop \/ PromoteFull
  BY <1>14 DEF PromoteEnd, PromoteStop, PromoteFull, PromoteReturn
<1>15. CASE CloseBegin
  BY <1>15, Zenon DEF CloseBegin
<1>16. CASE CloseFinish
  BY <1>16, Zenon DEF CloseFinish
<1>17. CASE Tick
  BY <1>17, Zenon DEF Tick, Less1
<1>18. CASE UNCHANGED queueVars
  BY <1>18, Zenon DEF queueVars
<1>19. QED
  BY <1>1, <1>2, <1>3, <1>4, <1>5, <1>6, <1>7, <1>8, <1>9, <1>10, <1>11,
     <1>12, <1>13, <1>14, <1>15, <1>16, <1>17, <1>18, Zenon
     DEF QueueNext, Client, Scheduler

(* Every message has at most one owner. *)
LEMMA OwnerStep == QueueInv /\ [QueueNext]_queueVars => OneOwner'
<1> SUFFICES ASSUME QueueInv, [QueueNext]_queueVars PROVE OneOwner'
  BY Zenon
<1> USE QueueConstants DEF QueueInv, QueueTypeOK, CallInv, LockInv, OneOwner
<1>1. ASSUME NEW c \in Clients, NEW m \in Msgs, NEW d \in EnqueueDelays,
             EnqueueCheck(c, m, d)
      PROVE  OneOwner'
  <2>1. ~Held(m) /\ ~InReady(m) /\ m \notin retryHeap
    BY <1>1, Zenon DEF EnqueueCheck
  <2>2. CASE closed
    <3>1. UNCHANGED <<hand, readyChan, retryHeap>> /\ fate' = [fate EXCEPT ![m] = "refused"]
      BY <1>1, <2>2, Zenon DEF EnqueueCheck
    <3>2. QED
      BY <2>1, <3>1 DEF InReady, Held
  <2>3. CASE ~closed
    <3>1. /\ UNCHANGED <<readyChan, retryHeap>>
          /\ hand' = [hand EXCEPT ![c] = m] /\ fate' = [fate EXCEPT ![m] = "offered"]
      BY <1>1, <2>3, Zenon DEF EnqueueCheck
    <3>2. \A n \in Msgs : Held(n)' <=> Held(n) \/ n = m
      BY <1>1, <2>1, <3>1 DEF Held, EnqueueCheck
    <3>3. \A n \in Msgs : InReady(n)' <=> InReady(n)
      BY <3>1, Zenon DEF InReady
    <3>4. \A b, e \in Clients : hand'[b] = hand'[e] /\ hand'[b] /= NoMsg => b = e
      BY <2>1, <3>1 DEF Held
    <3>5. QED
      BY <2>1, <3>1, <3>2, <3>3, <3>4
  <2>4. QED
    BY <2>2, <2>3, Zenon
<1>2. ASSUME NEW c \in Clients, EnqueueSend(c) PROVE OneOwner'
  <2>1. \A n : InReady(n)' <=> InReady(n) \/ n = hand[c]
    BY <1>2, SendChanges, Zenon DEF EnqueueSend, EnqueueReturn
  <2>2. \A i, j \in DOMAIN readyChan' : readyChan'[i] = readyChan'[j] => i = j
    BY <1>2, AppendContents, SMTT(20) DEF EnqueueSend, EnqueueReturn, InReady
  <2>3. QED
    BY <1>2, <2>1, <2>2 DEF EnqueueSend, EnqueueReturn, Held
<1>3. ASSUME NEW c \in Clients, EnqueuePanic(c) \/ EnqueueGiveUp(c)
      PROVE  OneOwner'
  <2>1. hand[c] \in Msgs /\ fate[hand[c]] = "offered" /\ ~InReady(hand[c])
        /\ hand[c] \notin retryHeap /\ \A e \in Clients : hand[e] = hand[c] => e = c
    BY <1>3 DEF EnqueuePanic, EnqueueGiveUp, EnqueueReturn, Held
  <2>2. CASE EnqueuePanic(c)
    BY <2>1, <2>2 DEF EnqueuePanic, EnqueueReturn, InReady, Held
  <2>3. CASE EnqueueGiveUp(c)
    BY <2>1, <2>3 DEF EnqueueGiveUp, EnqueueReturn, InReady, Held
  <2>4. QED
    BY <1>3, <2>2, <2>3, Zenon
<1>4. ASSUME NEW c \in Clients, Dequeue(c) PROVE OneOwner'
  <2>1. \A n : InReady(n)' <=> InReady(n) /\ n /= Head(readyChan)
    BY <1>4, ReceiveChanges, Zenon DEF Dequeue
  <2>2. \A i, j \in DOMAIN readyChan' : readyChan'[i] = readyChan'[j] => i = j
    BY <1>4, TailContents, SMTT(20) DEF Dequeue
  <2>3. InReady(Head(readyChan)) /\ Head(readyChan) \in Msgs
    BY <1>4, ReceiveChanges, Zenon DEF Dequeue
  <2>4. QED
    BY <1>4, <2>1, <2>2, <2>3 DEF Dequeue, Held
<1>5. ASSUME NEW c \in Clients, NEW d \in RetryDelays, Postpone(c, d)
      PROVE  OneOwner'
  BY <1>5 DEF Postpone, InReady, Held
<1>6. ASSUME NEW c \in Clients, Settle(c) PROVE OneOwner'
  BY <1>6 DEF Settle, InReady, Held
<1>7. ASSUME NEW c \in Clients, RequeuePush(c) PROVE OneOwner'
  BY <1>7 DEF RequeuePush, InReady, Held
<1>8. ASSUME NEW c \in Clients, RequeueSignal(c) \/ RequeueCancelled(c)
      PROVE  OneOwner'
  BY <1>8 DEF RequeueSignal, RequeueCancelled, RequeueReturn, InReady, Held
<1>9. ASSUME NEW C \in SUBSET Clients, Cancel(C) PROVE OneOwner'
  BY <1>9, Zenon DEF Cancel, InReady, Held
<1>10. CASE SchedDelay
  BY <1>10, Zenon DEF SchedDelay, HeapTop, InReady, Held
<1>11. CASE SchedTimer \/ SchedMetrics \/ SchedSignal \/ SchedStop
  BY <1>11 DEF SchedTimer, SchedMetrics, SchedSignal, SchedStop, SchedGoto, InReady, Held
<1>12. CASE PromoteBegin
  BY <1>12 DEF PromoteBegin, InReady, Held
<1>13. ASSUME NEW m \in Msgs, PromoteSend(m) PROVE OneOwner'
  <2>1. \A n : InReady(n)' <=> InReady(n) \/ n = m
    BY <1>13, SendChanges, Zenon DEF PromoteSend
  <2>2. \A i, j \in DOMAIN readyChan' : readyChan'[i] = readyChan'[j] => i = j
    BY <1>13, AppendContents DEF PromoteSend, InReady
  <2>3. QED
    BY <1>13, <2>1, <2>2 DEF PromoteSend, Held
<1>14. CASE PromoteEnd \/ PromoteStop \/ PromoteFull
  BY <1>14 DEF PromoteEnd, PromoteStop, PromoteFull, PromoteReturn, InReady, Held
<1>15. CASE CloseBegin
  BY <1>15, Zenon DEF CloseBegin, InReady, Held
<1>16. CASE CloseFinish
  BY <1>16, Zenon DEF CloseFinish, InReady, Held
<1>17. CASE Tick
  BY <1>17, Zenon DEF Tick, Less1, InReady, Held
<1>18. CASE UNCHANGED queueVars
  BY <1>18, Zenon DEF queueVars, InReady, Held
<1>19. QED
  BY <1>1, <1>2, <1>3, <1>4, <1>5, <1>6, <1>7, <1>8, <1>9, <1>10, <1>11,
     <1>12, <1>13, <1>14, <1>15, <1>16, <1>17, <1>18, Zenon
     DEF QueueNext, Client, Scheduler

(* An accepted message keeps an owner. *)
LEMMA KeptStep == QueueInv /\ [QueueNext]_queueVars => AcceptedIsKept'
<1> SUFFICES ASSUME QueueInv, [QueueNext]_queueVars PROVE AcceptedIsKept'
  BY Zenon
<1> USE QueueConstants DEF QueueInv, QueueTypeOK, CallInv, LockInv, OneOwner, AcceptedIsKept
<1>1. ASSUME NEW c \in Clients, NEW m \in Msgs, NEW d \in EnqueueDelays,
             EnqueueCheck(c, m, d)
      PROVE  AcceptedIsKept'
  <2>1. \A n \in Msgs : fate'[n] \in {"accepted", "lost", "panicked"} => fate'[n] = fate[n]
    BY <1>1 DEF EnqueueCheck
  <2>2. \A n \in Msgs : InReady(n)' <=> InReady(n)
    BY <1>1, Zenon DEF EnqueueCheck, InReady
  <2>3. \A n \in Msgs : Held(n) => Held(n)'
    BY <1>1 DEF EnqueueCheck, Held
  <2>4. closed' = closed /\ retryHeap' = retryHeap
    BY <1>1, Zenon DEF EnqueueCheck
  <2>5. QED
    BY <2>1, <2>2, <2>3, <2>4, Zenon
<1>2. ASSUME NEW c \in Clients, EnqueueSend(c) PROVE AcceptedIsKept'
  <2>1. \A n : InReady(n)' <=> InReady(n) \/ n = hand[c]
    BY <1>2, SendChanges, Zenon DEF EnqueueSend, EnqueueReturn
  <2>2. QED
    BY <1>2, <2>1 DEF EnqueueSend, EnqueueReturn, Held
<1>3. ASSUME NEW c \in Clients, EnqueuePanic(c) \/ EnqueueGiveUp(c)
      PROVE  AcceptedIsKept'
  <2>1. hand[c] \in Msgs /\ fate[hand[c]] = "offered" /\ ~InReady(hand[c])
        /\ hand[c] \notin retryHeap /\ \A e \in Clients : hand[e] = hand[c] => e = c
    BY <1>3 DEF EnqueuePanic, EnqueueGiveUp, EnqueueReturn, Held
  <2>2. CASE EnqueuePanic(c)
    BY <2>1, <2>2 DEF EnqueuePanic, EnqueueReturn, InReady, Held
  <2>3. CASE EnqueueGiveUp(c)
    BY <2>1, <2>3, SMTT(20) DEF EnqueueGiveUp, EnqueueReturn, InReady, Held
  <2>4. QED
    BY <1>3, <2>2, <2>3, Zenon
<1>4. ASSUME NEW c \in Clients, Dequeue(c) PROVE AcceptedIsKept'
  <2>1. \A n : InReady(n)' <=> InReady(n) /\ n /= Head(readyChan)
    BY <1>4, ReceiveChanges, Zenon DEF Dequeue
  <2>2. InReady(Head(readyChan)) /\ Head(readyChan) \in Msgs
    BY <1>4, ReceiveChanges, Zenon DEF Dequeue
  <2>3. QED
    BY <1>4, <2>1, <2>2 DEF Dequeue, Held
<1>5. ASSUME NEW c \in Clients, NEW d \in RetryDelays, Postpone(c, d)
      PROVE  AcceptedIsKept'
  BY <1>5 DEF Postpone, InReady, Held
<1>6. ASSUME NEW c \in Clients, Settle(c) PROVE AcceptedIsKept'
  BY <1>6 DEF Settle, InReady, Held
<1>7. ASSUME NEW c \in Clients, RequeuePush(c) PROVE AcceptedIsKept'
  BY <1>7 DEF RequeuePush, InReady, Held
<1>8. ASSUME NEW c \in Clients, RequeueSignal(c) \/ RequeueCancelled(c)
      PROVE  AcceptedIsKept'
  BY <1>8 DEF RequeueSignal, RequeueCancelled, RequeueReturn, InReady, Held
<1>9. ASSUME NEW C \in SUBSET Clients, Cancel(C) PROVE AcceptedIsKept'
  BY <1>9, Zenon DEF Cancel, InReady, Held
<1>10. CASE SchedDelay
  BY <1>10 DEF SchedDelay, HeapTop, InReady, Held
<1>11. CASE SchedTimer \/ SchedMetrics \/ SchedSignal \/ SchedStop
  BY <1>11 DEF SchedTimer, SchedMetrics, SchedSignal, SchedStop, SchedGoto, InReady, Held
<1>12. CASE PromoteBegin
  BY <1>12 DEF PromoteBegin, InReady, Held
<1>13. ASSUME NEW m \in Msgs, PromoteSend(m) PROVE AcceptedIsKept'
  <2>1. \A n : InReady(n)' <=> InReady(n) \/ n = m
    BY <1>13, SendChanges, Zenon DEF PromoteSend
  <2>2. QED
    BY <1>13, <2>1, Zenon DEF PromoteSend, Held
<1>14. CASE PromoteEnd \/ PromoteStop \/ PromoteFull
  BY <1>14 DEF PromoteEnd, PromoteStop, PromoteFull, PromoteReturn, InReady, Held
<1>15. CASE CloseBegin
  <2>1. UNCHANGED <<fate, retryHeap, readyChan, hand>> /\ closed'
    BY <1>15, Zenon DEF CloseBegin
  <2>2. \A n \in Msgs : (InReady(n)' <=> InReady(n)) /\ (Held(n)' <=> Held(n))
    BY <2>1, Zenon DEF InReady, Held
  <2>3. QED
    BY <2>1, <2>2, Zenon
<1>16. CASE CloseFinish
  BY <1>16 DEF CloseFinish, InReady, Held
<1>17. CASE Tick
  BY <1>17, Zenon DEF Tick, Less1, InReady, Held
<1>18. CASE UNCHANGED queueVars
  BY <1>18, Zenon DEF queueVars, InReady, Held
<1>19. QED
  BY <1>1, <1>2, <1>3, <1>4, <1>5, <1>6, <1>7, <1>8, <1>9, <1>10, <1>11,
     <1>12, <1>13, <1>14, <1>15, <1>16, <1>17, <1>18, Zenon
     DEF QueueNext, Client, Scheduler

(* No step makes the scheduler oversleep. *)
LEMMA WakeupStep == QueueInv /\ NoLostWakeup /\ [QueueNext]_queueVars => NoLostWakeup'
<1> SUFFICES ASSUME QueueInv /\ NoLostWakeup, [QueueNext]_queueVars PROVE NoLostWakeup'
  BY Zenon
<1> USE QueueConstants DEF QueueInv, QueueTypeOK, CallInv, LockInv, OneOwner, NoLostWakeup, Held
<1>1. ASSUME NEW c \in Clients, NEW m \in Msgs, NEW d \in EnqueueDelays,
             EnqueueCheck(c, m, d)
      PROVE  NoLostWakeup'
  <2>1. UNCHANGED <<sched, closed, retrySignal, quiet, retryHeap, timer>>
    BY <1>1, Zenon DEF EnqueueCheck
  <2>2. \A n \in retryHeap : nextAttempt'[n] = nextAttempt[n]
    BY <1>1 DEF EnqueueCheck
  <2>3. \A e \in Clients : call[e] = "requeue" => call'[e] = "requeue"
    BY <1>1 DEF EnqueueCheck
  <2>4. QED
    BY <2>1, <2>2, <2>3, Zenon
<1>2. ASSUME NEW c \in Clients, EnqueueSend(c) PROVE NoLostWakeup'
  BY <1>2 DEF EnqueueSend, EnqueueReturn
<1>3. ASSUME NEW c \in Clients, EnqueuePanic(c) \/ EnqueueGiveUp(c)
      PROVE  NoLostWakeup'
  BY <1>3 DEF EnqueuePanic, EnqueueGiveUp, EnqueueReturn
<1>4. ASSUME NEW c \in Clients, Dequeue(c) PROVE NoLostWakeup'
  BY <1>4, Zenon DEF Dequeue
<1>5. ASSUME NEW c \in Clients, NEW d \in RetryDelays, Postpone(c, d)
      PROVE  NoLostWakeup'
  BY <1>5, Zenon DEF Postpone
<1>6. ASSUME NEW c \in Clients, Settle(c) PROVE NoLostWakeup'
  BY <1>6, Zenon DEF Settle
<1>7. ASSUME NEW c \in Clients, RequeuePush(c) PROVE NoLostWakeup'
  BY <1>7 DEF RequeuePush
<1>8. ASSUME NEW c \in Clients, RequeueSignal(c) \/ RequeueCancelled(c)
      PROVE  NoLostWakeup'
  BY <1>8, Zenon DEF RequeueSignal, RequeueCancelled, RequeueReturn
<1>9. ASSUME NEW C \in SUBSET Clients, Cancel(C) PROVE NoLostWakeup'
  BY <1>9, Zenon DEF Cancel
<1>10. CASE SchedDelay
  BY <1>10 DEF SchedDelay, HeapTop
<1>11. CASE SchedTimer \/ SchedMetrics \/ SchedSignal \/ SchedStop
  BY <1>11, Zenon DEF SchedTimer, SchedMetrics, SchedSignal, SchedStop, SchedGoto
<1>12. CASE PromoteBegin
  BY <1>12, Zenon DEF PromoteBegin
<1>13. ASSUME NEW m \in Msgs, PromoteSend(m) PROVE NoLostWakeup'
  BY <1>13, Zenon DEF PromoteSend
<1>14. CASE PromoteEnd \/ PromoteStop \/ PromoteFull
  BY <1>14, Zenon DEF PromoteEnd, PromoteStop, PromoteFull, PromoteReturn
<1>15. CASE CloseBegin
  BY <1>15, Zenon DEF CloseBegin
<1>16. CASE CloseFinish
  BY <1>16, Zenon DEF CloseFinish
<1>17. CASE Tick
  BY <1>17 DEF Tick, Less1
<1>18. CASE UNCHANGED queueVars
  BY <1>18, Zenon DEF queueVars
<1>19. QED
  BY <1>1, <1>2, <1>3, <1>4, <1>5, <1>6, <1>7, <1>8, <1>9, <1>10, <1>11,
     <1>12, <1>13, <1>14, <1>15, <1>16, <1>17, <1>18, Zenon
     DEF QueueNext, Client, Scheduler

(* Every step of the queue and its callers preserves the inductive invariant. *)
LEMMA QueueStep == QueueInv /\ [QueueNext]_queueVars => QueueInv'
  BY TypeStep, CallStep, LockStep, OwnerStep, KeptStep, Zenon DEF QueueInv

(* NewQueue establishes the inductive invariant. *)
LEMMA QueueInitially == QueueInit => QueueInv
<1> SUFFICES ASSUME QueueInit PROVE QueueInv
  BY Zenon
<1> USE QueueConstants DEF QueueInit
<1>1. QueueTypeOK
  <2>1. readyChan \in Seq(Msgs) /\ Len(readyChan) <= BufferSize
    OBVIOUS
  <2>2. fate \in [Msgs -> Fates]
    BY Zenon DEF Fates
  <2>3. timer \in Nat /\ nextAttempt \in [Msgs -> Nat]
    BY Zenon
  <2>4. QED
    BY <2>1, <2>2, <2>3, Zenon DEF QueueTypeOK
<1>2. CallInv /\ LockInv
  BY Zenon DEF CallInv, LockInv
<1>3. OneOwner /\ AcceptedIsKept
  BY DEF OneOwner, AcceptedIsKept, InReady, Held
<1>4. QED
  BY <1>1, <1>2, <1>3, Zenon DEF QueueInv

(* The inductive invariant holds in every reachable state: NewQueue           *)
(* establishes it and every operation, the scheduler and Close preserve it.   *)
THEOREM QueueInvariant == QueueSpec => []QueueInv
  BY QueueInitially, QueueStep, PTL DEF QueueSpec

(* The state stays well-typed: in particular the ready channel never holds   *)
(* more than its capacity and the retry signal more than its one slot.       *)
THEOREM QueueTypes == QueueSpec => []QueueTypeOK
<1>1. QueueInv => QueueTypeOK
  BY Zenon DEF QueueInv
<1>2. QED
  BY <1>1, QueueInvariant, PTL

(* No message has two owners at once, whoever calls the queue. *)
THEOREM QueueOneOwner == QueueSpec => []OneOwner
<1>1. QueueInv => OneOwner
  BY Zenon DEF QueueInv
<1>2. QED
  BY <1>1, QueueInvariant, PTL

(* No message that Enqueue accepted is lost while the queue is open. *)
THEOREM QueueSafety == QueueSpec => []AcceptedIsKept
<1>1. QueueInv => AcceptedIsKept
  BY Zenon DEF QueueInv
<1>2. QED
  BY <1>1, QueueInvariant, PTL

(* Close leaves nothing behind in the heap and does not leave mu locked. *)
THEOREM QueueCloseIsFinal == QueueSpec => []CloseIsFinal
<1>1. QueueInv => CloseIsFinal
  BY Zenon DEF QueueInv, LockInv, CloseIsFinal, QueueTypeOK
<1>2. QED
  BY <1>1, QueueInvariant, PTL

(* The scheduler never oversleeps a message whose Requeue signalled. *)
THEOREM QueueNoLostWakeup == QueueSpec => []NoLostWakeup
<1>1. QueueInit => NoLostWakeup
  BY Zenon DEF QueueInit, NoLostWakeup
<1>2. QED
  BY <1>1, WakeupStep, QueueInvariant, PTL DEF QueueSpec

(* The backoff is respected: nothing is promoted before its time. *)
THEOREM QueueNoEarlyPromotion == QueueSpec => NoEarlyPromotion
<1>1. QueueInv /\ [QueueNext]_queueVars
        => [\A m \in retryHeap \ retryHeap' : nextAttempt[m] = 0 \/ closed]_queueVars
  <2> SUFFICES ASSUME QueueInv, QueueNext,
                      NEW m \in retryHeap, m \notin retryHeap'
               PROVE  nextAttempt[m] = 0 \/ closed
    BY Zenon
  <2>1. ASSUME NEW n \in Msgs, PromoteSend(n) PROVE nextAttempt[m] = 0
    BY <2>1, Zenon DEF PromoteSend, QueueInv, LockInv
  <2>2. CASE CloseFinish
    BY <2>2, Zenon DEF CloseFinish, QueueInv, LockInv
  <2>3. (\E n \in Msgs : PromoteSend(n)) \/ CloseFinish
    BY Zenon DEF QueueNext, Scheduler, Client, EnqueueCheck, EnqueueSend, EnqueuePanic,
           EnqueueGiveUp, EnqueueReturn, Dequeue, Postpone, Settle, RequeuePush,
           RequeueSignal, RequeueCancelled, RequeueReturn, Cancel, SchedDelay,
           SchedTimer, SchedMetrics, SchedSignal, SchedStop, SchedGoto,
           PromoteBegin, PromoteEnd, PromoteStop, PromoteFull, PromoteReturn,
           CloseBegin, Tick
  <2>4. QED
    BY <2>1, <2>2, <2>3, Zenon
<1>2. QED
  BY <1>1, QueueInvariant, PTL DEF QueueSpec, NoEarlyPromotion

(* Each message seen from outside: the steps of the queue are steps of      *)
(* Custody, so its promise holds for any callers.                           *)
LEMMA StandingStep ==
    ASSUME QueueInv, NEW m \in Msgs, NEW to,
           \A n \in Msgs \ {m} : Standing(n)' = Standing(n),
           Standing(m)' = to
    PROVE  [n \in Msgs |-> Standing(n)]' = [[n \in Msgs |-> Standing(n)] EXCEPT ![m] = to]
  BY Zenon

(* A step of client c about message m leaves the standing of the others. *)
LEMMA OthersStand ==
    ASSUME NEW m \in Msgs, NEW c \in Clients,
           hand[c] \in {m, NoMsg}, hand'[c] \in {m, NoMsg},
           \A e \in Clients \ {c} : hand'[e] = hand[e],
           \A n \in Msgs \ {m} : fate'[n] = fate[n]
    PROVE  \A n \in Msgs \ {m} : Standing(n)' = Standing(n)
<1>1. \A n \in Msgs \ {m} : Held(n)' <=> Held(n)
  BY QueueConstants DEF Held
<1>2. QED
  BY <1>1, Zenon DEF Standing

(* The queue implements Custody: QueueSpec implies KeepsCustody. *)
THEOREM QueueKeepsCustody == QueueSpec => KeepsCustody
<1> DEFINE st == [m \in Msgs |-> Standing(m)]
<1>1. QueueInit => Promise!Init
  BY Zenon DEF QueueInit, Promise!Init, Standing
<1>2. QueueInv /\ [QueueNext]_queueVars => [Promise!Next]_<<st, closed>>
  <2> SUFFICES ASSUME QueueInv, [QueueNext]_queueVars
               PROVE  [Promise!Next]_<<st, closed>>
    BY Zenon
  <2> USE QueueConstants DEF QueueInv, QueueTypeOK, CallInv, LockInv, OneOwner
  <2>1. ASSUME NEW c \in Clients, NEW m \in Msgs, NEW d \in EnqueueDelays,
               EnqueueCheck(c, m, d)
        PROVE  Promise!Next
    <3>1. Standing(m) = "new"
      BY <2>1, Zenon DEF EnqueueCheck, Standing
    <3>9. /\ hand[c] \in {m, NoMsg} /\ hand'[c] \in {m, NoMsg}
          /\ \A e \in Clients \ {c} : hand'[e] = hand[e]
          /\ \A n \in Msgs \ {m} : fate'[n] = fate[n]
      BY <2>1 DEF EnqueueCheck
    <3>2. \A n \in Msgs \ {m} : Standing(n)' = Standing(n)
      BY <3>9, OthersStand, Zenon
    <3>3. CASE closed
      <4>1. Standing(m)' = "refused" /\ closed' = closed
        BY <2>1, <3>3 DEF EnqueueCheck, Standing
      <4>2. Promise!Refuse(m)
        BY <3>1, <3>2, <3>3, <4>1, StandingStep, Zenon DEF Promise!Refuse, Promise!Move
      <4>3. QED
        BY <4>2, Zenon DEF Promise!Next
    <3>4. CASE ~closed
      <4>1. Standing(m)' = "offered" /\ closed' = closed
        BY <2>1, <3>4 DEF EnqueueCheck, Standing
      <4>2. Promise!Offer(m)
        BY <3>1, <3>2, <3>4, <4>1, StandingStep, Zenon DEF Promise!Offer, Promise!Move
      <4>3. QED
        BY <4>2, Zenon DEF Promise!Next
    <3>5. QED
      BY <3>3, <3>4, Zenon
  <2>2. ASSUME NEW c \in Clients, EnqueueSend(c) PROVE Promise!Next
    <3>0. PICK m \in Msgs : hand[c] = m
      BY <2>2, Zenon DEF EnqueueSend
    <3>1. Standing(m) = "offered"
      BY <2>2, <3>0, Zenon DEF EnqueueSend, Standing
    <3>2. Standing(m)' = "waiting" /\ closed' = closed
      <4>1. fate'[m] = "accepted" /\ closed' = closed
        BY <2>2, <3>0, Zenon DEF EnqueueSend, EnqueueReturn
      <4>2. ~Held(m)'
        BY <2>2, <3>0 DEF EnqueueSend, EnqueueReturn, Held
      <4>3. QED
        BY <4>1, <4>2, Zenon DEF Standing
    <3>9. /\ hand[c] \in {m, NoMsg} /\ hand'[c] \in {m, NoMsg}
          /\ \A e \in Clients \ {c} : hand'[e] = hand[e]
          /\ \A n \in Msgs \ {m} : fate'[n] = fate[n]
      BY <2>2, <3>0 DEF EnqueueSend, EnqueueReturn
    <3>3. \A n \in Msgs \ {m} : Standing(n)' = Standing(n)
      BY <3>9, OthersStand, Zenon
    <3>4. Promise!Accept(m)
      BY <3>1, <3>2, <3>3, StandingStep, Zenon DEF Promise!Accept, Promise!Move
    <3>5. QED
      BY <3>4, Zenon DEF Promise!Next
  <2>3. ASSUME NEW c \in Clients, EnqueuePanic(c) \/ EnqueueGiveUp(c)
        PROVE  Promise!Next
    <3>0. PICK m \in Msgs : hand[c] = m
      BY <2>3, Zenon DEF EnqueuePanic, EnqueueGiveUp
    <3>1. Standing(m) = "offered" /\ closed' = closed
      BY <2>3, <3>0, Zenon DEF EnqueuePanic, EnqueueGiveUp, EnqueueReturn, Standing
    <3>9. /\ hand[c] \in {m, NoMsg} /\ hand'[c] \in {m, NoMsg}
          /\ \A e \in Clients \ {c} : hand'[e] = hand[e]
          /\ \A n \in Msgs \ {m} : fate'[n] = fate[n]
      BY <2>3, <3>0 DEF EnqueuePanic, EnqueueGiveUp, EnqueueReturn
    <3>2. \A n \in Msgs \ {m} : Standing(n)' = Standing(n)
      BY <3>9, OthersStand, Zenon
    <3>3. CASE EnqueuePanic(c)
      <4>1. Standing(m)' = "panicked" /\ closed
        BY <3>3, <3>0, <3>1, Zenon DEF EnqueuePanic, EnqueueReturn, Standing
      <4>2. Promise!Panic(m)
        BY <3>1, <3>2, <4>1, StandingStep DEF Promise!Panic, Promise!Move
      <4>3. QED
        BY <4>2, Zenon DEF Promise!Next
    <3>4. CASE EnqueueGiveUp(c)
      <4>1. Standing(m)' = "refused"
        BY <3>4, <3>0, <3>1, Zenon DEF EnqueueGiveUp, EnqueueReturn, Standing
      <4>2. Promise!Refuse(m)
        BY <3>1, <3>2, <4>1, StandingStep, Zenon DEF Promise!Refuse, Promise!Move
      <4>3. QED
        BY <4>2, Zenon DEF Promise!Next
    <3>5. QED
      BY <2>3, <3>0, <3>3, <3>4, Zenon
  <2>4. ASSUME NEW c \in Clients, Dequeue(c) PROVE Promise!Next
    <3>0. PICK m \in Msgs : Head(readyChan) = m
      BY <2>4, ReceiveChanges, Zenon DEF Dequeue
    <3>1. fate[m] = "accepted" /\ ~Held(m)
      BY <2>4, <3>0, ReceiveChanges, Zenon DEF Dequeue
    <3>2. Standing(m) = "waiting" /\ Standing(m)' = "working" /\ closed' = closed
      BY <2>4, <3>0, <3>1, Zenon DEF Dequeue, Standing, Held
    <3>9. /\ hand[c] \in {m, NoMsg} /\ hand'[c] \in {m, NoMsg}
          /\ \A e \in Clients \ {c} : hand'[e] = hand[e]
          /\ \A n \in Msgs \ {m} : fate'[n] = fate[n]
      BY <2>4, <3>0, Zenon DEF Dequeue
    <3>3. \A n \in Msgs \ {m} : Standing(n)' = Standing(n)
      BY <3>9, OthersStand, Zenon
    <3>4. Promise!Take(m)
      BY <3>1, <3>2, <3>3, StandingStep, Zenon DEF Promise!Take, Promise!Move
    <3>5. QED
      BY <3>4, Zenon DEF Promise!Next
  <2>5. ASSUME NEW c \in Clients, Settle(c) PROVE Promise!Next
    <3>0. PICK m \in Msgs : hand[c] = m
      BY <2>5 DEF Settle
    <3>1. Standing(m) = "working" /\ closed' = closed
      BY <2>5, <3>0, Zenon DEF Settle, Standing, Held
    <3>2. Standing(m)' = "settled"
      BY <2>5, <3>0, <3>1, Zenon DEF Settle, Standing
    <3>9. /\ hand[c] \in {m, NoMsg} /\ hand'[c] \in {m, NoMsg}
          /\ \A e \in Clients \ {c} : hand'[e] = hand[e]
          /\ \A n \in Msgs \ {m} : fate'[n] = fate[n]
      BY <2>5, <3>0 DEF Settle
    <3>3. \A n \in Msgs \ {m} : Standing(n)' = Standing(n)
      BY <3>9, OthersStand, Zenon
    <3>4. Promise!Settle(m)
      BY <3>1, <3>2, <3>3, StandingStep, Zenon DEF Promise!Settle, Promise!Move
    <3>5. QED
      BY <3>4, Zenon DEF Promise!Next
  <2>6. ASSUME NEW c \in Clients, RequeuePush(c) PROVE Promise!Next
    <3>0. PICK m \in Msgs : hand[c] = m
      BY <2>6 DEF RequeuePush
    <3>1. Standing(m) = "working" /\ closed' = closed
      BY <2>6, <3>0, Zenon DEF RequeuePush, Standing, Held
    <3>9. /\ hand[c] \in {m, NoMsg} /\ hand'[c] \in {m, NoMsg}
          /\ \A e \in Clients \ {c} : hand'[e] = hand[e]
          /\ \A n \in Msgs \ {m} : fate'[n] = fate[n]
      BY <2>6, <3>0 DEF RequeuePush
    <3>2. \A n \in Msgs \ {m} : Standing(n)' = Standing(n)
      BY <3>9, OthersStand, Zenon
    <3>3. CASE closed
      <4>1. Standing(m)' = "lost"
        BY <2>6, <3>0, <3>1, <3>3 DEF RequeuePush, Standing
      <4>2. st' = [n \in Msgs |-> IF n \in {m} THEN "lost" ELSE st[n]]
        BY <3>2, <4>1, Zenon
      <4>3. Promise!Drop({m})
        BY <3>1, <3>3, <4>2 DEF Promise!Drop
      <4>4. QED
        BY <3>1, <4>3 DEF Promise!Next
    <3>4. CASE ~closed
      <4>1. Standing(m)' = "waiting"
        BY <2>6, <3>0, <3>1, <3>4 DEF RequeuePush, Standing, Held
      <4>2. Promise!PutBack(m)
        BY <3>1, <3>2, <3>4, <4>1, StandingStep, Zenon DEF Promise!PutBack, Promise!Move
      <4>3. QED
        BY <4>2, Zenon DEF Promise!Next
    <3>5. QED
      BY <3>3, <3>4, Zenon
  <2>7. CASE CloseBegin
    <3>1. UNCHANGED st
      BY <2>7 DEF CloseBegin, Standing, Held
    <3>2. Promise!Shut
      BY <2>7, <3>1, Zenon DEF CloseBegin, Promise!Shut
    <3>3. QED
      BY <3>2, Zenon DEF Promise!Next
  <2>8. CASE CloseFinish
    <3>1. st' = [n \in Msgs |-> IF n \in retryHeap THEN "lost" ELSE st[n]]
      BY <2>8 DEF CloseFinish, Standing, Held
    <3>2. \A n \in retryHeap : st[n] = "waiting"
      BY Zenon DEF Standing
    <3>3. Promise!Drop(retryHeap)
      BY <2>8, <3>1, <3>2, Zenon DEF CloseFinish, Promise!Drop
    <3>4. QED
      BY <3>3, Zenon DEF Promise!Next
  <2>9. ASSUME UNCHANGED <<fate, hand, closed>> PROVE UNCHANGED <<st, closed>>
    BY <2>9 DEF Standing, Held
  <2>10. \/ \E c \in Clients, m \in Msgs, d \in EnqueueDelays : EnqueueCheck(c, m, d)
         \/ \E c \in Clients : \/ EnqueueSend(c) \/ EnqueuePanic(c) \/ EnqueueGiveUp(c)
                               \/ Dequeue(c) \/ Settle(c) \/ RequeuePush(c)
         \/ CloseBegin \/ CloseFinish
         \/ UNCHANGED <<fate, hand, closed>>
    BY Zenon DEF QueueNext, Scheduler, Client, Postpone, RequeueSignal, RequeueCancelled,
           RequeueReturn, Cancel, SchedDelay, SchedTimer, SchedMetrics,
           SchedSignal, SchedStop, SchedGoto, PromoteBegin, PromoteSend,
           PromoteEnd, PromoteStop, PromoteFull, PromoteReturn, Tick, queueVars
  <2>11. QED
    BY <2>1, <2>2, <2>3, <2>4, <2>5, <2>6, <2>7, <2>8, <2>9, <2>10, Zenon
<1>3. QED
  BY <1>1, <1>2, QueueInvariant, PTL DEF QueueSpec, KeepsCustody, Promise!Spec
============================================================================
