------------------------------ MODULE Backoff ------------------------------
(***************************************************************************)
(* The retry schedule of one message: calculateRetryDelay of                *)
(* internal/processor/processor.go in the 64-bit arithmetic of the code,    *)
(* and what Requeue makes of its result.  A delivery that times out is      *)
(* retried whatever the RetryCount, so RetryCount has no limit.             *)
(* Times are in seconds.                                                    *)
(***************************************************************************)
EXTENDS Integers

CONSTANTS
    MaxRetries,  \* 5
    MaxCount     \* bound: deliveries that fail

ASSUME BackoffConstants == MaxRetries \in Nat /\ MaxCount \in Nat

BaseRetryDelay == 60
MaxRetryDelay == 1800
FiveSeconds == 5
Past == -1       \* a delay that is not positive: NextAttemptAt is before now

(* A Duration is a 64-bit count of nanoseconds.  BaseRetryDelay is           *)
(* Odd * 2^11, so the product BaseRetryDelay * 2^k is Product(k) * 2^(k+11)  *)
(* for the signed (53 - k)-bit number Product(k).                            *)
Odd == 29296875

Pow2[n \in Nat] == IF n = 0 THEN 1 ELSE 2 * Pow2[n - 1]

Product(k) ==
    IF k >= 53 THEN 0
    ELSE IF k < 27 THEN Odd
    ELSE LET w == Pow2[53 - k]
             r == Odd % w
         IN  IF 2 * r >= w THEN r - w ELSE r

(* The product is above MaxRetryDelay, which is 30 * Odd * 2^11. *)
AboveMax(k) ==
    IF k < 30 THEN Product(k) > (30 * Odd) \div Pow2[k] ELSE Product(k) > 0

calculateRetryDelay(retryCount) ==
    LET k == retryCount - 1
    IN  IF retryCount <= 0 THEN BaseRetryDelay
        ELSE IF AboveMax(k) THEN MaxRetryDelay
        ELSE IF Product(k) <= 0 THEN Past
        ELSE BaseRetryDelay * Pow2[k]

VARIABLES
    step,        \* where the message is: "deliver", "requeue" or "heap"
    retryCount,  \* its RetryCount
    delay,       \* NextAttemptAt - now, as the worker set it
    wait         \* how long it stays in the retry heap

vars == <<step, retryCount, delay, wait>>

BackoffTypeOK ==
    /\ step \in {"deliver", "requeue", "heap"}
    /\ retryCount \in Nat
    /\ delay \in Past..MaxRetryDelay
    /\ wait \in 0..MaxRetryDelay

Init == step = "deliver" /\ retryCount = 0 /\ delay = 0 /\ wait = 0

(* RetryCount++ and the next NextAttemptAt. *)
Retry ==
    /\ retryCount' = retryCount + 1
    /\ delay' = calculateRetryDelay(retryCount + 1)
    /\ step' = "requeue"
    /\ UNCHANGED wait

DeliverTemporary == step = "deliver" /\ retryCount < MaxRetries /\ Retry
DeliverTimeout == step = "deliver" /\ retryCount < MaxCount /\ Retry

(* The processor's context ends the delivery: NextAttemptAt stays as it was, *)
(* which is in the past by now, and the message goes to another processor.   *)
DeliverInterrupted ==
    /\ step = "deliver"
    /\ delay' = Past
    /\ step' = "requeue"
    /\ UNCHANGED <<retryCount, wait>>

(* Faulty variant: a NextAttemptAt in the past becomes now. *)
RequeueAtOnce ==
    /\ step = "requeue"
    /\ wait' = IF delay <= 0 THEN 0 ELSE delay
    /\ step' = "heap"
    /\ UNCHANGED <<retryCount, delay>>

Requeue ==
    /\ step = "requeue"
    /\ wait' = IF delay <= 0 THEN FiveSeconds ELSE delay
    /\ step' = "heap"
    /\ UNCHANGED <<retryCount, delay>>

(* promoteReadyMessages and Dequeue, wait seconds later. *)
Promote == step = "heap" /\ step' = "deliver" /\ UNCHANGED <<retryCount, delay, wait>>

Next == DeliverTemporary \/ DeliverTimeout \/ DeliverInterrupted \/ Requeue \/ Promote

Spec == Init /\ [][Next]_vars

----------------------------------------------------------------------------
(* Whatever calculateRetryDelay returns, overflow included, a failed message *)
(* is tried again: not at once, and within MaxRetryDelay.                    *)
WaitBounded == step = "heap" => wait \in FiveSeconds..MaxRetryDelay

(* A delay that is not in the past is at least BaseRetryDelay, for products  *)
(* that wrap as well: none of them leaves a small positive number.           *)
BackoffInv ==
    /\ BackoffTypeOK
    /\ delay > 0 => delay >= BaseRetryDelay
    /\ WaitBounded

============================================================================
