------------------------------ MODULE MCPacing ------------------------------
(* The retry schedule and the rate limiter share no state: in a behaviour    *)
(* one of them moves, and every behaviour of each is covered.                *)
EXTENDS Backoff, RateLimit

VARIABLE moving     \* the one that moves

Schedule == moving = "schedule" /\ Next /\ UNCHANGED <<rateVars, moving>>
Limiter == moving = "limiter" /\ RateNext /\ UNCHANGED <<vars, moving>>

PacingInit == Init /\ RateInit /\ moving \in {"schedule", "limiter"}
PacingSpec == PacingInit /\ [][Schedule \/ Limiter]_<<vars, rateVars, moving>>
=============================================================================
