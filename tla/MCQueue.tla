------------------------------ MODULE MCQueue ------------------------------
(* Queue with two messages, two callers and a ready channel of one slot.  *)
EXTENDS Queue, TLC

MCEnqueueDelays == {0, 1}
MCRetryDelays == {0, 2}

Symmetry == Permutations(Msgs) \cup Permutations(Clients)
============================================================================
