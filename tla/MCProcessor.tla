---------------------------- MODULE MCProcessor ----------------------------
(* Two processors with one worker each, as the main and the submission       *)
(* server have, one session, and a ready channel of one slot; the liveness   *)
(* models have one worker.                                                   *)
EXTENDS Processor, TLC

CONSTANTS s1, w1, w2, p1, p2

MCSessions == {s1}
MCWorkers == {w1, w2}
MCClients == {s1, w1, w2}
MCProcessors == {p1, p2}
MCProcOf == [w \in MCWorkers |-> IF w = w1 THEN p1 ELSE p2]
OneWorker == {w1}
OneWorkerClients == {s1, w1}
OneProcessor == {p1}
OneWorkerProcOf == [w \in OneWorker |-> p1]

MCRetryDelays == {0, 1}
DueNow == {0}
DueNowOrLater == {0, 1}

Symmetry == Permutations(Msgs)
============================================================================
