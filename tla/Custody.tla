------------------------------ MODULE Custody ------------------------------
(***************************************************************************)
(* What the queue promises the sessions that hand it mail and the workers   *)
(* that take it, without channels, heaps, locks or timers: each message is  *)
(* in one state at a time, moves along the edges below one message at a     *)
(* time, and can get lost only when the queue has been shut.                *)
(***************************************************************************)
CONSTANT Msgs

VARIABLES
    status,  \* where each message stands
    shut     \* Close has been called

Init ==
    /\ status = [m \in Msgs |-> "new"]
    /\ shut = FALSE

Move(m, from, to) ==
    /\ status[m] \in from
    /\ status' = [status EXCEPT ![m] = to]
    /\ UNCHANGED shut

Offer(m)   == ~shut /\ Move(m, {"new"}, "offered")
Accept(m)  == Move(m, {"offered"}, "waiting")
Refuse(m)  == Move(m, IF shut THEN {"new", "offered"} ELSE {"offered"}, "refused")
Panic(m)   == shut /\ Move(m, {"offered"}, "panicked")
Take(m)    == Move(m, {"waiting"}, "working")
PutBack(m) == ~shut /\ Move(m, {"working"}, "waiting")
Settle(m)  == Move(m, {"working"}, "settled")

Shut == ~shut /\ shut' = TRUE /\ UNCHANGED status

(* After Shut, waiting messages may be dropped together, and a worker may    *)
(* fail to put its message back.                                             *)
Drop(S) ==
    /\ shut
    /\ \A m \in S : status[m] \in {"waiting", "working"}
    /\ status' = [m \in Msgs |-> IF m \in S THEN "lost" ELSE status[m]]
    /\ UNCHANGED shut

Next ==
    \/ \E m \in Msgs : \/ Offer(m) \/ Accept(m) \/ Refuse(m) \/ Panic(m)
                       \/ Take(m) \/ PutBack(m) \/ Settle(m)
    \/ Shut
    \/ \E S \in SUBSET Msgs : Drop(S)

Spec == Init /\ [][Next]_<<status, shut>>
============================================================================
