---------------------------- MODULE MCOutbound ----------------------------
(* Two messages whose domains d1 and d2 share their first host h1, so that   *)
(* the second client for it finds the channel full; each has another host,   *)
(* and that of d2 offers STARTTLS.                                           *)
EXTENDS Outbound

CONSTANTS m1, m2, d1, d2, here, h1, h2, h3

MCMessages == {m1, m2}
MCDomains == {d1, d2, here}
MCTo == [m \in MCMessages |-> IF m = m1 THEN {d1, here} ELSE {d2}]
MCMX == [d \in MCDomains |-> IF d = d2 THEN <<h1, h3>> ELSE <<h1, h2>>]
===========================================================================
