----------------------------- MODULE MCInbound -----------------------------
(* Two connections from two addresses.  Between them the configurations make *)
(* every limit refuse somebody who would pass the others.                    *)
EXTENDS Inbound

Limits(tls, recipients, connections, perIP, tracked) ==
    [TLSConfig |-> tls, MaxRecipients |-> recipients, MaxConnections |-> connections,
     MaxData |-> 1, MaxConnectionsPerIP |-> perIP, ConnectionsPerMinute |-> 1,
     MaxTrackedIPs |-> tracked]

(* Two sessions of one address share a DATA slot and fill the peer table;    *)
(* one session at a time, of one address and of two.                         *)
MCConfigs ==
    {Limits(FALSE, 1, 2, 2, 1), Limits(TRUE, 2, 2, 1, 1), Limits(FALSE, 1, 1, 2, 2)}
============================================================================
