------------------------------ MODULE Inbound ------------------------------
(***************************************************************************)
(* The embeddable receiver of pkg/inbound/server.go: Serve with its accept  *)
(* loop, the goroutine that watches for cancellation, the admission of      *)
(* connections under four limits, one session goroutine per connection, and *)
(* a Backend that stores the mail (external: any implementation that, as    *)
(* Serve demands, honors context cancellation).                             *)
(*                                                                          *)
(* A connection is a slot that is used again once its goroutine is done.    *)
(* Message text, addresses' syntax and reply wording are left out: a line   *)
(* or an argument is good or bad, and both happen.                          *)
(***************************************************************************)
EXTENDS Integers, Sequences, FiniteSets

CONSTANTS
    Conns,                \* connection slots
    IPs,                  \* remote addresses
    Senders, Rcpts,       \* arguments of MAIL and RCPT that parse
    None,                 \* no peer, no address, no envelope
    Configs,              \* the configurations to look at
    Minute                \* length of the rate window in ticks

(* New: limits that are not set get positive defaults, negative ones are     *)
(* refused.                                                                  *)
Limit == Nat \ {0}
Config ==
    [TLSConfig : BOOLEAN, MaxRecipients : Limit, MaxConnections : Limit, MaxData : Limit,
     MaxConnectionsPerIP : Limit, ConnectionsPerMinute : Limit, MaxTrackedIPs : Limit]

Peer == [active : Nat, attempts : Nat, age : 0..Minute]
Envelope == [from : Senders, rcpts : Seq(Rcpts)]

ASSUME InboundConstants ==
    /\ None \notin IPs /\ None \notin Senders /\ None \notin Peer /\ None \notin Envelope
    /\ Configs \subseteq Config /\ Minute \in Limit
    /\ IsFiniteSet(Conns) /\ IsFiniteSet(IPs)

VARIABLES
    cfg,      \* s.cfg, which never changes
    serve,    \* control of Serve: "idle", in Accept, before admission, in its defers
    host,     \* address of the connection that Accept has returned
    ctxDone,  \* the context of Serve is done
    lClosed,  \* the listener is closed
    peers,    \* s.peers
    conns,    \* registered connections
    ip,       \* remote address of each connection
    closed,   \* connections that were closed under their session
    pc,       \* control of the goroutine of each connection
    sess,     \* the locals of session
    data,     \* occupied slots of s.data
    recent,   \* history: admissions of each address, in the last tick, two ticks, ...
    agreed,   \* history: envelope of the last transaction as the client knows it
    stored,   \* history: envelope under which the backend stored the last message in time
    acked     \* history: the last message was answered 250

serveVars == <<cfg, serve, host, ctxDone, lClosed>>
admitVars == <<peers, conns, ip, recent>>
historyVars == <<agreed, stored, acked>>
vars == <<serveVars, admitVars, closed, pc, sess, data, historyVars>>

(* mail, started, stop and tx are set together and cleared together: tx      *)
(* stands for them all.                                                      *)
Sess == [helo : BOOLEAN, tls : BOOLEAN, tx : {"none", "live", "expired"},
         from : Senders \cup {None}, rcpts : Seq(Rcpts)]

ServeTypeOK ==
    /\ cfg \in Configs
    /\ serve \in {"idle", "accept", "admit", "drain"}
    /\ host \in IPs \cup {None}
    /\ ctxDone \in BOOLEAN /\ lClosed \in BOOLEAN

PeerTypeOK ==
    /\ peers \in [IPs -> Peer \cup {None}]
    /\ conns \in SUBSET Conns
    /\ ip \in [Conns -> IPs \cup {None}]
    /\ closed \in SUBSET Conns
    /\ recent \in [IPs -> [1..Minute -> Nat]]

SessionTypeOK ==
    /\ pc \in [Conns -> {"free", "command", "check", "data", "accept", "ack", "leave", "left"}]
    /\ sess \in [Conns -> Sess]
    /\ \A c \in Conns : Len(sess[c].rcpts) <= cfg.MaxRecipients
    /\ data \in 0..cfg.MaxData
    /\ agreed \in [Conns -> Envelope \cup {None}]
    /\ stored \in [Conns -> Envelope \cup {None}]
    /\ acked \in [Conns -> BOOLEAN]

InboundTypeOK == ServeTypeOK /\ PeerTypeOK /\ SessionTypeOK

NewSess == [helo |-> FALSE, tls |-> FALSE, tx |-> "none", from |-> None, rcpts |-> <<>>]

(* History: the client knows of this transaction, and of no message in it. *)
Told(c, envelope) ==
    /\ agreed' = [agreed EXCEPT ![c] = envelope]
    /\ stored' = [stored EXCEPT ![c] = None]
    /\ acked' = [acked EXCEPT ![c] = FALSE]

(* New; nothing is serving. *)
Init ==
    /\ cfg \in Configs
    /\ serve = "idle" /\ host = None /\ ctxDone = FALSE /\ lClosed = FALSE
    /\ peers = [i \in IPs |-> None]
    /\ conns = {} /\ ip = [c \in Conns |-> None] /\ closed = {}
    /\ pc = [c \in Conns |-> "free"]
    /\ sess = [c \in Conns |-> NewSess]
    /\ data = 0
    /\ recent = [i \in IPs |-> [t \in 1..Minute |-> 0]]
    /\ agreed = [c \in Conns |-> None]
    /\ stored = [c \in Conns |-> None]
    /\ acked = [c \in Conns |-> FALSE]

----------------------------------------------------------------------------
(* Serve and the goroutine it starts. *)

(* A call of Serve while another one runs is refused and changes nothing. *)
Serve ==
    /\ serve = "idle"
    /\ serve' = "accept" /\ ctxDone' = FALSE /\ lClosed' = FALSE
    /\ UNCHANGED <<cfg, host, admitVars, closed, pc, sess, data, historyVars>>

(* The caller cancels the context; *)
Cancel ==
    /\ serve /= "idle" /\ ~ctxDone
    /\ ctxDone' = TRUE
    /\ UNCHANGED <<cfg, serve, host, lClosed, admitVars, closed, pc, sess, data, historyVars>>

(* Faulty variant: the watching goroutine leaves the listener open. *)
WatchConnsOnly ==
    /\ ctxDone /\ serve /= "idle"
    /\ closed' = closed \cup conns
    /\ UNCHANGED <<serveVars, admitVars, pc, sess, data, historyVars>>

(* the watching goroutine closes the listener and what is registered. *)
Watch ==
    /\ ctxDone /\ serve /= "idle" /\ ~lClosed
    /\ lClosed' = TRUE
    /\ closed' = closed \cup conns
    /\ UNCHANGED <<cfg, serve, host, ctxDone, admitVars, pc, sess, data, historyVars>>

Accept(i) ==
    /\ serve = "accept" /\ ~lClosed
    /\ serve' = "admit" /\ host' = i
    /\ UNCHANGED <<cfg, ctxDone, lClosed, admitVars, closed, pc, sess, data, historyVars>>

(* Accept fails, because the listener is closed or for a reason of its own;  *)
(* the deferred function cancels, closes everything and waits for handlers.  *)
AcceptError ==
    /\ serve = "accept"
    /\ serve' = "drain" /\ ctxDone' = TRUE /\ lClosed' = TRUE
    /\ closed' = closed \cup conns
    /\ UNCHANGED <<cfg, host, admitVars, pc, sess, data, historyVars>>

(* Faulty variant: the handlers are not waited for. *)
ServeReturnAtOnce ==
    /\ serve = "drain"
    /\ serve' = "idle"
    /\ UNCHANGED <<cfg, host, ctxDone, lClosed, admitVars, closed, pc, sess, data, historyVars>>

ServeReturn ==
    /\ serve = "drain" /\ \A c \in Conns : pc[c] = "free"
    /\ serve' = "idle"
    /\ UNCHANGED <<cfg, host, ctxDone, lClosed, admitVars, closed, pc, sess, data, historyVars>>

----------------------------------------------------------------------------
(* Admission. *)

Tracked(P) == {i \in IPs : P[i] /= None}

(* Faulty variant: peers are forgotten while they have connections. *)
PurgeBusy ==
    [i \in IPs |-> IF peers[i] /= None /\ peers[i].age = Minute THEN None ELSE peers[i]]

(* The peers that are left after the loop over s.peers. *)
Purge ==
    [i \in IPs |-> IF peers[i] /= None /\ peers[i].active = 0 /\ peers[i].age = Minute
                   THEN None ELSE peers[i]]

(* Faulty variant: what was counted in the window before still counts. *)
PeerKeepsCount(i) ==
    IF Purge[i] /= None
    THEN IF Purge[i].age = Minute THEN [Purge[i] EXCEPT !.age = 0] ELSE Purge[i]
    ELSE [active |-> 0, attempts |-> 0, age |-> 0]

(* Faulty variant: the window is not restarted. *)
PeerNoWindow(i) ==
    IF Purge[i] /= None
    THEN IF Purge[i].age = Minute THEN [Purge[i] EXCEPT !.attempts = 0] ELSE Purge[i]
    ELSE [active |-> 0, attempts |-> 0, age |-> 0]

(* The peer p of address i: known or new, its window restarted when over. *)
PeerOf(i) ==
    IF Purge[i] /= None
    THEN IF Purge[i].age = Minute THEN [Purge[i] EXCEPT !.attempts = 0, !.age = 0] ELSE Purge[i]
    ELSE [active |-> 0, attempts |-> 0, age |-> 0]

Allowed(i) ==
    /\ Cardinality(conns) < cfg.MaxConnections
    /\ Purge[i] /= None \/ Cardinality(Tracked(Purge)) < cfg.MaxTrackedIPs
    /\ PeerOf(i).active < cfg.MaxConnectionsPerIP
    /\ PeerOf(i).attempts < cfg.ConnectionsPerMinute
    /\ ~ctxDone

(* Faulty variant: one address more than the limit is remembered. *)
RememberOneMore(i, p) ==
    peers' = IF Purge[i] /= None \/ Cardinality(Tracked(Purge)) <= cfg.MaxTrackedIPs
             THEN [Purge EXCEPT ![i] = p] ELSE Purge

(* An address that finds the table full leaves no trace in it. *)
Remember(i, p) ==
    peers' = IF Purge[i] /= None \/ Cardinality(Tracked(Purge)) < cfg.MaxTrackedIPs
             THEN [Purge EXCEPT ![i] = p] ELSE Purge

(* From Accept's return to the end of the loop body, both mutexes included:  *)
(* c gets a session goroutine, which writes its greeting,                    *)
Admit(c) ==
    /\ serve = "admit" /\ pc[c] = "free"
    /\ Allowed(host)
    /\ Remember(host, [PeerOf(host) EXCEPT !.active = @ + 1, !.attempts = @ + 1])
    /\ conns' = conns \cup {c} /\ ip' = [ip EXCEPT ![c] = host]
    /\ recent' = [recent EXCEPT ![host] = [t \in 1..Minute |-> recent[host][t] + 1]]
    /\ pc' = [pc EXCEPT ![c] = "command"]
    /\ serve' = "accept" /\ host' = None
    /\ UNCHANGED <<cfg, ctxDone, lClosed, closed, sess, data, historyVars>>

(* or the connection is answered 421 and closed. *)
Refuse ==
    /\ serve = "admit"
    /\ ~Allowed(host)
    /\ Remember(host, PeerOf(host))
    /\ serve' = "accept" /\ host' = None
    /\ UNCHANGED <<cfg, ctxDone, lClosed, conns, ip, recent, closed, pc, sess, data, historyVars>>

(* The deferred functions of a connection's goroutine: one critical section  *)
(* of each mutex; then c.Close and wg.Done.                                  *)
Leave(c) ==
    /\ pc[c] = "leave"
    /\ conns' = conns \ {c}
    /\ pc' = [pc EXCEPT ![c] = "left"]
    /\ sess' = [sess EXCEPT ![c] = NewSess]
    /\ Told(c, None)
    /\ UNCHANGED <<serveVars, peers, ip, recent, closed, data>>

Release(c) ==
    /\ pc[c] = "left"
    /\ peers' = [peers EXCEPT ![ip[c]].active = @ - 1]
    /\ pc' = [pc EXCEPT ![c] = "free"]
    /\ ip' = [ip EXCEPT ![c] = None]
    /\ closed' = closed \ {c}
    /\ UNCHANGED <<serveVars, conns, recent, sess, data, historyVars>>

----------------------------------------------------------------------------
(* The session.  Every reply may fail, because the client is gone, does not  *)
(* read, or the connection was closed; session then returns.                 *)
Goto(c, l) == pc' = [pc EXCEPT ![c] = l]
send(c) == (c \notin closed /\ Goto(c, "command")) \/ Goto(c, "leave")

TxDone(c) == sess[c].tx = "expired" \/ ctxDone
Mail(c) == sess[c].tx /= "none"

(* Faulty variant: the recipients survive. *)
resetKeepsRcpts(s) == [s EXCEPT !.tx = "none", !.from = None]

reset(s) == [s EXCEPT !.tx = "none", !.from = None, !.rcpts = <<>>]

(* A command that is answered and changes nothing: NOOP, an unknown one, or  *)
(* one that is refused for its argument or its place in the dialogue.        *)
JustReply(c) ==
    /\ pc[c] = "command"
    /\ send(c)
    /\ UNCHANGED <<serveVars, admitVars, closed, sess, data, historyVars>>

(* Faulty variant: reads have no deadline when the transaction's is over. *)
DisconnectNoDeadline(c) ==
    /\ pc[c] = "command" /\ sess[c].tx /= "expired"
    /\ Goto(c, "leave")
    /\ UNCHANGED <<serveVars, admitVars, closed, sess, data, historyVars>>

(* A read error or time-out, QUIT, or commands pipelined behind STARTTLS. *)
Disconnect(c) ==
    /\ pc[c] = "command"
    /\ Goto(c, "leave")
    /\ UNCHANGED <<serveVars, admitVars, closed, sess, data, historyVars>>

Ehlo(c) ==
    /\ pc[c] = "command"
    /\ sess' = [sess EXCEPT ![c] = [reset(@) EXCEPT !.helo = TRUE]]
    /\ send(c)
    /\ Told(c, None)
    /\ UNCHANGED <<serveVars, admitVars, closed, data>>

Rset(c) ==
    /\ pc[c] = "command"
    /\ sess' = [sess EXCEPT ![c] = reset(@)]
    /\ send(c)
    /\ Told(c, None)
    /\ UNCHANGED <<serveVars, admitVars, closed, data>>

(* The 220, the handshake and the new envelope; a failed handshake ends the  *)
(* session.                                                                  *)
StartTLS(c) ==
    /\ pc[c] = "command"
    /\ cfg.TLSConfig /\ ~sess[c].tls /\ sess[c].helo
    /\ sess' = [sess EXCEPT ![c] = [NewSess EXCEPT !.tls = TRUE]]
    /\ send(c)
    /\ Told(c, None)
    /\ UNCHANGED <<serveVars, admitVars, closed, data>>

MailFrom(c, from) ==
    /\ pc[c] = "command"
    /\ sess[c].helo /\ ~Mail(c)
    /\ sess' = [sess EXCEPT ![c] = [reset(@) EXCEPT !.from = from, !.tx = "live"]]
    /\ send(c)
    /\ Told(c, [from |-> from, rcpts |-> <<>>])
    /\ UNCHANGED <<serveVars, admitVars, closed, data>>

(* RCPT up to the call of CheckRecipient; *)
RcptTo(c) ==
    /\ pc[c] = "command"
    /\ Mail(c) /\ Len(sess[c].rcpts) < cfg.MaxRecipients
    /\ Goto(c, "check")
    /\ UNCHANGED <<serveVars, admitVars, closed, sess, data, historyVars>>

(* and from its return on: refused by the backend or too late, or accepted. *)
RcptReturn(c, to) ==
    /\ pc[c] = "check"
    /\ send(c)
    /\ \/ UNCHANGED <<sess, historyVars>>
       \/ /\ ~TxDone(c)
          /\ sess' = [sess EXCEPT ![c].rcpts = Append(@, to)]
          /\ agreed' = [agreed EXCEPT ![c].rcpts = Append(@, to)]
          /\ UNCHANGED <<stored, acked>>
    /\ UNCHANGED <<serveVars, admitVars, closed, data>>

(* DATA: a free slot of s.data, and the 354. *)
Data(c) ==
    /\ pc[c] = "command"
    /\ Mail(c) /\ sess[c].rcpts /= <<>>
    /\ data < cfg.MaxData
    /\ \/ c \notin closed /\ Goto(c, "data") /\ data' = data + 1
       \/ Goto(c, "leave") /\ UNCHANGED data
    /\ UNCHANGED <<serveVars, admitVars, closed, sess, historyVars>>

(* The end of the message's transaction: the slot is freed, the client gets  *)
(* an answer, the transaction is reset.                                      *)
Answer(c) ==
    /\ data' = data - 1
    /\ send(c)
    /\ sess' = [sess EXCEPT ![c] = reset(@)]

Refused(c) == Answer(c) /\ Told(c, None)

(* The lines of the message: a read error, bad framing or too large a        *)
(* message ends the session after a 552; a complete one goes to the backend  *)
(* unless the transaction's time is over.                                    *)
DataRead(c) ==
    /\ pc[c] = "data"
    /\ \/ data' = data - 1 /\ Goto(c, "leave") /\ UNCHANGED <<sess, historyVars>>
       \/ TxDone(c) /\ Refused(c)
       \/ ~TxDone(c) /\ Goto(c, "accept") /\ UNCHANGED <<sess, data, historyVars>>
    /\ UNCHANGED <<serveVars, admitVars, closed>>

(* backend.Accept returns: it has failed or the transaction's time is over,  *)
(* stored or not; or the envelope is stored and tx.Err() is nil;             *)
AcceptReturn(c) ==
    /\ pc[c] = "accept"
    /\ \/ Refused(c)
       \/ /\ ~TxDone(c)
          /\ Goto(c, "ack")
          /\ stored' = [stored EXCEPT ![c] = [from |-> sess[c].from, rcpts |-> sess[c].rcpts]]
          /\ UNCHANGED <<sess, data, agreed, acked>>
    /\ UNCHANGED <<serveVars, admitVars, closed>>

(* and the 250 follows, whatever has become of the context meanwhile. *)
Ack(c) ==
    /\ pc[c] = "ack"
    /\ Answer(c)
    /\ acked' = [acked EXCEPT ![c] = TRUE]
    /\ UNCHANGED <<serveVars, admitVars, closed, agreed, stored>>

(* The transaction's time is over. *)
Expire(c) ==
    /\ sess[c].tx = "live"
    /\ sess' = [sess EXCEPT ![c].tx = "expired"]
    /\ UNCHANGED <<serveVars, admitVars, closed, pc, data, historyVars>>

(* One tick passes for the rate windows. *)
Tick ==
    /\ \E i \in IPs : \/ peers[i] /= None /\ peers[i].age < Minute
                      \/ \E t \in 1..Minute : recent[i][t] > 0
    /\ peers' = [i \in IPs |-> IF peers[i] = None \/ peers[i].age = Minute THEN peers[i]
                               ELSE [peers[i] EXCEPT !.age = @ + 1]]
    /\ recent' = [i \in IPs |-> [t \in 1..Minute |-> IF t = 1 THEN 0 ELSE recent[i][t - 1]]]
    /\ UNCHANGED <<serveVars, conns, ip, closed, pc, sess, data, historyVars>>

Session(c) ==
    \/ JustReply(c) \/ Disconnect(c)
    \/ Ehlo(c) \/ Rset(c) \/ StartTLS(c)
    \/ \E from \in Senders : MailFrom(c, from)
    \/ RcptTo(c) \/ \E to \in Rcpts : RcptReturn(c, to)
    \/ Data(c) \/ DataRead(c) \/ AcceptReturn(c) \/ Ack(c)
    \/ Leave(c) \/ Release(c)

Next ==
    \/ Serve \/ Cancel \/ Watch \/ AcceptError \/ ServeReturn
    \/ \E i \in IPs : Accept(i)
    \/ \E c \in Conns : Admit(c) \/ Session(c) \/ Expire(c)
    \/ Refuse
    \/ Tick

Spec == Init /\ [][Next]_vars

(* Goroutines run; a client that says nothing runs into the idle time-out; a *)
(* backend call ends at the latest when its context does; a transaction's    *)
(* time passes, and from then on a session reads no more than the 4096 bytes *)
(* it has already buffered before a read fails.                              *)
Fairness ==
    /\ WF_vars(Watch) /\ WF_vars(AcceptError /\ lClosed) /\ WF_vars(ServeReturn)
    /\ WF_vars(Refuse) /\ WF_vars(\E c \in Conns : Admit(c))
    /\ \A c \in Conns :
          /\ WF_vars(Session(c)) /\ WF_vars(Expire(c))
          /\ SF_vars(Disconnect(c) /\ sess[c].tx = "expired")

FairSpec == Spec /\ Fairness

----------------------------------------------------------------------------
(* Properties. *)

Handlers(i) == {c \in Conns : pc[c] /= "free" /\ ip[c] = i}

(* p.active is the number of the address' goroutines that have not run their *)
(* deferred decrement, so the peer a goroutine points to is never purged     *)
(* from s.peers under it (server.go:172 against :211).                       *)
PeerAccounting ==
    \A i \in IPs : Cardinality(Handlers(i)) = IF peers[i] = None THEN 0 ELSE peers[i].active

(* The limits on connections, connections per address and tracked addresses  *)
(* hold at every moment although a goroutine leaves conns and gives back its *)
(* address' place in two critical sections (server.go:188, :206).            *)
AdmissionLimits ==
    /\ Cardinality(conns) <= cfg.MaxConnections
    /\ \A i \in IPs : Cardinality(Handlers(i)) <= cfg.MaxConnectionsPerIP
    /\ Cardinality(Tracked(peers)) <= cfg.MaxTrackedIPs

(* In no minute are more than twice ConnectionsPerMinute connections of an   *)
(* address admitted: purging an idle peer forgets only a window that is over *)
(* (server.go:171-186).                                                      *)
RateBound ==
    \A i \in IPs : recent[i][Minute] <= 2 * cfg.ConnectionsPerMinute

(* When Serve has returned, nothing of it is left that the next Serve of the *)
(* Server would start from: no goroutine, no registered connection, no       *)
(* occupied DATA slot, no active peer (server.go:117, :130).                 *)
CleanRestart ==
    serve = "idle" =>
       /\ \A c \in Conns : pc[c] = "free"
       /\ conns = {} /\ data = 0
       /\ \A i \in Tracked(peers) : peers[i].active = 0

(* A message answered 250 is stored, under exactly the sender and the        *)
(* recipients the client was told are accepted: the success acknowledgement  *)
(* is conditional on durable acceptance (server.go:1, :523-536).             *)
AckIsDurable ==
    \A c \in Conns : acked[c] => agreed[c] /= None /\ stored[c] = agreed[c]

(* After cancellation Serve returns (server.go:117).                         *)
ServeReturns == []<>(~ctxDone \/ serve = "idle")

(* Every transaction ends: by its answer, a reset, or the end of the session *)
(* (server.go:345-349, :494-498).                                            *)
TransactionEnds == \A c \in Conns : []<>~Mail(c)

(* A 421 has a cause: Serve is cancelled, as many connections are open, of   *)
(* this address or of all of them, as the limits allow, this address has had *)
(* ConnectionsPerMinute of them admitted within the last minute, or it is    *)
(* new and MaxTrackedIPs others are connected or were seen within a minute.  *)
(* Neither a goroutine that has not given back its place nor a window that   *)
(* is over counts against a client (server.go:168-199).                      *)
RefusalEarned ==
    [][serve = "admit" /\ serve' = "accept" /\ conns' = conns =>
         \/ ctxDone
         \/ Cardinality(conns) = cfg.MaxConnections
         \/ Cardinality(Handlers(host)) = cfg.MaxConnectionsPerIP
         \/ recent[host][Minute] >= cfg.ConnectionsPerMinute
         \/ Cardinality({i \in Tracked(peers) \ {host} :
                            Handlers(i) /= {} \/ peers[i].age < Minute}) = cfg.MaxTrackedIPs]_vars

(* Cancellation reaches every connection: once the listener is closed each   *)
(* registered connection is closed too, those included that Accept returned  *)
(* before and that were not admitted yet when the watching goroutine went    *)
(* through conns (server.go:138-148, :188).                                  *)
NoneEscapes == lClosed => ctxDone /\ conns \subseteq closed

(* How many steps the goroutine of a closed connection has before it. *)
GoroutineLeft(l) ==
    CASE l = "command" -> 6 [] l \in {"check", "data"} -> 5 [] l = "accept" -> 4 [] l = "ack" -> 3
      [] l = "leave" -> 2 [] l = "left" -> 1 [] OTHER -> 0

(* So Serve's wait for its handlers is a wait for at most six steps of       *)
(* each: whatever command a session has in hand or buffered when the         *)
(* listener is closed, every step it takes brings its end nearer, and no     *)
(* connection is admitted any more (server.go:117, :158, :203-213).          *)
WindsDown ==
    [][lClosed /\ lClosed' => \A c \in Conns :
         pc'[c] /= pc[c] \/ Session(c) => GoroutineLeft(pc'[c]) < GoroutineLeft(pc[c])]_vars

----------------------------------------------------------------------------
(* What the parts of the server agree on: the goroutines, the registered     *)
(* connections, the slots of s.data and where Serve is.                      *)
Registration ==
    /\ conns = {c \in Conns : pc[c] \notin {"free", "left"}}
    /\ \A c \in Conns : ip[c] = None <=> pc[c] = "free"
    /\ data = Cardinality({c \in Conns : pc[c] \in {"data", "accept", "ack"}})
    /\ serve = "admit" => host \in IPs
    /\ serve = "idle" => \A c \in Conns : pc[c] = "free"

(* The ticks that the window of a peer of this age may have admissions in. *)
InWindow(age) == IF age = Minute THEN Minute ELSE age + 1

(* Peer p has counted what was admitted since its window began, and what was *)
(* admitted earlier in the last minute belongs to the one window before.     *)
WindowOK(p, admitted) ==
    /\ \A s, t \in 1..Minute : s <= t => admitted[s] <= admitted[t]
    /\ p = None => admitted[1] = 0 /\ admitted[Minute] <= cfg.ConnectionsPerMinute
    /\ p /= None =>
          /\ p.attempts <= cfg.ConnectionsPerMinute
          /\ admitted[InWindow(p.age)] <= p.attempts
          /\ admitted[Minute] - admitted[InWindow(p.age)] <= cfg.ConnectionsPerMinute
          /\ p.age = Minute => admitted[1] = 0

RateInv == \A i \in IPs : WindowOK(peers[i], recent[i])

(* What a peer counts in a window that is not over was admitted in it. *)
Backed(p, admitted) == p /= None /\ p.age < Minute => p.attempts <= admitted[p.age + 1]
BackedInv == \A i \in IPs : Backed(peers[i], recent[i])

(* The session's envelope is the one the client knows of. *)
SessionInv ==
    \A c \in Conns :
       /\ pc[c] \in {"check", "data", "accept", "ack"} => Mail(c)
       /\ pc[c] = "ack" => stored[c] = agreed[c]
       /\ pc[c] = "check" => Len(sess[c].rcpts) < cfg.MaxRecipients
       /\ Mail(c) => /\ agreed[c] /= None /\ ~acked[c]
                     /\ agreed[c] = [from |-> sess[c].from, rcpts |-> sess[c].rcpts]

(* The inductive invariant. *)
InboundInv ==
    /\ InboundTypeOK /\ Registration /\ RateInv /\ SessionInv
    /\ PeerAccounting /\ AdmissionLimits /\ AckIsDurable
============================================================================
