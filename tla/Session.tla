------------------------------ MODULE Session ------------------------------
(***************************************************************************)
(* The SMTP session of internal/server/session.go: one pooled Session       *)
(* object, the connections it serves one after the other, and a client that *)
(* sends any command at any time.  A handler runs to its reply in one step, *)
(* except where it reads from the connection (AUTH LOGIN, DATA) or waits    *)
(* for the queue.  A reply may fail to be written; Handle then returns, the *)
(* connection is closed and the object goes back to the pool as it is.      *)
(*                                                                          *)
(* Addresses are what the MAIL and RCPT handlers extract from the command   *)
(* line.  A plugin hook may accept or reject whatever it is asked.          *)
(***************************************************************************)
EXTENDS Integers, Sequences

CONSTANTS
    Senders, Rcpts,  \* addresses that pass isValidEmail
    Local,           \* recipients whose domain is one of localDomains
    None,            \* no sender, no transaction
    MaxMessageSize,  \* s.maxMessageSize, in lines
    MaxRcpts,        \* bound: recipients per transaction
    MaxQueued        \* bound: messages queued

ASSUME SessionConstants ==
    /\ Local \subseteq Rcpts
    /\ None \notin Senders
    /\ MaxMessageSize \in Nat
    /\ MaxRcpts \in Nat /\ MaxQueued \in Nat

VARIABLES
    tlsConfig,   \* the server has a TLS configuration,
    forceTLS,    \* its listener speaks TLS (submission port),
    userStore,   \* it has a user store: set once by NewServerWithOptions
    phase,       \* what the session's goroutine is waiting for
    state,       \* s.state
    tls, auth,   \* s.tls, s.auth
    sender,      \* s.sender
    recipients,  \* s.recipients
    size,        \* lines in dataBuf
    verified,    \* history: credentials were verified on this connection since
                 \* it started or last switched to TLS
    agreedFrom,  \* history: the sender and the recipients of the current
    agreedTo,    \* transaction, as the replies let the client see it
    queued,      \* history: the envelopes Enqueue accepted
    told         \* history: how many of them were acknowledged

serverVars == <<tlsConfig, forceTLS, userStore>>
sessionVars == <<state, tls, auth, sender, recipients, size>>
historyVars == <<verified, agreedFrom, agreedTo, queued, told>>
vars == <<serverVars, phase, sessionVars, historyVars>>

Envelope == [from : Senders, to : Seq(Rcpts), by : BOOLEAN]

SessionTypeOK ==
    /\ tlsConfig \in BOOLEAN /\ forceTLS \in BOOLEAN /\ userStore \in BOOLEAN
    /\ phase \in {"pooled", "command", "user", "password", "data", "drain", "enqueue"}
    /\ state \in {"Initial", "Mail", "Rcpt", "Data"}
    /\ tls \in BOOLEAN /\ auth \in BOOLEAN /\ verified \in BOOLEAN
    /\ sender \in Senders \cup {None}
    /\ recipients \in Seq(Rcpts)
    /\ size \in 0..MaxMessageSize
    /\ agreedFrom \in Senders \cup {None}
    /\ agreedTo \in Seq(Rcpts)
    /\ queued \in Seq(Envelope)
    /\ told \in Nat

(* A Session from pool.New, on a server with any configuration that          *)
(* NewServerWithOptions accepts: not forceTLS without TLS.                   *)
Init ==
    /\ tlsConfig \in BOOLEAN /\ forceTLS \in BOOLEAN /\ userStore \in BOOLEAN
    /\ forceTLS => tlsConfig
    /\ phase = "pooled"
    /\ state = "Initial" /\ tls = FALSE /\ auth = FALSE
    /\ sender = None /\ recipients = <<>> /\ size = 0
    /\ verified = FALSE /\ agreedFrom = None /\ agreedTo = <<>>
    /\ queued = <<>> /\ told = 0

(* writeResponse: the handler returns to the command loop, or ends Handle. *)
writeResponse == phase' \in {"command", "pooled"}

(* writeResponse where the client learns from the reply how its transaction *)
(* stands.                                                                  *)
writeNews(from, to) ==
    \/ phase' = "command" /\ agreedFrom' = from /\ agreedTo' = to
    \/ phase' = "pooled" /\ UNCHANGED <<agreedFrom, agreedTo>>

resetTransactionState == sender' = None /\ recipients' = <<>> /\ size' = 0

(* A reply that changes nothing: an error, NOOP, an unknown command. *)
JustReply == writeResponse /\ UNCHANGED <<sessionVars, historyVars>>

----------------------------------------------------------------------------
(* connectionWorker takes the object from the pool for a new connection:     *)
(* Reset, then the greeting.                                                 *)
Reset ==
    /\ phase = "pooled"
    /\ state' = "Initial"
    /\ tls' = forceTLS
    /\ auth' = FALSE
    /\ resetTransactionState
    /\ verified' = FALSE /\ agreedFrom' = None /\ agreedTo' = <<>>
    /\ writeResponse
    /\ UNCHANGED <<queued, told>>

handleHelo ==
    /\ phase = "command"
    /\ state' = "Mail"
    /\ writeNews(None, <<>>)
    /\ UNCHANGED <<tls, auth, sender, recipients, size, verified, queued, told>>

(* A failed handshake ends the session. *)
handleStartTLS ==
    /\ phase = "command"
    /\ \/ (tls \/ ~tlsConfig) /\ JustReply
       \/ /\ ~tls /\ tlsConfig
          /\ phase' = "pooled"
          /\ UNCHANGED <<sessionVars, historyVars>>
       \/ /\ ~tls /\ tlsConfig
          /\ tls' = TRUE
          /\ state' = "Initial"
          /\ auth' = FALSE
          /\ resetTransactionState
          /\ verified' = FALSE /\ agreedFrom' = None /\ agreedTo' = <<>>
          /\ UNCHANGED <<phase, queued, told>>

(* Faulty variant: MAIL does not reset the transaction. *)
MailKeepsRecipients(from) ==
    /\ phase = "command"
    /\ state = "Mail"
    /\ sender' = from
    /\ state' = "Rcpt"
    /\ writeNews(from, <<>>)
    /\ UNCHANGED <<tls, auth, recipients, size, verified, queued, told>>

(* The transaction is reset before the command is examined: a bad address    *)
(* or a plugin's rejection leaves none.                                      *)
handleMail(from) ==
    /\ phase = "command"
    /\ \/ state /= "Mail" /\ JustReply
       \/ /\ state = "Mail"
          /\ resetTransactionState
          /\ writeResponse
          /\ UNCHANGED <<state, tls, auth, historyVars>>
       \/ /\ state = "Mail"
          /\ sender' = from /\ recipients' = <<>> /\ size' = 0
          /\ state' = "Rcpt"
          /\ writeNews(from, <<>>)
          /\ UNCHANGED <<tls, auth, verified, queued, told>>

(* Faulty variant: the relay check looks at the recipients so far. *)
RcptChecksLate(to) ==
    /\ phase = "command"
    /\ state \in {"Rcpt", "Data"}
    /\ auth \/ \A i \in DOMAIN recipients : recipients[i] \in Local
    /\ Len(recipients) < MaxRcpts
    /\ recipients' = Append(recipients, to)
    /\ state' = "Data"
    /\ writeNews(agreedFrom, Append(agreedTo, to))
    /\ UNCHANGED <<tls, auth, sender, size, verified, queued, told>>

(* Refused: no transaction, a bad address, the relay check, a plugin. *)
handleRcpt(to) ==
    /\ phase = "command"
    /\ \/ JustReply
       \/ /\ state \in {"Rcpt", "Data"}
          /\ auth \/ to \in Local
          /\ Len(recipients) < MaxRcpts
          /\ recipients' = Append(recipients, to)
          /\ state' = "Data"
          /\ writeNews(agreedFrom, Append(agreedTo, to))
          /\ UNCHANGED <<tls, auth, sender, size, verified, queued, told>>

handleRset ==
    /\ phase = "command"
    /\ state' = "Mail"
    /\ resetTransactionState
    /\ writeNews(None, <<>>)
    /\ UNCHANGED <<tls, auth, verified, queued, told>>

(* NOOP and unknown commands; QUIT, a read error or the read timeout. *)
Noop == phase = "command" /\ JustReply
Disconnect ==
    /\ phase \in {"command", "user", "password", "data", "drain"}
    /\ phase' = "pooled"
    /\ UNCHANGED <<sessionVars, historyVars>>

----------------------------------------------------------------------------
(* The end of an AUTH command: 235, or an error reply.  Without a user store *)
(* Authenticate panics; connectionWorker recovers and drops the connection   *)
(* together with the Session object.                                         *)
Authenticate ==
    \/ JustReply
    \/ /\ userStore
       /\ auth' = TRUE /\ verified' = TRUE
       /\ writeResponse
       /\ UNCHANGED <<state, tls, sender, recipients, size, agreedFrom, agreedTo,
                      queued, told>>
    \/ /\ ~userStore
       /\ phase' = "pooled"
       /\ UNCHANGED <<sessionVars, historyVars>>

(* handleAuth up to the mechanism, with PLAIN; SIRE-TOKEN is an error, since *)
(* no server sets jwtValidator.  LOGIN goes on to ask for the user name and  *)
(* the password, or only for the password.                                   *)
AuthAllowed == (tls \/ ~tlsConfig) /\ (tls \/ ~forceTLS) /\ state = "Mail"

handleAuth ==
    /\ phase = "command"
    /\ \/ ~AuthAllowed /\ JustReply
       \/ AuthAllowed /\ Authenticate
       \/ /\ AuthAllowed
          /\ phase' \in {"user", "password", "pooled"}
          /\ UNCHANGED <<sessionVars, historyVars>>

handleAuthLogin ==
    \/ /\ phase = "user"
       /\ phase' \in {"password", "command", "pooled"}
       /\ UNCHANGED <<sessionVars, historyVars>>
    \/ /\ phase = "password"
       /\ Authenticate

----------------------------------------------------------------------------
(* DATA, up to the 354: refused without recipients or by a plugin. *)
handleData ==
    /\ phase = "command"
    /\ \/ JustReply
       \/ /\ state = "Data" /\ recipients /= <<>>
          /\ phase' \in {"data", "pooled"}
          /\ size' = 0
          /\ UNCHANGED <<state, tls, auth, sender, recipients, historyVars>>

(* One line of the body. *)
DataLine ==
    /\ phase = "data"
    /\ IF size + 1 > MaxMessageSize
       THEN phase' = "drain" /\ UNCHANGED size
       ELSE size' = size + 1 /\ UNCHANGED phase
    /\ UNCHANGED <<state, tls, auth, sender, recipients, historyVars>>

(* The terminator of an oversized message: 552. *)
DataDrained ==
    /\ phase = "drain"
    /\ state' = "Mail"
    /\ resetTransactionState
    /\ writeNews(None, <<>>)
    /\ UNCHANGED <<tls, auth, verified, queued, told>>

(* The terminator: the plugins reject the message, or Enqueue is called. *)
DataDone ==
    /\ phase = "data"
    /\ phase' \in {"enqueue", "command", "pooled"}
    /\ UNCHANGED <<sessionVars, historyVars>>

(* Faulty variant: the transaction stays open after the 250. *)
EnqueuedStaysOpen ==
    /\ phase = "enqueue"
    /\ Len(queued) < MaxQueued
    /\ queued' = Append(queued, [from |-> sender, to |-> recipients, by |-> verified])
    /\ writeResponse
    /\ told' = IF phase' = "command" THEN told + 1 ELSE told
    /\ UNCHANGED <<sessionVars, verified, agreedFrom, agreedTo>>

(* Enqueue returned nil: 250. *)
Enqueued ==
    /\ phase = "enqueue"
    /\ Len(queued) < MaxQueued
    /\ queued' = Append(queued, [from |-> sender, to |-> recipients, by |-> verified])
    /\ state' = "Mail"
    /\ resetTransactionState
    /\ writeNews(None, <<>>)
    /\ told' = IF phase' = "command" THEN told + 1 ELSE told
    /\ UNCHANGED <<tls, auth, verified>>

(* Enqueue returned an error: 451, and the transaction stays. *)
EnqueueFailed ==
    /\ phase = "enqueue"
    /\ JustReply

----------------------------------------------------------------------------
Command ==
    \/ Reset
    \/ handleHelo
    \/ handleStartTLS
    \/ \E from \in Senders : handleMail(from)
    \/ \E to \in Rcpts : handleRcpt(to)
    \/ handleRset
    \/ Noop
    \/ Disconnect
    \/ handleAuth
    \/ handleAuthLogin
    \/ handleData
    \/ DataLine
    \/ DataDrained
    \/ DataDone
    \/ Enqueued
    \/ EnqueueFailed

Next == Command /\ UNCHANGED serverVars

Spec == Init /\ [][Next]_vars

----------------------------------------------------------------------------
Range(s) == {s[i] : i \in DOMAIN s}

(* "Unauthenticated senders may only deliver to a configured local domain":  *)
(* a message with a recipient elsewhere reaches the queue only over a        *)
(* connection on which credentials were verified, after its last switch to   *)
(* TLS; nothing an earlier connection left in the pooled object counts.      *)
RelayControl ==
    \A i \in DOMAIN queued : queued[i].by \/ Range(queued[i].to) \subseteq Local

(* "With no local_domains and auth disabled, the server accepts no relayable *)
(* recipients": without a user store, AUTH lets nobody relay.                *)
LocalOnly ==
    ~userStore => \A i \in DOMAIN queued : Range(queued[i].to) \subseteq Local

(* A session is never authenticated in the clear on a server that has TLS.   *)
NoCleartextAuth == auth /\ tlsConfig => tls

(* Every message has exactly the sender and the recipients that the replies  *)
(* acknowledged for this transaction: none of an abandoned transaction, of   *)
(* one cut off by HELO, STARTTLS or an oversized body, or of an earlier      *)
(* connection; and it has at least one recipient.                            *)
EnvelopeAgreed ==
    [][\A i \in DOMAIN queued' \ DOMAIN queued :
          /\ queued'[i].from = agreedFrom /\ queued'[i].to = agreedTo
          /\ agreedFrom /= None /\ agreedTo /= <<>>]_vars

(* The 250 after DATA is only sent for a message the queue has just taken,   *)
(* and ends the transaction on both sides: no second DATA can queue the      *)
(* message again.  A message whose 250 could not be written is the only one  *)
(* the client does not know of, and it ends the connection.                  *)
AckedOnce ==
    [][/\ told' /= told => queued' /= queued /\ state' = "Mail" /\ agreedFrom' = None
       /\ queued' /= queued => told' = told + 1 \/ phase' = "pooled"]_vars

(* What credentials and TLS have to do with each other. *)
AuthInv ==
    /\ auth => verified
    /\ verified => userStore
    /\ phase \in {"user", "password"} => tls \/ ~tlsConfig

(* While a connection is being served, an open transaction is the one the    *)
(* client knows of, and has recipients elsewhere only if it may.             *)
TransactionInv ==
    /\ phase \in {"data", "drain", "enqueue"} => state = "Data"
    /\ phase /= "pooled" /\ state \in {"Rcpt", "Data"}
          => /\ sender /= None
             /\ agreedFrom = sender /\ agreedTo = recipients
             /\ verified \/ Range(recipients) \subseteq Local
    /\ phase /= "pooled" /\ state = "Data" => recipients /= <<>>

(* What the envelopes in the queue promise. *)
QueuedInv ==
    /\ RelayControl
    /\ \A i \in DOMAIN queued : queued[i].by => userStore

(* The inductive invariant. *)
SessionInv ==
    SessionTypeOK /\ NoCleartextAuth /\ AuthInv /\ TransactionInv /\ QueuedInv
============================================================================
