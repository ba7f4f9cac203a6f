--------------------------- MODULE SessionProofs ---------------------------
(***************************************************************************)
(* Proofs of the safety properties of Session for any addresses, any        *)
(* configuration and any number of recipients and messages.  The inductive  *)
(* invariant SessionInv ties the transaction in the Session object to what  *)
(* the client was told, and each non-local recipient to verified            *)
(* credentials; both only while a connection is being served, since the     *)
(* object keeps its contents in the pool.                                   *)
(***************************************************************************)
EXTENDS Session, TLAPS

USE DEF serverVars, sessionVars, historyVars, writeResponse, writeNews, JustReply, resetTransactionState

(* What appending to a sequence does to its elements. *)
LEMMA AppendElements ==
    ASSUME NEW S, NEW s \in Seq(S), NEW x \in S
    PROVE  /\ Append(s, x) \in Seq(S) /\ Append(s, x) /= <<>>
           /\ \A i \in DOMAIN Append(s, x) :
                 (i \in DOMAIN s /\ Append(s, x)[i] = s[i]) \/ Append(s, x)[i] = x
           /\ \A i \in DOMAIN Append(s, x) \ DOMAIN s : Append(s, x)[i] = x
<1>1. /\ Append(s, x) \in Seq(S) /\ DOMAIN Append(s, x) = 1..(Len(s) + 1)
      /\ DOMAIN s = 1..Len(s) /\ Len(s) \in Nat
  OBVIOUS
<1>2. Append(s, x)[Len(s) + 1] = x /\ \A i \in DOMAIN s : Append(s, x)[i] = s[i]
  OBVIOUS
<1>3. Append(s, x) /= <<>>
  BY <1>1
<1>4. QED
  BY <1>1, <1>2, <1>3

(* The server is configured once. *)
LEMMA ConfigurationStep == [Next]_vars => UNCHANGED serverVars
  BY DEF Next, vars

(* Every step keeps the variables in their types. *)
LEMMA SessionTypeStep == SessionInv /\ [Next]_vars => SessionTypeOK'
<1> SUFFICES ASSUME SessionInv, [Next]_vars PROVE SessionTypeOK'
  OBVIOUS
<1> USE SessionConstants, ConfigurationStep DEF SessionInv, SessionTypeOK, TransactionInv
<1>0. <<>> \in Seq(Rcpts) /\ 0 \in 0..MaxMessageSize
  OBVIOUS
<1>1. CASE Reset
  BY <1>0, <1>1 DEF Reset
<1>2. CASE handleHelo
  BY <1>0, <1>2 DEF handleHelo
<1>3. CASE handleStartTLS
  BY <1>0, <1>3 DEF handleStartTLS
<1>4. ASSUME NEW from \in Senders, handleMail(from) PROVE SessionTypeOK'
  <2>1. /\ state' \in {state, "Rcpt"} /\ UNCHANGED <<tls, auth, verified, queued, told>>
        /\ phase' \in {"command", "pooled"}
    BY <1>4 DEF handleMail
  <2>2. /\ sender' \in {sender, None, from}
        /\ recipients' \in {recipients, <<>>} /\ size' \in {size, 0}
        /\ agreedFrom' \in {agreedFrom, from} /\ agreedTo' \in {agreedTo, <<>>}
    BY <1>4 DEF handleMail
  <2>3. sender' \in Senders \cup {None} /\ agreedFrom' \in Senders \cup {None}
    BY <2>2
  <2>4. recipients' \in Seq(Rcpts) /\ agreedTo' \in Seq(Rcpts) /\ size' \in 0..MaxMessageSize
    BY <1>0, <2>2
  <2>5. UNCHANGED <<tlsConfig, forceTLS, userStore>>
    BY ConfigurationStep DEF serverVars
  <2>6. QED
    BY <2>1, <2>3, <2>4, <2>5
<1>5. ASSUME NEW to \in Rcpts, handleRcpt(to) PROVE SessionTypeOK'
  <2>1. Append(recipients, to) \in Seq(Rcpts) /\ Append(agreedTo, to) \in Seq(Rcpts)
    BY AppendElements
  <2>2. QED
    BY <1>5, <2>1 DEF handleRcpt
<1>6. CASE handleRset
  BY <1>0, <1>6 DEF handleRset
<1>7. CASE Noop \/ Disconnect
  BY <1>7 DEF Noop, Disconnect
<1>8. CASE handleAuth \/ handleAuthLogin
  <2>1. CASE Authenticate
    BY <2>1 DEF Authenticate
  <2>2. CASE ~Authenticate
    <3>1. /\ phase' \in {"user", "password", "command", "pooled"}
          /\ UNCHANGED <<sessionVars, historyVars>>
      BY <1>8, <2>2 DEF handleAuth, handleAuthLogin, Authenticate
    <3>2. QED
      BY <3>1
  <2>3. QED
    BY <2>1, <2>2
<1>9. CASE handleData \/ DataDone \/ EnqueueFailed
  BY <1>0, <1>9 DEF handleData, DataDone, EnqueueFailed
<1>10. CASE DataLine
  <2>1. size' \in 0..MaxMessageSize
    BY <1>10 DEF DataLine
  <2>2. QED
    BY <1>10, <2>1 DEF DataLine
<1>11. CASE DataDrained
  BY <1>0, <1>11 DEF DataDrained
<1>12. CASE Enqueued
  <2>1. [from |-> sender, to |-> recipients, by |-> verified] \in Envelope
    BY <1>12 DEF Enqueued, Envelope
  <2>2. queued' \in Seq(Envelope)
    BY <1>12, <2>1, AppendElements DEF Enqueued
  <2>3. told' \in Nat
    BY <1>12 DEF Enqueued
  <2>4. QED
    BY <1>0, <1>12, <2>2, <2>3 DEF Enqueued
<1>13. CASE UNCHANGED vars
  BY <1>13 DEF vars
<1>14. QED
  BY <1>1, <1>2, <1>3, <1>4, <1>5, <1>6, <1>7, <1>8, <1>9, <1>10, <1>11, <1>12, <1>13
  DEF Next, Command
(* No step authenticates a session without credentials, or in the clear on a *)
(* server that has TLS.                                                      *)
LEMMA AuthStep == SessionInv /\ [Next]_vars => NoCleartextAuth' /\ AuthInv'
<1> SUFFICES ASSUME SessionInv, [Next]_vars PROVE NoCleartextAuth' /\ AuthInv'
  OBVIOUS
<1> USE SessionConstants, ConfigurationStep DEF SessionInv, SessionTypeOK, AuthInv, NoCleartextAuth
<1>1. CASE Reset
  BY <1>1 DEF Reset
<1>2. CASE handleStartTLS
  BY <1>2 DEF handleStartTLS
<1>3. CASE handleAuth \/ handleAuthLogin
  BY <1>3 DEF handleAuth, handleAuthLogin, Authenticate, AuthAllowed
<1>4. CASE UNCHANGED <<tls, auth, verified>> /\ phase' \notin {"user", "password"}
  BY <1>4
<1>5. CASE UNCHANGED vars
  BY <1>5 DEF vars
<1>6. QED
  BY <1>1, <1>2, <1>3, <1>4, <1>5
  DEF Next, Command, handleHelo, handleMail, handleRcpt, handleRset, Noop, Disconnect, handleData,
      DataLine, DataDrained, DataDone, Enqueued, EnqueueFailed

(* The transaction in the Session object stays the one the client knows of.  *)
LEMMA TransactionStep == SessionInv /\ [Next]_vars => TransactionInv'
<1> SUFFICES ASSUME SessionInv, [Next]_vars PROVE TransactionInv'
  OBVIOUS
<1> USE SessionConstants, ConfigurationStep DEF SessionInv, SessionTypeOK, AuthInv, TransactionInv
<1>1. CASE Reset \/ handleHelo \/ handleRset \/ DataDrained \/ Enqueued
  BY <1>1 DEF Reset, handleHelo, handleRset, DataDrained, Enqueued
<1>2. CASE handleStartTLS
  BY <1>2 DEF handleStartTLS
<1>3. ASSUME NEW from \in Senders, handleMail(from) PROVE TransactionInv'
  <2>1. Range(<<>>) \subseteq Local
    BY DEF Range
  <2>2. QED
    BY <1>3, <2>1 DEF handleMail
<1>4. ASSUME NEW to \in Rcpts, handleRcpt(to) PROVE TransactionInv'
  <2>1. CASE JustReply
    BY <1>4, <2>1 DEF handleRcpt
  <2>2. CASE /\ state \in {"Rcpt", "Data"}
             /\ auth \/ to \in Local
             /\ recipients' = Append(recipients, to)
             /\ writeNews(agreedFrom, Append(agreedTo, to))
             /\ UNCHANGED <<tls, auth, sender, size, verified, queued, told>>
    <3>1. recipients' /= <<>>
      BY <2>2, AppendElements
    <3>2. verified \/ Range(recipients) \subseteq Local
      BY <1>4, <2>2 DEF handleRcpt
    <3>3. verified \/ Range(recipients') \subseteq Local
      BY <2>2, <3>2, AppendElements DEF Range
    <3>4. sender /= None /\ agreedFrom = sender /\ agreedTo = recipients
      BY <1>4, <2>2 DEF handleRcpt
    <3>5. phase' /= "pooled" => agreedFrom' = sender' /\ agreedTo' = recipients'
      BY <2>2, <3>4
    <3>6. Range(recipients)' = Range(recipients')
      BY DEF Range
    <3>7. QED
      BY <2>2, <3>1, <3>3, <3>4, <3>5, <3>6
  <2>3. QED
    BY <1>4, <2>1, <2>2 DEF handleRcpt
<1>5. CASE handleAuth \/ handleAuthLogin
  BY <1>5 DEF handleAuth, handleAuthLogin, Authenticate, AuthAllowed, Range
<1>6. CASE Noop \/ Disconnect \/ handleData \/ DataLine \/ DataDone \/ EnqueueFailed
  BY <1>6 DEF Noop, Disconnect, handleData, DataLine, DataDone, EnqueueFailed, Range
<1>7. CASE UNCHANGED vars
  BY <1>7 DEF vars, Range
<1>8. QED
  BY <1>1, <1>2, <1>3, <1>4, <1>5, <1>6, <1>7 DEF Next, Command

(* Only Enqueued adds to the queue, and what it adds is a transaction that   *)
(* may relay as far as it does.                                              *)
LEMMA QueuedStep == SessionInv /\ [Next]_vars => QueuedInv'
<1> SUFFICES ASSUME SessionInv, [Next]_vars PROVE QueuedInv'
  OBVIOUS
<1> USE SessionConstants, ConfigurationStep DEF SessionInv, QueuedInv, RelayControl
<1>1. CASE Enqueued
  <2> DEFINE e == [from |-> sender, to |-> recipients, by |-> verified]
  <2>1. e \in Envelope /\ (e.by \/ Range(e.to) \subseteq Local) /\ (e.by => userStore)
    BY <1>1 DEF Enqueued, Envelope, SessionTypeOK, TransactionInv, AuthInv
  <2>2. queued \in Seq(Envelope) /\ queued' = Append(queued, e)
    BY <1>1 DEF Enqueued, SessionTypeOK
  <2> HIDE DEF e
  <2>3. \A i \in DOMAIN queued' : (i \in DOMAIN queued /\ queued'[i] = queued[i])
                                  \/ queued'[i] = e
    BY <2>1, <2>2, AppendElements
  <2>4. QED
    BY <2>1, <2>3 DEF Range
<1>2. CASE UNCHANGED queued
  BY <1>2 DEF Range
<1>3. QED
  BY <1>1, <1>2
  DEF Next, Command, vars, Reset, handleHelo, handleStartTLS, handleMail, handleRcpt, handleRset,
      Noop, Disconnect, handleAuth, handleAuthLogin, Authenticate, handleData, DataLine,
      DataDrained, DataDone, EnqueueFailed

(* The inductive invariant holds in every reachable state, from the first    *)
(* Session of the pool through all the connections it serves.                *)
THEOREM SessionInvariant == Spec => []SessionInv
<1>1. Init => SessionInv
  <2> SUFFICES ASSUME Init PROVE SessionInv
    OBVIOUS
  <2> USE SessionConstants DEF Init
  <2>1. SessionTypeOK
    <3>1. queued \in Seq(Envelope) /\ recipients \in Seq(Rcpts) /\ agreedTo \in Seq(Rcpts)
      OBVIOUS
    <3>2. size \in 0..MaxMessageSize /\ told \in Nat
      OBVIOUS
    <3>3. QED
      BY <3>1, <3>2 DEF SessionTypeOK
  <2>2. NoCleartextAuth /\ AuthInv /\ TransactionInv /\ QueuedInv
    BY DEF NoCleartextAuth, AuthInv, TransactionInv, QueuedInv, RelayControl
  <2>3. QED
    BY <2>1, <2>2 DEF SessionInv
<1>2. SessionInv /\ [Next]_vars => SessionInv'
  BY SessionTypeStep, AuthStep, TransactionStep, QueuedStep DEF SessionInv
<1>3. QED
  BY <1>1, <1>2, PTL DEF Spec

(* The session, its envelope and the size of its data stay well-typed. *)
THEOREM SessionTypes == Spec => []SessionTypeOK
<1>1. SessionInv => SessionTypeOK
  BY DEF SessionInv
<1>2. QED
  BY <1>1, SessionInvariant, PTL

(* Mail for other domains is queued only for a client that authenticated on  *)
(* this connection.                                                          *)
THEOREM SessionRelayControl == Spec => []RelayControl
<1>1. SessionInv => RelayControl
  BY DEF SessionInv, QueuedInv, RelayControl
<1>2. QED
  BY <1>1, SessionInvariant, PTL

(* A server with TLS accepts credentials only over TLS. *)
THEOREM SessionNoCleartextAuth == Spec => []NoCleartextAuth
<1>1. SessionInv => NoCleartextAuth
  BY DEF SessionInv
<1>2. QED
  BY <1>1, SessionInvariant, PTL

(* Without a user store nothing is queued for other domains. *)
THEOREM SessionLocalOnly == Spec => []LocalOnly
<1>1. SessionInv => LocalOnly
  BY DEF SessionInv, QueuedInv, RelayControl, LocalOnly
<1>2. QED
  BY <1>1, SessionInvariant, PTL

(* The queue gets exactly the envelope the client was told.                  *)
THEOREM SessionEnvelopeAgreed == Spec => EnvelopeAgreed
<1> DEFINE A == \A i \in DOMAIN queued' \ DOMAIN queued :
                   /\ queued'[i].from = agreedFrom /\ queued'[i].to = agreedTo
                   /\ agreedFrom /= None /\ agreedTo /= <<>>
<1>1. SessionInv /\ [Next]_vars => [A]_vars
  <2> SUFFICES ASSUME SessionInv, Next PROVE A
    OBVIOUS
  <2>1. CASE Enqueued
    <3> DEFINE e == [from |-> sender, to |-> recipients, by |-> verified]
    <3>1. /\ e \in Envelope /\ e.from = agreedFrom /\ e.to = agreedTo
          /\ agreedFrom /= None /\ agreedTo /= <<>>
      BY <2>1 DEF Enqueued, Envelope, SessionInv, SessionTypeOK, TransactionInv
    <3>2. queued \in Seq(Envelope) /\ queued' = Append(queued, e)
      BY <2>1 DEF Enqueued, SessionInv, SessionTypeOK
    <3> HIDE DEF e
    <3>3. \A i \in DOMAIN queued' \ DOMAIN queued : queued'[i] = e
      BY <3>1, <3>2, AppendElements
    <3>4. QED
      BY <3>1, <3>3
  <2>2. CASE queued' = queued
    BY <2>2
  <2>3. QED
    BY <2>1, <2>2
    DEF Next, Command, vars, Reset, handleHelo, handleStartTLS, handleMail, handleRcpt, handleRset,
        Noop, Disconnect, handleAuth, handleAuthLogin, Authenticate, handleData, DataLine,
        DataDrained, DataDone, EnqueueFailed
<1>2. QED
  BY <1>1, SessionInvariant, PTL DEF Spec, EnvelopeAgreed

(* handleData answers 250 exactly when the queue has just taken the message, *)
(* and closes the transaction with it; only a connection that ends with the  *)
(* reply unwritten leaves a queued message unacknowledged.                   *)
THEOREM SessionAckedOnce == Spec => AckedOnce
<1> DEFINE A == /\ told' /= told => queued' /= queued /\ state' = "Mail" /\ agreedFrom' = None
                /\ queued' /= queued => told' = told + 1 \/ phase' = "pooled"
<1>1. SessionInv /\ [Next]_vars => [A]_vars
  <2> SUFFICES ASSUME SessionInv, Next PROVE A
    OBVIOUS
  <2>1. CASE Enqueued
    <3> DEFINE e == [from |-> sender, to |-> recipients, by |-> verified]
    <3>1. e \in Envelope
      BY <2>1 DEF Enqueued, Envelope, SessionInv, SessionTypeOK, TransactionInv
    <3>2. queued \in Seq(Envelope) /\ queued' = Append(queued, e)
      BY <2>1 DEF Enqueued, SessionInv, SessionTypeOK
    <3> HIDE DEF e
    <3>3. queued' /= queued
      BY <3>1, <3>2, AppendElements
    <3>4. CASE phase' = "command"
      BY <2>1, <3>3, <3>4 DEF Enqueued, writeNews
    <3>5. CASE phase' /= "command"
      BY <2>1, <3>5 DEF Enqueued, writeNews
    <3>6. QED
      BY <3>4, <3>5
  <2>2. CASE queued' = queued /\ told' = told
    BY <2>2
  <2>3. QED
    BY <2>1, <2>2
    DEF Next, Command, Reset, handleHelo, handleStartTLS, handleMail, handleRcpt, handleRset,
        Noop, Disconnect, handleAuth, handleAuthLogin, Authenticate, handleData, DataLine,
        DataDrained, DataDone, EnqueueFailed, JustReply, historyVars
<1>2. QED
  BY <1>1, SessionInvariant, PTL DEF Spec, AckedOnce
============================================================================
