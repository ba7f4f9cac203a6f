--------------------------- MODULE InboundProofs ---------------------------
(***************************************************************************)
(* Proofs about the embeddable receiver, for any number of connections and  *)
(* addresses, any limits and any length of the rate window.  The inductive  *)
(* invariant InboundInv ties the control state of every session goroutine   *)
(* to the tables it shares with the accept loop: the registered             *)
(* connections, the slots of s.data, the peers and their rate windows.      *)
(***************************************************************************)
EXTENDS Inbound, FiniteSetTheorems, TLAPS

(* The limits of a configuration are positive. *)
LEMMA ConfigLimits ==
    ASSUME cfg \in Configs
    PROVE  /\ cfg.MaxRecipients \in Nat /\ cfg.MaxConnections \in Nat /\ cfg.MaxData \in Nat
           /\ cfg.MaxConnectionsPerIP \in Nat /\ cfg.ConnectionsPerMinute \in Nat
           /\ cfg.MaxTrackedIPs \in Nat
  BY InboundConstants, Zenon DEF Config, Limit

(* What the locals of session are after a reset, and at its start. *)
LEMMA ResetType ==
    ASSUME NEW s \in Sess
    PROVE  /\ reset(s) \in Sess /\ reset(s).tx = "none"
           /\ reset(s).rcpts = <<>> /\ Len(reset(s).rcpts) = 0
<1>1. ASSUME NEW e \in Seq(Rcpts)
      PROVE  [s EXCEPT !.tx = "none", !.from = None, !.rcpts = e] \in Sess
  BY Zenon DEF Sess
<1>2. <<>> \in Seq(Rcpts) /\ Len(<<>>) = 0
  OBVIOUS
<1>3. reset(s).tx = "none" /\ reset(s).rcpts = <<>>
  BY Zenon DEF reset, Sess
<1>4. QED
  BY <1>1, <1>2, <1>3, Zenon DEF reset

LEMMA NewSessType ==
    /\ NewSess \in Sess /\ NewSess.tx = "none" /\ NewSess.rcpts = <<>> /\ Len(NewSess.rcpts) = 0
  BY DEF NewSess, Sess

LEMMA ExceptType ==
    ASSUME NEW S, NEW T, NEW f \in [S -> T], NEW x, NEW y \in T
    PROVE  [f EXCEPT ![x] = y] \in [S -> T]
  BY Zenon

(* The steps of a session before its deferred functions run. *)
Talk(c) ==
    \/ JustReply(c) \/ Disconnect(c)
    \/ Ehlo(c) \/ Rset(c) \/ StartTLS(c)
    \/ \E from \in Senders : MailFrom(c, from)
    \/ RcptTo(c) \/ \E to \in Rcpts : RcptReturn(c, to)
    \/ Data(c) \/ DataRead(c) \/ AcceptReturn(c) \/ Ack(c)

(* What holds of the session of one connection. *)
SessInv(c) ==
    /\ pc[c] \in {"check", "data", "accept", "ack"} => Mail(c)
    /\ pc[c] = "ack" => stored[c] = agreed[c]
    /\ pc[c] = "check" => Len(sess[c].rcpts) < cfg.MaxRecipients
    /\ Mail(c) => /\ agreed[c] /= None /\ ~acked[c]
                  /\ agreed[c] = [from |-> sess[c].from, rcpts |-> sess[c].rcpts]
    /\ acked[c] => agreed[c] /= None /\ stored[c] = agreed[c]

(* A session moves its own control state and its own locals, and says so to  *)
(* its own client.                                                           *)
LEMMA TalkEffect ==
    ASSUME InboundInv, NEW c \in Conns, Talk(c)
    PROVE  /\ UNCHANGED <<serveVars, admitVars, closed>>
           /\ pc[c] \notin {"free", "left"}
           /\ \E p \in {"command", "check", "data", "accept", "ack", "leave"} :
                 pc' = [pc EXCEPT ![c] = p]
<1>1. ASSUME send(c)
      PROVE  \E p \in {"command", "check", "data", "accept", "ack", "leave"} : pc' = [pc EXCEPT ![c] = p]
  BY <1>1, Zenon DEF send, Goto
<1>2. CASE JustReply(c)
  BY <1>1, <1>2, Zenon DEF JustReply
<1>3. CASE Disconnect(c)
  BY <1>3, Zenon DEF Disconnect, Goto
<1>4. CASE Ehlo(c)
  BY <1>1, <1>4, Zenon DEF Ehlo
<1>5. CASE Rset(c)
  BY <1>1, <1>5, Zenon DEF Rset
<1>6. CASE StartTLS(c)
  BY <1>1, <1>6, Zenon DEF StartTLS
<1>7. ASSUME NEW from \in Senders, MailFrom(c, from)
      PROVE  /\ UNCHANGED <<serveVars, admitVars, closed>>
             /\ pc[c] \notin {"free", "left"}
             /\ \E p \in {"command", "check", "data", "accept", "ack", "leave"} :
                   pc' = [pc EXCEPT ![c] = p]
  BY <1>1, <1>7, Zenon DEF MailFrom
<1>8. CASE RcptTo(c)
  BY <1>8, Zenon DEF RcptTo, Goto
<1>9. ASSUME NEW to \in Rcpts, RcptReturn(c, to)
      PROVE  /\ UNCHANGED <<serveVars, admitVars, closed>>
             /\ pc[c] \notin {"free", "left"}
             /\ \E p \in {"command", "check", "data", "accept", "ack", "leave"} :
                   pc' = [pc EXCEPT ![c] = p]
  BY <1>1, <1>9, Zenon DEF RcptReturn
<1>10. CASE Data(c)
  BY <1>10, Zenon DEF Data, Goto
<1>11. CASE DataRead(c)
  BY <1>1, <1>11, Zenon DEF DataRead, Refused, Answer, Goto
<1>12. CASE AcceptReturn(c)
  BY <1>1, <1>12, Zenon DEF AcceptReturn, Refused, Answer, Goto
<1>13. CASE Ack(c)
  BY <1>1, <1>13, Zenon DEF Ack, Answer
<1>14. QED
  BY <1>2, <1>3, <1>4, <1>5, <1>6, <1>7, <1>8, <1>9, <1>10, <1>11, <1>12, <1>13, Zenon DEF Talk

(* The same for its locals, the envelope the client knows of and the fate of *)
(* its last message.                                                         *)
Locals(c, s, a, t, k) ==
    /\ sess' = [sess EXCEPT ![c] = s]
    /\ agreed' = [agreed EXCEPT ![c] = a]
    /\ stored' = [stored EXCEPT ![c] = t]
    /\ acked' = [acked EXCEPT ![c] = k]

(* The new locals of a session are good ones. *)
GoodLocals(c) ==
    /\ \E s \in Sess, a \in Envelope \cup {None}, t \in Envelope \cup {None}, k \in BOOLEAN :
          Locals(c, s, a, t, k) /\ Len(s.rcpts) <= cfg.MaxRecipients
    /\ SessInv(c)'

(* Nothing happened to the locals, *)
LEMMA LocalsKept ==
    ASSUME InboundInv, NEW c \in Conns, UNCHANGED <<cfg, sess, historyVars>>,
           \/ pc'[c] \notin {"check", "data", "accept", "ack"}
           \/ pc'[c] \in {"data", "accept"} /\ Mail(c)
           \/ pc'[c] = "check" /\ Mail(c) /\ Len(sess[c].rcpts) < cfg.MaxRecipients
    PROVE  GoodLocals(c)
<1>t. SessionTypeOK /\ SessInv(c)
  BY Zenon DEF InboundInv, InboundTypeOK, SessionInv, AckIsDurable, SessInv
<1>1. UNCHANGED <<cfg, sess, agreed, stored, acked>>
  BY Zenon DEF historyVars
<1>2. Locals(c, sess[c], agreed[c], stored[c], acked[c])
  BY <1>t, <1>1, Zenon DEF Locals, SessionTypeOK
<1>3. /\ sess[c] \in Sess /\ agreed[c] \in Envelope \cup {None}
      /\ stored[c] \in Envelope \cup {None} /\ Len(sess[c].rcpts) <= cfg.MaxRecipients
  BY <1>t, Zenon DEF SessionTypeOK
<1>4. acked[c] \in BOOLEAN
  BY <1>t, Zenon DEF SessionTypeOK
<1>5. SessInv(c)'
  BY <1>t, <1>1, Zenon DEF SessInv, Mail
<1>6. QED
  BY <1>2, <1>3, <1>4, <1>5, Zenon DEF GoodLocals

(* the transaction ended without a message that counts, *)
LEMMA LocalsReset ==
    ASSUME InboundInv, NEW c \in Conns, NEW s \in Sess, s.tx = "none", Len(s.rcpts) = 0,
           sess' = [sess EXCEPT ![c] = s], Told(c, None), pc'[c] \in {"command", "leave", "left"}
    PROVE  GoodLocals(c)
<1>t. SessionTypeOK /\ cfg \in Configs
  BY Zenon DEF InboundInv, InboundTypeOK, ServeTypeOK
<1>1. Locals(c, s, None, None, FALSE)
  BY Zenon DEF Locals, Told
<1>2. sess'[c] = s /\ acked'[c] = FALSE
  BY <1>t, <1>1, Zenon DEF Locals, SessionTypeOK
<1>3. SessInv(c)'
  BY <1>2, Zenon DEF SessInv, Mail
<1>4. Len(s.rcpts) <= cfg.MaxRecipients
  BY <1>t, ConfigLimits
<1>5. QED
  BY <1>1, <1>3, <1>4, Zenon DEF GoodLocals

(* or any of the steps of Talk was taken. *)
LEMMA TalkLocals ==
    ASSUME InboundInv, NEW c \in Conns, Talk(c)
    PROVE  GoodLocals(c)
<1>t. /\ SessionTypeOK /\ cfg \in Configs /\ SessInv(c) /\ sess[c] \in Sess
      /\ pc \in [Conns -> {"free", "command", "check", "data", "accept", "ack", "leave", "left"}]
  <2>1. SessionTypeOK /\ cfg \in Configs
    BY Zenon DEF InboundInv, InboundTypeOK, ServeTypeOK
  <2>2. SessInv(c)
    BY Zenon DEF InboundInv, SessionInv, AckIsDurable, SessInv
  <2>3. QED
    BY <2>1, <2>2, Zenon DEF SessionTypeOK
<1>c. cfg' = cfg
  BY TalkEffect, Zenon DEF serveVars
<1>s. ASSUME send(c) PROVE pc'[c] \in {"command", "leave", "left"}
  BY <1>t, <1>s, Zenon DEF send, Goto
<1>1. CASE JustReply(c)
  BY <1>c, <1>s, <1>1, LocalsKept, Zenon DEF JustReply
<1>2. CASE Disconnect(c)
  BY <1>t, <1>c, <1>2, LocalsKept, Zenon DEF Disconnect, Goto
<1>3. CASE Ehlo(c)
  <2> DEFINE s == [reset(sess[c]) EXCEPT !.helo = TRUE]
  <2>1. s \in Sess /\ s.tx = "none" /\ Len(s.rcpts) = 0
    BY <1>t, ResetType, Zenon DEF Sess
  <2>2. sess' = [sess EXCEPT ![c] = s] /\ Told(c, None)
    BY <1>3, Zenon DEF Ehlo
  <2>3. QED
    BY <1>s, <1>3, <2>1, <2>2, LocalsReset, Zenon DEF Ehlo
<1>4. CASE Rset(c)
  BY <1>t, <1>s, <1>4, ResetType, LocalsReset, Zenon DEF Rset
<1>5. CASE StartTLS(c)
  <2> DEFINE s == [NewSess EXCEPT !.tls = TRUE]
  <2>1. s \in Sess /\ s.tx = "none" /\ Len(s.rcpts) = 0
    BY NewSessType, Zenon DEF Sess
  <2>2. sess' = [sess EXCEPT ![c] = s] /\ Told(c, None)
    BY <1>5, Zenon DEF StartTLS
  <2>3. QED
    BY <1>s, <1>5, <2>1, <2>2, LocalsReset, Zenon DEF StartTLS
<1>6. ASSUME NEW from \in Senders, MailFrom(c, from) PROVE GoodLocals(c)
  <2> DEFINE s == [reset(sess[c]) EXCEPT !.from = from, !.tx = "live"]
             a == [from |-> from, rcpts |-> <<>>]
  <2>1. /\ s \in Sess /\ Len(s.rcpts) = 0
        /\ s.from = from /\ s.rcpts = <<>>
    BY <1>t, ResetType, Zenon DEF Sess
  <2>2. a \in Envelope
    BY DEF Envelope
  <2>3. Locals(c, s, a, None, FALSE)
    BY <1>6, Zenon DEF MailFrom, Locals, Told
  <2>4. sess'[c] = s /\ acked'[c] = FALSE /\ agreed'[c] = a
    BY <1>t, <2>3, Zenon DEF Locals, SessionTypeOK
  <2>5. pc'[c] \in {"command", "leave", "left"}
    BY <1>s, <1>6, Zenon DEF MailFrom
  <2>6. SessInv(c)'
    BY <2>1, <2>2, <2>4, <2>5, InboundConstants, Zenon DEF SessInv
  <2>7. Len(s.rcpts) <= cfg.MaxRecipients
    BY <1>t, <2>1, ConfigLimits
  <2>8. QED
    BY <2>1, <2>2, <2>3, <2>6, <2>7, Zenon DEF GoodLocals
<1>7. CASE RcptTo(c)
  BY <1>t, <1>c, <1>7, LocalsKept, Zenon DEF RcptTo, Goto
<1>8. ASSUME NEW to \in Rcpts, RcptReturn(c, to) PROVE GoodLocals(c)
  <2>1. pc[c] = "check" /\ pc'[c] \in {"command", "leave", "left"}
    BY <1>s, <1>8, Zenon DEF RcptReturn
  <2>2. CASE UNCHANGED <<sess, historyVars>>
    BY <1>c, <2>1, <2>2, LocalsKept, Zenon
  <2>3. CASE ~ UNCHANGED <<sess, historyVars>>
    <3> DEFINE s == [sess[c] EXCEPT !.rcpts = Append(sess[c].rcpts, to)]
               a == [agreed[c] EXCEPT !.rcpts = Append(agreed[c].rcpts, to)]
    <3>1. /\ sess' = [sess EXCEPT ![c] = s] /\ agreed' = [agreed EXCEPT ![c] = a]
          /\ UNCHANGED <<stored, acked>>
      BY <1>8, <2>3, Zenon DEF RcptReturn
    <3>2. /\ Len(sess[c].rcpts) < cfg.MaxRecipients /\ sess[c].rcpts \in Seq(Rcpts)
          /\ agreed[c] = [from |-> sess[c].from, rcpts |-> sess[c].rcpts]
      BY <1>t, <2>1, Zenon DEF SessInv, Sess
    <3>3. ~acked[c]
      BY <1>t, <2>1, Zenon DEF SessInv
    <3>4. agreed[c] \in Envelope
      <4>1. agreed[c] \in Envelope \cup {None}
        BY <1>t, Zenon DEF SessionTypeOK
      <4>2. agreed[c] /= None
        BY <1>t, <2>1, Zenon DEF SessInv
      <4>3. QED
        BY <4>1, <4>2, Zenon
    <3>5. Append(sess[c].rcpts, to) \in Seq(Rcpts)
          /\ Len(Append(sess[c].rcpts, to)) <= cfg.MaxRecipients
      BY <1>t, <3>2, ConfigLimits
    <3>6. s \in Sess /\ a \in Envelope /\ a = [from |-> s.from, rcpts |-> s.rcpts]
      <4>1. ASSUME NEW e \in Seq(Rcpts)
            PROVE  /\ [sess[c] EXCEPT !.rcpts = e] \in Sess
                   /\ [sess[c] EXCEPT !.rcpts = e].rcpts = e
                   /\ [sess[c] EXCEPT !.rcpts = e].from = sess[c].from
        BY <1>t, Zenon DEF Sess
      <4>2. ASSUME NEW e \in Seq(Rcpts)
            PROVE  /\ [agreed[c] EXCEPT !.rcpts = e] \in Envelope
                   /\ [agreed[c] EXCEPT !.rcpts = e] = [from |-> agreed[c].from, rcpts |-> e]
        BY <3>4 DEF Envelope
      <4>3. agreed[c].from = sess[c].from /\ agreed[c].rcpts = sess[c].rcpts
        BY <3>2
      <4>4. QED
        BY <3>5, <4>1, <4>2, <4>3, Zenon
    <3>7. Len(s.rcpts) <= cfg.MaxRecipients
      BY <1>t, <3>5, Zenon DEF Sess
    <3>8. Locals(c, s, a, stored[c], acked[c])
      BY <1>t, <3>1, Zenon DEF Locals, SessionTypeOK
    <3>9. stored[c] \in Envelope \cup {None}
      BY <1>t, Zenon DEF SessionTypeOK
    <3>10. acked[c] \in BOOLEAN
      BY <1>t, Zenon DEF SessionTypeOK
    <3>11. SessInv(c)'
      <4>1. sess'[c] = s /\ agreed'[c] = a /\ acked'[c] = acked[c]
        BY <1>t, <3>1, Zenon DEF SessionTypeOK
      <4>2. QED
        BY <2>1, <3>3, <3>6, <4>1, InboundConstants, Zenon DEF SessInv
    <3>12. QED
      BY ZenonT(30), <3>6, <3>7, <3>8, <3>9, <3>10, <3>11 DEF GoodLocals
  <2>4. QED
    BY <2>2, <2>3, Zenon
<1>9. CASE Data(c)
  BY <1>t, <1>c, <1>9, LocalsKept, Zenon DEF Data, Goto
<1>10. ASSUME Refused(c) PROVE GoodLocals(c)
  BY <1>t, <1>s, <1>10, ResetType, LocalsReset, Zenon DEF Refused, Answer
<1>11. CASE DataRead(c)
  <2>1. CASE Refused(c)
    BY <1>10, <2>1, Zenon
  <2>2. CASE Goto(c, "leave") /\ UNCHANGED <<sess, historyVars>>
    BY <1>t, <1>c, <2>2, LocalsKept, Zenon DEF Goto
  <2>3. CASE Goto(c, "accept") /\ UNCHANGED <<sess, historyVars>>
    BY <1>t, <1>c, <1>11, <2>3, LocalsKept, Zenon DEF DataRead, Goto, SessInv
  <2>4. QED
    BY <1>11, <2>1, <2>2, <2>3, Zenon DEF DataRead
<1>12. CASE AcceptReturn(c)
  <2>1. CASE Refused(c)
    BY <1>10, <2>1, Zenon
  <2>2. CASE ~Refused(c)
    <3>1. /\ pc[c] = "accept" /\ Goto(c, "ack") /\ UNCHANGED <<sess, agreed, acked>>
          /\ stored' = [stored EXCEPT ![c] = [from |-> sess[c].from, rcpts |-> sess[c].rcpts]]
      BY <1>12, <2>2, Zenon DEF AcceptReturn
    <3>2. /\ Mail(c) /\ agreed[c] = [from |-> sess[c].from, rcpts |-> sess[c].rcpts]
          /\ agreed[c] /= None /\ ~acked[c]
      BY <1>t, <3>1, Zenon DEF SessInv
    <3>3. stored' = [stored EXCEPT ![c] = agreed[c]]
      BY <3>1, <3>2, Zenon
    <3>4. Locals(c, sess[c], agreed[c], agreed[c], acked[c])
      BY <1>t, <3>1, <3>3, Zenon DEF Locals, SessionTypeOK
    <3>5. agreed[c] \in Envelope \cup {None} /\ Len(sess[c].rcpts) <= cfg.MaxRecipients
      BY <1>t, Zenon DEF SessionTypeOK
    <3>6. acked[c] \in BOOLEAN
      BY <1>t, Zenon DEF SessionTypeOK
    <3>7. SessInv(c)'
      <4>1. pc'[c] = "ack" /\ stored'[c] = agreed[c]
        BY <1>t, <3>1, <3>3, Zenon DEF Goto, SessionTypeOK
      <4>2. QED
        BY <3>1, <3>2, <4>1, Zenon DEF SessInv, Mail
    <3>8. QED
      BY <1>t, <3>4, <3>5, <3>6, <3>7, Zenon DEF GoodLocals
  <2>3. QED
    BY <2>1, <2>2, Zenon
<1>13. CASE Ack(c)
  <2> DEFINE s == reset(sess[c])
  <2>1. /\ pc[c] = "ack" /\ send(c) /\ sess' = [sess EXCEPT ![c] = s]
        /\ acked' = [acked EXCEPT ![c] = TRUE] /\ UNCHANGED <<agreed, stored>>
    BY <1>13, Zenon DEF Ack, Answer
  <2>2. s \in Sess /\ s.tx = "none" /\ Len(s.rcpts) <= cfg.MaxRecipients
    BY <1>t, ResetType, ConfigLimits
  <2> HIDE DEF s
  <2>3. agreed[c] /= None /\ stored[c] = agreed[c]
    BY <1>t, <2>1, Zenon DEF SessInv
  <2>4. agreed[c] \in Envelope \cup {None}
    BY <1>t, Zenon DEF SessionTypeOK
  <2>5. Locals(c, s, agreed[c], agreed[c], TRUE)
    BY <1>t, <2>1, <2>3, Zenon DEF Locals, SessionTypeOK
  <2>6. SessInv(c)'
    <3>1. sess'[c] = s /\ pc'[c] \in {"command", "leave", "left"}
      BY <1>t, <1>s, <2>1, Zenon DEF SessionTypeOK
    <3>2. QED
      BY <2>1, <2>2, <2>3, <3>1, Zenon DEF SessInv, Mail
  <2>7. QED
    BY <2>2, <2>4, <2>5, <2>6, Zenon DEF GoodLocals
<1>14. QED
  BY <1>1, <1>2, <1>3, <1>4, <1>5, <1>6, <1>7, <1>8, <1>9, <1>11, <1>12, <1>13, Zenon DEF Talk

----------------------------------------------------------------------------
(* The slots of s.data. *)

Busy == {c \in Conns : pc[c] \in {"data", "accept", "ack"}}

(* A goroutine that goes into or out of a message changes their number. *)
LEMMA BusyCount ==
    ASSUME InboundInv, NEW c \in Conns, NEW p, pc' = [pc EXCEPT ![c] = p]
    PROVE  /\ Cardinality(Busy) \in Nat
           /\ (pc[c] \in {"data", "accept", "ack"} <=> p \in {"data", "accept", "ack"})
                 => Cardinality(Busy') = Cardinality(Busy)
           /\ pc[c] \notin {"data", "accept", "ack"} /\ p \in {"data", "accept", "ack"}
                 => Cardinality(Busy') = Cardinality(Busy) + 1
           /\ pc[c] \in {"data", "accept", "ack"} /\ p \notin {"data", "accept", "ack"}
                 => Cardinality(Busy') = Cardinality(Busy) - 1 /\ Cardinality(Busy) >= 1
<1>t. DOMAIN pc = Conns
  BY Zenon DEF InboundInv, InboundTypeOK, SessionTypeOK
<1>1. IsFiniteSet(Busy) /\ Cardinality(Busy) \in Nat
  BY InboundConstants, FS_Subset, FS_CardinalityType, Zenon DEF Busy
<1>2. ASSUME pc[c] \in {"data", "accept", "ack"} <=> p \in {"data", "accept", "ack"}
      PROVE  Busy' = Busy
  BY <1>t, <1>2, Zenon DEF Busy
<1>3. ASSUME pc[c] \notin {"data", "accept", "ack"}, p \in {"data", "accept", "ack"}
      PROVE  Cardinality(Busy') = Cardinality(Busy) + 1
  <2>1. Busy' = Busy \cup {c} /\ c \notin Busy
    BY <1>t, <1>3, Zenon DEF Busy
  <2>2. QED
    BY <1>1, <2>1, FS_AddElement, Zenon
<1>4. ASSUME pc[c] \in {"data", "accept", "ack"}, p \notin {"data", "accept", "ack"}
      PROVE  Cardinality(Busy') = Cardinality(Busy) - 1 /\ Cardinality(Busy) >= 1
  <2>1. Busy' = Busy \ {c} /\ c \in Busy
    BY <1>t, <1>4, Zenon DEF Busy
  <2>2. Cardinality(Busy') = Cardinality(Busy) - 1
    BY <1>1, <2>1, FS_RemoveElement, Zenon
  <2>3. Cardinality(Busy) /= 0
    BY <1>1, <2>1, FS_EmptySet, Zenon
  <2>4. QED
    BY <1>1, <2>2, <2>3
<1>5. QED
  BY <1>1, <1>2, <1>3, <1>4, Zenon

(* A session takes a slot when it goes into a message and gives it back when *)
(* it comes out.                                                             *)
LEMMA TalkData ==
    ASSUME InboundInv, NEW c \in Conns, Talk(c)
    PROVE  \/ data' = data /\ (pc[c] \in {"data", "accept", "ack"} <=> pc'[c] \in {"data", "accept", "ack"})
           \/ /\ data' = data + 1 /\ data < cfg.MaxData
              /\ pc[c] \notin {"data", "accept", "ack"} /\ pc'[c] \in {"data", "accept", "ack"}
           \/ /\ data' = data - 1
              /\ pc[c] \in {"data", "accept", "ack"} /\ pc'[c] \notin {"data", "accept", "ack"}
<1>t. pc \in [Conns -> {"free", "command", "check", "data", "accept", "ack", "leave", "left"}]
  BY Zenon DEF InboundInv, InboundTypeOK, SessionTypeOK
<1>s. ASSUME send(c) PROVE pc'[c] \in {"command", "leave"}
  BY <1>t, <1>s, Zenon DEF send, Goto
<1>1. CASE JustReply(c) \/ Ehlo(c) \/ Rset(c) \/ StartTLS(c)
  BY <1>s, <1>1, Zenon DEF JustReply, Ehlo, Rset, StartTLS
<1>2. CASE (\E from \in Senders : MailFrom(c, from)) \/ \E to \in Rcpts : RcptReturn(c, to)
  BY <1>s, <1>2, Zenon DEF MailFrom, RcptReturn
<1>3. CASE Disconnect(c) \/ RcptTo(c)
  BY <1>t, <1>3, Zenon DEF Disconnect, RcptTo, Goto
<1>4. CASE Data(c)
  BY <1>t, <1>4, Zenon DEF Data, Goto
<1>5. CASE DataRead(c)
  BY <1>t, <1>s, <1>5, Zenon DEF DataRead, Refused, Answer, Goto
<1>6. CASE AcceptReturn(c)
  BY <1>t, <1>s, <1>6, Zenon DEF AcceptReturn, Refused, Answer, Goto
<1>7. CASE Ack(c)
  BY <1>s, <1>7, Zenon DEF Ack, Answer
<1>8. QED
  BY <1>1, <1>2, <1>3, <1>4, <1>5, <1>6, <1>7, Zenon DEF Talk

(* s.data counts the goroutines that are in a message. *)
LEMMA DataStep ==
    ASSUME InboundInv, [Next]_vars
    PROVE  data' = Cardinality(Busy') /\ data' \in 0..cfg.MaxData
<1>t. /\ pc \in [Conns -> {"free", "command", "check", "data", "accept", "ack", "leave", "left"}]
      /\ data \in 0..cfg.MaxData /\ cfg.MaxData \in Nat
  BY ConfigLimits, Zenon DEF InboundInv, InboundTypeOK, ServeTypeOK, SessionTypeOK
<1>i. data = Cardinality(Busy)
  BY Zenon DEF InboundInv, Registration, Busy
<1>1. ASSUME NEW c \in Conns, NEW p, pc' = [pc EXCEPT ![c] = p], UNCHANGED data,
             pc[c] \notin {"data", "accept", "ack"}, p \notin {"data", "accept", "ack"}
      PROVE  data' = Cardinality(Busy') /\ data' \in 0..cfg.MaxData
  BY <1>t, <1>i, <1>1, BusyCount, Zenon
<1>2. ASSUME NEW c \in Conns, Talk(c)
      PROVE  data' = Cardinality(Busy') /\ data' \in 0..cfg.MaxData
  <2>1. PICK p : pc' = [pc EXCEPT ![c] = p]
    BY <1>2, TalkEffect, Zenon
  <2>2. pc'[c] = p
    BY <1>t, <2>1, Zenon
  <2>3. DOMAIN pc = Conns
    BY <1>t, Zenon
  <2>4. CASE data' = data /\ (pc[c] \in {"data", "accept", "ack"} <=> p \in {"data", "accept", "ack"})
    BY <1>t, <1>i, <2>1, <2>3, <2>4, BusyCount, Zenon
  <2>5. CASE /\ data' = data + 1 /\ data < cfg.MaxData
             /\ pc[c] \notin {"data", "accept", "ack"} /\ p \in {"data", "accept", "ack"}
    <3>1. Cardinality(Busy') = Cardinality(Busy) + 1
      BY <2>1, <2>5, BusyCount, Zenon
    <3>2. QED
      BY <1>t, <1>i, <2>5, <3>1
  <2>6. CASE /\ data' = data - 1
             /\ pc[c] \in {"data", "accept", "ack"} /\ p \notin {"data", "accept", "ack"}
    <3>1. Cardinality(Busy') = Cardinality(Busy) - 1 /\ Cardinality(Busy) >= 1
      BY <2>1, <2>3, <2>6, BusyCount, Zenon
    <3>2. QED
      BY <1>t, <1>i, <2>6, <3>1
  <2>7. QED
    BY <1>2, <2>2, <2>4, <2>5, <2>6, TalkData, Zenon
<1>3. ASSUME NEW c \in Conns, Admit(c) \/ Leave(c) \/ Release(c)
      PROVE  data' = Cardinality(Busy') /\ data' \in 0..cfg.MaxData
  <2>1. CASE Admit(c)
    BY Zenon, <1>1, <2>1 DEF Admit
  <2>2. CASE Leave(c)
    BY Zenon, <1>1, <2>2 DEF Leave
  <2>3. CASE Release(c)
    BY Zenon, <1>1, <2>3 DEF Release
  <2>4. QED
    BY <1>3, <2>1, <2>2, <2>3, Zenon
<1>4. CASE UNCHANGED <<pc, data>>
  BY <1>t, <1>i, <1>4, Zenon DEF Busy
<1>5. ASSUME \/ Serve \/ Cancel \/ Watch \/ AcceptError \/ ServeReturn \/ Refuse \/ Tick
             \/ UNCHANGED vars \/ (\E i \in IPs : Accept(i)) \/ \E c \in Conns : Expire(c)
      PROVE  UNCHANGED <<pc, data>>
  BY <1>5, Zenon DEF Serve, Cancel, Watch, AcceptError, ServeReturn, Refuse, Tick, vars,
     Accept, Expire
<1>6. QED
  BY <1>2, <1>3, <1>4, <1>5, Zenon DEF Next, Session, Talk

----------------------------------------------------------------------------
(* The sessions. *)

(* The session of one connection keeps its types and its invariant if what   *)
(* happened to its locals is good; nothing happens to the others.            *)
LEMMA SessionMoves ==
    ASSUME InboundInv, NEW c \in Conns, GoodLocals(c), cfg' = cfg, data' \in 0..cfg.MaxData,
           NEW p \in {"free", "command", "check", "data", "accept", "ack", "leave", "left"},
           pc' = [pc EXCEPT ![c] = p]
    PROVE  SessionTypeOK' /\ \A d \in Conns : SessInv(d)'
<1>t. SessionTypeOK /\ \A d \in Conns : SessInv(d)
  BY Zenon DEF InboundInv, InboundTypeOK, SessionInv, AckIsDurable, SessInv
<1>1. PICK s \in Sess, a \in Envelope \cup {None}, t \in Envelope \cup {None}, k \in BOOLEAN :
         Locals(c, s, a, t, k) /\ Len(s.rcpts) <= cfg.MaxRecipients
  BY Zenon DEF GoodLocals
<1>2. /\ pc' \in [Conns -> {"free", "command", "check", "data", "accept", "ack", "leave", "left"}]
      /\ sess' \in [Conns -> Sess] /\ \A d \in Conns : Len(sess'[d].rcpts) <= cfg.MaxRecipients
      /\ agreed' \in [Conns -> Envelope \cup {None}]
      /\ stored' \in [Conns -> Envelope \cup {None}]
  BY <1>t, <1>1, Zenon DEF SessionTypeOK, Locals
<1>3. acked' \in [Conns -> BOOLEAN]
  BY <1>t, <1>1, ExceptType, Zenon DEF SessionTypeOK, Locals
<1>4. SessionTypeOK'
  BY <1>2, <1>3, Zenon DEF SessionTypeOK
<1>5. ASSUME NEW d \in Conns, d /= c PROVE SessInv(d)'
  <2>1. /\ pc'[d] = pc[d] /\ sess'[d] = sess[d] /\ agreed'[d] = agreed[d]
        /\ stored'[d] = stored[d] /\ acked'[d] = acked[d]
    BY <1>t, <1>1, <1>5, Zenon DEF SessionTypeOK, Locals
  <2>2. QED
    BY <1>t, <2>1, Zenon DEF SessInv, Mail
<1>6. QED
  BY <1>4, <1>5, Zenon DEF GoodLocals

LEMMA SessionStep ==
    ASSUME InboundInv, [Next]_vars
    PROVE  SessionTypeOK' /\ SessionInv' /\ AckIsDurable'
<1> DEFINE Good == SessionTypeOK' /\ \A d \in Conns : SessInv(d)'
<1>t. SessionTypeOK /\ \A d \in Conns : SessInv(d)
  BY Zenon DEF InboundInv, InboundTypeOK, SessionInv, AckIsDurable, SessInv
<1>d. data' \in 0..cfg.MaxData
  BY DataStep, Zenon
<1>1. ASSUME UNCHANGED <<cfg, pc, sess, data, historyVars>> PROVE Good
  <2>1. SessionTypeOK'
    BY <1>t, <1>1, Zenon DEF SessionTypeOK, historyVars
  <2>2. \A d \in Conns : SessInv(d)'
    BY <1>t, <1>1, Zenon DEF SessInv, Mail, historyVars
  <2>3. QED
    BY <2>1, <2>2, Zenon
<1>2. ASSUME NEW c \in Conns, Talk(c) PROVE Good
  <2>1. cfg' = cfg /\ GoodLocals(c)
    BY <1>2, TalkEffect, TalkLocals, Zenon DEF serveVars
  <2>2. QED
    BY <1>2, <1>d, <2>1, TalkEffect, SessionMoves, Zenon
<1>3. ASSUME NEW c \in Conns, Admit(c) \/ Release(c) PROVE Good
  <2>1. PICK p \in {"command", "free"} :
           /\ pc' = [pc EXCEPT ![c] = p] /\ UNCHANGED <<cfg, sess, historyVars>>
    BY <1>3, Zenon DEF Admit, Release, serveVars
  <2>2. pc'[c] = p
    BY <1>t, <2>1, Zenon DEF SessionTypeOK
  <2>3. GoodLocals(c)
    BY <2>1, <2>2, LocalsKept, Zenon
  <2>4. QED
    BY <1>d, <2>1, <2>3, SessionMoves, Zenon
<1>4. ASSUME NEW c \in Conns, Leave(c) PROVE Good
  <2>1. /\ pc' = [pc EXCEPT ![c] = "left"] /\ sess' = [sess EXCEPT ![c] = NewSess]
        /\ Told(c, None) /\ UNCHANGED cfg
    BY <1>4, Zenon DEF Leave, serveVars
  <2>2. pc'[c] = "left"
    BY <1>t, <2>1, Zenon DEF SessionTypeOK
  <2>3. GoodLocals(c)
    BY <2>1, <2>2, NewSessType, LocalsReset, Zenon
  <2>4. QED
    BY <1>d, <2>1, <2>3, SessionMoves, Zenon
<1>5. ASSUME NEW c \in Conns, Expire(c) PROVE Good
  <2> DEFINE s == [sess[c] EXCEPT !.tx = "expired"]
  <2>1. /\ sess[c].tx = "live" /\ sess' = [sess EXCEPT ![c] = s]
        /\ UNCHANGED <<cfg, pc, agreed, stored, acked>>
    BY <1>5, Zenon DEF Expire, serveVars, historyVars
  <2>2. /\ s \in Sess /\ s.rcpts = sess[c].rcpts /\ s.from = sess[c].from /\ s.tx = "expired"
        /\ sess'[c] = s
    BY <1>t, <2>1, Zenon DEF SessionTypeOK, Sess
  <2> HIDE DEF s
  <2>3. Locals(c, s, agreed[c], stored[c], acked[c])
    BY <1>t, <2>1, Zenon DEF SessionTypeOK, Locals
  <2>4. agreed[c] \in Envelope \cup {None} /\ stored[c] \in Envelope \cup {None}
    BY <1>t, Zenon DEF SessionTypeOK
  <2>5. acked[c] \in BOOLEAN
    BY <1>t, Zenon DEF SessionTypeOK
  <2>6. SessInv(c)'
    BY <1>t, <2>1, <2>2, Zenon DEF SessInv, Mail
  <2>7. GoodLocals(c)
    BY <1>t, <2>2, <2>3, <2>4, <2>5, <2>6, Zenon DEF GoodLocals, SessionTypeOK
  <2>8. /\ pc' = [pc EXCEPT ![c] = pc[c]]
        /\ pc[c] \in {"free", "command", "check", "data", "accept", "ack", "leave", "left"}
    BY <1>t, <2>1, Zenon DEF SessionTypeOK
  <2>9. QED
    BY <1>d, <2>1, <2>7, <2>8, SessionMoves, Zenon
<1>6. ASSUME \/ Serve \/ Cancel \/ Watch \/ AcceptError \/ ServeReturn \/ Refuse \/ Tick
             \/ UNCHANGED vars \/ \E i \in IPs : Accept(i)
      PROVE  UNCHANGED <<cfg, pc, sess, data, historyVars>>
  BY <1>6, Zenon DEF Serve, Cancel, Watch, AcceptError, ServeReturn, Refuse, Tick, vars,
     Accept, serveVars
<1>7. Good
  BY <1>1, <1>2, <1>3, <1>4, <1>5, <1>6, Zenon DEF Next, Session, Talk
<1>8. QED
  BY <1>7, Zenon DEF SessInv, SessionInv, AckIsDurable

----------------------------------------------------------------------------
(* The peers and their rate windows. *)

(* The goroutines of an address, by the count that its peer has of them. *)
ActiveOf(p) == IF p = None THEN 0 ELSE p.active

(* The loop over s.peers forgets only peers that are idle and whose window   *)
(* is over.                                                                  *)
LEMMA PurgeFacts ==
    ASSUME InboundInv, NEW i \in IPs
    PROVE  /\ Purge[i] \in Peer \cup {None}
           /\ ActiveOf(Purge[i]) = ActiveOf(peers[i])
           /\ Purge[i] /= None => Purge[i] = peers[i]
           /\ WindowOK(Purge[i], recent[i])
<1>t. peers[i] \in Peer \cup {None} /\ WindowOK(peers[i], recent[i])
  BY Zenon DEF InboundInv, InboundTypeOK, PeerTypeOK, RateInv
<1>1. CASE Purge[i] = peers[i]
  BY <1>t, <1>1, Zenon
<1>2. CASE Purge[i] /= peers[i]
  <2>1. Purge[i] = None /\ peers[i] /= None /\ peers[i].active = 0 /\ peers[i].age = Minute
    BY <1>2, Zenon DEF Purge
  <2>2. recent[i][1] = 0 /\ recent[i][Minute] <= peers[i].attempts
        /\ peers[i].attempts <= cfg.ConnectionsPerMinute
    BY <1>t, <2>1, Zenon DEF WindowOK, InWindow
  <2>3. peers[i].attempts \in Nat /\ recent[i][Minute] \in Nat /\ cfg.ConnectionsPerMinute \in Nat
    BY <1>t, <2>1, ConfigLimits, InboundConstants
       DEF Peer, InboundInv, InboundTypeOK, PeerTypeOK, ServeTypeOK, Limit
  <2>4. recent[i][Minute] <= cfg.ConnectionsPerMinute
    BY <2>2, <2>3
  <2>5. QED
    BY <1>t, <2>1, <2>2, <2>4, Zenon DEF WindowOK, ActiveOf
<1>3. QED
  BY <1>1, <1>2, Zenon

(* The peer that the limits are applied to is in a window that is not over. *)
LEMMA PeerOfFacts ==
    ASSUME InboundInv, NEW i \in IPs
    PROVE  /\ PeerOf(i) \in Peer /\ PeerOf(i).age < Minute
           /\ PeerOf(i).active = ActiveOf(peers[i])
           /\ WindowOK(PeerOf(i), recent[i])
<1> DEFINE p == Purge[i]
           r == recent[i]
<1>t. /\ p \in Peer \cup {None} /\ ActiveOf(p) = ActiveOf(peers[i]) /\ WindowOK(p, r)
      /\ r \in [1..Minute -> Nat] /\ cfg.ConnectionsPerMinute \in Nat
      /\ Minute \in Nat /\ Minute >= 1 /\ None \notin Peer
  BY PurgeFacts, ConfigLimits, InboundConstants
     DEF InboundInv, InboundTypeOK, PeerTypeOK, ServeTypeOK, Limit
<1> HIDE DEF p, r
<1>1. CASE p /= None /\ p.age /= Minute
  <2>1. PeerOf(i) = p
    BY <1>1, Zenon DEF PeerOf, p
  <2>2. p \in Peer /\ p.age < Minute
    BY <1>t, <1>1 DEF Peer
  <2>3. QED
    BY <1>t, <1>1, <2>1, <2>2, Zenon DEF ActiveOf, r
<1>2. ASSUME NEW q \in Peer, q.attempts = 0, q.age = 0, r[1] = 0,
             r[Minute] <= cfg.ConnectionsPerMinute
      PROVE  q.age < Minute /\ WindowOK(q, r)
  <2>1. InWindow(q.age) = 1 /\ q /= None
    BY <1>t, <1>2 DEF InWindow
  <2>2. \A s, t \in 1..Minute : s <= t => r[s] <= r[t]
    BY <1>t, Zenon DEF WindowOK
  <2>3. r[Minute] \in Nat
    BY <1>t
  <2>4. QED
    BY <1>t, <1>2, <2>1, <2>2, <2>3 DEF WindowOK
<1>3. CASE p /= None /\ p.age = Minute
  <2> DEFINE q == [p EXCEPT !.attempts = 0, !.age = 0]
  <2>1. PeerOf(i) = q
    BY <1>3, Zenon DEF PeerOf, p
  <2>2. q \in Peer /\ q.attempts = 0 /\ q.age = 0 /\ q.active = p.active
    <3>1. ASSUME NEW a \in Nat, NEW b \in 0..Minute
          PROVE  /\ [p EXCEPT !.attempts = a, !.age = b] \in Peer
                 /\ [p EXCEPT !.attempts = a, !.age = b].attempts = a
                 /\ [p EXCEPT !.attempts = a, !.age = b].age = b
                 /\ [p EXCEPT !.attempts = a, !.age = b].active = p.active
      BY <1>t, <1>3, Zenon DEF Peer
    <3>2. 0 \in Nat /\ 0 \in 0..Minute
      BY <1>t
    <3>3. QED
      BY <3>1, <3>2, Zenon
  <2>3. r[1] = 0 /\ r[Minute] <= p.attempts /\ p.attempts <= cfg.ConnectionsPerMinute
    BY <1>t, <1>3, Zenon DEF WindowOK, InWindow
  <2>4. r[Minute] <= cfg.ConnectionsPerMinute
    BY <1>t, <1>3, <2>3 DEF Peer
  <2>5. QED
    BY <1>t, <1>2, <1>3, <2>1, <2>2, <2>3, <2>4, Zenon DEF ActiveOf, r
<1>4. CASE p = None
  <2> DEFINE q == [active |-> 0, attempts |-> 0, age |-> 0]
  <2>1. PeerOf(i) = q
    BY <1>4, Zenon DEF PeerOf, p
  <2>2. q \in Peer
    BY <1>t DEF Peer
  <2>3. r[1] = 0 /\ r[Minute] <= cfg.ConnectionsPerMinute
    BY <1>t, <1>4, Zenon DEF WindowOK
  <2>4. QED
    BY <1>t, <1>2, <1>4, <2>1, <2>2, <2>3 DEF ActiveOf, r
<1>5. QED
  BY <1>1, <1>3, <1>4, Zenon

(* One more admission in the window. *)
LEMMA WindowAdmit ==
    ASSUME cfg \in Configs, NEW p \in Peer, NEW r \in [1..Minute -> Nat], WindowOK(p, r),
           p.age < Minute, p.attempts < cfg.ConnectionsPerMinute,
           NEW q, q = [p EXCEPT !.active = @ + 1, !.attempts = @ + 1]
    PROVE  /\ q \in Peer /\ q.active = p.active + 1
           /\ WindowOK(q, [t \in 1..Minute |-> r[t] + 1])
<1> DEFINE w == [t \in 1..Minute |-> r[t] + 1]
           k == InWindow(p.age)
<1>t. Minute \in Nat /\ Minute >= 1 /\ cfg.ConnectionsPerMinute \in Nat /\ None \notin Peer
  BY InboundConstants, ConfigLimits DEF Limit
<1>1. /\ q \in Peer /\ q.active = p.active + 1 /\ q.attempts = p.attempts + 1 /\ q.age = p.age
      /\ p.attempts \in Nat /\ p.age \in Nat
  <2>1. p.active \in Nat /\ p.attempts \in Nat /\ p.age \in 0..Minute
    BY Zenon DEF Peer
  <2>2. PICK a \in Nat, b \in Nat : a = p.active + 1 /\ b = p.attempts + 1
    BY <2>1
  <2>3. q = [p EXCEPT !.active = a, !.attempts = b]
    BY <2>2, Zenon DEF Peer
  <2>4. q \in Peer /\ q.active = a /\ q.attempts = b /\ q.age = p.age
    BY <2>3, Zenon DEF Peer
  <2>5. QED
    BY <1>t, <2>1, <2>2, <2>4
<1>2. k \in 1..Minute
  BY <1>t, <1>1 DEF InWindow
<1>3. w[k] = r[k] + 1 /\ w[Minute] = r[Minute] + 1 /\ r[k] \in Nat /\ r[Minute] \in Nat
  BY <1>t, <1>2
<1>4. r[k] <= p.attempts /\ r[Minute] - r[k] <= cfg.ConnectionsPerMinute
  BY <1>t, Zenon DEF WindowOK
<1>5. \A s, t \in 1..Minute : s <= t => w[s] <= w[t]
  BY DEF WindowOK
<1> HIDE DEF w
<1>6. /\ q.attempts <= cfg.ConnectionsPerMinute /\ w[k] <= q.attempts
      /\ w[Minute] - w[k] <= cfg.ConnectionsPerMinute /\ q.age /= Minute /\ q /= None
  BY <1>t, <1>1, <1>3, <1>4
<1>7. WindowOK(q, w)
  BY <1>1, <1>5, <1>6, Zenon DEF WindowOK
<1>8. QED
  BY <1>1, <1>7, Zenon DEF w

(* One tick later. *)
LEMMA WindowTick ==
    ASSUME cfg \in Configs, NEW p \in Peer \cup {None}, NEW r \in [1..Minute -> Nat],
           WindowOK(p, r),
           NEW q, q = IF p = None \/ p.age = Minute THEN p ELSE [p EXCEPT !.age = @ + 1]
    PROVE  /\ q \in Peer \cup {None} /\ ActiveOf(q) = ActiveOf(p) /\ (q = None <=> p = None)
           /\ WindowOK(q, [t \in 1..Minute |-> IF t = 1 THEN 0 ELSE r[t - 1]])
<1> DEFINE w == [t \in 1..Minute |-> IF t = 1 THEN 0 ELSE r[t - 1]]
<1>t. Minute \in Nat /\ Minute >= 1 /\ cfg.ConnectionsPerMinute \in Nat /\ None \notin Peer
  BY InboundConstants, ConfigLimits DEF Limit
<1>m. \A s, t \in 1..Minute : s <= t => r[s] <= r[t]
  BY Zenon DEF WindowOK
<1>1. /\ w[1] = 0 /\ \A t \in 1..Minute : t /= 1 => w[t] = r[t - 1]
      /\ \A t \in 1..Minute : w[t] \in Nat /\ w[t] <= r[t]
  BY <1>t, <1>m
<1>2. \A s, t \in 1..Minute : s <= t => w[s] <= w[t]
  BY <1>t, <1>m, <1>1
<1>3. r[Minute] \in Nat /\ w[Minute] \in Nat /\ w[Minute] <= r[Minute]
  BY <1>t, <1>1
<1> HIDE DEF w
<1>4. CASE p = None
  BY <1>t, <1>1, <1>2, <1>3, <1>4 DEF WindowOK, w
<1>5. CASE p /= None /\ p.age = Minute
  <2>1. /\ q = p /\ InWindow(p.age) = Minute /\ r[Minute] <= p.attempts
        /\ p.attempts <= cfg.ConnectionsPerMinute /\ p.attempts \in Nat
    BY <1>5, Zenon DEF WindowOK, InWindow, Peer
  <2>2. w[Minute] <= p.attempts /\ w[Minute] - w[Minute] <= cfg.ConnectionsPerMinute
    BY <1>t, <1>3, <2>1
  <2>3. WindowOK(q, w)
    BY <1>1, <1>2, <1>5, <2>1, <2>2, Zenon DEF WindowOK
  <2>4. QED
    BY <2>1, <2>3, Zenon DEF w
<1>6. CASE p /= None /\ p.age /= Minute
  <2> DEFINE k == p.age + 1
  <2>1. /\ p \in Peer /\ p.age \in 0..Minute /\ p.attempts \in Nat
        /\ q = [p EXCEPT !.age = p.age + 1]
    BY <1>6, Zenon DEF Peer
  <2>2. /\ q \in Peer /\ q.age = k /\ q.attempts = p.attempts /\ q.active = p.active
        /\ k \in 1..Minute /\ q /= None
    BY <1>t, <1>6, <2>1 DEF Peer
  <2>3. /\ p.attempts <= cfg.ConnectionsPerMinute /\ r[k] <= p.attempts
        /\ r[Minute] - r[k] <= cfg.ConnectionsPerMinute /\ r[k] \in Nat
    BY <1>6, <2>2, Zenon DEF WindowOK, InWindow
  <2> HIDE DEF k
  <2>4. CASE k = Minute
    <3>1. InWindow(q.age) = Minute /\ w[Minute] <= p.attempts
      BY <1>3, <2>1, <2>2, <2>3, <2>4 DEF InWindow
    <3>2. w[Minute] - w[Minute] <= cfg.ConnectionsPerMinute
      BY <1>t, <1>3
    <3>3. WindowOK(q, w)
      BY <1>1, <1>2, <2>2, <2>3, <3>1, <3>2, Zenon DEF WindowOK
    <3>4. QED
      BY <1>6, <2>2, <3>3, Zenon DEF ActiveOf, w
  <2>5. CASE k /= Minute
    <3>1. InWindow(q.age) = k + 1 /\ k + 1 \in 1..Minute /\ k + 1 /= 1 /\ (k + 1) - 1 = k
      BY <1>t, <2>2, <2>5 DEF InWindow
    <3>2. w[k + 1] = r[k]
      BY <1>1, <3>1, Zenon
    <3>3. w[k + 1] <= p.attempts /\ w[Minute] - w[k + 1] <= cfg.ConnectionsPerMinute
      BY <1>t, <1>3, <2>3, <3>2
    <3>4. WindowOK(q, w)
      BY <1>1, <1>2, <2>2, <2>3, <2>5, <3>1, <3>3, Zenon DEF WindowOK
    <3>5. QED
      BY <1>6, <2>2, <3>4, Zenon DEF ActiveOf, w
  <2>6. QED
    BY <2>4, <2>5, Zenon
<1>7. QED
  BY <1>4, <1>5, <1>6, Zenon

(* What the invariant says about the tables that admission uses. *)
LEMMA TableFacts ==
    ASSUME InboundInv
    PROVE  /\ \A i \in IPs : IsFiniteSet(Handlers(i)) /\ Cardinality(Handlers(i)) \in Nat
           /\ \A i \in IPs : Cardinality(Handlers(i)) = ActiveOf(peers[i])
           /\ IsFiniteSet(conns) /\ Cardinality(conns) \in Nat
           /\ \A P : IsFiniteSet(Tracked(P)) /\ Cardinality(Tracked(P)) \in Nat
           /\ cfg \in Configs
<1>1. \A i \in IPs : IsFiniteSet(Handlers(i)) /\ Cardinality(Handlers(i)) \in Nat
  BY InboundConstants, FS_Subset, FS_CardinalityType, Zenon DEF Handlers
<1>2. IsFiniteSet(conns) /\ Cardinality(conns) \in Nat
  BY InboundConstants, FS_Subset, FS_CardinalityType, Zenon DEF InboundInv, InboundTypeOK,
     PeerTypeOK
<1>3. \A P : IsFiniteSet(Tracked(P)) /\ Cardinality(Tracked(P)) \in Nat
  BY InboundConstants, FS_Subset, FS_CardinalityType, Zenon DEF Tracked
<1>4. QED
  BY <1>1, <1>2, <1>3, Zenon DEF InboundInv, InboundTypeOK, ServeTypeOK, PeerAccounting, ActiveOf

(* The table after the admission of address i, whose peer is now q. *)
LEMMA RememberEffect ==
    ASSUME InboundInv, NEW i \in IPs, NEW q \in Peer, Remember(i, q)
    PROVE  /\ peers' \in [IPs -> Peer \cup {None}]
           /\ \A j \in IPs \ {i} : peers'[j] = Purge[j]
           /\ \/ peers'[i] = q
              \/ /\ peers'[i] = None /\ Purge[i] = None
                 /\ ~ (Cardinality(Tracked(Purge)) < cfg.MaxTrackedIPs)
           /\ Cardinality(Tracked(peers')) <= cfg.MaxTrackedIPs
<1>t. /\ IsFiniteSet(Tracked(Purge)) /\ Cardinality(Tracked(Purge)) \in Nat
      /\ IsFiniteSet(Tracked(peers)) /\ Cardinality(Tracked(peers)) \in Nat
      /\ cfg.MaxTrackedIPs \in Nat /\ None \notin Peer
  BY TableFacts, ConfigLimits, InboundConstants, Zenon
<1>1. Purge \in [IPs -> Peer \cup {None}]
  BY PurgeFacts, Zenon DEF Purge
<1>2. Tracked(Purge) \subseteq Tracked(peers)
  BY PurgeFacts, Zenon DEF Tracked
<1>3. Cardinality(Tracked(Purge)) <= cfg.MaxTrackedIPs
  <2>1. Cardinality(Tracked(Purge)) <= Cardinality(Tracked(peers))
    BY <1>t, <1>2, FS_Subset, Zenon
  <2>2. Cardinality(Tracked(peers)) <= cfg.MaxTrackedIPs
    BY Zenon DEF InboundInv, AdmissionLimits
  <2>3. QED
    BY <1>t, <2>1, <2>2
<1>4. CASE Purge[i] /= None
  <2>1. peers' = [Purge EXCEPT ![i] = q]
    BY <1>4, Zenon DEF Remember
  <2>2. Tracked(peers') = Tracked(Purge)
    BY <1>t, <1>1, <1>4, <2>1, Zenon DEF Tracked
  <2>3. QED
    BY <1>1, <1>3, <2>1, <2>2, Zenon
<1>5. CASE Purge[i] = None /\ Cardinality(Tracked(Purge)) < cfg.MaxTrackedIPs
  <2>1. peers' = [Purge EXCEPT ![i] = q]
    BY <1>5, Zenon DEF Remember
  <2>2. Tracked(peers') = Tracked(Purge) \cup {i} /\ i \notin Tracked(Purge)
    BY <1>t, <1>1, <1>5, <2>1, Zenon DEF Tracked
  <2>3. Cardinality(Tracked(peers')) = Cardinality(Tracked(Purge)) + 1
    BY Zenon, <1>t, <2>2, FS_AddElement
  <2>4. QED
    BY <1>t, <1>1, <1>5, <2>1, <2>3
<1>6. CASE Purge[i] = None /\ ~ (Cardinality(Tracked(Purge)) < cfg.MaxTrackedIPs)
  <2>1. peers' = Purge
    BY <1>6, Zenon DEF Remember
  <2>2. QED
    BY <1>1, <1>3, <1>6, <2>1, Zenon
<1>7. QED
  BY <1>4, <1>5, <1>6, Zenon

(* What admission keeps of the peers, once their count of goroutines and     *)
(* their windows are shown to be right, one by one.                          *)
Peers ==
    /\ PeerTypeOK /\ RateInv /\ PeerAccounting /\ AdmissionLimits
    /\ conns = {c \in Conns : pc[c] \notin {"free", "left"}}
    /\ \A c \in Conns : ip[c] = None <=> pc[c] = "free"

(* A connection is admitted: all limits allow for it. *)
LEMMA AdmitStep ==
    ASSUME InboundInv, NEW c \in Conns, Admit(c)
    PROVE  Peers'
<1> DEFINE i == host
           q == [PeerOf(i) EXCEPT !.active = @ + 1, !.attempts = @ + 1]
           w == [t \in 1..Minute |-> recent[i][t] + 1]
<1>t. /\ pc \in [Conns -> {"free", "command", "check", "data", "accept", "ack", "leave", "left"}]
      /\ ip \in [Conns -> IPs \cup {None}] /\ recent \in [IPs -> [1..Minute -> Nat]]
      /\ conns \in SUBSET Conns /\ closed \in SUBSET Conns
      /\ i \in IPs /\ i /= None /\ cfg \in Configs
  BY InboundConstants, Zenon
     DEF Admit, InboundInv, InboundTypeOK, PeerTypeOK, SessionTypeOK, ServeTypeOK, Registration
<1>l. /\ cfg.MaxConnections \in Nat /\ cfg.MaxConnectionsPerIP \in Nat
      /\ cfg.MaxTrackedIPs \in Nat /\ cfg.ConnectionsPerMinute \in Nat
  BY <1>t, ConfigLimits, Zenon
<1>1. /\ pc[c] = "free" /\ Allowed(i) /\ Remember(i, q)
      /\ conns' = conns \cup {c} /\ ip' = [ip EXCEPT ![c] = i]
      /\ recent' = [recent EXCEPT ![i] = w]
      /\ pc' = [pc EXCEPT ![c] = "command"] /\ cfg' = cfg /\ closed' = closed
  BY Zenon DEF Admit
<1>2. /\ PeerOf(i) \in Peer /\ PeerOf(i).age < Minute /\ WindowOK(PeerOf(i), recent[i])
      /\ PeerOf(i).active = ActiveOf(peers[i])
  BY <1>t, PeerOfFacts, Zenon
<1>3. /\ PeerOf(i).attempts < cfg.ConnectionsPerMinute
      /\ PeerOf(i).active < cfg.MaxConnectionsPerIP
      /\ Cardinality(conns) < cfg.MaxConnections
      /\ Purge[i] /= None \/ Cardinality(Tracked(Purge)) < cfg.MaxTrackedIPs
  BY <1>1, Zenon DEF Allowed
<1>4. q \in Peer /\ q.active = PeerOf(i).active + 1 /\ WindowOK(q, w)
  BY <1>t, <1>2, <1>3, WindowAdmit, Zenon
<1> HIDE DEF q, w, i
<1>5. /\ peers' \in [IPs -> Peer \cup {None}] /\ peers'[i] = q
      /\ \A j \in IPs \ {i} : peers'[j] = Purge[j]
      /\ Cardinality(Tracked(peers')) <= cfg.MaxTrackedIPs
  BY <1>t, <1>1, <1>3, <1>4, RememberEffect, Zenon
<1>6. PeerTypeOK'
  <2>1. w \in [1..Minute -> Nat]
    <3>1. recent[i] \in [1..Minute -> Nat]
      BY <1>t, Zenon
    <3>2. ASSUME NEW t \in 1..Minute PROVE recent[i][t] + 1 \in Nat
      <4>1. recent[i][t] \in Nat
        BY <3>1, Zenon
      <4>2. QED
        BY <4>1
    <3>3. QED
      BY <3>2, Zenon DEF w
  <2>2. QED
    BY <1>t, <1>1, <1>5, <2>1, Zenon DEF PeerTypeOK
<1>7. RateInv'
  <2>1. ASSUME NEW j \in IPs PROVE WindowOK(peers'[j], recent'[j])
    <3>1. CASE j = i
      BY <1>t, <1>1, <1>4, <1>5, <3>1, Zenon
    <3>2. CASE j /= i
      BY <1>t, <1>1, <1>5, <3>2, PurgeFacts, Zenon
    <3>3. QED
      BY <3>1, <3>2, Zenon
  <2>2. QED
    BY <1>1, <2>1, Zenon DEF RateInv, WindowOK
<1>8. ASSUME NEW j \in IPs
      PROVE  /\ Cardinality(Handlers(j)') = ActiveOf(peers'[j])
             /\ Cardinality(Handlers(j)') <= cfg.MaxConnectionsPerIP
  <2>0. /\ IsFiniteSet(Handlers(j)) /\ Cardinality(Handlers(j)) \in Nat
        /\ Cardinality(Handlers(j)) = ActiveOf(peers[j])
        /\ Cardinality(Handlers(j)) <= cfg.MaxConnectionsPerIP
    BY TableFacts, Zenon DEF InboundInv, AdmissionLimits
  <2>1. CASE j = i
    <3>1. Handlers(j)' = Handlers(j) \cup {c} /\ c \notin Handlers(j)
      BY <1>t, <1>1, <2>1, Zenon DEF Handlers
    <3>2. Cardinality(Handlers(j)') = Cardinality(Handlers(j)) + 1
      BY <2>0, <3>1, FS_AddElement, Zenon
    <3>3. ActiveOf(peers'[j]) = q.active /\ q.active = ActiveOf(peers[j]) + 1
      BY <1>2, <1>4, <1>5, <2>1, InboundConstants, Zenon DEF ActiveOf
    <3>4. ActiveOf(peers[j]) < cfg.MaxConnectionsPerIP
      BY <1>2, <1>3, <2>1, Zenon
    <3>5. QED
      BY <1>l, <2>0, <3>2, <3>3, <3>4
  <2>2. CASE j /= i
    <3>1. Handlers(j)' = Handlers(j)
      BY <1>t, <1>1, <2>2, Zenon DEF Handlers
    <3>2. ActiveOf(peers'[j]) = ActiveOf(peers[j])
      BY <1>5, <2>2, PurgeFacts, Zenon
    <3>3. QED
      BY <2>0, <3>1, <3>2, Zenon
  <2>3. QED
    BY <2>1, <2>2, Zenon
<1>9. Cardinality(conns') <= cfg.MaxConnections
  <2>1. c \notin conns /\ IsFiniteSet(conns) /\ Cardinality(conns) \in Nat
    BY <1>1, TableFacts, Zenon DEF InboundInv, Registration
  <2>2. Cardinality(conns') = Cardinality(conns) + 1
    BY Zenon, <1>1, <2>1, FS_AddElement
  <2>3. QED
    BY <1>l, <1>3, <2>1, <2>2
<1>10. PeerAccounting' /\ AdmissionLimits'
  BY <1>1, <1>5, <1>8, <1>9, Zenon DEF PeerAccounting, AdmissionLimits, ActiveOf
<1>11. /\ conns' = {d \in Conns : pc'[d] \notin {"free", "left"}}
       /\ \A d \in Conns : ip'[d] = None <=> pc'[d] = "free"
  BY <1>t, <1>1, Zenon DEF InboundInv, Registration
<1>12. QED
  BY <1>6, <1>7, <1>10, <1>11, Zenon DEF Peers

(* A step that changes no goroutine's place and no registration, only what   *)
(* is known of the peers.                                                    *)
LEMMA PeersUpdated ==
    ASSUME InboundInv, UNCHANGED <<cfg, conns, ip, pc>>, closed' \in SUBSET Conns,
           peers' \in [IPs -> Peer \cup {None}], recent' \in [IPs -> [1..Minute -> Nat]],
           \A j \in IPs : ActiveOf(peers'[j]) = ActiveOf(peers[j])
                             /\ WindowOK(peers'[j], recent'[j]),
           Cardinality(Tracked(peers')) <= cfg.MaxTrackedIPs
    PROVE  Peers'
<1>1. PeerTypeOK'
  BY Zenon DEF InboundInv, InboundTypeOK, PeerTypeOK
<1>2. RateInv'
  BY Zenon DEF RateInv, WindowOK
<1>3. \A j \in IPs : Handlers(j)' = Handlers(j)
  BY Zenon DEF Handlers
<1>4. PeerAccounting'
  BY <1>3, Zenon DEF InboundInv, PeerAccounting, ActiveOf
<1>5. AdmissionLimits'
  BY <1>3, Zenon DEF InboundInv, AdmissionLimits
<1>6. QED
  BY <1>1, <1>2, <1>4, <1>5, Zenon DEF InboundInv, Registration, Peers

LEMMA RefuseStep ==
    ASSUME InboundInv, Refuse
    PROVE  Peers'
<1>1. /\ host \in IPs /\ Remember(host, PeerOf(host))
      /\ UNCHANGED <<cfg, conns, ip, pc, recent, closed>>
  BY Zenon DEF Refuse, InboundInv, Registration
<1>2. /\ PeerOf(host) \in Peer /\ PeerOf(host) /= None
      /\ PeerOf(host).active = ActiveOf(peers[host])
      /\ WindowOK(PeerOf(host), recent[host])
  BY <1>1, PeerOfFacts, InboundConstants, Zenon
<1>3. /\ peers' \in [IPs -> Peer \cup {None}]
      /\ \A j \in IPs \ {host} : peers'[j] = Purge[j]
      /\ peers'[host] = PeerOf(host) \/ peers'[host] = Purge[host]
      /\ Cardinality(Tracked(peers')) <= cfg.MaxTrackedIPs
  BY <1>1, <1>2, RememberEffect, Zenon
<1>4. ASSUME NEW j \in IPs
      PROVE  ActiveOf(peers'[j]) = ActiveOf(peers[j]) /\ WindowOK(peers'[j], recent'[j])
  <2>1. CASE peers'[j] = Purge[j]
    BY <1>1, <2>1, PurgeFacts, Zenon
  <2>2. CASE peers'[j] = PeerOf(host) /\ j = host
    BY <1>1, <1>2, <2>2, Zenon DEF ActiveOf
  <2>3. QED
    BY <1>3, <2>1, <2>2, Zenon
<1>5. closed' \in SUBSET Conns /\ recent' \in [IPs -> [1..Minute -> Nat]]
  BY <1>1, Zenon DEF InboundInv, InboundTypeOK, PeerTypeOK
<1>6. QED
  BY <1>1, <1>3, <1>4, <1>5, PeersUpdated, Zenon

LEMMA TickStep ==
    ASSUME InboundInv, Tick
    PROVE  Peers'
<1>t. /\ peers \in [IPs -> Peer \cup {None}] /\ recent \in [IPs -> [1..Minute -> Nat]]
      /\ closed \in SUBSET Conns /\ cfg \in Configs
  BY Zenon DEF InboundInv, InboundTypeOK, PeerTypeOK, ServeTypeOK
<1>1. /\ peers' = [i \in IPs |-> IF peers[i] = None \/ peers[i].age = Minute THEN peers[i]
                                 ELSE [peers[i] EXCEPT !.age = @ + 1]]
      /\ recent' = [i \in IPs |-> [t \in 1..Minute |-> IF t = 1 THEN 0 ELSE recent[i][t - 1]]]
      /\ UNCHANGED <<cfg, conns, ip, pc, closed>>
  BY Zenon DEF Tick, serveVars
<1>2. ASSUME NEW j \in IPs
      PROVE  /\ peers'[j] \in Peer \cup {None} /\ ActiveOf(peers'[j]) = ActiveOf(peers[j])
             /\ peers'[j] = None <=> peers[j] = None
             /\ WindowOK(peers'[j], recent'[j])
  <2>1. WindowOK(peers[j], recent[j]) /\ recent[j] \in [1..Minute -> Nat]
        /\ peers[j] \in Peer \cup {None}
    BY <1>t, Zenon DEF InboundInv, RateInv
  <2>2. /\ peers'[j] = IF peers[j] = None \/ peers[j].age = Minute THEN peers[j]
                       ELSE [peers[j] EXCEPT !.age = @ + 1]
        /\ recent'[j] = [t \in 1..Minute |-> IF t = 1 THEN 0 ELSE recent[j][t - 1]]
    BY <1>1, Zenon
  <2>3. /\ peers'[j] \in Peer \cup {None} /\ ActiveOf(peers'[j]) = ActiveOf(peers[j])
        /\ peers'[j] = None <=> peers[j] = None
        /\ WindowOK(peers'[j], [t \in 1..Minute |-> IF t = 1 THEN 0 ELSE recent[j][t - 1]])
    BY <1>t, <2>1, <2>2, WindowTick, Zenon
  <2>4. QED
    BY <2>2, <2>3, Zenon
<1>3. peers' \in [IPs -> Peer \cup {None}]
  BY <1>1, <1>2, Zenon
<1>4. recent' \in [IPs -> [1..Minute -> Nat]]
  <2>1. ASSUME NEW j \in IPs, NEW t \in 1..Minute
        PROVE  (IF t = 1 THEN 0 ELSE recent[j][t - 1]) \in Nat
    <3>1. recent[j] \in [1..Minute -> Nat] /\ (t /= 1 => t - 1 \in 1..Minute)
      BY <1>t, InboundConstants DEF Limit
    <3>2. QED
      BY <3>1, Zenon
  <2>2. QED
    BY <1>1, <2>1, Zenon
<1>5. Tracked(peers') = Tracked(peers)
  BY <1>2, Zenon DEF Tracked
<1>6. Cardinality(Tracked(peers')) <= cfg.MaxTrackedIPs
  BY <1>5, Zenon DEF InboundInv, AdmissionLimits
<1>7. QED
  BY <1>t, <1>1, <1>2, <1>3, <1>4, <1>6, PeersUpdated, Zenon

(* The deferred functions of a goroutine, in their two critical sections. *)
LEMMA LeaveStep ==
    ASSUME InboundInv, NEW c \in Conns, Leave(c)
    PROVE  Peers'
<1>t. /\ pc \in [Conns -> {"free", "command", "check", "data", "accept", "ack", "leave", "left"}]
      /\ PeerTypeOK /\ RateInv
  BY Zenon DEF InboundInv, InboundTypeOK, SessionTypeOK
<1>1. /\ pc[c] = "leave" /\ conns' = conns \ {c} /\ pc' = [pc EXCEPT ![c] = "left"]
      /\ UNCHANGED <<cfg, peers, ip, recent, closed>>
  BY Zenon DEF Leave, serveVars
<1>2. PeerTypeOK' /\ RateInv'
  BY <1>t, <1>1, Zenon DEF PeerTypeOK, RateInv, WindowOK
<1>3. \A j \in IPs : Handlers(j)' = Handlers(j)
  BY <1>t, <1>1, Zenon DEF Handlers
<1>4. PeerAccounting'
  BY <1>1, <1>3, Zenon DEF InboundInv, PeerAccounting
<1>5. AdmissionLimits'
  <2>1. Cardinality(conns') <= cfg.MaxConnections
    <3>1. /\ Cardinality(conns') <= Cardinality(conns) /\ Cardinality(conns) \in Nat
          /\ Cardinality(conns') \in Nat
      BY <1>1, TableFacts, FS_Subset, FS_CardinalityType, Zenon
    <3>2. Cardinality(conns) <= cfg.MaxConnections /\ cfg.MaxConnections \in Nat
      BY TableFacts, ConfigLimits, Zenon DEF InboundInv, AdmissionLimits
    <3>3. QED
      BY <3>1, <3>2
  <2>2. QED
    BY <1>1, <1>3, <2>1, Zenon DEF InboundInv, AdmissionLimits
<1>6. /\ conns' = {d \in Conns : pc'[d] \notin {"free", "left"}}
      /\ \A d \in Conns : ip'[d] = None <=> pc'[d] = "free"
  BY <1>t, <1>1, Zenon DEF InboundInv, Registration
<1>7. QED
  BY <1>2, <1>4, <1>5, <1>6, Zenon DEF Peers

LEMMA ReleaseStep ==
    ASSUME InboundInv, NEW c \in Conns, Release(c)
    PROVE  Peers'
<1>t. /\ pc \in [Conns -> {"free", "command", "check", "data", "accept", "ack", "leave", "left"}]
      /\ peers \in [IPs -> Peer \cup {None}] /\ ip \in [Conns -> IPs \cup {None}]
      /\ recent \in [IPs -> [1..Minute -> Nat]]
      /\ conns \in SUBSET Conns /\ closed \in SUBSET Conns /\ None \notin IPs
  BY InboundConstants, Zenon DEF InboundInv, InboundTypeOK, SessionTypeOK, PeerTypeOK
<1>i. PICK i \in IPs : i = ip[c]
  BY <1>t, Zenon DEF Release, InboundInv, Registration
<1> DEFINE q == [peers[i] EXCEPT !.active = peers[i].active - 1]
<1>1. /\ pc[c] = "left" /\ peers' = [peers EXCEPT ![i] = q] /\ pc' = [pc EXCEPT ![c] = "free"]
      /\ ip' = [ip EXCEPT ![c] = None] /\ closed' = closed \ {c}
      /\ UNCHANGED <<cfg, conns, recent>>
  BY <1>i, Zenon DEF Release, serveVars
<1>2. i \in IPs /\ i = ip[c]
  BY <1>i, Zenon
<1>3. /\ Handlers(i)' = Handlers(i) \ {c} /\ c \in Handlers(i)
      /\ \A j \in IPs \ {i} : Handlers(j)' = Handlers(j)
  BY <1>t, <1>1, <1>2, Zenon DEF Handlers
<1>4. /\ IsFiniteSet(Handlers(i)) /\ Cardinality(Handlers(i)) \in Nat
      /\ Cardinality(Handlers(i)) = ActiveOf(peers[i])
      /\ Cardinality(Handlers(i)) <= cfg.MaxConnectionsPerIP /\ cfg.MaxConnectionsPerIP \in Nat
  BY <1>2, TableFacts, ConfigLimits, Zenon DEF InboundInv, AdmissionLimits
<1>5. Cardinality(Handlers(i)) /= 0
  BY <1>3, <1>4, FS_EmptySet, Zenon
<1>6. Cardinality(Handlers(i)') = Cardinality(Handlers(i)) - 1
  BY Zenon, <1>3, <1>4, FS_RemoveElement
<1>7. peers[i] \in Peer /\ peers[i] /= None /\ peers[i].active = Cardinality(Handlers(i))
  BY <1>t, <1>2, <1>4, <1>5, Zenon DEF ActiveOf
<1>8. /\ q \in Peer /\ q.active = peers[i].active - 1 /\ q.attempts = peers[i].attempts
      /\ q.age = peers[i].age /\ q /= None
  <2>1. PICK a \in Nat : a = peers[i].active - 1
    BY <1>4, <1>5, <1>7
  <2>2. /\ [peers[i] EXCEPT !.active = a] \in Peer /\ [peers[i] EXCEPT !.active = a].active = a
        /\ [peers[i] EXCEPT !.active = a].attempts = peers[i].attempts
        /\ [peers[i] EXCEPT !.active = a].age = peers[i].age
    BY <1>7, Zenon DEF Peer
  <2>3. QED
    BY <2>1, <2>2, InboundConstants, Zenon
<1> HIDE DEF q
<1>9. peers' \in [IPs -> Peer \cup {None}] /\ peers'[i] = q
      /\ \A j \in IPs \ {i} : peers'[j] = peers[j]
  BY <1>t, <1>1, <1>2, <1>8, Zenon
<1>10. PeerTypeOK'
  BY <1>t, <1>1, <1>9, Zenon DEF PeerTypeOK
<1>11. RateInv'
  <2>1. ASSUME NEW j \in IPs PROVE WindowOK(peers'[j], recent[j])
    <3>1. WindowOK(peers[j], recent[j])
      BY Zenon DEF InboundInv, RateInv
    <3>2. CASE j = i
      BY <1>7, <1>8, <1>9, <3>1, <3>2, Zenon DEF WindowOK
    <3>3. CASE j /= i
      BY <1>9, <3>1, <3>3, Zenon
    <3>4. QED
      BY <3>2, <3>3, Zenon
  <2>2. QED
    BY <1>1, <2>1, Zenon DEF RateInv, WindowOK
<1>12. PeerAccounting'
  <2>1. ASSUME NEW j \in IPs PROVE Cardinality(Handlers(j)') = ActiveOf(peers'[j])
    <3>1. CASE j = i
      BY <1>6, <1>7, <1>8, <1>9, <3>1, Zenon DEF ActiveOf
    <3>2. CASE j /= i
      BY <1>3, <1>9, <3>2, TableFacts, Zenon
    <3>3. QED
      BY <3>1, <3>2, Zenon
  <2>2. QED
    BY <2>1, Zenon DEF PeerAccounting, ActiveOf
<1>13. AdmissionLimits'
  <2>1. Tracked(peers') = Tracked(peers)
    BY <1>7, <1>8, <1>9, Zenon DEF Tracked
  <2>2. \A j \in IPs : Cardinality(Handlers(j)') <= cfg.MaxConnectionsPerIP
    <3>1. Cardinality(Handlers(i)') <= cfg.MaxConnectionsPerIP
      BY <1>4, <1>6
    <3>2. ASSUME NEW j \in IPs, j /= i
          PROVE  Cardinality(Handlers(j)') <= cfg.MaxConnectionsPerIP
      BY <1>3, <3>2, Zenon DEF InboundInv, AdmissionLimits
    <3>3. QED
      BY <3>1, <3>2, Zenon
  <2>3. QED
    BY <1>1, <2>1, <2>2, Zenon DEF InboundInv, AdmissionLimits
<1>14. /\ conns' = {d \in Conns : pc'[d] \notin {"free", "left"}}
       /\ \A d \in Conns : ip'[d] = None <=> pc'[d] = "free"
  BY <1>t, <1>1, Zenon DEF InboundInv, Registration
<1>15. QED
  BY <1>10, <1>11, <1>12, <1>13, <1>14, Zenon DEF Peers

(* Every step keeps the peers, the registrations and where Serve is. *)
LEMMA PeersStep ==
    ASSUME InboundInv, [Next]_vars
    PROVE  Peers'
<1>t. /\ pc \in [Conns -> {"free", "command", "check", "data", "accept", "ack", "leave", "left"}]
      /\ PeerTypeOK /\ RateInv
  BY Zenon DEF InboundInv, InboundTypeOK, SessionTypeOK
<1>1. ASSUME UNCHANGED <<cfg, admitVars>>, closed' \in SUBSET Conns,
             \A c \in Conns : /\ pc'[c] = "free" <=> pc[c] = "free"
                              /\ pc'[c] = "left" <=> pc[c] = "left"
      PROVE  Peers'
  <2>1. UNCHANGED <<cfg, peers, conns, ip, recent>>
    BY <1>1, Zenon DEF admitVars
  <2>2. PeerTypeOK' /\ RateInv'
    BY <1>t, <1>1, <2>1, Zenon DEF PeerTypeOK, RateInv, WindowOK
  <2>3. \A j \in IPs : Handlers(j)' = Handlers(j)
    BY <1>1, <2>1, Zenon DEF Handlers
  <2>4. PeerAccounting' /\ AdmissionLimits'
    BY <2>1, <2>3, Zenon DEF InboundInv, PeerAccounting, AdmissionLimits
  <2>5. QED
    BY <1>1, <2>1, <2>2, <2>4, Zenon DEF InboundInv, Registration, Peers
<1>2. ASSUME NEW c \in Conns, Talk(c) PROVE Peers'
  <2>1. PICK p \in {"command", "check", "data", "accept", "ack", "leave"} : pc' = [pc EXCEPT ![c] = p]
    BY <1>2, TalkEffect, Zenon
  <2>2. UNCHANGED <<cfg, admitVars, closed>> /\ pc[c] \notin {"free", "left"}
    BY <1>2, TalkEffect, Zenon DEF serveVars
  <2>3. QED
    BY <1>t, <1>1, <2>1, <2>2, Zenon DEF PeerTypeOK
<1>3. CASE \/ Serve \/ Cancel \/ Watch \/ AcceptError \/ ServeReturn
           \/ (\E i \in IPs : Accept(i)) \/ UNCHANGED vars \/ \E c \in Conns : Expire(c)
  <2>1. UNCHANGED <<cfg, admitVars, pc>> /\ closed' \in {closed, closed \cup conns}
    BY <1>3, Zenon DEF Serve, Cancel, Watch, AcceptError, ServeReturn, Accept, vars, serveVars,
       Expire
  <2>2. QED
    BY <1>t, <1>1, <2>1, Zenon DEF PeerTypeOK
<1>4. QED
  BY <1>2, <1>3, AdmitStep, RefuseStep, TickStep, LeaveStep, ReleaseStep, Zenon DEF Next,
     Session, Talk

LEMMA ServeStep ==
    ASSUME InboundInv, [Next]_vars
    PROVE  /\ ServeTypeOK'
           /\ serve' = "admit" => host' \in IPs
           /\ serve' = "idle" => \A c \in Conns : pc'[c] = "free"
<1> DEFINE Good == /\ ServeTypeOK'
                   /\ serve' = "admit" => host' \in IPs
                   /\ serve' = "idle" => \A c \in Conns : pc'[c] = "free"
<1>t. /\ ServeTypeOK /\ (serve = "admit" => host \in IPs)
      /\ serve = "idle" => \A c \in Conns : pc[c] = "free"
      /\ pc \in [Conns -> {"free", "command", "check", "data", "accept", "ack", "leave", "left"}]
  BY Zenon DEF InboundInv, InboundTypeOK, SessionTypeOK, Registration
<1>1. ASSUME UNCHANGED serveVars, \A c \in Conns : pc[c] = "free" => pc'[c] = "free" PROVE Good
  BY <1>t, <1>1, Zenon DEF ServeTypeOK, serveVars
<1>2. ASSUME NEW c \in Conns, Session(c) PROVE Good
  <2>1. CASE Talk(c)
    BY <1>t, <1>1, <2>1, TalkEffect, Zenon
  <2>2. CASE Leave(c) \/ Release(c)
    BY <1>t, <1>1, <2>2, Zenon DEF Leave, Release
  <2>3. QED
    BY <1>2, <2>1, <2>2, Zenon DEF Session, Talk
<1>3. ASSUME NEW c \in Conns, Expire(c) PROVE Good
  BY <1>1, <1>3, Zenon DEF Expire
<1>4. ASSUME NEW c \in Conns, Admit(c) PROVE Good
  BY <1>t, <1>4, Zenon DEF Admit, ServeTypeOK
<1>5. CASE Refuse
  BY <1>t, <1>5, Zenon DEF Refuse, ServeTypeOK
<1>6. CASE Tick \/ UNCHANGED vars
  BY <1>1, <1>6, Zenon DEF Tick, vars
<1>7. CASE Serve \/ Cancel \/ Watch \/ AcceptError \/ ServeReturn
  BY <1>t, <1>7, Zenon DEF Serve, Cancel, Watch, AcceptError, ServeReturn, ServeTypeOK
<1>8. ASSUME NEW i \in IPs, Accept(i) PROVE Good
  BY <1>t, <1>8, Zenon DEF Accept, ServeTypeOK
<1>9. QED
  BY <1>2, <1>3, <1>4, <1>5, <1>6, <1>7, <1>8, Zenon DEF Next

----------------------------------------------------------------------------
(* The inductive invariant of the receiver. *)
THEOREM InboundInvariant == Spec => []InboundInv
<1>1. Init => InboundInv
  <2> SUFFICES ASSUME Init PROVE InboundInv
    BY Zenon
  <2>l. /\ cfg.MaxRecipients \in Nat /\ cfg.MaxConnections \in Nat /\ cfg.MaxData \in Nat
        /\ cfg.MaxConnectionsPerIP \in Nat /\ cfg.ConnectionsPerMinute \in Nat
        /\ cfg.MaxTrackedIPs \in Nat /\ Minute \in Nat /\ Minute >= 1
    BY ConfigLimits, InboundConstants DEF Init, Limit
  <2>e. Cardinality({}) = 0
    BY FS_EmptySet, Zenon
  <2>1. ServeTypeOK /\ PeerTypeOK
    BY Zenon DEF Init, ServeTypeOK, PeerTypeOK
  <2>2. SessionTypeOK
    BY <2>l, NewSessType DEF Init, SessionTypeOK
  <2>3. Registration
    <3>1. {c \in Conns : pc[c] \in {"data", "accept", "ack"}} = {}
      BY Zenon DEF Init
    <3>2. data = Cardinality({c \in Conns : pc[c] \in {"data", "accept", "ack"}})
      BY <2>e, <3>1, Zenon DEF Init
    <3>3. QED
      BY <3>2, Zenon DEF Init, Registration
  <2>4. RateInv
    BY <2>l DEF Init, RateInv, WindowOK
  <2>5. SessionInv /\ AckIsDurable
    BY NewSessType, Zenon DEF Init, SessionInv, AckIsDurable, Mail
  <2>6. PeerAccounting /\ AdmissionLimits
    <3>1. (\A i \in IPs : Handlers(i) = {}) /\ Tracked(peers) = {} /\ conns = {}
      BY Zenon DEF Init, Handlers, Tracked
    <3>2. PeerAccounting
      BY <2>e, <3>1, Zenon DEF Init, PeerAccounting
    <3>3. AdmissionLimits
      BY <2>l, <2>e, <3>1 DEF AdmissionLimits
    <3>4. QED
      BY <3>2, <3>3, Zenon
  <2>7. QED
    BY <2>1, <2>2, <2>3, <2>4, <2>5, <2>6, Zenon DEF InboundInv, InboundTypeOK
<1>2. InboundInv /\ [Next]_vars => InboundInv'
  <2> SUFFICES ASSUME InboundInv, [Next]_vars PROVE InboundInv'
    BY Zenon
  <2>1. Peers'
    BY PeersStep, Zenon
  <2>2. SessionTypeOK' /\ SessionInv' /\ AckIsDurable'
    BY SessionStep, Zenon
  <2>3. ServeTypeOK'
    BY ServeStep, Zenon
  <2>4. Registration'
    BY <2>1, DataStep, ServeStep, Zenon DEF Peers, Busy, Registration
  <2>5. QED
    BY <2>1, <2>2, <2>3, <2>4, Zenon DEF Peers, InboundInv, InboundTypeOK
<1>3. QED
  BY <1>1, <1>2, PTL DEF Spec

(* Every variable of the receiver keeps its type: s.data stays within        *)
(* MaxData, the recipients of a session within MaxRecipients.                *)
THEOREM InboundTypes == Spec => []InboundTypeOK
<1>1. InboundInv => InboundTypeOK
  BY Zenon DEF InboundInv
<1>2. QED
  BY <1>1, InboundInvariant, PTL

(* p.active counts the goroutines of its address, and the loop over s.peers  *)
(* in Serve never forgets a peer that a goroutine will still decrement.      *)
THEOREM InboundPeerAccounting == Spec => []PeerAccounting
<1>1. InboundInv => PeerAccounting
  BY Zenon DEF InboundInv
<1>2. QED
  BY <1>1, InboundInvariant, PTL

(* The limits that Serve checks before it starts a session hold at every     *)
(* moment.                                                                   *)
THEOREM InboundAdmissionLimits == Spec => []AdmissionLimits
<1>1. InboundInv => AdmissionLimits
  BY Zenon DEF InboundInv
<1>2. QED
  BY <1>1, InboundInvariant, PTL

(* Two windows of an address at most reach into the last minute: Serve       *)
(* admits no more than twice ConnectionsPerMinute in it.                     *)
THEOREM InboundRateBound == Spec => []RateBound
<1>1. InboundInv => RateBound
  <2> SUFFICES ASSUME InboundInv, NEW i \in IPs
               PROVE  recent[i][Minute] <= 2 * cfg.ConnectionsPerMinute
    BY Zenon DEF RateBound
  <2>1. /\ peers[i] \in Peer \cup {None} /\ recent[i] \in [1..Minute -> Nat]
        /\ cfg.ConnectionsPerMinute \in Nat /\ Minute \in Nat /\ Minute >= 1
        /\ WindowOK(peers[i], recent[i])
    BY ConfigLimits, InboundConstants
       DEF InboundInv, InboundTypeOK, PeerTypeOK, ServeTypeOK, RateInv, Limit
  <2>2. recent[i][Minute] \in Nat
    BY <2>1
  <2>3. CASE peers[i] = None
    BY <2>1, <2>2, <2>3 DEF WindowOK
  <2>4. CASE peers[i] /= None
    <3>1. peers[i].attempts \in Nat /\ peers[i].age \in 0..Minute
      BY <2>1, <2>4, Zenon DEF Peer
    <3>2. InWindow(peers[i].age) \in 1..Minute
      BY <2>1, <3>1 DEF InWindow
    <3>3. recent[i][InWindow(peers[i].age)] \in Nat
      BY <2>1, <3>2, Zenon
    <3>4. /\ peers[i].attempts <= cfg.ConnectionsPerMinute
          /\ recent[i][InWindow(peers[i].age)] <= peers[i].attempts
          /\ recent[i][Minute] - recent[i][InWindow(peers[i].age)] <= cfg.ConnectionsPerMinute
      BY <2>1, <2>4, Zenon DEF WindowOK
    <3>5. QED
      BY <2>1, <2>2, <3>1, <3>3, <3>4
  <2>5. QED
    BY <2>3, <2>4, Zenon
<1>2. QED
  BY <1>1, InboundInvariant, PTL

(* Serve returns only when every goroutine has run its deferred functions,   *)
(* so the next Serve starts from empty tables and free slots.                *)
THEOREM InboundCleanRestart == Spec => []CleanRestart
<1>1. InboundInv => CleanRestart
  <2> SUFFICES ASSUME InboundInv, serve = "idle"
               PROVE  /\ \A c \in Conns : pc[c] = "free"
                      /\ conns = {} /\ data = 0
                      /\ \A i \in Tracked(peers) : peers[i].active = 0
    BY Zenon DEF CleanRestart
  <2>1. \A c \in Conns : pc[c] = "free"
    BY Zenon DEF InboundInv, Registration
  <2>2. /\ conns = {} /\ {c \in Conns : pc[c] \in {"data", "accept", "ack"}} = {}
        /\ \A i \in IPs : Handlers(i) = {}
    BY <2>1, Zenon DEF InboundInv, Registration, Handlers
  <2>3. data = 0
    BY <2>2, FS_EmptySet, Zenon DEF InboundInv, Registration
  <2>4. \A i \in IPs : ActiveOf(peers[i]) = 0
    BY <2>2, TableFacts, FS_EmptySet, Zenon
  <2>5. QED
    BY <2>1, <2>2, <2>3, <2>4, Zenon DEF Tracked, ActiveOf
<1>2. QED
  BY <1>1, InboundInvariant, PTL

(* session answers 250 only to a message that the backend stored under the   *)
(* envelope the client knows of.                                             *)
THEOREM InboundAckIsDurable == Spec => []AckIsDurable
<1>1. InboundInv => AckIsDurable
  BY Zenon DEF InboundInv
<1>2. QED
  BY <1>1, InboundInvariant, PTL

----------------------------------------------------------------------------
(* Cancellation                                                              *)

(* The admission looks at the context in the critical section in which it    *)
(* registers a connection, so none is registered behind the back of the      *)
(* goroutine that closes them.                                               *)
LEMMA EscapeStep == InboundInv /\ NoneEscapes /\ [Next]_vars => NoneEscapes'
<1> SUFFICES ASSUME InboundInv, NoneEscapes, [Next]_vars PROVE NoneEscapes'
  BY Zenon
<1>1. CASE UNCHANGED <<ctxDone, lClosed, conns, closed>>
  BY <1>1, Zenon DEF NoneEscapes
<1>2. CASE Serve \/ Cancel \/ Watch \/ AcceptError
  BY <1>2, Zenon DEF NoneEscapes, Serve, Cancel, Watch, AcceptError, admitVars
<1>3. CASE ServeReturn \/ Refuse \/ Tick \/ UNCHANGED vars \/ \E i \in IPs : Accept(i)
  BY <1>1, <1>3, Zenon DEF ServeReturn, Refuse, Tick, Accept, vars, serveVars, admitVars
<1>4. ASSUME NEW c \in Conns, Admit(c) \/ Expire(c) PROVE NoneEscapes'
  <2>1. CASE Admit(c)
    BY <2>1, Zenon DEF Admit, Allowed, NoneEscapes
  <2>2. CASE Expire(c)
    BY <1>1, <2>2, Zenon DEF Expire, serveVars, admitVars
  <2>3. QED
    BY <1>4, <2>1, <2>2, Zenon
<1>5. ASSUME NEW c \in Conns, Session(c) PROVE NoneEscapes'
  <2>1. CASE Talk(c)
    BY <1>1, <2>1, TalkEffect, Zenon DEF serveVars, admitVars
  <2>2. CASE Leave(c)
    BY <2>2, Zenon DEF Leave, serveVars, NoneEscapes
  <2>3. CASE Release(c)
    <3>1. c \notin conns
      BY <2>3, Zenon DEF Release, InboundInv, Registration
    <3>2. QED
      BY <2>3, <3>1, Zenon DEF Release, serveVars, NoneEscapes
  <2>4. QED
    BY <1>5, <2>1, <2>2, <2>3, Zenon DEF Session, Talk
<1>6. QED
  BY <1>2, <1>3, <1>4, <1>5, Zenon DEF Next

(* Once the listener is closed every registered connection is closed         *)
(* (server.go:138-148, :188).                                                *)
THEOREM InboundNoneEscapes == Spec => []NoneEscapes
<1>1. Init => NoneEscapes
  BY Zenon DEF Init, NoneEscapes
<1>2. QED
  BY <1>1, EscapeStep, InboundInvariant, PTL DEF Spec

(* A session whose connection is closed writes no reply and reads no further *)
(* command after the one it has.                                             *)
LEMMA ClosedTalk ==
    ASSUME InboundInv, NEW c \in Conns, c \in closed, Talk(c)
    PROVE  GoroutineLeft(pc'[c]) < GoroutineLeft(pc[c])
<1>t. pc \in [Conns -> {"free", "command", "check", "data", "accept", "ack", "leave", "left"}]
  BY Zenon DEF InboundInv, InboundTypeOK, SessionTypeOK
<1>s. send(c) => pc'[c] = "leave"
  BY <1>t, Zenon DEF send, Goto
<1>1. \/ pc[c] = "command" /\ pc'[c] \in {"check", "leave"}
      \/ pc[c] = "check" /\ pc'[c] = "leave"
      \/ pc[c] = "data" /\ pc'[c] \in {"accept", "leave"}
      \/ pc[c] = "accept" /\ pc'[c] \in {"ack", "leave"}
      \/ pc[c] = "ack" /\ pc'[c] = "leave"
  <2>1. CASE \/ JustReply(c) \/ Ehlo(c) \/ Rset(c) \/ StartTLS(c)
             \/ \E from \in Senders : MailFrom(c, from)
    BY <1>s, <2>1, Zenon DEF JustReply, Ehlo, Rset, StartTLS, MailFrom
  <2>2. CASE Disconnect(c) \/ RcptTo(c)
    BY <1>t, <2>2, Zenon DEF Disconnect, RcptTo, Goto
  <2>3. CASE \E to \in Rcpts : RcptReturn(c, to)
    BY <1>s, <2>3, Zenon DEF RcptReturn
  <2>4. CASE Data(c)
    BY <1>t, <2>4, Zenon DEF Data, Goto
  <2>5. CASE DataRead(c)
    BY <1>s, <1>t, <2>5, Zenon DEF DataRead, Refused, Answer, Goto
  <2>6. CASE AcceptReturn(c)
    BY <1>s, <1>t, <2>6, Zenon DEF AcceptReturn, Refused, Answer, Goto
  <2>7. CASE Ack(c)
    BY <1>s, <2>7, Zenon DEF Ack, Answer
  <2>8. QED
    BY <2>1, <2>2, <2>3, <2>4, <2>5, <2>6, <2>7, Zenon DEF Talk
<1>2. QED
  BY <1>1 DEF GoroutineLeft

(* When the listener is closed each goroutine has at most six steps left,    *)
(* and no other starts (server.go:117, :158, :203-213).                      *)
THEOREM InboundWindsDown == Spec => WindsDown
<1> DEFINE Nearer(c) == pc'[c] /= pc[c] \/ Session(c) => GoroutineLeft(pc'[c]) < GoroutineLeft(pc[c])
           Down == lClosed /\ lClosed' => \A c \in Conns : Nearer(c)
<1>1. ASSUME InboundInv, NoneEscapes, [Next]_vars, lClosed, NEW c \in Conns,
             pc'[c] /= pc[c] \/ Session(c)
      PROVE  GoroutineLeft(pc'[c]) < GoroutineLeft(pc[c])
  <2>t. pc \in [Conns -> {"free", "command", "check", "data", "accept", "ack", "leave", "left"}]
    BY <1>1, Zenon DEF InboundInv, InboundTypeOK, SessionTypeOK
  <2>1. CASE Talk(c)
    <3>1. c \in conns
      BY <1>1, <2>1, TalkEffect, Zenon DEF InboundInv, Registration
    <3>2. QED
      BY <1>1, <2>1, <3>1, ClosedTalk, Zenon DEF NoneEscapes
  <2>2. CASE Leave(c)
    BY <2>t, <2>2 DEF Leave, GoroutineLeft
  <2>3. CASE Release(c)
    BY <2>t, <2>3 DEF Release, GoroutineLeft
  <2>4. CASE ~Session(c)
    <3>1. ASSUME NEW d \in Conns, Session(d) PROVE pc'[c] = pc[c]
      <4>1. c /= d
        BY <2>4, <3>1, Zenon
      <4>2. \E l : pc' = [pc EXCEPT ![d] = l]
        <5>1. CASE Talk(d)
          BY <1>1, <5>1, TalkEffect, Zenon
        <5>2. CASE Leave(d) \/ Release(d)
          BY <5>2, Zenon DEF Leave, Release
        <5>3. QED
          BY <3>1, <5>1, <5>2, Zenon DEF Session, Talk
      <4>3. QED
        BY <2>t, <4>1, <4>2, Zenon
    <3>2. ASSUME NEW d \in Conns PROVE ~Admit(d)
      BY <1>1, Zenon DEF Admit, Allowed, NoneEscapes
    <3>3. ASSUME \/ Serve \/ Cancel \/ Watch \/ AcceptError \/ ServeReturn \/ Refuse \/ Tick
                 \/ UNCHANGED vars \/ (\E i \in IPs : Accept(i)) \/ \E d \in Conns : Expire(d)
          PROVE  pc' = pc
      BY <3>3, Zenon DEF Serve, Cancel, Watch, AcceptError, ServeReturn, Refuse, Tick, vars,
           Accept, Expire
    <3>4. pc'[c] = pc[c]
      BY <1>1, <3>1, <3>2, <3>3, Zenon DEF Next
    <3>5. QED
      BY <1>1, <2>4, <3>4, Zenon
  <2>5. QED
    BY <2>1, <2>2, <2>3, <2>4, Zenon DEF Session, Talk
<1>2. InboundInv /\ NoneEscapes /\ [Next]_vars => [Down]_vars
  BY <1>1, Zenon
<1> HIDE DEF Down
<1>3. Spec => [][Down]_vars
  BY <1>2, InboundInvariant, InboundNoneEscapes, PTL DEF Spec
<1>4. QED
  BY <1>3, Zenon DEF WindsDown, Down
----------------------------------------------------------------------------
(* Refusals                                                                  *)

(* The peer that an admission looks at: the one in the table, in a window    *)
(* that is not over, or one that has counted nothing.                        *)
LEMMA PeerBacked ==
    ASSUME InboundInv, BackedInv, NEW i \in IPs
    PROVE  /\ Backed(Purge[i], recent[i]) /\ Backed(PeerOf(i), recent[i])
           /\ PeerOf(i).attempts = 0 \/ PeerOf(i) = peers[i]
<1>t. /\ recent[i] \in [1..Minute -> Nat] /\ Minute \in Nat
      /\ PeerOf(i) \in Peer /\ PeerOf(i).age < Minute
  BY PeerOfFacts, InboundConstants, Zenon DEF InboundInv, InboundTypeOK, PeerTypeOK, Limit
<1>1. Backed(peers[i], recent[i])
  BY Zenon DEF BackedInv
<1>2. Purge[i] = peers[i] \/ Purge[i] = None
  BY PurgeFacts, Zenon
<1>3. Backed(Purge[i], recent[i])
  BY <1>1, <1>2, Zenon DEF Backed
<1>4. PeerOf(i).attempts = 0 \/ PeerOf(i) = peers[i]
  <2>1. CASE Purge[i] /= None /\ Purge[i].age /= Minute
    BY <1>2, <2>1, Zenon DEF PeerOf
  <2>2. CASE Purge[i] /= None /\ Purge[i].age = Minute
    <3>1. Purge[i] \in Peer
      BY <2>2, PurgeFacts, Zenon
    <3>2. PeerOf(i) = [Purge[i] EXCEPT !.attempts = 0, !.age = 0]
      BY <2>2, Zenon DEF PeerOf
    <3>3. QED
      BY <3>1, <3>2, Zenon DEF Peer
  <2>3. CASE Purge[i] = None
    BY <2>3, Zenon DEF PeerOf
  <2>4. QED
    BY <2>1, <2>2, <2>3, Zenon
<1>5. ASSUME PeerOf(i).attempts = 0 PROVE Backed(PeerOf(i), recent[i])
  <2>1. PICK a \in Nat : a = PeerOf(i).age
    BY <1>t DEF Peer
  <2>2. recent[i][a + 1] \in Nat
    BY <1>t, <2>1
  <2>3. QED
    BY <1>5, <2>1, <2>2 DEF Backed
<1>6. QED
  BY <1>1, <1>3, <1>4, <1>5, Zenon

(* One more admission is counted on both sides. *)
LEMMA AdmitBacked ==
    ASSUME NEW p \in Peer, NEW r \in [1..Minute -> Nat], Backed(p, r), p /= None, p.age < Minute,
           NEW q, q = [p EXCEPT !.active = @ + 1, !.attempts = @ + 1]
    PROVE  Backed(q, [t \in 1..Minute |-> r[t] + 1])
<1>1. PICK a \in Nat, b \in Nat : a = p.age /\ b = p.attempts
  BY DEF Peer
<1>2. q.age = a /\ q.attempts = b + 1
  BY <1>1, Zenon DEF Peer
<1>3. Minute \in Nat
  BY InboundConstants, Zenon DEF Limit
<1>4. PICK k \in 1..Minute : k = a + 1
  BY <1>1, <1>3
<1>5. r[k] \in Nat /\ b <= r[k]
  BY <1>1, <1>4, Zenon DEF Backed
<1>6. QED
  BY <1>1, <1>2, <1>4, <1>5 DEF Backed

(* A tick moves the window of a peer and the history alike. *)
LEMMA TickBacked ==
    ASSUME NEW p \in Peer \cup {None}, NEW r \in [1..Minute -> Nat], Backed(p, r),
           NEW q, q = IF p = None \/ p.age = Minute THEN p ELSE [p EXCEPT !.age = @ + 1]
    PROVE  Backed(q, [t \in 1..Minute |-> IF t = 1 THEN 0 ELSE r[t - 1]])
<1>0. Minute \in Nat
  BY InboundConstants, Zenon DEF Limit
<1>1. CASE p = None \/ p.age = Minute
  BY <1>0, <1>1 DEF Backed
<1>2. CASE p /= None /\ p.age /= Minute
  <2>1. PICK a \in Nat, b \in Nat : a = p.age /\ b = p.attempts /\ a < Minute
    BY <1>0, <1>2 DEF Peer
  <2>2. q.age = a + 1 /\ q.attempts = b
    BY <1>2, <2>1, Zenon DEF Peer
  <2>3. b <= r[a + 1]
    BY <1>2, <2>1, Zenon DEF Backed
  <2>4. ASSUME a + 1 < Minute
        PROVE  [t \in 1..Minute |-> IF t = 1 THEN 0 ELSE r[t - 1]][a + 2] = r[a + 1]
    BY <1>0, <2>1, <2>4
  <2>5. QED
    BY <2>1, <2>2, <2>3, <2>4 DEF Backed
<1>3. QED
  BY <1>1, <1>2, Zenon

LEMMA BackedStep == InboundInv /\ BackedInv /\ [Next]_vars => BackedInv'
<1> SUFFICES ASSUME InboundInv, BackedInv, [Next]_vars, NEW j \in IPs
             PROVE  Backed(peers'[j], recent'[j])
  BY Zenon DEF BackedInv, Backed
<1>t. /\ peers \in [IPs -> Peer \cup {None}] /\ recent \in [IPs -> [1..Minute -> Nat]]
      /\ ip \in [Conns -> IPs \cup {None}] /\ None \notin Peer
  BY InboundConstants, Zenon DEF InboundInv, InboundTypeOK, PeerTypeOK
<1>i. Backed(peers[j], recent[j]) /\ Backed(Purge[j], recent[j])
  BY PeerBacked, Zenon DEF BackedInv
<1>1. CASE UNCHANGED <<peers, recent>>
  BY <1>1, <1>i, Zenon
<1>2. ASSUME NEW c \in Conns, Admit(c) PROVE Backed(peers'[j], recent'[j])
  <2>1. PICK i \in IPs : i = host
    BY <1>2, Zenon DEF Admit, InboundInv, Registration
  <2>2. PICK p \in Peer, r \in [1..Minute -> Nat] :
           /\ p = PeerOf(i) /\ p /= None /\ p.age < Minute
           /\ r = recent[i] /\ Backed(p, r) /\ WindowOK(p, r)
    BY <1>t, PeerOfFacts, PeerBacked, Zenon
  <2>3. PICK q : q = [p EXCEPT !.active = @ + 1, !.attempts = @ + 1]
    BY Zenon
  <2>4. PICK w : w = [t \in 1..Minute |-> r[t] + 1]
    BY Zenon
  <2>5. Remember(i, q) /\ recent' = [recent EXCEPT ![i] = w] /\ Allowed(i)
    BY <1>2, <2>1, <2>2, <2>3, <2>4, Zenon DEF Admit
  <2>6. Backed(q, w)
    BY <2>2, <2>3, <2>4, AdmitBacked, Zenon
  <2>7. q \in Peer
    <3>1. p.attempts < cfg.ConnectionsPerMinute /\ cfg \in Configs
      BY <2>2, <2>5, Zenon DEF Allowed, InboundInv, InboundTypeOK, ServeTypeOK
    <3>2. QED
      BY <2>2, <2>3, <3>1, WindowAdmit, Zenon
  <2>8. CASE j = i
    <3>1. peers'[i] \in {q, None} /\ recent'[i] = w
      BY <1>t, <2>5, <2>7, RememberEffect, Zenon
    <3>2. QED
      BY <2>6, <2>8, <3>1, Zenon DEF Backed
  <2>9. CASE j /= i
    <3>1. peers'[j] = Purge[j] /\ recent'[j] = recent[j]
      BY <1>t, <2>5, <2>7, <2>9, RememberEffect, Zenon
    <3>2. QED
      BY <1>i, <3>1, Zenon
  <2>10. QED
    BY <2>8, <2>9, Zenon
<1>3. CASE Refuse
  <2>1. host \in IPs /\ Remember(host, PeerOf(host)) /\ recent' = recent
    BY <1>3, Zenon DEF Refuse, InboundInv, Registration
  <2>2. PeerOf(host) \in Peer /\ Backed(PeerOf(host), recent[host])
    BY <2>1, PeerOfFacts, PeerBacked, Zenon
  <2>3. /\ \A k \in IPs \ {host} : peers'[k] = Purge[k]
        /\ peers'[host] \in {PeerOf(host), None}
    BY <2>1, <2>2, RememberEffect, Zenon
  <2>4. QED
    BY <1>i, <2>1, <2>2, <2>3, Zenon DEF Backed
<1>4. CASE Tick
  <2>1. /\ peers'[j] = IF peers[j] = None \/ peers[j].age = Minute THEN peers[j]
                       ELSE [peers[j] EXCEPT !.age = @ + 1]
        /\ recent'[j] = [t \in 1..Minute |-> IF t = 1 THEN 0 ELSE recent[j][t - 1]]
    BY <1>4, Zenon DEF Tick
  <2>2. peers[j] \in Peer \cup {None} /\ recent[j] \in [1..Minute -> Nat]
    BY <1>t, Zenon
  <2>3. QED
    BY <1>i, <2>1, <2>2, TickBacked, Zenon
<1>5. ASSUME NEW c \in Conns, Release(c) PROVE Backed(peers'[j], recent'[j])
  <2>1. recent' = recent /\ peers' = [peers EXCEPT ![ip[c]].active = @ - 1]
    BY <1>5, Zenon DEF Release
  <2>2. CASE j = ip[c] /\ peers[j] /= None
    <3>1. peers[j] \in Peer /\ peers'[j] = [peers[j] EXCEPT !.active = @ - 1]
      BY <1>t, <2>1, <2>2, Zenon
    <3>2. peers'[j].age = peers[j].age /\ peers'[j].attempts = peers[j].attempts
      BY <3>1, Zenon DEF Peer
    <3>3. QED
      BY <1>i, <2>1, <2>2, <3>2, Zenon DEF Backed
  <2>3. CASE j = ip[c] /\ peers[j] = None
    <3>1. c \in Handlers(j)
      BY <1>5, <2>3, Zenon DEF Release, Handlers
    <3>2. IsFiniteSet(Handlers(j)) /\ Cardinality(Handlers(j)) = 0
      BY <2>3, TableFacts, Zenon DEF ActiveOf
    <3>3. QED
      BY <3>1, <3>2, FS_EmptySet, Zenon
  <2>4. CASE j /= ip[c]
    BY <1>t, <1>i, <2>1, <2>4, Zenon
  <2>5. QED
    BY <2>2, <2>3, <2>4, Zenon
<1>6. ASSUME NEW c \in Conns, Talk(c) \/ Leave(c) \/ Expire(c) PROVE UNCHANGED <<peers, recent>>
  BY <1>6, TalkEffect, Zenon DEF Leave, Expire, admitVars
<1>7. CASE Serve \/ Cancel \/ Watch \/ AcceptError \/ ServeReturn \/ UNCHANGED vars
             \/ \E i \in IPs : Accept(i)
  BY <1>1, <1>7, Zenon DEF Serve, Cancel, Watch, AcceptError, ServeReturn, vars, Accept, admitVars
<1>8. QED
  BY <1>1, <1>2, <1>3, <1>4, <1>5, <1>6, <1>7, Zenon DEF Next, Session, Talk
(* What an address without a place in a full table stands back for: others   *)
(* that are connected, or whose window is not over.                          *)
LEMMA TableFull ==
    ASSUME InboundInv, NEW i \in IPs, Purge[i] = None,
           ~(Cardinality(Tracked(Purge)) < cfg.MaxTrackedIPs)
    PROVE  Cardinality({j \in Tracked(peers) \ {i} : Handlers(j) /= {} \/ peers[j].age < Minute})
              = cfg.MaxTrackedIPs
<1> DEFINE Others == {j \in Tracked(peers) \ {i} : Handlers(j) /= {} \/ peers[j].age < Minute}
<1>t. /\ peers \in [IPs -> Peer \cup {None}] /\ None \notin Peer /\ Minute \in Nat
      /\ cfg.MaxTrackedIPs \in Nat /\ Cardinality(Tracked(peers)) <= cfg.MaxTrackedIPs
  BY InboundConstants, ConfigLimits, Zenon
     DEF InboundInv, InboundTypeOK, PeerTypeOK, ServeTypeOK, AdmissionLimits, Limit
<1>f. IsFiniteSet(Tracked(peers)) /\ Cardinality(Tracked(peers)) \in Nat
      /\ Cardinality(Tracked(Purge)) \in Nat
  BY TableFacts, Zenon
<1>1. ASSUME NEW j \in IPs, peers[j] /= None
      PROVE  /\ Purge[j] /= None <=> peers[j].active /= 0 \/ peers[j].age /= Minute
             /\ peers[j].age /= Minute <=> peers[j].age < Minute
             /\ peers[j].active /= 0 <=> Handlers(j) /= {}
  <2>1. peers[j] \in Peer
    BY <1>t, <1>1, Zenon
  <2>2. peers[j].age \in 0..Minute /\ peers[j].active \in Nat
    BY <2>1, Zenon DEF Peer
  <2>3. peers[j].active = Cardinality(Handlers(j)) /\ IsFiniteSet(Handlers(j))
    BY <1>1, TableFacts, Zenon DEF ActiveOf
  <2>4. peers[j].active /= 0 <=> Handlers(j) /= {}
    BY <2>3, FS_EmptySet, Zenon
  <2>5. Purge[j] /= None <=> peers[j].active /= 0 \/ peers[j].age /= Minute
    BY <1>1, Zenon DEF Purge
  <2>6. QED
    BY <1>t, <2>2, <2>4, <2>5
<1>2. \A j \in IPs : Purge[j] /= None => peers[j] /= None
  BY PurgeFacts, Zenon
<1>3. Tracked(Purge) = Others
  BY <1>1, <1>2, Zenon DEF Tracked
<1>4. Tracked(Purge) \subseteq Tracked(peers)
  BY <1>2, Zenon DEF Tracked
<1>5. Cardinality(Tracked(Purge)) <= Cardinality(Tracked(peers))
  BY <1>f, <1>4, FS_Subset, Zenon
<1>6. Cardinality(Tracked(Purge)) = cfg.MaxTrackedIPs
  BY <1>t, <1>f, <1>5
<1>7. QED
  BY <1>3, <1>6, Zenon

(* A 421 is answered only under one of the limits, or on cancellation        *)
(* (server.go:168-199).                                                      *)
THEOREM InboundRefusalEarned == Spec => RefusalEarned
<1> DEFINE Cause ==
             \/ ctxDone
             \/ Cardinality(conns) = cfg.MaxConnections
             \/ Cardinality(Handlers(host)) = cfg.MaxConnectionsPerIP
             \/ recent[host][Minute] >= cfg.ConnectionsPerMinute
             \/ Cardinality({i \in Tracked(peers) \ {host} :
                                Handlers(i) /= {} \/ peers[i].age < Minute}) = cfg.MaxTrackedIPs
           Turned == serve = "admit" /\ serve' = "accept" /\ conns' = conns
<1>1. ASSUME InboundInv, BackedInv, [Next]_vars, Turned
      PROVE  Cause
  <2>1. Refuse
    <3>1. ASSUME NEW c \in Conns, Admit(c) PROVE FALSE
      <4>1. c \notin conns /\ conns' = conns \cup {c}
        BY <1>1, <3>1, Zenon DEF Admit, InboundInv, Registration
      <4>2. QED
        BY <1>1, <4>1, Zenon
    <3>2. ASSUME NEW c \in Conns, Session(c) \/ Expire(c) PROVE FALSE
      <4>1. serve' = serve
        BY <1>1, <3>2, TalkEffect, Zenon DEF Session, Talk, Leave, Release, Expire, serveVars
      <4>2. QED
        BY <1>1, <4>1, Zenon
    <3>3. ASSUME Serve \/ Cancel \/ Watch \/ AcceptError \/ ServeReturn \/ Tick \/ UNCHANGED vars
                   \/ \E i \in IPs : Accept(i)
          PROVE  FALSE
      BY <1>1, <3>3, Zenon DEF Serve, Cancel, Watch, AcceptError, ServeReturn, Tick, vars,
         Accept, serveVars
    <3>4. QED
      BY <1>1, <3>1, <3>2, <3>3, Zenon DEF Next
  <2>2. PICK i \in IPs : i = host /\ ~Allowed(i)
    BY <2>1, <1>1, Zenon DEF Refuse, InboundInv, Registration
  <2>t. /\ cfg \in Configs /\ cfg.MaxConnections \in Nat /\ cfg.MaxConnectionsPerIP \in Nat
        /\ cfg.ConnectionsPerMinute \in Nat \ {0} /\ Minute \in Nat /\ Minute >= 1
        /\ recent[i] \in [1..Minute -> Nat]
    <3>1. cfg \in Configs /\ recent[i] \in [1..Minute -> Nat]
      BY <1>1, Zenon DEF InboundInv, InboundTypeOK, ServeTypeOK, PeerTypeOK
    <3>2. cfg \in Config
      BY <3>1, InboundConstants, Zenon
    <3>3. QED
      BY <3>1, <3>2, InboundConstants DEF Config, Limit
  <2>3. CASE ~(Cardinality(conns) < cfg.MaxConnections)
    <3>1. Cardinality(conns) <= cfg.MaxConnections /\ Cardinality(conns) \in Nat
      BY <1>1, TableFacts, Zenon DEF InboundInv, AdmissionLimits
    <3>2. QED
      BY <2>t, <2>3, <3>1
  <2>4. CASE Purge[i] = None /\ ~(Cardinality(Tracked(Purge)) < cfg.MaxTrackedIPs)
    BY <1>1, <2>2, <2>4, TableFull, Zenon
  <2>5. CASE ~(PeerOf(i).active < cfg.MaxConnectionsPerIP)
    <3>1. /\ PeerOf(i).active = Cardinality(Handlers(i)) /\ Cardinality(Handlers(i)) \in Nat
          /\ Cardinality(Handlers(i)) <= cfg.MaxConnectionsPerIP
      BY <1>1, TableFacts, PeerOfFacts, Zenon DEF InboundInv, AdmissionLimits
    <3>2. Cardinality(Handlers(i)) = cfg.MaxConnectionsPerIP
      BY <2>t, <2>5, <3>1
    <3>3. QED
      BY <2>2, <3>2, Zenon
  <2>6. CASE ~(PeerOf(i).attempts < cfg.ConnectionsPerMinute)
    <3>1. PICK p \in Peer : /\ p = PeerOf(i) /\ p.age < Minute /\ p /= None
                            /\ Backed(p, recent[i]) /\ WindowOK(p, recent[i])
      BY <1>1, PeerOfFacts, PeerBacked, InboundConstants, Zenon
    <3>2. PICK a \in Nat, b \in Nat : a = p.age /\ b = p.attempts
      BY <3>1 DEF Peer
    <3>3. b >= cfg.ConnectionsPerMinute /\ b <= recent[i][a + 1]
      BY <2>t, <2>6, <3>1, <3>2 DEF Backed
    <3>4. PICK k \in 1..Minute : k = a + 1
      BY <2>t, <3>1, <3>2
    <3>5. PICK x \in Nat, y \in Nat : x = recent[i][k] /\ y = recent[i][Minute] /\ x <= y
      BY <2>t, <3>1 DEF WindowOK
    <3>6. y >= cfg.ConnectionsPerMinute
      <4>1. b <= x
        BY <3>3, <3>4, <3>5, Zenon
      <4>2. QED
        BY <2>t, <3>3, <3>5, <4>1
    <3>7. QED
      BY <2>2, <3>5, <3>6, Zenon
  <2>7. CASE ctxDone
    BY <2>7, Zenon
  <2>8. QED
    BY <2>2, <2>3, <2>4, <2>5, <2>6, <2>7, Zenon DEF Allowed
<1>2. InboundInv /\ BackedInv /\ [Next]_vars => [Turned => Cause]_vars
  <2> HIDE DEF Turned, Cause
  <2>1. QED
    BY <1>1, Zenon
<1>3. Init => BackedInv
  BY Zenon DEF Init, BackedInv, Backed
<1> HIDE DEF Turned, Cause
<1>4. Spec => [][Turned => Cause]_vars
  BY <1>2, <1>3, BackedStep, InboundInvariant, PTL DEF Spec
<1>5. QED
  BY <1>4, PTL DEF RefusalEarned, Turned, Cause
============================================================================
