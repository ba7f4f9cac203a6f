------------------------------ MODULE MailAuth ------------------------------
(***************************************************************************)
(* The authentication plugins of a session: SPF at MAIL FROM, through the   *)
(* caching resolver that all sessions share, then DKIM and DMARC when the   *)
(* message is complete, with the DMARC events going to the shared report    *)
(* store (internal/plugins/spf, dkim and dmarc).                            *)
(*                                                                          *)
(* A session stands for its client's address.  A mechanism of an SPF record *)
(* is a qualifier and the set of clients it covers: all of them for "all",  *)
(* none for a mechanism the code does not support, Nil for a network that   *)
(* does not parse.  An answer of the DNS is an error, or "nil" and the      *)
(* sequence of SPF records among the TXT records.                           *)
(***************************************************************************)
EXTENDS DnsCache, Reporting, Sequences

CONSTANTS
    SubdomainOf,     \* set of <<d, e>>: d is a proper subdomain of e
    DmarcRecords,    \* DmarcRecords[d]: what d publishes, or Nil
    Verifications    \* the results the DKIM verifier may return

(* What parseDMARCRecord makes of a record: an alignment that is not "s" is  *)
(* relaxed, a policy it does not know is "other".                            *)
dmarcRecord ==
    [Policy : {"none", "quarantine", "reject", "other"},
     SPFAlignment : {"r", "s"}, DKIMAlignment : {"r", "s"}]

mechanism ==
    [qualifier : {"Pass", "Fail", "SoftFail", "Neutral"}, net : (SUBSET Callers) \cup {Nil}]
answer ==
    [err : {"nil", "notfound", "dns", "other"}, records : Seq(Seq(mechanism))]

ASSUME MailAuthConstants ==
    /\ Answers \subseteq answer /\ \A a \in Answers : a.err /= "nil" => a.records = <<>>
    /\ DmarcRecords \in [Keys -> dmarcRecord \cup {Nil}]
    /\ SubdomainOf \subseteq Keys \X Keys /\ \A p \in SubdomainOf : p[1] /= p[2]
    /\ Nil \notin [dkim : Verifications, from : Keys \cup {Nil}]

VARIABLES
    stage,   \* where each session is: "accepted" and "idle" end a transaction,
             \* "rejected" is "mail" after DMARC's policy refused a message of it
    spf,     \* history: a pass that OnMailFrom found, or NoResult
    msg      \* the message in OnMessage: DKIM results and From domain

authVars == <<stage, spf, msg>>
vars == <<dnsVars, reportVars, authVars>>

Sessions == Callers
Domains == Keys

(* A StoredSPFResult, as far as DMARC tells them apart. *)
StoredSPFResult(found, d) == [Result |-> found, Domain |-> d]
NoResult == StoredSPFResult("None", Nil)

AuthTypeOK ==
    /\ DnsTypeOK /\ ReportTypeOK
    /\ stage \in [Sessions -> {"idle", "spf", "mail", "dmarc", "accepted", "rejected"}]
    /\ spf \in [Sessions -> {StoredSPFResult("Pass", d) : d \in Domains} \cup {NoResult}]
    /\ msg \in [Sessions -> [dkim : Verifications, from : Domains \cup {Nil}] \cup {Nil}]
    /\ \A s \in Sessions :
          /\ stage[s] = "spf" <=> look[s] /= "idle"
          /\ (msg[s] /= Nil) <=> stage[s] = "dmarc"

Init ==
    /\ DnsInit /\ ReportInit
    /\ stage = [s \in Sessions |-> "idle"]
    /\ spf = [s \in Sessions |-> NoResult]
    /\ msg = [s \in Sessions |-> Nil]

Goto(s, where) == stage' = [stage EXCEPT ![s] = where]
Ready(s) == stage[s] \in {"idle", "accepted"}
Open(s) == stage[s] \in {"mail", "rejected"}

----------------------------------------------------------------------------
(* SPF *)

(* Faulty variant: a network that does not parse is passed over. *)
evaluateSPFLenient(record, s) ==
    LET eval[i \in 1..(Len(record) + 1)] ==
          IF i > Len(record) THEN "Neutral"
          ELSE IF record[i].net = Nil THEN eval[i + 1]
          ELSE IF s \in record[i].net THEN record[i].qualifier ELSE eval[i + 1]
    IN  eval[1]

(* The loop over the mechanisms. *)
evaluateSPF(record, s) ==
    LET eval[i \in 1..(Len(record) + 1)] ==
          IF i > Len(record) THEN "Neutral"
          ELSE IF record[i].net = Nil THEN "PermError"
          ELSE IF s \in record[i].net THEN record[i].qualifier ELSE eval[i + 1]
    IN  eval[1]

(* The result of OnMailFrom for an answer, and whether it is an error: one   *)
(* of a lookup is, even where the result is PermError.                       *)
SpfResult(a, s) ==
    CASE a.err = "notfound" -> "None"
      [] a.err = "dns" -> "TempError"
      [] a.err = "other" -> "PermError"
      [] Len(a.records) > 1 -> "PermError"
      [] Len(a.records) = 1 -> evaluateSPF(a.records[1], s)
      [] OTHER -> "None"

Refused(found) == found \in {"Fail", "TempError", "PermError"}

(* OnMailFrom up to the lookup.  A client without an address and a sender    *)
(* without a domain are refused at once, and nothing changes; the session    *)
(* lets no null sender through.                                              *)
OnMailFrom(s, d) ==
    /\ Ready(s)
    /\ LookupTXT(s, d)
    /\ Goto(s, "spf")
    /\ UNCHANGED <<reportVars, spf, msg>>

(* OnMailFrom from the lookup's return.  The result goes into the plugin's   *)
(* own copy of the context, so only the error reaches the session.           *)
OnMailFromReturn(s) ==
    LET found == SpfResult(result[s].value, s) IN
    /\ stage[s] = "spf"
    /\ LookupDone(s)
    /\ IF Refused(found)
       THEN Goto(s, "idle") /\ spf' = [spf EXCEPT ![s] = NoResult]
       ELSE /\ Goto(s, "mail")
            /\ spf' = [spf EXCEPT ![s] = IF found = "Pass" THEN StoredSPFResult(found, key[s])
                                         ELSE NoResult]
    /\ UNCHANGED <<reportVars, msg>>

----------------------------------------------------------------------------
(* DKIM and DMARC *)

(* No error from DKIM: no signature, or a valid one.  The error of a         *)
(* verification is "nil" if it is valid.                                     *)
DkimPasses(results) ==
    results = <<>> \/ \E i \in 1..Len(results) : results[i].err = "nil"

Aligned(domain, from, alignment) ==
    domain = from \/ (alignment /= "s" /\ <<domain, from>> \in SubdomainOf)

checkSPFAlignment(stored, from, alignment) ==
    stored.Result = "Pass" /\ stored.Domain /= Nil /\ Aligned(stored.Domain, from, alignment)

checkDKIMAlignment(results, from, alignment) ==
    \E i \in 1..Len(results) :
       results[i].err = "nil" /\ Aligned(results[i].domain, from, alignment)

(* The record of a domain, Nil if there is none. *)
lookupDMARC(from) == DmarcRecords[from]

(* The domain of the first From address, Nil if it has none. *)
FromDomains == Domains \cup {Nil}

(* The verdict on a message whose From domain publishes a record.            *)
DmarcAccepts(stored, results, from) ==
    LET record == lookupDMARC(from) IN
    record /= Nil /\ record.Policy = "reject" =>
       \/ checkSPFAlignment(stored, from, record.SPFAlignment)
       \/ checkDKIMAlignment(results, from, record.DKIMAlignment)

(* OnMessage of DKIM, and of DMARC up to the lookup of the policy.  The      *)
(* first message that DMARC sees starts the report scheduler.  If DKIM       *)
(* refuses the message the transaction stands, and nothing changes.          *)
OnMessage(s) ==
    /\ Open(s)
    /\ \E results \in Verifications, from \in FromDomains :
          DkimPasses(results) /\ msg' = [msg EXCEPT ![s] = [dkim |-> results, from |-> from]]
    /\ Goto(s, "dmarc")
    /\ IF sched = "none" THEN StartScheduler ELSE UNCHANGED reportVars
    /\ UNCHANGED <<dnsVars, spf>>

(* The rest of DMARC's OnMessage with the deferred AddEvent.  The context    *)
(* holds no result of SPF or DKIM.  If the message is refused, for its       *)
(* header, a failed lookup or the policy, or cannot be queued, the           *)
(* transaction stands.                                                       *)
OnMessageReturn(s) ==
    LET from == msg[s].from
        passes == from /= Nil => DmarcAccepts(NoResult, <<>>, from)
    IN
    /\ stage[s] = "dmarc"
    /\ AddEvent
    /\ \/ Goto(s, "mail") /\ UNCHANGED spf
       \/ ~passes /\ Goto(s, "rejected") /\ UNCHANGED spf
       \/ /\ passes
          /\ Goto(s, "accepted")
          /\ spf' = [spf EXCEPT ![s] = NoResult]
    /\ msg' = [msg EXCEPT ![s] = Nil]
    /\ UNCHANGED dnsVars

(* RSET, or the end of the session. *)
Reset(s) ==
    /\ Open(s)
    /\ Goto(s, "idle")
    /\ spf' = [spf EXCEPT ![s] = NoResult]
    /\ UNCHANGED <<dnsVars, reportVars, msg>>

----------------------------------------------------------------------------
Resolve(s) == Lookup(s) /\ UNCHANGED <<reportVars, authVars>>
Report == Scheduler /\ UNCHANGED <<dnsVars, authVars>>
Tick == DnsTick /\ UNCHANGED <<reportVars, authVars>>

Next ==
    \/ \E s \in Sessions :
          \/ (\E d \in Domains : OnMailFrom(s, d)) \/ OnMailFromReturn(s)
          \/ OnMessage(s) \/ OnMessageReturn(s) \/ Reset(s)
          \/ Resolve(s)
    \/ Report
    \/ Tick

(* The resolver's read-write lock does not starve a waiting reader or writer *)
(* and the network answers or times out.                                     *)
Fairness ==
    /\ SchedulerFairness
    /\ \A s \in Sessions : SF_vars(Resolve(s)) /\ WF_vars(OnMailFromReturn(s))

Spec == Init /\ [][Next]_vars
FairSpec == Spec /\ Fairness

----------------------------------------------------------------------------
(* What the records of an answer say about a client: no lookup error, at     *)
(* most one record, and the first mechanism that is broken or covers the     *)
(* client, if any, is one that covers it and does not say Fail.              *)
Permits(a, s) ==
    \/ a.err = "notfound"
    \/ /\ a.err = "nil" /\ Len(a.records) <= 1
       /\ \A record \in {a.records[i] : i \in 1..Len(a.records)} :
             LET decides == {i \in 1..Len(record) : record[i].net = Nil \/ s \in record[i].net}
             IN  \A i \in decides :
                    (\A j \in decides : i <= j) => record[i].net /= Nil /\ record[i].qualifier /= "Fail"

(* A session gets past MAIL FROM exactly when the answer it was given        *)
(* permits its own client, although another session with another client may  *)
(* have fetched it (spf.go:100-190, :253-308).                               *)
SpfVerdict ==
    [][\A s \in Sessions :
          look[s] = "done" /\ stage'[s] /= "spf" =>
             (stage'[s] = "mail" <=> Permits(result[s].value, s))]_vars

(* The policy refuses no message whose From domain is aligned with the       *)
(* domain SPF passed or with that of a valid signature: the result of SPF is *)
(* stored in the context (spf.go:191), and DMARC reads it there              *)
(* (dmarc.go:161) and passes what is aligned (:213).  The code does not do   *)
(* this.                                                                     *)
AlignedPasses ==
    [][\A s \in Sessions : stage[s] = "dmarc" /\ stage'[s] = "rejected" =>
          LET from == msg[s].from
              record == lookupDMARC(from)
          IN  /\ ~checkSPFAlignment(spf[s], from, record.SPFAlignment)
              /\ ~checkDKIMAlignment(msg[s].dkim, from, record.DKIMAlignment)]_vars

(* MAIL FROM is answered: no session waits for ever behind the lock that is  *)
(* held during another's network lookup (cache.go:86-114).                   *)
MailAnswered == \A s \in Sessions : []<>(stage[s] /= "spf")

(* What the proofs need: the session's stage and its lookup go together, as  *)
(* AuthTypeOK says, and the invariants of the resolver and the report store. *)
AuthInv == AuthTypeOK /\ DnsInv /\ ReportInv
=============================================================================
