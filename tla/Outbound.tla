------------------------------ MODULE Outbound ------------------------------
(***************************************************************************)
(* The deliverer and the SMTP client pool of pkg/outbound: one goroutine    *)
(* per message and remote domain goes through the MX hosts of the domain    *)
(* with clients from per-host pools that all goroutines share.  A pool is a *)
(* channel; GetClient and ReleaseClient look it up under the mutex of the   *)
(* pool map and use it afterwards, and CloseAll may have closed it by then. *)
(* CloseAll takes the mutex for as long as it waits for the hosts of all the *)
(* idle clients to answer QUIT.  A channel that it has emptied stays closed, *)
(* so all that is left of it is that some goroutine still refers to it      *)
(* (`chan').                                                                 *)
(*                                                                          *)
(* Addresses that Deliver skips as malformed are not in To.  The data of a  *)
(* message, signed or not, makes no difference here.  Of an error from Send *)
(* the classification by isTemporarySMTPError and isPermanentSMTPError      *)
(* remains: "other" is neither.                                             *)
(***************************************************************************)
EXTENDS Integers, Sequences, FiniteSets

CONSTANTS
    Messages,      \* one call of Deliver each
    Domains, Hosts,
    Clients,       \* SMTPClient objects
    None,          \* no client, no host, unlocked
    To,            \* To[m]: the domains of m's recipients
    Local,         \* d.localDomains
    MX,            \* MX[d]: the hosts of d, if they are found
    Offering,      \* hosts that offer STARTTLS
    TLSEnabled,    \* config.TLSEnabled
    PoolSize       \* capacity of a host's channel

(* The goroutines of Deliver. *)
Jobs == {g \in Messages \X Domains : g[2] \in To[g[1]] \ Local}

(* There is always an object for a new client: goroutines, channels and      *)
(* CloseAll have the others.                                                 *)
ASSUME OutboundConstants ==
    /\ To \in [Messages -> SUBSET Domains]
    /\ MX \in [Domains -> Seq(Hosts) \ {<<>>}]
    /\ Offering \subseteq Hosts
    /\ None \notin Hosts \cup Clients \cup Jobs
    /\ TLSEnabled \in BOOLEAN
    /\ PoolSize \in Nat \ {0}
    /\ IsFiniteSet(Jobs) /\ IsFiniteSet(Hosts) /\ IsFiniteSet(Clients)
    /\ Cardinality(Clients) > Cardinality(Jobs) + PoolSize * Cardinality(Hosts)

VARIABLES
    deliver,    \* control state of each Deliver
    pc,         \* control state of each goroutine
    mx,         \* the hosts a goroutine has not finished with
    using,      \* its client
    chan,       \* what CloseAll did to the channel it got from getOrCreateHostPool
    answer,     \* how the last error of Send is classified
    status,     \* what it recorded for its domain at the end
    host,       \* the host a client is connected to, None if it is closed
    mu,         \* the goroutine that holds c.mu
    idle,       \* contents of each host's channel, also while CloseAll drains it
    sweep,      \* the hosts whose channels CloseAll has yet to close
    drain,      \* the host whose channel it has closed and is draining, or None
    quitting,   \* the client of that channel that it is closing, or None
    panicked,   \* a send on a closed channel ended the program
    accepted,   \* history: how often a host took the message for the domain
    fault       \* history: a host failed or refused something

jobVars == <<pc, mx, using, chan, answer, status>>
poolVars == <<host, mu, idle>>
closeVars == <<sweep, drain, quitting>>
historyVars == <<accepted, fault>>
vars == <<deliver, jobVars, poolVars, closeVars, panicked, historyVars>>

(* How isTemporarySMTPError and isPermanentSMTPError, asked in this order,   *)
(* see an error of Send.                                                     *)
ErrorClass == {"temporary", "permanent", "other"}

Statuses == {"none", "mx_lookup_temp_failed", "mx_lookup_perm_failed", "no_mx_records",
             "delivery_temp_failed", "delivery_perm_failed_domain", "delivered"}

Places == {"none", "lookup", "get", "select", "dial", "send", "sending", "close", "release",
           "put", "quit", "done"}

JobTypeOK ==
    /\ pc \in [Jobs -> Places]
    /\ mx \in [Jobs -> Seq(Hosts)]
    /\ using \in [Jobs -> Clients \cup {None}]
    /\ chan \in [Jobs -> {"open", "closed", "drained"}]
    /\ answer \in [Jobs -> ErrorClass \cup {"nil"}]
    /\ status \in [Jobs -> Statuses]

PoolTypeOK ==
    /\ host \in [Clients -> Hosts \cup {None}]
    /\ mu \in [Clients -> Jobs \cup {None}]
    /\ idle \in [Hosts -> Seq(Clients)] /\ \A h \in Hosts : Len(idle[h]) <= PoolSize
    /\ sweep \subseteq Hosts
    /\ drain \in Hosts \cup {None}
    /\ quitting \in Clients \cup {None}

OutboundTypeOK ==
    /\ deliver \in [Messages -> {"idle", "waiting", "returned"}]
    /\ JobTypeOK
    /\ PoolTypeOK
    /\ panicked \in BOOLEAN
    /\ accepted \in [Jobs -> Nat] /\ fault \in [Jobs -> BOOLEAN]

Init ==
    /\ deliver = [m \in Messages |-> "idle"]
    /\ pc = [g \in Jobs |-> "none"]
    /\ mx = [g \in Jobs |-> <<>>]
    /\ using = [g \in Jobs |-> None]
    /\ chan = [g \in Jobs |-> "open"]
    /\ answer = [g \in Jobs |-> "nil"]
    /\ status = [g \in Jobs |-> "none"]
    /\ host = [c \in Clients |-> None]
    /\ mu = [c \in Clients |-> None]
    /\ idle = [h \in Hosts |-> <<>>]
    /\ sweep = {} /\ drain = None /\ quitting = None
    /\ panicked = FALSE
    /\ accepted = [g \in Jobs |-> 0] /\ fault = [g \in Jobs |-> FALSE]

----------------------------------------------------------------------------
(* Deliver starts the goroutines, waits for all of them and returns nil      *)
(* whatever they found.                                                      *)
Deliver(m) ==
    /\ deliver[m] = "idle"
    /\ deliver' = [deliver EXCEPT ![m] = "waiting"]
    /\ pc' = [g \in Jobs |-> IF g[1] = m THEN "lookup" ELSE pc[g]]
    /\ UNCHANGED <<mx, using, chan, answer, status, poolVars, closeVars, panicked, historyVars>>

DeliverReturn(m) ==
    /\ deliver[m] = "waiting"
    /\ \A g \in Jobs : g[1] = m => pc[g] = "done"
    /\ deliver' = [deliver EXCEPT ![m] = "returned"]
    /\ UNCHANGED <<jobVars, poolVars, closeVars, panicked, historyVars>>

(* deliverToDomain records a status and returns. *)
Finish(g, s) ==
    /\ pc' = [pc EXCEPT ![g] = "done"]
    /\ mx' = [mx EXCEPT ![g] = <<>>]
    /\ status' = [status EXCEPT ![g] = s]

(* The end of an iteration over the MX hosts that did not deliver. *)
NextHost(g) ==
    IF Tail(mx[g]) = <<>>
    THEN Finish(g, "delivery_perm_failed_domain")
    ELSE /\ mx' = [mx EXCEPT ![g] = Tail(@)]
         /\ pc' = [pc EXCEPT ![g] = "get"]
         /\ UNCHANGED status

(* LookupMX fails, finds no records, or finds the hosts.  prepareMessageData *)
(* never stops the delivery.                                                 *)
LookupMX(g) ==
    /\ pc[g] = "lookup"
    /\ \/ /\ \E s \in {"mx_lookup_temp_failed", "mx_lookup_perm_failed", "no_mx_records"} :
                Finish(g, s)
          /\ fault' = [fault EXCEPT ![g] = TRUE]
       \/ /\ mx' = [mx EXCEPT ![g] = MX[g[2]]]
          /\ pc' = [pc EXCEPT ![g] = "get"]
          /\ UNCHANGED <<status, fault>>
    /\ UNCHANGED <<deliver, using, chan, answer, poolVars, closeVars, panicked, accepted>>

----------------------------------------------------------------------------
(* CloseAll holds p.mu. *)
Locked == drain /= None

(* getOrCreateHostPool, at the start of GetClient and of ReleaseClient, waits *)
(* for p.mu; the channel is one that is open then.  A client that is         *)
(* released is connected, see ClientsExclusive.                              *)
getOrCreateHostPool(g) ==
    /\ ~Locked
    /\ \/ pc[g] = "get" /\ pc' = [pc EXCEPT ![g] = "select"]
       \/ pc[g] = "release" /\ pc' = [pc EXCEPT ![g] = "put"]
    /\ chan' = [chan EXCEPT ![g] = "open"]
    /\ UNCHANGED <<deliver, mx, using, answer, status, poolVars, closeVars, panicked, historyVars>>

(* Faulty variant: the client stays in the channel. *)
SelectPeeks(g) ==
    LET h == Head(mx[g]) IN
    /\ pc[g] = "select"
    /\ IF chan[g] = "drained" \/ idle[h] = <<>>
       THEN pc' = [pc EXCEPT ![g] = "dial"] /\ UNCHANGED using
       ELSE pc' = [pc EXCEPT ![g] = "send"] /\ using' = [using EXCEPT ![g] = Head(idle[h])]
    /\ UNCHANGED <<deliver, mx, chan, answer, status, poolVars, closeVars, panicked, historyVars>>

(* Faulty variant: the nil client of a closed channel is an error. *)
GetClientNilFails(g) ==
    LET h == Head(mx[g]) IN
    /\ pc[g] = "select"
    /\ \/ /\ chan[g] /= "drained" /\ idle[h] /= <<>>
          /\ using' = [using EXCEPT ![g] = Head(idle[h])]
          /\ idle' = [idle EXCEPT ![h] = Tail(@)]
          /\ pc' = [pc EXCEPT ![g] = "send"]
          /\ UNCHANGED <<mx, status>>
       \/ /\ chan[g] /= "drained" /\ idle[h] = <<>>
          /\ pc' = [pc EXCEPT ![g] = "dial"]
          /\ UNCHANGED <<mx, status, using, idle>>
       \/ /\ chan[g] = "drained"
          /\ NextHost(g)
          /\ UNCHANGED <<using, idle>>
    /\ chan' = [chan EXCEPT ![g] = "open"]
    /\ UNCHANGED <<deliver, answer, host, mu, closeVars, panicked, historyVars>>

(* The select of GetClient: an idle client, also from a closed channel that  *)
(* CloseAll has not emptied yet, or a new one if there is none or the        *)
(* channel, now closed, gives nil.                                           *)
GetClient(g) ==
    LET h == Head(mx[g]) IN
    /\ pc[g] = "select"
    /\ \/ /\ chan[g] /= "drained" /\ idle[h] /= <<>>
          /\ using' = [using EXCEPT ![g] = Head(idle[h])]
          /\ idle' = [idle EXCEPT ![h] = Tail(@)]
          /\ pc' = [pc EXCEPT ![g] = "send"]
       \/ /\ chan[g] = "drained" \/ idle[h] = <<>>
          /\ pc' = [pc EXCEPT ![g] = "dial"]
          /\ UNCHANGED <<using, idle>>
    /\ chan' = [chan EXCEPT ![g] = "open"]
    /\ UNCHANGED <<deliver, mx, answer, status, host, mu, closeVars, panicked, historyVars>>

(* net/smtp: Hello must be called before all other methods, or fails. *)
HelloAgain(h) == TLSEnabled /\ h \in Offering

(* newSMTPClient: the host cannot be reached, or fails the greeting, HELO or *)
(* STARTTLS; or it does all that was asked of it, and then a second Hello is *)
(* an error if STARTTLS was done.  Every failure closes the connection.      *)
newSMTPClient(g) ==
    LET h == Head(mx[g])
        c == CHOOSE x \in Clients : host[x] = None IN
    /\ pc[g] = "dial"
    /\ \/ /\ fault' = [fault EXCEPT ![g] = TRUE]
          /\ NextHost(g)
          /\ UNCHANGED <<using, host>>
       \/ /\ HelloAgain(h)
          /\ NextHost(g)
          /\ UNCHANGED <<using, host, fault>>
       \/ /\ ~HelloAgain(h)
          /\ host' = [host EXCEPT ![c] = h]
          /\ using' = [using EXCEPT ![g] = c]
          /\ pc' = [pc EXCEPT ![g] = "send"]
          /\ UNCHANGED <<mx, status, fault>>
    /\ UNCHANGED <<deliver, chan, answer, mu, idle, closeVars, panicked, accepted>>

----------------------------------------------------------------------------
(* Send locks c.mu and resets the connection.  If that fails, be it because  *)
(* the host closed an idle connection, Send calls Close, which locks c.mu:   *)
(* control state "close" has no next step.                                   *)
Send(g) ==
    LET c == using[g] IN
    /\ pc[g] = "send"
    /\ mu[c] = None
    /\ IF host[c] = None
       THEN /\ answer' = [answer EXCEPT ![g] = "other"]
            /\ pc' = [pc EXCEPT ![g] = "release"]
            /\ UNCHANGED mu
       ELSE /\ mu' = [mu EXCEPT ![c] = g]
            /\ \E p \in {"sending", "close"} : pc' = [pc EXCEPT ![g] = p]
            /\ UNCHANGED answer
    /\ UNCHANGED <<deliver, mx, using, chan, status, host, idle, closeVars, panicked, historyVars>>

(* Faulty variant: when the reply is lost, Send transmits the message again. *)
SendAgain(g) ==
    /\ pc[g] = "sending"
    /\ answer' = [answer EXCEPT ![g] = "nil"]
    /\ \E n \in {1, 2} : accepted' = [accepted EXCEPT ![g] = @ + n]
    /\ mu' = [mu EXCEPT ![using[g]] = None]
    /\ pc' = [pc EXCEPT ![g] = "release"]
    /\ UNCHANGED <<deliver, mx, using, chan, status, host, idle, closeVars, panicked, fault>>

(* The rest of Send, from MAIL to the reply to the data: the host takes the  *)
(* message; or an error comes first; or the host takes it and the reply is   *)
(* lost, an end of file or a network error, which is never "permanent".      *)
SendReturn(g) ==
    /\ pc[g] = "sending"
    /\ \/ \E e \in {"nil", "temporary", "other"} :
             /\ answer' = [answer EXCEPT ![g] = e]
             /\ accepted' = [accepted EXCEPT ![g] = @ + 1]
             /\ fault' = [fault EXCEPT ![g] = @ \/ e /= "nil"]
       \/ \E e \in ErrorClass :
             /\ answer' = [answer EXCEPT ![g] = e]
             /\ fault' = [fault EXCEPT ![g] = TRUE]
             /\ UNCHANGED accepted
    /\ mu' = [mu EXCEPT ![using[g]] = None]
    /\ pc' = [pc EXCEPT ![g] = "release"]
    /\ UNCHANGED <<deliver, mx, using, chan, status, host, idle, closeVars, panicked>>

(* Faulty variant: an error of no known kind counts as permanent. *)
JudgeUnknownFails(g) ==
    \/ answer[g] = "temporary" /\ Finish(g, "delivery_temp_failed")
    \/ answer[g] \in {"permanent", "other"} /\ NextHost(g)
    \/ answer[g] = "nil" /\ Finish(g, "delivered")

(* What deliverToDomain makes of Send's answer. *)
Judge(g) ==
    \/ answer[g] = "temporary" /\ Finish(g, "delivery_temp_failed")
    \/ answer[g] = "permanent" /\ NextHost(g)
    \/ answer[g] \in {"nil", "other"} /\ Finish(g, "delivered")

(* Faulty variant: a client for which there is no room is not closed. *)
ReleaseDrops(g) ==
    LET h == host[using[g]] IN
    /\ pc[g] = "put"
    /\ chan[g] = "open"
    /\ idle' = IF Len(idle[h]) < PoolSize
               THEN [idle EXCEPT ![h] = Append(@, using[g])] ELSE idle
    /\ using' = [using EXCEPT ![g] = None]
    /\ Judge(g)
    /\ UNCHANGED <<deliver, chan, answer, host, mu, closeVars, panicked, historyVars>>

(* The select of ReleaseClient: back into the channel; or, if there is no    *)
(* room, to Close, which locks c.mu and sends QUIT.                          *)
ReleaseClient(g) ==
    LET c == using[g]
        h == host[c] IN
    /\ pc[g] = "put"
    /\ chan[g] = "open"
    /\ \/ /\ Len(idle[h]) < PoolSize
          /\ idle' = [idle EXCEPT ![h] = Append(@, c)]
          /\ using' = [using EXCEPT ![g] = None]
          /\ Judge(g)
          /\ UNCHANGED mu
       \/ /\ Len(idle[h]) >= PoolSize
          /\ mu[c] = None
          /\ mu' = [mu EXCEPT ![c] = g]
          /\ pc' = [pc EXCEPT ![g] = "quit"]
          /\ UNCHANGED <<idle, using, mx, status>>
    /\ UNCHANGED <<deliver, chan, answer, host, closeVars, panicked, historyVars>>

(* The same with a channel that CloseAll closed in the meantime. *)
ReleasePanic(g) ==
    /\ pc[g] = "put"
    /\ chan[g] /= "open"
    /\ panicked' = TRUE
    /\ UNCHANGED <<deliver, jobVars, poolVars, closeVars, historyVars>>

(* The rest of Close: the host answers QUIT, with whatever reply, or the     *)
(* connection ends.  No deadline makes it, ReleaseClient has just cleared    *)
(* the one of Send.                                                          *)
QuitReturn(g) ==
    LET c == using[g] IN
    /\ pc[g] = "quit"
    /\ host' = [host EXCEPT ![c] = None]
    /\ mu' = [mu EXCEPT ![c] = None]
    /\ using' = [using EXCEPT ![g] = None]
    /\ Judge(g)
    /\ UNCHANGED <<deliver, chan, answer, idle, closeVars, panicked, historyVars>>

----------------------------------------------------------------------------
(* CloseAll closes the channel of h, after it has deleted that of drain; it  *)
(* has yet to close those of rest.                                           *)
CloseChannel(h, rest) ==
    /\ drain' = h
    /\ sweep' = rest
    /\ chan' = [g \in Jobs |->
                  CASE chan[g] = "closed" -> "drained"
                    [] chan[g] = "open" /\ pc[g] \in {"select", "put"} /\ Head(mx[g]) = h
                         -> "closed"
                    [] OTHER -> chan[g]]
    /\ UNCHANGED <<deliver, pc, mx, using, answer, status, poolVars, quitting, panicked,
                   historyVars>>

(* CloseAll locks p.mu and closes one channel after the other, in the order  *)
(* of the map.                                                               *)
CloseAll ==
    /\ ~Locked
    /\ \E h \in Hosts : CloseChannel(h, Hosts \ {h})

(* It closes each client that it still finds in the channel.  The mutex of   *)
(* the client is its own until the host has answered QUIT, for which there   *)
(* is no deadline either.                                                    *)
DrainClient ==
    /\ Locked /\ quitting = None
    /\ idle[drain] /= <<>> /\ mu[Head(idle[drain])] = None
    /\ quitting' = Head(idle[drain])
    /\ idle' = [idle EXCEPT ![drain] = Tail(@)]
    /\ UNCHANGED <<deliver, jobVars, host, mu, sweep, drain, panicked, historyVars>>

DrainQuit ==
    /\ quitting /= None
    /\ host' = [host EXCEPT ![quitting] = None]
    /\ quitting' = None
    /\ UNCHANGED <<deliver, jobVars, mu, idle, sweep, drain, panicked, historyVars>>

(* Faulty variant: p.mu stays locked after the last channel. *)
DrainKeepsLock ==
    /\ Locked /\ quitting = None
    /\ idle[drain] = <<>>
    /\ \E h \in sweep : CloseChannel(h, sweep \ {h})

(* After the last channel it unlocks p.mu. *)
DrainNext ==
    /\ Locked /\ quitting = None
    /\ idle[drain] = <<>>
    /\ \/ \E h \in sweep : CloseChannel(h, sweep \ {h})
       \/ sweep = {} /\ CloseChannel(None, {})

----------------------------------------------------------------------------
Job(g) ==
    /\ ~panicked
    /\ \/ LookupMX(g)
       \/ getOrCreateHostPool(g)
       \/ GetClient(g)
       \/ newSMTPClient(g)
       \/ Send(g)
       \/ SendReturn(g)
       \/ ReleaseClient(g)
       \/ ReleasePanic(g)

Goroutine(g) == Job(g) \/ (~panicked /\ QuitReturn(g))

(* CloseAll between two QUITs. *)
Drain == DrainClient \/ DrainNext

Next ==
    \/ \E g \in Jobs : Goroutine(g)
    \/ \E m \in Messages : ~panicked /\ (Deliver(m) \/ DeliverReturn(m))
    \/ ~panicked /\ (CloseAll \/ Drain \/ DrainQuit)

Spec == Init /\ [][Next]_vars

(* Goroutines run, and sync.RWMutex passes a lock on to who has waited for   *)
(* it, however often CloseAll is called.  Lookups have the context of        *)
(* Deliver, dials ConnectTimeout and Send SendTimeout; but nothing makes a   *)
(* host answer QUIT.                                                         *)
Fairness ==
    /\ \A g \in Jobs : WF_vars(Job(g)) /\ SF_vars(~panicked /\ getOrCreateHostPool(g))
    /\ \A m \in Messages : WF_vars(~panicked /\ DeliverReturn(m))
    /\ WF_vars(~panicked /\ Drain)

FairSpec == Spec /\ Fairness

----------------------------------------------------------------------------
IdleAt(c, h) == {i \in DOMAIN idle[h] : idle[h][i] = c}

(* An SMTP connection is used by one goroutine at a time, for the host that  *)
(* it is connected to: a client is in one place of its own host's channel,   *)
(* or with one goroutine, and only that goroutine ever has its mutex, or     *)
(* with CloseAll.  So a goroutine that hangs in Send or in QUIT with the     *)
(* mutex blocks neither the pool nor CloseAll.                               *)
ClientsExclusive ==
    /\ \A g \in Jobs : using[g] /= None =>
         /\ host[using[g]] = Head(mx[g])
         /\ \A f \in Jobs \ {g} : using[f] /= using[g]
         /\ \A h \in Hosts : IdleAt(using[g], h) = {}
    /\ \A c \in Clients, h \in Hosts :
         /\ IdleAt(c, h) /= {} => host[c] = h
         /\ Cardinality(IdleAt(c, h)) <= 1
    /\ \A c \in Clients : mu[c] /= None => using[mu[c]] = c
    /\ quitting /= None =>
         /\ host[quitting] = drain /\ IdleAt(quitting, drain) = {}
         /\ \A g \in Jobs : using[g] /= quitting

(* No connection is left open that nobody can close any more.                *)
NoneLeaked ==
    \A c \in Clients : host[c] /= None =>
        \/ \E g \in Jobs : using[g] = c
        \/ \E h \in Hosts : IdleAt(c, h) /= {}
        \/ quitting = c

(* One Deliver gives a message to a domain at most once, although a host may *)
(* have taken it when Send reports an error: after such an error no further  *)
(* host is tried.                                                            *)
AcceptedOnce ==
    \A g \in Jobs : accepted[g] <= 1

(* What is recorded for a domain is earned: it has failed only if no host    *)
(* took the message, and is delivered only if one did or the error that Send *)
(* returned is of no known kind, which deliverToDomain takes for success.    *)
VerdictsAreEarned ==
    \A g \in Jobs :
        /\ status[g] = "delivery_perm_failed_domain" => accepted[g] = 0
        /\ status[g] = "delivered" => accepted[g] > 0 \/ answer[g] = "other"

Hung(m) == \E g \in Jobs : g[1] = m /\ pc[g] = "close"

(* Nobody that m depends on waits for the answer to a QUIT for ever: none of *)
(* its own goroutines in ReleaseClient, nor CloseAll, which has p.mu then.   *)
QuitsAnswered(m) ==
    /\ \A g \in Jobs : g[1] = m => []<>(pc[g] /= "quit")
    /\ []<>(quitting = None)

(* Deliver returns unless a host never answers the QUIT of one of its own    *)
(* goroutines or of CloseAll, a connection failed its reset, or CloseAll     *)
(* made a ReleaseClient panic.  Beyond that goroutines do not wait for each  *)
(* other: not for one of another Deliver that hangs in QUIT or after a       *)
(* failed reset, and a CloseAll that gets its answers gives p.mu back        *)
(* (smtp_client.go:200-232, 293-381).                                        *)
DeliverReturnsOrHangs ==
    \A m \in Messages : QuitsAnswered(m) =>
        (deliver[m] = "waiting" ~> deliver[m] = "returned" \/ Hung(m) \/ panicked)

(* "Use a separate context with timeout for delivery to ensure we don't      *)
(* block shutdown": Deliver returns, if the hosts answer every QUIT.         *)
DeliverReturns ==
    \A m \in Messages : QuitsAnswered(m) =>
        (deliver[m] = "waiting" ~> deliver[m] = "returned" \/ panicked)

(* A domain fails for good only if a host failed or refused, or offers       *)
(* STARTTLS, which newSMTPClient follows by a second Hello that net/smtp     *)
(* rejects: never because of what other goroutines or CloseAll did with the  *)
(* pool (deliverer.go:205-262, smtp_client.go:117).                          *)
FailuresAreRemote ==
    \A g \in Jobs : status[g] = "delivery_perm_failed_domain" =>
        fault[g] \/ \E i \in DOMAIN MX[g[2]] : HelloAgain(MX[g[2]][i])

(* When Deliver has returned, nothing of it is left running: every one of    *)
(* its goroutines has recorded what became of its domain and holds neither a *)
(* client nor a mutex.  What it recorded is all there is: Deliver returns    *)
(* nil whatever it was (deliverer.go:161-180).                               *)
ReturnedIsSettled ==
    \A g \in Jobs : deliver[g[1]] = "returned" =>
        /\ pc[g] = "done" /\ status[g] /= "none"
        /\ using[g] = None /\ \A c \in Clients : mu[c] /= g

(* No goroutine waits for another's client: the mutex of the client that it  *)
(* is about to send with, or to close, is free, a host that it is about to   *)
(* dial finds an object for the client, and CloseAll finds the mutexes of    *)
(* all idle clients free, also while some goroutine hangs in Close           *)
(* (smtp_client.go:139, 201).                                                *)
NeverBlocked ==
    /\ \A g \in Jobs : pc[g] \in {"send", "put"} => mu[using[g]] = None
    /\ \A g \in Jobs : pc[g] = "dial" => \E c \in Clients : host[c] = None
    /\ \A h \in Hosts : \A i \in DOMAIN idle[h] : mu[idle[h][i]] = None

(* The work a goroutine has left: the hosts to try and, for the one it is    *)
(* at, the way through GetClient, Send and ReleaseClient.                    *)
StepsLeft(p) ==
    CASE p = "get" -> 8 [] p = "select" -> 7 [] p = "dial" -> 6 [] p = "send" -> 5
      [] p = "sending" -> 4 [] p \in {"close", "release"} -> 3 [] p = "put" -> 2
      [] p = "quit" -> 1 [] OTHER -> 0

Work(g) == 9 * Len(mx[g]) + StepsLeft(pc[g])

(* A goroutine that has its hosts takes a bounded number of steps: each of   *)
(* its own leaves it less to do, and neither another goroutine nor CloseAll  *)
(* ever gives it more.                                                       *)
WorkShrinks ==
    [][\A g \in Jobs : pc[g] \notin {"none", "lookup"} =>
          IF pc'[g] = pc[g] THEN mx'[g] = mx[g] ELSE Work(g)' < Work(g)]_vars

----------------------------------------------------------------------------
(* Where a goroutine has a client. *)
Holding == {"send", "sending", "close", "release", "put", "quit"}

(* What a goroutine's control state says about its other variables. *)
JobInv(g) ==
    /\ pc[g] = "none" <=> deliver[g[1]] = "idle"
    /\ using[g] /= None <=> pc[g] \in Holding
    /\ pc[g] \in Holding \cup {"get", "select", "dial"} => mx[g] /= <<>>
    /\ \A i \in DOMAIN mx[g] : \E j \in DOMAIN MX[g[2]] : MX[g[2]][j] = mx[g][i]
    /\ status[g] /= "none" => pc[g] = "done"
    /\ accepted[g] <= 1
    /\ pc[g] \notin {"release", "put", "quit", "done"} => accepted[g] = 0
    /\ pc[g] \in {"release", "put", "quit"} =>
          /\ answer[g] = "nil" => accepted[g] = 1
          /\ answer[g] = "permanent" => accepted[g] = 0
          /\ answer[g] /= "nil" => fault[g]

(* Who has a client: a goroutine, *)
UseInv ==
    \A g \in Jobs : using[g] /= None =>
         /\ host[using[g]] = Head(mx[g])
         /\ \A f \in Jobs : using[f] = using[g] => f = g

(* or one place in its host's channel; *)
IdleInv ==
    \A h \in Hosts : \A i \in DOMAIN idle[h] :
         /\ host[idle[h][i]] = h
         /\ \A g \in Jobs : using[g] /= idle[h][i]
         /\ \A j \in DOMAIN idle[h] : idle[h][i] = idle[h][j] => i = j

(* or it is the one that CloseAll is closing; *)
QuitInv ==
    quitting /= None =>
         /\ drain /= None /\ host[quitting] = drain
         /\ \A g \in Jobs : using[g] /= quitting
         /\ \A i \in DOMAIN idle[drain] : idle[drain][i] /= quitting

(* its mutex, only a goroutine that is in Send or Close with it; *)
MutexInv ==
    \A c \in Clients : mu[c] /= None =>
         using[mu[c]] = c /\ pc[mu[c]] \in {"sending", "close", "quit"}

(* and nobody only if it is closed. *)
OwnerInv ==
    \A c \in Clients : host[c] /= None =>
         \/ \E g \in Jobs : using[g] = c
         \/ \E h \in Hosts : \E i \in DOMAIN idle[h] : idle[h][i] = c
         \/ quitting = c

(* What Deliver waits for: a goroutine that is done has recorded a status,   *)
(* and all of those that it started are done when it returns.                *)
WaitInv ==
    \A g \in Jobs :
        /\ pc[g] = "done" => status[g] /= "none"
        /\ deliver[g[1]] = "returned" => pc[g] = "done"

(* The inductive invariant. *)
OutboundInv ==
    /\ OutboundTypeOK
    /\ \A g \in Jobs : JobInv(g)
    /\ UseInv /\ IdleInv /\ QuitInv /\ MutexInv /\ OwnerInv
    /\ VerdictsAreEarned /\ FailuresAreRemote
=============================================================================
