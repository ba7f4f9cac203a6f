# TLA+ models of smtpd

Specifications, model-checking runs and machine-checked proofs for the mail path of
`sirerun/smtpd`: the SMTP session, the connection handling of the server, the in-memory queue,
the processors that deliver from it, the outbound deliverer with its connection pool, the
embeddable receiver of `pkg/inbound`, and the plugins that authenticate and limit senders.
`PROJECT.json` lists components, runs, hazards, the
source lines behind every definition, and the theorems.

## 1. The system

```
            accept loop -> connChan -> connection workers        (internal/server/server.go)
                                            |
                                       Session.Handle            (internal/server/session.go)
                                            | Enqueue
   retry heap <-> scheduler -> ready channel                     (internal/queue/queue.go)
        ^ Requeue                           | Dequeue
        +------------- processor workers ---+                    (internal/processor/processor.go)
                              | Deliver
                    Deliverer -> SMTP client pool -> MX hosts    (pkg/outbound)
```

`cmd/smtpd` builds one queue and two servers (SMTP and submission); each server has its own
processor, so the workers of two processors share the queue. On SIGINT/SIGTERM both servers are
stopped concurrently; the queue is never closed. `pkg/inbound` is a second, embeddable receiver with
its own session loop. `cmd/smtpd` registers no plugins: the SPF, DKIM, DMARC and rate limiting
plugins, and the DNS cache behind them, are there for programs that do.

| Component | State | Operations | What is hard |
|---|---|---|---|
| Queue | mutex, ready channel, retry heap, one-slot signal, timer, closed flag | Enqueue, Dequeue, Requeue, scheduler, promotion, Close | selects outside and inside the mutex, wake-ups, a full channel, Close racing everything |
| Processor | position of each worker, RetryCount, NextAttemptAt | worker loop, Start, Stop | messages in hand at shutdown, timeouts, counters advanced by several workers |
| Backoff | RetryCount, delay | calculateRetryDelay, Requeue's correction | 64-bit wrap-around |
| Session | SMTP state, TLS, authentication, envelope, body size | HELO, STARTTLS, MAIL, RCPT, DATA, RSET, AUTH, NOOP, QUIT, Reset | pooled objects, commands in any order, replies that cannot be written |
| Server | slots, connChan, workers, shutdown | accept, hand-over, serve, Stop | two bounded channels, a channel closed with content, a timeout |
| Deliverer, client pool | per-host pools, client mutex | Deliver, GetClient, Send, ReleaseClient, Close, CloseAll | concurrent domains, error classification, nested locking |
| Inbound receiver | peers, connections, DATA tokens, transaction context | Serve, session commands | limits under two mutexes, deadlines while the backend accepts, shutdown against admission |
| SPF, DKIM, DMARC, reporting | results of checks, event store | plugin hooks, report scheduler | results passed between hooks, events added during a report |
| DNS cache, rate limiter, filters | cache, counters | lookup, OnMailFrom, Allow | check-then-act, expiry at the boundary |
| Configuration, TLS setup, auth stores, health, metrics, logging, tools | - | - | sequential set-up or pure output |

The properties that make these parts correct: a message that was accepted is in exactly one place
until it is settled, and is tried again at the right time; Close and Stop return and strand
nothing; mail is relayed only for authenticated clients, with the envelope the client was told;
every connection is served by one worker, closed, and its slot returned.

## 2. Modules

| Module | Models | Notes |
|---|---|---|
| `Queue` | `internal/queue/queue.go` | callers as general as the interface allows |
| `Custody` | - | the abstract promise of the queue: the life of a message without channels, heap or locks |
| `Processor` | `internal/processor/processor.go` | extends `Queue`: its workers are clients of the queue |
| `Backoff` | `calculateRetryDelay`, the correction in `Requeue` | exact 64-bit arithmetic |
| `Session` | `internal/server/session.go` | one pooled object, any sequence of connections |
| `Server` | `internal/server/server.go` | accept loop, workers, Stop |
| `Outbound` | `pkg/outbound` | deliverer, SMTP client, client pool |
| `Inbound` | `pkg/inbound/server.go` | Serve, admission, sessions, shutdown and a second Serve |
| `DnsCache` | `internal/dns/cache.go` | the caching resolver |
| `Reporting` | `internal/plugins/dmarc/reporting.go`, the scheduler in `dmarc.go` | event store and report goroutine |
| `MailAuth` | `internal/plugins/spf`, `dkim`, `dmarc` | extends `DnsCache` and `Reporting`: sessions that share both |
| `RateLimit` | `pkg/plugin/ratelimit` | concurrent callers of OnMailFrom |
| `QueueProofs`, `ProcessorProofs`, `SessionProofs`, `ServerProofs`, `OutboundProofs`, `InboundProofs`, `MailAuthProofs`, `PacingProofs` | - | theorems; those about `DnsCache` and `Reporting` are in `MailAuthProofs`, those about `Backoff` and `RateLimit` in `PacingProofs` |
| `MCQueue`, `MCProcessor`, `MCOutbound`, `MCInbound`, `MCMailAuth`, `MCPacing` | - | instances for TLC; `MCPacing` is one for `Backoff` and `RateLimit`, which share no state |

Operators introduced by "Faulty variant" are deliberately wrong versions of the operator that
follows. They are used by no specification; putting one in the place of its original must make a
named property fail, which shows that the property depends on that part of the code.

**Queue.** A critical section of `q.mu` that cannot block is one step. Two others hold `mu` across
steps: `Requeue` waiting in its select, and the loop of `promoteReadyMessages`, during which
`Dequeue` and `Enqueue`'s send, which need no lock, may run. The select statements are
disjunctions. Time is relative: `nextAttempt[m]` is `NextAttemptAt` minus now and `timer` what
is left of the timer, both cut off at zero, and `Tick` passes a unit of time. The heap is a set
with its minimum, since `container/heap` keeps the order. `fate` and `quiet` are history
variables. `quiet` records that a push since the last timer setting was not signalled because the
context was done; the 30-second metrics ticker then bounds the delay.

**Processor.** The control states of a worker are the places where it can be observed: the
check at the top, `Dequeue`, `Deliver`, and `Requeue` before and after it holds `mu`. `Deliver` is
any implementation of the interface. The module's `Session` action is the one call of `Enqueue` in
`handleData`, whose context is never done. A delivery may time out any number of times, so `RetryCount`
has no bound; the model keeps it up to `RetryCap`, from where on the backoff is the longest delay or, when
the product wraps, in the past. `QueueMayClose` adds a caller of `Close`, which
`cmd/smtpd` does not have but the package offers.

**Session.** A handler runs to its reply in one step except where it reads from the connection
(AUTH LOGIN, DATA) or waits for the queue. Any reply may fail to be written, which ends the
connection with the object in the state the handler left. Addresses are what the handlers
extract; how they are parsed is left out, as are the texts of replies. A body is a number of
lines. Plugins may reject anything. `verified`, `agreedFrom`, `agreedTo`, `queued` and `told` are
history variables: what was proved on this connection, what the replies told the client, and what
reached the queue. The configuration of the server is chosen in `Init` and never changes.

**Server.** Sessions last as long as they like. The listener, the two channels, the workers and
the steps of `Stop` are explicit. The last of them waits for the processor's own Stop, whose workers are
modelled in `Processor`; here it returns at some time or never.

**Outbound.** One goroutine per message and remote domain (`Jobs`), each going through the hosts of
its domain; the clients it takes from and returns to the per-host channels are shared.
`getOrCreateHostPool` and the select that uses the channel are two steps, so that CloseAll may
come in between. CloseAll holds the pool's mutex from its first channel to its last and waits for the answer
to one QUIT after the other; meanwhile `getOrCreateHostPool` waits, and a goroutine that has its channel
already may still take a client from it. A channel that is closed and drained gives nil for ever, so
`chan` is all there is to remember of it. `ReleaseClient` sends QUIT too, when the pool is full, with the
client's mutex locked. No QUIT has a deadline. Only the interface and a test name CloseAll; the model
calls it at any time. An error of `Send` is represented by its class; a reply
that got lost after the host took the message is a network error or an end of file, which
`isPermanentSMTPError` is not asked about or does not match (a network error whose text happens to
contain one of its phrases is left out). The second `Hello`, after STARTTLS,
fails because `net/smtp` wants it "called before any of the other methods" and checks that.
DKIM signing never stops a delivery and is left out. `accepted` and `fault` are history variables.

**Inbound.** The accept loop, the goroutine that watches for cancellation, the deferred functions of
Serve and one goroutine per connection. Admission is one step, since it holds both mutexes; leaving
is two, one for each. A command is one step up to its reply, which may fail, except where the session
calls the backend or reads the message, and between the look at the transaction's context after Accept
and the 250 (`AcceptReturn`, `Ack`). The Backend is external. `cfg` is chosen in `Init`. `recent`,
`agreed`, `stored` and `acked` are history variables: an address' admissions in the last tick, the last
two, and so on to a minute, the
envelope as the client knows it, the one the backend stored, and whether the client got its 250.

**DnsCache, Reporting, MailAuth.** A lookup is a look under the read lock, one under the write lock,
and the network call, during which the write lock is kept. The report goroutine writes a report and
clears the store in two critical sections. `MailAuth` puts sessions on top: SPF looks up a domain
through the cache and evaluates the records for its own client, DKIM and DMARC judge the message, DMARC
adds an event whatever its verdict. A mechanism of an SPF record is its qualifier with the set of
clients it covers. The lookup of the DMARC record is one step with the record or an error, although
a DMARC checker built for it goes through the cache too. `spf` is a history variable: SPF
and DKIM store their results in a copy of the context that is dropped when they return, so DMARC works
without them and rejects every message of a domain with p=reject (run `mailauth_dmarc`). A session that
the policy refused is in stage `rejected`, where it can do what it could before the message.

**RateLimit.** A caller reads the clock, looks at `cleanupAt` without the lock, cleans up, and decides:
four steps, between which the clock and the other callers go on. `lag` is the age of its reading.
`passed` is a history variable: a sender's mails that were let through in the present tick, in this and
the last, and so on.

## 3. Runs

Deadlock checking is off where the system may come to rest: all messages of the model used up and
the queue closed, the server stopped, or all deliveries returned.

| Run | Shows |
|---|---|
| `queue` | `OneOwner`: a message is in one place; `AcceptedIsKept`: none is dropped before Close; `NoLostWakeup`; `NoEarlyPromotion`; `KeepsCustody`: refinement of `Custody` |
| `processor` | `ShutdownKeepsMail`, `RetryBudget`, and `UsesQueueProperly`: the composition implements `QueueSpec` |
| `processor_live` | `StopReturns`; `CloseReturns`; `EventuallySettled`: a message is delivered or given up, unless the processor is stopped, the queue closed or wedged, or its deliveries time out for ever |
| `session` | on servers with and without TLS, forced TLS and a user store: `RelayControl`, `EnvelopeAgreed`, `AckedOnce` |
| `server` | `SlotAccounting`, `OneHandler`, `CleanStop`; `ConnsAreClosed`, if sessions end; `StopCompletes`: Stop gets to the processor although they need not, and returns if the processor's Stop does |
| `outbound` | `ClientsExclusive`: a connection has one user; `NoneLeaked`; `AcceptedOnce`: one Deliver gives a domain the message at most once, lost replies included; `VerdictsAreEarned`; `FailuresAreRemote`: a domain fails only by a fault outside, or because of the second Hello; `DeliverReturnsOrHangs`: Deliver returns unless a reset fails, CloseAll makes a ReleaseClient panic, or a QUIT stays unanswered that one of its own goroutines or CloseAll has sent |
| `inbound` | `PeerAccounting`, `AdmissionLimits`, `RateBound`: the limits and their books, at every moment; `CleanRestart`, `ServeReturns`: shutdown against admission, and what it leaves behind; `AckIsDurable`: what a 250 means; `RefusalEarned`: what a 421 means; `TransactionEnds` |
| `mailauth` | `AskedOnce`, `CacheBounded`: the cache under concurrent lookups; `SpfVerdict`: evaluation against a reference definition; `EventsReported`: what becomes of events; `MailAnswered` |
| `pacing` | `WaitBounded`: whatever the arithmetic does, a failed message is tried again, not at once and within the cap; `RateBound`: stale clock readings shorten the rate limiter's window by their lag and no more |

Three runs end in a counterexample to something the repository's comments say:

| Run | Counterexample |
|---|---|
| `processor_wedge` | a promotion that found the channel full has filled the signal slot; a worker enters Requeue and waits for the slot with `mu` held; the scheduler waits for `mu` (`docs/plan.md`, task T2.5) |
| `outbound_hang` | a connection fails the RSET at the start of Send; Send calls Close, which waits for the mutex that Send holds; Deliver never returns |
| `mailauth_dmarc` | SPF passes for the domain of the From header; DMARC finds no result in its context and rejects the message, as its policy is p=reject (`docs/adr/003-mail-authentication-advisory-to-dmarc.md`, finding C3; `docs/plan.md`, task T3.1) |

Eight other behaviours of the code are steps of the models, and the properties are worded around them:

- Enqueue waits in its select while Close closes `readyChan`, and panics (`EnqueuePanic`; `docs/plan.md`,
  task T2.4). `AcceptedIsKept` and `Custody` confine this to a closed queue.
- An Enqueue that passed the closed check before Close may be accepted after it; `Custody` allows that.
- At RetryCount 29 the backoff wraps to a negative duration, and Requeue then makes the next attempt
  five seconds away. `WaitBounded` includes it.
- A host that offers STARTTLS is given up because Hello is called again after StartTLS:
  `FailuresAreRemote` makes an exception for such hosts.
- A DMARC event that is added between a report and the Clear that follows is in no report:
  `EventsReported` says that every other one is.
- A delivery that times out is retried without a look at `MaxRetries`, so a message whose deliveries all
  time out is retried for ever: `EventuallySettled` has the premise that they do not.
- A host that never answers QUIT holds the goroutine that releases a client to a full pool, or CloseAll
  and with it every goroutine that needs the pool's mutex: the premise `QuitsAnswered` of
  `DeliverReturnsOrHangs`. A QUIT of another Deliver is not in it.
- `pkg/inbound` looks at the transaction's context after Accept and replies afterwards: a 250 may follow
  the end of the context by as much as lies between the two, and is durable all the same.

With `outbound_hang` in mind, `StopReturns` speaks of Deliverers that return, and `StopCompletes` of a
processor's Stop that does.

**Bounds.** A ready channel of one slot is full with one message, so promotion meets a full
channel with two messages and still has another due with three. Two callers suffice for one to
hold `mu` while another works on the channel. Delays of zero, one and two units distinguish due,
next and later; `FiveSeconds`, `Hour` and the retry delays are scaled down, keeping them positive.
`MaxRetries` is 1 and `RetryCap`, up to which RetryCount is kept, is 2, so that exhaustion,
and exceeding `MaxRetries` by timeouts, both happen; beyond it the count stays, and the delays are those of
every larger one. In `processor_live`, which has one worker, both are 0: a temporary failure gives up
and a timeout leads to a Requeue, any number of times. `MaxCount` 70 takes the backoff past the width of the shift.
Two senders, a local and a remote recipient, two recipients per transaction and two
messages in the queue let an envelope be confused with an earlier one. Four connections against
two slots, two workers and a backlog of one reach every refusal of the accept loop. Two messages
with one remote domain each share a host with a pool of one: they meet an idle, an empty and a full pool,
and CloseAll before, in and after every select. Each domain has another host to go on to after a failure,
of which one offers STARTTLS. That Deliver waits for several goroutines is not in this instance; it is
proved (`OutboundReturnedIsSettled`).
`MCInbound` has two connections, two addresses and three configurations: two sessions of one address
share a DATA slot and fill the peer table; the limit per address refuses; the limit on connections
refuses. In each the rate limit is one, and a minute is two ticks, so that a window is new, running or
over. A cache of one entry and two domains evict at every miss; two events let one be added before, in
and after the gap of a report. Two callers of the rate limiter whose clock readings lag by up to
one tick meet in every order.
Messages and callers are interchangeable, and the safety runs use that symmetry.

**Fairness.** Goroutines that can run do run (weak fairness). Where a step needs a mutex that others
take and release, a channel others use, or a case of a select that is ready again and again, it is
strongly fair: Go's mutex hands itself to starving waiters, channels serve waiters in order, and
select chooses at random among ready cases. For the processor, `Deliver` returns
because it gets a deadline; in `Outbound`, lookups and dials end with that context and Send by its own
timeout; nothing is assumed of QUIT, which has none. The mutex of the pool is handed to those who wait, however
often CloseAll comes back.
A session ends by its read and write timeouts, but only while the processor runs: `Enqueue` on a full queue
waits without a timeout. So `Server` assumes nothing of it; `SessionsEnd` is a premise of
`ConnsAreClosed` only, and `ProcessorStops`, that the processor's Stop returns, of the second half of
`StopCompletes` only. Callers of `Close` and `Stop` are not obliged to appear. In `Inbound` a silent
client runs into the idle time-out, a backend call ends at the latest with its context, as Serve
demands, and a session whose transaction is over reads no more than what it has buffered. In
`MailAuth` the network answers or times out, and the read-write lock starves nobody; `EventsReported`
assumes that not every attempt to write a report fails.

## 4. Proofs

All theorems hold for every value of the constants that satisfies the named assumptions of the
module: sets of any size where the model checker has two or three elements. Except for the liveness
properties, every property of a run that passes is a theorem.

| Module | Theorems (property of a run) | Theorems (no run) |
|---|---|---|
| `QueueProofs` | `QueueOneOwner`, `QueueSafety` (`AcceptedIsKept`), `QueueNoLostWakeup`, `QueueNoEarlyPromotion`, `QueueKeepsCustody` | `QueueInvariant`, `QueueTypes`, `QueueCloseIsFinal` |
| `ProcessorProofs` | `ProcessorShutdownKeepsMail`, `ProcessorRetries` (`RetryBudget`), `ProcessorUsesQueueProperly`, `ProcessorKeepsCustody` | `ProcessorInvariant`, `ProcessorTypes`, `ProcessorGivesUpLate`, `ProcessorNoEarlyDelivery`, `ProcessorFinishedIsFinal`, `ProcessorOnlyWedge`, `ProcessorWedgeLasts` |
| `SessionProofs` | `SessionRelayControl`, `SessionEnvelopeAgreed`, `SessionAckedOnce` | `SessionInvariant`, `SessionTypes`, `SessionNoCleartextAuth`, `SessionLocalOnly` |
| `ServerProofs` | `ServerSlotAccounting`, `ServerOneHandler`, `ServerCleanStop` | `ServerInvariant`, `ServerTypes`, `ServerNoneStranded`, `ServerRefusalEarned`, `ServerDraining` |
| `OutboundProofs` | `OutboundClientsExclusive`, `OutboundNoneLeaked`, `OutboundAcceptedOnce`, `OutboundVerdictsAreEarned`, `OutboundFailuresAreRemote` | `OutboundInvariant`, `OutboundTypes`, `OutboundReturnedIsSettled`, `OutboundNeverBlocked`, `OutboundWorkShrinks` |
| `InboundProofs` | `InboundPeerAccounting`, `InboundAdmissionLimits`, `InboundRateBound`, `InboundCleanRestart`, `InboundAckIsDurable`, `InboundRefusalEarned` | `InboundInvariant`, `InboundTypes`, `InboundNoneEscapes`, `InboundWindsDown` |
| `MailAuthProofs` | `MailAuthAskedOnce`, `MailAuthSpfVerdict`, `MailAuthCacheBounded` | `MailAuthInvariant`, `MailAuthEventsKept`, `MailAuthAnswersFresh`, `MailAuthLookupAdvances` |
| `PacingProofs` | `BackoffWaitBounded`, `RateLimitRateBound` | `BackoffSchedule`, `RateLimitInvariant`, `RateLimitRefusalEarned` |

The inductive invariants, each of which TLC has also checked on the instance of the module's run:

- **Queue.** `OneOwner` and `AcceptedIsKept` need to know which client is inside which operation with
  which message (`CallInv`), and who holds `mu`, that the `due` set is part of the heap, and how
  `closed`, `closer` and the scheduler are related (`LockInv`). `NoLostWakeup` has its own inductive
  step. The refinement `QueueKeepsCustody` goes through one lemma on how each step changes `Standing`.
- **Processor.** `ProcessorInv` adds what each worker holds at each point of its loop (`WorkerInv`) and
  that no RetryCount exceeds the number of deliveries (`CountInv`). Every step of the composition is a
  step or a stutter of the queue (`ProcessorUsesQueueProperly`), so the queue's invariants carry over,
  and so does its promise: `ProcessorKeepsCustody` chains the two refinements.
- **Backoff.** The powers of two are a recursive function, so a lemma first gives
  its equation (`Pow2Equation`, again by a least counterexample). The first thirty powers settle
  where the 64-bit product is exact, above the cap, or negative; beyond them only its sign matters.
  `BackoffInv` then says that a delay is in the past, zero as at the start, or a minute and more.
- **Session.** `SessionInv` says that authentication was verified on this connection, over TLS where
  there is TLS, and that an open transaction is the one the client was told of.
- **Server.** `OneHandler` and `SlotAccounting` are inductive together with `ControlInv`, which relates
  the control states of the accept loop, the workers and Stop. The slots are counted by cardinality: a
  step changes the set of connections in a slot by one element and `slots` by one. `CleanStop` assumes
  `ConnWorkers /= {}`, since without a worker nobody empties `connChan`, and no check of the
  configuration excludes a `WorkerPoolSize` of 0 (`server.go:397`).
- **Outbound.** `JobInv` ties a goroutine's control state to its client, hosts, answer and history;
  `UseInv`, `IdleInv`, `MutexInv` and `OwnerInv` say who may have a client: one goroutine, one place
  in its own host's channel, CloseAll, or nobody if it is closed. `OutboundConstants` asks for as many clients as
  can be open at once, so that a dial always finds one: clients are allocated, not a resource.
- **Inbound.** `Registration` makes the books agree: goroutines, registered connections, DATA slots and
  where Serve is. `RateBound` needs `WindowOK`: a peer has counted what was admitted since its window
  began, and what is earlier in the last minute belongs to the one window before. `SessionInv` says that
  the session's envelope is the one the client knows of; `AckIsDurable` needs it.
- **DnsCache, Reporting, MailAuth.** `DnsInv`: the holder of the write lock is the one caller in the
  network call, and it has made room in the cache. `ReportInv`: what is in the store as Clear comes is in
  the report or came in the gap. `AuthTypeOK`: a session's lookup belongs to its MAIL FROM. For
  `SpfVerdict` the loop of `evaluateSPF` is shown, for records of any length, to return what the first
  mechanism that settles the matter says: a closed form satisfies the loop's equation, and any function
  that satisfies it is the closed form, since there is no least distance from the end at which
  they differ (`NatMin`, from the well-foundedness of the natural numbers). `MailAuthConstants` says what
  an answer of the DNS is: one of four kinds of error, or records of mechanisms with the four
  qualifiers that `evaluateSPF` knows.
- **RateLimit.** `Counted`: an entry is older than the mails it counts, by up to `MaxLag`, so what lies
  `MaxLag` and more after its start is all in its count; when it is over for anybody, that is a whole
  period of `window - MaxLag`. Hence at most the limit before a new entry, and the limit in it.

Some theorems rest on a second invariant, kept apart from the one above and inductive relative to it:
`NoEarlyDelivery` and `NoneEscapes` themselves; `StopInv`, how far Stop has come; `WaitInv`, what
`Deliver` waits for; `BackedInv` of `Inbound` and `RateLimit`, that what is counted against a client
was admitted within the window, the converse of what their `RateBound` needs; and `AnswersFresh`.

The safety part of the liveness properties is proved where it could be stated: what a wait is for
is bounded by a number that every step of the one waited for lowers and no step of another raises
(`Draining`, `WindsDown`, `WorkShrinks`, `LookupAdvances`); nobody waits for a client that
somebody else has (`NeverBlocked`); and the way the processors can get stuck is the only one and lasts (`OnlyWedge`,
`WedgeLasts`). That the steps are taken is then fairness, which stays with the model checker.

`RefusalEarned`, of which `Server`, `Inbound` and `RateLimit` have one each, is the other side of the
limits: not only is no more let in than allowed, but nobody is turned away below them. For `Server`
and `Inbound` the connections counted are those really open, not what the counters say.

The histories `recent` and `passed` count over periods that end now, so a bound on a period is a bound on one
number and a step changes each number by at most one; sums over ticks would be out of the provers' reach.

The properties of the last column are proved and therefore in no run. TLC checked them, and the second
invariants, on the instances of the runs before they were proved. `BackoffSchedule` is about the
function `calculateRetryDelay` alone.

Only model-checked: all liveness properties, `ConnsAreClosed`, `StopCompletes`, `StopReturns`,
`CloseReturns`, `EventuallySettled`, `DeliverReturnsOrHangs`, `ServeReturns`, `TransactionEnds`,
`MailAnswered` and `EventsReported`, as the prover covers neither fairness nor ENABLED.

## 5. Not modelled, and the plan

Left out for good: configuration, TLS certificates, password hashing and JWT verification, logging,
metrics, health, the load-test tools: they have no behaviour over time, or nothing in the mail
path depends on it. The Prometheus gauges of the queue are left out too.

The connection filter and token bucket of `internal/security` are imported by no other package, and
each of their checks is one critical section; the plugin manager is a registry behind a lock.

Next, in this order:

1. The composition of `Outbound` with `Processor`, whose Deliverer it is, to state what becomes of a
   message that was not delivered: Deliver returns nil for it (`docs/plan.md`, task T1.2).
2. `Shutdown`: the two servers and processors of `cmd/smtpd` on one queue, stopped concurrently.
3. The DMARC lookup through the shared cache.
4. The DATA dot-stuffing codec against a reference definition.
