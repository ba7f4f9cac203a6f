------------------------------- MODULE Server -------------------------------
(***************************************************************************)
(* The accept loop, the connection workers and the shutdown of one SMTP     *)
(* server (internal/server/server.go).  A slot of connSemaphore is taken by *)
(* the accept loop and given back by the worker that served the connection. *)
(* What happens inside a session is module Session; here it lasts for as    *)
(* long as it likes, and Stop does not interrupt it.                        *)
(***************************************************************************)
EXTENDS Integers, Sequences, FiniteSets

CONSTANTS
    Conns,              \* connections that clients attempt
    NoConn,             \* no connection in hand
    ConnWorkers,        \* connectionWorker goroutines
    MaxConnections,     \* capacity of connSemaphore
    ConnectionBacklog   \* capacity of connChan

ASSUME ServerConstants ==
    /\ NoConn \notin Conns /\ "exited" \notin Conns \cup {NoConn}
    /\ IsFiniteSet(Conns)
    /\ MaxConnections \in Nat
    /\ ConnectionBacklog \in Nat \ {0}

VARIABLES
    ctxDone,      \* s.cancel() was called
    listening,    \* the listener is open
    conn,         \* where each connection is
    accept,       \* control state of acceptConnections
    inHand,       \* the connection the accept loop holds
    slots,        \* elements in connSemaphore
    connChan,     \* contents of connChan
    chanClosed,   \* close(connChan) has been executed
    worker,       \* the connection each worker serves, NoConn or "exited"
    stop,         \* control state of the caller of Stop
    processing    \* the queue processor has not been told to stop

vars == <<ctxDone, listening, conn, accept, inHand, slots, connChan, chanClosed,
          worker, stop, processing>>

stopVars == <<ctxDone, listening, stop, processing>>

ConnStates == {"dialing", "accepted", "queued", "served", "refused", "closed"}

ServerTypeOK ==
    /\ ctxDone \in BOOLEAN /\ listening \in BOOLEAN
    /\ conn \in [Conns -> ConnStates]
    /\ accept \in {"top", "accept", "slot", "send", "exited"}
    /\ inHand \in Conns \cup {NoConn}
    /\ slots \in 0..MaxConnections
    /\ connChan \in Seq(Conns) /\ Len(connChan) <= ConnectionBacklog
    /\ chanClosed \in BOOLEAN
    /\ worker \in [ConnWorkers -> Conns \cup {NoConn, "exited"}]
    /\ stop \in {"running", "listener", "wait", "clean", "timeout", "processor", "done"}
    /\ processing \in BOOLEAN

(* Start has returned. *)
Init ==
    /\ ctxDone = FALSE /\ listening = TRUE
    /\ conn = [c \in Conns |-> "dialing"]
    /\ accept = "top" /\ inHand = NoConn
    /\ slots = 0
    /\ connChan = <<>> /\ chanClosed = FALSE
    /\ worker = [w \in ConnWorkers |-> NoConn]
    /\ stop = "running" /\ processing = TRUE

----------------------------------------------------------------------------
(* acceptConnections.  The loop ends on a cancelled context, seen at its top *)
(* or after Accept failed; the deferred close of connChan follows.           *)
AcceptExit ==
    /\ ctxDone
    /\ accept = "top" \/ (accept = "accept" /\ ~listening)
    /\ accept' = "exited"
    /\ chanClosed' = TRUE
    /\ UNCHANGED <<stopVars, conn, inHand, slots, connChan, worker>>

AcceptTop ==
    /\ accept = "top"
    /\ ~ctxDone
    /\ accept' = "accept"
    /\ UNCHANGED <<stopVars, conn, inHand, slots, connChan, chanClosed, worker>>

(* The deadline passed, or another error while the context is not done. *)
AcceptError ==
    /\ accept = "accept"
    /\ listening \/ ~ctxDone
    /\ accept' = "top"
    /\ UNCHANGED <<stopVars, conn, inHand, slots, connChan, chanClosed, worker>>

Accept(c) ==
    /\ accept = "accept"
    /\ listening
    /\ conn[c] = "dialing"
    /\ conn' = [conn EXCEPT ![c] = "accepted"]
    /\ inHand' = c
    /\ accept' = "slot"
    /\ UNCHANGED <<stopVars, slots, connChan, chanClosed, worker>>

(* The connection leaves the accept loop. *)
HandOver(to) ==
    /\ conn' = [conn EXCEPT ![inHand] = to]
    /\ inHand' = NoConn
    /\ accept' = "top"
    /\ UNCHANGED <<stopVars, chanClosed, worker>>

(* connSemaphore, or "Max connections reached". *)
AcquireSlot ==
    /\ accept = "slot"
    /\ slots < MaxConnections
    /\ slots' = slots + 1
    /\ accept' = "send"
    /\ UNCHANGED <<stopVars, conn, inHand, connChan, chanClosed, worker>>

NoSlot ==
    /\ accept = "slot"
    /\ slots = MaxConnections
    /\ HandOver("refused")
    /\ UNCHANGED <<slots, connChan>>

(* Faulty variant: the slot of a refused connection is kept. *)
RefuseKeepsSlot ==
    /\ accept = "send"
    /\ ctxDone \/ Len(connChan) = ConnectionBacklog
    /\ HandOver("refused")
    /\ UNCHANGED <<slots, connChan>>

(* connChan; or a shutdown or "worker queue full", both of which give the    *)
(* slot back.                                                                *)
SendConn ==
    /\ accept = "send"
    /\ Len(connChan) < ConnectionBacklog
    /\ connChan' = Append(connChan, inHand)
    /\ HandOver("queued")
    /\ UNCHANGED slots

RefuseConn ==
    /\ accept = "send"
    /\ ctxDone \/ Len(connChan) = ConnectionBacklog
    /\ slots' = slots - 1
    /\ HandOver("refused")
    /\ UNCHANGED connChan

----------------------------------------------------------------------------
(* Faulty variant: the connection stays in the channel. *)
PeekConn(w) ==
    /\ worker[w] = NoConn
    /\ connChan /= <<>>
    /\ worker' = [worker EXCEPT ![w] = Head(connChan)]
    /\ conn' = [conn EXCEPT ![Head(connChan)] = "served"]
    /\ UNCHANGED <<stopVars, accept, inHand, slots, connChan, chanClosed>>

(* connectionWorker: receive, serve a session, release. *)
ReceiveConn(w) ==
    /\ worker[w] = NoConn
    /\ connChan /= <<>>
    /\ worker' = [worker EXCEPT ![w] = Head(connChan)]
    /\ conn' = [conn EXCEPT ![Head(connChan)] = "served"]
    /\ connChan' = Tail(connChan)
    /\ UNCHANGED <<stopVars, accept, inHand, slots, chanClosed>>

(* Faulty variant: the session of a silent client has no read timeout. *)
SessionStays(w) == worker[w] \in Conns /\ FALSE

(* Handle returned or panicked; the deferred function closes the connection  *)
(* and gives the slot back.                                                  *)
SessionEnd(w) ==
    /\ worker[w] \in Conns
    /\ slots > 0
    /\ conn' = [conn EXCEPT ![worker[w]] = "closed"]
    /\ worker' = [worker EXCEPT ![w] = NoConn]
    /\ slots' = slots - 1
    /\ UNCHANGED <<stopVars, accept, inHand, connChan, chanClosed>>

(* Faulty variant: workers exit on the cancelled context, as the accept loop  *)
(* does.                                                                     *)
WorkerExitAtOnce(w) ==
    /\ worker[w] = NoConn
    /\ ctxDone
    /\ worker' = [worker EXCEPT ![w] = "exited"]
    /\ UNCHANGED <<stopVars, conn, accept, inHand, slots, connChan, chanClosed>>

(* The range loop ends when connChan is closed and empty. *)
WorkerExit(w) ==
    /\ worker[w] = NoConn
    /\ chanClosed /\ connChan = <<>>
    /\ worker' = [worker EXCEPT ![w] = "exited"]
    /\ UNCHANGED <<stopVars, conn, accept, inHand, slots, connChan, chanClosed>>

----------------------------------------------------------------------------
(* Stop: cancel, close the listener, wait for s.wg or the timeout, tell the  *)
(* processor to stop and wait until its workers have exited.                 *)
StopCancel ==
    /\ stop = "running"
    /\ ctxDone' = TRUE
    /\ stop' = "listener"
    /\ UNCHANGED <<listening, processing, conn, accept, inHand, slots, connChan,
                   chanClosed, worker>>

StopListener ==
    /\ stop = "listener"
    /\ listening' = FALSE
    /\ stop' = "wait"
    /\ UNCHANGED <<ctxDone, processing, conn, accept, inHand, slots, connChan,
                   chanClosed, worker>>

wgDone == accept = "exited" /\ \A w \in ConnWorkers : worker[w] = "exited"

(* Faulty variant: Stop waits without a timeout. *)
StopWaitForever ==
    /\ stop = "wait"
    /\ wgDone
    /\ stop' = "clean"
    /\ UNCHANGED <<ctxDone, listening, processing, conn, accept, inHand, slots,
                   connChan, chanClosed, worker>>

StopWait ==
    /\ stop = "wait"
    /\ \/ wgDone /\ stop' = "clean"
       \/ stop' = "timeout"
    /\ UNCHANGED <<ctxDone, listening, processing, conn, accept, inHand, slots,
                   connChan, chanClosed, worker>>

StopProcessor ==
    /\ stop \in {"clean", "timeout"}
    /\ processing' = FALSE
    /\ stop' = "processor"
    /\ UNCHANGED <<ctxDone, listening, conn, accept, inHand, slots, connChan,
                   chanClosed, worker>>

(* s.processor.Stop() returns, when module Processor says so. *)
StopReturn ==
    /\ stop = "processor"
    /\ stop' = "done"
    /\ UNCHANGED <<ctxDone, listening, processing, conn, accept, inHand, slots,
                   connChan, chanClosed, worker>>

----------------------------------------------------------------------------
AcceptLoop ==
    \/ AcceptExit
    \/ AcceptTop
    \/ AcceptError
    \/ \E c \in Conns : Accept(c)
    \/ AcquireSlot
    \/ NoSlot
    \/ SendConn
    \/ RefuseConn

Worker(w) == ReceiveConn(w) \/ SessionEnd(w) \/ WorkerExit(w)

Stop == StopCancel \/ StopListener \/ StopWait \/ StopProcessor \/ StopReturn

Next ==
    \/ AcceptLoop
    \/ \E w \in ConnWorkers : Worker(w)
    \/ Stop

Spec == Init /\ [][Next]_vars

----------------------------------------------------------------------------
InSlot(c) == conn[c] \in {"queued", "served"} \/ (accept = "send" /\ inHand = c)

(* Every slot belongs to exactly one open connection: none leaks when a      *)
(* connection is refused halfway, when a session panics or when the server   *)
(* stops with connections still in connChan; so MaxConnections bounds the    *)
(* connections served, and the release in connectionWorker never blocks.     *)
SlotAccounting ==
    /\ slots = Cardinality({c \in Conns : InSlot(c)})
    /\ \A w \in ConnWorkers : worker[w] \in Conns => slots > 0

(* A connection has one owner: the accept loop, one place in connChan or one *)
(* worker; so no connection is served twice or by two workers.               *)
OneHandler ==
    /\ \A i, j \in DOMAIN connChan : connChan[i] = connChan[j] => i = j
    /\ \A v, w \in ConnWorkers : worker[v] = worker[w] /\ worker[v] \in Conns => v = w
    /\ \A c \in Conns :
         /\ conn[c] = "accepted" <=> inHand = c
         /\ conn[c] = "queued" <=> \E i \in DOMAIN connChan : connChan[i] = c
         /\ conn[c] = "served" <=> \E w \in ConnWorkers : worker[w] = c

(* "All connection handlers and workers finished cleanly": when Stop has not *)
(* timed out, no connection is in flight, neither with a worker nor left     *)
(* over in connChan, and so no session can queue mail behind the back of the *)
(* queue processor that is stopped next.                                     *)
CleanStop ==
    stop = "clean" => \A c \in Conns : conn[c] \in {"dialing", "refused", "closed"}

(* Goroutines keep running.  Nothing is said of StopReturn: the processor's   *)
(* workers may be anywhere in a delivery.                                    *)
Fairness ==
    /\ WF_vars(AcceptLoop)
    /\ \A w \in ConnWorkers : WF_vars(ReceiveConn(w) \/ WorkerExit(w))
    /\ WF_vars(StopListener) /\ WF_vars(StopWait) /\ WF_vars(StopProcessor)

(* Every session ends.  An idle client runs into a timeout, but one that     *)
(* goes on sending commands does not; and a session that waits in Enqueue on *)
(* a full queue has no timeout, so it needs a processor that drains it.      *)
SessionsEnd == \A w \in ConnWorkers : WF_vars(processing /\ SessionEnd(w))

FairSpec == Spec /\ Fairness

(* The processor's Stop does not wait for ever.  StopReturns of module       *)
(* Processor says when it does not; a delivery that hangs, as those of       *)
(* module Outbound may, is where it does.                                    *)
ProcessorStops == []<>(stop /= "processor")

(* Whatever the sessions do, even if none of them ends, the accept loop      *)
(* exits and the processor is told to stop, on both ways out of the wait;    *)
(* and Stop returns, if the processor's Stop does (server.go:429-446).       *)
StopCompletes ==
    /\ ctxDone ~> accept = "exited" /\ ~processing
    /\ ProcessorStops => (ctxDone ~> stop = "done")

(* If sessions end, a connection that was accepted is closed in the end,     *)
(* whether it was refused, served, or still waiting in connChan when Stop    *)
(* was called, as long as the processor runs.                                *)
ConnsAreClosed ==
    SessionsEnd => \A c \in Conns :
        conn[c] = "accepted" ~> conn[c] \in {"closed", "refused"} \/ ~processing

(* What the control states of the goroutines have to do with each other. *)
ControlInv ==
    /\ accept \in {"slot", "send"} <=> inHand /= NoConn
    /\ accept = "exited" <=> chanClosed
    /\ \A w \in ConnWorkers : worker[w] = "exited" => chanClosed /\ connChan = <<>>
    /\ stop = "clean" => wgDone

(* A connection that a worker still has to take finds one: no worker leaves  *)
(* while the accept loop holds a connection or one is left in connChan, in   *)
(* whatever order the loop, the workers and Stop take their steps; a         *)
(* connection accepted as the server stops is not stranded.                  *)
NoneStranded ==
    \A c \in Conns : conn[c] \in {"accepted", "queued"} =>
        \A w \in ConnWorkers : worker[w] /= "exited"

(* "Max connections reached" and "worker queue full" are true: a connection  *)
(* is refused only when MaxConnections others are open, when connChan holds  *)
(* ConnectionBacklog of them, or when the server stops.                      *)
RefusalEarned ==
    [][\A c \in Conns : conn'[c] = "refused" /\ conn[c] /= "refused" =>
         \/ ctxDone
         \/ Len(connChan) = ConnectionBacklog
         \/ Cardinality({d \in Conns \ {c} : InSlot(d)}) = MaxConnections]_vars

(* How many steps the accept loop and a connection have before them once the *)
(* listener is closed.                                                       *)
AcceptLeft == CASE accept = "slot" -> 3 [] accept = "send" -> 2 [] accept = "exited" -> 0 [] OTHER -> 1
ConnLeft(c) ==
    CASE conn[c] = "accepted" -> 3 [] conn[c] = "queued" -> 2 [] conn[c] = "served" -> 1 [] OTHER -> 0

(* Once Stop has closed the listener the server only drains: no connection   *)
(* is accepted any more, the accept loop exits within three steps of its     *)
(* own, and a connection it had accepted is closed after three at most;      *)
(* nothing reopens the listener, and a worker that exited does not return.   *)
Draining ==
    [][stop \notin {"running", "listener"} =>
         /\ ctxDone' /\ ~listening'
         /\ accept' = accept \/ AcceptLeft' < AcceptLeft
         /\ \A c \in Conns : conn'[c] = conn[c] \/ ConnLeft(c)' < ConnLeft(c)
         /\ \A w \in ConnWorkers : worker[w] = "exited" => worker'[w] = "exited"]_vars

(* How far Stop has come. *)
StopInv ==
    /\ ctxDone <=> stop /= "running"
    /\ listening <=> stop \in {"running", "listener"}
    /\ processing <=> stop \notin {"processor", "done"}

(* The inductive invariant. *)
ServerInv == ServerTypeOK /\ ControlInv /\ OneHandler /\ SlotAccounting
============================================================================
