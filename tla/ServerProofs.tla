---------------------------- MODULE ServerProofs ----------------------------
(***************************************************************************)
(* Proofs of the safety properties of Server for any number of connections, *)
(* workers, slots and places in connChan.  The inductive invariant          *)
(* ServerInv joins who owns a connection (OneHandler) to who owns a slot    *)
(* (SlotAccounting): a step that moves a connection from one owner to the   *)
(* next must keep its slot, one that closes it must give the slot back.     *)
(***************************************************************************)
EXTENDS Server, FiniteSetTheorems, TLAPS

USE DEF stopVars, HandOver

(* A channel after a send. *)
LEMMA SendElements ==
    ASSUME NEW S, NEW s \in Seq(S), NEW x \in S
    PROVE  /\ Append(s, x) \in Seq(S) /\ Len(Append(s, x)) = Len(s) + 1
           /\ DOMAIN Append(s, x) = DOMAIN s \cup {Len(s) + 1}
           /\ Len(s) + 1 \notin DOMAIN s
           /\ Append(s, x)[Len(s) + 1] = x
           /\ \A i \in DOMAIN s : Append(s, x)[i] = s[i]
  OBVIOUS

(* A channel before and after a receive. *)
LEMMA ReceiveElements ==
    ASSUME NEW S, NEW s \in Seq(S), s /= <<>>
    PROVE  /\ Head(s) \in S /\ 1 \in DOMAIN s /\ Head(s) = s[1]
           /\ Tail(s) \in Seq(S) /\ Len(Tail(s)) = Len(s) - 1
           /\ \A i \in DOMAIN Tail(s) : i + 1 \in DOMAIN s /\ Tail(s)[i] = s[i + 1] /\ i + 1 /= 1
           /\ \A i \in DOMAIN s : i /= 1 => i - 1 \in DOMAIN Tail(s) /\ Tail(s)[i - 1] = s[i]
  OBVIOUS

(* A connection that has a slot is one of those that slots counts. *)
LEMMA SlotIsCounted ==
    ASSUME ServerInv, NEW c \in Conns, InSlot(c)
    PROVE  slots > 0
<1> DEFINE S == {d \in Conns : InSlot(d)}
<1>1. IsFiniteSet(S)
  BY ServerConstants, FS_Subset
<1>2. c \in S
  OBVIOUS
<1> HIDE DEF S
<1>3. Cardinality(S) \in Nat /\ Cardinality(S) /= 0
  BY <1>1, <1>2, FS_CardinalityType, FS_EmptySet
<1>4. slots = Cardinality(S)
  BY DEF ServerInv, SlotAccounting, S
<1>5. QED
  BY <1>3, <1>4

(* The connection a worker serves, and the one that holds a slot in the      *)
(* accept loop, have a slot.                                                 *)
LEMMA HeldSlots ==
    ASSUME ServerInv
    PROVE  /\ \A w \in ConnWorkers : worker[w] \in Conns => conn[worker[w]] = "served" /\ slots > 0
           /\ accept = "send" => slots > 0
           /\ accept \in {"slot", "send"} => inHand \in Conns /\ conn[inHand] = "accepted"
<1> USE DEF ServerInv, ServerTypeOK, ControlInv, OneHandler
<1>1. accept \in {"slot", "send"} => inHand \in Conns /\ conn[inHand] = "accepted"
  OBVIOUS
<1>2. ASSUME accept = "send" PROVE slots > 0
  BY <1>1, <1>2, SlotIsCounted DEF InSlot
<1>3. ASSUME NEW w \in ConnWorkers, worker[w] \in Conns
      PROVE  conn[worker[w]] = "served" /\ slots > 0
  <2>1. conn[worker[w]] = "served"
    BY <1>3
  <2>2. QED
    BY <1>3, <2>1, SlotIsCounted DEF InSlot
<1>4. QED
  BY <1>1, <1>2, <1>3

(* Every step keeps the variables in their types: the capacities of          *)
(* connSemaphore and connChan are never exceeded.                            *)
LEMMA ServerTypeStep == ServerInv /\ [Next]_vars => ServerTypeOK'
<1> SUFFICES ASSUME ServerInv, [Next]_vars PROVE ServerTypeOK'
  OBVIOUS
<1> USE ServerConstants DEF ServerInv, ServerTypeOK, ConnStates
<1>1. CASE AcceptExit
  BY <1>1 DEF AcceptExit
<1>2. CASE AcceptTop
  BY <1>2 DEF AcceptTop
<1>3. CASE AcceptError
  BY <1>3 DEF AcceptError
<1>4. ASSUME NEW c \in Conns, Accept(c) PROVE ServerTypeOK'
  BY <1>4 DEF Accept
<1>5. CASE AcquireSlot
  BY <1>5 DEF AcquireSlot
<1>6. CASE NoSlot
  BY <1>6, HeldSlots DEF NoSlot
<1>7. CASE SendConn
  <2>1. Append(connChan, inHand) \in Seq(Conns) /\ Len(Append(connChan, inHand)) = Len(connChan) + 1
    BY <1>7, HeldSlots, SendElements DEF SendConn
  <2>2. QED
    BY <1>7, <2>1, HeldSlots DEF SendConn
<1>8. CASE RefuseConn
  BY <1>8, HeldSlots DEF RefuseConn
<1>9. ASSUME NEW w \in ConnWorkers, ReceiveConn(w) PROVE ServerTypeOK'
  <2>1. Head(connChan) \in Conns /\ Tail(connChan) \in Seq(Conns)
        /\ Len(Tail(connChan)) = Len(connChan) - 1
    BY <1>9, ReceiveElements DEF ReceiveConn
  <2>2. QED
    BY <1>9, <2>1 DEF ReceiveConn
<1>10. ASSUME NEW w \in ConnWorkers, SessionEnd(w) PROVE ServerTypeOK'
  BY <1>10 DEF SessionEnd
<1>11. ASSUME NEW w \in ConnWorkers, WorkerExit(w) PROVE ServerTypeOK'
  BY <1>11 DEF WorkerExit
<1>12. CASE StopCancel \/ StopListener \/ StopWait \/ StopProcessor \/ StopReturn
  BY <1>12, Zenon DEF StopCancel, StopListener, StopWait, StopProcessor, StopReturn
<1>13. CASE UNCHANGED vars
  BY <1>13 DEF vars
<1>14. QED
  BY <1>1, <1>2, <1>3, <1>4, <1>5, <1>6, <1>7, <1>8, <1>9, <1>10, <1>11, <1>12, <1>13
     DEF Next, AcceptLoop, Worker, Stop

(* The control states stay in step: connChan is closed by the accept loop    *)
(* alone and as its last act, so what a worker found empty stays empty.      *)
LEMMA ServerControlStep == ServerInv /\ [Next]_vars => ControlInv'
<1> SUFFICES ASSUME ServerInv, [Next]_vars PROVE ControlInv'
  OBVIOUS
<1> USE ServerConstants DEF ServerInv, ServerTypeOK, ControlInv, wgDone
<1>1. CASE AcceptExit
  BY <1>1 DEF AcceptExit
<1>2. CASE AcceptTop
  BY <1>2 DEF AcceptTop
<1>3. CASE AcceptError
  BY <1>3 DEF AcceptError
<1>4. ASSUME NEW c \in Conns, Accept(c) PROVE ControlInv'
  BY <1>4 DEF Accept
<1>5. CASE AcquireSlot
  BY <1>5 DEF AcquireSlot
<1>6. CASE NoSlot
  BY <1>6 DEF NoSlot
<1>7. CASE SendConn
  BY <1>7 DEF SendConn
<1>8. CASE RefuseConn
  BY <1>8 DEF RefuseConn
<1>9. ASSUME NEW w \in ConnWorkers, ReceiveConn(w) PROVE ControlInv'
  <2>1. Head(connChan) \in Conns
    BY <1>9, ReceiveElements DEF ReceiveConn
  <2>2. QED
    BY <1>9, <2>1 DEF ReceiveConn
<1>10. ASSUME NEW w \in ConnWorkers, SessionEnd(w) PROVE ControlInv'
  BY <1>10 DEF SessionEnd
<1>11. ASSUME NEW w \in ConnWorkers, WorkerExit(w) PROVE ControlInv'
  BY <1>11 DEF WorkerExit
<1>12. CASE StopCancel \/ StopListener \/ StopWait \/ StopProcessor \/ StopReturn
  BY <1>12 DEF StopCancel, StopListener, StopWait, StopProcessor, StopReturn
<1>13. CASE UNCHANGED vars
  BY <1>13 DEF vars
<1>14. QED
  BY <1>1, <1>2, <1>3, <1>4, <1>5, <1>6, <1>7, <1>8, <1>9, <1>10, <1>11, <1>12, <1>13
     DEF Next, AcceptLoop, Worker, Stop

(* A connection goes from owner to owner: each step takes it from the one    *)
(* that has it.                                                              *)
LEMMA ServerHandlerStep == ServerInv /\ [Next]_vars => OneHandler'
<1> SUFFICES ASSUME ServerInv, [Next]_vars PROVE OneHandler'
  OBVIOUS
<1> USE ServerConstants DEF ServerInv, ServerTypeOK, OneHandler
<1>1. CASE UNCHANGED <<conn, inHand, connChan, worker>>
  BY <1>1
<1>2. ASSUME NEW c \in Conns, Accept(c) PROVE OneHandler'
  BY <1>2 DEF Accept, ControlInv
<1>3. CASE NoSlot \/ RefuseConn
  BY <1>3, HeldSlots DEF NoSlot, RefuseConn, ControlInv
<1>4. CASE SendConn
  <2>1. /\ inHand \in Conns /\ conn[inHand] = "accepted"
        /\ connChan' = Append(connChan, inHand) /\ conn' = [conn EXCEPT ![inHand] = "queued"]
        /\ inHand' = NoConn /\ worker' = worker
    BY <1>4, HeldSlots DEF SendConn
  <2>2. /\ DOMAIN connChan' = DOMAIN connChan \cup {Len(connChan) + 1}
        /\ Len(connChan) + 1 \notin DOMAIN connChan
        /\ connChan'[Len(connChan) + 1] = inHand
        /\ \A i \in DOMAIN connChan : connChan'[i] = connChan[i]
    BY <2>1, SendElements
  <2>3. \A i \in DOMAIN connChan : connChan[i] /= inHand
    BY <2>1
  <2>4. \A i, j \in DOMAIN connChan' : connChan'[i] = connChan'[j] => i = j
    BY <2>2, <2>3
  <2>5. ASSUME NEW c \in Conns
        PROVE  conn'[c] = "queued" <=> \E i \in DOMAIN connChan' : connChan'[i] = c
    <3>1. CASE c = inHand
      BY <2>1, <2>2, <3>1
    <3>2. CASE c /= inHand
      BY <2>1, <2>2, <3>2
    <3>3. QED
      BY <3>1, <3>2
  <2>6. ASSUME NEW c \in Conns
        PROVE  /\ conn'[c] = "accepted" <=> inHand' = c
               /\ conn'[c] = "served" <=> \E w \in ConnWorkers : worker'[w] = c
    BY <2>1
  <2>7. QED
    BY <2>1, <2>4, <2>5, <2>6
<1>5. ASSUME NEW w \in ConnWorkers, ReceiveConn(w) PROVE OneHandler'
  <2> DEFINE h == Head(connChan)
  <2>1. /\ worker[w] = NoConn /\ worker' = [worker EXCEPT ![w] = h]
        /\ conn' = [conn EXCEPT ![h] = "served"]
        /\ connChan' = Tail(connChan) /\ inHand' = inHand /\ connChan /= <<>>
    BY <1>5 DEF ReceiveConn
  <2>2. /\ h \in Conns /\ 1 \in DOMAIN connChan /\ h = connChan[1]
        /\ \A i \in DOMAIN connChan' :
              i + 1 \in DOMAIN connChan /\ connChan'[i] = connChan[i + 1] /\ i + 1 /= 1
        /\ \A i \in DOMAIN connChan :
              i /= 1 => i - 1 \in DOMAIN connChan' /\ connChan'[i - 1] = connChan[i]
        /\ DOMAIN connChan' \subseteq Nat
    BY <2>1, ReceiveElements
  <2> HIDE DEF h
  <2>3. conn[h] = "queued" /\ \A i \in DOMAIN connChan' : connChan'[i] /= h
    BY <2>2
  <2>4. \A v \in ConnWorkers : worker[v] /= h
    BY <2>2, <2>3
  <2>5. \A i, j \in DOMAIN connChan' : connChan'[i] = connChan'[j] => i = j
    BY <2>2
  <2>6. \A u, v \in ConnWorkers : worker'[u] = worker'[v] /\ worker'[u] \in Conns => u = v
    BY <2>1, <2>4
  <2>7. ASSUME NEW c \in Conns
        PROVE  /\ conn'[c] = "accepted" <=> inHand' = c
               /\ conn'[c] = "queued" <=> \E i \in DOMAIN connChan' : connChan'[i] = c
               /\ conn'[c] = "served" <=> \E v \in ConnWorkers : worker'[v] = c
    <3>1. CASE c = h
      BY <2>1, <2>2, <2>3, <3>1
    <3>2. CASE c /= h
      <4>1. conn'[c] = conn[c]
        BY <2>1, <2>2, <3>2
      <4>2. (\E i \in DOMAIN connChan : connChan[i] = c)
               <=> \E i \in DOMAIN connChan' : connChan'[i] = c
        BY <2>2, <3>2
      <4>3. (\E v \in ConnWorkers : worker[v] = c) <=> \E v \in ConnWorkers : worker'[v] = c
        BY <2>1, <3>2
      <4>4. QED
        BY <2>1, <4>1, <4>2, <4>3
    <3>3. QED
      BY <3>1, <3>2
  <2>8. QED
    BY <2>5, <2>6, <2>7
<1>6. ASSUME NEW w \in ConnWorkers, SessionEnd(w) PROVE OneHandler'
  <2>1. conn[worker[w]] = "served"
    BY <1>6, HeldSlots DEF SessionEnd
  <2>2. \A v \in ConnWorkers : v /= w => worker[v] /= worker[w]
    BY <1>6 DEF SessionEnd
  <2>3. QED
    BY <1>6, <2>1, <2>2 DEF SessionEnd
<1>7. ASSUME NEW w \in ConnWorkers, WorkerExit(w) PROVE OneHandler'
  BY <1>7 DEF WorkerExit
<1>8. QED
  BY <1>1, <1>2, <1>3, <1>4, <1>5, <1>6, <1>7
     DEF Next, AcceptLoop, Worker, Stop, AcceptExit, AcceptTop, AcceptError, AcquireSlot,
         StopCancel, StopListener, StopWait, StopProcessor, StopReturn, vars

(* The connections that have a slot. *)
Slotted == {c \in Conns : InSlot(c)}

(* Every slot taken or given back is that of one connection. *)
LEMMA ServerSlotStep == ServerInv /\ [Next]_vars => slots' = Cardinality(Slotted')
<1> SUFFICES ASSUME ServerInv, [Next]_vars PROVE slots' = Cardinality(Slotted')
  OBVIOUS
<1> USE DEF ServerInv, ServerTypeOK, InSlot
<1>0. /\ IsFiniteSet(Slotted) /\ slots = Cardinality(Slotted)
      /\ Slotted \subseteq Conns /\ Slotted' \subseteq Conns
  BY ServerConstants, FS_Subset DEF Slotted, SlotAccounting
<1>1. CASE UNCHANGED <<slots, Slotted>>
  BY <1>0, <1>1
<1>2. ASSUME NEW c \in Conns, c \notin Slotted, Slotted' = Slotted \cup {c}, slots' = slots + 1
      PROVE  slots' = Cardinality(Slotted')
  BY <1>0, <1>2, FS_AddElement, Zenon
<1>3. ASSUME NEW c \in Slotted, Slotted' = Slotted \ {c}, slots' = slots - 1
      PROVE  slots' = Cardinality(Slotted')
  BY <1>0, <1>3, FS_RemoveElement, Zenon
<1>4. CASE AcceptExit \/ AcceptTop \/ AcceptError
  <2>1. UNCHANGED <<slots, Slotted>>
    BY <1>4 DEF AcceptExit, AcceptTop, AcceptError, Slotted
  <2>2. QED
    BY <1>1, <2>1
<1>5. ASSUME NEW c \in Conns, Accept(c) PROVE slots' = Cardinality(Slotted')
  <2>1. UNCHANGED <<slots, Slotted>>
    BY <1>5 DEF Accept, Slotted
  <2>2. QED
    BY <1>1, <2>1
<1>6. CASE AcquireSlot
  <2>1. inHand \in Conns /\ conn[inHand] = "accepted"
    BY <1>6, HeldSlots DEF AcquireSlot
  <2>2. inHand \notin Slotted /\ Slotted' = Slotted \cup {inHand} /\ slots' = slots + 1
    BY <1>6, <2>1 DEF AcquireSlot, Slotted
  <2>3. QED
    BY <1>2, <2>1, <2>2, Zenon
<1>7. CASE NoSlot
  <2>1. inHand \in Conns /\ conn[inHand] = "accepted"
    BY <1>7, HeldSlots DEF NoSlot
  <2>2. UNCHANGED <<slots, Slotted>>
    BY <1>7, <2>1 DEF NoSlot, Slotted
  <2>3. QED
    BY <1>1, <2>2
<1>8. CASE SendConn
  <2>1. inHand \in Conns /\ conn[inHand] = "accepted"
    BY <1>8, HeldSlots DEF SendConn
  <2>2. UNCHANGED <<slots, Slotted>>
    BY <1>8, <2>1 DEF SendConn, Slotted
  <2>3. QED
    BY <1>1, <2>2
<1>9. CASE RefuseConn
  <2>1. inHand \in Conns /\ conn[inHand] = "accepted"
    BY <1>9, HeldSlots DEF RefuseConn
  <2>2. inHand \in Slotted /\ Slotted' = Slotted \ {inHand} /\ slots' = slots - 1
    BY <1>9, <2>1 DEF RefuseConn, Slotted
  <2>3. QED
    BY <1>3, <2>2, Zenon
<1>10. ASSUME NEW w \in ConnWorkers, ReceiveConn(w) PROVE slots' = Cardinality(Slotted')
  <2>1. Head(connChan) \in Conns /\ conn[Head(connChan)] = "queued"
    BY <1>10, ReceiveElements DEF ReceiveConn, OneHandler
  <2>2. UNCHANGED <<slots, Slotted>>
    BY <1>10, <2>1 DEF ReceiveConn, Slotted
  <2>3. QED
    BY <1>1, <2>2
<1>11. ASSUME NEW w \in ConnWorkers, SessionEnd(w) PROVE slots' = Cardinality(Slotted')
  <2>1. worker[w] \in Conns /\ conn[worker[w]] = "served"
    BY <1>11, HeldSlots DEF SessionEnd
  <2>2. inHand /= worker[w]
    BY <2>1 DEF OneHandler
  <2>3. worker[w] \in Slotted /\ Slotted' = Slotted \ {worker[w]} /\ slots' = slots - 1
    BY <1>11, <2>1, <2>2 DEF SessionEnd, Slotted
  <2>4. QED
    BY <1>3, <2>3, Zenon
<1>12. ASSUME NEW w \in ConnWorkers, WorkerExit(w) PROVE slots' = Cardinality(Slotted')
  <2>1. UNCHANGED <<slots, Slotted>>
    BY <1>12 DEF WorkerExit, Slotted
  <2>2. QED
    BY <1>1, <2>1
<1>13. CASE StopCancel \/ StopListener \/ StopWait \/ StopProcessor \/ StopReturn \/ UNCHANGED vars
  <2>1. UNCHANGED <<slots, Slotted>>
    BY <1>13 DEF StopCancel, StopListener, StopWait, StopProcessor, StopReturn, vars, Slotted
  <2>2. QED
    BY <1>1, <2>1
<1>14. QED
  BY <1>4, <1>5, <1>6, <1>7, <1>8, <1>9, <1>10, <1>11, <1>12, <1>13
     DEF Next, AcceptLoop, Worker, Stop

----------------------------------------------------------------------------
(* ServerInv holds in every state of the server.                             *)
THEOREM ServerInvariant == Spec => []ServerInv
<1>1. Init => ServerInv
  <2> SUFFICES ASSUME Init PROVE ServerInv
    OBVIOUS
  <2> USE ServerConstants DEF Init
  <2>0. <<>> \in Seq(Conns) /\ Len(<<>>) = 0
    OBVIOUS
  <2>1. ServerTypeOK /\ ControlInv
    <3>1. ServerTypeOK
      <4>1. /\ 0 \in 0..MaxConnections
            /\ connChan \in Seq(Conns) /\ Len(connChan) <= ConnectionBacklog
        BY <2>0
      <4>2. /\ conn \in [Conns -> ConnStates]
            /\ worker \in [ConnWorkers -> Conns \cup {NoConn, "exited"}]
        BY DEF ConnStates
      <4>3. QED
        BY <4>1, <4>2, Zenon DEF ServerTypeOK
    <3>2. ControlInv
      BY DEF ControlInv
    <3>3. QED
      BY <3>1, <3>2
  <2>2. OneHandler
    BY DEF OneHandler
  <2>3. Slotted = {}
    BY DEF Slotted, InSlot
  <2>4. SlotAccounting
    BY <2>3, FS_EmptySet, Zenon DEF SlotAccounting, Slotted
  <2>5. QED
    BY <2>1, <2>2, <2>4 DEF ServerInv
<1>2. ServerInv /\ [Next]_vars => ServerInv'
  <2> SUFFICES ASSUME ServerInv, [Next]_vars PROVE ServerInv'
    OBVIOUS
  <2>1. ServerTypeOK' /\ ControlInv' /\ OneHandler'
    BY ServerTypeStep, ServerControlStep, ServerHandlerStep
  <2>2. slots' = Cardinality(Slotted')
    BY ServerSlotStep
  <2>3. ASSUME NEW w \in ConnWorkers, worker'[w] \in Conns PROVE slots' > 0
    <3>1. IsFiniteSet(Slotted')
      BY ServerConstants, FS_Subset DEF Slotted
    <3>2. worker'[w] \in Slotted'
      BY <2>1, <2>3 DEF OneHandler, Slotted, InSlot
    <3>3. Cardinality(Slotted') \in Nat /\ Cardinality(Slotted') /= 0
      BY <3>1, <3>2, FS_CardinalityType, FS_EmptySet
    <3>4. QED
      BY <2>2, <3>3
  <2>4. SlotAccounting'
    BY <2>2, <2>3 DEF SlotAccounting, Slotted
  <2>5. QED
    BY <2>1, <2>4 DEF ServerInv
<1>3. QED
  BY <1>1, <1>2, PTL DEF Spec

(* The server's variables keep their types; neither connSemaphore nor        *)
(* connChan ever holds more than its capacity (server.go:314-315).           *)
THEOREM ServerTypes == Spec => []ServerTypeOK
<1>1. ServerInv => ServerTypeOK
  BY DEF ServerInv
<1>2. QED
  BY <1>1, ServerInvariant, PTL

(* Every slot of connSemaphore belongs to exactly one open connection, so    *)
(* none leaks and the release in connectionWorker never blocks               *)
(* (server.go:504, :514, :518, :552).                                        *)
THEOREM ServerSlotAccounting == Spec => []SlotAccounting
<1>1. ServerInv => SlotAccounting
  BY DEF ServerInv
<1>2. QED
  BY <1>1, ServerInvariant, PTL

(* A connection is with the accept loop, in one place of connChan or with    *)
(* one worker (server.go:510, :540).                                         *)
THEOREM ServerOneHandler == Spec => []OneHandler
<1>1. ServerInv => OneHandler
  BY DEF ServerInv
<1>2. QED
  BY <1>1, ServerInvariant, PTL

(* After a clean wait of Stop no connection is in flight, if there is a      *)
(* worker at all: Start starts WorkerPoolSize of them, and none would ever   *)
(* empty connChan if a configuration set that to 0 (server.go:397, :440).    *)
THEOREM ServerCleanStop ==
    ASSUME ConnWorkers /= {}
    PROVE  Spec => []CleanStop
<1>1. ServerInv => CleanStop
  <2> SUFFICES ASSUME ServerInv, stop = "clean", NEW c \in Conns
               PROVE  conn[c] \in {"dialing", "refused", "closed"}
    BY DEF CleanStop
  <2> USE ServerConstants DEF ServerInv, ServerTypeOK, ControlInv, wgDone
  <2>1. inHand = NoConn /\ connChan = <<>> /\ \A w \in ConnWorkers : worker[w] = "exited"
    OBVIOUS
  <2>2. conn[c] \notin {"accepted", "queued", "served"}
    BY <2>1 DEF OneHandler
  <2>3. QED
    BY <2>2 DEF ConnStates
<1>2. QED
  BY <1>1, ServerInvariant, PTL

(* No worker exits while a connection waits to be taken (server.go:457,      *)
(* :510, :540).                                                              *)
THEOREM ServerNoneStranded == Spec => []NoneStranded
<1>1. ServerInv => NoneStranded
  <2> SUFFICES ASSUME ServerInv, NEW c \in Conns, conn[c] \in {"accepted", "queued"},
                      NEW w \in ConnWorkers, worker[w] = "exited"
               PROVE  FALSE
    BY DEF NoneStranded
  <2>1. chanClosed /\ connChan = <<>> /\ accept = "exited"
    BY DEF ServerInv, ControlInv
  <2>2. inHand = NoConn
    BY <2>1 DEF ServerInv, ControlInv
  <2>3. QED
    BY <2>1, <2>2, ServerConstants DEF ServerInv, OneHandler
<1>2. QED
  BY <1>1, ServerInvariant, PTL

(* A connection is refused for one of the reasons the log gives              *)
(* (server.go:503-527).                                                      *)
THEOREM ServerRefusalEarned == Spec => RefusalEarned
<1> DEFINE Earned(c) ==
             \/ ctxDone
             \/ Len(connChan) = ConnectionBacklog
             \/ Cardinality({d \in Conns \ {c} : InSlot(d)}) = MaxConnections
           Refused(c) == conn'[c] = "refused" /\ conn[c] /= "refused"
<1>1. ASSUME ServerInv, [Next]_vars, NEW c \in Conns, Refused(c)
      PROVE  Earned(c)
  <2>t. conn \in [Conns -> ConnStates]
    BY <1>1 DEF ServerInv, ServerTypeOK
  <2>1. CASE NoSlot
    <3>1. inHand = c /\ accept = "slot"
      BY <1>1, <2>1, <2>t DEF NoSlot
    <3>2. conn[c] = "accepted"
      BY <1>1, <3>1, HeldSlots
    <3>3. {d \in Conns \ {c} : InSlot(d)} = {d \in Conns : InSlot(d)}
      BY <3>1, <3>2 DEF InSlot
    <3>4. slots = Cardinality({d \in Conns : InSlot(d)}) /\ slots = MaxConnections
      BY <1>1, <2>1 DEF NoSlot, ServerInv, SlotAccounting
    <3>5. QED
      BY <3>3, <3>4, Zenon
  <2>2. CASE RefuseConn
    BY <2>2 DEF RefuseConn
  <2>3. CASE AcceptExit \/ AcceptTop \/ AcceptError \/ AcquireSlot \/ Stop \/ UNCHANGED vars
    BY <1>1, <2>3 DEF AcceptExit, AcceptTop, AcceptError, AcquireSlot, Stop, StopCancel,
         StopListener, StopWait, StopProcessor, StopReturn, vars
  <2>4. CASE SendConn \/ \E d \in Conns : Accept(d)
    BY <1>1, <2>4, <2>t DEF SendConn, Accept
  <2>5. ASSUME NEW w \in ConnWorkers, Worker(w) PROVE FALSE
    BY <1>1, <2>5, <2>t DEF Worker, ReceiveConn, SessionEnd, WorkerExit
  <2>6. QED
    BY <1>1, <2>1, <2>2, <2>3, <2>4, <2>5 DEF Next, AcceptLoop
<1>2. ServerInv /\ [Next]_vars => [\A c \in Conns : Refused(c) => Earned(c)]_vars
  BY <1>1
<1> HIDE DEF Earned, Refused
<1>3. Spec => [][\A c \in Conns : Refused(c) => Earned(c)]_vars
  BY <1>2, ServerInvariant, PTL DEF Spec
<1>4. QED
  BY <1>3 DEF RefusalEarned, Refused, Earned

(* What Stop has done so far. *)
LEMMA StopStep == StopInv /\ [Next]_vars => StopInv'
<1> SUFFICES ASSUME StopInv, [Next]_vars PROVE StopInv'
  OBVIOUS
<1>1. CASE UNCHANGED stopVars
  BY <1>1 DEF StopInv
<1>2. CASE Stop
  BY <1>2 DEF StopInv, Stop, StopCancel, StopListener, StopWait, StopProcessor, StopReturn
<1>3. CASE AcceptLoop
  BY <1>1, <1>3 DEF AcceptLoop, AcceptExit, AcceptTop, AcceptError, Accept, AcquireSlot, NoSlot,
       SendConn, RefuseConn
<1>4. CASE \E w \in ConnWorkers : Worker(w)
  BY <1>1, <1>4 DEF Worker, ReceiveConn, SessionEnd, WorkerExit
<1>5. CASE UNCHANGED vars
  BY <1>1, <1>5 DEF vars
<1>6. QED
  BY <1>2, <1>3, <1>4, <1>5 DEF Next

(* After Stop has closed the listener nothing comes in, and every step of    *)
(* the accept loop and of a worker is one of a bounded number                *)
(* (server.go:412-441, :464-489, :540).                                      *)
THEOREM ServerDraining == Spec => Draining
<1> DEFINE Drains ==
             /\ ctxDone' /\ ~listening'
             /\ accept' = accept \/ AcceptLeft' < AcceptLeft
             /\ \A c \in Conns : conn'[c] = conn[c] \/ ConnLeft(c)' < ConnLeft(c)
             /\ \A w \in ConnWorkers : worker[w] = "exited" => worker'[w] = "exited"
           Closed == stop \notin {"running", "listener"}
<1>1. ASSUME ServerInv, StopInv, [Next]_vars, Closed
      PROVE  Drains
  <2>t. /\ conn \in [Conns -> ConnStates] /\ connChan \in Seq(Conns)
        /\ worker \in [ConnWorkers -> Conns \cup {NoConn, "exited"}]
    BY <1>1 DEF ServerInv, ServerTypeOK
  <2>c. "exited" \notin Conns \cup {NoConn}
    BY ServerConstants
  <2>1. ctxDone' /\ ~listening' /\ ctxDone /\ ~listening
    <3>1. stop' \notin {"running", "listener"}
      BY <1>1 DEF Next, AcceptLoop, AcceptExit, AcceptTop, AcceptError, Accept, AcquireSlot,
           NoSlot, SendConn, RefuseConn, Worker, ReceiveConn, SessionEnd, WorkerExit, Stop,
           StopCancel, StopListener, StopWait, StopProcessor, StopReturn, vars
    <3>2. StopInv'
      BY <1>1, StopStep
    <3>3. QED
      BY <1>1, <3>1, <3>2 DEF StopInv
  <2>2. CASE UNCHANGED <<accept, conn, worker>>
    BY <2>1, <2>2
  <2>3. CASE AcceptExit
    BY <2>1, <2>3 DEF AcceptExit, AcceptLeft
  <2>4. CASE AcquireSlot
    BY <2>1, <2>4 DEF AcquireSlot, AcceptLeft
  <2>5. CASE NoSlot \/ SendConn \/ RefuseConn
    <3>1. inHand \in Conns /\ conn[inHand] = "accepted"
      BY <1>1, <2>5, HeldSlots DEF NoSlot, SendConn, RefuseConn
    <3>2. accept \in {"slot", "send"} /\ accept' = "top" /\ worker' = worker
      BY <2>5 DEF NoSlot, SendConn, RefuseConn
    <3>3. AcceptLeft' < AcceptLeft
      BY <3>2 DEF AcceptLeft
    <3>4. \A c \in Conns : \/ conn'[c] = conn[c]
                           \/ conn[c] = "accepted" /\ conn'[c] \in {"queued", "refused"}
      <4>1. \E x \in {"queued", "refused"} : conn' = [conn EXCEPT ![inHand] = x]
        BY <2>5 DEF NoSlot, SendConn, RefuseConn
      <4>2. QED
        BY <2>t, <3>1, <4>1
    <3>5. \A c \in Conns : conn'[c] = conn[c] \/ ConnLeft(c)' < ConnLeft(c)
      BY <3>4 DEF ConnLeft
    <3>6. QED
      BY <2>1, <3>2, <3>3, <3>5, Zenon
  <2>6. ASSUME NEW w \in ConnWorkers, Worker(w) PROVE Drains
    <3>1. \A c \in Conns : \/ conn'[c] = conn[c]
                           \/ conn[c] = "queued" /\ conn'[c] = "served"
                           \/ conn[c] = "served" /\ conn'[c] = "closed"
      <4>1. CASE ReceiveConn(w)
        <5>1. PICK d \in Conns : d = Head(connChan) /\ conn[d] = "queued"
          BY <1>1, <2>t, <4>1, ReceiveElements DEF ReceiveConn, ServerInv, OneHandler
        <5>2. conn' = [conn EXCEPT ![d] = "served"]
          BY <4>1, <5>1 DEF ReceiveConn
        <5>3. QED
          BY <2>t, <5>1, <5>2
      <4>2. CASE SessionEnd(w)
        <5>1. PICK d \in Conns : d = worker[w] /\ conn[d] = "served"
          BY <1>1, <4>2, HeldSlots DEF SessionEnd
        <5>2. conn' = [conn EXCEPT ![d] = "closed"]
          BY <4>2, <5>1 DEF SessionEnd
        <5>3. QED
          BY <2>t, <5>1, <5>2
      <4>3. CASE WorkerExit(w)
        BY <4>3 DEF WorkerExit
      <4>4. QED
        BY <2>6, <4>1, <4>2, <4>3 DEF Worker
    <3>2. \A c \in Conns : conn'[c] = conn[c] \/ ConnLeft(c)' < ConnLeft(c)
      BY <3>1 DEF ConnLeft
    <3>3. accept' = accept /\ \A v \in ConnWorkers : worker[v] = "exited" => worker'[v] = "exited"
      BY <2>t, <2>c, <2>6 DEF Worker, ReceiveConn, SessionEnd, WorkerExit
    <3>4. QED
      BY <2>1, <3>2, <3>3
  <2>7. CASE Stop \/ UNCHANGED vars
    BY <2>2, <2>7 DEF Stop, StopCancel, StopListener, StopWait, StopProcessor, StopReturn, vars
  <2>8. QED
    BY <1>1, <2>1, <2>3, <2>4, <2>5, <2>6, <2>7 DEF Next, AcceptLoop, AcceptTop, AcceptError, Accept
<1>2. ServerInv /\ StopInv /\ [Next]_vars => [Closed => Drains]_vars
  BY <1>1
<1>3. Init => StopInv
  BY DEF Init, StopInv
<1> HIDE DEF Closed, Drains
<1>4. Spec => [][Closed => Drains]_vars
  BY <1>2, <1>3, StopStep, ServerInvariant, PTL DEF Spec
<1>5. QED
  BY <1>4 DEF Draining, Closed, Drains
=============================================================================
