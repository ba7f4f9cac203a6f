--------------------------- MODULE OutboundProofs ---------------------------
(***************************************************************************)
(* Proofs of the safety properties of Outbound for any messages, domains,   *)
(* MX hosts and pool size.  The inductive invariant OutboundInv has one     *)
(* part about each goroutine (JobInv: what its place in deliverToDomain     *)
(* says about the hosts it has left and about the answer it is judging) and *)
(* one about the clients all goroutines share: who has each of them.        *)
(***************************************************************************)
EXTENDS Outbound, FiniteSetTheorems, TLAPS

USE DEF jobVars, poolVars, closeVars, historyVars

(* A channel, or the list of hosts, without its first element. *)
LEMMA TailElements ==
    ASSUME NEW S, NEW s \in Seq(S), s /= <<>>
    PROVE  /\ Head(s) \in S /\ 1 \in DOMAIN s /\ Head(s) = s[1]
           /\ Tail(s) \in Seq(S) /\ Len(Tail(s)) = Len(s) - 1
           /\ \A i \in DOMAIN Tail(s) : i + 1 \in DOMAIN s /\ Tail(s)[i] = s[i + 1] /\ i + 1 /= 1
           /\ \A i \in DOMAIN s : i /= 1 => i - 1 \in DOMAIN Tail(s) /\ Tail(s)[i - 1] = s[i]
  OBVIOUS

(* A channel with one more element. *)
LEMMA AppendElements ==
    ASSUME NEW S, NEW s \in Seq(S), NEW x \in S
    PROVE  /\ Append(s, x) \in Seq(S) /\ Len(Append(s, x)) = Len(s) + 1
           /\ DOMAIN Append(s, x) = DOMAIN s \cup {Len(s) + 1}
           /\ Len(s) + 1 \notin DOMAIN s
           /\ Append(s, x)[Len(s) + 1] = x
           /\ \A i \in DOMAIN s : Append(s, x)[i] = s[i]
  OBVIOUS

(* Two sets have no more elements together than each for itself. *)
LEMMA UnionBound ==
    ASSUME NEW S, IsFiniteSet(S), NEW T, IsFiniteSet(T)
    PROVE  Cardinality(S \cup T) <= Cardinality(S) + Cardinality(T)
<1>1. Cardinality(S \cup T) = Cardinality(S) + Cardinality(T) - Cardinality(S \cap T)
  BY FS_Union, Zenon
<1>2. IsFiniteSet(S \cap T)
  BY FS_Intersection, Zenon
<1>3. Cardinality(S) \in Nat /\ Cardinality(T) \in Nat /\ Cardinality(S \cap T) \in Nat
  BY <1>2, FS_CardinalityType, Zenon
<1>4. QED
  BY <1>1, <1>3

(* What the steps need of the constants: None is nothing else, and a domain  *)
(* that resolves has a host.                                                 *)
LEMMA Constants ==
    /\ None \notin Hosts /\ None \notin Clients /\ None \notin Jobs
    /\ \A d \in Domains : MX[d] \in Seq(Hosts) /\ MX[d] /= <<>>
    /\ PoolSize \in Nat \ {0}
<1>1. None \notin Hosts \cup Clients \cup Jobs /\ PoolSize \in Nat \ {0}
  BY OutboundConstants, Zenon
<1>2. ASSUME NEW d \in Domains PROVE MX[d] \in Seq(Hosts) \ {<<>>}
  BY OutboundConstants, Zenon
<1>3. QED
  BY <1>1, <1>2, Zenon

(* The host at hand and the client in use. *)
LEMMA AtHand ==
    ASSUME OutboundInv, NEW g \in Jobs
    PROVE  /\ g[1] \in Messages /\ g[2] \in Domains
           /\ mx[g] \in Seq(Hosts)
           /\ mx[g] /= <<>> => /\ Head(mx[g]) \in Hosts
                               /\ Tail(mx[g]) \in Seq(Hosts)
                               /\ \E j \in DOMAIN MX[g[2]] : MX[g[2]][j] = Head(mx[g])
                               /\ \A i \in DOMAIN Tail(mx[g]) :
                                    \E j \in DOMAIN MX[g[2]] : MX[g[2]][j] = Tail(mx[g])[i]
           /\ pc[g] \in Holding =>
                /\ using[g] \in Clients /\ using[g] /= None
                /\ mx[g] /= <<>> /\ host[using[g]] = Head(mx[g])
<1>1. g[1] \in Messages /\ g[2] \in Domains
  BY Zenon DEF Jobs
<1>2. mx[g] \in Seq(Hosts)
  BY Zenon DEF OutboundInv, OutboundTypeOK, JobTypeOK
<1>3. ASSUME mx[g] /= <<>>
      PROVE  /\ Head(mx[g]) \in Hosts /\ Tail(mx[g]) \in Seq(Hosts)
             /\ \E j \in DOMAIN MX[g[2]] : MX[g[2]][j] = Head(mx[g])
             /\ \A i \in DOMAIN Tail(mx[g]) :
                   \E j \in DOMAIN MX[g[2]] : MX[g[2]][j] = Tail(mx[g])[i]
  BY <1>2, <1>3, TailElements DEF OutboundInv, JobInv
<1>4. ASSUME pc[g] \in Holding
      PROVE  using[g] \in Clients /\ using[g] /= None /\ mx[g] /= <<>>
             /\ host[using[g]] = Head(mx[g])
  BY <1>4 DEF OutboundInv, OutboundTypeOK, JobTypeOK, JobInv, UseInv
<1>5. QED
  BY <1>1, <1>2, <1>3, <1>4, Zenon

(* A goroutine that dials finds an object for its client: the others have    *)
(* one each at most, CloseAll has one, and a channel no more than PoolSize.  *)
LEMMA FreshClient ==
    ASSUME OutboundInv, NEW g \in Jobs, pc[g] = "dial"
    PROVE  \E x \in Clients : host[x] = None
<1> SUFFICES ASSUME \A x \in Clients : host[x] /= None PROVE FALSE
  BY Zenon
<1> DEFINE Used == {c \in Clients : \E j \in Jobs \ {g} : using[j] = c}
           Idle == {c \in Clients : \E h \in Hosts : \E i \in DOMAIN idle[h] : idle[h][i] = c}
           Quitting == {c \in Clients : quitting = c}
           Room == Hosts \X (1..PoolSize)
<1>1. using[g] = None
  BY Zenon DEF OutboundInv, JobInv, Holding
<1>2. Clients = (Used \cup Idle) \cup Quitting
  BY <1>1, OutboundConstants, Zenon DEF OutboundInv, OwnerInv
<1>3. IsFiniteSet(Used) /\ Cardinality(Used) <= Cardinality(Jobs) - 1
  <2>1. IsFiniteSet(Jobs \ {g}) /\ Cardinality(Jobs \ {g}) = Cardinality(Jobs) - 1
    BY OutboundConstants, FS_RemoveElement, Zenon
  <2> DEFINE f == [c \in Used |-> CHOOSE j \in Jobs \ {g} : using[j] = c]
  <2>2. \A c \in Used : f[c] \in Jobs \ {g} /\ using[f[c]] = c
    BY Zenon
  <2>3. f \in Injection(Used, Jobs \ {g})
    BY <2>2, Zenon DEF Injection, IsInjective
  <2> HIDE DEF f, Used
  <2>4. QED
    BY <2>1, <2>3, FS_Injection
<1>4. IsFiniteSet(Idle) /\ Cardinality(Idle) <= PoolSize * Cardinality(Hosts)
  <2>1. IsFiniteSet(Room) /\ Cardinality(Room) = Cardinality(Hosts) * PoolSize
    <3>1. IsFiniteSet(1..PoolSize) /\ Cardinality(1..PoolSize) = PoolSize
      BY OutboundConstants, FS_Interval
    <3>2. IsFiniteSet(Room) /\ Cardinality(Room) = Cardinality(Hosts) * Cardinality(1..PoolSize)
      BY <3>1, OutboundConstants, FS_Product, Zenon
    <3>3. QED
      BY <3>1, <3>2, Zenon
  <2> DEFINE f == [c \in Idle |-> CHOOSE p \in Room : idle[p[1]][p[2]] = c]
  <2>2. ASSUME NEW c \in Idle PROVE \E p \in Room : idle[p[1]][p[2]] = c
    <3>1. PICK h \in Hosts : \E i \in DOMAIN idle[h] : idle[h][i] = c
      BY Zenon
    <3>2. PICK i \in DOMAIN idle[h] : idle[h][i] = c
      BY <3>1, Zenon
    <3>3. i \in 1..PoolSize
      BY OutboundConstants DEF OutboundInv, OutboundTypeOK, PoolTypeOK
    <3>4. <<h, i>> \in Room /\ idle[<<h, i>>[1]][<<h, i>>[2]] = c
      BY <3>2, <3>3, Zenon
    <3>5. QED
      BY <3>4, Zenon
  <2> HIDE DEF Room, Idle
  <2>3. \A c \in Idle : f[c] \in Room /\ idle[f[c][1]][f[c][2]] = c
    BY <2>2, Zenon
  <2>4. f \in Injection(Idle, Room)
    BY <2>3, Zenon DEF Injection, IsInjective
  <2> HIDE DEF f
  <2>5. IsFiniteSet(Idle) /\ Cardinality(Idle) <= Cardinality(Room)
    BY <2>1, <2>4, FS_Injection, Zenon
  <2>6. Cardinality(Hosts) \in Nat
    BY OutboundConstants, FS_CardinalityType, Zenon
  <2>7. QED
    BY <2>1, <2>5, <2>6, OutboundConstants
<1>q. IsFiniteSet(Quitting) /\ Cardinality(Quitting) <= 1
  <2>1. Quitting = {} \/ Quitting = {quitting}
    BY Zenon
  <2> HIDE DEF Quitting
  <2>2. IsFiniteSet(Quitting) /\ (Cardinality(Quitting) = 0 \/ Cardinality(Quitting) = 1)
    BY <2>1, FS_EmptySet, FS_Singleton, Zenon
  <2>3. QED
    BY <2>2
<1> HIDE DEF Used, Idle, Quitting
<1>5. /\ Cardinality(Used \cup Idle) <= Cardinality(Used) + Cardinality(Idle)
      /\ Cardinality(Clients) <= Cardinality(Used \cup Idle) + Cardinality(Quitting)
  <2>1. IsFiniteSet(Used \cup Idle)
    BY <1>3, <1>4, FS_Union, Zenon
  <2>2. QED
    BY <1>2, <1>3, <1>4, <1>q, <2>1, UnionBound, Zenon
<1>6. /\ Cardinality(Jobs) \in Nat /\ Cardinality(Hosts) \in Nat /\ Cardinality(Clients) \in Nat
      /\ Cardinality(Used) \in Nat /\ Cardinality(Idle) \in Nat
      /\ Cardinality(Used \cup Idle) \in Nat /\ Cardinality(Quitting) \in Nat
  BY <1>3, <1>4, <1>q, OutboundConstants, FS_Union, FS_CardinalityType, Zenon
<1>7. PoolSize * Cardinality(Hosts) \in Nat
  BY <1>6, OutboundConstants
<1>8. Cardinality(Clients) > Cardinality(Jobs) + PoolSize * Cardinality(Hosts)
  BY OutboundConstants, Zenon
<1>9. QED
  BY <1>3, <1>4, <1>q, <1>5, <1>6, <1>7, <1>8

(* How the steps change one place of a function. *)
LEMMA ExceptType ==
    ASSUME NEW S, NEW T, NEW f \in [S -> T], NEW x, NEW y \in T
    PROVE  [f EXCEPT ![x] = y] \in [S -> T]
  BY Zenon

(* Finish and NextHost keep the types of what they change. *)
LEMMA IterationType ==
    ASSUME JobTypeOK, NEW g \in Jobs,
           (\E s \in Statuses : Finish(g, s)) \/ (NextHost(g) /\ mx[g] /= <<>>)
    PROVE  /\ pc' \in [Jobs -> Places] /\ mx' \in [Jobs -> Seq(Hosts)]
           /\ status' \in [Jobs -> Statuses]
<1>1. "done" \in Places /\ "get" \in Places /\ <<>> \in Seq(Hosts)
  BY DEF Places
<1>2. ASSUME NEW s \in Statuses, Finish(g, s)
      PROVE  /\ pc' \in [Jobs -> Places] /\ mx' \in [Jobs -> Seq(Hosts)]
             /\ status' \in [Jobs -> Statuses]
  BY <1>1, <1>2, ExceptType, Zenon DEF Finish, JobTypeOK
<1>3. CASE /\ mx[g] /= <<>> /\ mx' = [mx EXCEPT ![g] = Tail(mx[g])]
           /\ pc' = [pc EXCEPT ![g] = "get"] /\ UNCHANGED status
  <2>1. Tail(mx[g]) \in Seq(Hosts)
    BY <1>3, TailElements, Zenon DEF JobTypeOK
  <2>2. QED
    BY <1>1, <1>3, <2>1, ExceptType, Zenon DEF JobTypeOK
<1>4. "delivery_perm_failed_domain" \in Statuses
  BY Zenon DEF Statuses
<1>5. QED
  BY <1>2, <1>3, <1>4, Zenon DEF NextHost

(* Every step keeps the variables in their types: no channel ever holds more *)
(* than PoolSize clients.                                                    *)
LEMMA OutboundTypeStep == OutboundInv /\ [Next]_vars => OutboundTypeOK'
<1> SUFFICES ASSUME OutboundInv, [Next]_vars PROVE OutboundTypeOK'
  BY Zenon
<1>t. OutboundTypeOK
  BY Zenon DEF OutboundInv
<1> USE DEF OutboundTypeOK
<1>1. ASSUME NEW m \in Messages, Deliver(m) PROVE OutboundTypeOK'
  <2>1. /\ deliver' \in [Messages -> {"idle", "waiting", "returned"}]
        /\ pc' \in [Jobs -> Places]
    BY <1>t, <1>1, Zenon DEF Deliver, JobTypeOK, Places
  <2>2. QED
    BY <1>t, <1>1, <2>1, Zenon DEF Deliver, JobTypeOK, PoolTypeOK
<1>2. ASSUME NEW m \in Messages, DeliverReturn(m) PROVE OutboundTypeOK'
  BY <1>t, <1>2, Zenon DEF DeliverReturn, JobTypeOK, PoolTypeOK
<1>3. ASSUME NEW g \in Jobs, LookupMX(g) PROVE OutboundTypeOK'
  <2>1. /\ pc' \in [Jobs -> Places] /\ mx' \in [Jobs -> Seq(Hosts)]
        /\ status' \in [Jobs -> Statuses] /\ fault' \in [Jobs -> BOOLEAN]
    <3>1. CASE \E s \in Statuses : Finish(g, s) /\ fault' = [fault EXCEPT ![g] = TRUE]
      BY <1>t, <3>1, IterationType, ExceptType, Zenon
    <3>2. CASE /\ mx' = [mx EXCEPT ![g] = MX[g[2]]] /\ pc' = [pc EXCEPT ![g] = "get"]
               /\ UNCHANGED <<status, fault>>
      <4>1. MX[g[2]] \in Seq(Hosts) /\ "get" \in Places
        BY AtHand, Constants, Zenon DEF Places
      <4>2. QED
        BY <1>t, <3>2, <4>1, ExceptType, Zenon DEF JobTypeOK
    <3>3. QED
      BY <1>3, <3>1, <3>2, Zenon DEF LookupMX, Statuses
  <2>2. QED
    BY <1>t, <1>3, <2>1, Zenon DEF LookupMX, JobTypeOK, PoolTypeOK
<1>4. ASSUME NEW g \in Jobs, getOrCreateHostPool(g) PROVE OutboundTypeOK'
  <2>1. pc' \in [Jobs -> Places] /\ chan' \in [Jobs -> {"open", "closed", "drained"}]
    BY <1>t, <1>4, Zenon DEF getOrCreateHostPool, JobTypeOK, Places
  <2>2. QED
    BY <1>t, <1>4, <2>1, Zenon DEF getOrCreateHostPool, JobTypeOK, PoolTypeOK
<1>5. ASSUME NEW g \in Jobs, GetClient(g) PROVE OutboundTypeOK'
  <2> DEFINE h == Head(mx[g])
  <2>1. h \in Hosts
    BY <1>5, AtHand, Zenon DEF GetClient, OutboundInv, JobInv
  <2>2. /\ using' \in [Jobs -> Clients \cup {None}]
        /\ idle' \in [Hosts -> Seq(Clients)] /\ \A k \in Hosts : Len(idle'[k]) <= PoolSize
    <3>1. CASE idle[h] /= <<>> /\ using' = [using EXCEPT ![g] = Head(idle[h])]
               /\ idle' = [idle EXCEPT ![h] = Tail(idle[h])]
      <4>1. /\ Head(idle[h]) \in Clients /\ Tail(idle[h]) \in Seq(Clients)
            /\ Len(Tail(idle[h])) = Len(idle[h]) - 1 /\ Len(idle[h]) \in Nat
        BY <1>t, <2>1, <3>1, TailElements DEF PoolTypeOK
      <4>2. using' \in [Jobs -> Clients \cup {None}] /\ idle' \in [Hosts -> Seq(Clients)]
        BY <1>t, <3>1, <4>1, ExceptType, Zenon DEF JobTypeOK, PoolTypeOK
      <4>3. \A k \in Hosts : Len(idle'[k]) <= PoolSize
        BY <1>t, <2>1, <3>1, <4>1, Constants DEF PoolTypeOK
      <4>4. QED
        BY <4>2, <4>3, Zenon
    <3>2. CASE UNCHANGED <<using, idle>>
      BY <1>t, <3>2, Zenon DEF JobTypeOK, PoolTypeOK
    <3>3. QED
      BY <1>5, <3>1, <3>2, Zenon DEF GetClient
  <2>3. pc' \in [Jobs -> Places] /\ chan' \in [Jobs -> {"open", "closed", "drained"}]
    BY <1>t, <1>5, Zenon DEF GetClient, JobTypeOK, Places
  <2>4. QED
    BY <1>t, <1>5, <2>2, <2>3, Zenon DEF GetClient, JobTypeOK, PoolTypeOK
<1>6. ASSUME NEW g \in Jobs, newSMTPClient(g) PROVE OutboundTypeOK'
  <2>1. pc[g] = "dial" /\ mx[g] /= <<>> /\ Head(mx[g]) \in Hosts
    BY <1>6, AtHand, Zenon DEF newSMTPClient, OutboundInv, JobInv
  <2>2. CASE NextHost(g) /\ UNCHANGED <<using, host>>
             /\ (UNCHANGED fault \/ fault' = [fault EXCEPT ![g] = TRUE])
    <3>1. /\ pc' \in [Jobs -> Places] /\ mx' \in [Jobs -> Seq(Hosts)]
          /\ status' \in [Jobs -> Statuses] /\ fault' \in [Jobs -> BOOLEAN]
      BY <1>t, <2>1, <2>2, IterationType, ExceptType, Zenon
    <3>2. QED
      BY <1>t, <1>6, <2>2, <3>1, Zenon DEF newSMTPClient, JobTypeOK, PoolTypeOK
  <2>3. ASSUME NEW c \in Clients, host' = [host EXCEPT ![c] = Head(mx[g])],
               using' = [using EXCEPT ![g] = c], pc' = [pc EXCEPT ![g] = "send"],
               UNCHANGED <<mx, status, fault>>
        PROVE  OutboundTypeOK'
    <3>1. /\ host' \in [Clients -> Hosts \cup {None}] /\ using' \in [Jobs -> Clients \cup {None}]
          /\ pc' \in [Jobs -> Places]
      BY <1>t, <2>1, <2>3, ExceptType, Zenon DEF JobTypeOK, PoolTypeOK, Places
    <3>2. QED
      BY <1>t, <1>6, <2>3, <3>1, Zenon DEF newSMTPClient, JobTypeOK, PoolTypeOK
  <2>4. (CHOOSE x \in Clients : host[x] = None) \in Clients
    BY <2>1, FreshClient, Zenon
  <2>5. QED
    BY <1>6, <2>2, <2>3, <2>4, Zenon DEF newSMTPClient
<1>7. ASSUME NEW g \in Jobs, Send(g) PROVE OutboundTypeOK'
  <2>1. /\ \E p \in Places : pc' = [pc EXCEPT ![g] = p]
        /\ mu' = mu \/ mu' = [mu EXCEPT ![using[g]] = g]
        /\ answer' = answer \/ answer' = [answer EXCEPT ![g] = "other"]
    BY <1>7, Zenon DEF Send, Places
  <2>2. /\ pc' \in [Jobs -> Places] /\ mu' \in [Clients -> Jobs \cup {None}]
        /\ answer' \in [Jobs -> ErrorClass \cup {"nil"}]
    <3>1. pc' \in [Jobs -> Places]
      BY <1>t, <2>1, ExceptType, Zenon DEF JobTypeOK
    <3>2. mu' \in [Clients -> Jobs \cup {None}]
      BY <1>t, <2>1, ExceptType DEF PoolTypeOK
    <3>3. answer' \in [Jobs -> ErrorClass \cup {"nil"}]
      BY <1>t, <2>1, ExceptType, Zenon DEF JobTypeOK, ErrorClass
    <3>4. QED
      BY <3>1, <3>2, <3>3, Zenon
  <2>3. QED
    BY <1>t, <1>7, <2>2, Zenon DEF Send, JobTypeOK, PoolTypeOK
<1>8. ASSUME NEW g \in Jobs, SendReturn(g) PROVE OutboundTypeOK'
  <2>1. /\ \E e \in ErrorClass \cup {"nil"} : answer' = [answer EXCEPT ![g] = e]
        /\ accepted' = accepted \/ accepted' = [accepted EXCEPT ![g] = accepted[g] + 1]
        /\ mu' = [mu EXCEPT ![using[g]] = None] /\ pc' = [pc EXCEPT ![g] = "release"]
    BY <1>8, Zenon DEF SendReturn, ErrorClass
  <2>2. \E b \in BOOLEAN : fault' = [fault EXCEPT ![g] = b]
    BY <1>8, Zenon DEF SendReturn
  <2>3. /\ answer' \in [Jobs -> ErrorClass \cup {"nil"}]
        /\ mu' \in [Clients -> Jobs \cup {None}] /\ pc' \in [Jobs -> Places]
    <3>1. answer' \in [Jobs -> ErrorClass \cup {"nil"}]
      BY <1>t, <2>1, ExceptType, Zenon DEF JobTypeOK
    <3>2. mu' \in [Clients -> Jobs \cup {None}]
      BY <1>t, <2>1, ExceptType, Zenon DEF PoolTypeOK
    <3>3. pc' \in [Jobs -> Places]
      BY <1>t, <2>1, ExceptType, Zenon DEF JobTypeOK, Places
    <3>4. QED
      BY <3>1, <3>2, <3>3, Zenon
  <2>4. fault' \in [Jobs -> BOOLEAN]
    BY <1>t, <2>2, ExceptType, Zenon
  <2>5. accepted' \in [Jobs -> Nat]
    BY <1>t, <2>1
  <2>6. QED
    BY <1>t, <1>8, <2>3, <2>4, <2>5, Zenon DEF SendReturn, JobTypeOK, PoolTypeOK
<1>9. ASSUME NEW g \in Jobs, ReleaseClient(g) PROVE OutboundTypeOK'
  <2> DEFINE c == using[g]
             k == host[c]
  <2>1. /\ pc[g] = "put" /\ c \in Clients /\ mx[g] /= <<>> /\ k \in Hosts
    BY <1>9, AtHand, Zenon DEF ReleaseClient, Holding
  <2>2. CASE /\ Len(idle[k]) < PoolSize /\ idle' = [idle EXCEPT ![k] = Append(idle[k], c)]
             /\ using' = [using EXCEPT ![g] = None] /\ Judge(g) /\ UNCHANGED mu
    <3>1. /\ Append(idle[k], c) \in Seq(Clients)
          /\ Len(Append(idle[k], c)) = Len(idle[k]) + 1 /\ Len(idle[k]) \in Nat
      BY <1>t, <2>1, AppendElements DEF PoolTypeOK
    <3>2. idle' \in [Hosts -> Seq(Clients)] /\ \A h \in Hosts : Len(idle'[h]) <= PoolSize
      BY <1>t, <2>1, <2>2, <3>1, Constants DEF PoolTypeOK
    <3>3. /\ pc' \in [Jobs -> Places] /\ mx' \in [Jobs -> Seq(Hosts)]
          /\ status' \in [Jobs -> Statuses]
      BY <1>t, <2>1, <2>2, IterationType, Zenon DEF Judge, Statuses
    <3>4. using' \in [Jobs -> Clients \cup {None}]
      BY <1>t, <2>2, ExceptType, Zenon DEF JobTypeOK
    <3>5. QED
      BY <1>t, <1>9, <2>2, <3>2, <3>3, <3>4, Zenon DEF ReleaseClient, JobTypeOK, PoolTypeOK
  <2>3. CASE /\ mu' = [mu EXCEPT ![c] = g] /\ pc' = [pc EXCEPT ![g] = "quit"]
             /\ UNCHANGED <<idle, using, mx, status>>
    <3>1. mu' \in [Clients -> Jobs \cup {None}] /\ pc' \in [Jobs -> Places]
      BY <1>t, <2>3, ExceptType, Zenon DEF JobTypeOK, PoolTypeOK, Places
    <3>2. QED
      BY <1>t, <1>9, <2>3, <3>1, Zenon DEF ReleaseClient, JobTypeOK, PoolTypeOK
  <2>4. QED
    BY <1>9, <2>2, <2>3, Zenon DEF ReleaseClient
<1>q. ASSUME NEW g \in Jobs, QuitReturn(g) PROVE OutboundTypeOK'
  <2>1. pc[g] = "quit" /\ mx[g] /= <<>>
    BY <1>q, AtHand, Zenon DEF QuitReturn, Holding
  <2>2. /\ pc' \in [Jobs -> Places] /\ mx' \in [Jobs -> Seq(Hosts)]
        /\ status' \in [Jobs -> Statuses]
    BY <1>t, <1>q, <2>1, IterationType, Zenon DEF QuitReturn, Judge, Statuses
  <2>3. /\ using' \in [Jobs -> Clients \cup {None}] /\ mu' \in [Clients -> Jobs \cup {None}]
        /\ host' \in [Clients -> Hosts \cup {None}]
    BY <1>t, <1>q, ExceptType, Zenon DEF QuitReturn, JobTypeOK, PoolTypeOK
  <2>4. QED
    BY <1>t, <1>q, <2>2, <2>3, Zenon DEF QuitReturn, JobTypeOK, PoolTypeOK
<1>10. ASSUME NEW g \in Jobs, ReleasePanic(g) PROVE OutboundTypeOK'
  BY <1>t, <1>10, Zenon DEF ReleasePanic, JobTypeOK, PoolTypeOK
<1>11. ASSUME NEW h \in Hosts \cup {None}, NEW S \in SUBSET Hosts, CloseChannel(h, S)
       PROVE  OutboundTypeOK'
  <2>1. chan' \in [Jobs -> {"open", "closed", "drained"}]
    BY <1>t, <1>11 DEF CloseChannel, JobTypeOK
  <2>2. QED
    BY <1>t, <1>11, <2>1, Zenon DEF CloseChannel, JobTypeOK, PoolTypeOK
<1>a. CASE CloseAll \/ DrainNext
  <2>1. sweep \subseteq Hosts
    BY <1>t, Zenon DEF PoolTypeOK
  <2>2. \E h \in Hosts \cup {None} : \E S \in SUBSET Hosts : CloseChannel(h, S)
    BY <1>a, <2>1, Zenon DEF CloseAll, DrainNext
  <2>3. QED
    BY <1>11, <2>2, Zenon
<1>b. CASE DrainClient
  <2>1. drain \in Hosts /\ idle[drain] /= <<>>
    BY <1>t, <1>b, Zenon DEF DrainClient, Locked, PoolTypeOK
  <2>2. /\ Head(idle[drain]) \in Clients /\ Tail(idle[drain]) \in Seq(Clients)
        /\ Len(Tail(idle[drain])) = Len(idle[drain]) - 1 /\ Len(idle[drain]) \in Nat
    BY <1>t, <2>1, TailElements DEF PoolTypeOK
  <2>3. idle' \in [Hosts -> Seq(Clients)] /\ quitting' \in Clients \cup {None}
    BY <1>t, <1>b, <2>2, ExceptType, Zenon DEF DrainClient, PoolTypeOK
  <2>4. \A h \in Hosts : Len(idle'[h]) <= PoolSize
    BY <1>t, <1>b, <2>1, <2>2, Constants DEF DrainClient, PoolTypeOK
  <2>5. QED
    BY <1>t, <1>b, <2>3, <2>4, Zenon DEF DrainClient, JobTypeOK, PoolTypeOK
<1>c. CASE DrainQuit
  <2>1. host' \in [Clients -> Hosts \cup {None}] /\ quitting' \in Clients \cup {None}
    BY <1>t, <1>c, ExceptType, Zenon DEF DrainQuit, PoolTypeOK
  <2>2. QED
    BY <1>t, <1>c, <2>1, Zenon DEF DrainQuit, JobTypeOK, PoolTypeOK
<1>12. CASE UNCHANGED vars
  BY <1>t, <1>12, Zenon DEF vars, JobTypeOK, PoolTypeOK
<1>13. QED
  BY <1>1, <1>2, <1>3, <1>4, <1>5, <1>6, <1>7, <1>8, <1>9, <1>q, <1>10, <1>a, <1>b, <1>c, <1>12,
     Zenon DEF Next, Drain, Goroutine, Job

(* What VerdictsAreEarned and FailuresAreRemote say of one goroutine. *)
VerdictInv(g) ==
    /\ status[g] = "delivery_perm_failed_domain" =>
          /\ accepted[g] = 0
          /\ fault[g] \/ \E i \in DOMAIN MX[g[2]] : HelloAgain(MX[g[2]][i])
    /\ status[g] = "delivered" => accepted[g] > 0 \/ answer[g] = "other"

(* A step of a goroutine leaves the variables of the others alone. *)
LEMMA OtherJobs ==
    ASSUME OutboundInv, NEW g \in Jobs, Goroutine(g), NEW f \in Jobs, f /= g
    PROVE  /\ pc'[f] = pc[f] /\ mx'[f] = mx[f] /\ using'[f] = using[f]
           /\ answer'[f] = answer[f] /\ status'[f] = status[f]
           /\ accepted'[f] = accepted[f] /\ fault'[f] = fault[f] /\ deliver' = deliver
<1> USE DEF OutboundInv, OutboundTypeOK, JobTypeOK
<1>1. CASE LookupMX(g)
  BY <1>1, Zenon DEF LookupMX, Finish
<1>2. CASE getOrCreateHostPool(g)
  BY <1>2, Zenon DEF getOrCreateHostPool
<1>3. CASE GetClient(g)
  BY <1>3, Zenon DEF GetClient
<1>4. CASE newSMTPClient(g)
  BY <1>4 DEF newSMTPClient, NextHost, Finish
<1>5. CASE Send(g)
  BY <1>5, Zenon DEF Send
<1>6. CASE SendReturn(g)
  BY <1>6, Zenon DEF SendReturn
<1>7. CASE ReleaseClient(g)
  BY <1>7, Zenon DEF ReleaseClient, Judge, NextHost, Finish
<1>8. CASE ReleasePanic(g)
  BY <1>8, Zenon DEF ReleasePanic
<1>q. CASE QuitReturn(g)
  BY <1>q, Zenon DEF QuitReturn, Judge, NextHost, Finish
<1>9. QED
  BY <1>1, <1>2, <1>3, <1>4, <1>5, <1>6, <1>7, <1>8, <1>q, Zenon DEF Goroutine, Job

(* The end of an iteration: it has failed for good only if this was the last *)
(* host, and then no host has taken the message.                             *)
LEMMA IterationEnd ==
    ASSUME OutboundInv, NEW g \in Jobs, pc[g] \in {"dial", "put", "quit"}, NextHost(g),
           using' = [using EXCEPT ![g] = None], UNCHANGED <<deliver, answer, accepted>>,
           accepted[g] = 0, status[g] = "none",
           fault'[g] \/ \E i \in DOMAIN MX[g[2]] : HelloAgain(MX[g[2]][i])
    PROVE  JobInv(g)' /\ VerdictInv(g)'
<1>1. /\ pc \in [Jobs -> Places] /\ mx \in [Jobs -> Seq(Hosts)] /\ status \in [Jobs -> Statuses]
      /\ using \in [Jobs -> Clients \cup {None}] /\ JobInv(g)
  BY Zenon DEF OutboundInv, OutboundTypeOK, JobTypeOK
<1>2. /\ mx[g] /= <<>> /\ deliver[g[1]] /= "idle"
      /\ \A i \in DOMAIN Tail(mx[g]) : \E j \in DOMAIN MX[g[2]] : MX[g[2]][j] = Tail(mx[g])[i]
  BY <1>1, AtHand, Zenon DEF JobInv, Holding
<1>3. \/ /\ pc'[g] = "done" /\ mx'[g] = <<>> /\ status'[g] = "delivery_perm_failed_domain"
      \/ /\ pc'[g] = "get" /\ mx'[g] = Tail(mx[g]) /\ Tail(mx[g]) /= <<>> /\ status'[g] = "none"
  BY <1>1, Zenon DEF NextHost, Finish
<1>4. using'[g] = None /\ accepted'[g] = 0 /\ deliver'[g[1]] /= "idle"
  BY <1>1, <1>2, Zenon
<1>5. JobInv(g)'
  <2>1. CASE pc'[g] = "done" /\ mx'[g] = <<>> /\ status'[g] = "delivery_perm_failed_domain"
    <3>1. \A i \in DOMAIN mx'[g] : \E j \in DOMAIN MX[g[2]] : MX[g[2]][j] = mx'[g][i]
      BY <2>1
    <3>2. QED
      BY <1>4, <2>1, <3>1 DEF JobInv, Holding
  <2>2. CASE /\ pc'[g] = "get" /\ mx'[g] = Tail(mx[g])
             /\ Tail(mx[g]) /= <<>> /\ status'[g] = "none"
    BY <1>2, <1>4, <2>2 DEF JobInv, Holding
  <2>3. QED
    BY <1>3, <2>1, <2>2, Zenon
<1>6. VerdictInv(g)'
  BY <1>3, <1>4, Zenon DEF VerdictInv, HelloAgain
<1>7. QED
  BY <1>5, <1>6, Zenon

(* The answer is judged once the client is given back or closed. *)
LEMMA Judged ==
    ASSUME OutboundInv, NEW g \in Jobs, pc[g] \in {"put", "quit"}, Judge(g),
           using' = [using EXCEPT ![g] = None],
           UNCHANGED <<deliver, answer, accepted, fault>>
    PROVE  JobInv(g)' /\ VerdictInv(g)'
<1>t. /\ pc \in [Jobs -> Places] /\ mx \in [Jobs -> Seq(Hosts)] /\ status \in [Jobs -> Statuses]
      /\ using \in [Jobs -> Clients \cup {None}]
  BY Zenon DEF OutboundInv, OutboundTypeOK, JobTypeOK
<1>i. JobInv(g)
  BY Zenon DEF OutboundInv
<1>1. status[g] = "none"
  BY <1>i, Zenon DEF JobInv
<1>2. CASE answer[g] = "permanent" /\ NextHost(g)
  <2>1. accepted[g] = 0 /\ fault'[g]
    BY <1>i, <1>2, Zenon DEF JobInv
  <2>2. pc[g] \in {"dial", "put", "quit"}
    BY Zenon
  <2>3. QED
    BY Zenon, <1>1, <1>2, <2>1, <2>2, IterationEnd
<1>3. CASE /\ pc'[g] = "done" /\ mx'[g] = <<>>
           /\ \/ status'[g] = "delivery_temp_failed"
              \/ status'[g] = "delivered" /\ answer[g] \in {"nil", "other"}
  <2>1. \A i \in DOMAIN mx'[g] : \E j \in DOMAIN MX[g[2]] : MX[g[2]][j] = mx'[g][i]
    BY <1>3
  <2>2. using'[g] = None
    BY <1>t, Zenon
  <2>3. JobInv(g)'
    BY <1>i, <1>3, <2>1, <2>2, Zenon DEF JobInv, Holding
  <2>4. answer'[g] = answer[g] /\ accepted'[g] = accepted[g]
        /\ (answer[g] = "nil" => accepted[g] = 1)
    BY <1>i, Zenon DEF JobInv
  <2>5. VerdictInv(g)'
    BY <1>3, <2>4 DEF VerdictInv
  <2>6. QED
    BY <2>3, <2>5, Zenon
<1>4. QED
  BY <1>t, <1>2, <1>3, Zenon DEF Judge, Finish

(* A step of a goroutine keeps the invariant about it. *)
LEMMA OwnJob ==
    ASSUME OutboundInv, OutboundTypeOK', NEW g \in Jobs, Goroutine(g)
    PROVE  JobInv(g)' /\ VerdictInv(g)'
<1>t. /\ pc \in [Jobs -> Places] /\ mx \in [Jobs -> Seq(Hosts)] /\ status \in [Jobs -> Statuses]
      /\ using \in [Jobs -> Clients \cup {None}] /\ answer \in [Jobs -> ErrorClass \cup {"nil"}]
      /\ accepted \in [Jobs -> Nat] /\ fault \in [Jobs -> BOOLEAN]
  BY Zenon DEF OutboundInv, OutboundTypeOK, JobTypeOK
<1>i. JobInv(g) /\ VerdictInv(g)
  BY Zenon DEF OutboundInv, VerdictsAreEarned, FailuresAreRemote, VerdictInv
<1>d. deliver' = deliver
  BY Zenon DEF Goroutine, Job, LookupMX, getOrCreateHostPool, GetClient, newSMTPClient, Send,
         SendReturn, ReleaseClient, ReleasePanic, QuitReturn
<1>1. CASE LookupMX(g)
  <2>1. pc[g] = "lookup" /\ using'[g] = None /\ accepted'[g] = 0 /\ status[g] = "none"
    BY <1>1, <1>t, <1>i, Zenon DEF LookupMX, JobInv, Holding
  <2>2. CASE /\ pc'[g] = "done" /\ mx'[g] = <<>>
             /\ status'[g] \in {"mx_lookup_temp_failed", "mx_lookup_perm_failed", "no_mx_records"}
    <3>1. \A i \in DOMAIN mx'[g] : \E j \in DOMAIN MX[g[2]] : MX[g[2]][j] = mx'[g][i]
      BY <2>2
    <3>2. QED
      BY <1>d, <1>i, <2>1, <2>2, <3>1, Zenon DEF JobInv, VerdictInv, Holding
  <2>3. CASE pc'[g] = "get" /\ mx'[g] = MX[g[2]] /\ status'[g] = status[g]
    <3>1. mx'[g] /= <<>>
      <4>1. g[2] \in Domains
        BY AtHand, Zenon
      <4>2. QED
        BY <2>3, <4>1, Constants, Zenon
    <3>2. QED
      BY <1>d, <1>i, <2>1, <2>3, <3>1, Zenon DEF JobInv, VerdictInv, Holding
  <2>4. QED
    BY <1>1, <1>t, <2>2, <2>3, Zenon DEF LookupMX, Finish
<1>2. CASE getOrCreateHostPool(g)
  BY <1>2, <1>d, <1>t, <1>i DEF getOrCreateHostPool, JobInv, VerdictInv, Holding
<1>3. CASE GetClient(g)
  <2>1. /\ pc[g] = "select" /\ mx[g] /= <<>> /\ UNCHANGED <<mx, answer, status, accepted, fault>>
        /\ \/ pc'[g] = "dial" /\ using'[g] = None
           \/ pc'[g] = "send" /\ using'[g] \in Clients
    <3>1. Head(mx[g]) \in Hosts /\ mx[g] /= <<>> /\ using[g] = None
      BY <1>3, <1>i, AtHand, Zenon DEF GetClient, JobInv, Holding
    <3>2. idle[Head(mx[g])] /= <<>> => Head(idle[Head(mx[g])]) \in Clients
      BY <3>1, TailElements, Zenon DEF OutboundInv, OutboundTypeOK, PoolTypeOK
    <3>3. QED
      BY <1>3, <1>t, <3>1, <3>2, Zenon DEF GetClient
  <2>2. QED
    BY <1>d, <1>i, <2>1, Constants, Zenon DEF JobInv, VerdictInv, Holding
<1>4. CASE newSMTPClient(g)
  <2>1. pc[g] = "dial" /\ using[g] = None /\ mx[g] /= <<>> /\ accepted[g] = 0 /\ status[g] = "none"
    BY <1>4, <1>i, Zenon DEF newSMTPClient, JobInv, Holding
  <2>2. CASE /\ NextHost(g) /\ UNCHANGED using
             /\ fault' = [fault EXCEPT ![g] = TRUE] \/ HelloAgain(Head(mx[g]))
    <3>1. using' = [using EXCEPT ![g] = None]
      BY <1>t, <2>1, <2>2, Zenon
    <3>2. fault'[g] \/ \E i \in DOMAIN MX[g[2]] : HelloAgain(MX[g[2]][i])
      BY <1>t, <2>1, <2>2, AtHand, Zenon
    <3>3. pc[g] \in {"dial", "put", "quit"} /\ UNCHANGED <<deliver, answer, accepted>>
      BY <1>4, <2>1, Zenon DEF newSMTPClient
    <3>4. QED
      BY Zenon, <2>1, <2>2, <3>1, <3>2, <3>3, IterationEnd
  <2>3. CASE /\ using' = [using EXCEPT ![g] = CHOOSE x \in Clients : host[x] = None]
             /\ pc' = [pc EXCEPT ![g] = "send"] /\ UNCHANGED <<mx, status, fault>>
    <3>1. (CHOOSE x \in Clients : host[x] = None) \in Clients
      BY <2>1, FreshClient, Zenon
    <3>2. pc'[g] = "send" /\ using'[g] /= None /\ UNCHANGED <<answer, accepted>>
      BY <1>4, <1>t, <2>3, <3>1, Constants, Zenon DEF newSMTPClient
    <3>3. QED
      BY <1>d, <1>i, <2>1, <2>3, <3>2 DEF JobInv, VerdictInv, Holding
  <2>4. QED
    BY <1>4, <2>2, <2>3, Zenon DEF newSMTPClient
<1>5. CASE Send(g)
  <2>1. host[using[g]] /= None
    <3>1. pc[g] = "send"
      BY <1>5, Zenon DEF Send
    <3>2. mx[g] /= <<>> /\ host[using[g]] = Head(mx[g])
      BY <3>1, AtHand, Zenon DEF Holding
    <3>3. QED
      BY <3>2, AtHand, Constants
  <2>2. /\ pc[g] = "send" /\ pc'[g] \in {"sending", "close"}
        /\ UNCHANGED <<mx, using, answer, status, accepted, fault>>
    BY <1>5, <1>t, <2>1, Zenon DEF Send
  <2>3. QED
    BY <1>d, <1>i, <2>2, Zenon DEF JobInv, VerdictInv, Holding
<1>6. CASE SendReturn(g)
  <2>1. /\ pc[g] = "sending" /\ pc'[g] = "release" /\ UNCHANGED <<mx, using, status>>
    BY <1>6, <1>t, Zenon DEF SendReturn
  <2>2. accepted[g] = 0 /\ status[g] = "none"
    BY <1>i, <2>1, Zenon DEF JobInv
  <2>3. /\ accepted'[g] <= 1
        /\ answer'[g] = "nil" => accepted'[g] = 1
        /\ answer'[g] = "permanent" => accepted'[g] = 0
    BY <1>6, <1>t, <2>2 DEF SendReturn, ErrorClass
  <2>4. answer'[g] /= "nil" => fault'[g]
    BY <1>6, <1>t, Zenon DEF SendReturn
  <2>5. QED
    BY <1>d, <1>i, <2>1, <2>2, <2>3, <2>4 DEF JobInv, VerdictInv, Holding
<1>7. CASE ReleaseClient(g)
  <2>1. CASE pc' = [pc EXCEPT ![g] = "quit"] /\ UNCHANGED <<using, mx, status>>
    <3>1. /\ pc[g] = "put" /\ pc'[g] = "quit"
          /\ UNCHANGED <<using, mx, status, answer, accepted, fault>>
      BY <1>7, <1>t, <2>1, Zenon DEF ReleaseClient
    <3>2. using[g] /= None /\ mx[g] /= <<>> /\ status[g] = "none" /\ deliver[g[1]] /= "idle"
      BY <1>i, <3>1, Zenon DEF JobInv, Holding
    <3>3. /\ accepted[g] <= 1
          /\ answer[g] = "nil" => accepted[g] = 1
          /\ answer[g] = "permanent" => accepted[g] = 0
          /\ answer[g] /= "nil" => fault[g]
      BY <1>i, <3>1, Zenon DEF JobInv
    <3>4. \A i \in DOMAIN mx[g] : \E j \in DOMAIN MX[g[2]] : MX[g[2]][j] = mx[g][i]
      BY <1>i, Zenon DEF JobInv
    <3>5. JobInv(g)'
      BY <1>d, <3>1, <3>2, <3>3, <3>4 DEF JobInv, Holding
    <3>6. VerdictInv(g)'
      BY <1>i, <3>1, Zenon DEF VerdictInv
    <3>7. QED
      BY <3>5, <3>6, Zenon
  <2>2. CASE using' = [using EXCEPT ![g] = None] /\ Judge(g)
    <3>1. pc[g] \in {"put", "quit"} /\ UNCHANGED <<deliver, answer, accepted, fault>>
      BY <1>7, Zenon DEF ReleaseClient
    <3>2. QED
      BY <2>2, <3>1, Judged, Zenon
  <2>3. QED
    BY <1>7, <2>1, <2>2, Zenon DEF ReleaseClient
<1>8. CASE ReleasePanic(g)
  BY <1>8, <1>d, <1>i, Zenon DEF ReleasePanic, JobInv, VerdictInv, Holding
<1>q. CASE QuitReturn(g)
  <2>1. /\ pc[g] \in {"put", "quit"} /\ using' = [using EXCEPT ![g] = None] /\ Judge(g)
        /\ UNCHANGED <<deliver, answer, accepted, fault>>
    BY <1>q, Zenon DEF QuitReturn
  <2>2. QED
    BY <2>1, Judged, Zenon
<1>9. QED
  BY <1>1, <1>2, <1>3, <1>4, <1>5, <1>6, <1>7, <1>8, <1>q, Zenon DEF Goroutine, Job

(* A step that moves no client. *)
LEMMA NoClientMoves ==
    ASSUME OutboundInv, UNCHANGED <<using, host, idle, mu, quitting>>,
           quitting = None \/ drain' = drain,
           \A g \in Jobs : /\ using[g] /= None => mx'[g] = mx[g]
                           /\ pc[g] \in {"sending", "close", "quit"} => pc'[g] = pc[g]
    PROVE  UseInv' /\ IdleInv' /\ QuitInv' /\ MutexInv' /\ OwnerInv'
<1>1. UseInv'
  BY Zenon DEF OutboundInv, UseInv
<1>2. IdleInv'
  BY DEF OutboundInv, IdleInv
<1>3. MutexInv'
  BY DEF OutboundInv, OutboundTypeOK, PoolTypeOK, MutexInv
<1>4. OwnerInv'
  BY Zenon DEF OutboundInv, OwnerInv
<1>5. QuitInv'
  BY Zenon DEF OutboundInv, QuitInv
<1>6. QED
  BY <1>1, <1>2, <1>3, <1>4, <1>5, Zenon

(* A client that nobody has; and what a step that receives it leaves in the  *)
(* channels: all the others, and only those, each of them once.              *)
Nobodys(c) == c \in Clients /\ c /= None /\ c /= quitting /\ \A f \in Jobs : using[f] /= c

Left(c) == \A k \in Hosts : \A i \in DOMAIN idle[k] :
    idle[k][i] /= c => \E j \in DOMAIN idle'[k] : idle'[k][j] = idle[k][i]

Only(c) == \A k \in Hosts : \A i \in DOMAIN idle'[k] :
    idle'[k][i] /= c /\ \E j \in DOMAIN idle[k] : idle[k][j] = idle'[k][i]

Once == \A k \in Hosts : \A i \in DOMAIN idle'[k] : \A j \in DOMAIN idle'[k] :
    idle'[k][i] = idle'[k][j] => i = j

(* The first client of a channel is received. *)
LEMMA HeadTaken ==
    ASSUME OutboundInv, NEW h \in Hosts, idle[h] /= <<>>,
           idle' = [idle EXCEPT ![h] = Tail(idle[h])]
    PROVE  /\ Nobodys(Head(idle[h])) /\ host[Head(idle[h])] = h
           /\ Left(Head(idle[h])) /\ Only(Head(idle[h])) /\ Once
<1> DEFINE c == Head(idle[h])
<1>t. idle \in [Hosts -> Seq(Clients)]
  BY Zenon DEF OutboundInv, OutboundTypeOK, PoolTypeOK
<1>1. /\ c \in Clients /\ c /= None /\ 1 \in DOMAIN idle[h] /\ c = idle[h][1]
      /\ \A i \in DOMAIN idle'[h] :
            i + 1 \in DOMAIN idle[h] /\ idle'[h][i] = idle[h][i + 1] /\ i + 1 /= 1
      /\ \A i \in DOMAIN idle[h] :
            i /= 1 => i - 1 \in DOMAIN idle'[h] /\ idle'[h][i - 1] = idle[h][i]
      /\ DOMAIN idle'[h] \subseteq Nat
  BY <1>t, TailElements, Constants
<1> HIDE DEF c
<1>o. IdleInv /\ QuitInv
  BY Zenon DEF OutboundInv
<1>2. /\ host[c] = h /\ \A f \in Jobs : using[f] /= c
      /\ \A i \in DOMAIN idle[h] : idle[h][i] = c => i = 1
  BY <1>o, <1>1 DEF IdleInv
<1>3. c /= quitting
  <2>1. SUFFICES ASSUME c = quitting PROVE FALSE
    BY Zenon
  <2>2. drain = h
    BY <1>o, <1>1, <1>2, <2>1, Zenon DEF QuitInv
  <2>3. idle[drain][1] /= quitting
    <3>1. 1 \in DOMAIN idle[drain] /\ quitting /= None
      BY <1>1, <2>1, <2>2, Zenon
    <3>2. QED
      BY <1>o, <3>1, Zenon DEF QuitInv
  <2>4. QED
    BY <1>1, <2>1, <2>2, <2>3, Zenon
<1>4. \A k \in Hosts : k /= h => idle'[k] = idle[k]
  BY <1>t, Zenon
<1>5. ASSUME NEW k \in Hosts, NEW i \in DOMAIN idle'[k]
      PROVE  /\ idle'[k][i] /= c /\ \E j \in DOMAIN idle[k] : idle[k][j] = idle'[k][i]
             /\ \A j \in DOMAIN idle'[k] : idle'[k][i] = idle'[k][j] => i = j
  <2>1. CASE k = h
    <3>1. i + 1 \in DOMAIN idle[h] /\ idle'[k][i] = idle[h][i + 1] /\ idle[h][i + 1] /= c
      BY <1>1, <1>2, <2>1, Zenon
    <3>2. ASSUME NEW j \in DOMAIN idle'[k], idle'[k][i] = idle'[k][j] PROVE i = j
      <4>1. j + 1 \in DOMAIN idle[h] /\ idle[h][i + 1] = idle[h][j + 1]
        BY <1>1, <2>1, <3>1, <3>2, Zenon
      <4>2. i + 1 = j + 1
        BY <1>o, <3>1, <4>1, Zenon DEF IdleInv
      <4>3. i \in Nat /\ j \in Nat
        BY <1>1, <2>1, Zenon
      <4>4. QED
        BY <4>2, <4>3
    <3>3. QED
      BY <2>1, <3>1, <3>2, Zenon
  <2>2. CASE k /= h
    <3>1. idle'[k] = idle[k] /\ i \in DOMAIN idle[k]
      BY <1>4, <2>2, Zenon
    <3>2. host[idle[k][i]] = k /\ \A j \in DOMAIN idle[k] : idle[k][i] = idle[k][j] => i = j
      BY <1>o, <3>1, Zenon DEF IdleInv
    <3>3. idle[k][i] /= c
      BY <1>2, <2>2, <3>2, Zenon
    <3>4. QED
      BY <3>1, <3>2, <3>3, Zenon
  <2>3. QED
    BY <2>1, <2>2, Zenon
<1>6. ASSUME NEW k \in Hosts, NEW i \in DOMAIN idle[k], idle[k][i] /= c
      PROVE  \E j \in DOMAIN idle'[k] : idle'[k][j] = idle[k][i]
  <2>1. CASE k = h
    <3>1. i /= 1 /\ i \in DOMAIN idle[h]
      BY <1>1, <1>6, <2>1, Zenon
    <3>2. i - 1 \in DOMAIN idle'[h] /\ idle'[h][i - 1] = idle[h][i]
      BY <1>1, <3>1, Zenon
    <3>3. QED
      BY <2>1, <3>2, Zenon
  <2>2. CASE k /= h
    BY <1>4, <2>2, Zenon
  <2>3. QED
    BY <2>1, <2>2, Zenon
<1>7. Nobodys(c)
  BY <1>1, <1>2, <1>3, Zenon DEF Nobodys
<1>8. Left(c)
  BY <1>6, Zenon DEF Left
<1>9. Only(c) /\ Once
  BY <1>5, Zenon DEF Only, Once
<1>10. QED
  BY <1>2, <1>7, <1>8, <1>9, Zenon DEF c

(* What OwnerInv, IdleInv and QuitInv say when such a client gets an owner.  *)
LEMMA HeadGiven ==
    ASSUME OutboundInv, NEW c, Nobodys(c), Left(c), Only(c), Once, UNCHANGED <<host, drain>>,
           \A f \in Jobs : using'[f] = using[f] \/ using'[f] = c,
           \A f \in Jobs : using[f] /= None => using'[f] = using[f],
           quitting = None \/ UNCHANGED quitting,
           quitting' = c \/ \E f \in Jobs : using'[f] = c
    PROVE  IdleInv' /\ OwnerInv'
<1>o. IdleInv /\ OwnerInv
  BY Zenon DEF OutboundInv
<1>1. ASSUME NEW k \in Hosts, NEW i \in DOMAIN idle'[k]
      PROVE  host'[idle'[k][i]] = k /\ \A f \in Jobs : using'[f] /= idle'[k][i]
  <2>1. PICK j \in DOMAIN idle[k] : idle[k][j] = idle'[k][i]
    BY Zenon DEF Only
  <2>2. host[idle[k][j]] = k /\ \A f \in Jobs : using[f] /= idle[k][j]
    BY <1>o, Zenon DEF IdleInv
  <2>3. idle'[k][i] /= c
    BY Zenon DEF Only
  <2>4. QED
    BY <2>1, <2>2, <2>3, Zenon
<1>2. IdleInv'
  <2>1. \A k \in Hosts : \A i \in DOMAIN idle'[k] : \A j \in DOMAIN idle'[k] :
          idle'[k][i] = idle'[k][j] => i = j
    BY Zenon DEF Once
  <2>2. QED
    BY <1>1, <2>1, Zenon DEF IdleInv
<1>3. ASSUME NEW d \in Clients, host'[d] /= None
      PROVE  \/ \E f \in Jobs : using'[f] = d
             \/ \E k \in Hosts : \E i \in DOMAIN idle'[k] : idle'[k][i] = d
             \/ quitting' = d
  <2>1. \/ \E f \in Jobs : using[f] = d
        \/ \E k \in Hosts : \E i \in DOMAIN idle[k] : idle[k][i] = d
        \/ quitting = d
    BY <1>o, <1>3, Zenon DEF OwnerInv
  <2>2. ASSUME d /= c, NEW k \in Hosts, NEW i \in DOMAIN idle[k], idle[k][i] = d
        PROVE  \E j \in DOMAIN idle'[k] : idle'[k][j] = d
    BY <2>2, Zenon DEF Left
  <2>3. CASE d = c
    BY <2>3, Zenon
  <2>4. CASE \E f \in Jobs : using[f] = d
    <3>1. PICK f \in Jobs : using[f] = d
      BY <2>4, Zenon
    <3>2. using'[f] = d
      BY <3>1, Constants, Zenon
    <3>3. QED
      BY <3>2, Zenon
  <2>5. CASE quitting = d
    BY <2>5, Constants, Zenon
  <2>6. ASSUME d /= c, \E k \in Hosts : \E i \in DOMAIN idle[k] : idle[k][i] = d
        PROVE  \E k \in Hosts : \E i \in DOMAIN idle'[k] : idle'[k][i] = d
    BY <2>2, <2>6, Zenon
  <2>7. QED
    BY <2>1, <2>3, <2>4, <2>5, <2>6, Zenon
<1>4. QED
  BY <1>2, <1>3, Zenon DEF OwnerInv

(* GetClient takes a client from its host's channel. *)
LEMMA ClientTaken ==
    ASSUME OutboundInv, NEW g \in Jobs, GetClient(g), using' /= using
    PROVE  UseInv' /\ IdleInv' /\ QuitInv' /\ MutexInv' /\ OwnerInv'
<1> DEFINE h == Head(mx[g])
           c == Head(idle[h])
<1>t. using \in [Jobs -> Clients \cup {None}] /\ pc \in [Jobs -> Places]
  BY Zenon DEF OutboundInv, OutboundTypeOK, JobTypeOK
<1>o. UseInv /\ QuitInv /\ MutexInv
  BY Zenon DEF OutboundInv
<1>1. /\ h \in Hosts /\ using[g] = None /\ pc[g] = "select" /\ idle[h] /= <<>>
      /\ using' = [using EXCEPT ![g] = c] /\ idle' = [idle EXCEPT ![h] = Tail(idle[h])]
      /\ pc' = [pc EXCEPT ![g] = "send"] /\ UNCHANGED <<mx, host, mu, drain, quitting>>
  BY AtHand, Zenon DEF GetClient, OutboundInv, JobInv, Holding
<1> HIDE DEF h
<1>2. Nobodys(c) /\ host[c] = h /\ Left(c) /\ Only(c) /\ Once
  BY <1>1, HeadTaken, Zenon
<1> HIDE DEF c
<1>3. \A f \in Jobs : using'[f] = IF f = g THEN c ELSE using[f]
  BY <1>t, <1>1, Zenon
<1>4. UseInv'
  BY <1>o, <1>1, <1>2, <1>3 DEF UseInv, Nobodys, h
<1>5. IdleInv' /\ OwnerInv'
  BY <1>1, <1>2, <1>3, HeadGiven, Zenon
<1>6. MutexInv'
  BY <1>t, <1>o, <1>1, <1>2 DEF MutexInv, Nobodys
<1>7. QuitInv'
  <2>1. SUFFICES ASSUME quitting /= None
                 PROVE  /\ \A f \in Jobs : using'[f] /= quitting
                        /\ \A i \in DOMAIN idle'[drain] : idle'[drain][i] /= quitting
    BY <1>o, <1>1, Zenon DEF QuitInv
  <2>2. /\ drain \in Hosts /\ \A f \in Jobs : using[f] /= quitting
        /\ \A i \in DOMAIN idle[drain] : idle[drain][i] /= quitting
    BY <1>o, <2>1, Zenon DEF QuitInv, OutboundInv, OutboundTypeOK, PoolTypeOK
  <2>3. ASSUME NEW i \in DOMAIN idle'[drain] PROVE idle'[drain][i] /= quitting
    <3>1. PICK j \in DOMAIN idle[drain] : idle[drain][j] = idle'[drain][i]
      BY <1>2, <2>2, Zenon DEF Only
    <3>2. QED
      BY <2>2, <3>1, Zenon
  <2>4. \A f \in Jobs : using'[f] /= quitting
    BY <1>2, <1>3, <2>2, Zenon DEF Nobodys
  <2>5. QED
    BY <2>3, <2>4, Zenon
<1>8. QED
  BY <1>4, <1>5, <1>6, <1>7, Zenon

(* newSMTPClient takes an object that is neither in use nor in a channel. *)
LEMMA ClientMade ==
    ASSUME OutboundInv, NEW g \in Jobs, newSMTPClient(g), using' /= using
    PROVE  UseInv' /\ IdleInv' /\ QuitInv' /\ MutexInv' /\ OwnerInv'
<1> DEFINE h == Head(mx[g])
           c == CHOOSE x \in Clients : host[x] = None
<1>t. /\ using \in [Jobs -> Clients \cup {None}] /\ pc \in [Jobs -> Places]
      /\ host \in [Clients -> Hosts \cup {None}]
      /\ idle \in [Hosts -> Seq(Clients)] /\ mu \in [Clients -> Jobs \cup {None}]
  BY Zenon DEF OutboundInv, OutboundTypeOK, JobTypeOK, PoolTypeOK
<1>1. /\ h \in Hosts /\ using[g] = None /\ pc[g] = "dial" /\ h /= None
      /\ using' = [using EXCEPT ![g] = c] /\ host' = [host EXCEPT ![c] = h]
      /\ pc' = [pc EXCEPT ![g] = "send"] /\ UNCHANGED <<mx, idle, mu, drain, quitting>>
  <2>1. /\ pc[g] = "dial" /\ using' = [using EXCEPT ![g] = c] /\ host' = [host EXCEPT ![c] = h]
        /\ pc' = [pc EXCEPT ![g] = "send"] /\ UNCHANGED <<mx, idle, mu, drain, quitting>>
    BY Zenon DEF newSMTPClient
  <2>2. using[g] = None /\ mx[g] /= <<>>
    BY <2>1, Zenon DEF OutboundInv, JobInv, Holding
  <2>3. h \in Hosts /\ h /= None
    BY <2>2, AtHand, Constants, Zenon
  <2>4. QED
    BY <2>1, <2>2, <2>3, Zenon
<1>2. c \in Clients /\ host[c] = None /\ c /= None
  BY <1>1, FreshClient, Constants, Zenon
<1> HIDE DEF c
<1>3. \A f \in Jobs : using[f] /= c
  <2>1. ASSUME NEW f \in Jobs, using[f] = c PROVE FALSE
    <3>1. using[f] /= None /\ JobInv(f)
      BY <1>2, <2>1, Zenon DEF OutboundInv
    <3>2. mx[f] /= <<>>
      BY <3>1, Zenon DEF JobInv
    <3>3. Head(mx[f]) \in Hosts
      BY <3>2, AtHand, Zenon
    <3>4. QED
      BY <1>2, <2>1, <3>1, <3>3, Constants, Zenon DEF OutboundInv, UseInv
  <2>2. QED
    BY <2>1, Zenon
<1>4. \A k \in Hosts : \A i \in DOMAIN idle[k] : idle[k][i] /= c
  BY <1>2, Constants DEF OutboundInv, IdleInv
<1>q. QuitInv'
  <2>1. SUFFICES ASSUME quitting /= None
                 PROVE  host'[quitting] = drain /\ \A f \in Jobs : using'[f] /= quitting
    BY <1>1, Zenon DEF OutboundInv, QuitInv
  <2>2. drain /= None /\ host[quitting] = drain /\ \A f \in Jobs : using[f] /= quitting
    BY <2>1, Zenon DEF OutboundInv, QuitInv
  <2>3. c /= quitting /\ quitting \in Clients
    BY <1>2, <2>1, <2>2, Zenon DEF OutboundInv, OutboundTypeOK, PoolTypeOK
  <2>4. QED
    BY <1>t, <1>1, <2>2, <2>3, Zenon
<1>5. mu[c] = None
  BY <1>t, <1>2, <1>3, Zenon DEF OutboundInv, MutexInv
<1>6. UseInv'
  BY <1>t, <1>1, <1>2, <1>3, Zenon DEF OutboundInv, UseInv
<1>7. IdleInv'
  BY <1>t, <1>1, <1>2, <1>4 DEF OutboundInv, IdleInv
<1>8. MutexInv'
  BY <1>t, <1>1, <1>5 DEF OutboundInv, MutexInv
<1>9. OwnerInv'
  <2>1. using'[g] = c
    BY <1>t, <1>1, Zenon
  <2>2. ASSUME NEW d \in Clients, d /= c, host'[d] /= None PROVE host[d] /= None
    BY <1>t, <1>1, <2>2, Zenon
  <2>3. ASSUME NEW d \in Clients, NEW f \in Jobs, using[f] = d PROVE using'[f] = d
    BY <1>t, <1>1, <2>3, Constants, Zenon
  <2>4. QED
    BY <1>1, <2>1, <2>2, <2>3 DEF OutboundInv, OwnerInv
<1>10. QED
  BY <1>q, <1>6, <1>7, <1>8, <1>9, Zenon

(* Send, its return and Close change who has the mutex of the client in use. *)
LEMMA ClientLocked ==
    ASSUME OutboundInv, NEW g \in Jobs, pc[g] \in {"send", "sending", "put"},
           UNCHANGED <<mx, using, host, idle, drain, quitting>>,
           \/ /\ mu' = [mu EXCEPT ![using[g]] = g]
              /\ \E p \in {"sending", "close", "quit"} : pc' = [pc EXCEPT ![g] = p]
           \/ /\ mu' = [mu EXCEPT ![using[g]] = None]
              /\ pc' = [pc EXCEPT ![g] = "release"]
    PROVE  UseInv' /\ IdleInv' /\ QuitInv' /\ MutexInv' /\ OwnerInv'
<1>t. /\ using \in [Jobs -> Clients \cup {None}] /\ pc \in [Jobs -> Places]
      /\ mu \in [Clients -> Jobs \cup {None}]
  BY Zenon DEF OutboundInv, OutboundTypeOK, JobTypeOK, PoolTypeOK
<1>1. using[g] \in Clients
  BY AtHand, Zenon DEF Holding
<1>2. MutexInv'
  <2>1. SUFFICES ASSUME NEW c \in Clients, mu'[c] /= None
                 PROVE  using'[mu'[c]] = c /\ pc'[mu'[c]] \in {"sending", "close", "quit"}
    BY Zenon DEF MutexInv
  <2>2. CASE c = using[g]
    <3>1. mu'[c] = g
      BY <1>t, <2>1, <2>2, Zenon
    <3>2. pc'[g] \in {"sending", "close", "quit"}
      BY <1>t, <1>1, <2>1, <2>2, Zenon
    <3>3. QED
      BY <2>2, <3>1, <3>2, Zenon
  <2>3. CASE c /= using[g]
    <3>1. mu'[c] = mu[c]
      BY <1>t, <2>3, Zenon
    <3>2. using[mu[c]] = c /\ pc[mu[c]] \in {"sending", "close", "quit"} /\ mu[c] \in Jobs
      <4>1. MutexInv
        BY Zenon DEF OutboundInv
      <4>2. QED
        BY <1>t, <2>1, <3>1, <4>1 DEF MutexInv
    <3>3. mu[c] /= g
      BY <2>3, <3>2, Zenon
    <3>4. pc'[mu[c]] = pc[mu[c]]
      BY <1>t, <3>2, <3>3, Zenon
    <3>5. QED
      BY <3>1, <3>2, <3>4, Zenon
  <2>4. QED
    BY <2>2, <2>3, Zenon
<1>3. QED
  BY <1>2 DEF OutboundInv, UseInv, IdleInv, QuitInv, OwnerInv

(* The client a goroutine has is in no channel and not CloseAll's. *)
LEMMA OwnClient ==
    ASSUME OutboundInv, NEW g \in Jobs, pc[g] \in {"put", "quit"}
    PROVE  /\ using[g] \in Clients /\ using[g] /= None /\ host[using[g]] \in Hosts
           /\ \A f \in Jobs : using[f] = using[g] => f = g
           /\ \A k \in Hosts : \A i \in DOMAIN idle[k] : idle[k][i] /= using[g]
           /\ quitting /= None => quitting /= using[g]
           /\ pc[g] = "put" => mu[using[g]] = None
<1>1. using[g] \in Clients /\ using[g] /= None /\ host[using[g]] \in Hosts
  BY AtHand, Zenon DEF Holding
<1>2. \A f \in Jobs : using[f] = using[g] => f = g
  BY <1>1, Zenon DEF OutboundInv, UseInv
<1>3. \A k \in Hosts : \A i \in DOMAIN idle[k] : idle[k][i] /= using[g]
  BY DEF OutboundInv, IdleInv
<1>4. quitting /= None => quitting /= using[g]
  BY Zenon DEF OutboundInv, QuitInv
<1>5. ASSUME pc[g] = "put", mu[using[g]] /= None PROVE FALSE
  <2>1. /\ mu[using[g]] \in Jobs /\ using[mu[using[g]]] = using[g]
        /\ pc[mu[using[g]]] \in {"sending", "close", "quit"}
    <3>1. MutexInv /\ mu \in [Clients -> Jobs \cup {None}]
      BY Zenon DEF OutboundInv, OutboundTypeOK, PoolTypeOK
    <3>2. QED
      BY <1>1, <1>5, <3>1 DEF MutexInv
  <2>2. QED
    BY <1>2, <1>5, <2>1, Zenon
<1>6. QED
  BY <1>1, <1>2, <1>3, <1>4, <1>5, Zenon

(* A goroutine is done with its client: the others keep theirs. *)
LEMMA ClientGivenUp ==
    ASSUME OutboundInv, NEW g \in Jobs, pc[g] \in {"put", "quit"}, Judge(g),
           using' = [using EXCEPT ![g] = None],
           host' = host \/ host' = [host EXCEPT ![using[g]] = None],
           \A d \in Clients : mu'[d] = IF d = using[g] THEN None ELSE mu[d]
    PROVE  UseInv' /\ MutexInv'
<1>t. /\ using \in [Jobs -> Clients \cup {None}] /\ pc \in [Jobs -> Places]
      /\ host \in [Clients -> Hosts \cup {None}] /\ mx \in [Jobs -> Seq(Hosts)]
      /\ mu \in [Clients -> Jobs \cup {None}]
  BY Zenon DEF OutboundInv, OutboundTypeOK, JobTypeOK, PoolTypeOK
<1>o. UseInv /\ MutexInv
  BY Zenon DEF OutboundInv
<1>1. \A f \in Jobs : f /= g => mx'[f] = mx[f] /\ pc'[f] = pc[f]
  BY <1>t, Zenon DEF Judge, Finish, NextHost
<1>2. ASSUME NEW d \in Clients, mu'[d] /= None
      PROVE  using'[mu'[d]] = d /\ pc'[mu'[d]] \in {"sending", "close", "quit"}
  <2>1. /\ d /= using[g] /\ mu'[d] = mu[d] /\ mu[d] \in Jobs
        /\ using[mu[d]] = d /\ pc[mu[d]] \in {"sending", "close", "quit"}
    BY <1>t, <1>o, <1>2 DEF MutexInv
  <2>2. mu[d] /= g
    BY <2>1, Zenon
  <2>3. QED
    BY <1>t, <1>1, <2>1, <2>2, Zenon
<1>3. ASSUME NEW f \in Jobs, using'[f] /= None
      PROVE  f /= g /\ using'[f] = using[f] /\ using[f] /= using[g] /\ using[f] \in Clients
  <2>1. f /= g /\ using'[f] = using[f]
    BY <1>t, <1>3, Zenon
  <2>2. using[f] /= using[g]
    BY <2>1, OwnClient, Zenon
  <2>3. QED
    BY <1>t, <1>3, <2>1, <2>2, Zenon
<1>4. ASSUME NEW f \in Jobs, using'[f] /= None
      PROVE  host'[using'[f]] = Head(mx'[f])
  <2>1. host'[using[f]] = host[using[f]]
    BY <1>t, <1>3, <1>4, Zenon
  <2>2. QED
    BY <1>1, <1>3, <1>4, <2>1, Zenon DEF OutboundInv, UseInv
<1>5. UseInv'
  <2>1. ASSUME NEW f \in Jobs, NEW e \in Jobs, using'[f] /= None, using'[e] = using'[f]
        PROVE  e = f
    <3>1. using'[e] = using[e] /\ using'[f] = using[f] /\ using[f] /= None
      BY <1>3, <2>1, Zenon
    <3>2. QED
      BY <1>o, <2>1, <3>1, Zenon DEF UseInv
  <2>2. QED
    BY <1>4, <2>1, Zenon DEF UseInv
<1>6. QED
  BY <1>2, <1>5, Zenon DEF MutexInv

(* ReleaseClient puts its client into the channel. *)
LEMMA ClientPut ==
    ASSUME OutboundInv, NEW g \in Jobs, ReleaseClient(g), mu' = mu
    PROVE  UseInv' /\ IdleInv' /\ QuitInv' /\ MutexInv' /\ OwnerInv'
<1> DEFINE c == using[g]
           h == host[c]
<1>t. /\ using \in [Jobs -> Clients \cup {None}] /\ mu \in [Clients -> Jobs \cup {None}]
      /\ host \in [Clients -> Hosts \cup {None}] /\ idle \in [Hosts -> Seq(Clients)]
  BY Zenon DEF OutboundInv, OutboundTypeOK, JobTypeOK, PoolTypeOK
<1>1. pc[g] = "put" /\ UNCHANGED <<host, drain, quitting>>
  BY Zenon DEF ReleaseClient
<1>2. /\ c \in Clients /\ c /= None /\ h \in Hosts
      /\ \A f \in Jobs : using[f] = c => f = g
      /\ \A k \in Hosts : \A i \in DOMAIN idle[k] : idle[k][i] /= c
      /\ quitting /= None => quitting /= c
      /\ mu[c] = None
  BY <1>1, OwnClient, Zenon
<1>3. /\ idle' = [idle EXCEPT ![h] = Append(idle[h], c)]
      /\ using' = [using EXCEPT ![g] = None] /\ Judge(g)
  <2>1. g /= None
    BY Constants, Zenon
  <2>2. mu' /= [mu EXCEPT ![c] = g]
    BY <1>t, <1>2, <2>1, Zenon
  <2>3. QED
    BY <2>2, Zenon DEF ReleaseClient
<1>4. UseInv' /\ MutexInv'
  BY <1>1, <1>2, <1>3, ClientGivenUp, Zenon
<1> HIDE DEF c, h
<1>5. /\ \A k \in Hosts : k /= h => idle'[k] = idle[k]
      /\ DOMAIN idle'[h] = DOMAIN idle[h] \cup {Len(idle[h]) + 1}
      /\ Len(idle[h]) + 1 \notin DOMAIN idle[h]
      /\ idle'[h][Len(idle[h]) + 1] = c
      /\ \A i \in DOMAIN idle[h] : idle'[h][i] = idle[h][i]
  BY <1>t, <1>2, <1>3, AppendElements
<1>6. \A f \in Jobs : using'[f] /= c /\ (using'[f] = using[f] \/ using'[f] = None)
  BY <1>t, <1>2, <1>3, Zenon
<1>7. ASSUME NEW k \in Hosts, NEW i \in DOMAIN idle'[k]
      PROVE  /\ host'[idle'[k][i]] = k
             /\ \A f \in Jobs : using'[f] /= idle'[k][i]
             /\ \A j \in DOMAIN idle'[k] : idle'[k][i] = idle'[k][j] => i = j
  <2>1. CASE k /= h
    <3>1. idle'[k][i] \in Clients /\ idle'[k] = idle[k]
      BY <1>t, <1>5, <2>1
    <3>2. i \in DOMAIN idle[k] /\ idle'[k][i] = idle[k][i] /\ idle[k][i] /= None
      BY <3>1, Constants, Zenon
    <3>3. host'[idle'[k][i]] = k /\ \A f \in Jobs : using'[f] /= idle'[k][i]
      BY <1>1, <1>6, <3>2 DEF OutboundInv, IdleInv
    <3>4. \A j \in DOMAIN idle[k] : idle[k][i] = idle[k][j] => i = j
      BY <3>2, Zenon DEF OutboundInv, IdleInv
    <3>5. QED
      BY <3>1, <3>3, <3>4, Zenon
  <2>2. CASE k = h /\ i \in DOMAIN idle[h]
    <3>1. idle[h][i] \in Clients /\ idle'[k][i] = idle[h][i]
      BY <1>t, <1>2, <1>5, <2>2
    <3>2. host'[idle'[k][i]] = k /\ \A f \in Jobs : using'[f] /= idle'[k][i]
      <4>1. host[idle[h][i]] = h /\ \A f \in Jobs : using[f] /= idle[h][i]
        BY <1>2, <2>2, Zenon DEF OutboundInv, IdleInv
      <4>2. idle[h][i] /= None
        BY <3>1, Constants, Zenon
      <4>3. host' = host
        BY <1>1, Zenon
      <4>4. QED
        BY <1>6, <2>2, <3>1, <4>1, <4>2, <4>3, Zenon
    <3>3. \A j \in DOMAIN idle[h] : idle[h][i] = idle'[h][j] => i = j
      BY <1>2, <1>5, <2>2 DEF OutboundInv, IdleInv
    <3>4. idle[h][i] /= idle'[h][Len(idle[h]) + 1]
      BY <1>2, <1>5, <2>2
    <3>5. QED
      BY <1>5, <2>2, <3>1, <3>2, <3>3, <3>4, Zenon
  <2>3. CASE k = h /\ i = Len(idle[h]) + 1
    BY <1>1, <1>2, <1>5, <1>6, <2>3 DEF h
  <2>4. QED
    BY <1>5, <2>1, <2>2, <2>3, Zenon
<1>8. QuitInv'
  <2>1. SUFFICES ASSUME quitting /= None
                 PROVE  /\ \A f \in Jobs : using'[f] /= quitting
                        /\ \A i \in DOMAIN idle'[drain] : idle'[drain][i] /= quitting
    BY <1>1, Zenon DEF OutboundInv, QuitInv
  <2>2. \A f \in Jobs : using'[f] /= quitting
    BY <1>6, <2>1, Zenon DEF OutboundInv, QuitInv
  <2>3. drain \in Hosts
    BY <2>1, Zenon DEF OutboundInv, QuitInv, OutboundTypeOK, PoolTypeOK
  <2>4. \A i \in DOMAIN idle'[drain] : idle'[drain][i] /= quitting
    BY <1>2, <1>5, <2>1, <2>3, Zenon DEF OutboundInv, QuitInv
  <2>5. QED
    BY <2>2, <2>4, Zenon
<1>9. ASSUME NEW d \in Clients, host'[d] /= None
      PROVE  \/ \E f \in Jobs : using'[f] = d
             \/ \E k \in Hosts : \E i \in DOMAIN idle'[k] : idle'[k][i] = d
             \/ quitting' = d
  <2>1. CASE d = c
    BY <1>2, <1>5, <2>1, Zenon
  <2>2. ASSUME d /= c, NEW f \in Jobs, using[f] = d PROVE using'[f] = d
    BY <1>t, <1>3, <2>2, Zenon DEF c
  <2>3. ASSUME NEW k \in Hosts, NEW i \in DOMAIN idle[k], idle[k][i] = d
        PROVE  i \in DOMAIN idle'[k] /\ idle'[k][i] = d
    BY <1>5, <2>3, Zenon
  <2>4. QED
    BY <1>1, <1>9, <2>1, <2>2, <2>3, Zenon DEF OutboundInv, OwnerInv
<1>10. QED
  BY <1>4, <1>7, <1>8, <1>9, Zenon DEF IdleInv, OwnerInv

(* Close is over: the client is closed. *)
LEMMA ClientClosed ==
    ASSUME OutboundInv, NEW g \in Jobs, QuitReturn(g)
    PROVE  UseInv' /\ IdleInv' /\ QuitInv' /\ MutexInv' /\ OwnerInv'
<1> DEFINE c == using[g]
<1>t. /\ using \in [Jobs -> Clients \cup {None}] /\ mu \in [Clients -> Jobs \cup {None}]
      /\ host \in [Clients -> Hosts \cup {None}] /\ idle \in [Hosts -> Seq(Clients)]
  BY Zenon DEF OutboundInv, OutboundTypeOK, JobTypeOK, PoolTypeOK
<1>1. /\ pc[g] \in {"put", "quit"} /\ Judge(g) /\ UNCHANGED <<idle, drain, quitting>>
      /\ host' = [host EXCEPT ![c] = None] /\ mu' = [mu EXCEPT ![c] = None]
      /\ using' = [using EXCEPT ![g] = None]
  BY Zenon DEF QuitReturn
<1>2. /\ c \in Clients /\ c /= None
      /\ \A k \in Hosts : \A i \in DOMAIN idle[k] : idle[k][i] /= c
      /\ quitting /= None => quitting /= c
  BY <1>1, OwnClient, Zenon
<1>3. UseInv' /\ MutexInv'
  <2>1. \A d \in Clients : mu'[d] = IF d = c THEN None ELSE mu[d]
    BY <1>t, <1>1, Zenon
  <2>2. QED
    BY <1>1, <2>1, ClientGivenUp, Zenon
<1>4. IdleInv'
  <2>1. ASSUME NEW k \in Hosts, NEW i \in DOMAIN idle[k]
        PROVE  host'[idle[k][i]] = k /\ \A f \in Jobs : using'[f] /= idle[k][i]
    <3>1. idle[k][i] \in Clients /\ idle[k][i] /= c
      BY <1>t, <1>2
    <3>2. QED
      BY <1>t, <1>1, <3>1, Constants DEF OutboundInv, IdleInv
  <2>2. QED
    BY <1>1, <2>1 DEF OutboundInv, IdleInv
<1> HIDE DEF c
<1>5. QuitInv'
  <2>1. quitting \in Clients \cup {None}
    BY Zenon DEF OutboundInv, OutboundTypeOK, PoolTypeOK
  <2>2. QED
    BY <1>t, <1>1, <1>2, <2>1, Zenon DEF OutboundInv, QuitInv
<1>6. OwnerInv'
  <2>1. ASSUME NEW d \in Clients, host'[d] /= None PROVE d /= c /\ host[d] /= None
    BY <1>t, <1>1, <1>2, <2>1, Zenon
  <2>2. ASSUME NEW d \in Clients, d /= c, NEW f \in Jobs, using[f] = d PROVE using'[f] = d
    BY <1>t, <1>1, <2>2, Zenon DEF c
  <2>3. QED
    BY <1>1, <2>1, <2>2 DEF OutboundInv, OwnerInv
<1>7. QED
  BY <1>3, <1>4, <1>5, <1>6, Zenon

(* CloseAll takes a client from the channel it has closed. *)
LEMMA ClientDrained ==
    ASSUME OutboundInv, DrainClient
    PROVE  UseInv' /\ IdleInv' /\ QuitInv' /\ MutexInv' /\ OwnerInv'
<1> DEFINE c == Head(idle[drain])
<1>1. /\ drain \in Hosts /\ drain /= None /\ idle[drain] /= <<>> /\ quitting = None
      /\ quitting' = c /\ idle' = [idle EXCEPT ![drain] = Tail(idle[drain])]
      /\ UNCHANGED <<pc, mx, using, host, mu, drain>>
  BY Zenon DEF DrainClient, Locked, OutboundInv, OutboundTypeOK, PoolTypeOK
<1>2. Nobodys(c) /\ host[c] = drain /\ Left(c) /\ Only(c) /\ Once
  BY <1>1, HeadTaken, Zenon
<1> HIDE DEF c
<1>3. UseInv' /\ MutexInv'
  BY <1>1, Zenon DEF OutboundInv, UseInv, MutexInv
<1>4. IdleInv' /\ OwnerInv'
  BY <1>1, <1>2, HeadGiven, Zenon
<1>5. QuitInv'
  <2>1. \A i \in DOMAIN idle'[drain] : idle'[drain][i] /= c
    BY <1>1, <1>2, Zenon DEF Only
  <2>2. host[c] = drain /\ \A f \in Jobs : using[f] /= c
    BY <1>2, Zenon DEF Nobodys
  <2>3. QED
    BY <1>1, <2>1, <2>2, Zenon DEF QuitInv
<1>6. QED
  BY <1>3, <1>4, <1>5, Zenon

(* CloseAll has closed the client. *)
LEMMA ClientQuit ==
    ASSUME OutboundInv, DrainQuit
    PROVE  UseInv' /\ IdleInv' /\ QuitInv' /\ MutexInv' /\ OwnerInv'
<1>t. /\ host \in [Clients -> Hosts \cup {None}] /\ using \in [Jobs -> Clients \cup {None}]
      /\ idle \in [Hosts -> Seq(Clients)] /\ quitting \in Clients
  BY Zenon DEF DrainQuit, OutboundInv, OutboundTypeOK, JobTypeOK, PoolTypeOK
<1>1. /\ quitting /= None /\ host' = [host EXCEPT ![quitting] = None] /\ quitting' = None
      /\ UNCHANGED <<pc, mx, using, mu, idle>>
  BY Zenon DEF DrainQuit
<1>2. /\ host[quitting] = drain /\ \A g \in Jobs : using[g] /= quitting
      /\ \A i \in DOMAIN idle[drain] : idle[drain][i] /= quitting
  BY <1>1, Zenon DEF OutboundInv, QuitInv
<1>3. \A d \in Clients : d /= quitting => host'[d] = host[d]
  BY <1>t, <1>1, Zenon
<1>4. UseInv' /\ MutexInv'
  <2>1. UseInv'
    BY <1>t, <1>1, <1>2, <1>3 DEF OutboundInv, UseInv
  <2>2. MutexInv'
    BY <1>1, Zenon DEF OutboundInv, MutexInv
  <2>3. QED
    BY <2>1, <2>2, Zenon
<1>5. IdleInv'
  <2>1. ASSUME NEW k \in Hosts, NEW i \in DOMAIN idle[k] PROVE host'[idle[k][i]] = k
    <3>1. idle[k][i] \in Clients
      BY <1>t
    <3>2. host[idle[k][i]] = k
      BY Zenon DEF OutboundInv, IdleInv
    <3>3. idle[k][i] /= quitting
      BY <1>2, <3>2, Zenon
    <3>4. QED
      BY <1>3, <3>1, <3>2, <3>3, Zenon
  <2>2. QED
    BY <1>1, <2>1 DEF OutboundInv, IdleInv
<1>6. OwnerInv'
  <2>1. host'[quitting] = None
    BY <1>t, <1>1, Zenon
  <2>2. QED
    BY <1>1, <1>3, <2>1 DEF OutboundInv, OwnerInv
<1>7. QED
  BY <1>1, <1>4, <1>5, <1>6, Zenon DEF QuitInv

(* Every step keeps what holds of the clients. *)
LEMMA ClientStep ==
    ASSUME OutboundInv, [Next]_vars
    PROVE  UseInv' /\ IdleInv' /\ QuitInv' /\ MutexInv' /\ OwnerInv'
<1> DEFINE Clean == UseInv' /\ IdleInv' /\ QuitInv' /\ MutexInv' /\ OwnerInv'
<1>t. /\ pc \in [Jobs -> Places] /\ mx \in [Jobs -> Seq(Hosts)]
      /\ using \in [Jobs -> Clients \cup {None}]
      /\ \A f \in Jobs : using[f] /= None <=> pc[f] \in Holding
  BY Zenon DEF OutboundInv, OutboundTypeOK, JobTypeOK, JobInv
<1>1. ASSUME NEW g \in Jobs, Goroutine(g) PROVE Clean
  <2>c. UNCHANGED closeVars
    BY <1>1, Zenon DEF Goroutine, Job, LookupMX, getOrCreateHostPool, GetClient, newSMTPClient,
           Send, SendReturn, ReleaseClient, ReleasePanic, QuitReturn
  <2>1. ASSUME UNCHANGED <<using, host, idle, mu>>,
               pc[g] \in {"sending", "close", "quit"} => pc'[g] = pc[g],
               using[g] /= None => mx'[g] = mx[g]
        PROVE  Clean
    BY <1>1, <2>c, <2>1, OtherJobs, NoClientMoves, Zenon
  <2>2. CASE LookupMX(g)
    <3>1. pc[g] = "lookup" /\ UNCHANGED <<using, host, idle, mu>>
      BY <2>2, Zenon DEF LookupMX, poolVars
    <3>2. QED
      BY <1>t, <2>1, <3>1, Zenon DEF Holding
  <2>3. CASE getOrCreateHostPool(g)
    <3>1. pc[g] \in {"get", "release"} /\ UNCHANGED <<mx, using, host, idle, mu>>
      BY <2>3, Zenon DEF getOrCreateHostPool, poolVars
    <3>2. QED
      BY <2>1, <3>1, Zenon
  <2>4. CASE GetClient(g)
    <3>1. CASE using' = using
      <4>1. pc[g] = "select" /\ using[g] = None
        BY <1>t, <2>4, Zenon DEF GetClient, Holding
      <4>2. chan[g] /= "drained" /\ idle[Head(mx[g])] /= <<>> => FALSE
        <5>1. SUFFICES ASSUME chan[g] /= "drained", idle[Head(mx[g])] /= <<>> PROVE FALSE
          BY Zenon
        <5>2. mx[g] /= <<>> /\ idle \in [Hosts -> Seq(Clients)]
          BY <4>1, Zenon DEF OutboundInv, JobInv, OutboundTypeOK, PoolTypeOK
        <5>3. Head(idle[Head(mx[g])]) \in Clients
          BY <5>1, <5>2, AtHand, TailElements, Zenon
        <5>4. using'[g] = Head(idle[Head(mx[g])])
          BY <1>t, <2>4, <5>1, Zenon DEF GetClient
        <5>5. QED
          BY <3>1, <4>1, <5>3, <5>4, Constants, Zenon
      <4>3. UNCHANGED <<using, host, idle, mu>>
        BY <2>4, <4>2, Zenon DEF GetClient
      <4>4. QED
        BY <2>1, <4>1, <4>3, Zenon
    <3>2. QED
      BY <2>4, <3>1, ClientTaken, Zenon
  <2>5. CASE newSMTPClient(g)
    <3>1. CASE using' = using
      <4>1. pc[g] = "dial" /\ using[g] = None
        BY <1>t, <2>5, Zenon DEF newSMTPClient, Holding
      <4>2. (CHOOSE x \in Clients : host[x] = None) \in Clients
        BY <4>1, FreshClient, Zenon
      <4>3. using' /= [using EXCEPT ![g] = CHOOSE x \in Clients : host[x] = None]
        BY <1>t, <3>1, <4>1, <4>2, Constants, Zenon
      <4>4. UNCHANGED <<using, host, idle, mu>>
        BY <2>5, <4>3, Zenon DEF newSMTPClient
      <4>5. QED
        BY <2>1, <4>1, <4>4, Zenon
    <3>2. QED
      BY <2>5, <3>1, ClientMade, Zenon
  <2>6. CASE ReleasePanic(g)
    <3>1. UNCHANGED <<pc, mx, using, host, idle, mu>>
      BY <2>6, Zenon DEF ReleasePanic, jobVars, poolVars
    <3>2. QED
      BY <2>1, <3>1, Zenon
  <2>7. CASE Send(g)
    <3>1. pc[g] = "send" /\ host[using[g]] /= None
      <4>1. pc[g] = "send"
        BY <2>7, Zenon DEF Send
      <4>2. mx[g] /= <<>> /\ host[using[g]] = Head(mx[g])
        BY <4>1, AtHand, Zenon DEF Holding
      <4>3. QED
        BY <4>1, <4>2, AtHand, Constants
    <3>2. /\ UNCHANGED <<mx, using, host, idle, drain, quitting>>
          /\ mu' = [mu EXCEPT ![using[g]] = g]
          /\ \E p \in {"sending", "close", "quit"} : pc' = [pc EXCEPT ![g] = p]
      BY <2>7, <3>1, Zenon DEF Send
    <3>3. QED
      BY <3>1, <3>2, ClientLocked, Zenon
  <2>8. CASE SendReturn(g)
    <3>1. /\ pc[g] = "sending" /\ UNCHANGED <<mx, using, host, idle, drain, quitting>>
          /\ mu' = [mu EXCEPT ![using[g]] = None] /\ pc' = [pc EXCEPT ![g] = "release"]
      BY <2>8, Zenon DEF SendReturn
    <3>2. QED
      BY <3>1, ClientLocked, Zenon
  <2>9. CASE ReleaseClient(g)
    <3>1. CASE mu' = mu
      BY <2>9, <3>1, ClientPut, Zenon
    <3>2. CASE mu' /= mu
      <4>1. /\ pc[g] = "put" /\ UNCHANGED <<mx, using, host, idle, drain, quitting>>
            /\ mu' = [mu EXCEPT ![using[g]] = g] /\ pc' = [pc EXCEPT ![g] = "quit"]
        BY <2>9, <3>2, Zenon DEF ReleaseClient
      <4>2. QED
        BY <4>1, ClientLocked, Zenon
    <3>3. QED
      BY <3>1, <3>2, Zenon
  <2>10. QED
    BY <1>1, <2>2, <2>3, <2>4, <2>5, <2>6, <2>7, <2>8, <2>9, ClientClosed, Zenon DEF Goroutine, Job
<1>2. ASSUME NEW m \in Messages, Deliver(m) PROVE Clean
  <2>1. /\ deliver[m] = "idle" /\ UNCHANGED <<mx, using, host, idle, mu, drain, quitting>>
        /\ \A g \in Jobs : pc'[g] = pc[g] \/ (g[1] = m /\ pc'[g] = "lookup")
    BY <1>t, <1>2, Zenon DEF Deliver, poolVars
  <2>2. \A g \in Jobs : g[1] = m => pc[g] = "none"
    BY <2>1 DEF OutboundInv, JobInv
  <2>3. QED
    BY <2>1, <2>2, NoClientMoves, Zenon
<1>3. ASSUME UNCHANGED <<pc, mx, using, host, idle, mu, quitting>>, quitting = None \/ drain' = drain
      PROVE  Clean
  BY <1>3, NoClientMoves, Zenon
<1>4. ASSUME NEW m \in Messages, DeliverReturn(m) PROVE Clean
  BY <1>3, <1>4, Zenon DEF DeliverReturn
<1>5. CASE CloseAll \/ DrainNext
  <2>1. quitting = None
    BY <1>5, Zenon DEF CloseAll, DrainNext, Locked, OutboundInv, QuitInv
  <2>2. UNCHANGED <<pc, mx, using, host, idle, mu, quitting>>
    BY <1>5, Zenon DEF CloseAll, DrainNext, CloseChannel
  <2>3. QED
    BY <1>3, <2>1, <2>2, Zenon
<1>6. CASE UNCHANGED vars
  BY <1>3, <1>6, Zenon DEF vars
<1>7. QED
  BY <1>1, <1>2, <1>4, <1>5, <1>6, ClientDrained, ClientQuit, Zenon DEF Next, Drain

(* Every step keeps what holds of the goroutines. *)
LEMMA JobStep ==
    ASSUME OutboundInv, OutboundTypeOK', [Next]_vars
    PROVE  /\ \A g \in Jobs : JobInv(g)'
           /\ VerdictsAreEarned' /\ FailuresAreRemote'
<1>t. /\ pc \in [Jobs -> Places] /\ deliver \in [Messages -> {"idle", "waiting", "returned"}]
      /\ \A g \in Jobs : g[1] \in Messages
  BY AtHand, Zenon DEF OutboundInv, OutboundTypeOK, JobTypeOK
<1>i. \A g \in Jobs : JobInv(g) /\ VerdictInv(g)
  BY Zenon DEF OutboundInv, VerdictsAreEarned, FailuresAreRemote, VerdictInv
<1>1. ASSUME NEW g \in Jobs, UNCHANGED <<mx, using, answer, status, accepted, fault>>,
             pc'[g] = pc[g] \/ {pc[g], pc'[g]} \subseteq {"none", "lookup"},
             pc'[g] = "none" <=> deliver'[g[1]] = "idle"
      PROVE  JobInv(g)' /\ VerdictInv(g)'
  <2>1. JobInv(g)'
    <3>1. CASE pc'[g] = pc[g]
      BY <1>1, <1>i, <3>1 DEF JobInv, Holding
    <3>2. CASE pc[g] \in {"none", "lookup"} /\ pc'[g] \in {"none", "lookup"}
      BY <1>1, <1>i, <3>2 DEF JobInv, Holding
    <3>3. QED
      BY <1>1, <3>1, <3>2, Zenon
  <2>2. VerdictInv(g)'
    BY <1>1, <1>i, Zenon DEF VerdictInv
  <2>3. QED
    BY <2>1, <2>2, Zenon
<1>2. ASSUME NEW f \in Jobs PROVE JobInv(f)' /\ VerdictInv(f)'
  <2>1. ASSUME NEW g \in Jobs, Goroutine(g) PROVE JobInv(f)' /\ VerdictInv(f)'
    <3>1. CASE f = g
      BY <2>1, <3>1, OwnJob, Zenon
    <3>2. CASE f /= g
      <4>1. /\ pc'[f] = pc[f] /\ mx'[f] = mx[f] /\ using'[f] = using[f]
            /\ answer'[f] = answer[f] /\ status'[f] = status[f]
            /\ accepted'[f] = accepted[f] /\ fault'[f] = fault[f] /\ deliver' = deliver
        BY <2>1, <3>2, OtherJobs, Zenon
      <4>2. JobInv(f)'
        <5>1. JobInv(f)
          BY <1>i, Zenon
        <5>2. /\ pc'[f] = "none" <=> deliver'[f[1]] = "idle"
              /\ using'[f] /= None <=> pc'[f] \in Holding
              /\ pc'[f] \in Holding \cup {"get", "select", "dial"} => mx'[f] /= <<>>
          BY <4>1, <5>1, Zenon DEF JobInv
        <5>3. \A i \in DOMAIN mx'[f] : \E j \in DOMAIN MX[f[2]] : MX[f[2]][j] = mx'[f][i]
          <6>1. \A i \in DOMAIN mx[f] : \E j \in DOMAIN MX[f[2]] : MX[f[2]][j] = mx[f][i]
            BY <5>1, Zenon DEF JobInv
          <6>2. mx'[f] = mx[f]
            BY <4>1, Zenon
          <6>3. QED
            BY <6>1, <6>2, Zenon
        <5>4. /\ status'[f] /= "none" => pc'[f] = "done"
              /\ accepted'[f] <= 1
              /\ pc'[f] \notin {"release", "put", "quit", "done"} => accepted'[f] = 0
          BY <4>1, <5>1, Zenon DEF JobInv
        <5>5. pc'[f] \in {"release", "put", "quit"} =>
                 /\ answer'[f] = "nil" => accepted'[f] = 1
                 /\ answer'[f] = "permanent" => accepted'[f] = 0
                 /\ answer'[f] /= "nil" => fault'[f]
          BY <4>1, <5>1, Zenon DEF JobInv
        <5>6. QED
          BY <5>2, <5>3, <5>4, <5>5, Zenon DEF JobInv
      <4>3. VerdictInv(f)'
        BY <1>i, <4>1, Zenon DEF VerdictInv
      <4>4. QED
        BY <4>2, <4>3, Zenon
    <3>3. QED
      BY <3>1, <3>2, Zenon
  <2>2. ASSUME NEW m \in Messages, Deliver(m) PROVE JobInv(f)' /\ VerdictInv(f)'
    <3>1. /\ UNCHANGED <<mx, using, answer, status, accepted, fault>>
          /\ deliver[m] = "idle" /\ deliver' = [deliver EXCEPT ![m] = "waiting"]
          /\ pc' = [g \in Jobs |-> IF g[1] = m THEN "lookup" ELSE pc[g]]
      BY <2>2, Zenon DEF Deliver, historyVars
    <3>2. pc[f] = "none" <=> deliver[f[1]] = "idle"
      BY <1>i, Zenon DEF JobInv
    <3>3. QED
      BY <1>t, <1>1, <3>1, <3>2, Zenon
  <2>3. ASSUME NEW m \in Messages, DeliverReturn(m) PROVE JobInv(f)' /\ VerdictInv(f)'
    <3>1. /\ UNCHANGED <<pc, mx, using, answer, status, accepted, fault>>
          /\ deliver[m] = "waiting" /\ deliver' = [deliver EXCEPT ![m] = "returned"]
      BY <2>3, Zenon DEF DeliverReturn, jobVars, historyVars
    <3>2. pc[f] = "none" <=> deliver[f[1]] = "idle"
      BY <1>i, Zenon DEF JobInv
    <3>3. QED
      BY <1>t, <1>1, <3>1, <3>2, Zenon
  <2>4. CASE CloseAll \/ Drain \/ DrainQuit \/ UNCHANGED vars
    <3>1. UNCHANGED <<pc, deliver, mx, using, answer, status, accepted, fault>>
      BY <2>4, Zenon DEF CloseAll, Drain, DrainNext, CloseChannel, DrainClient, DrainQuit, vars
    <3>2. pc[f] = "none" <=> deliver[f[1]] = "idle"
      BY <1>i, Zenon DEF JobInv
    <3>3. QED
      BY <1>1, <3>1, <3>2, Zenon
  <2>5. QED
    BY <2>1, <2>2, <2>3, <2>4, Zenon DEF Next
<1>3. QED
  BY <1>2, Zenon DEF VerdictInv, VerdictsAreEarned, FailuresAreRemote

----------------------------------------------------------------------------
(* The inductive invariant of the deliverer and its pool holds for all       *)
(* messages, domains, hosts, pool sizes and MX orders.                       *)
THEOREM OutboundInvariant == Spec => []OutboundInv
<1>1. Init => OutboundInv
  <2> SUFFICES ASSUME Init PROVE OutboundInv
    BY Zenon
  <2>1. JobTypeOK
    BY DEF Init, JobTypeOK, Places, Statuses
  <2>2. PoolTypeOK
    <3>1. <<>> \in Seq(Clients) /\ Len(<<>>) = 0
      OBVIOUS
    <3>2. QED
      BY <3>1, Constants DEF Init, PoolTypeOK
  <2>3. OutboundTypeOK
    BY <2>1, <2>2, Zenon DEF Init, OutboundTypeOK
  <2>4. \A g \in Jobs : g[1] \in Messages
    BY Zenon DEF Jobs
  <2>5. \A g \in Jobs : JobInv(g)
    BY <2>4 DEF Init, JobInv, Holding
  <2>6. UseInv /\ IdleInv /\ QuitInv /\ MutexInv /\ OwnerInv
    BY DEF Init, UseInv, IdleInv, QuitInv, MutexInv, OwnerInv
  <2>7. VerdictsAreEarned /\ FailuresAreRemote
    BY Zenon DEF Init, VerdictsAreEarned, FailuresAreRemote
  <2>8. QED
    BY <2>3, <2>5, <2>6, <2>7, Zenon DEF OutboundInv
<1>2. OutboundInv /\ [Next]_vars => OutboundInv'
  <2> SUFFICES ASSUME OutboundInv, [Next]_vars PROVE OutboundInv'
    BY Zenon
  <2>1. OutboundTypeOK'
    BY OutboundTypeStep, Zenon
  <2>2. QED
    BY <2>1, JobStep, ClientStep, Zenon DEF OutboundInv
<1>3. QED
  BY <1>1, <1>2, PTL DEF Spec

(* Every variable of the deliverer keeps its type. *)
THEOREM OutboundTypes == Spec => []OutboundTypeOK
<1>1. OutboundInv => OutboundTypeOK
  BY Zenon DEF OutboundInv
<1>2. QED
  BY <1>1, OutboundInvariant, PTL

(* A client is in one hand only: GetClient gives it to one goroutine,        *)
(* ReleaseClient puts it into its own host's channel and there once, and     *)
(* CloseAll closes only those that it found in a channel.                    *)
THEOREM OutboundClientsExclusive == Spec => []ClientsExclusive
<1>1. OutboundInv => ClientsExclusive
  <2> SUFFICES ASSUME OutboundInv PROVE ClientsExclusive
    BY Zenon
  <2>1. \A g \in Jobs : using[g] /= None =>
          /\ host[using[g]] = Head(mx[g])
          /\ \A f \in Jobs \ {g} : using[f] /= using[g]
          /\ \A h \in Hosts : IdleAt(using[g], h) = {}
    BY DEF OutboundInv, UseInv, IdleInv, IdleAt
  <2>2. ASSUME NEW c \in Clients, NEW h \in Hosts
        PROVE  /\ IdleAt(c, h) /= {} => host[c] = h
               /\ Cardinality(IdleAt(c, h)) <= 1
    <3>1. \A i, j \in IdleAt(c, h) : host[c] = h /\ i = j
      BY DEF OutboundInv, IdleInv, IdleAt
    <3>2. IdleAt(c, h) = {} \/ \E i : IdleAt(c, h) = {i}
      BY <3>1
    <3>3. Cardinality(IdleAt(c, h)) = 0 \/ Cardinality(IdleAt(c, h)) = 1
      BY <3>2, FS_EmptySet, FS_Singleton, Zenon
    <3>4. Cardinality(IdleAt(c, h)) <= 1
      BY <3>3
    <3>5. QED
      BY <3>1, <3>4, Zenon
  <2>3. \A c \in Clients : mu[c] /= None => using[mu[c]] = c
    BY Zenon DEF OutboundInv, MutexInv
  <2>4. quitting /= None => /\ host[quitting] = drain /\ IdleAt(quitting, drain) = {}
                            /\ \A g \in Jobs : using[g] /= quitting
    BY Zenon DEF OutboundInv, QuitInv, IdleAt
  <2>5. QED
    BY <2>1, <2>2, <2>3, <2>4, Zenon DEF ClientsExclusive
<1>2. QED
  BY <1>1, OutboundInvariant, PTL

(* An open connection is in use, in a channel or being closed: newSMTPClient, *)
(* ReleaseClient and CloseAll leave none behind.                             *)
THEOREM OutboundNoneLeaked == Spec => []NoneLeaked
<1>1. OutboundInv => NoneLeaked
  BY Zenon DEF OutboundInv, OwnerInv, NoneLeaked, IdleAt
<1>2. QED
  BY <1>1, OutboundInvariant, PTL

(* deliverToDomain gives a message to a domain at most once. *)
THEOREM OutboundAcceptedOnce == Spec => []AcceptedOnce
<1>1. OutboundInv => AcceptedOnce
  BY Zenon DEF OutboundInv, JobInv, AcceptedOnce
<1>2. QED
  BY <1>1, OutboundInvariant, PTL

(* The status deliverToDomain records agrees with what the hosts did. *)
THEOREM OutboundVerdictsAreEarned == Spec => []VerdictsAreEarned
<1>1. OutboundInv => VerdictsAreEarned
  BY Zenon DEF OutboundInv
<1>2. QED
  BY <1>1, OutboundInvariant, PTL

(* Sharing the pool never makes deliverToDomain give a domain up. *)
THEOREM OutboundFailuresAreRemote == Spec => []FailuresAreRemote
<1>1. OutboundInv => FailuresAreRemote
  BY Zenon DEF OutboundInv
<1>2. QED
  BY <1>1, OutboundInvariant, PTL

----------------------------------------------------------------------------
(* Deliver comes to an end                                                   *)

(* How a goroutine moves on: it panics; it ends with a status; it has looked *)
(* its hosts up; it turns to the next host; or it is one step nearer to the  *)
(* end of its iteration.                                                     *)
LEMMA JobMoves ==
    ASSUME OutboundInv, NEW g \in Jobs, Goroutine(g)
    PROVE  \/ pc'[g] = pc[g] /\ mx'[g] = mx[g] /\ status'[g] = status[g]
           \/ /\ pc[g] \in {"lookup", "dial", "put", "quit"}
              /\ pc'[g] = "done" /\ mx'[g] = <<>> /\ status'[g] /= "none"
           \/ pc[g] = "lookup" /\ pc'[g] = "get"
           \/ /\ pc[g] \in {"dial", "put", "quit"} /\ mx[g] /= <<>>
              /\ pc'[g] = "get" /\ mx'[g] = Tail(mx[g])
           \/ /\ StepsLeft(pc'[g]) < StepsLeft(pc[g])
              /\ pc'[g] \notin {"done", "none", "lookup"} /\ mx'[g] = mx[g]
<1>t. /\ pc \in [Jobs -> Places] /\ mx \in [Jobs -> Seq(Hosts)]
      /\ status \in [Jobs -> Statuses]
  BY Zenon DEF OutboundInv, OutboundTypeOK, JobTypeOK
<1>i. pc[g] \in {"dial", "put", "quit"} => mx[g] /= <<>>
  BY Zenon DEF OutboundInv, JobInv, Holding
<1>n. NextHost(g) => \/ pc'[g] = "done" /\ mx'[g] = <<>> /\ status'[g] /= "none"
                     \/ pc'[g] = "get" /\ mx'[g] = Tail(mx[g])
  BY <1>t, Zenon DEF NextHost, Finish
<1>1. CASE LookupMX(g)
  BY <1>1, <1>t, Zenon DEF LookupMX, Finish
<1>2. CASE getOrCreateHostPool(g)
  BY <1>2, <1>t DEF getOrCreateHostPool, StepsLeft
<1>3. CASE GetClient(g)
  BY <1>3, <1>t DEF GetClient, StepsLeft
<1>4. CASE newSMTPClient(g)
  <2>1. CASE NextHost(g)
    BY <1>4, <1>i, <1>n, <2>1, Zenon DEF newSMTPClient
  <2>2. CASE pc' = [pc EXCEPT ![g] = "send"] /\ UNCHANGED mx
    BY <1>4, <1>t, <2>2 DEF newSMTPClient, StepsLeft
  <2>3. QED
    BY <1>4, <2>1, <2>2, Zenon DEF newSMTPClient
<1>5. CASE Send(g)
  <2>1. pc[g] = "send" /\ pc'[g] \in {"sending", "close", "release"} /\ mx' = mx
    BY <1>5, <1>t, Zenon DEF Send
  <2>2. QED
    BY <2>1 DEF StepsLeft
<1>6. CASE SendReturn(g)
  BY <1>6, <1>t DEF SendReturn, StepsLeft
<1>j. ASSUME pc[g] \in {"put", "quit"}, Judge(g)
      PROVE  \/ pc'[g] = "done" /\ mx'[g] = <<>> /\ status'[g] /= "none"
             \/ pc'[g] = "get" /\ mx'[g] = Tail(mx[g])
  BY <1>t, <1>n, <1>j, Zenon DEF Judge, Finish
<1>7. CASE ReleaseClient(g)
  <2>1. CASE Judge(g)
    BY <1>7, <1>i, <1>j, <2>1, Zenon DEF ReleaseClient
  <2>2. CASE pc' = [pc EXCEPT ![g] = "quit"] /\ UNCHANGED mx
    BY <1>7, <1>t, <2>2 DEF ReleaseClient, StepsLeft
  <2>3. QED
    BY <1>7, <2>1, <2>2, Zenon DEF ReleaseClient
<1>q. CASE QuitReturn(g)
  BY <1>q, <1>i, <1>j, Zenon DEF QuitReturn
<1>8. CASE ReleasePanic(g)
  BY <1>8, Zenon DEF ReleasePanic
<1>9. QED
  BY <1>1, <1>2, <1>3, <1>4, <1>5, <1>6, <1>7, <1>8, <1>q, Zenon DEF Goroutine, Job

(* A goroutine that is done stays done, and has recorded a status. *)
LEMMA WaitStep == OutboundInv /\ WaitInv /\ [Next]_vars => WaitInv'
<1> SUFFICES ASSUME OutboundInv, WaitInv, [Next]_vars, NEW f \in Jobs
             PROVE  /\ pc'[f] = "done" => status'[f] /= "none"
                    /\ deliver'[f[1]] = "returned" => pc'[f] = "done"
  BY Zenon DEF WaitInv
<1>t. /\ pc \in [Jobs -> Places] /\ deliver \in [Messages -> {"idle", "waiting", "returned"}]
      /\ f[1] \in Messages
  BY AtHand, Zenon DEF OutboundInv, OutboundTypeOK, JobTypeOK
<1>i. /\ pc[f] = "done" => status[f] /= "none"
      /\ deliver[f[1]] = "returned" => pc[f] = "done"
  BY Zenon DEF WaitInv
<1>1. ASSUME NEW g \in Jobs, Goroutine(g)
      PROVE  /\ pc'[f] = "done" => status'[f] /= "none"
             /\ deliver'[f[1]] = "returned" => pc'[f] = "done"
  <2>1. CASE f /= g
    <3>1. pc'[f] = pc[f] /\ status'[f] = status[f] /\ deliver' = deliver
      BY <1>1, <2>1, OtherJobs, Zenon
    <3>2. QED
      BY <1>i, <3>1, Zenon
  <2>2. CASE f = g
    <3>1. deliver' = deliver /\ pc[g] /= "done"
      BY <1>1, Zenon DEF Goroutine, Job, LookupMX, getOrCreateHostPool, GetClient, newSMTPClient,
             Send, SendReturn, ReleaseClient, ReleasePanic, QuitReturn
    <3>2. deliver'[f[1]] /= "returned"
      BY <1>i, <2>2, <3>1, Zenon
    <3>3. pc'[f] = "done" => status'[f] /= "none"
      BY <1>1, <1>i, <2>2, <3>1, JobMoves, Zenon
    <3>4. QED
      BY <3>2, <3>3, Zenon
  <2>3. QED
    BY <2>1, <2>2, Zenon
<1>2. ASSUME NEW m \in Messages, Deliver(m)
      PROVE  /\ pc'[f] = "done" => status'[f] /= "none"
             /\ deliver'[f[1]] = "returned" => pc'[f] = "done"
  BY <1>2, <1>t, <1>i, Zenon DEF Deliver
<1>3. ASSUME NEW m \in Messages, DeliverReturn(m)
      PROVE  /\ pc'[f] = "done" => status'[f] /= "none"
             /\ deliver'[f[1]] = "returned" => pc'[f] = "done"
  BY <1>3, <1>t, <1>i, Zenon DEF DeliverReturn
<1>4. CASE CloseAll \/ Drain \/ DrainQuit \/ UNCHANGED vars
  BY <1>4, <1>i, Zenon DEF CloseAll, Drain, DrainNext, CloseChannel, DrainClient, DrainQuit, vars
<1>5. QED
  BY <1>1, <1>2, <1>3, <1>4, Zenon DEF Next

(* When Deliver has returned, all its goroutines are done, have recorded a   *)
(* status and hold neither a client nor a mutex (deliverer.go:161-180).      *)
THEOREM OutboundReturnedIsSettled == Spec => []ReturnedIsSettled
<1>1. Init => WaitInv
  <2>1. \A g \in Jobs : g[1] \in Messages
    BY Zenon DEF Jobs
  <2>2. QED
    BY <2>1, Zenon DEF Init, WaitInv
<1>2. OutboundInv /\ WaitInv => ReturnedIsSettled
  <2> SUFFICES ASSUME OutboundInv, WaitInv, NEW g \in Jobs, deliver[g[1]] = "returned"
               PROVE  /\ pc[g] = "done" /\ status[g] /= "none"
                      /\ using[g] = None /\ \A c \in Clients : mu[c] /= g
    BY Zenon DEF ReturnedIsSettled
  <2>1. pc[g] = "done" /\ status[g] /= "none"
    BY Zenon DEF WaitInv
  <2>2. using[g] = None
    BY <2>1, Zenon DEF OutboundInv, JobInv, Holding
  <2>3. \A c \in Clients : mu[c] /= g
    BY <2>1, Constants DEF OutboundInv, MutexInv
  <2>4. QED
    BY <2>1, <2>2, <2>3, Zenon
<1>3. QED
  BY <1>1, <1>2, WaitStep, OutboundInvariant, PTL DEF Spec

(* No goroutine ever waits for the mutex of a client, for a client or for a  *)
(* place in the pool that another one has, and CloseAll does not wait for    *)
(* any of them either.                                                       *)
THEOREM OutboundNeverBlocked == Spec => []NeverBlocked
<1>1. OutboundInv => NeverBlocked
  <2> SUFFICES ASSUME OutboundInv PROVE NeverBlocked
    BY Zenon
  <2>t. mu \in [Clients -> Jobs \cup {None}] /\ idle \in [Hosts -> Seq(Clients)]
    BY Zenon DEF OutboundInv, OutboundTypeOK, PoolTypeOK
  <2>1. ASSUME NEW g \in Jobs, pc[g] \in {"send", "put"} PROVE mu[using[g]] = None
    <3>1. PICK c \in Clients : c = using[g] /\ c /= None
      BY <2>1, AtHand, Zenon DEF Holding
    <3>2. mu[c] /= None => /\ mu[c] \in Jobs /\ using[mu[c]] = c
                           /\ pc[mu[c]] \in {"sending", "close", "quit"}
      BY <2>t, Zenon DEF OutboundInv, MutexInv
    <3>3. \A f \in Jobs : using[f] = c => f = g
      BY <3>1, Zenon DEF OutboundInv, UseInv
    <3>4. QED
      BY <2>1, <3>1, <3>2, <3>3, Zenon
  <2>2. \A g \in Jobs : pc[g] = "dial" => \E c \in Clients : host[c] = None
    BY FreshClient, Zenon
  <2>3. ASSUME NEW h \in Hosts, NEW i \in DOMAIN idle[h] PROVE mu[idle[h][i]] = None
    <3>1. PICK c \in Clients : c = idle[h][i]
      BY <2>t
    <3>2. mu[c] /= None => mu[c] \in Jobs /\ using[mu[c]] = c
      BY <2>t, Zenon DEF OutboundInv, MutexInv
    <3>3. \A f \in Jobs : using[f] /= c
      BY <3>1 DEF OutboundInv, IdleInv
    <3>4. QED
      BY <3>1, <3>2, <3>3, Zenon
  <2>4. QED
    BY <2>1, <2>2, <2>3, Zenon DEF NeverBlocked
<1>2. QED
  BY <1>1, OutboundInvariant, PTL

(* Once it has its hosts, a goroutine is done after at most nine steps for  *)
(* each of them: every step of its own shrinks its work, and no step of      *)
(* another goroutine, of Deliver or of CloseAll adds to it.                  *)
THEOREM OutboundWorkShrinks == Spec => WorkShrinks
<1> DEFINE Shrinks(g) == pc[g] \notin {"none", "lookup"} =>
               IF pc'[g] = pc[g] THEN mx'[g] = mx[g] ELSE Work(g)' < Work(g)
<1>1. ASSUME OutboundInv, [Next]_vars, NEW f \in Jobs, pc[f] \notin {"none", "lookup"}
      PROVE  IF pc'[f] = pc[f] THEN mx'[f] = mx[f] ELSE Work(f)' < Work(f)
  <2>t. \A k, a, b \in Nat : a < b => k + a < k + b
    OBVIOUS
  <2>1. PICK n \in Nat : n = Len(mx[f]) /\ (mx[f] /= <<>> => Len(Tail(mx[f])) = n - 1)
    BY <1>1, AtHand, TailElements
  <2>2. \A p \in Places : StepsLeft(p) \in 0..8
    BY DEF StepsLeft
  <2>3. pc[f] \in Places /\ StepsLeft("done") = 0 /\ StepsLeft("get") = 8
    BY <1>1, Zenon DEF StepsLeft, OutboundInv, OutboundTypeOK, JobTypeOK
  <2>4. pc[f] \in {"dial", "put", "quit"} => StepsLeft(pc[f]) >= 1
    BY DEF StepsLeft
  <2>5. pc'[f] \in Places
    BY <1>1, OutboundTypeStep, Zenon DEF OutboundTypeOK, JobTypeOK
  <2>6. ASSUME NEW g \in Jobs, Goroutine(g), f = g
        PROVE  IF pc'[f] = pc[f] THEN mx'[f] = mx[f] ELSE Work(f)' < Work(f)
    <3>1. CASE pc'[f] = pc[f] /\ mx'[f] = mx[f]
      BY <3>1, Zenon
    <3>2. CASE pc[f] \in {"dial", "put", "quit"} /\ pc'[f] = "done" /\ mx'[f] = <<>>
      <4>1. Work(f)' = 0 /\ Work(f) = 9 * n + StepsLeft(pc[f])
        BY <2>1, <2>3, <3>2 DEF Work
      <4>2. StepsLeft(pc[f]) \in 1..8
        BY <2>2, <2>3, <2>4, <3>2
      <4>3. Work(f)' < Work(f)
        BY <4>1, <4>2
      <4>4. QED
        BY <3>2, <4>3, Zenon
    <3>3. CASE /\ pc[f] \in {"dial", "put", "quit"} /\ mx[f] /= <<>>
               /\ pc'[f] = "get" /\ mx'[f] = Tail(mx[f])
      <4>1. Work(f)' = 9 * (n - 1) + 8 /\ Work(f) = 9 * n + StepsLeft(pc[f])
        BY <2>1, <2>3, <3>3, Zenon DEF Work
      <4>2. QED
        BY <2>2, <2>3, <2>4, <3>3, <4>1
    <3>4. CASE StepsLeft(pc'[f]) < StepsLeft(pc[f]) /\ mx'[f] = mx[f]
      <4>1. Work(f)' = 9 * n + StepsLeft(pc'[f]) /\ Work(f) = 9 * n + StepsLeft(pc[f])
        BY <2>1, <3>4, Zenon DEF Work
      <4>2. StepsLeft(pc'[f]) \in Nat /\ StepsLeft(pc[f]) \in Nat
        BY <2>2, <2>3, <2>5
      <4>3. 9 * n \in Nat
        OBVIOUS
      <4>4. Work(f)' < Work(f)
        BY <2>t, <3>4, <4>1, <4>2, <4>3, Zenon
      <4>5. QED
        BY <3>4, <4>4, Zenon
    <3>5. QED
      BY <1>1, <2>6, <3>1, <3>2, <3>3, <3>4, JobMoves, Zenon
  <2>7. ASSUME NEW g \in Jobs, Goroutine(g), f /= g PROVE pc'[f] = pc[f] /\ mx'[f] = mx[f]
    BY <1>1, <2>7, OtherJobs, Zenon
  <2>8. ASSUME NEW m \in Messages, Deliver(m) PROVE pc'[f] = pc[f] /\ mx'[f] = mx[f]
    <3>1. deliver[f[1]] /= "idle"
      BY <1>1, Zenon DEF OutboundInv, JobInv
    <3>2. QED
      BY <2>8, <3>1, Zenon DEF Deliver
  <2>9. CASE CloseAll \/ Drain \/ DrainQuit \/ UNCHANGED vars \/ \E m \in Messages : DeliverReturn(m)
    BY <2>9, Zenon DEF CloseAll, Drain, DrainNext, CloseChannel, DrainClient, DrainQuit, vars,
       DeliverReturn
  <2>10. QED
    BY <1>1, <2>6, <2>7, <2>8, <2>9, Zenon DEF Next
<1>2. OutboundInv /\ [Next]_vars => [\A g \in Jobs : Shrinks(g)]_vars
  BY <1>1, Zenon
<1> HIDE DEF Shrinks
<1>3. Spec => [][\A g \in Jobs : Shrinks(g)]_vars
  BY <1>2, OutboundInvariant, PTL DEF Spec
<1>4. QED
  BY <1>3, Zenon DEF WorkShrinks, Shrinks
=============================================================================
