--------------------------- MODULE MailAuthProofs ---------------------------
(***************************************************************************)
(* SPF, the caching resolver, DMARC and its report store, for any number of *)
(* sessions and domains, any answers of the DNS and any cache.              *)
(***************************************************************************)
EXTENDS MailAuth, FiniteSetTheorems, WellFoundedInduction, TLAPS

----------------------------------------------------------------------------
(* The loop over the mechanisms of an SPF record                             *)

(* A set of natural numbers that is not empty has a least element.           *)
LEMMA NatMin ==
    ASSUME NEW S \in SUBSET Nat, S /= {}
    PROVE  \E x \in S : \A y \in S : x <= y
<1>1. PICK x \in S : \A y \in S : ~(<<y, x>> \in OpToRel(<, Nat))
  BY Zenon, NatLessThanWellFounded, WFMin
<1>2. \A y \in S : ~(y < x)
  BY <1>1, Zenon DEF OpToRel
<1>3. QED
  BY <1>2

(* The mechanisms from number i on that settle the matter for client s, and  *)
(* what the first of them says.                                              *)
Deciding(record, s, i) ==
    {j \in i..Len(record) : record[j].net = Nil \/ s \in record[j].net}

FirstOf(D) == CHOOSE i \in D : \A j \in D : i <= j

Says(record, i) == IF record[i].net = Nil THEN "PermError" ELSE record[i].qualifier

Evaluated(record, s, i) ==
    IF Deciding(record, s, i) = {} THEN "Neutral"
    ELSE Says(record, FirstOf(Deciding(record, s, i)))

LEMMA FirstIsFirst ==
    ASSUME NEW D \in SUBSET Nat, D /= {}
    PROVE  FirstOf(D) \in D /\ \A j \in D : FirstOf(D) <= j
<1>1. \E i \in D : \A j \in D : i <= j
  BY NatMin, Zenon
<1>2. QED
  BY <1>1, Zenon DEF FirstOf

(* What one turn of the loop does.                                           *)
LEMMA EvaluatedStep ==
    ASSUME NEW record, Len(record) \in Nat, NEW s, NEW i \in 1..(Len(record) + 1)
    PROVE  Evaluated(record, s, i) =
              IF i > Len(record) THEN "Neutral"
              ELSE IF record[i].net = Nil THEN "PermError"
              ELSE IF s \in record[i].net THEN record[i].qualifier
              ELSE Evaluated(record, s, i + 1)
<1>1. CASE i > Len(record)
  <2>1. Deciding(record, s, i) = {}
    BY <1>1 DEF Deciding
  <2>2. QED
    BY <1>1, <2>1 DEF Evaluated
<1>2. CASE i <= Len(record) /\ (record[i].net = Nil \/ s \in record[i].net)
  <2>1. i \in Deciding(record, s, i) /\ \A j \in Deciding(record, s, i) : i <= j
    BY <1>2 DEF Deciding
  <2>2. Deciding(record, s, i) \in SUBSET Nat
    BY DEF Deciding
  <2>3. /\ FirstOf(Deciding(record, s, i)) \in Deciding(record, s, i)
        /\ FirstOf(Deciding(record, s, i)) <= i
    BY <2>1, <2>2, FirstIsFirst
  <2>4. FirstOf(Deciding(record, s, i)) = i
    BY <2>1, <2>2, <2>3
  <2>5. Evaluated(record, s, i) = Says(record, i)
    BY <2>1, <2>4 DEF Evaluated
  <2>6. QED
    BY <1>2, <2>5 DEF Says
<1>3. CASE i <= Len(record) /\ ~(record[i].net = Nil \/ s \in record[i].net)
  <2>1. Deciding(record, s, i) = Deciding(record, s, i + 1)
    BY <1>3 DEF Deciding
  <2>2. Evaluated(record, s, i) = Evaluated(record, s, i + 1)
    BY <2>1 DEF Evaluated
  <2>3. QED
    BY <1>3, <2>2
<1>4. QED
  BY <1>1, <1>2, <1>3

(* Whatever the number of mechanisms, the loop returns what the first that   *)
(* settles the matter says.                                                  *)
LEMMA EvaluateSPF ==
    ASSUME NEW record, Len(record) \in Nat, NEW s
    PROVE  evaluateSPF(record, s) = Evaluated(record, s, 1)
<1> DEFINE N == Len(record) + 1
           Turn(f) == [i \in 1..N |->
                         IF i > Len(record) THEN "Neutral"
                         ELSE IF record[i].net = Nil THEN "PermError"
                         ELSE IF s \in record[i].net THEN record[i].qualifier ELSE f[i + 1]]
           eval == CHOOSE f : f = Turn(f)
           closed == [i \in 1..N |-> Evaluated(record, s, i)]
<1>1. closed = Turn(closed)
  <2>1. ASSUME NEW i \in 1..N PROVE closed[i] = Turn(closed)[i]
    <3>1. CASE i > Len(record)
      BY <3>1, EvaluatedStep
    <3>2. CASE i <= Len(record)
      <4>1. closed[i + 1] = Evaluated(record, s, i + 1)
        BY <3>2
      <4>2. QED
        BY <3>2, <4>1, EvaluatedStep
    <3>3. QED
      BY <3>1, <3>2
  <2>2. QED
    BY <2>1
<1>2. eval = Turn(eval)
  BY <1>1, Zenon
<1> HIDE DEF eval
<1>3. \A i \in 1..N : eval[i] = IF i > Len(record) THEN "Neutral"
                                ELSE IF record[i].net = Nil THEN "PermError"
                                ELSE IF s \in record[i].net THEN record[i].qualifier
                                ELSE eval[i + 1]
  BY <1>2
<1>4. ASSUME NEW wrong, wrong = {k \in 0..Len(record) : eval[N - k] /= Evaluated(record, s, N - k)}
      PROVE  wrong = {}
  <2>1. SUFFICES ASSUME wrong /= {} PROVE FALSE
    OBVIOUS
  <2>2. PICK k \in wrong : \A j \in wrong : k <= j
    <3>1. wrong \in SUBSET Nat
      BY <1>4
    <3>2. QED
      BY <2>1, <3>1, NatMin
  <2>3. k \in 0..Len(record) /\ N - k \in 1..N /\ eval[N - k] /= Evaluated(record, s, N - k)
    BY <1>4, <2>2
  <2>4. CASE k = 0
    <3>1. N - k > Len(record)
      BY <2>4
    <3>2. eval[N - k] = "Neutral"
      BY <1>3, <2>3, <3>1
    <3>3. Evaluated(record, s, N - k) = "Neutral"
      BY <2>3, <3>1, EvaluatedStep
    <3>4. QED
      BY <2>3, <3>2, <3>3
  <2>5. CASE k > 0
    <3>1. k - 1 \in 0..Len(record) /\ k - 1 \notin wrong
      BY <2>2, <2>3, <2>5
    <3>2. N - (k - 1) = (N - k) + 1
      BY <2>3
    <3>3. eval[(N - k) + 1] = Evaluated(record, s, (N - k) + 1)
      BY <1>4, <3>1, <3>2
    <3>4. QED
      BY <1>3, <2>3, <3>3, EvaluatedStep
  <2>6. QED
    BY <2>3, <2>4, <2>5
<1>5. eval[1] = Evaluated(record, s, 1)
  <2>1. Len(record) \in 0..Len(record) /\ N - Len(record) = 1
    OBVIOUS
  <2>2. {k \in 0..Len(record) : eval[N - k] /= Evaluated(record, s, N - k)} = {}
    BY <1>4, Zenon
  <2>3. eval[N - Len(record)] = Evaluated(record, s, N - Len(record))
    BY <2>1, <2>2
  <2>4. QED
    BY <2>1, <2>3
<1>6. evaluateSPF(record, s) = eval[1]
  BY DEF evaluateSPF, eval
<1>7. QED
  BY <1>5, <1>6

(* SPF refuses a client exactly when the answer does not permit it.          *)
LEMMA SpfPermits ==
    ASSUME NEW a \in Answers, NEW s
    PROVE  Refused(SpfResult(a, s)) <=> ~Permits(a, s)
<1>1. a \in answer /\ (a.err /= "nil" => a.records = <<>>)
  BY MailAuthConstants
<1>2. a.err \in {"nil", "notfound", "dns", "other"} /\ a.records \in Seq(Seq(mechanism))
  BY <1>1 DEF answer
<1>3. CASE a.err /= "nil"
  <2>1. Len(a.records) = 0
    BY <1>1, <1>3
  <2>2. QED
    BY <1>2, <1>3, <2>1 DEF SpfResult, Refused, Permits
<1>4. CASE a.err = "nil" /\ Len(a.records) /= 1
  <2>1. Len(a.records) = 0 \/ Len(a.records) > 1
    <3>1. \A n \in Nat : n = 0 \/ n = 1 \/ n > 1
      OBVIOUS
    <3>2. Len(a.records) \in Nat
      BY <1>2
    <3>3. QED
      BY <1>4, <3>1, <3>2, Zenon
  <2>2. CASE Len(a.records) = 0
    <3>1. SpfResult(a, s) = "None"
      BY <1>4, <2>2 DEF SpfResult
    <3>2. Permits(a, s)
      BY <1>4, <2>2 DEF Permits
    <3>3. QED
      BY <3>1, <3>2 DEF Refused
  <2>3. CASE Len(a.records) > 1
    <3>1. SpfResult(a, s) = "PermError"
      BY <1>4, <2>3 DEF SpfResult
    <3>2. ~Permits(a, s)
      BY <1>2, <1>4, <2>3 DEF Permits
    <3>3. QED
      BY <3>1, <3>2 DEF Refused
  <2>4. QED
    BY <2>1, <2>2, <2>3
<1>5. CASE a.err = "nil" /\ Len(a.records) = 1
  <2>1. PICK record \in Seq(mechanism) : record = a.records[1]
    BY <1>2, <1>5
  <2>2. Len(record) \in Nat
    BY <2>1
  <2>3. SpfResult(a, s) = evaluateSPF(record, s)
    BY <1>5, <2>1 DEF SpfResult
  <2>4. SpfResult(a, s) = Evaluated(record, s, 1)
    BY <2>2, <2>3, EvaluateSPF
  <2>5. {a.records[i] : i \in 1..Len(a.records)} = {record}
    BY <1>5, <2>1
  <2>6. PICK D : D = Deciding(record, s, 1)
    OBVIOUS
  <2>7. D = {i \in 1..Len(record) : record[i].net = Nil \/ s \in record[i].net}
    BY <2>6 DEF Deciding
  <2>8. Permits(a, s) <=> \A i \in D : (\A j \in D : i <= j) =>
                             record[i].net /= Nil /\ record[i].qualifier /= "Fail"
    <3> DEFINE Fine(r) ==
                 LET decides == {i \in 1..Len(r) : r[i].net = Nil \/ s \in r[i].net}
                 IN  \A i \in decides :
                        (\A j \in decides : i <= j) => r[i].net /= Nil /\ r[i].qualifier /= "Fail"
    <3>1. a.err /= "notfound" /\ a.err = "nil" /\ Len(a.records) <= 1
      BY <1>5
    <3>2. Permits(a, s) <=> \A r \in {a.records[i] : i \in 1..Len(a.records)} : Fine(r)
      BY <3>1, Zenon DEF Permits
    <3>3. Permits(a, s) <=> Fine(record)
      BY <2>5, <3>2, Zenon
    <3>4. QED
      BY <2>7, <3>3, Zenon
  <2>9. CASE D = {}
    BY <2>4, <2>6, <2>8, <2>9 DEF Evaluated, Refused
  <2>10. CASE D /= {}
    <3>1. D \in SUBSET Nat
      BY <2>7
    <3>2. PICK m \in D : m = FirstOf(D) /\ \A j \in D : m <= j
      BY <2>10, <3>1, FirstIsFirst, Zenon
    <3>3. \A i \in D : (\A j \in D : i <= j) => i = m
      BY <3>1, <3>2
    <3>4. Permits(a, s) <=> record[m].net /= Nil /\ record[m].qualifier /= "Fail"
      BY <2>8, <3>2, <3>3
    <3>5. SpfResult(a, s) = Says(record, m)
      BY <2>4, <2>6, <2>10, <3>2 DEF Evaluated
    <3>6. record[m].qualifier \in {"Pass", "Fail", "SoftFail", "Neutral"}
      <4>1. m \in 1..Len(record)
        BY <2>7, <3>2
      <4>2. record[m] \in mechanism
        BY <2>1, <4>1
      <4>3. QED
        BY <4>2 DEF mechanism
    <3>7. QED
      BY <3>4, <3>5, <3>6 DEF Says, Refused
  <2>11. QED
    BY <2>9, <2>10
<1>6. QED
  BY <1>3, <1>4, <1>5

----------------------------------------------------------------------------
(* The resolver                                                              *)

(* The entry made of an answer, and a cached entry a tick later.             *)
LEMMA EntryTypes ==
    /\ \A a \in Answers : [value |-> a, age |-> 0] \in cacheEntry
    /\ Nil \notin cacheEntry
    /\ \A e \in cacheEntry :
          [e EXCEPT !.age = IF @ < cacheTTL THEN @ + 1 ELSE @] \in cacheEntry
<1>1. \A a \in Answers : [value |-> a, age |-> 0] \in cacheEntry
  BY DnsCacheConstants DEF cacheEntry
<1>2. Nil \notin cacheEntry
  <2>1. cacheEntry \subseteq [value : Answers, age : Nat]
    BY DnsCacheConstants DEF cacheEntry
  <2>2. QED
    BY <2>1, DnsCacheConstants
<1>3. ASSUME NEW e \in cacheEntry
      PROVE  [e EXCEPT !.age = IF @ < cacheTTL THEN @ + 1 ELSE @] \in cacheEntry
  <2>1. PICK n \in 0..cacheTTL : n = IF e.age < cacheTTL THEN e.age + 1 ELSE e.age
    BY DnsCacheConstants DEF cacheEntry
  <2>2. [e EXCEPT !.age = n] \in cacheEntry
    BY DEF cacheEntry
  <2>3. [e EXCEPT !.age = IF @ < cacheTTL THEN @ + 1 ELSE @] = [e EXCEPT !.age = n]
    BY <2>1 DEF cacheEntry
  <2>4. QED
    BY <2>2, <2>3
<1>4. QED
  BY <1>1, <1>2, <1>3

LEMMA LookupTXTInv ==
    ASSUME DnsTypeOK, DnsInv, NEW c \in Callers, NEW k \in Keys, LookupTXT(c, k)
    PROVE  DnsTypeOK' /\ DnsInv'
<1>1. DnsTypeOK'
  BY DEF DnsTypeOK, LookupTXT
<1>2. CacheBounded' /\ (writer' /= Nil => Cardinality(Cached(cache')) < CacheSize)
  BY DEF DnsInv, LookupTXT, CacheBounded, Cached
<1>3. \A d \in Callers : /\ look'[d] = "fetch" <=> writer' = d
                         /\ look'[d] /= "idle" => key'[d] \in Keys
                         /\ look'[d] = "done" => result'[d] /= Nil
  BY DEF DnsTypeOK, DnsInv, LookupTXT
<1>4. QED
  BY <1>1, <1>2, <1>3 DEF DnsInv

(* A look, under either lock, that finds the key.                            *)
LEMMA FoundInv ==
    ASSUME DnsTypeOK, DnsInv, NEW c \in Callers, look[c] \in {"read", "lock"},
           Fresh(key[c]), Return(c, cache[key[c]]), UNCHANGED <<cache, writer, key>>
    PROVE  DnsTypeOK' /\ DnsInv'
<1>1. key[c] \in Keys /\ cache[key[c]] \in cacheEntry /\ cache[key[c]] /= Nil
  BY DEF DnsTypeOK, DnsInv, Fresh
<1>2. DnsTypeOK'
  BY <1>1 DEF DnsTypeOK, Return
<1>3. CacheBounded' /\ (writer' /= Nil => Cardinality(Cached(cache')) < CacheSize)
  BY DEF DnsInv, CacheBounded, Cached
<1>4. \A d \in Callers : /\ look'[d] = "fetch" <=> writer' = d
                         /\ look'[d] /= "idle" => key'[d] \in Keys
                         /\ look'[d] = "done" => result'[d] /= Nil
  BY <1>1 DEF DnsTypeOK, DnsInv, Return
<1>5. QED
  BY <1>2, <1>3, <1>4 DEF DnsInv

LEMMA LookupReadInv ==
    ASSUME DnsTypeOK, DnsInv, NEW c \in Callers, LookupRead(c)
    PROVE  DnsTypeOK' /\ DnsInv'
<1>1. CASE Fresh(key[c])
  BY <1>1, FoundInv DEF LookupRead
<1>2. CASE ~Fresh(key[c])
  <2>1. look' = [look EXCEPT ![c] = "lock"] /\ UNCHANGED <<cache, writer, key, result>>
    BY <1>2 DEF LookupRead
  <2>2. DnsTypeOK'
    BY <2>1 DEF DnsTypeOK
  <2>3. CacheBounded' /\ (writer' /= Nil => Cardinality(Cached(cache')) < CacheSize)
    BY <2>1 DEF DnsInv, CacheBounded, Cached
  <2>4. \A d \in Callers : /\ look'[d] = "fetch" <=> writer' = d
                           /\ look'[d] /= "idle" => key'[d] \in Keys
                           /\ look'[d] = "done" => result'[d] /= Nil
    BY <2>1 DEF DnsTypeOK, DnsInv, LookupRead
  <2>5. QED
    BY <2>2, <2>3, <2>4 DEF DnsInv
<1>3. QED
  BY <1>1, <1>2

(* Eviction makes room for one entry.                                        *)
LEMMA EvictMakesRoom ==
    ASSUME DnsTypeOK, CacheBounded, Evict
    PROVE  /\ cache' \in [Keys -> cacheEntry \cup {Nil}]
           /\ IsFiniteSet(Cached(cache')) /\ Cardinality(Cached(cache')) < CacheSize
<1>1. /\ IsFiniteSet(Cached(cache)) /\ Cardinality(Cached(cache)) \in Nat
      /\ Cardinality(Cached(cache)) <= CacheSize
      /\ maxCacheSize \in Nat /\ CacheSize \in Nat \ {0} /\ maxCacheSize <= CacheSize
  BY FS_CardinalityType, DnsCacheConstants DEF CacheBounded, CacheSize
<1>2. CASE Cardinality(Cached(cache)) >= maxCacheSize /\ Cached(cache) /= {}
  <2>1. PICK k \in Cached(cache) : cache' = [cache EXCEPT ![k] = Nil]
    BY <1>2 DEF Evict
  <2>2. cache' \in [Keys -> cacheEntry \cup {Nil}]
    BY <2>1, Zenon DEF DnsTypeOK
  <2>3. Cached(cache') = Cached(cache) \ {k}
    BY <2>1 DEF Cached, DnsTypeOK
  <2>4. /\ IsFiniteSet(Cached(cache) \ {k})
        /\ Cardinality(Cached(cache) \ {k}) = Cardinality(Cached(cache)) - 1
    BY <1>1, <2>1, FS_RemoveElement
  <2>5. QED
    BY <1>1, <2>2, <2>3, <2>4
<1>3. CASE ~(Cardinality(Cached(cache)) >= maxCacheSize)
  BY <1>1, <1>3 DEF Evict, DnsTypeOK
<1>4. CASE Cached(cache) = {}
  <2>1. Cardinality(Cached(cache)) = 0
    BY <1>4, FS_EmptySet
  <2>2. QED
    BY <1>1, <1>4, <2>1 DEF Evict, DnsTypeOK
<1>5. QED
  BY <1>2, <1>3, <1>4

LEMMA LookupLockInv ==
    ASSUME DnsTypeOK, DnsInv, NEW c \in Callers, LookupLock(c)
    PROVE  DnsTypeOK' /\ DnsInv'
<1>1. CASE Fresh(key[c])
  BY <1>1, FoundInv DEF LookupLock
<1>2. CASE ~Fresh(key[c])
  <2>1. /\ look[c] = "lock" /\ writer = Nil /\ look' = [look EXCEPT ![c] = "fetch"] /\ writer' = c
        /\ Evict /\ UNCHANGED <<key, result>>
    BY <1>2 DEF LookupLock
  <2>2. /\ cache' \in [Keys -> cacheEntry \cup {Nil}]
        /\ IsFiniteSet(Cached(cache')) /\ Cardinality(Cached(cache')) < CacheSize
    BY <2>1, EvictMakesRoom DEF DnsInv
  <2>3. DnsTypeOK'
    BY <2>1, <2>2 DEF DnsTypeOK
  <2>4. CacheSize \in Nat /\ Cardinality(Cached(cache')) \in Nat
    BY <2>2, FS_CardinalityType, DnsCacheConstants DEF CacheSize
  <2>5. CacheBounded'
    BY <2>2, <2>4 DEF CacheBounded
  <2>6. \A d \in Callers : look[d] /= "fetch"
    BY <2>1, DnsCacheConstants DEF DnsInv
  <2>7. \A d \in Callers : /\ look'[d] = "fetch" <=> writer' = d
                           /\ look'[d] /= "idle" => key'[d] \in Keys
                           /\ look'[d] = "done" => result'[d] /= Nil
    BY <2>1, <2>6 DEF DnsTypeOK, DnsInv
  <2>8. QED
    BY <2>2, <2>3, <2>5, <2>7 DEF DnsInv
<1>3. QED
  BY <1>1, <1>2

LEMMA LookupFetchInv ==
    ASSUME DnsTypeOK, DnsInv, NEW c \in Callers, LookupFetch(c)
    PROVE  DnsTypeOK' /\ DnsInv'
<1>1. PICK e \in cacheEntry : cache' = [cache EXCEPT ![key[c]] = e] /\ Return(c, e)
  BY EntryTypes, Zenon DEF LookupFetch
<1>2. look[c] = "fetch" /\ writer' = Nil /\ key' = key /\ key[c] \in Keys /\ e /= Nil
  BY EntryTypes DEF LookupFetch, DnsInv
<1>3. DnsTypeOK'
  BY <1>1, <1>2 DEF DnsTypeOK, Return
<1>4. writer = c /\ writer /= Nil
  BY <1>2, DnsCacheConstants DEF DnsInv
<1>5. Cached(cache') = Cached(cache) \cup {key[c]}
  BY <1>1, <1>2 DEF Cached, DnsTypeOK
<1>6. /\ IsFiniteSet(Cached(cache)) /\ Cardinality(Cached(cache)) \in Nat
      /\ Cardinality(Cached(cache)) < CacheSize /\ CacheSize \in Nat
  BY <1>4, FS_CardinalityType, DnsCacheConstants DEF DnsInv, CacheBounded, CacheSize
<1>7. /\ IsFiniteSet(Cached(cache) \cup {key[c]})
      /\ \/ Cardinality(Cached(cache) \cup {key[c]}) = Cardinality(Cached(cache))
         \/ Cardinality(Cached(cache) \cup {key[c]}) = Cardinality(Cached(cache)) + 1
  BY <1>6, FS_AddElement
<1>8. CacheBounded'
  BY <1>5, <1>6, <1>7 DEF CacheBounded
<1>9. \A d \in Callers : /\ look'[d] = "fetch" <=> writer' = d
                         /\ look'[d] /= "idle" => key'[d] \in Keys
                         /\ look'[d] = "done" => result'[d] /= Nil
  BY <1>1, <1>2, <1>4, DnsCacheConstants DEF DnsTypeOK, DnsInv, Return
<1>10. QED
  BY <1>2, <1>3, <1>8, <1>9 DEF DnsInv

LEMMA LookupDoneInv ==
    ASSUME DnsTypeOK, DnsInv, NEW c \in Callers, LookupDone(c)
    PROVE  DnsTypeOK' /\ DnsInv'
<1>1. DnsTypeOK'
  BY DEF DnsTypeOK, LookupDone
<1>2. CacheBounded' /\ (writer' /= Nil => Cardinality(Cached(cache')) < CacheSize)
  BY DEF DnsInv, LookupDone, CacheBounded, Cached
<1>3. \A d \in Callers : /\ look'[d] = "fetch" <=> writer' = d
                         /\ look'[d] /= "idle" => key'[d] \in Keys
                         /\ look'[d] = "done" => result'[d] /= Nil
  BY DEF DnsTypeOK, DnsInv, LookupDone
<1>4. QED
  BY <1>1, <1>2, <1>3 DEF DnsInv

LEMMA DnsTickInv ==
    ASSUME DnsTypeOK, DnsInv, DnsTick
    PROVE  DnsTypeOK' /\ DnsInv'
<1>1. \A k \in Keys : /\ cache'[k] \in cacheEntry \cup {Nil}
                      /\ cache'[k] = Nil <=> cache[k] = Nil
  <2>1. SUFFICES ASSUME NEW k \in Keys
                 PROVE  cache'[k] \in cacheEntry \cup {Nil} /\ (cache'[k] = Nil <=> cache[k] = Nil)
    OBVIOUS
  <2>2. CASE cache[k] = Nil
    BY <2>2 DEF DnsTick
  <2>3. CASE cache[k] /= Nil
    <3>1. cache[k] \in cacheEntry
      BY <2>3 DEF DnsTypeOK
    <3>2. cache'[k] = [cache[k] EXCEPT !.age = IF @ < cacheTTL THEN @ + 1 ELSE @]
      BY <2>3 DEF DnsTick
    <3>3. cache'[k] \in cacheEntry
      BY <3>1, <3>2, EntryTypes, Zenon
    <3>4. QED
      BY <2>3, <3>3, EntryTypes
  <2>4. QED
    BY <2>2, <2>3
<1>2. DnsTypeOK'
  BY <1>1 DEF DnsTypeOK, DnsTick
<1>3. Cached(cache') = Cached(cache)
  BY <1>1 DEF Cached
<1>4. QED
  BY <1>2, <1>3 DEF DnsInv, DnsTick, CacheBounded

----------------------------------------------------------------------------
(* The report store                                                          *)

LEMMA AddEventInv ==
    ASSUME ReportTypeOK, ReportInv, AddEvent
    PROVE  ReportTypeOK' /\ ReportInv'
<1>1. /\ added \in 0..MaxEvents /\ added < MaxEvents /\ MaxEvents \in Nat
      /\ events \subseteq 1..added /\ reported \subseteq 1..added /\ gap \subseteq 1..added
      /\ sched \in {"none", "aggregate", "clear", "sleep"}
  BY ReportingConstants DEF ReportTypeOK, AddEvent
<1>2. /\ added' = added + 1 /\ events' = events \cup {added + 1}
      /\ reported' = reported /\ sched' = sched
      /\ gap' = IF sched = "clear" THEN gap \cup {added + 1} ELSE gap
  BY DEF AddEvent
<1>3. 1..(added + 1) = 1..added \cup {added + 1}
  BY <1>1
<1>4. added' \in 0..MaxEvents
  BY <1>1, <1>2
<1>5. ReportTypeOK'
  BY <1>1, <1>2, <1>3, <1>4 DEF ReportTypeOK
<1>6. EventsKept'
  BY <1>2, <1>3 DEF ReportInv, EventsKept
<1>7. sched' = "clear" => events' \subseteq reported' \cup gap'
  BY <1>2 DEF ReportInv
<1>8. QED
  BY <1>5, <1>6, <1>7 DEF ReportInv

LEMMA ReportStepInv ==
    ASSUME ReportTypeOK, ReportInv, StartScheduler \/ Scheduler
    PROVE  ReportTypeOK' /\ ReportInv'
<1>1. CASE StartScheduler
  BY <1>1 DEF StartScheduler, ReportTypeOK, ReportInv, EventsKept
<1>2. CASE AggregateAndGenerateReport
  BY <1>2 DEF AggregateAndGenerateReport, ReportTypeOK, ReportInv, EventsKept
<1>3. CASE Clear
  BY <1>3 DEF Clear, ReportTypeOK, ReportInv, EventsKept
<1>4. CASE Wake
  BY <1>4 DEF Wake, ReportTypeOK, ReportInv, EventsKept
<1>5. QED
  BY <1>1, <1>2, <1>3, <1>4 DEF Scheduler

----------------------------------------------------------------------------
(* The sessions                                                              *)

(* AuthTypeOK without the resolver's and the report store's.                 *)
SessionsOK ==
    /\ stage \in [Sessions -> {"idle", "spf", "mail", "dmarc", "accepted", "rejected"}]
    /\ spf \in [Sessions -> {StoredSPFResult("Pass", d) : d \in Domains} \cup {NoResult}]
    /\ msg \in [Sessions -> [dkim : Verifications, from : Domains \cup {Nil}] \cup {Nil}]
    /\ \A s \in Sessions :
          /\ stage[s] = "spf" <=> look[s] /= "idle"
          /\ (msg[s] /= Nil) <=> stage[s] = "dmarc"

LEMMA AuthParts ==
    /\ AuthInv <=> DnsTypeOK /\ DnsInv /\ ReportTypeOK /\ ReportInv /\ SessionsOK
    /\ AuthInv' <=> (DnsTypeOK' /\ DnsInv' /\ ReportTypeOK' /\ ReportInv' /\ SessionsOK')
BY DEF AuthInv, AuthTypeOK, SessionsOK

LEMMA DnsUnchanged ==
    ASSUME DnsTypeOK, DnsInv, UNCHANGED dnsVars
    PROVE  DnsTypeOK' /\ DnsInv' /\ look' = look
BY DEF dnsVars, DnsTypeOK, DnsInv, CacheBounded, Cached

LEMMA ReportUnchanged ==
    ASSUME ReportTypeOK, ReportInv, UNCHANGED reportVars
    PROVE  ReportTypeOK' /\ ReportInv'
BY DEF reportVars, ReportTypeOK, ReportInv, EventsKept

LEMMA OnMailFromInv ==
    ASSUME AuthInv, NEW s \in Sessions, NEW d \in Domains, OnMailFrom(s, d)
    PROVE  AuthInv'
<1>1. DnsTypeOK' /\ DnsInv'
  BY AuthParts, LookupTXTInv DEF OnMailFrom, Sessions, Domains
<1>2. ReportTypeOK' /\ ReportInv'
  BY AuthParts, ReportUnchanged DEF OnMailFrom
<1>3. SessionsOK /\ DnsTypeOK
  BY AuthParts
<1>4. /\ stage' = [stage EXCEPT ![s] = "spf"] /\ look' = [look EXCEPT ![s] = "read"]
      /\ spf' = spf /\ msg' = msg /\ stage[s] \in {"idle", "accepted"}
  BY DEF OnMailFrom, Goto, Ready, LookupTXT
<1>5. SessionsOK'
  BY <1>3, <1>4 DEF SessionsOK, DnsTypeOK, Sessions
<1>6. QED
  BY <1>1, <1>2, <1>5, AuthParts

LEMMA OnMailFromReturnInv ==
    ASSUME AuthInv, NEW s \in Sessions, OnMailFromReturn(s)
    PROVE  AuthInv'
<1>1. DnsTypeOK' /\ DnsInv'
  BY AuthParts, LookupDoneInv DEF OnMailFromReturn, Sessions
<1>2. ReportTypeOK' /\ ReportInv'
  BY AuthParts, ReportUnchanged DEF OnMailFromReturn
<1>3. SessionsOK /\ DnsTypeOK /\ DnsInv
  BY AuthParts
<1>4. key[s] \in Domains
  BY <1>3 DEF OnMailFromReturn, LookupDone, DnsInv, Sessions, Domains
<1>5. PICK found : found = SpfResult(result[s].value, s)
  OBVIOUS
<1>6. PICK p \in {StoredSPFResult("Pass", d) : d \in Domains} \cup {NoResult} :
         spf' = [spf EXCEPT ![s] = p]
  <2>1. CASE Refused(found) \/ found /= "Pass"
    BY <1>5, <2>1 DEF OnMailFromReturn
  <2>2. CASE ~Refused(found) /\ found = "Pass"
    BY <1>4, <1>5, <2>2 DEF OnMailFromReturn
  <2>3. QED
    BY <2>1, <2>2
<1>7. PICK w \in {"idle", "mail"} : stage' = [stage EXCEPT ![s] = w]
  BY DEF OnMailFromReturn, Goto
<1>8. look' = [look EXCEPT ![s] = "idle"] /\ msg' = msg /\ stage[s] = "spf"
  BY DEF OnMailFromReturn, LookupDone
<1>9. SessionsOK'
  BY <1>3, <1>6, <1>7, <1>8 DEF SessionsOK, DnsTypeOK, Sessions
<1>10. QED
  BY <1>1, <1>2, <1>9, AuthParts

LEMMA OnMessageInv ==
    ASSUME AuthInv, NEW s \in Sessions, OnMessage(s)
    PROVE  AuthInv'
<1>1. DnsTypeOK' /\ DnsInv' /\ look' = look
  BY AuthParts, DnsUnchanged DEF OnMessage
<1>2. ReportTypeOK' /\ ReportInv'
  BY AuthParts, ReportUnchanged, ReportStepInv DEF OnMessage
<1>3. SessionsOK
  BY AuthParts
<1>4. PICK m \in [dkim : Verifications, from : Domains \cup {Nil}] : msg' = [msg EXCEPT ![s] = m]
  BY Zenon DEF OnMessage, FromDomains
<1>5. m /= Nil
  BY <1>4, MailAuthConstants DEF Domains
<1>6. Open(s) /\ stage' = [stage EXCEPT ![s] = "dmarc"] /\ spf' = spf
  BY Zenon DEF OnMessage, Goto
<1>7. SessionsOK'
  BY <1>1, <1>3, <1>4, <1>5, <1>6 DEF SessionsOK, Open
<1>8. QED
  BY <1>1, <1>2, <1>7, AuthParts

LEMMA OnMessageReturnInv ==
    ASSUME AuthInv, NEW s \in Sessions, OnMessageReturn(s)
    PROVE  AuthInv'
<1>1. DnsTypeOK' /\ DnsInv' /\ look' = look
  BY AuthParts, DnsUnchanged DEF OnMessageReturn
<1>2. ReportTypeOK' /\ ReportInv'
  BY AuthParts, AddEventInv DEF OnMessageReturn
<1>3. SessionsOK
  BY AuthParts
<1>4. PICK w \in {"mail", "accepted", "rejected"} : stage' = [stage EXCEPT ![s] = w]
  BY DEF OnMessageReturn, Goto
<1>5. stage[s] = "dmarc" /\ msg' = [msg EXCEPT ![s] = Nil]
      /\ (spf' = spf \/ spf' = [spf EXCEPT ![s] = NoResult])
  BY DEF OnMessageReturn
<1>6. SessionsOK'
  BY <1>1, <1>3, <1>4, <1>5 DEF SessionsOK
<1>7. QED
  BY <1>1, <1>2, <1>6, AuthParts

LEMMA ResetInv ==
    ASSUME AuthInv, NEW s \in Sessions, Reset(s)
    PROVE  AuthInv'
<1>1. DnsTypeOK' /\ DnsInv' /\ look' = look
  BY AuthParts, DnsUnchanged DEF Reset
<1>2. ReportTypeOK' /\ ReportInv'
  BY AuthParts, ReportUnchanged DEF Reset
<1>3. SessionsOK'
  BY <1>1, AuthParts DEF SessionsOK, Reset, Goto, Open
<1>4. QED
  BY <1>1, <1>2, <1>3, AuthParts

(* A lookup in progress goes on and does not end.                            *)
LEMMA ResolveInv ==
    ASSUME AuthInv, NEW s \in Sessions, Resolve(s)
    PROVE  AuthInv'
<1>1. DnsTypeOK' /\ DnsInv'
  BY AuthParts, LookupReadInv, LookupLockInv, LookupFetchInv DEF Resolve, Lookup, Sessions
<1>2. ReportTypeOK' /\ ReportInv'
  BY AuthParts, ReportUnchanged DEF Resolve
<1>3. look[s] /= "idle" /\ \E w \in {"lock", "fetch", "done"} : look' = [look EXCEPT ![s] = w]
  BY Zenon DEF Resolve, Lookup, LookupRead, LookupLock, LookupFetch, Return
<1>4. SessionsOK /\ DnsTypeOK
  BY AuthParts
<1>5. SessionsOK'
  BY <1>3, <1>4 DEF SessionsOK, DnsTypeOK, Sessions, Resolve, authVars
<1>6. QED
  BY <1>1, <1>2, <1>5, AuthParts

LEMMA ReportOrTickInv ==
    ASSUME AuthInv, Report \/ Tick
    PROVE  AuthInv'
<1>1. CASE Report
  <2>1. DnsTypeOK' /\ DnsInv' /\ look' = look
    BY <1>1, AuthParts, DnsUnchanged DEF Report
  <2>2. ReportTypeOK' /\ ReportInv'
    BY <1>1, AuthParts, ReportStepInv DEF Report
  <2>3. SessionsOK'
    BY <1>1, <2>1, AuthParts DEF SessionsOK, Report, authVars
  <2>4. QED
    BY <2>1, <2>2, <2>3, AuthParts
<1>2. CASE Tick
  <2>1. DnsTypeOK' /\ DnsInv' /\ look' = look
    BY <1>2, AuthParts, DnsTickInv DEF Tick, DnsTick
  <2>2. ReportTypeOK' /\ ReportInv'
    BY <1>2, AuthParts, ReportUnchanged DEF Tick
  <2>3. SessionsOK'
    BY <1>2, <2>1, AuthParts DEF SessionsOK, Tick, authVars
  <2>4. QED
    BY <2>1, <2>2, <2>3, AuthParts
<1>3. QED
  BY <1>1, <1>2

LEMMA InitInv == Init => AuthInv
<1>1. SUFFICES ASSUME Init PROVE AuthInv
  OBVIOUS
<1>2. DnsTypeOK
  BY <1>1 DEF Init, DnsInit, DnsTypeOK
<1>3. Cached(cache) = {}
  BY <1>1 DEF Init, DnsInit, Cached
<1>4. CacheBounded
  BY <1>3, FS_EmptySet, DnsCacheConstants DEF CacheBounded, CacheSize
<1>5. DnsInv
  BY <1>1, <1>4, DnsCacheConstants DEF DnsInv, Init, DnsInit
<1>6. ReportTypeOK /\ ReportInv
  BY <1>1, ReportingConstants DEF Init, ReportInit, ReportTypeOK, ReportInv, EventsKept
<1>7. SessionsOK
  BY <1>1 DEF Init, DnsInit, SessionsOK, Sessions
<1>8. QED
  BY <1>2, <1>5, <1>6, <1>7, AuthParts

----------------------------------------------------------------------------
(* What the sessions, the resolver and the report scheduler keep to in every *)
(* interleaving: each session's lookup belongs to its MAIL FROM, only the    *)
(* holder of the lock asks the network, and the report store loses nothing   *)
(* outside the gap (cache.go:74-115, spf.go:77-195, dmarc.go:26-56).         *)
THEOREM MailAuthInvariant == Spec => []AuthInv
<1>1. Init => AuthInv
  BY InitInv
<1>2. AuthInv /\ [Next]_vars => AuthInv'
  <2>1. SUFFICES ASSUME AuthInv, [Next]_vars PROVE AuthInv'
    OBVIOUS
  <2>2. ASSUME NEW s \in Sessions, NEW d \in Domains, OnMailFrom(s, d) PROVE AuthInv'
    BY <2>1, <2>2, OnMailFromInv
  <2>3. ASSUME NEW s \in Sessions, OnMailFromReturn(s) PROVE AuthInv'
    BY <2>1, <2>3, OnMailFromReturnInv
  <2>4. ASSUME NEW s \in Sessions, OnMessage(s) PROVE AuthInv'
    BY <2>1, <2>4, OnMessageInv
  <2>5. ASSUME NEW s \in Sessions, OnMessageReturn(s) PROVE AuthInv'
    BY <2>1, <2>5, OnMessageReturnInv
  <2>6. ASSUME NEW s \in Sessions, Reset(s) PROVE AuthInv'
    BY <2>1, <2>6, ResetInv
  <2>7. ASSUME NEW s \in Sessions, Resolve(s) PROVE AuthInv'
    BY <2>1, <2>7, ResolveInv
  <2>8. CASE Report \/ Tick
    BY <2>1, <2>8, ReportOrTickInv
  <2>9. CASE UNCHANGED vars
    <3>1. UNCHANGED dnsVars /\ UNCHANGED reportVars /\ UNCHANGED authVars
      BY <2>9 DEF vars
    <3>2. DnsTypeOK' /\ DnsInv' /\ look' = look /\ ReportTypeOK' /\ ReportInv'
      BY <2>1, <3>1, AuthParts, DnsUnchanged, ReportUnchanged
    <3>3. SessionsOK'
      BY <2>1, <3>1, <3>2, AuthParts DEF SessionsOK, authVars
    <3>4. QED
      BY <3>2, <3>3, AuthParts
  <2>10. QED
    BY <2>1, <2>2, <2>3, <2>4, <2>5, <2>6, <2>7, <2>8, <2>9 DEF Next
<1>3. QED
  BY <1>1, <1>2, PTL DEF Spec

(* The cache never has more entries than its size allows (cache.go:100-109). *)
THEOREM MailAuthCacheBounded == Spec => []CacheBounded
<1>1. AuthInv => CacheBounded
  BY DEF AuthInv, DnsInv
<1>2. QED
  BY <1>1, MailAuthInvariant, PTL

(* No DMARC event leaves the store but for a report or for having come       *)
(* between the report and Clear (dmarc.go:42-50, reporting.go:43, :116).      *)
THEOREM MailAuthEventsKept == Spec => []EventsKept
<1>1. AuthInv => EventsKept
  BY DEF AuthInv, ReportInv
<1>2. QED
  BY <1>1, MailAuthInvariant, PTL

(* One caller at a time asks the network, and only for a key that is not     *)
(* cached and fresh (cache.go:87-106).                                       *)
THEOREM MailAuthAskedOnce == Spec => AskedOnce
<1> DEFINE A == \A c \in Callers :
                   look[c] /= "fetch" /\ look'[c] = "fetch" =>
                      ~Fresh(key[c]) /\ \A d \in Callers : look[d] /= "fetch"
<1>1. AuthInv /\ [Next]_vars => [A]_dnsVars
  <2> SUFFICES ASSUME AuthInv, [Next]_vars, NEW c \in Callers,
                      look[c] /= "fetch", look'[c] = "fetch"
               PROVE  ~Fresh(key[c]) /\ \A d \in Callers : look[d] /= "fetch"
    OBVIOUS
  <2>1. DnsTypeOK /\ DnsInv
    BY AuthParts
  <2>2. ASSUME look' = look PROVE FALSE
    BY <2>2
  <2>3. ASSUME NEW s \in Sessions, NEW w, w /= "fetch", look' = [look EXCEPT ![s] = w] PROVE FALSE
    BY <2>1, <2>3 DEF DnsTypeOK, Sessions
  <2>4. ASSUME NEW s \in Sessions, Resolve(s)
        PROVE  ~Fresh(key[c]) /\ \A d \in Callers : look[d] /= "fetch"
    <3>1. LookupLock(s) /\ ~Fresh(key[s])
      BY <2>3, <2>4, Zenon DEF Resolve, Lookup, LookupRead, LookupLock, LookupFetch, Return
    <3>2. writer = Nil /\ look' = [look EXCEPT ![s] = "fetch"]
      BY <3>1 DEF LookupLock
    <3>3. c = s
      BY <2>1, <3>2 DEF DnsTypeOK, Sessions
    <3>4. \A d \in Callers : look[d] /= "fetch"
      BY <2>1, <3>2, DnsCacheConstants DEF DnsInv
    <3>5. QED
      BY <3>1, <3>3, <3>4
  <2>5. ASSUME NEW s \in Sessions, (\E d \in Domains : OnMailFrom(s, d)) \/ OnMailFromReturn(s)
        PROVE  FALSE
    BY <2>3, <2>5 DEF OnMailFrom, OnMailFromReturn, LookupTXT, LookupDone
  <2>6. ASSUME \/ \E s \in Sessions : OnMessage(s) \/ OnMessageReturn(s) \/ Reset(s)
               \/ Report \/ Tick \/ UNCHANGED vars
        PROVE  FALSE
    BY <2>2, <2>6 DEF OnMessage, OnMessageReturn, Reset, Report, Tick, DnsTick, dnsVars, vars
  <2>7. QED
    BY <2>4, <2>5, <2>6 DEF Next
<1>2. QED
  BY <1>1, MailAuthInvariant, PTL DEF Spec, AskedOnce

(* No caller is given an answer that has expired, however long it waited for *)
(* the write lock and whatever was stored meanwhile (cache.go:78, :91).      *)
THEOREM MailAuthAnswersFresh == Spec => []AnswersFresh
<1>1. Init => AnswersFresh
  BY DEF Init, DnsInit, AnswersFresh
<1>2. AuthInv /\ AnswersFresh /\ [Next]_vars => AnswersFresh'
  <2> SUFFICES ASSUME AuthInv, AnswersFresh, [Next]_vars, NEW c \in Callers, look'[c] = "done"
               PROVE  result'[c].age < cacheTTL
    BY DEF AnswersFresh
  <2>1. DnsTypeOK /\ DnsInv
    BY AuthParts
  <2>2. ASSUME look'[c] = look[c], result'[c] = result[c] PROVE result'[c].age < cacheTTL
    BY <2>2 DEF AnswersFresh
  <2>3. ASSUME NEW s \in Sessions, NEW w, w /= "done", look' = [look EXCEPT ![s] = w],
               result' = result
        PROVE  result'[c].age < cacheTTL
    BY <2>1, <2>2, <2>3 DEF DnsTypeOK, Sessions
  <2>4. ASSUME NEW s \in Sessions, NEW e, Return(s, e), e.age < cacheTTL
        PROVE  result'[c].age < cacheTTL
    <3>1. CASE c = s
      BY <2>1, <2>4, <3>1 DEF DnsTypeOK, Return
    <3>2. CASE c /= s
      BY <2>1, <2>2, <2>4, <3>2 DEF DnsTypeOK, Return, Sessions
    <3>3. QED
      BY <3>1, <3>2
  <2>5. ASSUME NEW s \in Sessions, Resolve(s) PROVE result'[c].age < cacheTTL
    <3>1. CASE LookupRead(s) \/ LookupLock(s)
      BY <2>3, <2>4, <2>5, <3>1, Zenon DEF LookupRead, LookupLock, Fresh
    <3>2. CASE LookupFetch(s)
      <4>1. PICK a \in Answers : Return(s, [value |-> a, age |-> 0])
        BY <3>2 DEF LookupFetch
      <4>2. [value |-> a, age |-> 0].age < cacheTTL
        BY DnsCacheConstants
      <4>3. QED
        BY <2>4, <4>1, <4>2
    <3>3. QED
      BY <2>5, <3>1, <3>2 DEF Resolve, Lookup
  <2>6. ASSUME NEW s \in Sessions, NEW d \in Domains, OnMailFrom(s, d)
        PROVE  result'[c].age < cacheTTL
    BY <2>3, <2>6, Zenon DEF OnMailFrom, LookupTXT
  <2>7. ASSUME NEW s \in Sessions, OnMailFromReturn(s) PROVE result'[c].age < cacheTTL
    <3>1. look' = [look EXCEPT ![s] = "idle"] /\ result' = [result EXCEPT ![s] = Nil]
      BY <2>7 DEF OnMailFromReturn, LookupDone
    <3>2. c /= s
      BY <2>1, <3>1 DEF DnsTypeOK
    <3>3. QED
      BY <2>1, <2>2, <3>1, <3>2 DEF DnsTypeOK, Sessions
  <2>8. ASSUME \/ \E s \in Sessions : OnMessage(s) \/ OnMessageReturn(s) \/ Reset(s)
               \/ Report \/ Tick \/ UNCHANGED vars
        PROVE  result'[c].age < cacheTTL
    <3>1. look' = look /\ result' = result
      BY <2>8 DEF OnMessage, OnMessageReturn, Reset, Report, Tick, DnsTick, dnsVars, vars
    <3>2. QED
      BY <2>2, <3>1
  <2>9. QED
    BY <2>5, <2>6, <2>7, <2>8 DEF Next
<1>3. QED
  BY <1>1, <1>2, MailAuthInvariant, PTL DEF Spec

(* A lookup keeps its key and goes forward, in at most three steps, whatever *)
(* the other sessions and the clock do to the cache (cache.go:75-114).       *)
THEOREM MailAuthLookupAdvances == Spec => LookupAdvances
<1> DEFINE Forward(c) == /\ key'[c] = key[c]
                         /\ look'[c] = look[c] \/ LookupLeft(look'[c]) < LookupLeft(look[c])
           A == \A c \in Callers : look[c] \in {"read", "lock", "fetch"} => Forward(c)
<1>1. AuthInv /\ [Next]_vars => [A]_dnsVars
  <2> SUFFICES ASSUME AuthInv, [Next]_vars,
                      NEW c \in Callers, look[c] \in {"read", "lock", "fetch"}
               PROVE  Forward(c)
    OBVIOUS
  <2>1. DnsTypeOK /\ DnsInv
    BY AuthParts
  <2>2. ASSUME look' = look, key' = key PROVE Forward(c)
    BY <2>2
  <2>3. ASSUME NEW s \in Sessions, s /= c, NEW w, NEW k,
               look' = [look EXCEPT ![s] = w], key' = [key EXCEPT ![s] = k]
        PROVE  Forward(c)
    BY <2>1, <2>3 DEF DnsTypeOK, Sessions
  <2>4. ASSUME NEW s \in Sessions, NEW w, look' = [look EXCEPT ![s] = w], key' = key,
               s = c => LookupLeft(w) < LookupLeft(look[c])
        PROVE  Forward(c)
    BY <2>1, <2>4 DEF DnsTypeOK, Sessions
  <2>5. ASSUME NEW s \in Sessions, Resolve(s) PROVE Forward(c)
    <3>1. CASE LookupRead(s)
      <4>1. look[s] = "read" /\ key' = key /\ (\E w \in {"done", "lock"} : look' = [look EXCEPT ![s] = w])
        BY <3>1 DEF LookupRead, Return
      <4>2. QED
        BY <2>4, <4>1 DEF LookupLeft
    <3>2. CASE LookupLock(s)
      <4>1. look[s] = "lock" /\ key' = key /\ (\E w \in {"done", "fetch"} : look' = [look EXCEPT ![s] = w])
        BY <3>2 DEF LookupLock, Return
      <4>2. QED
        BY <2>4, <4>1 DEF LookupLeft
    <3>3. CASE LookupFetch(s)
      <4>1. look[s] = "fetch" /\ key' = key /\ look' = [look EXCEPT ![s] = "done"]
        BY <3>3, Zenon DEF LookupFetch, Return
      <4>2. QED
        BY <2>4, <4>1 DEF LookupLeft
    <3>4. QED
      BY <2>5, <3>1, <3>2, <3>3 DEF Resolve, Lookup
  <2>6. ASSUME NEW s \in Sessions, (\E d \in Domains : OnMailFrom(s, d)) \/ OnMailFromReturn(s)
        PROVE  Forward(c)
    <3>1. s /= c
      BY <2>6 DEF OnMailFrom, OnMailFromReturn, LookupTXT, LookupDone
    <3>2. QED
      BY <2>3, <2>6, <3>1 DEF OnMailFrom, OnMailFromReturn, LookupTXT, LookupDone
  <2>7. ASSUME \/ \E s \in Sessions : OnMessage(s) \/ OnMessageReturn(s) \/ Reset(s)
               \/ Report \/ Tick \/ UNCHANGED vars
        PROVE  Forward(c)
    BY <2>2, <2>7 DEF OnMessage, OnMessageReturn, Reset, Report, Tick, DnsTick, dnsVars, vars
  <2>8. QED
    BY <2>5, <2>6, <2>7 DEF Next
<1>2. QED
  BY <1>1, MailAuthInvariant, PTL DEF Spec, LookupAdvances

(* A session's MAIL FROM is let through exactly when the records in the      *)
(* answer permit its client, whoever asked for them and however many         *)
(* mechanisms they have (spf.go:100-190, :253-308).                          *)
THEOREM MailAuthSpfVerdict == Spec => SpfVerdict
<1> DEFINE A == \A s \in Sessions :
                   look[s] = "done" /\ stage'[s] /= "spf" =>
                      (stage'[s] = "mail" <=> Permits(result[s].value, s))
<1>1. AuthInv /\ [Next]_vars => [A]_vars
  <2> SUFFICES ASSUME AuthInv, [Next]_vars, NEW s \in Sessions, look[s] = "done", stage'[s] /= "spf"
               PROVE  stage'[s] = "mail" <=> Permits(result[s].value, s)
    OBVIOUS
  <2>1. DnsTypeOK /\ DnsInv /\ SessionsOK
    BY AuthParts
  <2>2. stage[s] = "spf"
    BY <2>1 DEF SessionsOK
  <2>3. result[s].value \in Answers
    <3>1. result[s] \in cacheEntry
      BY <2>1 DEF DnsTypeOK, DnsInv, Sessions
    <3>2. QED
      BY <3>1 DEF cacheEntry
  <2>4. ASSUME stage' = stage PROVE FALSE
    BY <2>2, <2>4
  <2>5. ASSUME NEW t \in Sessions, NEW w, t /= s, stage' = [stage EXCEPT ![t] = w] PROVE FALSE
    BY <2>1, <2>2, <2>5 DEF SessionsOK
  <2>6. CASE OnMailFromReturn(s)
    <3>1. PICK found : found = SpfResult(result[s].value, s)
      OBVIOUS
    <3>2. Refused(found) <=> ~Permits(result[s].value, s)
      BY <2>3, <3>1, SpfPermits
    <3>3. CASE Refused(found)
      <4>1. stage'[s] = "idle"
        BY <2>1, <2>6, <3>1, <3>3 DEF OnMailFromReturn, Goto, SessionsOK
      <4>2. QED
        BY <3>2, <3>3, <4>1
    <3>4. CASE ~Refused(found)
      <4>1. stage'[s] = "mail"
        BY <2>1, <2>6, <3>1, <3>4 DEF OnMailFromReturn, Goto, SessionsOK
      <4>2. QED
        BY <3>2, <3>4, <4>1
    <3>5. QED
      BY <3>3, <3>4
  <2>7. ASSUME NEW t \in Sessions, t /= s, OnMailFromReturn(t) PROVE FALSE
    BY <2>5, <2>7 DEF OnMailFromReturn, Goto
  <2>8. ASSUME NEW t \in Sessions, (\E d \in Domains : OnMailFrom(t, d)) \/ OnMessage(t)
                                   \/ OnMessageReturn(t) \/ Reset(t)
        PROVE  FALSE
    <3>1. t /= s
      BY <2>2, <2>8 DEF OnMailFrom, Ready, Open, OnMessage, OnMessageReturn, Reset
    <3>2. QED
      BY <2>5, <2>8, <3>1 DEF OnMailFrom, OnMessage, OnMessageReturn, Reset, Goto
  <2>9. ASSUME (\E t \in Sessions : Resolve(t)) \/ Report \/ Tick \/ UNCHANGED vars PROVE FALSE
    BY <2>4, <2>9 DEF Resolve, Report, Tick, vars, authVars
  <2>10. QED
    BY <2>6, <2>7, <2>8, <2>9 DEF Next
<1>2. QED
  BY <1>1, MailAuthInvariant, PTL DEF Spec, SpfVerdict
=============================================================================
