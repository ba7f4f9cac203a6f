----------------------------- MODULE DnsCache ------------------------------
(***************************************************************************)
(* The caching resolver of internal/dns/cache.go.  Callers look keys up     *)
(* concurrently: first under the read lock, then once more under the write  *)
(* lock, which is kept while the network is asked.  Values and errors are   *)
(* cached alike.  Expiry is counted in ticks since the entry was made.      *)
(***************************************************************************)
EXTENDS Integers, FiniteSets

CONSTANTS
    Callers,
    Keys,
    Answers,       \* what the network says: values and errors
    Nil,           \* no entry, no answer, nobody
    cacheTTL,      \* in ticks
    maxCacheSize

ASSUME DnsCacheConstants ==
    /\ Nil \notin Callers \cup Keys \cup Answers \cup [value : Answers, age : Nat]
    /\ cacheTTL \in Nat \ {0} /\ maxCacheSize \in Nat

VARIABLES
    cache,    \* cache[k]: Nil or a cacheEntry
    writer,   \* the caller that holds the write lock
    look,     \* control of lookup for each caller
    key,      \* the key it looks up
    result    \* what lookup returned, with the age of the answer

dnsVars == <<cache, writer, look, key, result>>

cacheEntry == [value : Answers, age : 0..cacheTTL]

DnsTypeOK ==
    /\ cache \in [Keys -> cacheEntry \cup {Nil}]
    /\ writer \in Callers \cup {Nil}
    /\ look \in [Callers -> {"idle", "read", "lock", "fetch", "done"}]
    /\ key \in [Callers -> Keys \cup {Nil}]
    /\ result \in [Callers -> cacheEntry \cup {Nil}]

DnsInit ==
    /\ cache = [k \in Keys |-> Nil]
    /\ writer = Nil
    /\ look = [c \in Callers |-> "idle"]
    /\ key = [c \in Callers |-> Nil]
    /\ result = [c \in Callers |-> Nil]

Cached(C) == {k \in Keys : C[k] /= Nil}

(* found && time.Now().Before(entry.expiresAt) *)
Fresh(k) == cache[k] /= Nil /\ cache[k].age < cacheTTL

----------------------------------------------------------------------------
(* LookupTXT, LookupHost and LookupMX differ in the prefix of their keys. *)
LookupTXT(c, k) ==
    /\ look[c] = "idle"
    /\ look' = [look EXCEPT ![c] = "read"] /\ key' = [key EXCEPT ![c] = k]
    /\ UNCHANGED <<cache, writer, result>>

Return(c, entry) ==
    /\ look' = [look EXCEPT ![c] = "done"]
    /\ result' = [result EXCEPT ![c] = entry]

(* The look under the read lock. *)
LookupRead(c) ==
    /\ look[c] = "read" /\ writer = Nil
    /\ IF Fresh(key[c])
       THEN Return(c, cache[key[c]])
       ELSE look' = [look EXCEPT ![c] = "lock"] /\ UNCHANGED result
    /\ UNCHANGED <<cache, writer, key>>

(* Faulty variant: room is made when the cache is above its size. *)
EvictLate ==
    IF Cardinality(Cached(cache)) > maxCacheSize /\ Cached(cache) /= {}
    THEN \E k \in Cached(cache) : cache' = [cache EXCEPT ![k] = Nil]
    ELSE UNCHANGED cache

(* If the cache is full one entry, whichever, has to go. *)
Evict ==
    IF Cardinality(Cached(cache)) >= maxCacheSize /\ Cached(cache) /= {}
    THEN \E k \in Cached(cache) : cache' = [cache EXCEPT ![k] = Nil]
    ELSE UNCHANGED cache

(* Faulty variant: the second look is left out. *)
LookupLockAtOnce(c) ==
    /\ look[c] = "lock" /\ writer = Nil
    /\ look' = [look EXCEPT ![c] = "fetch"]
    /\ writer' = c
    /\ Evict
    /\ UNCHANGED <<result, key>>

(* The look under the write lock; without success the lock is kept.          *)
LookupLock(c) ==
    /\ look[c] = "lock" /\ writer = Nil
    /\ IF Fresh(key[c])
       THEN Return(c, cache[key[c]]) /\ UNCHANGED <<cache, writer>>
       ELSE /\ look' = [look EXCEPT ![c] = "fetch"]
            /\ writer' = c
            /\ Evict
            /\ UNCHANGED result
    /\ UNCHANGED key

(* Faulty variant: the lock is not released. *)
LookupFetchKeepsLock(c) ==
    /\ look[c] = "fetch"
    /\ \E a \in Answers :
          LET entry == [value |-> a, age |-> 0] IN
          cache' = [cache EXCEPT ![key[c]] = entry] /\ Return(c, entry)
    /\ UNCHANGED <<key, writer>>

(* fn returns, and its value or error is stored. *)
LookupFetch(c) ==
    /\ look[c] = "fetch"
    /\ \E a \in Answers :
          LET entry == [value |-> a, age |-> 0] IN
          cache' = [cache EXCEPT ![key[c]] = entry] /\ Return(c, entry)
    /\ writer' = Nil
    /\ UNCHANGED key

(* The caller has used the result. *)
LookupDone(c) ==
    /\ look[c] = "done"
    /\ look' = [look EXCEPT ![c] = "idle"]
    /\ key' = [key EXCEPT ![c] = Nil]
    /\ result' = [result EXCEPT ![c] = Nil]
    /\ UNCHANGED <<cache, writer>>

Lookup(c) == LookupRead(c) \/ LookupLock(c) \/ LookupFetch(c)

DnsTick ==
    /\ cache' = [k \in Keys |-> IF cache[k] = Nil THEN Nil
                                ELSE [cache[k] EXCEPT !.age = IF @ < cacheTTL THEN @ + 1 ELSE @]]
    /\ UNCHANGED <<writer, look, key, result>>

----------------------------------------------------------------------------
(* The network is asked by one caller at a time, and never for a key that is *)
(* cached and fresh as the caller takes the write lock, however many callers *)
(* missed it at the first look and whatever is evicted (cache.go:87-106).    *)
AskedOnce ==
    [][\A c \in Callers :
          look[c] /= "fetch" /\ look'[c] = "fetch" =>
              ~Fresh(key[c]) /\ \A d \in Callers : look[d] /= "fetch"]_dnsVars

(* The cache keeps to its size, a size of 0 standing for 1, although an      *)
(* entry is evicted before the network is asked and the answer is stored     *)
(* after, and although the key asked for may itself still be cached with an  *)
(* expired entry (cache.go:100-109).                                         *)
CacheSize == IF maxCacheSize = 0 THEN 1 ELSE maxCacheSize
CacheBounded == IsFiniteSet(Cached(cache)) /\ Cardinality(Cached(cache)) <= CacheSize

(* An answer is handed out only before it expires, however long its caller   *)
(* waited for the write lock after the first look (cache.go:78, :91).        *)
AnswersFresh == \A c \in Callers : look[c] = "done" => result[c].age < cacheTTL

(* A lookup goes forward: whatever other callers store and evict meanwhile,  *)
(* it keeps its key and is through after at most three steps, which are its  *)
(* two looks and its question to the network (cache.go:75-114).              *)
LookupLeft(where) ==
    CASE where = "read" -> 3 [] where = "lock" -> 2 [] where = "fetch" -> 1 [] OTHER -> 0
LookupAdvances ==
    [][\A c \in Callers :
          look[c] \in {"read", "lock", "fetch"} =>
              /\ key'[c] = key[c]
              /\ look'[c] = look[c] \/ LookupLeft(look'[c]) < LookupLeft(look[c])]_dnsVars

(* The holder of the write lock is the one caller that asks the network, and *)
(* it has made room for its answer.  A lookup in progress has its key, and   *)
(* one that is done has an answer.                                           *)
DnsInv ==
    /\ CacheBounded
    /\ writer /= Nil => Cardinality(Cached(cache)) < CacheSize
    /\ \A c \in Callers :
          /\ look[c] = "fetch" <=> writer = c
          /\ look[c] /= "idle" => key[c] \in Keys
          /\ look[c] = "done" => result[c] /= Nil
============================================================================
