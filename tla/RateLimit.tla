----------------------------- MODULE RateLimit -----------------------------
(***************************************************************************)
(* The rate limiting plugin of pkg/plugin/ratelimit/ratelimit.go.           *)
(* OnMailFrom reads the clock, looks at cleanupAt without the lock (a data  *)
(* race, but of the monotonic reading alone, one word: it sees the old or   *)
(* the new time), cleans up under the lock if it is time, and decides under *)
(* the lock.                                                                *)
(* Meanwhile the clock goes on: a caller's `now' lags behind.               *)
(* Times are kept relative to the present.                                  *)
(***************************************************************************)
EXTENDS Integers

CONSTANTS
    Limited,       \* concurrent callers of OnMailFrom
    Froms,         \* senders
    NoCount,       \* no entry, no sender
    limit, window,
    MaxLag         \* bound: ticks between a caller's clock reading and its decision

ASSUME RateLimitConstants ==
    /\ limit \in Nat \ {0} /\ window \in Nat \ {0}
    /\ MaxLag \in 0..window
    /\ NoCount \notin Froms \cup [count : Nat \ {0}, age : Nat]

VARIABLES
    counts,      \* counts[f]: NoCount or a count and the age of startTime
    cleanupIn,   \* cleanupAt, from now
    rate,        \* control of OnMailFrom for each caller
    from,        \* its sender
    lag,         \* how old its clock reading is
    passed       \* history: mails let through in this tick, in this and the last, ...

rateVars == <<counts, cleanupIn, rate, from, lag, passed>>

Periods == 0..(window + MaxLag)
OldAge == window + MaxLag + 1    \* more than a window old for every caller

senderCount == [count : Nat \ {0}, age : 0..OldAge]

RateTypeOK ==
    /\ counts \in [Froms -> senderCount \cup {NoCount}]
    /\ cleanupIn \in (-MaxLag)..window
    /\ rate \in [Limited -> {"idle", "look", "cleanup", "decide", "refused"}]
    /\ from \in [Limited -> Froms \cup {NoCount}]
    /\ lag \in [Limited -> 0..MaxLag]
    /\ passed \in [Froms -> [Periods -> Nat]]

RateInit ==
    /\ counts = [f \in Froms |-> NoCount]
    /\ cleanupIn = window
    /\ rate = [c \in Limited |-> "idle"]
    /\ from = [c \in Limited |-> NoCount]
    /\ lag = [c \in Limited |-> 0]
    /\ passed = [f \in Froms |-> [t \in Periods |-> 0]]

----------------------------------------------------------------------------
(* now := time.Now(). *)
OnMailFrom(c, f) ==
    /\ rate[c] \in {"idle", "refused"}
    /\ from' = [from EXCEPT ![c] = f]
    /\ rate' = [rate EXCEPT ![c] = "look"]
    /\ UNCHANGED <<counts, cleanupIn, lag, passed>>

(* The first line of cleanup, without the lock. *)
LookAtTime(c) ==
    /\ rate[c] = "look"
    /\ rate' = [rate EXCEPT ![c] = IF cleanupIn + lag[c] > 0 THEN "decide" ELSE "cleanup"]
    /\ UNCHANGED <<counts, cleanupIn, from, lag, passed>>

(* The window of entry n is over for a caller's clock. *)
Over(c, n) == n.age - lag[c] > window

(* Faulty variant: every entry is removed. *)
CleanupAll(c) ==
    /\ rate[c] = "cleanup"
    /\ counts' = [f \in Froms |-> NoCount]
    /\ cleanupIn' = window - lag[c]
    /\ rate' = [rate EXCEPT ![c] = "decide"]
    /\ UNCHANGED <<from, lag, passed>>

cleanup(c) ==
    /\ rate[c] = "cleanup"
    /\ counts' = [f \in Froms |->
                    IF counts[f] /= NoCount /\ Over(c, counts[f]) THEN NoCount ELSE counts[f]]
    /\ cleanupIn' = window - lag[c]
    /\ rate' = [rate EXCEPT ![c] = "decide"]
    /\ UNCHANGED <<from, lag, passed>>

(* OnMailFrom returns, and its locals are forgotten. *)
Answer(c, answer) ==
    /\ rate' = [rate EXCEPT ![c] = answer]
    /\ from' = [from EXCEPT ![c] = NoCount]
    /\ lag' = [lag EXCEPT ![c] = 0]

Pass(c) ==
    /\ Answer(c, "idle")
    /\ passed' = [passed EXCEPT ![from[c]] = [t \in Periods |-> passed[from[c]][t] + 1]]

(* The critical section: a first mail, a new window, the limit, one more. *)
Decide(c) ==
    LET f == from[c] IN
    /\ rate[c] = "decide"
    /\ \/ /\ counts[f] = NoCount \/ (counts[f] /= NoCount /\ Over(c, counts[f]))
          /\ counts' = [counts EXCEPT ![f] = [count |-> 1, age |-> lag[c]]]
          /\ Pass(c)
       \/ /\ counts[f] /= NoCount /\ ~Over(c, counts[f])
          /\ IF counts[f].count >= limit
             THEN Answer(c, "refused") /\ UNCHANGED <<counts, passed>>
             ELSE counts' = [counts EXCEPT ![f].count = @ + 1] /\ Pass(c)
    /\ UNCHANGED cleanupIn

InOnMailFrom(c) == rate[c] \in {"look", "cleanup", "decide"}

RateTick ==
    /\ \A c \in Limited : InOnMailFrom(c) => lag[c] < MaxLag
    /\ counts' = [f \in Froms |-> IF counts[f] = NoCount THEN NoCount
                                  ELSE [counts[f] EXCEPT !.age = IF @ < OldAge THEN @ + 1 ELSE @]]
    /\ cleanupIn' = IF cleanupIn > -MaxLag THEN cleanupIn - 1 ELSE cleanupIn
    /\ lag' = [c \in Limited |-> IF InOnMailFrom(c) THEN lag[c] + 1 ELSE 0]
    /\ passed' = [f \in Froms |-> [t \in Periods |-> IF t = 0 THEN 0 ELSE passed[f][t - 1]]]
    /\ UNCHANGED <<rate, from>>

----------------------------------------------------------------------------
RateNext ==
    \/ \E c \in Limited : \/ \E f \in Froms : OnMailFrom(c, f)
                          \/ LookAtTime(c) \/ cleanup(c) \/ Decide(c)
    \/ RateTick

RateSpec == RateInit /\ [][RateNext]_rateVars

----------------------------------------------------------------------------
(* Clock readings of different age shorten the window by their lag, and that *)
(* is all they do, cleanup between two decisions included: in a period of    *)
(* window - MaxLag a sender gets no more than twice the limit through        *)
(* (ratelimit.go:48-52, :59, :74-84).                                        *)
RateBound == \A f \in Froms : passed[f][window - MaxLag] <= 2 * limit

(* The limit is not enforced too early either: a sender that is refused got  *)
(* limit mails through in the last window, as the refusing caller's clock    *)
(* has it, however stale the clock that started the entry and whatever       *)
(* cleanup removed in between (ratelimit.go:59, :74-84).                     *)
RefusalEarned ==
    [][\A c \in Limited : rate[c] /= "refused" /\ rate'[c] = "refused"
          => passed[from[c]][window + lag[c]] >= limit]_rateVars

----------------------------------------------------------------------------
(* Why RateBound holds.  An entry is made with the age of its maker's clock  *)
(* reading, so it is older than the mails it counts, by up to MaxLag: it has *)
(* counted every mail of the ticks that lie MaxLag and more after its start. *)
(* By the time it is over for anybody, those are a period of window - MaxLag *)
(* and more: so the mails of such a period before a new entry are no more    *)
(* than the limit, and those after its making are in its own count.          *)
Counted(f) ==
    IF counts[f] = NoCount
    THEN passed[f][window - MaxLag] <= limit
    ELSE /\ counts[f].count <= limit
         /\ passed[f][window - MaxLag] <= limit + counts[f].count
         /\ \A t \in Periods : t < counts[f].age - MaxLag => passed[f][t] <= counts[f].count

RateInv ==
    /\ RateTypeOK
    /\ \A c \in Limited : InOnMailFrom(c) => from[c] \in Froms
    /\ \A f \in Froms :
          /\ \A t \in 1..(window + MaxLag) : passed[f][t - 1] <= passed[f][t]
          /\ Counted(f)

(* Why RefusalEarned holds: an entry is never younger than its first mail,   *)
(* so all the mails it counts are among those of the ticks since its start.  *)
Backed(f) ==
    counts[f] /= NoCount /\ counts[f].age \in Periods
        => passed[f][counts[f].age] >= counts[f].count

BackedInv == \A f \in Froms : Backed(f)
============================================================================
