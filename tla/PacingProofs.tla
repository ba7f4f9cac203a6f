---------------------------- MODULE PacingProofs ----------------------------
(***************************************************************************)
(* How soon mail is tried again and how fast it may come in.                *)
(*                                                                          *)
(* The retry schedule of Backoff, for every RetryCount and every retry      *)
(* limit: the powers of two are a recursive function, so the proof starts   *)
(* with the equation it satisfies; the cases of the 64-bit product follow   *)
(* from the first thirty powers.                                            *)
(*                                                                          *)
(* RateLimit, for any number of callers and senders, any limit and window,  *)
(* and any lag of the callers' clock readings up to a window.               *)
(***************************************************************************)
EXTENDS Backoff, RateLimit, WellFoundedInduction, TLAPS

----------------------------------------------------------------------------
(* Powers of two                                                             *)

(* A set of natural numbers that is not empty has a least element.           *)
LEMMA LeastNat ==
    ASSUME NEW S \in SUBSET Nat, S /= {}
    PROVE  \E x \in S : \A y \in S : x <= y
<1>1. PICK x \in S : \A y \in S : ~(<<y, x>> \in OpToRel(<, Nat))
  BY Zenon, NatLessThanWellFounded, WFMin
<1>2. \A y \in S : ~(y < x)
  BY <1>1, Zenon DEF OpToRel
<1>3. QED
  BY <1>2

(* The tables of the powers up to n. *)
Tables(n) ==
    {g \in [0..n -> Nat \ {0}] : g[0] = 1 /\ \A i \in 1..n : g[i] = 2 * g[i - 1]}

(* There is a table of every size: a least size without one would be one     *)
(* more than a size that has one.                                            *)
LEMMA TableExists == \A n \in Nat : Tables(n) /= {}
<1> DEFINE Bad == {n \in Nat : Tables(n) = {}}
<1>1. SUFFICES ASSUME Bad /= {} PROVE FALSE
  OBVIOUS
<1>2. PICK n \in Bad : \A m \in Bad : n <= m
  <2>1. Bad \in SUBSET Nat
    OBVIOUS
  <2> HIDE DEF Bad
  <2>2. QED
    BY Zenon, <1>1, <2>1, LeastNat
<1>3. n /= 0
  <2>1. [i \in 0..0 |-> 1] \in Tables(0)
    BY DEF Tables
  <2>2. QED
    BY <2>1
<1>4. n \in Nat /\ n - 1 \in Nat /\ n - 1 \notin Bad
  BY <1>2, <1>3
<1>5. PICK g : g \in Tables(n - 1)
  BY <1>4
<1> DEFINE h == [i \in 0..n |-> IF i = n THEN 2 * g[n - 1] ELSE g[i]]
<1>6. h \in Tables(n)
  <2>1. g \in [0..(n - 1) -> Nat \ {0}] /\ g[0] = 1
        /\ \A i \in 1..(n - 1) : g[i] = 2 * g[i - 1]
    BY <1>5 DEF Tables
  <2>2. h \in [0..n -> Nat \ {0}]
    <3>1. ASSUME NEW i \in 0..n PROVE h[i] \in Nat \ {0}
      <4>1. g[n - 1] \in Nat \ {0} /\ (i /= n => g[i] \in Nat \ {0})
        BY <1>4, <2>1
      <4>2. QED
        BY <4>1
    <3>2. QED
      BY <3>1
  <2>3. h[0] = 1
    BY <1>3, <1>4, <2>1
  <2>4. ASSUME NEW i \in 1..n PROVE h[i] = 2 * h[i - 1]
    <3>1. h[i - 1] = g[i - 1]
      BY <1>4
    <3>2. h[i] = IF i = n THEN 2 * g[n - 1] ELSE g[i]
      BY <1>4
    <3>3. QED
      BY <1>4, <2>1, <3>1, <3>2
  <2> HIDE DEF h
  <2>5. QED
    BY <2>2, <2>3, <2>4 DEF Tables
<1>7. QED
  BY <1>2, <1>6

(* Two tables agree where both have an entry. *)
LEMMA TablesAgree ==
    ASSUME NEW m \in Nat, NEW n \in Nat, NEW g \in Tables(m), NEW h \in Tables(n)
    PROVE  \A i \in Nat : i <= m /\ i <= n => g[i] = h[i]
<1> DEFINE Bad == {i \in Nat : i <= m /\ i <= n /\ g[i] /= h[i]}
<1>1. SUFFICES ASSUME Bad /= {} PROVE FALSE
  OBVIOUS
<1>2. PICK i \in Bad : \A j \in Bad : i <= j
  <2>1. Bad \in SUBSET Nat
    OBVIOUS
  <2> HIDE DEF Bad
  <2>2. QED
    BY Zenon, <1>1, <2>1, LeastNat
<1>3. i /= 0
  BY <1>2 DEF Tables
<1>4. i - 1 \in Nat /\ i - 1 \notin Bad
  BY <1>2, <1>3
<1>5. g[i - 1] = h[i - 1] /\ i \in 1..m /\ i \in 1..n
  BY <1>2, <1>3, <1>4
<1>6. g[i] = 2 * g[i - 1] /\ h[i] = 2 * h[i - 1]
  BY <1>5 DEF Tables
<1>7. QED
  BY <1>2, <1>5, <1>6

(* Pow2 is the function its definition describes. *)
LEMMA Pow2Equation ==
    /\ Pow2 \in [Nat -> Nat \ {0}]
    /\ Pow2[0] = 1
    /\ \A n \in Nat \ {0} : Pow2[n] = 2 * Pow2[n - 1]
<1> DEFINE T(n) == CHOOSE g : g \in Tables(n)
           f == [n \in Nat |-> T(n)[n]]
           Doubling(p) == [n \in Nat |-> IF n = 0 THEN 1 ELSE 2 * p[n - 1]]
           Powers == CHOOSE p : p = Doubling(p)
<1>1. \A n \in Nat : T(n) \in Tables(n)
  BY Zenon, TableExists
<1> HIDE DEF T
<1>2. f = Doubling(f)
  <2>1. ASSUME NEW n \in Nat PROVE f[n] = IF n = 0 THEN 1 ELSE 2 * f[n - 1]
    <3>1. CASE n = 0
      BY <1>1, <3>1 DEF Tables
    <3>2. CASE n /= 0
      <4>1. n - 1 \in Nat /\ n \in 1..n /\ n - 1 <= n
        BY <3>2
      <4>2. T(n)[n] = 2 * T(n)[n - 1]
        BY <1>1, <4>1 DEF Tables
      <4>3. T(n)[n - 1] = T(n - 1)[n - 1]
        <5>1. T(n) \in Tables(n) /\ T(n - 1) \in Tables(n - 1) /\ n - 1 <= n - 1
          BY <1>1, <4>1
        <5>2. QED
          BY <4>1, <5>1, TablesAgree
      <4>4. QED
        BY <3>2, <4>1, <4>2, <4>3
    <3>3. QED
      BY <3>1, <3>2
  <2> HIDE DEF f
  <2>2. f = [n \in Nat |-> f[n]]
    BY DEF f
  <2>3. QED
    BY <2>1, <2>2, Zenon
<1>3. Powers = Doubling(Powers)
  <2> HIDE DEF f, Doubling
  <2>1. QED
    BY Zenon, <1>2
<1>4. Pow2 = Powers
  BY Zenon DEF Pow2
<1> HIDE DEF Powers, f
<1>5. \A n \in Nat : Pow2[n] = IF n = 0 THEN 1 ELSE 2 * Pow2[n - 1]
  BY <1>3, <1>4
<1>6. Pow2 = [n \in Nat |-> Pow2[n]]
  BY <1>3, <1>4
<1>7. \A n \in Nat : Pow2[n] \in Nat \ {0}
  <2> DEFINE Bad == {n \in Nat : Pow2[n] \notin Nat \ {0}}
  <2>1. SUFFICES ASSUME Bad /= {} PROVE FALSE
    OBVIOUS
  <2>2. PICK n \in Bad : \A m \in Bad : n <= m
    <3>1. Bad \in SUBSET Nat
      OBVIOUS
    <3> HIDE DEF Bad
    <3>2. QED
      BY Zenon, <2>1, <3>1, LeastNat
  <2>3. n /= 0
    BY <1>5, <2>2
  <2>4. n - 1 \in Nat /\ Pow2[n - 1] \in Nat \ {0}
    BY <2>2, <2>3
  <2>5. QED
    BY <1>5, <2>2, <2>3, <2>4
<1>8. QED
  BY <1>5, <1>6, <1>7, Zenon

(* The powers that the cases of calculateRetryDelay depend on. *)
LEMMA Powers0to9 ==
    /\ Pow2[0] = 1 /\ Pow2[1] = 2 /\ Pow2[2] = 4
    /\ Pow2[3] = 8 /\ Pow2[4] = 16 /\ Pow2[5] = 32
    /\ Pow2[6] = 64 /\ Pow2[7] = 128 /\ Pow2[8] = 256
    /\ Pow2[9] = 512
  BY Pow2Equation

LEMMA Powers10to19 ==
    /\ Pow2[10] = 1024 /\ Pow2[11] = 2048 /\ Pow2[12] = 4096
    /\ Pow2[13] = 8192 /\ Pow2[14] = 16384 /\ Pow2[15] = 32768
    /\ Pow2[16] = 65536 /\ Pow2[17] = 131072 /\ Pow2[18] = 262144
    /\ Pow2[19] = 524288
  BY Pow2Equation, Powers0to9

LEMMA Powers20to29 ==
    /\ Pow2[20] = 1048576 /\ Pow2[21] = 2097152 /\ Pow2[22] = 4194304
    /\ Pow2[23] = 8388608 /\ Pow2[24] = 16777216 /\ Pow2[25] = 33554432
    /\ Pow2[26] = 67108864 /\ Pow2[27] = 134217728 /\ Pow2[28] = 268435456
    /\ Pow2[29] = 536870912
  BY Pow2Equation, Powers10to19

----------------------------------------------------------------------------
(* The product in 64 bits                                                    *)

LEMMA ProductInt == \A k \in Nat : Product(k) \in Int
<1> SUFFICES ASSUME NEW k \in Nat PROVE Product(k) \in Int
  OBVIOUS
<1>1. CASE 27 <= k /\ k < 53
  <2>1. Pow2[53 - k] \in Nat \ {0}
    BY <1>1, Pow2Equation
  <2>2. PICK w \in Nat \ {0} : w = Pow2[53 - k]
    BY <2>1
  <2>3. Odd % w \in Int
    BY DEF Odd
  <2>4. QED
    BY <1>1, <2>2, <2>3 DEF Product
<1>2. QED
  BY <1>1 DEF Product, Odd

(* The first five products are below MaxRetryDelay and exact. *)
LEMMA SmallProducts == \A k \in 0..4 : ~AboveMax(k) /\ Product(k) > 0
<1>1. \A k \in 0..4 : Product(k) = Odd
  BY DEF Product
<1>2. /\ ~AboveMax(0) /\ ~AboveMax(1) /\ ~AboveMax(2)
      /\ ~AboveMax(3) /\ ~AboveMax(4)
  BY <1>1, Powers0to9 DEF AboveMax, Odd
<1>3. QED
  BY <1>1, <1>2 DEF Odd

(* The powers grow. *)
LEMMA Pow2AtLeast32 == \A k \in 5..27 : Pow2[k] >= 32
  BY Powers0to9, Powers10to19, Powers20to29

(* The next twenty-three are above it, the last of them in all its bits.     *)
LEMMA LargeProducts == \A k \in 5..27 : AboveMax(k)
<1> SUFFICES ASSUME NEW k \in 5..27 PROVE AboveMax(k)
  OBVIOUS
<1>1. Product(k) = Odd
  <2>1. CASE k < 27
    BY <2>1 DEF Product
  <2>2. CASE k = 27
    BY <2>2, Powers20to29 DEF Product, Odd
  <2>3. QED
    BY <2>1, <2>2
<1>2. PICK w \in Nat : w = Pow2[k] /\ w >= 32
  BY Pow2AtLeast32, Pow2Equation
<1>3. (30 * Odd) \div w < Odd
  <2>1. PICK q \in Int : q = (30 * Odd) \div w
    BY <1>2 DEF Odd
  <2>2. q * w <= 30 * Odd
    BY <1>2, <2>1 DEF Odd
  <2>3. q >= Odd => q * w >= Odd * 32
    BY <1>2, <2>1 DEF Odd
  <2>4. QED
    BY <2>1, <2>2, <2>3 DEF Odd
<1>4. QED
  BY <1>1, <1>2, <1>3 DEF AboveMax

(* Then the sign bit is set, twice. *)
LEMMA WrappedProducts == \A k \in 28..29 : ~AboveMax(k) /\ Product(k) <= 0
<1>1. Product(28) = 29296875 - 33554432
  BY Powers20to29 DEF Product, Odd
<1>2. Product(29) = 29296875 - 2 * 16777216
  BY Powers20to29 DEF Product, Odd
<1>3. QED
  BY <1>1, <1>2, Powers20to29 DEF AboveMax, Odd

----------------------------------------------------------------------------
(* calculateRetryDelay                                                       *)

(* The delays the schedule intends: doubled from BaseRetryDelay on, up to    *)
(* MaxRetryDelay.                                                            *)
Doubled(n) == IF n <= 5 THEN BaseRetryDelay * Pow2[n - 1] ELSE MaxRetryDelay

(* calculateRetryDelay keeps the schedule for the first twenty-eight retries *)
(* and never returns anything but MaxRetryDelay or a time in the past        *)
(* afterwards, however often the product wraps.                              *)
THEOREM BackoffSchedule ==
    /\ \A n \in 1..28 : calculateRetryDelay(n) = Doubled(n)
    /\ \A n \in Nat : n > 28 => calculateRetryDelay(n) \in {Past, MaxRetryDelay}
    /\ calculateRetryDelay(29) = Past
<1>1. ASSUME NEW n \in 1..28 PROVE calculateRetryDelay(n) = Doubled(n)
  <2>1. CASE n <= 5
    <3>1. ~AboveMax(n - 1) /\ Product(n - 1) > 0 /\ Product(n - 1) \in Int
      BY <2>1, SmallProducts, ProductInt
    <3>2. QED
      BY <2>1, <3>1 DEF calculateRetryDelay, Doubled
  <2>2. CASE n > 5
    <3>1. AboveMax(n - 1)
      BY <2>2, LargeProducts
    <3>2. QED
      BY <2>2, <3>1 DEF calculateRetryDelay, Doubled
  <2>3. QED
    BY <2>1, <2>2
<1>2. ASSUME NEW n \in Nat, n > 28
      PROVE  calculateRetryDelay(n) \in {Past, MaxRetryDelay}
  <2>1. n - 1 \in Nat /\ Product(n - 1) \in Int
    BY <1>2, ProductInt
  <2>2. CASE n \in 29..30
    BY <2>2, WrappedProducts DEF calculateRetryDelay
  <2>3. CASE n > 30
    <3>1. AboveMax(n - 1) <=> Product(n - 1) > 0
      BY <2>3 DEF AboveMax
    <3>2. QED
      BY <2>1, <2>3, <3>1 DEF calculateRetryDelay
  <2>4. QED
    BY <1>2, <2>2, <2>3
<1>3. calculateRetryDelay(29) = Past
  BY WrappedProducts DEF calculateRetryDelay
<1>4. QED
  BY <1>1, <1>2, <1>3

(* What calculateRetryDelay can return, in numbers. *)
IsDelay(d) == d \in Int /\ d <= 1800 /\ (d = -1 \/ d >= 60)

LEMMA DelayRange == \A n \in Nat : IsDelay(calculateRetryDelay(n))
<1> SUFFICES ASSUME NEW n \in Nat PROVE IsDelay(calculateRetryDelay(n))
  OBVIOUS
<1>1. CASE n = 0
  BY <1>1 DEF calculateRetryDelay, IsDelay, BaseRetryDelay
<1>2. CASE n \in 1..28
  <2>1. CASE n <= 5
    <3>1. PICK w \in {1, 2, 4, 8, 16} : w = Pow2[n - 1]
      BY <1>2, <2>1, Powers0to9
    <3>2. Doubled(n) = 60 * w
      BY <2>1, <3>1 DEF Doubled, BaseRetryDelay
    <3>3. QED
      BY <1>2, <3>2, BackoffSchedule DEF IsDelay
  <2>2. CASE n > 5
    <3>1. Doubled(n) = 1800
      BY <2>2 DEF Doubled, MaxRetryDelay
    <3>2. QED
      BY <1>2, <3>1, BackoffSchedule DEF IsDelay
  <2>3. QED
    BY <2>1, <2>2
<1>3. CASE n > 28
  <2>1. calculateRetryDelay(n) \in {Past, MaxRetryDelay}
    BY Zenon, <1>3, BackoffSchedule
  <2>2. QED
    BY <2>1 DEF IsDelay, Past, MaxRetryDelay
<1>4. QED
  BY <1>1, <1>2, <1>3

----------------------------------------------------------------------------
(* The wait in the retry heap                                                *)

(* The invariant of the schedule in numbers: the places, the delay the       *)
(* worker sets and the wait Requeue makes of it.                             *)
Places == step \in {"deliver", "requeue", "heap"} /\ retryCount \in Nat
DelayNumbers == delay \in Int /\ delay <= 1800 /\ (delay = -1 \/ delay = 0 \/ delay >= 60)
WaitNumbers == wait \in Int /\ 0 <= wait /\ wait <= 1800 /\ (step = "heap" => 5 <= wait)

LEMMA BackoffNumbers == BackoffInv <=> Places /\ DelayNumbers /\ WaitNumbers
<1> DEFINE DelayIn == delay \in -1..1800 /\ (delay > 0 => delay >= 60)
           WaitIn == wait \in 0..1800 /\ (step = "heap" => wait \in 5..1800)
<1>1. DelayIn => DelayNumbers
  BY DEF DelayNumbers
<1>2. DelayNumbers => DelayIn
  BY DEF DelayNumbers
<1>3. WaitIn => WaitNumbers
  BY DEF WaitNumbers
<1>4. WaitNumbers => WaitIn
  <2>1. WaitNumbers => wait \in 0..1800
    BY DEF WaitNumbers
  <2>2. ASSUME WaitNumbers, step = "heap" PROVE wait \in 5..1800
    <3>1. wait \in Int /\ 5 <= wait /\ wait <= 1800
      BY <2>2 DEF WaitNumbers
    <3>2. QED
      BY <3>1
  <2>3. QED
    BY <2>1, <2>2 DEF WaitNumbers
<1>5. BackoffInv <=> Places /\ DelayIn /\ WaitIn
  BY DEF Places, BackoffInv, BackoffTypeOK, WaitBounded, Past,
         FiveSeconds, BaseRetryDelay, MaxRetryDelay
<1> HIDE DEF DelayIn, WaitIn
<1>6. QED
  BY <1>1, <1>2, <1>3, <1>4, <1>5

LEMMA BackoffStep ==
    BackoffInv /\ [Next]_vars => BackoffInv'
<1>1. SUFFICES ASSUME Places, DelayNumbers, WaitNumbers, [Next]_vars
               PROVE  Places' /\ DelayNumbers' /\ WaitNumbers'
  BY BackoffNumbers, PTL
<1>2. CASE DeliverTemporary \/ DeliverTimeout
  <2>1. Retry
    BY <1>2 DEF DeliverTemporary, DeliverTimeout
  <2>2. /\ retryCount' = retryCount + 1 /\ step' = "requeue" /\ wait' = wait
        /\ delay' = calculateRetryDelay(retryCount + 1)
    BY <2>1 DEF Retry
  <2>3. PICK n \in Nat : n = retryCount + 1
    BY <1>1 DEF Places
  <2>4. IsDelay(calculateRetryDelay(n))
    BY Zenon, DelayRange
  <2>5. PICK d : d = calculateRetryDelay(n)
    OBVIOUS
  <2>6. IsDelay(d)
    BY Zenon, <2>4, <2>5
  <2>7. retryCount' = n /\ delay' = d
    BY <2>2, <2>3, <2>5
  <2>8. Places'
    BY <2>2, <2>7 DEF Places
  <2>9. DelayNumbers'
    BY <2>6, <2>7 DEF IsDelay, DelayNumbers
  <2>10. WaitNumbers'
    BY <1>1, <2>2 DEF WaitNumbers
  <2>11. QED
    BY <2>8, <2>9, <2>10
<1>3. CASE DeliverInterrupted
  <2>1. step' = "requeue" /\ delay' = -1 /\ wait' = wait /\ retryCount' = retryCount
    BY <1>3 DEF DeliverInterrupted, Past
  <2>2. QED
    BY <1>1, <2>1 DEF Places, DelayNumbers, WaitNumbers
<1>4. CASE Requeue
  <2>1. /\ step' = "heap" /\ delay' = delay /\ retryCount' = retryCount
        /\ wait' = IF delay <= 0 THEN 5 ELSE delay
    BY <1>4 DEF Requeue, FiveSeconds
  <2>2. Places' /\ DelayNumbers'
    BY <1>1, <2>1 DEF Places, DelayNumbers
  <2>3. WaitNumbers'
    BY <1>1, <2>1 DEF WaitNumbers, DelayNumbers
  <2>4. QED
    BY <2>2, <2>3
<1>5. CASE Promote
  <2>1. step' = "deliver" /\ delay' = delay /\ wait' = wait /\ retryCount' = retryCount
    BY <1>5 DEF Promote
  <2>2. QED
    BY <1>1, <2>1 DEF Places, DelayNumbers, WaitNumbers
<1>6. CASE UNCHANGED vars
  BY <1>1, <1>6 DEF vars, Places, DelayNumbers, WaitNumbers
<1>7. QED
  BY <1>1, <1>2, <1>3, <1>4, <1>5, <1>6 DEF Next

(* Whatever calculateRetryDelay returns, overflow included, Requeue puts a   *)
(* failed message into the retry heap for at least five seconds and at most  *)
(* MaxRetryDelay, for every number of failures and every retry limit.        *)
THEOREM BackoffWaitBounded == Spec => []WaitBounded
<1>1. Init => BackoffInv
  BY BackoffNumbers DEF Init, Places, DelayNumbers, WaitNumbers
<1>2. BackoffInv => WaitBounded
  BY DEF BackoffInv
<1>3. QED
  BY <1>1, <1>2, BackoffStep, PTL DEF Spec

----------------------------------------------------------------------------
(* The rate limiter                                                          *)

USE RateLimitConstants

Count == Nat \ {0}

(* An answer leaves the locals of OnMailFrom typed.                          *)
LEMMA AnswerTypes ==
    ASSUME RateInv, NEW c \in Limited, NEW a \in {"idle", "refused"}, Answer(c, a)
    PROVE  /\ rate' \in [Limited -> {"idle", "look", "cleanup", "decide", "refused"}]
           /\ from' \in [Limited -> Froms \cup {NoCount}]
           /\ lag' \in [Limited -> 0..MaxLag]
           /\ \A d \in Limited : InOnMailFrom(d)' => from'[d] \in Froms
<1>1. 0 \in 0..MaxLag
  OBVIOUS
<1>2. QED
  BY <1>1 DEF RateInv, RateTypeOK, Answer, InOnMailFrom

(* A mail let through shows in every period that reaches back from now.      *)
LEMMA PassCounts ==
    ASSUME RateInv, NEW c \in Limited, from[c] \in Froms,
           passed' = [passed EXCEPT ![from[c]] = [t \in Periods |-> passed[from[c]][t] + 1]]
    PROVE  /\ passed' \in [Froms -> [Periods -> Nat]]
           /\ \A f \in Froms, t \in Periods :
                 passed'[f][t] = IF f = from[c] THEN passed[f][t] + 1 ELSE passed[f][t]
           /\ \A f \in Froms, t \in 1..(window + MaxLag) : passed'[f][t - 1] <= passed'[f][t]
<1>1. \A f \in Froms, t \in Periods : passed[f][t] \in Nat
  BY DEF RateInv, RateTypeOK
<1>2. [t \in Periods |-> passed[from[c]][t] + 1] \in [Periods -> Nat]
  BY <1>1
<1>3. passed' \in [Froms -> [Periods -> Nat]]
  BY <1>2 DEF RateInv, RateTypeOK
<1>4. \A f \in Froms, t \in Periods :
         passed'[f][t] = IF f = from[c] THEN passed[f][t] + 1 ELSE passed[f][t]
  BY DEF RateInv, RateTypeOK
<1>5. \A t \in 1..(window + MaxLag) : t \in Periods /\ t - 1 \in Periods
  BY DEF Periods
<1>6. \A f \in Froms, t \in 1..(window + MaxLag) : passed[f][t - 1] <= passed[f][t]
  BY DEF RateInv
<1>7. \A f \in Froms, t \in 1..(window + MaxLag) : passed'[f][t - 1] <= passed'[f][t]
  BY <1>1, <1>4, <1>5, <1>6
<1>8. QED
  BY <1>3, <1>4, <1>7

(* An entry that is over for some caller has counted every mail of the       *)
(* period, and so there were no more than the limit.                         *)
LEMMA OverCounted ==
    ASSUME RateInv, NEW c \in Limited, NEW f \in Froms,
           counts[f] /= NoCount, Over(c, counts[f])
    PROVE  passed[f][window - MaxLag] <= limit
<1>1. /\ counts[f] \in senderCount /\ lag[c] \in 0..MaxLag
      /\ passed[f] \in [Periods -> Nat] /\ Counted(f)
  BY DEF RateInv, RateTypeOK
<1>2. counts[f].age \in Nat /\ counts[f].count \in Nat
  BY <1>1 DEF senderCount, OldAge
<1>3. counts[f].age - lag[c] > window
  BY DEF Over
<1>4. window - MaxLag \in Periods /\ window - MaxLag < counts[f].age - MaxLag
  BY <1>1, <1>2, <1>3 DEF Periods
<1>5. passed[f][window - MaxLag] <= counts[f].count /\ counts[f].count <= limit
  BY <1>1, <1>4 DEF Counted
<1>6. passed[f][window - MaxLag] \in Nat
  BY <1>1, <1>4
<1>7. QED
  BY <1>2, <1>5, <1>6

LEMMA RateInitInv == RateInit => RateInv
<1>1. SUFFICES ASSUME RateInit PROVE RateInv
  OBVIOUS
<1>2. RateTypeOK
  BY <1>1 DEF RateInit, RateTypeOK
<1>3. \A c \in Limited : ~InOnMailFrom(c)
  BY <1>1 DEF RateInit, InOnMailFrom
<1>4. \A f \in Froms, t \in Periods : passed[f][t] = 0
  BY <1>1 DEF RateInit
<1>5. window - MaxLag \in Periods /\ \A t \in 1..(window + MaxLag) : t \in Periods /\ t - 1 \in Periods
  BY DEF Periods
<1>6. \A f \in Froms : Counted(f)
  BY <1>1, <1>4, <1>5 DEF RateInit, Counted
<1>7. QED
  BY <1>2, <1>3, <1>4, <1>5, <1>6 DEF RateInv

LEMMA OnMailFromInv ==
    ASSUME RateInv, NEW c \in Limited, NEW f \in Froms, OnMailFrom(c, f)
    PROVE  RateInv'
<1>1. RateTypeOK'
  BY DEF RateInv, RateTypeOK, OnMailFrom
<1>2. \A d \in Limited : InOnMailFrom(d)' => from'[d] \in Froms
  BY DEF RateInv, RateTypeOK, OnMailFrom, InOnMailFrom
<1>3. QED
  BY <1>1, <1>2 DEF RateInv, OnMailFrom, Counted

LEMMA LookAtTimeInv ==
    ASSUME RateInv, NEW c \in Limited, LookAtTime(c)
    PROVE  RateInv'
<1>1. RateTypeOK'
  BY DEF RateInv, RateTypeOK, LookAtTime
<1>2. \A d \in Limited : InOnMailFrom(d)' => from'[d] \in Froms
  BY DEF RateInv, RateTypeOK, LookAtTime, InOnMailFrom
<1>3. QED
  BY <1>1, <1>2 DEF RateInv, LookAtTime, Counted

LEMMA CleanupInv ==
    ASSUME RateInv, NEW c \in Limited, cleanup(c)
    PROVE  RateInv'
<1>1. lag[c] \in 0..MaxLag /\ cleanupIn' = window - lag[c]
  BY DEF RateInv, RateTypeOK, cleanup
<1>2. cleanupIn' \in (-MaxLag)..window
  BY <1>1
<1>3. RateTypeOK'
  BY <1>2 DEF RateInv, RateTypeOK, cleanup
<1>4. \A d \in Limited : InOnMailFrom(d)' => from'[d] \in Froms
  BY DEF RateInv, RateTypeOK, cleanup, InOnMailFrom
<1>5. ASSUME NEW f \in Froms PROVE Counted(f)'
  <2>1. Counted(f) /\ passed' = passed
    BY DEF RateInv, cleanup
  <2>2. counts'[f] = counts[f] \/ (counts[f] /= NoCount /\ Over(c, counts[f]) /\ counts'[f] = NoCount)
    BY DEF cleanup
  <2>3. CASE counts'[f] = counts[f]
    BY <2>1, <2>3 DEF Counted
  <2>4. CASE counts[f] /= NoCount /\ Over(c, counts[f]) /\ counts'[f] = NoCount
    BY <2>1, <2>4, OverCounted DEF Counted
  <2>5. QED
    BY <2>2, <2>3, <2>4
<1>6. QED
  BY <1>3, <1>4, <1>5 DEF RateInv, cleanup

(* A first mail, or the first of a new window.                               *)
LEMMA NewEntryInv ==
    ASSUME RateInv, NEW c \in Limited, rate[c] = "decide",
           counts[from[c]] = NoCount \/ (counts[from[c]] /= NoCount /\ Over(c, counts[from[c]])),
           counts' = [counts EXCEPT ![from[c]] = [count |-> 1, age |-> lag[c]]],
           Pass(c), UNCHANGED cleanupIn
    PROVE  RateInv'
<1>1. from[c] \in Froms /\ lag[c] \in 0..MaxLag
  BY DEF RateInv, RateTypeOK, InOnMailFrom
<1>2. [count |-> 1, age |-> lag[c]] \in senderCount
  BY <1>1 DEF senderCount, OldAge
<1>3. counts' \in [Froms -> senderCount \cup {NoCount}]
  BY <1>1, <1>2 DEF RateInv, RateTypeOK
<1>4. /\ passed' \in [Froms -> [Periods -> Nat]]
      /\ \A f \in Froms, t \in Periods :
            passed'[f][t] = IF f = from[c] THEN passed[f][t] + 1 ELSE passed[f][t]
      /\ \A f \in Froms, t \in 1..(window + MaxLag) : passed'[f][t - 1] <= passed'[f][t]
  BY <1>1, PassCounts, Zenon DEF Pass
<1>5. /\ rate' \in [Limited -> {"idle", "look", "cleanup", "decide", "refused"}]
      /\ from' \in [Limited -> Froms \cup {NoCount}]
      /\ lag' \in [Limited -> 0..MaxLag]
      /\ \A d \in Limited : InOnMailFrom(d)' => from'[d] \in Froms
  BY AnswerTypes DEF Pass
<1>6. RateTypeOK'
  BY <1>3, <1>4, <1>5 DEF RateInv, RateTypeOK
<1>7. window - MaxLag \in Periods
  BY DEF Periods
<1>8. ASSUME NEW f \in Froms PROVE Counted(f)'
  <2>1. Counted(f) /\ counts[f] \in senderCount \cup {NoCount}
    BY DEF RateInv, RateTypeOK
  <2>2. CASE f /= from[c]
    <3>1. counts'[f] = counts[f] /\ \A t \in Periods : passed'[f][t] = passed[f][t]
      BY <1>1, <1>4, <2>2 DEF RateInv, RateTypeOK
    <3>2. QED
      BY <1>7, <2>1, <3>1 DEF Counted
  <2>3. CASE f = from[c]
    <3>1. passed[f][window - MaxLag] <= limit
      BY <2>1, <2>3, OverCounted DEF Counted
    <3>2. counts'[f] = [count |-> 1, age |-> lag[c]]
      BY <1>1, <2>3 DEF RateInv, RateTypeOK
    <3>3. counts'[f] /= NoCount /\ counts'[f].count = 1 /\ counts'[f].age = lag[c]
      BY <1>1, <3>2
    <3>4. passed[f][window - MaxLag] \in Nat
          /\ passed'[f][window - MaxLag] = passed[f][window - MaxLag] + 1
      BY <1>4, <1>7, <2>3 DEF RateInv, RateTypeOK
    <3>5. \A t \in Periods : ~(t < counts'[f].age - MaxLag)
      BY <1>1, <3>3 DEF Periods
    <3>6. passed'[f][window - MaxLag] <= limit + counts'[f].count /\ counts'[f].count <= limit
      BY <3>1, <3>3, <3>4
    <3>7. QED
      BY <3>3, <3>5, <3>6 DEF Counted
  <2>4. QED
    BY <2>2, <2>3
<1>9. QED
  BY <1>4, <1>5, <1>6, <1>8 DEF RateInv

(* One more mail in the window of an entry.                                  *)
LEMMA OneMoreInv ==
    ASSUME RateInv, NEW c \in Limited, rate[c] = "decide",
           counts[from[c]] /= NoCount, ~(counts[from[c]].count >= limit),
           counts' = [counts EXCEPT ![from[c]].count = @ + 1],
           Pass(c), UNCHANGED cleanupIn
    PROVE  RateInv'
<1>1. from[c] \in Froms /\ counts[from[c]] \in senderCount
  BY DEF RateInv, RateTypeOK, InOnMailFrom
<1>2. PICK n \in Count : n = counts[from[c]].count + 1
  BY <1>1 DEF senderCount, Count
<1>3. counts' = [counts EXCEPT ![from[c]] = [counts[from[c]] EXCEPT !.count = n]]
  BY <1>1, <1>2 DEF RateInv, RateTypeOK
<1>4. [counts[from[c]] EXCEPT !.count = n] \in senderCount
  BY <1>1 DEF senderCount, Count
<1>5. counts' \in [Froms -> senderCount \cup {NoCount}]
  BY <1>1, <1>3, <1>4, Zenon DEF RateInv, RateTypeOK
<1>6. /\ passed' \in [Froms -> [Periods -> Nat]]
      /\ \A f \in Froms, t \in Periods :
            passed'[f][t] = IF f = from[c] THEN passed[f][t] + 1 ELSE passed[f][t]
      /\ \A f \in Froms, t \in 1..(window + MaxLag) : passed'[f][t - 1] <= passed'[f][t]
  BY <1>1, PassCounts, Zenon DEF Pass
<1>7. /\ rate' \in [Limited -> {"idle", "look", "cleanup", "decide", "refused"}]
      /\ from' \in [Limited -> Froms \cup {NoCount}]
      /\ lag' \in [Limited -> 0..MaxLag]
      /\ \A d \in Limited : InOnMailFrom(d)' => from'[d] \in Froms
  BY AnswerTypes DEF Pass
<1>8. RateTypeOK'
  BY <1>5, <1>6, <1>7 DEF RateInv, RateTypeOK
<1>9. window - MaxLag \in Periods
  BY DEF Periods
<1>10. ASSUME NEW f \in Froms PROVE Counted(f)'
  <2>1. Counted(f) /\ passed[f] \in [Periods -> Nat]
    BY DEF RateInv, RateTypeOK
  <2>2. CASE f /= from[c]
    <3>1. counts'[f] = counts[f] /\ \A t \in Periods : passed'[f][t] = passed[f][t]
      BY <1>1, <1>3, <1>6, <2>2 DEF RateInv, RateTypeOK
    <3>2. QED
      BY <1>9, <2>1, <3>1, Zenon DEF Counted
  <2>3. CASE f = from[c]
    <3>1. counts'[f] = [counts[f] EXCEPT !.count = n]
      BY <1>1, <1>3, <2>3 DEF RateInv, RateTypeOK
    <3>2. counts'[f].count = counts[f].count + 1 /\ counts'[f].age = counts[f].age
      BY <1>1, <1>2, <2>3, <3>1 DEF senderCount
    <3>3. counts'[f] /= NoCount
      BY <1>1, <1>4, <2>3, <3>1 DEF senderCount, OldAge
    <3>4. \A t \in Periods : passed[f][t] \in Nat /\ passed'[f][t] = passed[f][t] + 1
      BY <1>6, <2>1, <2>3
    <3>5. counts[f].count \in Nat /\ counts[f].age \in Nat /\ counts[f].count < limit
      BY <1>1, <2>3 DEF senderCount, OldAge
    <3>6. /\ passed[f][window - MaxLag] <= limit + counts[f].count
          /\ \A t \in Periods : t < counts[f].age - MaxLag => passed[f][t] <= counts[f].count
      BY <2>1, <2>3 DEF Counted
    <3>7. passed'[f][window - MaxLag] <= limit + counts'[f].count /\ counts'[f].count <= limit
      BY <1>9, <3>2, <3>4, <3>5, <3>6
    <3>8. \A t \in Periods : t < counts'[f].age - MaxLag => passed'[f][t] <= counts'[f].count
      BY <3>2, <3>4, <3>5, <3>6
    <3>9. QED
      BY <3>3, <3>7, <3>8 DEF Counted
  <2>4. QED
    BY <2>2, <2>3
<1>11. QED
  BY <1>6, <1>7, <1>8, <1>10 DEF RateInv

LEMMA DecideInv ==
    ASSUME RateInv, NEW c \in Limited, Decide(c)
    PROVE  RateInv'
<1>1. CASE /\ counts[from[c]] = NoCount \/ (counts[from[c]] /= NoCount /\ Over(c, counts[from[c]]))
           /\ counts' = [counts EXCEPT ![from[c]] = [count |-> 1, age |-> lag[c]]]
           /\ Pass(c)
  BY <1>1, NewEntryInv, Zenon DEF Decide
<1>2. CASE Answer(c, "refused") /\ UNCHANGED <<counts, passed>>
  <2>1. /\ rate' \in [Limited -> {"idle", "look", "cleanup", "decide", "refused"}]
        /\ from' \in [Limited -> Froms \cup {NoCount}]
        /\ lag' \in [Limited -> 0..MaxLag]
        /\ \A d \in Limited : InOnMailFrom(d)' => from'[d] \in Froms
    BY <1>2, AnswerTypes
  <2>2. cleanupIn' = cleanupIn
    BY DEF Decide
  <2>3. RateTypeOK'
    BY <1>2, <2>1, <2>2 DEF RateInv, RateTypeOK
  <2>4. QED
    BY <1>2, <2>1, <2>3 DEF RateInv, Counted
<1>3. CASE /\ counts[from[c]] /= NoCount /\ ~(counts[from[c]].count >= limit)
           /\ counts' = [counts EXCEPT ![from[c]].count = @ + 1] /\ Pass(c)
  BY <1>3, OneMoreInv, Zenon DEF Decide
<1>4. QED
  BY <1>1, <1>2, <1>3 DEF Decide

LEMMA RateTickInv ==
    ASSUME RateInv, RateTick
    PROVE  RateInv'
<1>1. /\ RateTypeOK
      /\ counts' = [f \in Froms |-> IF counts[f] = NoCount THEN NoCount
                                    ELSE [counts[f] EXCEPT !.age = IF @ < OldAge THEN @ + 1 ELSE @]]
      /\ passed' = [f \in Froms |-> [t \in Periods |-> IF t = 0 THEN 0 ELSE passed[f][t - 1]]]
  BY DEF RateInv, RateTick
<1>2. ASSUME NEW f \in Froms, counts[f] /= NoCount
      PROVE  /\ counts'[f] \in senderCount /\ counts'[f] /= NoCount
             /\ counts'[f].count = counts[f].count
             /\ counts'[f].age \in {counts[f].age, counts[f].age + 1}
  <2>1. counts[f] \in senderCount
    BY <1>1, <1>2 DEF RateTypeOK
  <2>2. PICK a \in 0..OldAge : a = IF counts[f].age < OldAge THEN counts[f].age + 1 ELSE counts[f].age
    BY <2>1 DEF senderCount, OldAge
  <2>3. counts'[f] = [counts[f] EXCEPT !.age = a]
    BY <1>1, <1>2, <2>1, <2>2
  <2>4. counts'[f] \in senderCount /\ counts'[f].count = counts[f].count /\ counts'[f].age = a
    BY <2>1, <2>3 DEF senderCount
  <2>5. counts'[f] /= NoCount
    BY <2>4 DEF senderCount, OldAge
  <2>6. QED
    BY <2>2, <2>4, <2>5
<1>3. counts' \in [Froms -> senderCount \cup {NoCount}]
  BY <1>1, <1>2
<1>4. \A f \in Froms, t \in Periods : passed[f][t] \in Nat
  BY <1>1 DEF RateTypeOK
<1>5. \A f \in Froms, t \in Periods : passed'[f][t] = IF t = 0 THEN 0 ELSE passed[f][t - 1]
  BY <1>1
<1>6. \A t \in Periods : t = 0 \/ (t - 1 \in Periods /\ t \in 1..(window + MaxLag))
  BY DEF Periods
<1>7. passed' \in [Froms -> [Periods -> Nat]]
  BY <1>1, <1>4, <1>6
<1>8. cleanupIn' \in (-MaxLag)..window
  BY <1>1 DEF RateTypeOK, RateTick
<1>9. lag' \in [Limited -> 0..MaxLag]
  BY <1>1 DEF RateTypeOK, RateTick
<1>10. RateTypeOK'
  BY <1>1, <1>3, <1>7, <1>8, <1>9 DEF RateTypeOK, RateTick
<1>11. \A c \in Limited : InOnMailFrom(c)' => from'[c] \in Froms
  BY DEF RateInv, RateTick, InOnMailFrom
<1>12. \A f \in Froms, t \in 1..(window + MaxLag) : passed[f][t - 1] <= passed[f][t]
  BY DEF RateInv
<1>13. \A t \in 1..(window + MaxLag) : t \in Periods /\ t - 1 \in Periods
  BY DEF Periods
<1>14. \A f \in Froms, t \in 1..(window + MaxLag) : passed'[f][t - 1] <= passed'[f][t]
  BY <1>4, <1>5, <1>6, <1>12, <1>13
<1>15. \A f \in Froms, t \in Periods : passed'[f][t] <= passed[f][t]
  BY <1>4, <1>5, <1>6, <1>12
<1>16. ASSUME NEW f \in Froms PROVE Counted(f)'
  <2>1. Counted(f) /\ window - MaxLag \in Periods
    BY DEF RateInv, Periods
  <2>2. passed'[f][window - MaxLag] \in Nat /\ passed[f][window - MaxLag] \in Nat
        /\ passed'[f][window - MaxLag] <= passed[f][window - MaxLag]
    BY <1>4, <1>7, <1>15, <2>1
  <2>3. CASE counts[f] = NoCount
    <3>1. counts'[f] = NoCount
      BY <1>1, <2>3
    <3>2. QED
      BY <2>1, <2>2, <2>3, <3>1 DEF Counted
  <2>4. CASE counts[f] /= NoCount
    <3>1. counts[f] \in senderCount
      BY <1>1, <2>4 DEF RateTypeOK
    <3>2. counts[f].count \in Nat /\ counts[f].age \in Nat
      BY <3>1 DEF senderCount, OldAge
    <3>3. /\ counts[f].count <= limit
          /\ passed[f][window - MaxLag] <= limit + counts[f].count
          /\ \A t \in Periods : t < counts[f].age - MaxLag => passed[f][t] <= counts[f].count
      BY <2>1, <2>4 DEF Counted
    <3>4. /\ counts'[f] /= NoCount /\ counts'[f].count = counts[f].count
          /\ counts'[f].age \in {counts[f].age, counts[f].age + 1}
      BY <1>2, <2>4
    <3>5. ASSUME NEW t \in Periods, t < counts'[f].age - MaxLag
          PROVE  passed'[f][t] <= counts'[f].count
      <4>1. CASE t = 0
        BY <1>5, <3>2, <3>4, <4>1
      <4>2. CASE t /= 0
        <5>1. t - 1 \in Periods /\ passed'[f][t] = passed[f][t - 1]
          BY <1>5, <1>6, <4>2
        <5>2. t - 1 < counts[f].age - MaxLag
          BY <3>2, <3>4, <3>5 DEF Periods
        <5>3. QED
          BY <3>3, <3>4, <5>1, <5>2
      <4>3. QED
        BY <4>1, <4>2
    <3>6. passed'[f][window - MaxLag] <= limit + counts'[f].count
      BY <2>2, <3>2, <3>3, <3>4
    <3>7. QED
      BY <3>3, <3>4, <3>5, <3>6 DEF Counted
  <2>5. QED
    BY <2>3, <2>4
<1>17. QED
  BY <1>10, <1>11, <1>14, <1>16 DEF RateInv

----------------------------------------------------------------------------
(* The counts of the rate limiter stand for what was let through, in every   *)
(* step of every caller and of the clock (ratelimit.go:40-86).               *)
THEOREM RateLimitInvariant == RateSpec => []RateInv
<1>1. RateInit => RateInv
  BY RateInitInv
<1>2. RateInv /\ [RateNext]_rateVars => RateInv'
  <2>1. SUFFICES ASSUME RateInv, [RateNext]_rateVars PROVE RateInv'
    OBVIOUS
  <2>2. ASSUME NEW c \in Limited, NEW f \in Froms, OnMailFrom(c, f) PROVE RateInv'
    BY <2>1, <2>2, OnMailFromInv
  <2>3. ASSUME NEW c \in Limited, LookAtTime(c) PROVE RateInv'
    BY <2>1, <2>3, LookAtTimeInv
  <2>4. ASSUME NEW c \in Limited, cleanup(c) PROVE RateInv'
    BY <2>1, <2>4, CleanupInv
  <2>5. ASSUME NEW c \in Limited, Decide(c) PROVE RateInv'
    BY <2>1, <2>5, DecideInv
  <2>6. CASE RateTick
    BY <2>1, <2>6, RateTickInv
  <2>7. CASE UNCHANGED rateVars
    BY <2>1, <2>7 DEF rateVars, RateInv, RateTypeOK, InOnMailFrom, Counted
  <2>8. QED
    BY <2>1, <2>2, <2>3, <2>4, <2>5, <2>6, <2>7 DEF RateNext
<1>3. QED
  BY <1>1, <1>2, PTL DEF RateSpec

(* A sender gets at most twice the limit through in a period of              *)
(* window - MaxLag, whatever the interleaving of clock readings, cleanups    *)
(* and decisions (ratelimit.go:48-52, :59, :74-84).                          *)
THEOREM RateLimitRateBound == RateSpec => []RateBound
<1>1. RateInv => RateBound
  <2>1. SUFFICES ASSUME RateInv, NEW f \in Froms
                 PROVE  passed[f][window - MaxLag] <= 2 * limit
    BY DEF RateBound
  <2>2. Counted(f) /\ counts[f] \in senderCount \cup {NoCount} /\ passed[f] \in [Periods -> Nat]
    BY <2>1 DEF RateInv, RateTypeOK
  <2>3. passed[f][window - MaxLag] \in Nat
    BY <2>2 DEF Periods
  <2>4. CASE counts[f] = NoCount
    BY <2>2, <2>3, <2>4 DEF Counted
  <2>5. CASE counts[f] /= NoCount
    <3>1. counts[f].count \in Nat
      BY <2>2, <2>5 DEF senderCount
    <3>2. counts[f].count <= limit /\ passed[f][window - MaxLag] <= limit + counts[f].count
      BY <2>2, <2>5 DEF Counted
    <3>3. QED
      BY <2>3, <3>1, <3>2
  <2>6. QED
    BY <2>4, <2>5
<1>2. QED
  BY <1>1, RateLimitInvariant, PTL
----------------------------------------------------------------------------
(* The other side of the limit                                               *)

(* A longer period has at least the mails of a shorter one.                  *)
LEMMA PassedGrows ==
    ASSUME RateInv, NEW f \in Froms, NEW s \in Periods, NEW t \in Periods, s <= t
    PROVE  passed[f][s] <= passed[f][t]
<1> DEFINE Bad == {u \in Nat : s <= u /\ u <= window + MaxLag /\ ~(passed[f][s] <= passed[f][u])}
<1>1. \A u \in Periods : passed[f][u] \in Nat
  BY DEF RateInv, RateTypeOK
<1>2. SUFFICES ASSUME Bad /= {} PROVE FALSE
  BY DEF Periods
<1>3. PICK u \in Bad : \A v \in Bad : u <= v
  <2>1. Bad \in SUBSET Nat
    OBVIOUS
  <2> HIDE DEF Bad
  <2>2. QED
    BY Zenon, <1>2, <2>1, LeastNat
<1>4. u /= s /\ s \in Nat
  BY <1>1, <1>3 DEF Periods
<1>5. u - 1 \in Nat /\ s <= u - 1 /\ u \in 1..(window + MaxLag) /\ u \in Periods /\ u - 1 \in Periods
  BY <1>3, <1>4 DEF Periods
<1>6. passed[f][s] <= passed[f][u - 1]
  BY <1>3, <1>5
<1>7. passed[f][u - 1] <= passed[f][u]
  BY <1>5 DEF RateInv
<1>8. QED
  BY <1>1, <1>3, <1>5, <1>6, <1>7

(* Every step of OnMailFrom leaves the entries backed by mails let through.  *)
LEMMA DecideBacked ==
    ASSUME RateInv, BackedInv, NEW c \in Limited, Decide(c)
    PROVE  BackedInv'
<1>1. PICK s \in Froms : s = from[c]
  BY DEF RateInv, RateTypeOK, InOnMailFrom, Decide
<1>2. \A f \in Froms, t \in Periods : passed[f][t] \in Nat
  BY DEF RateInv, RateTypeOK
<1>3. CASE Answer(c, "refused") /\ UNCHANGED <<counts, passed>>
  BY <1>3 DEF BackedInv, Backed
<1>4. ASSUME Pass(c), counts'[s] \in senderCount,
             \A f \in Froms \ {s} : counts'[f] = counts[f],
             counts'[s].age \in Periods => passed[s][counts'[s].age] + 1 >= counts'[s].count
      PROVE  BackedInv'
  <2>1. \A f \in Froms, t \in Periods :
            passed'[f][t] = IF f = s THEN passed[f][t] + 1 ELSE passed[f][t]
    BY <1>1, <1>4, PassCounts DEF Pass
  <2>2. ASSUME NEW f \in Froms PROVE Backed(f)'
    <3>1. CASE f = s
      BY <1>4, <2>1, <3>1 DEF Backed
    <3>2. CASE f /= s
      BY <1>4, <2>1, <3>2 DEF BackedInv, Backed
    <3>3. QED
      BY <3>1, <3>2
  <2>3. QED
    BY <2>2 DEF BackedInv
<1>5. CASE counts' = [counts EXCEPT ![from[c]] = [count |-> 1, age |-> lag[c]]] /\ Pass(c)
  <2>1. lag[c] \in Nat /\ lag[c] \in 0..OldAge
    BY DEF RateInv, RateTypeOK, OldAge
  <2>2. counts'[s] = [count |-> 1, age |-> lag[c]] /\ \A f \in Froms \ {s} : counts'[f] = counts[f]
    BY <1>1, <1>5 DEF RateInv, RateTypeOK
  <2>3. counts'[s] \in senderCount /\ counts'[s].count = 1 /\ counts'[s].age = lag[c]
    BY <2>1, <2>2 DEF senderCount
  <2>4. counts'[s].age \in Periods => passed[s][counts'[s].age] + 1 >= counts'[s].count
    BY <1>2, <2>3
  <2>5. QED
    BY <1>4, <1>5, <2>2, <2>3, <2>4
<1>6. CASE counts[from[c]] /= NoCount /\ counts' = [counts EXCEPT ![from[c]].count = @ + 1] /\ Pass(c)
  <2>1. counts[s] \in senderCount
    BY <1>1, <1>6 DEF RateInv, RateTypeOK
  <2>2. PICK n \in Count : n = counts[s].count + 1
    BY <2>1 DEF senderCount, Count
  <2>3. counts'[s] = [counts[s] EXCEPT !.count = n] /\ \A f \in Froms \ {s} : counts'[f] = counts[f]
    BY <1>1, <1>6, <2>2 DEF RateInv, RateTypeOK
  <2>4. counts'[s] \in senderCount /\ counts'[s].count = n /\ counts'[s].age = counts[s].age
    BY <2>1, <2>2, <2>3 DEF senderCount, Count
  <2>5. Backed(s) /\ counts[s] /= NoCount /\ counts[s].count \in Nat
    BY <1>1, <1>6, <2>1 DEF BackedInv, senderCount
  <2>6. counts'[s].age \in Periods => passed[s][counts'[s].age] + 1 >= counts'[s].count
    BY <1>2, <2>2, <2>4, <2>5 DEF Backed
  <2>7. QED
    BY <1>4, <1>6, <2>3, <2>4, <2>6
<1>7. QED
  BY <1>3, <1>5, <1>6 DEF Decide

(* The clock moves an entry and the mails it counts on together.             *)
LEMMA RateTickBacked ==
    ASSUME RateInv, BackedInv, RateTick
    PROVE  BackedInv'
<1>1. SUFFICES ASSUME NEW f \in Froms, counts'[f] /= NoCount, counts'[f].age \in Periods
               PROVE  passed'[f][counts'[f].age] >= counts'[f].count
  BY DEF BackedInv, Backed
<1>2. counts[f] /= NoCount /\ counts[f] \in senderCount
  BY <1>1 DEF RateInv, RateTypeOK, RateTick
<1>3. counts'[f] = [counts[f] EXCEPT !.age = IF @ < OldAge THEN @ + 1 ELSE @]
  BY <1>2 DEF RateTick
<1>4. counts[f].age \in 0..OldAge
  BY <1>2 DEF senderCount
<1>5. PICK a \in 0..OldAge : a = IF counts[f].age < OldAge THEN counts[f].age + 1 ELSE counts[f].age
  BY <1>4 DEF OldAge
<1>6. counts'[f] = [counts[f] EXCEPT !.age = a]
  BY <1>2, <1>3, <1>5
<1>7. counts'[f].count = counts[f].count /\ counts'[f].age = a
  BY <1>2, <1>6 DEF senderCount
<1>8. a \in Periods /\ a - 1 = counts[f].age /\ a - 1 \in Periods /\ a /= 0
  BY <1>1, <1>4, <1>5, <1>7 DEF Periods, OldAge
<1>9. passed'[f][a] = passed[f][a - 1]
  BY <1>8 DEF RateTick
<1>10. QED
  BY <1>2, <1>7, <1>8, <1>9 DEF BackedInv, Backed

(* A sender is refused only if limit of its mails went through in the last   *)
(* window of the refusing caller's clock: stale clocks, cleanups and other   *)
(* callers make the limiter more generous, never stricter                    *)
(* (ratelimit.go:59, :74-84).                                                *)
THEOREM RateLimitRefusalEarned == RateSpec => RefusalEarned
<1>1. RateInit => BackedInv
  BY DEF RateInit, BackedInv, Backed
<1>2. RateInv /\ BackedInv /\ [RateNext]_rateVars => BackedInv'
  <2>1. SUFFICES ASSUME RateInv, BackedInv, [RateNext]_rateVars PROVE BackedInv'
    OBVIOUS
  <2>2. ASSUME NEW c \in Limited, cleanup(c) PROVE BackedInv'
    BY <2>1, <2>2 DEF cleanup, BackedInv, Backed
  <2>3. CASE UNCHANGED <<counts, passed>>
    BY <2>1, <2>3 DEF BackedInv, Backed
  <2>4. QED
    BY <2>1, <2>2, <2>3, DecideBacked, RateTickBacked
    DEF RateNext, OnMailFrom, LookAtTime, rateVars
<1> DEFINE Earned(c) == rate[c] /= "refused" /\ rate'[c] = "refused"
                          => passed[from[c]][window + lag[c]] >= limit
<1>3. ASSUME RateInv, BackedInv, RateNext, NEW c \in Limited, rate[c] /= "refused", rate'[c] = "refused"
      PROVE  passed[from[c]][window + lag[c]] >= limit
  <2>1. /\ Decide(c) /\ from[c] \in Froms
        /\ counts[from[c]] /= NoCount /\ ~Over(c, counts[from[c]])
        /\ counts[from[c]].count >= limit
    <3>1. rate \in [Limited -> {"idle", "look", "cleanup", "decide", "refused"}]
      BY <1>3 DEF RateInv, RateTypeOK
    <3>2. Decide(c)
      BY <1>3, <3>1, Zenon DEF RateNext, OnMailFrom, LookAtTime, cleanup, Decide, Pass, Answer, RateTick
    <3>3. from[c] \in Froms
      BY <1>3, <3>2 DEF RateInv, InOnMailFrom, Decide
    <3>4. ~Pass(c)
      BY <1>3, <3>1 DEF Pass, Answer
    <3>5. QED
      BY <3>2, <3>3, <3>4 DEF Decide
  <2>2. PICK s \in Froms : s = from[c]
    BY <2>1
  <2>3. counts[s] \in senderCount /\ lag[c] \in 0..MaxLag
    BY <1>3, <2>1, <2>2 DEF RateInv, RateTypeOK
  <2>4. counts[s].age \in Nat /\ counts[s].count \in Nat
    BY <2>3 DEF senderCount, OldAge
  <2>5. counts[s].age <= window + lag[c] /\ counts[s].age \in Periods /\ window + lag[c] \in Periods
    BY <2>1, <2>2, <2>3, <2>4 DEF Over, Periods
  <2>6. passed[s][counts[s].age] >= counts[s].count
    BY <1>3, <2>1, <2>2, <2>5 DEF BackedInv, Backed
  <2>7. passed[s][counts[s].age] <= passed[s][window + lag[c]]
    BY <1>3, <2>5, PassedGrows
  <2>8. passed[s][counts[s].age] \in Nat /\ passed[s][window + lag[c]] \in Nat
    BY <1>3, <2>5 DEF RateInv, RateTypeOK
  <2>9. QED
    BY <2>1, <2>2, <2>4, <2>6, <2>7, <2>8
<1>4. RateInv /\ BackedInv /\ [RateNext]_rateVars => [\A c \in Limited : Earned(c)]_rateVars
  BY <1>3
<1> HIDE DEF Earned
<1>5. RateSpec => [][\A c \in Limited : Earned(c)]_rateVars
  BY <1>1, <1>2, <1>4, RateLimitInvariant, PTL DEF RateSpec
<1>6. QED
  BY <1>5 DEF RefusalEarned, Earned
============================================================================
