------------------------- MODULE RateLimiterProofs -------------------------
(***************************************************************************)
(* Theorems about RateLimiter, for every set of clients and every value of  *)
(* the constants that meets LimiterAssumption and RefillBeforePrune.        *)
(***************************************************************************)
EXTENDS RateLimiter, TLAPS

\* Date.now() runs at most MaxBack behind its highest reading.
ClockInv == now <= high /\ high - now <= MaxBack

\* What a bucket in the map can hold.  The second conjunct is what survives
\* a clock correction: a bucket's debt is covered by the stretch of time
\* between its last refill and the highest reading of the clock.
BucketInv ==
    \A k \in DOMAIN buckets :
        /\ buckets[k].lastRefill <= high
        /\ buckets[k].tokens <= Capacity
        /\ 0 <= buckets[k].tokens + Rate * (high - buckets[k].lastRefill)
        /\ -(Rate * MaxBack) <= buckets[k].tokens

\* A client that kept its distance always leaves a full bucket less one token.
PacedInv ==
    \A k \in paced \cap DOMAIN buckets : Capacity - Cost <= buckets[k].tokens

\* The pruning timer has fired recently enough for every bucket in the map.
AgeInv ==
    Pruning => \A k \in DOMAIN buckets :
                   high - buckets[k].lastRefill <= MaxAge + MaxBack + timer

IInv == TypeOK /\ ClockInv /\ BucketInv

-----------------------------------------------------------------------------
\* Products with the refill rate are monotone.
LEMMA RateMonotone ==
    ASSUME NEW a \in Int, NEW b \in Int, a <= b
    PROVE  Rate * a <= Rate * b
<1>1. PICK d \in Nat : b = a + d
    <2>1. b - a \in Nat /\ b = a + (b - a)
        OBVIOUS
    <2> QED BY <2>1
<1>2. Rate \in Nat
    BY LimiterAssumption
<1>3. Rate * d >= 0
    BY <1>2
<1>4. Rate * (a + d) = Rate * a + Rate * d
    BY <1>2
<1> QED BY <1>1, <1>2, <1>3, <1>4

\* The products of the bucket arithmetic are integers, and distribute.
LEMMA RateProduct ==
    /\ \A a \in Int : Rate * a \in Int
    /\ \A a, b \in Int : Rate * (a + b) = Rate * a + Rate * b
    /\ \A a, b \in Int : Rate * (a - b) = Rate * a - Rate * b
    /\ \A a \in Nat : Rate * a \in Nat
BY LimiterAssumption

\* A refilled bucket is never above its capacity and is exact below it.
LEMMA RefilledFacts ==
    ASSUME NEW b \in Bucket, NEW t \in Nat
    PROVE  /\ Refilled(b, t) \in Int
           /\ Refilled(b, t) <= Capacity
           /\ Refilled(b, t) <= b.tokens + Rate * (t - b.lastRefill)
           /\ \/ Refilled(b, t) = Capacity
              \/ Refilled(b, t) = b.tokens + Rate * (t - b.lastRefill)
<1> DEFINE raw == b.tokens + Rate * (t - b.lastRefill)
<1>1. b.tokens \in Int /\ b.lastRefill \in Int
    BY DEF Bucket
<1>2. t - b.lastRefill \in Int
    BY <1>1
<1>3. Rate * (t - b.lastRefill) \in Int
    BY <1>2, RateProduct
<1>4. raw \in Int
    BY <1>1, <1>3
<1>5. Capacity \in Int
    BY LimiterAssumption
<1>6. Refilled(b, t) = IF Capacity <= raw THEN Capacity ELSE raw
    BY DEF Refilled, Min2
<1> HIDE DEF raw
<1>7. /\ Refilled(b, t) \in Int
      /\ Refilled(b, t) <= Capacity
      /\ Refilled(b, t) <= raw
      /\ Refilled(b, t) = Capacity \/ Refilled(b, t) = raw
    BY <1>4, <1>5, <1>6
<1> QED BY <1>7 DEF raw

\* The bucket allow() works on is a bucket.
LEMMA BucketOfType ==
    ASSUME TypeOK, NEW k \in Keys
    PROVE  BucketOf(k) \in Bucket
BY LimiterAssumption DEF TypeOK, BucketOf, Bucket

-----------------------------------------------------------------------------
\* Reading a bucket of the map: its fields, and that BucketOf returns it.
LEMMA InMap ==
    ASSUME TypeOK, NEW k \in DOMAIN buckets
    PROVE  /\ k \in Keys
           /\ BucketOf(k) = buckets[k]
           /\ buckets[k] \in Bucket
           /\ buckets[k].tokens \in Int
           /\ buckets[k].lastRefill \in Nat
BY DEF TypeOK, BucketOf, Bucket

\* What allow() leaves behind for the key it was called with.
LEMMA LeftOver ==
    ASSUME TypeOK, ClockInv, BucketInv, NEW k \in Keys
    PROVE  LET r == Refilled(BucketOf(k), now)
           IN  /\ r \in Int
               /\ r <= Capacity
               /\ -(Rate * (high - now)) <= r
               /\ -(Rate * MaxBack) <= r
<1> DEFINE r == Refilled(BucketOf(k), now)
<1> DEFINE b == BucketOf(k)
<1>1. b \in Bucket /\ now \in Nat /\ high \in Nat
    BY BucketOfType DEF TypeOK
<1>2. /\ r \in Int
      /\ r <= Capacity
      /\ r = Capacity \/ r = b.tokens + Rate * (now - b.lastRefill)
    BY <1>1, RefilledFacts
<1>3. b.tokens \in Int /\ b.lastRefill \in Nat
    BY <1>1 DEF Bucket
<1>4. 0 <= b.tokens + Rate * (high - b.lastRefill)
    <2>1. CASE k \in DOMAIN buckets
        BY <2>1 DEF BucketInv, BucketOf
    <2>2. CASE k \notin DOMAIN buckets
        <3>1. b.tokens = Capacity /\ b.lastRefill = now
            BY <2>2 DEF BucketOf
        <3>2. high - now \in Nat
            BY <1>1 DEF ClockInv
        <3>3. Rate * (high - now) \in Nat
            BY <3>2, RateProduct
        <3> QED BY <3>1, <3>3, LimiterAssumption
    <2> QED BY <2>1, <2>2
<1> HIDE DEF r, b
<1>5. /\ Rate * (high - b.lastRefill) = Rate * high - Rate * b.lastRefill
      /\ Rate * (now - b.lastRefill) = Rate * now - Rate * b.lastRefill
      /\ Rate * (high - now) = Rate * high - Rate * now
      /\ Rate * high \in Nat /\ Rate * now \in Nat /\ Rate * b.lastRefill \in Nat
    <2>1. high \in Int /\ now \in Int /\ b.lastRefill \in Int
        BY <1>1, <1>3
    <2>2. /\ Rate * (high - b.lastRefill) = Rate * high - Rate * b.lastRefill
          /\ Rate * (now - b.lastRefill) = Rate * now - Rate * b.lastRefill
          /\ Rate * (high - now) = Rate * high - Rate * now
        BY <2>1, RateProduct
    <2>3. Rate * high \in Nat /\ Rate * now \in Nat /\ Rate * b.lastRefill \in Nat
        BY <1>1, <1>3, RateProduct
    <2> QED BY <2>2, <2>3
<1>6. Rate * now <= Rate * high
    BY <1>1, RateMonotone DEF ClockInv
<1>7. Rate * (high - now) <= Rate * MaxBack /\ Rate * MaxBack \in Nat
    BY <1>1, RateMonotone, RateProduct, LimiterAssumption DEF ClockInv
<1>8. -(Rate * (high - now)) <= r
    BY <1>2, <1>3, <1>4, <1>5, <1>6, LimiterAssumption
<1>9. -(Rate * MaxBack) <= r
    BY <1>2, <1>5, <1>7, <1>8
<1> QED BY <1>2, <1>8, <1>9 DEF r

-----------------------------------------------------------------------------
\* The initial states satisfy the inductive invariant.
LEMMA InitIInv == Init => IInv
<1> SUFFICES ASSUME Init PROVE IInv
    OBVIOUS
<1>1. now \in Nat /\ now <= MaxBack
    BY LimiterAssumption DEF Init
<1>2. DOMAIN buckets = {}
    BY DEF Init
<1>3. TypeOK
    <2>1. buckets \in [DOMAIN buckets -> Bucket] /\ DOMAIN buckets \subseteq Keys
        BY DEF Init
    <2>2. timer \in 0 .. Period
        BY LimiterAssumption DEF Init
    <2>3. answer \in [key : Keys, ok : BOOLEAN]
        BY DEF Init
    <2> QED BY <1>1, <2>1, <2>2, <2>3 DEF Init, TypeOK
<1>4. ClockInv
    BY <1>1, LimiterAssumption DEF Init, ClockInv
<1>5. BucketInv
    BY <1>2 DEF BucketInv
<1> QED BY <1>3, <1>4, <1>5 DEF IInv

\* allow() preserves the inductive invariant.
LEMMA AllowIInv ==
    ASSUME IInv, NEW k \in Keys, Allow(k)
    PROVE  IInv'
<1> DEFINE r == Refilled(BucketOf(k), now)
           left == IF r >= Cost THEN r - Cost ELSE r
<1> USE DEF IInv
<1>1. /\ r \in Int /\ r <= Capacity
      /\ -(Rate * (high - now)) <= r
      /\ -(Rate * MaxBack) <= r
    BY LeftOver
<1>2. now \in Nat /\ high \in Nat /\ now' = now /\ high' = high
    BY DEF TypeOK, Allow, clock
<1>3. Rate * (high - now) \in Nat /\ Rate * MaxBack \in Nat
    <2>1. high - now \in Nat
        BY <1>2 DEF ClockInv
    <2> QED BY <2>1, RateProduct, LimiterAssumption
<1>4. buckets' = [j \in DOMAIN buckets \cup {k} |->
                     IF j = k THEN [tokens |-> left, lastRefill |-> now]
                     ELSE buckets[j]]
    BY DEF Allow
<1> HIDE DEF r
<1>5. /\ left \in Int /\ left <= Capacity
      /\ -(Rate * (high - now)) <= left
      /\ -(Rate * MaxBack) <= left
    BY <1>1, <1>3, LimiterAssumption
<1> HIDE DEF left
<1>6. TypeOK'
    <2>1. DOMAIN buckets' \subseteq Keys
        BY <1>4 DEF TypeOK
    <2>2. buckets' \in [DOMAIN buckets' -> Bucket]
        <3>1. [tokens |-> left, lastRefill |-> now] \in Bucket
            BY <1>2, <1>5 DEF Bucket
        <3> QED BY <1>4, <3>1 DEF TypeOK
    <2>3. answer' \in [key : Keys, ok : BOOLEAN]
        BY DEF Allow
    <2>4. granted' \in Nat
        BY DEF Allow, TypeOK
    <2>5. paced' \subseteq Keys
        BY DEF Allow, TypeOK
    <2> QED BY <2>1, <2>2, <2>3, <2>4, <2>5 DEF TypeOK, Allow, clock
<1>7. ClockInv'
    BY <1>2 DEF ClockInv
<1>8. BucketInv'
    <2> SUFFICES ASSUME NEW j \in DOMAIN buckets'
                 PROVE  /\ buckets'[j].lastRefill <= high'
                        /\ buckets'[j].tokens <= Capacity
                        /\ 0 <= buckets'[j].tokens
                                  + Rate * (high' - buckets'[j].lastRefill)
                        /\ -(Rate * MaxBack) <= buckets'[j].tokens
        BY DEF BucketInv
    <2>1. CASE j = k
        <3>1. buckets'[j].tokens = left /\ buckets'[j].lastRefill = now
            BY <1>4, <2>1
        <3> QED BY <3>1, <1>2, <1>3, <1>5 DEF ClockInv
    <2>2. CASE j # k
        BY <1>2, <1>4, <2>2 DEF BucketInv
    <2> QED BY <2>1, <2>2
<1> QED BY <1>6, <1>7, <1>8

\* prune() preserves the inductive invariant: the buckets that stay are unchanged.
LEMMA PruneIInv ==
    ASSUME IInv, Prune
    PROVE  IInv'
<1> USE DEF IInv
<1>1. /\ DOMAIN buckets' \subseteq DOMAIN buckets
      /\ \A k \in DOMAIN buckets' : buckets'[k] = buckets[k]
      /\ buckets' \in [DOMAIN buckets' -> Bucket]
    BY DEF Prune, TypeOK
<1>2. now' = now /\ high' = high
    BY DEF Prune, clock
<1>3. TypeOK'
    BY <1>1, LimiterAssumption DEF Prune, TypeOK, clock, window
<1>4. ClockInv'
    BY <1>2 DEF ClockInv
<1>5. BucketInv'
    BY <1>1, <1>2 DEF BucketInv
<1> QED BY <1>3, <1>4, <1>5

\* Passing time preserves the inductive invariant: a debt only shrinks.
LEMMA AdvanceIInv ==
    ASSUME IInv, Advance
    PROVE  IInv'
<1> USE DEF IInv
<1>1. now \in Nat /\ high \in Nat /\ now <= high /\ high - now <= MaxBack
    BY DEF TypeOK, ClockInv
<1>2. now' = now + 1 /\ high' = (IF now + 1 > high THEN now + 1 ELSE high)
    BY DEF Advance
<1>3. buckets' = buckets
    BY DEF Advance
<1>4. TypeOK'
    <2>1. timer' \in 0 .. Period
        BY LimiterAssumption DEF Advance, TypeOK
    <2> QED BY <1>1, <1>2, <1>3, <2>1 DEF Advance, TypeOK
<1>5. ClockInv'
    BY <1>1, <1>2, LimiterAssumption DEF ClockInv
<1>6. BucketInv'
    <2> SUFFICES ASSUME NEW k \in DOMAIN buckets
                 PROVE  /\ buckets[k].lastRefill <= high'
                        /\ 0 <= buckets[k].tokens
                                  + Rate * (high' - buckets[k].lastRefill)
        BY <1>3 DEF BucketInv
    <2>1. buckets[k].tokens \in Int /\ buckets[k].lastRefill \in Nat
        BY InMap
    <2>2. high' \in Nat /\ high <= high'
        BY <1>1, <1>2
    <2>3. /\ high - buckets[k].lastRefill \in Int
          /\ high' - buckets[k].lastRefill \in Int
          /\ high - buckets[k].lastRefill <= high' - buckets[k].lastRefill
        BY <1>1, <2>1, <2>2
    <2>4. Rate * (high - buckets[k].lastRefill)
            <= Rate * (high' - buckets[k].lastRefill)
        BY <2>3, RateMonotone
    <2>5. /\ Rate * (high - buckets[k].lastRefill) \in Int
          /\ Rate * (high' - buckets[k].lastRefill) \in Int
        BY <2>3, RateProduct
    <2>6. /\ buckets[k].lastRefill <= high
          /\ 0 <= buckets[k].tokens + Rate * (high - buckets[k].lastRefill)
        BY DEF BucketInv
    <2>7. buckets[k].lastRefill <= high'
        BY <1>1, <2>1, <2>2, <2>6
    <2>8. 0 <= buckets[k].tokens + Rate * (high' - buckets[k].lastRefill)
        BY <2>1, <2>4, <2>5, <2>6
    <2> QED BY <2>7, <2>8
<1> QED BY <1>4, <1>5, <1>6

\* A clock correction touches no bucket and stays within MaxBack.
LEMMA SetClockIInv ==
    ASSUME IInv, NEW t \in 0 .. Horizon, SetClock(t)
    PROVE  IInv'
<1> USE DEF IInv
<1>1. now' = t /\ high' = high /\ buckets' = buckets /\ t \in Nat
    BY LimiterAssumption DEF SetClock
<1>2. forward' \in Nat
    BY LimiterAssumption DEF SetClock, TypeOK
<1>3. TypeOK'
    BY <1>1, <1>2 DEF SetClock, TypeOK
<1>4. ClockInv'
    BY <1>1 DEF SetClock, ClockInv
<1>5. BucketInv'
    BY <1>1 DEF BucketInv
<1> QED BY <1>3, <1>4, <1>5

\* Every step preserves the inductive invariant.
LEMMA NextIInv == IInv /\ [Next]_vars => IInv'
<1> SUFFICES ASSUME IInv, [Next]_vars PROVE IInv'
    OBVIOUS
<1>1. ASSUME NEW k \in Keys, Allow(k) PROVE IInv'
    BY <1>1, AllowIInv
<1>2. ASSUME NEW k \in Keys, Observe(k) PROVE IInv'
    BY <1>2 DEF Observe, IInv, TypeOK, ClockInv, BucketInv, clock
<1>3. CASE Prune
    BY <1>3, PruneIInv
<1>4. CASE Advance
    BY <1>4, AdvanceIInv
<1>5. ASSUME NEW t \in 0 .. Horizon, SetClock(t) PROVE IInv'
    BY <1>5, SetClockIInv
<1>6. CASE UNCHANGED vars
    BY <1>6 DEF vars, IInv, TypeOK, ClockInv, BucketInv
<1> QED BY <1>1, <1>2, <1>3, <1>4, <1>5, <1>6 DEF Next

\* Every reachable state satisfies the inductive invariant.
LEMMA AlwaysIInv == Spec => []IInv
BY InitIInv, NextIInv, PTL DEF Spec

\* Every variable keeps its type.
THEOREM Typing == Spec => []TypeOK
<1>1. IInv => TypeOK
    BY DEF IInv
<1> QED BY <1>1, AlwaysIInv, PTL

\* No bucket's debt exceeds what the clock was set back by.
THEOREM Debt == Spec => []DebtBounded
<1>1. IInv => DebtBounded
    BY DEF IInv, BucketInv, DebtBounded
<1> QED BY <1>1, AlwaysIInv, PTL

-----------------------------------------------------------------------------
(***************************************************************************)
(* How the level of a bucket moves.  The first two lemmas are about buckets *)
(* and times, so that they apply to both ends of a step.                    *)
(***************************************************************************)

\* Lazy refill is exact: refilling at t + d is refilling at t and then adding
\* what d is worth, whatever the clock did in between.
LEMMA RefilledLater ==
    ASSUME NEW b \in Bucket, NEW t \in Nat, NEW d \in Nat
    PROVE  /\ Rate * d \in Nat
           /\ Refilled(b, t) \in Int
           /\ Refilled(b, t + d) = Min2(Capacity, Refilled(b, t) + Rate * d)
<1> DEFINE u == b.tokens + Rate * (t - b.lastRefill)
           v == b.tokens + Rate * ((t + d) - b.lastRefill)
           e == Rate * d
<1>1. b.tokens \in Int /\ b.lastRefill \in Int
    BY DEF Bucket
<1>2. t - b.lastRefill \in Int /\ d \in Int /\ (t + d) - b.lastRefill = (t - b.lastRefill) + d
    BY <1>1
<1>3. Rate * ((t + d) - b.lastRefill) = Rate * (t - b.lastRefill) + Rate * d
    BY <1>2, RateProduct
<1>4. Rate * (t - b.lastRefill) \in Int
    BY <1>2, RateProduct
<1>5. e \in Nat
    BY RateProduct
<1>6. u \in Int /\ v = u + e
    BY <1>1, <1>3, <1>4, <1>5
<1>7. Refilled(b, t) = Min2(Capacity, u) /\ Refilled(b, t + d) = Min2(Capacity, v)
    BY DEF Refilled
<1> HIDE DEF u, v, e
<1>8. /\ Min2(Capacity, u) \in Int
      /\ Min2(Capacity, v) = Min2(Capacity, Min2(Capacity, u) + e)
    BY <1>5, <1>6, LimiterAssumption DEF Min2
<1> QED BY <1>5, <1>7, <1>8 DEF e

\* A bucket just refilled holds what it was left with.
LEMMA RefilledNow ==
    ASSUME NEW n \in Int, NEW t \in Nat, n <= Capacity
    PROVE  Refilled([tokens |-> n, lastRefill |-> t], t) = n
<1>1. t - t = 0 /\ Rate * 0 = 0
    BY LimiterAssumption
<1>2. n + Rate * (t - t) = n
    BY <1>1
<1> QED BY <1>2, LimiterAssumption DEF Refilled, Min2

\* allow() takes the cost from the level of an admitted key and leaves every
\* other level alone.
LEMMA AllowLevel ==
    ASSUME IInv, NEW k \in Keys, Allow(k), NEW j \in Keys
    PROVE  /\ Level(k) \in Int
           /\ answer' = [key |-> k, ok |-> Level(k) >= Cost]
           /\ j # k => Level(j)' = Level(j)
           /\ Level(k) >= Cost => Level(k)' = Level(k) - Cost
           /\ ~(Level(k) >= Cost) => Level(k)' = Level(k)
<1> USE DEF IInv
<1> DEFINE r == Refilled(BucketOf(k), now)
           left == IF r >= Cost THEN r - Cost ELSE r
<1>1. r \in Int /\ r <= Capacity /\ r = Level(k)
    BY LeftOver DEF Level
<1>2. buckets' = [i \in DOMAIN buckets \cup {k} |->
                     IF i = k THEN [tokens |-> left, lastRefill |-> now]
                     ELSE buckets[i]]
    BY DEF Allow
<1>3. now' = now /\ now \in Nat
    BY DEF Allow, clock, TypeOK
<1>4. answer' = [key |-> k, ok |-> Level(k) >= Cost]
    BY DEF Allow, Level
<1> HIDE DEF r
<1>5. left \in Int /\ left <= Capacity
    BY <1>1, LimiterAssumption
<1> HIDE DEF left
<1>6. BucketOf(k)' = [tokens |-> left, lastRefill |-> now]
    BY <1>2 DEF BucketOf
<1>7. Level(k)' = left
    BY <1>3, <1>5, <1>6, RefilledNow DEF Level
<1>8. ASSUME j # k PROVE Level(j)' = Level(j)
    <2>1. BucketOf(j)' = BucketOf(j)
        BY <1>2, <1>3, <1>8 DEF BucketOf
    <2> QED BY <2>1, <1>3 DEF Level
<1> QED BY <1>1, <1>4, <1>7, <1>8 DEF left

\* prune() changes no level: what it forgets has refilled completely.
LEMMA PruneLevel ==
    ASSUME IInv, Prune, NEW k \in Keys
    PROVE  Level(k)' = Level(k)
<1> USE DEF IInv
<1>1. now' = now /\ now \in Nat /\ high \in Nat
    BY DEF Prune, clock, TypeOK
<1>2. CASE k \in DOMAIN buckets'
    <2>1. k \in DOMAIN buckets /\ buckets'[k] = buckets[k]
        BY <1>2 DEF Prune
    <2> QED BY <2>1, <1>1, <1>2 DEF Level, BucketOf
<1>3. CASE k \notin DOMAIN buckets'
    <2>1. Level(k)' = Capacity
        <3>1. BucketOf(k)' = [tokens |-> Capacity, lastRefill |-> now']
            BY <1>3 DEF BucketOf
        <3> QED BY <3>1, <1>1, RefilledNow, LimiterAssumption DEF Level
    <2>2. CASE k \notin DOMAIN buckets
        <3>1. BucketOf(k) = [tokens |-> Capacity, lastRefill |-> now]
            BY <2>2 DEF BucketOf
        <3> QED BY <3>1, <2>1, <1>1, RefilledNow, LimiterAssumption DEF Level
    <2>3. CASE k \in DOMAIN buckets
        <3> DEFINE b == buckets[k]
        <3>1. b.tokens \in Int /\ b.lastRefill \in Nat /\ BucketOf(k) = b
            BY <2>3, InMap
        <3>2. now - b.lastRefill > MaxAge
            BY <1>3, <2>3 DEF Prune
        <3>3. -(Rate * MaxBack) <= b.tokens
            BY <2>3 DEF BucketInv
        <3> HIDE DEF b
        <3>4. Rate * MaxAge <= Rate * (now - b.lastRefill)
            BY <1>1, <3>1, <3>2, RateMonotone, LimiterAssumption
        <3>5. Capacity <= Rate * MaxAge - Rate * MaxBack
            BY RefillBeforePrune, RateProduct, LimiterAssumption
        <3>6. /\ Rate * MaxAge \in Int /\ Rate * MaxBack \in Int
              /\ Rate * (now - b.lastRefill) \in Int
            BY <1>1, <3>1, RateProduct, LimiterAssumption
        <3>7. Capacity <= b.tokens + Rate * (now - b.lastRefill)
            BY <3>1, <3>3, <3>4, <3>5, <3>6, LimiterAssumption
        <3>8. Level(k) = Capacity
            BY <3>1, <3>7 DEF Level, Refilled, Min2
        <3> QED BY <2>1, <3>8
    <2> QED BY <2>2, <2>3
<1> QED BY <1>2, <1>3

\* The clock forward by d adds Rate * d, up to the capacity.
LEMMA ForwardLevel ==
    ASSUME IInv, NEW d \in Nat, now' = now + d, buckets' = buckets, NEW k \in Keys
    PROVE  /\ Rate * d \in Nat
           /\ Level(k) \in Int /\ Level(k) <= Capacity
           /\ Level(k)' = Min2(Capacity, Level(k) + Rate * d)
<1> USE DEF IInv
<1>1. now \in Nat
    BY DEF TypeOK
<1>2. Rate * d \in Nat
    BY RateProduct
<1>3. CASE k \in DOMAIN buckets
    <2>1. BucketOf(k) \in Bucket /\ BucketOf(k)' = BucketOf(k)
        BY <1>3, BucketOfType DEF BucketOf
    <2>2. /\ Level(k) = Refilled(BucketOf(k), now)
          /\ Level(k)' = Refilled(BucketOf(k), now + d)
        BY <2>1 DEF Level
    <2>3. /\ Refilled(BucketOf(k), now) \in Int
          /\ Refilled(BucketOf(k), now) <= Capacity
        BY <1>1, <2>1, RefilledFacts
    <2>4. Refilled(BucketOf(k), now + d)
            = Min2(Capacity, Refilled(BucketOf(k), now) + Rate * d)
        BY <1>1, <2>1, RefilledLater
    <2> QED BY <1>2, <2>2, <2>3, <2>4
<1>4. CASE k \notin DOMAIN buckets
    <2>1. /\ BucketOf(k) = [tokens |-> Capacity, lastRefill |-> now]
          /\ BucketOf(k)' = [tokens |-> Capacity, lastRefill |-> now']
        BY <1>4 DEF BucketOf
    <2>2. now' \in Nat /\ Capacity \in Int /\ Capacity <= Capacity
        BY <1>1, LimiterAssumption
    <2>3. Level(k) = Capacity /\ Level(k)' = Capacity
        BY <1>1, <2>1, <2>2, RefilledNow DEF Level
    <2> QED BY <1>2, <2>3, LimiterAssumption DEF Min2
<1> QED BY <1>3, <1>4

\* The clock back by d takes at most Rate * d, and never adds.
LEMMA BackLevel ==
    ASSUME IInv, NEW d \in Nat, now' \in Nat, now = now' + d, buckets' = buckets,
           NEW k \in Keys
    PROVE  /\ Level(k)' \in Int
           /\ Level(k)' <= Level(k)
           /\ Level(k) - Rate * d <= Level(k)'
<1> USE DEF IInv
<1>1. Rate * d \in Nat
    BY RateProduct
<1>2. CASE k \in DOMAIN buckets
    <2>1. BucketOf(k) \in Bucket /\ BucketOf(k)' = BucketOf(k)
        BY <1>2, BucketOfType DEF BucketOf
    <2>2. /\ Level(k)' \in Int /\ Level(k)' <= Capacity
          /\ Level(k) = Min2(Capacity, Level(k)' + Rate * d)
        BY <2>1, RefilledLater, RefilledFacts DEF Level
    <2> QED BY <1>1, <2>2, LimiterAssumption DEF Min2
<1>3. CASE k \notin DOMAIN buckets
    <2>1. /\ BucketOf(k) = [tokens |-> Capacity, lastRefill |-> now]
          /\ BucketOf(k)' = [tokens |-> Capacity, lastRefill |-> now']
        BY <1>3 DEF BucketOf
    <2>2. now \in Nat /\ Capacity \in Int /\ Capacity <= Capacity
        BY LimiterAssumption DEF TypeOK
    <2>3. Level(k) = Capacity /\ Level(k)' = Capacity
        BY <2>1, <2>2, RefilledNow DEF Level
    <2> QED BY <1>1, <2>3, LimiterAssumption
<1> QED BY <1>2, <1>3

-----------------------------------------------------------------------------
\* The clock's movement in a step that keeps the map, as a forward or a
\* backward distance.
LEMMA ClockMoves ==
    ASSUME IInv, NEW t \in 0 .. Horizon, SetClock(t)
    PROVE  /\ buckets' = buckets /\ now' = t /\ now' \in Nat /\ answer' = answer
           /\ watched' = watched /\ granted' = granted /\ paced' = paced
           /\ \/ /\ t - now \in Nat /\ now' = now + (t - now)
                 /\ t - now <= MaxBack + 1
                 /\ forward' = forward + (t - now)
              \/ /\ now - t \in Nat /\ now = now' + (now - t)
                 /\ now - t <= MaxBack + 1
                 /\ forward' = forward
<1>1. now \in Nat /\ high \in Nat /\ now <= high /\ high - now <= MaxBack
    BY DEF IInv, TypeOK, ClockInv
<1>2. /\ t \in Nat /\ now' = t /\ t <= high /\ high - t <= MaxBack
      /\ forward' = (IF t > now THEN forward + (t - now) ELSE forward)
    BY LimiterAssumption DEF SetClock
<1>3. /\ buckets' = buckets /\ answer' = answer
      /\ watched' = watched /\ granted' = granted /\ paced' = paced
    BY DEF SetClock
<1>4. CASE t > now
    BY <1>1, <1>2, <1>3, <1>4, LimiterAssumption
<1>5. CASE ~(t > now)
    BY <1>1, <1>2, <1>3, <1>5, LimiterAssumption
<1> QED BY <1>4, <1>5

\* Passing time is a forward movement by one.
LEMMA AdvanceMoves ==
    ASSUME IInv, Advance
    PROVE  /\ buckets' = buckets /\ now' = now + 1 /\ forward' = forward + 1
           /\ answer' = answer /\ watched' = watched /\ granted' = granted
           /\ paced' = paced
BY DEF Advance

\* Every step preserves the window bound, given the inductive invariant.
LEMMA NextWindow ==
    ASSUME IInv, WindowBound, [Next]_vars
    PROVE  WindowBound'
<1> DEFINE spent == granted * Cost
<1>0. /\ granted \in Nat /\ forward \in Nat /\ watched \in Keys /\ Level(watched) \in Int
      /\ Level(watched) <= Capacity /\ Capacity \in Int /\ Cost \in Int /\ Rate \in Nat
    <2>1. BucketOf(watched) \in Bucket /\ now \in Nat
        BY BucketOfType DEF IInv, TypeOK
    <2>2. Level(watched) \in Int /\ Level(watched) <= Capacity
        BY <2>1, RefilledFacts DEF Level
    <2> QED BY <2>2, LimiterAssumption DEF IInv, TypeOK
<1>1. spent \in Int /\ Rate * forward \in Int
    BY <1>0
<1>2. spent + Level(watched) <= Capacity + Rate * forward
    BY DEF WindowBound
<1>3. ASSUME NEW k \in Keys, Allow(k) PROVE WindowBound'
    <2>1. /\ watched' = watched /\ forward' = forward
          /\ granted' = IF Level(k) >= Cost /\ k = watched THEN granted + 1 ELSE granted
        BY <1>3 DEF Allow, Level
    <2>2. CASE Level(k) >= Cost /\ k = watched
        <3>1. (granted + 1) * Cost = spent + Cost
            BY <1>0
        <3>2. Level(watched)' = Level(watched) - Cost
            BY <1>3, <2>1, <2>2, AllowLevel
        <3> QED BY <1>0, <1>1, <1>2, <2>1, <2>2, <3>1, <3>2 DEF WindowBound
    <2>3. CASE ~(Level(k) >= Cost /\ k = watched)
        <3>1. Level(watched)' = Level(watched)
            BY <1>0, <1>3, <2>1, <2>3, AllowLevel
        <3> QED BY <1>2, <2>1, <2>3, <3>1 DEF WindowBound
    <2> QED BY <2>2, <2>3
<1>4. ASSUME NEW k \in Keys, Observe(k) PROVE WindowBound'
    <2>1. watched' = k /\ forward' = 0 /\ granted' = 0 /\ now' = now /\ buckets' = buckets
        BY <1>4 DEF Observe, clock
    <2>2. BucketOf(k) \in Bucket /\ now \in Nat
        BY BucketOfType DEF IInv, TypeOK
    <2>3. Level(k) \in Int /\ Level(k) <= Capacity
        BY <2>2, RefilledFacts DEF Level
    <2>4. Level(watched)' = Level(k)
        BY <2>1 DEF Level, BucketOf
    <2> QED BY <1>0, <2>1, <2>3, <2>4 DEF WindowBound
<1>5. CASE Prune
    <2>1. watched' = watched /\ forward' = forward /\ granted' = granted
        BY <1>5 DEF Prune, window
    <2>2. Level(watched)' = Level(watched)
        BY <1>0, <1>5, <2>1, PruneLevel
    <2> QED BY <1>2, <2>1, <2>2 DEF WindowBound
<1>6. ASSUME NEW d \in Nat, now' = now + d, buckets' = buckets, watched' = watched,
             granted' = granted, forward' = forward + d
      PROVE  WindowBound'
    <2>1. Rate * d \in Nat /\ Level(watched)' = Min2(Capacity, Level(watched) + Rate * d)
        BY <1>0, <1>6, ForwardLevel
    <2>2. Rate * (forward + d) = Rate * forward + Rate * d
        BY <1>0
    <2>3. Level(watched)' <= Level(watched) + Rate * d /\ Level(watched)' \in Int
        BY <1>0, <2>1 DEF Min2
    <2> QED BY <1>0, <1>1, <1>2, <1>6, <2>1, <2>2, <2>3 DEF WindowBound
<1>7. CASE Advance
    BY <1>6, <1>7, AdvanceMoves
<1>8. ASSUME NEW t \in 0 .. Horizon, SetClock(t) PROVE WindowBound'
    <2>1. CASE /\ t - now \in Nat /\ now' = now + (t - now)
               /\ forward' = forward + (t - now)
        BY <1>6, <1>8, <2>1, ClockMoves
    <2>2. CASE /\ now - t \in Nat /\ now = now' + (now - t) /\ forward' = forward
        <3>1. Level(watched)' <= Level(watched) /\ Level(watched)' \in Int
            BY <1>0, <1>8, <2>2, ClockMoves, BackLevel
        <3> QED BY <1>0, <1>1, <1>2, <1>8, <2>2, <3>1, ClockMoves DEF WindowBound
    <2> QED BY <1>8, <2>1, <2>2, ClockMoves
<1>9. CASE UNCHANGED vars
    BY <1>2, <1>9 DEF vars, WindowBound, Level, BucketOf
<1> QED BY <1>3, <1>4, <1>5, <1>7, <1>8, <1>9 DEF Next

\* In no window, however placed, is a client admitted more often than one full
\* bucket and the window's refill allow: for every capacity, rate and age the
\* assumptions admit, across pruning and clock corrections.
THEOREM Window == Spec => []WindowBound
<1>1. Init => WindowBound
    <2> SUFFICES ASSUME Init PROVE WindowBound
        OBVIOUS
    <2>1. IInv
        BY InitIInv
    <2>2. watched \in Keys /\ granted = 0 /\ forward = 0 /\ now \in Nat
        BY <2>1 DEF Init, IInv, TypeOK
    <2>3. BucketOf(watched) \in Bucket
        BY <2>1, <2>2, BucketOfType DEF IInv
    <2>4. Level(watched) \in Int /\ Level(watched) <= Capacity
        BY <2>2, <2>3, RefilledFacts DEF Level
    <2> QED BY <2>2, <2>4, LimiterAssumption DEF WindowBound
<1>2. IInv /\ WindowBound /\ [Next]_vars => WindowBound'
    BY NextWindow
<1> QED BY <1>1, <1>2, AlwaysIInv, PTL DEF Spec

-----------------------------------------------------------------------------
\* A client that kept its distance up to now finds a whole token: its bucket
\* is either not in the map (full) or has refilled the one it paid last time.
LEMMA PacedLevel ==
    ASSUME IInv, PacedInv, NEW k \in paced, KeepsDistance(k)
    PROVE  Level(k) = Capacity
<1> USE DEF IInv
<1>1. k \in Keys /\ now \in Nat
    BY DEF TypeOK
<1>2. CASE k \in DOMAIN buckets
    <2> DEFINE b == buckets[k]
    <2>1. b.tokens \in Int /\ b.lastRefill \in Nat /\ BucketOf(k) = b
        BY <1>2, InMap
    <2>2. Capacity - Cost <= b.tokens /\ Rate * (now - b.lastRefill) >= Cost
        BY <1>2 DEF PacedInv, KeepsDistance
    <2> HIDE DEF b
    <2>3. Rate * (now - b.lastRefill) \in Int
        BY <1>1, <2>1, RateProduct
    <2>4. Capacity <= b.tokens + Rate * (now - b.lastRefill)
        BY <2>1, <2>2, <2>3, LimiterAssumption
    <2> QED BY <2>1, <2>4 DEF Level, Refilled, Min2
<1>3. CASE k \notin DOMAIN buckets
    <2>1. BucketOf(k) = [tokens |-> Capacity, lastRefill |-> now]
        BY <1>3 DEF BucketOf
    <2> QED BY <1>1, <2>1, RefilledNow, LimiterAssumption DEF Level
<1> QED BY <1>2, <1>3

\* A client that keeps its requests at least one token's refill time apart is
\* never refused, whatever the other clients, the pruning timer and clock
\* corrections do in between.
THEOREM Paced == Spec => []PacedIsServed
<1> DEFINE Inv == PacedInv /\ PacedIsServed
<1>1. Init => Inv
    BY DEF Init, PacedInv, PacedIsServed
<1>2. ASSUME IInv, Inv, [Next]_vars PROVE Inv'
    <2> USE DEF IInv
    <2>1. ASSUME NEW k \in Keys, Allow(k) PROVE Inv'
        <3>1. /\ answer' = [key |-> k, ok |-> Level(k) >= Cost]
              /\ paced' = IF KeepsDistance(k) THEN paced ELSE paced \ {k}
            <4>1. answer' = [key |-> k, ok |-> Level(k) >= Cost]
                BY <1>2, <2>1, AllowLevel
            <4>2. paced' = IF KeepsDistance(k) THEN paced ELSE paced \ {k}
                BY <2>1 DEF Allow
            <4> QED BY <4>1, <4>2
        <3>2. buckets' = [j \in DOMAIN buckets \cup {k} |->
                             IF j = k
                             THEN [tokens |-> IF Level(k) >= Cost THEN Level(k) - Cost
                                              ELSE Level(k),
                                   lastRefill |-> now]
                             ELSE buckets[j]]
            BY <2>1 DEF Allow, Level
        <3>3. k \in paced' => Level(k) = Capacity
            BY <1>2, <3>1, PacedLevel
        <3>4. PacedInv'
            <4> SUFFICES ASSUME NEW j \in paced' \cap DOMAIN buckets'
                         PROVE  Capacity - Cost <= buckets'[j].tokens
                BY DEF PacedInv
            <4>1. CASE j = k
                BY <3>2, <3>3, <4>1, LimiterAssumption
            <4>2. CASE j # k
                <5>1. j \in paced \cap DOMAIN buckets /\ buckets'[j] = buckets[j]
                    BY <3>1, <3>2, <4>2
                <5> QED BY <1>2, <5>1 DEF PacedInv
            <4> QED BY <4>1, <4>2
        <3>5. PacedIsServed'
            BY <3>1, <3>3, LimiterAssumption DEF PacedIsServed
        <3> QED BY <3>4, <3>5
    <2>2. ASSUME NEW k \in Keys, Observe(k) PROVE Inv'
        BY <1>2, <2>2 DEF Observe, PacedInv, PacedIsServed
    <2>3. CASE Prune
        <3>1. /\ DOMAIN buckets' \subseteq DOMAIN buckets
              /\ \A k \in DOMAIN buckets' : buckets'[k] = buckets[k]
            BY <2>3 DEF Prune
        <3>2. answer' = answer /\ paced' = paced
            BY <2>3 DEF Prune
        <3> QED BY <1>2, <3>1, <3>2 DEF PacedInv, PacedIsServed
    <2>4. CASE Advance
        BY <1>2, <2>4, AdvanceMoves DEF PacedInv, PacedIsServed
    <2>5. ASSUME NEW t \in 0 .. Horizon, SetClock(t) PROVE Inv'
        BY <1>2, <2>5, ClockMoves DEF PacedInv, PacedIsServed
    <2>6. CASE UNCHANGED vars
        BY <1>2, <2>6 DEF vars, PacedInv, PacedIsServed
    <2> QED BY <1>2, <2>1, <2>2, <2>3, <2>4, <2>5, <2>6 DEF Next
<1>3. Inv => PacedIsServed
    OBVIOUS
<1> HIDE DEF Inv
<1> QED BY <1>1, <1>2, <1>3, AlwaysIInv, PTL DEF Spec

\* With the pruning timer no bucket outlives MaxAge by more than a period and
\* what the clock was off.
THEOREM Stale == Pruning => (Spec => []NoStaleBucket)
<1> SUFFICES ASSUME Pruning PROVE Spec => []NoStaleBucket
    OBVIOUS
<1>1. Init => AgeInv
    BY DEF Init, AgeInv
<1>2. ASSUME IInv, AgeInv, [Next]_vars PROVE AgeInv'
    <2> USE DEF IInv
    <2>0. /\ now \in Nat /\ high \in Nat /\ timer \in Nat
          /\ now <= high /\ high - now <= MaxBack
        BY <1>2, LimiterAssumption DEF TypeOK, ClockInv
    <2>1. ASSUME NEW k \in Keys, Allow(k) PROVE AgeInv'
        <3>1. high' = high /\ timer' = timer
            BY <2>1 DEF Allow, clock
        <3>2. \A j \in DOMAIN buckets' :
                 \/ buckets'[j].lastRefill = now
                 \/ j \in DOMAIN buckets /\ buckets'[j] = buckets[j]
            BY <2>1 DEF Allow
        <3> SUFFICES ASSUME NEW j \in DOMAIN buckets'
                     PROVE  high - buckets'[j].lastRefill <= MaxAge + MaxBack + timer
            BY <3>1 DEF AgeInv
        <3>3. CASE buckets'[j].lastRefill = now
            BY <2>0, <3>3, LimiterAssumption
        <3>4. CASE j \in DOMAIN buckets /\ buckets'[j] = buckets[j]
            BY <1>2, <3>4 DEF AgeInv
        <3> QED BY <3>2, <3>3, <3>4
    <2>2. ASSUME NEW k \in Keys, Observe(k) PROVE AgeInv'
        BY <1>2, <2>2 DEF Observe, AgeInv, clock
    <2>3. CASE Prune
        <3>1. high' = high /\ timer' = 0
            BY <2>3 DEF Prune, clock
        <3> SUFFICES ASSUME NEW k \in DOMAIN buckets'
                     PROVE  high - buckets'[k].lastRefill <= MaxAge + MaxBack + 0
            BY <3>1 DEF AgeInv
        <3>2. /\ k \in DOMAIN buckets /\ buckets'[k] = buckets[k]
              /\ ~(now - buckets[k].lastRefill > MaxAge)
            BY <2>3 DEF Prune
        <3>3. buckets[k].lastRefill \in Nat
            BY <1>2, <3>2, InMap
        <3> QED BY <2>0, <3>2, <3>3, LimiterAssumption
    <2>4. CASE Advance
        <3>1. /\ buckets' = buckets /\ timer' = timer + 1
              /\ high' = (IF now + 1 > high THEN now + 1 ELSE high)
            BY <2>4 DEF Advance
        <3> SUFFICES ASSUME NEW k \in DOMAIN buckets
                     PROVE  high' - buckets[k].lastRefill <= MaxAge + MaxBack + (timer + 1)
            BY <3>1 DEF AgeInv
        <3>2. buckets[k].lastRefill \in Nat
            BY <1>2, InMap
        <3>3. high - buckets[k].lastRefill <= MaxAge + MaxBack + timer
            BY <1>2 DEF AgeInv
        <3> QED BY <2>0, <3>1, <3>2, <3>3, LimiterAssumption
    <2>5. ASSUME NEW t \in 0 .. Horizon, SetClock(t) PROVE AgeInv'
        BY <1>2, <2>5 DEF SetClock, AgeInv
    <2>6. CASE UNCHANGED vars
        BY <1>2, <2>6 DEF vars, AgeInv
    <2> QED BY <1>2, <2>1, <2>2, <2>3, <2>4, <2>5, <2>6 DEF Next
<1>3. IInv /\ AgeInv => NoStaleBucket
    <2> SUFFICES ASSUME IInv, AgeInv, NEW k \in DOMAIN buckets
                 PROVE  now - buckets[k].lastRefill <= MaxAge + Period + MaxBack
        BY DEF NoStaleBucket
    <2>1. buckets[k].lastRefill \in Nat
        BY InMap DEF IInv
    <2> QED BY <2>1, LimiterAssumption DEF IInv, TypeOK, ClockInv, AgeInv
<1> QED BY <1>1, <1>2, <1>3, AlwaysIInv, PTL DEF Spec

-----------------------------------------------------------------------------
\* Every step of the map with lazy refill and pruning is a step, or a stutter,
\* of one bucket per client that is never forgotten.
LEMMA NextImplements ==
    ASSUME IInv, [Next]_vars
    PROVE  [TB!TB_Next]_<<LevelOf, answer>>
<1> USE DEF IInv
<1> DEFINE Steps == 0 .. (MaxBack + 1)
<1>1. ASSUME NEW k \in Keys, Allow(k) PROVE TB!TB_Next
    <2>1. /\ Level(k) \in Int
          /\ answer' = [key |-> k, ok |-> Level(k) >= Cost]
          /\ \A j \in Keys : j # k => Level(j)' = Level(j)
          /\ Level(k) >= Cost => Level(k)' = Level(k) - Cost
          /\ ~(Level(k) >= Cost) => Level(k)' = Level(k)
        BY <1>1, AllowLevel
    <2>2. LevelOf' = [j \in Keys |-> Level(j)'] /\ LevelOf = [j \in Keys |-> Level(j)]
        BY DEF LevelOf
    <2>3. CASE Level(k) >= Cost
        <3>1. LevelOf' = [LevelOf EXCEPT ![k] = @ - Cost]
            BY <2>1, <2>2, <2>3
        <3>2. TB!Grant(k)
            BY <2>1, <2>2, <2>3, <3>1 DEF TB!Grant
        <3> QED BY <3>2 DEF TB!TB_Next
    <2>4. CASE ~(Level(k) >= Cost)
        <3>1. LevelOf' = LevelOf
            BY <2>1, <2>2, <2>4
        <3>2. Level(k) < Cost
            BY <2>1, <2>4, LimiterAssumption
        <3>3. answer' = [key |-> k, ok |-> FALSE]
            <4>1. (Level(k) >= Cost) = FALSE
                BY <2>1, <2>4, LimiterAssumption
            <4> QED BY <2>1, <4>1
        <3>4. LevelOf[k] < Cost
            BY <2>2, <3>2
        <3>5. TB!Refuse(k)
            BY <3>1, <3>3, <3>4 DEF TB!Refuse
        <3> QED BY <3>5 DEF TB!TB_Next
    <2> QED BY <2>3, <2>4
<1>2. ASSUME NEW k \in Keys, Observe(k) PROVE UNCHANGED <<LevelOf, answer>>
    BY <1>2 DEF Observe, clock, LevelOf, Level, BucketOf
<1>3. CASE Prune
    <2>1. answer' = answer
        BY <1>3 DEF Prune
    <2>2. \A k \in Keys : Level(k)' = Level(k)
        BY <1>3, PruneLevel
    <2> QED BY <2>1, <2>2 DEF LevelOf
<1>4. ASSUME NEW d \in Steps, now' = now + d, buckets' = buckets, answer' = answer
      PROVE  TB!TB_Next
    <2>1. d \in Nat
        BY LimiterAssumption
    <2>2. \A k \in Keys : /\ Rate * d \in Nat
                          /\ Level(k) \in Int
                          /\ Level(k)' = Min2(Capacity, Level(k) + Rate * d)
        BY <1>4, <2>1, ForwardLevel
    <2>3. ASSUME NEW k \in Keys
          PROVE  Level(k)' = TB!Capped(Level(k) + Rate * d)
        <3> DEFINE n == Level(k) + Rate * d
        <3>1. n \in Int /\ Level(k)' = Min2(Capacity, n)
            BY <2>2
        <3> HIDE DEF n
        <3>2. Min2(Capacity, n) = TB!Capped(n)
            BY <3>1, LimiterAssumption DEF Min2, TB!Capped
        <3> QED BY <3>1, <3>2 DEF n
    <2>4. LevelOf' = [k \in Keys |-> TB!Capped(LevelOf[k] + Rate * d)]
        BY <2>3 DEF LevelOf
    <2>5. TB!Elapse(d)
        BY <1>4, <2>4 DEF TB!Elapse
    <2> QED BY <2>5 DEF TB!TB_Next
<1>5. CASE Advance
    <2>1. 1 \in Steps
        BY LimiterAssumption
    <2> QED BY <1>4, <1>5, <2>1, AdvanceMoves
<1>6. ASSUME NEW t \in 0 .. Horizon, SetClock(t) PROVE TB!TB_Next
    <2>1. CASE t - now \in Nat /\ now' = now + (t - now) /\ t - now <= MaxBack + 1
        <3>1. t - now \in Steps
            BY <2>1, LimiterAssumption
        <3> QED BY <1>4, <1>6, <2>1, <3>1, ClockMoves
    <2>2. CASE now - t \in Nat /\ now = now' + (now - t) /\ now - t <= MaxBack + 1
        <3>1. now - t \in Steps
            BY <2>2, LimiterAssumption
        <3>2. \A k \in Keys : /\ Level(k)' \in Int
                              /\ Level(k)' <= Level(k)
                              /\ Level(k) - Rate * (now - t) <= Level(k)'
            BY <1>6, <2>2, ClockMoves, BackLevel
        <3>3. TB!Rewind(now - t)
            BY <1>6, <3>2, ClockMoves DEF TB!Rewind, LevelOf
        <3> QED BY <3>1, <3>3 DEF TB!TB_Next
    <2> QED BY <1>6, <2>1, <2>2, ClockMoves
<1>7. CASE UNCHANGED vars
    BY <1>7 DEF vars, LevelOf, Level, BucketOf
<1> QED BY <1>1, <1>2, <1>3, <1>5, <1>6, <1>7 DEF Next

\* RateLimiter implements TokenBucket: refilling lazily and forgetting idle
\* buckets cannot be told from keeping every bucket for ever.
THEOREM Implements == Spec => ImplementsTokenBucket
<1>1. Init => TB!TB_Init
    <2> SUFFICES ASSUME Init PROVE TB!TB_Init
        OBVIOUS
    <2>1. IInv /\ DOMAIN buckets = {} /\ answer \in [key : Keys, ok : {TRUE}]
        BY InitIInv DEF Init
    <2>2. ASSUME NEW k \in Keys PROVE Level(k) = Capacity
        <3>1. BucketOf(k) = [tokens |-> Capacity, lastRefill |-> now] /\ now \in Nat
            BY <2>1 DEF BucketOf, IInv, TypeOK
        <3> QED BY <3>1, RefilledNow, LimiterAssumption DEF Level
    <2> QED BY <2>1, <2>2 DEF TB!TB_Init, LevelOf
<1>2. IInv /\ [Next]_vars => [TB!TB_Next]_<<LevelOf, answer>>
    BY NextImplements
<1> QED BY <1>1, <1>2, AlwaysIInv, PTL DEF Spec, ImplementsTokenBucket, TB!TB_Spec, TB!TB_vars
=============================================================================
