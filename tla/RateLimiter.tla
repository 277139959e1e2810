---------------------------- MODULE RateLimiter ----------------------------
(***************************************************************************)
(* TokenBucketLimiter of apps/ingest/src/ratelimiter.ts, with the two       *)
(* clocks it lives under: Date.now(), which an operator or NTP may set back *)
(* and forward again, and the monotonic clock that drives the pruning timer *)
(* of ws.ts.  One limiter object is modelled; server.ts and ws.ts each      *)
(* build one, the former without a pruning timer (Pruning = FALSE).         *)
(*                                                                          *)
(* Tokens are counted in units of 1/Cost token so that the refill of half a *)
(* token per millisecond (500/s) stays integral: ws.ts is Capacity = 2000,  *)
(* Rate = 1, Cost = 2, MaxAge = Period = 60000.                             *)
(***************************************************************************)
EXTENDS Integers

CONSTANTS
    Keys,       \* client addresses
    Capacity,   \* bucket size in units
    Rate,       \* refill, in units per millisecond
    Cost,       \* units per request
    Pruning,    \* does a timer call prune()?
    MaxAge,     \* maxAgeMs of prune()
    Period,     \* interval of the pruning timer
    MaxBack,    \* how far Date.now() may fall behind its highest reading
    Horizon,    \* bound on Date.now() in a checked instance
    Corrections \* bound on the number of clock corrections

ASSUME LimiterAssumption ==
    /\ Keys # {}
    /\ Capacity \in Nat /\ Rate \in Nat /\ Cost \in Nat \ {0}
    /\ Pruning \in BOOLEAN
    /\ MaxAge \in Nat /\ Period \in Nat /\ MaxBack \in Nat
    /\ Horizon \in Nat /\ Corrections \in Nat
    /\ Cost <= Capacity

\* An abandoned bucket has refilled completely before it is old enough to be
\* pruned, even if the clock was set back meanwhile (2 s of refill against
\* 60 s of age in ws.ts: true as long as MaxBack is at most 58 s).
ASSUME RefillBeforePrune == Rate * (MaxAge - MaxBack) >= Capacity

VARIABLES
    now,        \* Date.now()
    buckets,    \* the Map: a function on the keys seen and not pruned
    timer,      \* monotonic milliseconds since the pruning timer fired
    answer,     \* what allow() last returned, and to whom
    high,       \* history: highest reading of Date.now()
    corrected,  \* history: corrections of Date.now() so far
    watched,    \* history: the key an observer watches
    forward,    \* history: forward movement of Date.now() while watching
    granted,    \* history: requests of the key admitted while watching
    paced       \* history: keys whose requests all kept their distance

clock == <<now, high, corrected>>
window == <<watched, forward, granted>>
vars == <<now, buckets, timer, answer, high, corrected, watched, forward,
          granted, paced>>

Min2(a, b) == IF a <= b THEN a ELSE b

Bucket == [tokens : Int, lastRefill : Nat]

\* As BucketOf, with new buckets created empty.
BucketOfEmpty(k) ==
    IF k \in DOMAIN buckets THEN buckets[k] ELSE [tokens |-> 0, lastRefill |-> now]

\* The bucket allow() works on: the one in the map, or a new full one.
BucketOf(k) ==
    IF k \in DOMAIN buckets
    THEN buckets[k]
    ELSE [tokens |-> Capacity, lastRefill |-> now]

\* As Refilled, without the cap.
RefilledUncapped(b, t) == b.tokens + Rate * (t - b.lastRefill)

\* Tokens of a bucket after the lazy refill at time t.
Refilled(b, t) == Min2(Capacity, b.tokens + Rate * (t - b.lastRefill))

Init ==
    /\ now \in 0 .. MaxBack
    /\ buckets = [k \in {} |-> [tokens |-> 0, lastRefill |-> 0]]
    /\ timer = 0
    /\ answer \in [key : Keys, ok : {TRUE}]
    /\ high = now
    /\ corrected = 0
    /\ watched \in Keys
    /\ forward = 0
    /\ granted = 0
    /\ paced = Keys

-----------------------------------------------------------------------------
\* A request keeps its distance when it arrives at least one token's refill
\* time after the previous request of the same key.
KeepsDistance(k) ==
    k \in DOMAIN buckets => Rate * (now - buckets[k].lastRefill) >= Cost

\* As Allow, but a refused request pays too.
AllowAlwaysPays(k) ==
    LET refill == Refilled(BucketOf(k), now)
    IN  /\ buckets' = [j \in DOMAIN buckets \cup {k} |->
                          IF j = k
                          THEN [tokens |-> refill - Cost, lastRefill |-> now]
                          ELSE buckets[j]]
        /\ answer' = [key |-> k, ok |-> refill >= Cost]
        /\ UNCHANGED <<clock, timer, window, paced>>

\* allow(key): one synchronous call; the event loop interleaves calls only.
Allow(k) ==
    LET refill == Refilled(BucketOf(k), now)
        ok     == refill >= Cost
        left   == IF ok THEN refill - Cost ELSE refill
    IN  /\ buckets' = [j \in DOMAIN buckets \cup {k} |->
                          IF j = k
                          THEN [tokens |-> left, lastRefill |-> now]
                          ELSE buckets[j]]
        /\ answer' = [key |-> k, ok |-> ok]
        /\ granted' = IF ok /\ k = watched THEN granted + 1 ELSE granted
        /\ paced' = IF KeepsDistance(k) THEN paced ELSE paced \ {k}
        /\ UNCHANGED <<clock, timer, watched, forward>>

\* As Prune, removing every bucket that is not brand-new.
PruneTooEager ==
    /\ Pruning
    /\ timer = Period
    /\ timer' = 0
    /\ buckets' = [k \in {j \in DOMAIN buckets : now = buckets[j].lastRefill}
                      |-> buckets[k]]
    /\ UNCHANGED <<clock, answer, window, paced>>

\* As Prune, with the operands of the difference swapped.
PruneSwapped ==
    /\ Pruning
    /\ timer = Period
    /\ timer' = 0
    /\ buckets' = [k \in {j \in DOMAIN buckets :
                             ~(buckets[j].lastRefill - now > MaxAge)}
                      |-> buckets[k]]
    /\ UNCHANGED <<clock, answer, window, paced>>

\* prune(), called by the interval of ws.ts.
Prune ==
    /\ Pruning
    /\ timer = Period
    /\ timer' = 0
    /\ buckets' = [k \in {j \in DOMAIN buckets :
                             ~(now - buckets[j].lastRefill > MaxAge)}
                      |-> buckets[k]]
    /\ UNCHANGED <<clock, answer, window, paced>>

\* As Advance, with the interval never due.
AdvanceUnchecked ==
    /\ now < Horizon
    /\ timer' = timer + 1
    /\ now' = now + 1
    /\ high' = IF now + 1 > high THEN now + 1 ELSE high
    /\ forward' = forward + 1
    /\ UNCHANGED <<corrected, buckets, answer, watched, granted, paced>>

\* A millisecond passes on both clocks; the interval is punctual.
Advance ==
    /\ now < Horizon
    /\ Pruning => timer < Period
    /\ timer' = IF Pruning THEN timer + 1 ELSE timer
    /\ now' = now + 1
    /\ high' = IF now + 1 > high THEN now + 1 ELSE high
    /\ forward' = forward + 1
    /\ UNCHANGED <<corrected, buckets, answer, watched, granted, paced>>

\* Date.now() is corrected: back by any amount within MaxBack of its highest
\* reading, or forward again.
SetClock(t) ==
    /\ corrected < Corrections
    /\ t # now
    /\ t <= high
    /\ high - t <= MaxBack
    /\ corrected' = corrected + 1
    /\ now' = t
    /\ forward' = IF t > now THEN forward + (t - now) ELSE forward
    /\ UNCHANGED <<high, buckets, timer, answer, watched, granted, paced>>

\* History only: an observer starts to watch a key, at any moment.
Observe(k) ==
    /\ watched' = k
    /\ forward' = 0
    /\ granted' = 0
    /\ UNCHANGED <<clock, buckets, timer, answer, paced>>

Next ==
    \/ \E k \in Keys : Allow(k) \/ Observe(k)
    \/ Prune
    \/ Advance
    \/ \E t \in 0 .. Horizon : SetClock(t)

Spec == Init /\ [][Next]_vars

-----------------------------------------------------------------------------
\* Every variable has its type; the history follows the clock.
TypeOK ==
    /\ now \in Nat
    /\ DOMAIN buckets \subseteq Keys
    /\ buckets \in [DOMAIN buckets -> Bucket]
    /\ timer \in 0 .. Period
    /\ answer \in [key : Keys, ok : BOOLEAN]
    /\ high \in Nat /\ corrected \in Nat
    /\ watched \in Keys /\ forward \in Nat /\ granted \in Nat
    /\ paced \subseteq Keys

\* What a key could spend if it asked now.
Level(k) == Refilled(BucketOf(k), now)

\* In every observation window no client gets more than one full bucket plus
\* what the window's time refills, whatever is pruned in it and however the
\* clock is corrected (allow and prune together: forgetting a bucket is not a
\* way to get a full one early).
WindowBound == granted * Cost + Level(watched) <= Capacity + Rate * forward

\* A client that spaces its requests by the refill time of one token is never
\* refused, across pruning and clock corrections.
PacedIsServed == answer.ok \/ answer.key \notin paced

\* No bucket survives the timer by more than a period: memory is bounded by
\* the clients of the last MaxAge + Period milliseconds (plus what the clock
\* was off), the promise of the comment on prune().
NoStaleBucket ==
    \A k \in DOMAIN buckets :
        now - buckets[k].lastRefill <= MaxAge + Period + MaxBack

\* A clock set back costs a client at most the refill of that stretch: no
\* bucket falls deeper in debt than MaxBack milliseconds refill.
DebtBounded ==
    \A k \in DOMAIN buckets : buckets[k].tokens >= -(Rate * MaxBack)

-----------------------------------------------------------------------------
\* The lazily refilled, pruned map implements one bucket per client for ever.
\* Pruning is invisible and a corrected clock only ever costs a client tokens.
LevelOf == [k \in Keys |-> Level(k)]

TB == INSTANCE TokenBucket WITH level <- LevelOf, MaxStep <- MaxBack + 1

ImplementsTokenBucket == TB!TB_Spec
=============================================================================
