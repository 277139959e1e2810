---------------------------- MODULE TokenBucket ----------------------------
(***************************************************************************)
(* What apps/ingest/src/ratelimiter.ts promises its callers: every client   *)
(* key owns a bucket that is never forgotten, fills at Rate units per       *)
(* millisecond of forward clock movement, holds at most Capacity units and  *)
(* pays Cost units per admitted request.  No map, no lazy refill, no        *)
(* pruning: RateLimiter is shown to implement this module.                  *)
(***************************************************************************)
EXTENDS Integers

CONSTANTS
    Keys,       \* client addresses (req.ip, req.socket.remoteAddress)
    Capacity,   \* size of a bucket, in units of 1/Cost token
    Rate,       \* units gained per millisecond
    Cost,       \* units in one token
    MaxStep     \* largest single movement of the clock, in milliseconds

VARIABLES
    level,      \* units a client could spend now
    answer      \* the last answer given: [key, ok]

TB_vars == <<level, answer>>

Capped(n) == IF n <= Capacity THEN n ELSE Capacity

TB_Init ==
    /\ level = [k \in Keys |-> Capacity]
    /\ answer \in [key : Keys, ok : {TRUE}]

\* A request is admitted exactly when a whole token is there.
Grant(k) ==
    /\ level[k] >= Cost
    /\ level' = [level EXCEPT ![k] = @ - Cost]
    /\ answer' = [key |-> k, ok |-> TRUE]

Refuse(k) ==
    /\ level[k] < Cost
    /\ answer' = [key |-> k, ok |-> FALSE]
    /\ UNCHANGED level

\* The clock moves forward by d milliseconds: every bucket gains Rate * d.
Elapse(d) ==
    /\ level' = [k \in Keys |-> Capped(level[k] + Rate * d)]
    /\ UNCHANGED answer

\* The clock is set back by d: a bucket may lose what d was worth, no more,
\* and never gains.
Rewind(d) ==
    /\ level' \in [Keys -> Int]
    /\ \A k \in Keys : /\ level'[k] <= level[k]
                       /\ level[k] - Rate * d <= level'[k]
    /\ UNCHANGED answer

TB_Next ==
    \/ \E k \in Keys : Grant(k) \/ Refuse(k)
    \/ \E d \in 0 .. MaxStep : Elapse(d) \/ Rewind(d)

TB_Spec == TB_Init /\ [][TB_Next]_TB_vars
=============================================================================
