------------------------------ MODULE Detector ------------------------------
(***************************************************************************)
(* The detector: cmd/detector/main.go starting up, Engine.Detect running    *)
(* its three scanners one after the other, the ClamAV exchange and the      *)
(* AbuseIPDB lookup through the Redis cache.  clamd, the two HTTP services  *)
(* and Redis are external: they answer, answer wrongly, fail or stay silent.*)
(* A millisecond of the code is nothing here; a Tick is as long as it takes *)
(* for timeouts and the cache's TTL to matter.                              *)
(***************************************************************************)
EXTENDS Integers, Sequences, Severity

CONSTANTS
    Events,     \* [payload, hash, ip : BOOLEAN]: what an event carries
    Counts,     \* malicious counts VirusTotal may report
    Scores,     \* scores AbuseIPDB may report
    TTL,        \* lifetime of a cache entry (time.Hour)
    Timeout,    \* timeout of a scanner
    RedisWait   \* what go-redis may spend on a command, retries included

ASSUME DetectorAssumption ==
    /\ Events \subseteq [payload : BOOLEAN, hash : BOOLEAN, ip : BOOLEAN]
    /\ Counts \subseteq Nat /\ Scores \subseteq Nat
    /\ TTL \in Nat \ {0} /\ Timeout \in Nat \ {0} /\ RedisWait \in Nat
    /\ None \notin Nat \cup BOOLEAN
    /\ None \notin [answer : Nat \cup {None}, age : Nat]

VARIABLES
    main,       \* the process: starting, wired (engine built), ready (in
                \* select {}) or down
    at,         \* where Detect is
    event,      \* the event Detect works on
    result,     \* the Result being filled
    said,       \* history: what the scanners said of the event
    waited,     \* ticks the current scanner or command has been waited for
    wire,       \* the AbuseIPDB answer on its way, with its age
    cache,      \* the Redis entry of the address, with its life and age
    ipAge,      \* history: age of the score in the result
    answered    \* history: what bodies of status 200 said of the address, a
                \* score or, if they had no data, None

detect == <<at, event, result, said, waited, wire, ipAge>>
vars == <<main, at, event, result, said, waited, wire, cache, ipAge, answered>>

Steps == {"idle", "clam_dial", "clam_write", "clam_read", "vt",
          "cache_get", "abuse_http", "cache_set", "done"}

Nothing == [clam |-> None, vt |-> None, abuse |-> None]

Init ==
    /\ main = "starting"
    /\ at = "idle"
    /\ event \in Events
    /\ result = Nothing
    /\ said = Nothing
    /\ waited = 0
    /\ wire = None
    /\ cache = None
    /\ ipAge = 0
    /\ answered = {}

-----------------------------------------------------------------------------
\* The scanner Detect goes to next; one the event has nothing for is skipped.
After(step) ==
    CASE step = "begin" -> IF event'.payload THEN "clam_dial"
                           ELSE IF event'.hash THEN "vt"
                           ELSE IF event'.ip THEN "cache_get" ELSE "done"
      [] step = "clam"  -> IF event.hash THEN "vt"
                           ELSE IF event.ip THEN "cache_get" ELSE "done"
      [] step = "vt"    -> IF event.ip THEN "cache_get" ELSE "done"
      [] step = "abuse" -> "done"

\* main: missing API keys end the process; a failed ping of Redis does not.
Start ==
    /\ main = "starting"
    /\ main' \in {"wired", "down"}
    /\ UNCHANGED <<detect, cache, answered>>

\* main blocks for ever in select {}, after the test event if there is one.
Ready ==
    /\ main = "wired"
    /\ at \in {"idle", "done"}
    /\ main' = "ready"
    /\ UNCHANGED <<detect, cache, answered>>

\* Engine.Detect is called, once, by main.  There the event is TEST_IP's; the
\* engine is exercised here with every kind of event.
Detect(e) ==
    /\ main = "wired"
    /\ at = "idle"
    /\ event' = e
    /\ at' = After("begin")
    /\ result' = Nothing
    /\ said' = Nothing
    /\ waited' = 0
    /\ ipAge' = 0
    /\ UNCHANGED <<main, wire, cache, answered>>

\* A scanner is left with an error: Detect goes on without its report.
Tolerate(scanner) ==
    /\ at' = After(scanner)
    /\ waited' = 0
    /\ UNCHANGED <<event, result, said, ipAge>>

\* ScanBuffer dials under a timeout of its own; what it then writes (command,
\* chunk and terminator) and reads has one deadline, set after the dial.
ClamConnect ==
    /\ at = "clam_dial"
    /\ at' = "clam_write"
    /\ waited' = 0
    /\ UNCHANGED <<main, event, result, said, wire, cache, ipAge, answered>>

ClamWrite ==
    /\ at = "clam_write"
    /\ at' = "clam_read"
    /\ UNCHANGED <<main, event, result, said, waited, wire, cache, ipAge, answered>>

\* As ClamFails, with no deadline set on the connection.
ClamFailsNoDeadline ==
    /\ at \in {"clam_dial", "clam_write"}
    /\ Tolerate("clam")
    /\ UNCHANGED <<main, wire, cache, answered>>

\* Any of these may fail, also because the timeout of the dial or the deadline
\* of writing and reading has passed.
ClamFails ==
    /\ at \in {"clam_dial", "clam_write", "clam_read"}
    /\ Tolerate("clam")
    /\ UNCHANGED <<main, wire, cache, answered>>

\* parseResponse: Clean is set by the suffix OK and by nothing else.
ParseResponse(line) == line = "OK"

\* clamd's line: its finding, or "other", an ERROR line or one cut off by the
\* end of the connection, possibly empty (io.EOF is no error to ScanBuffer).
ClamAnswers(line) ==
    /\ at = "clam_read"
    /\ result' = [result EXCEPT !.clam = ParseResponse(line)]
    /\ said' = [said EXCEPT !.clam = IF line = "other" THEN None ELSE line = "OK"]
    /\ at' = After("clam")
    /\ waited' = 0
    /\ UNCHANGED <<main, event, wire, cache, ipAge, answered>>

\* encoding/json leaves what a body does not have at its zero value: one that
\* says nothing (None) is a report of 0.
Decoded(answer) == IF answer = None THEN 0 ELSE answer

\* LookupHash: a report, or an error for 404, another status, a bad body or
\* the client's timeout.
VTAnswers(answer) ==
    /\ at = "vt"
    /\ result' = [result EXCEPT !.vt = Decoded(answer)]
    /\ said' = [said EXCEPT !.vt = answer]
    /\ at' = After("vt")
    /\ waited' = 0
    /\ UNCHANGED <<main, event, wire, cache, ipAge, answered>>

VTFails ==
    /\ at = "vt"
    /\ Tolerate("vt")
    /\ UNCHANGED <<main, wire, cache, answered>>

-----------------------------------------------------------------------------
\* As CacheHit, with the lifetime of the entry starting again.
CacheHitRenews ==
    /\ at = "cache_get"
    /\ cache # None
    /\ result' = [result EXCEPT !.abuse = cache.score]
    /\ said' = [said EXCEPT !.abuse = cache.score]
    /\ ipAge' = cache.age
    /\ cache' = [cache EXCEPT !.life = 0]
    /\ at' = After("abuse")
    /\ waited' = 0
    /\ UNCHANGED <<main, event, wire, answered>>

\* CheckIP: a cached report ends it, a miss or an error of Redis does not.
CacheHit ==
    /\ at = "cache_get"
    /\ cache # None
    /\ result' = [result EXCEPT !.abuse = cache.score]
    /\ said' = [said EXCEPT !.abuse = cache.score]
    /\ ipAge' = cache.age
    /\ at' = After("abuse")
    /\ waited' = 0
    /\ UNCHANGED <<main, event, wire, cache, answered>>

\* As CacheMiss, with the address reserved by a clean report until the SET.
CacheMissReserves ==
    /\ at = "cache_get"
    /\ cache' = [score |-> 0, life |-> 0, age |-> 0]
    /\ at' = "abuse_http"
    /\ waited' = 0
    /\ UNCHANGED <<main, event, result, said, wire, ipAge, answered>>

CacheMiss ==
    /\ at = "cache_get"
    /\ at' = "abuse_http"
    /\ waited' = 0
    /\ UNCHANGED <<main, event, result, said, wire, cache, ipAge, answered>>

\* AbuseIPDB sends status 200 with the score it has just computed, or a body
\* without data; it is on its way from now on.
AbuseSends(answer) ==
    /\ at = "abuse_http"
    /\ wire = None
    /\ wire' = [answer |-> answer, age |-> 0]
    /\ answered' = answered \cup {answer}
    /\ UNCHANGED <<main, at, event, result, said, waited, cache, ipAge>>

\* It arrives and is decoded.
AbuseAnswers ==
    /\ at = "abuse_http"
    /\ wire # None
    /\ result' = [result EXCEPT !.abuse = Decoded(wire.answer)]
    /\ said' = [said EXCEPT !.abuse = wire.answer]
    /\ ipAge' = wire.age
    /\ at' = "cache_set"
    /\ waited' = 0
    /\ UNCHANGED <<main, event, wire, cache, answered>>

\* A status other than 200, a body that does not decode, a refused connection
\* or the client's timeout: nothing is cached.
AbuseFails ==
    /\ at = "abuse_http"
    /\ wire' = None
    /\ Tolerate("abuse")
    /\ UNCHANGED <<main, cache, answered>>

\* The report is stored with the full TTL; an error of Redis is ignored.
CacheSet ==
    /\ at = "cache_set"
    /\ \/ cache' = [score |-> Decoded(wire.answer), life |-> 0, age |-> wire.age]
       \/ UNCHANGED cache
    /\ wire' = None
    /\ at' = After("abuse")
    /\ waited' = 0
    /\ UNCHANGED <<main, event, result, said, ipAge, answered>>

\* Redis drops the entry: LRU eviction, a restart, or the TTL (see Tick).
Evict ==
    /\ cache # None
    /\ cache' = None
    /\ UNCHANGED <<main, detect, answered>>

-----------------------------------------------------------------------------
\* How long the step under way may last.
Limit == IF at \in {"cache_get", "cache_set"} THEN RedisWait ELSE Timeout
Waiting == at \notin {"idle", "done"}

\* Time passes: no wait outlasts its timeout, no entry its TTL.
Tick ==
    /\ Waiting => waited < Limit
    /\ waited' = IF Waiting THEN waited + 1 ELSE waited
    /\ wire' = IF wire = None THEN None ELSE [wire EXCEPT !.age = @ + 1]
    /\ cache' = IF cache = None \/ cache.life + 1 = TTL THEN None
                ELSE [cache EXCEPT !.life = @ + 1, !.age = @ + 1]
    /\ UNCHANGED <<main, at, event, result, said, ipAge, answered>>

\* The process dies and is started again; what was under way is lost.
Restart ==
    /\ main # "starting"
    /\ main' = "starting"
    /\ at' = "idle"
    /\ result' = Nothing /\ said' = Nothing
    /\ waited' = 0 /\ wire' = None /\ ipAge' = 0
    /\ UNCHANGED <<event, cache, answered>>

Scanning ==
    \/ ClamConnect \/ ClamWrite \/ ClamFails
    \/ \E line \in {"OK", "FOUND", "other"} : ClamAnswers(line)
    \/ VTFails \/ \E answer \in Counts \cup {None} : VTAnswers(answer)
    \/ CacheHit \/ CacheMiss
    \/ \E answer \in Scores \cup {None} : AbuseSends(answer)
    \/ AbuseAnswers \/ AbuseFails \/ CacheSet

Next ==
    \/ Start \/ Ready
    \/ \E e \in Events : Detect(e)
    \/ Scanning
    \/ Evict \/ Tick \/ Restart

\* The code of Detect goes on when it can; a scanner that stays silent is
\* left when its timeout has come.
Leave == waited = Limit /\ (ClamFails \/ VTFails \/ AbuseFails)

Fairness ==
    /\ WF_vars(Start) /\ WF_vars(Ready)
    /\ WF_vars(Tick)
    /\ WF_vars(Leave)
    /\ WF_vars(CacheHit \/ CacheMiss)
    /\ WF_vars(CacheSet)

Spec == Init /\ [][Next]_vars
FairSpec == Spec /\ Fairness

-----------------------------------------------------------------------------
Reports == [clam : BOOLEAN \cup {None}, vt : Nat \cup {None}, abuse : Nat \cup {None}]

\* Every variable has its type.
TypeOK ==
    /\ main \in {"starting", "wired", "ready", "down"}
    /\ at \in Steps /\ event \in Events
    /\ result \in Reports /\ said \in Reports
    /\ answered \subseteq Nat \cup {None}
    /\ waited \in 0 .. Limit /\ ipAge \in Nat
    /\ wire = None \/ wire \in [answer : Nat \cup {None}, age : 0 .. Timeout + RedisWait]
    /\ cache = None \/ cache \in [score : Nat, life : 0 .. TTL - 1, age : Nat]

\* A finished result is as severe as the most severe scanner that answered,
\* and no more: a scanner that failed or was not asked adds nothing.  A line of
\* clamd that is no verdict is left out here: it counts as an infection, against
\* the comment of Detect ("Individual scanner failures are tolerated").
SeverityIsWorstAnswer ==
    at = "done" /\ (result.clam # None => said.clam # None) =>
        LET asked == {ScoreToSeverity(s) : s \in {said.abuse} \ {None}}
                     \cup {CountToSeverity(n) : n \in {said.vt} \ {None}}
                     \cup {IF clean THEN "low" ELSE "critical" : clean \in {said.clam} \ {None}}
                     \cup {"low"}
        IN  /\ ComputeSeverity(result) \in asked
            /\ \A s \in asked : Rank(s) <= Rank(ComputeSeverity(result))

\* Tactic and verdict tell the same story of what the scanners said (a line of
\* clamd that is no verdict is left out as above: it is MALICIOUS and TA0002
\* though nobody found anything).  A MALICIOUS result has the tactic of a signal
\* that was raised; a result with a tactic of its own is not CLEAN; and under
\* the default nobody raised anything but AbuseIPDB a medium score, which alone
\* makes it SUSPICIOUS.
TacticExplainsVerdict ==
    at = "done" /\ (result.clam # None => said.clam # None) =>
        LET verdict  == ComputeVerdict(ComputeSeverity(result))
            tactic   == InferMitreTactic(result)
            infected == said.clam = FALSE
            hit      == said.vt # None /\ said.vt > 0
            reported == said.abuse # None /\ said.abuse >= 50
            doubtful == said.abuse # None /\ said.abuse \in 20 .. 49
        IN  /\ verdict = "MALICIOUS" => \/ infected /\ tactic = "TA0002"
                                        \/ hit /\ tactic = "TA0001"
                                        \/ reported /\ tactic = "TA0011"
            /\ tactic # "TA0043" => verdict # "CLEAN"
            /\ tactic = "TA0043" =>
                   /\ ~infected /\ ~hit /\ ~reported
                   /\ verdict = IF doubtful THEN "SUSPICIOUS" ELSE "CLEAN"

\* No result rests on a score AbuseIPDB computed longer ago than the TTL, one
\* HTTP timeout and one slow SET, over cache hits, restarts and slow answers.
ScoreIsFresh ==
    at = "done" /\ result.abuse # None => ipAge <= TTL + Timeout + RedisWait

\* No result rests on a score that AbuseIPDB never sent, whatever failed or died
\* between request, answer and SET, in this process or in one before it.  A body
\* without data is the exception: CheckIP takes it for the score 0 and caches
\* that, and then a result may hold a 0 nobody computed.
ScoresWereSent ==
    at = "done" /\ result.abuse # None =>
        result.abuse \in answered \/ (None \in answered /\ result.abuse = 0)

\* Every Detect comes to an end (or the process does), whichever scanners
\* stay silent.
DetectEnds == (at \notin {"idle", "done"}) ~> (at = "done" \/ main # "wired")
=============================================================================
