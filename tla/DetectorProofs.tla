--------------------------- MODULE DetectorProofs ---------------------------
(***************************************************************************)
(* Theorems about Detector, for every set of events, every count and score  *)
(* the services may report and all values of the TTL and the timeouts that  *)
(* meet DetectorAssumption: what a finished result says is what the         *)
(* scanners said, and what it rests on is never older than it may be.       *)
(***************************************************************************)
EXTENDS Detector, TLAPS

\* A score somebody may rest on: AbuseIPDB sent it, or a body without data that
\* decodes to it.
Sent(score) == score \in answered \/ (None \in answered /\ score = 0)

\* An answer of AbuseIPDB is on its way in two places only, and its age is
\* covered by what those waited for it.
WireInv ==
    /\ wire # None =>
           /\ at \in {"abuse_http", "cache_set"}
           /\ wire.answer \in answered
           /\ wire.age <= IF at = "abuse_http" THEN waited ELSE Timeout + waited
    /\ at = "cache_set" => wire # None

\* A cached score was sent, and before it was stored it was only as long on its
\* way as an answer and a SET may take.
CacheInv ==
    cache # None => /\ Sent(cache.score)
                    /\ cache.age <= cache.life + Timeout + RedisWait

\* The result holds what VirusTotal and AbuseIPDB said, 0 for a body that said
\* nothing, and what clamd said when that was a verdict.
SaidInv ==
    /\ said.vt # None => result.vt = said.vt
    /\ said.vt = None => result.vt \in {None, 0}
    /\ said.abuse # None => result.abuse = said.abuse
    /\ said.abuse = None => result.abuse \in {None, 0}
    /\ said.clam # None => result.clam = said.clam

\* The score in the result was sent, and its age is bounded from the moment it
\* is there.
AgeInv ==
    result.abuse # None => /\ Sent(result.abuse)
                           /\ ipAge <= TTL + Timeout + RedisWait

IInv == TypeOK /\ WireInv /\ CacheInv /\ SaidInv /\ AgeInv

-----------------------------------------------------------------------------
\* Where Detect goes next is a step of it, never one that expects an answer of
\* AbuseIPDB.
LEMMA AfterIsStep ==
    ASSUME NEW step \in {"begin", "clam", "vt", "abuse"}
    PROVE  After(step) \in {"clam_dial", "vt", "cache_get", "done"}
BY DEF After

\* Initially nothing was said, sent or stored.
LEMMA InitIInv == Init => IInv
<1> SUFFICES ASSUME Init PROVE IInv
    OBVIOUS
<1> USE DetectorAssumption DEF Init
<1>1. TypeOK
    BY DEF TypeOK, Nothing, Reports, Steps, Limit
<1>2. WireInv /\ CacheInv /\ SaidInv /\ AgeInv
    BY DEF WireInv, CacheInv, SaidInv, AgeInv, Sent, Nothing
<1> QED BY <1>1, <1>2 DEF IInv

\* main's own steps touch nothing of Detect.
LEMMA MainStep ==
    ASSUME IInv, Start \/ Ready
    PROVE  IInv'
<1>1. TypeOK'
    BY DEF IInv, Start, Ready, detect, TypeOK, Limit
<1>2. WireInv' /\ CacheInv' /\ SaidInv' /\ AgeInv'
    BY DEF IInv, Start, Ready, detect, WireInv, CacheInv, SaidInv, AgeInv, Sent
<1> QED BY <1>1, <1>2 DEF IInv

\* Detect begins with an empty result and nothing on the wire.
LEMMA DetectStep ==
    ASSUME IInv, NEW e \in Events, Detect(e)
    PROVE  IInv'
<1> USE DetectorAssumption DEF IInv
<1>1. at' \in {"clam_dial", "vt", "cache_get", "done"}
    BY AfterIsStep DEF Detect
<1>2. wire = None
    BY DEF Detect, WireInv
<1>3. TypeOK'
    BY <1>1, <1>2 DEF Detect, TypeOK, Nothing, Reports, Steps, Limit
<1>4. WireInv' /\ CacheInv' /\ SaidInv' /\ AgeInv'
    BY <1>1, <1>2 DEF Detect, WireInv, CacheInv, SaidInv, AgeInv, Sent, Nothing
<1> QED BY <1>3, <1>4

\* The exchange with clamd; a line that is no verdict is not something said.
LEMMA ClamStep ==
    ASSUME IInv,
           \/ ClamConnect \/ ClamWrite \/ ClamFails
           \/ \E line \in {"OK", "FOUND", "other"} : ClamAnswers(line)
    PROVE  IInv'
<1> USE DetectorAssumption DEF IInv
<1>1. CASE ClamConnect \/ ClamWrite
    <2>1. TypeOK'
        <3>1. /\ UNCHANGED <<main, event, result, said, wire, cache, ipAge, answered>>
              /\ at' \in {"clam_write", "clam_read"} /\ at \in {"clam_dial", "clam_write"}
              /\ waited' \in {0, waited}
            BY <1>1 DEF ClamConnect, ClamWrite
        <3>2. at' \in Steps /\ Limit = Timeout /\ Limit' = Timeout
            BY <3>1 DEF Steps, Limit
        <3>3. waited' \in 0 .. Limit'
            BY <3>1, <3>2 DEF TypeOK
        <3> QED BY <3>1, <3>2, <3>3 DEF TypeOK
    <2>2. WireInv' /\ CacheInv' /\ SaidInv' /\ AgeInv'
        BY <1>1 DEF ClamConnect, ClamWrite, WireInv, CacheInv, SaidInv, AgeInv, Sent
    <2> QED BY <2>1, <2>2
<1>2. CASE ClamFails
    <2>1. at' \in {"clam_dial", "vt", "cache_get", "done"} /\ wire = None
        BY <1>2, AfterIsStep DEF ClamFails, Tolerate, WireInv
    <2>2. TypeOK'
        BY <1>2, <2>1 DEF ClamFails, Tolerate, TypeOK, Steps, Limit
    <2>3. WireInv' /\ CacheInv' /\ SaidInv' /\ AgeInv'
        BY <1>2, <2>1 DEF ClamFails, Tolerate, WireInv, CacheInv, SaidInv, AgeInv, Sent
    <2> QED BY <2>2, <2>3
<1>3. ASSUME NEW line \in {"OK", "FOUND", "other"}, ClamAnswers(line)
      PROVE  IInv'
    <2>1. at' \in {"clam_dial", "vt", "cache_get", "done"} /\ wire = None
        BY <1>3, AfterIsStep DEF ClamAnswers, WireInv
    <2>2. TypeOK'
        <3>1. ParseResponse(line) \in BOOLEAN /\ (line = "OK") \in BOOLEAN
            BY DEF ParseResponse
        <3> DEFINE verdict == IF line = "other" THEN None ELSE line = "OK"
        <3>2. verdict \in BOOLEAN \cup {None}
            BY <3>1
        <3>3. result' = [result EXCEPT !.clam = ParseResponse(line)]
              /\ said' = [said EXCEPT !.clam = verdict]
            BY <1>3 DEF ClamAnswers
        <3> HIDE DEF verdict
        <3>4. result' \in Reports /\ said' \in Reports
            BY <3>1, <3>2, <3>3 DEF TypeOK, Reports
        <3> QED BY <1>3, <2>1, <3>4 DEF ClamAnswers, TypeOK, Steps, Limit
    <2>3. SaidInv'
        BY <1>3 DEF ClamAnswers, ParseResponse, SaidInv, TypeOK, Reports
    <2>4. WireInv' /\ CacheInv' /\ AgeInv'
        BY <1>3, <2>1 DEF ClamAnswers, WireInv, CacheInv, AgeInv, Sent, TypeOK, Reports
    <2> QED BY <2>2, <2>3, <2>4
<1> QED BY <1>1, <1>2, <1>3

\* VirusTotal's report, or none.
LEMMA VTStep ==
    ASSUME IInv, VTFails \/ \E answer \in Counts \cup {None} : VTAnswers(answer)
    PROVE  IInv'
<1> USE DetectorAssumption DEF IInv
<1>1. CASE VTFails
    <2>1. at' \in {"clam_dial", "vt", "cache_get", "done"} /\ wire = None
        BY <1>1, AfterIsStep DEF VTFails, Tolerate, WireInv
    <2>2. TypeOK'
        BY <1>1, <2>1 DEF VTFails, Tolerate, TypeOK, Steps, Limit
    <2>3. WireInv' /\ CacheInv' /\ SaidInv' /\ AgeInv'
        BY <1>1, <2>1 DEF VTFails, Tolerate, WireInv, CacheInv, SaidInv, AgeInv, Sent
    <2> QED BY <2>2, <2>3
<1>2. ASSUME NEW answer \in Counts \cup {None}, VTAnswers(answer)
      PROVE  IInv'
    <2>1. at' \in {"clam_dial", "vt", "cache_get", "done"} /\ wire = None
        BY <1>2, AfterIsStep DEF VTAnswers, Decoded, WireInv
    <2>2. TypeOK'
        BY <1>2, <2>1 DEF VTAnswers, Decoded, TypeOK, Reports, Steps, Limit
    <2>3. WireInv' /\ CacheInv' /\ SaidInv' /\ AgeInv'
        BY <1>2, <2>1 DEF VTAnswers, Decoded, WireInv, CacheInv, SaidInv, AgeInv, Sent, TypeOK, Reports
    <2> QED BY <2>2, <2>3
<1> QED BY <1>1, <1>2

\* A hit takes the score and its age from the cache; a miss takes nothing.
LEMMA CacheGetStep ==
    ASSUME IInv, CacheHit \/ CacheMiss
    PROVE  IInv'
<1> USE DetectorAssumption DEF IInv
<1>1. CASE CacheHit
    <2>1. at' = "done" /\ wire = None
        BY <1>1 DEF CacheHit, After, WireInv
    <2>2. /\ cache \in [score : Nat, life : 0 .. TTL - 1, age : Nat]
          /\ cache.age <= cache.life + Timeout + RedisWait
        BY <1>1 DEF CacheHit, CacheInv, TypeOK
    <2>3. cache.score \in Nat /\ cache.age \in Nat /\ cache.age <= TTL + Timeout + RedisWait
        BY <2>2
    <2>4. TypeOK'
        BY <1>1, <2>1, <2>3 DEF CacheHit, TypeOK, Reports, Steps, Limit
    <2>5. WireInv' /\ CacheInv' /\ SaidInv' /\ AgeInv'
        BY <1>1, <2>1, <2>3 DEF CacheHit, WireInv, CacheInv, SaidInv, AgeInv, Sent, TypeOK, Reports
    <2> QED BY <2>4, <2>5
<1>2. CASE CacheMiss
    <2>1. wire = None
        BY <1>2 DEF CacheMiss, WireInv
    <2>2. TypeOK'
        BY <1>2, <2>1 DEF CacheMiss, TypeOK, Steps, Limit
    <2>3. WireInv' /\ CacheInv' /\ SaidInv' /\ AgeInv'
        BY <1>2, <2>1 DEF CacheMiss, WireInv, CacheInv, SaidInv, AgeInv, Sent
    <2> QED BY <2>2, <2>3
<1> QED BY <1>1, <1>2

\* AbuseIPDB computes an answer, which arrives in time or is given up.
LEMMA AbuseStep ==
    ASSUME IInv,
           \/ \E answer \in Scores \cup {None} : AbuseSends(answer)
           \/ AbuseAnswers \/ AbuseFails
    PROVE  IInv'
<1> USE DetectorAssumption DEF IInv
<1>1. ASSUME NEW answer \in Scores \cup {None}, AbuseSends(answer)
      PROVE  IInv'
    <2>1. TypeOK'
        BY <1>1 DEF AbuseSends, TypeOK, Limit
    <2>2. WireInv' /\ CacheInv' /\ SaidInv' /\ AgeInv'
        BY <1>1 DEF AbuseSends, WireInv, CacheInv, SaidInv, AgeInv, Sent, TypeOK
    <2> QED BY <2>1, <2>2
<1>2. CASE AbuseAnswers
    <2>1. /\ wire \in [answer : Nat \cup {None}, age : 0 .. Timeout + RedisWait]
          /\ wire.answer \in answered /\ wire.age <= waited /\ waited <= Timeout
        BY <1>2 DEF AbuseAnswers, Decoded, WireInv, TypeOK, Limit
    <2>2. wire.answer \in Nat \cup {None} /\ wire.age \in Nat /\ wire.age <= Timeout
        BY <2>1 DEF TypeOK
    <2>3. TypeOK'
        BY <1>2, <2>2 DEF AbuseAnswers, Decoded, TypeOK, Reports, Steps, Limit
    <2>4. WireInv' /\ CacheInv' /\ SaidInv' /\ AgeInv'
        BY <1>2, <2>1, <2>2
           DEF AbuseAnswers, Decoded, WireInv, CacheInv, SaidInv, AgeInv, Sent, TypeOK, Reports
    <2> QED BY <2>3, <2>4
<1>3. CASE AbuseFails
    <2>1. at' = "done"
        BY <1>3 DEF AbuseFails, Tolerate, After
    <2>2. TypeOK'
        BY <1>3, <2>1 DEF AbuseFails, Tolerate, TypeOK, Steps, Limit
    <2>3. WireInv' /\ CacheInv' /\ SaidInv' /\ AgeInv'
        BY <1>3, <2>1 DEF AbuseFails, Tolerate, WireInv, CacheInv, SaidInv, AgeInv, Sent
    <2> QED BY <2>2, <2>3
<1> QED BY <1>1, <1>2, <1>3

\* What a SET stores was sent one HTTP timeout and one SET ago at most.
LEMMA CacheSetStep ==
    ASSUME IInv, CacheSet
    PROVE  IInv'
<1> USE DetectorAssumption DEF IInv
<1>1. at' = "done"
    BY DEF CacheSet, After
<1>2. /\ wire \in [answer : Nat \cup {None}, age : 0 .. Timeout + RedisWait]
      /\ wire.answer \in answered
    BY DEF CacheSet, WireInv, TypeOK
<1>3. cache' = [score |-> Decoded(wire.answer), life |-> 0, age |-> wire.age] \/ cache' = cache
    BY DEF CacheSet
<1>4. TypeOK'
    BY <1>1, <1>2, <1>3 DEF CacheSet, Decoded, TypeOK, Steps, Limit
<1>5. CacheInv'
    BY <1>2, <1>3 DEF CacheSet, CacheInv, Sent, Decoded
<1>6. WireInv' /\ SaidInv' /\ AgeInv'
    BY <1>1 DEF CacheSet, WireInv, SaidInv, AgeInv, Sent
<1> QED BY <1>4, <1>5, <1>6

\* The entry goes, time passes, or the process starts again: answers and
\* entries only grow older by what their bounds allow.
LEMMA EnvironmentStep ==
    ASSUME IInv, Evict \/ Tick \/ Restart
    PROVE  IInv'
<1> USE DetectorAssumption DEF IInv
<1>1. CASE Evict
    BY <1>1 DEF Evict, detect, TypeOK, Limit, WireInv, CacheInv, SaidInv, AgeInv, Sent
<1>2. CASE Restart
    <2>1. TypeOK'
        BY <1>2 DEF Restart, Nothing, TypeOK, Reports, Steps, Limit
    <2>2. WireInv' /\ CacheInv' /\ SaidInv' /\ AgeInv'
        BY <1>2 DEF Restart, Nothing, WireInv, CacheInv, SaidInv, AgeInv, Sent
    <2> QED BY <2>1, <2>2
<1>3. CASE Tick
    <2>1. UNCHANGED <<main, at, event, result, said, ipAge, answered>>
        BY <1>3 DEF Tick
    <2>2. waited' \in 0 .. Limit /\ Limit' = Limit
        BY <1>3, <2>1 DEF Tick, Waiting, Limit, TypeOK
    <2>3. /\ wire' = None \/ wire' \in [answer : Nat \cup {None}, age : 0 .. Timeout + RedisWait]
          /\ WireInv'
        <3>1. CASE wire = None
            BY <1>3, <2>1, <3>1 DEF Tick, WireInv
        <3>2. CASE wire # None
            <4>1. /\ at \in {"abuse_http", "cache_set"}
                  /\ wire.answer \in Nat \cup {None} /\ wire.age \in Nat /\ wire.answer \in answered
                  /\ wire' = [answer |-> wire.answer, age |-> wire.age + 1]
                  /\ wire.age <= IF at = "abuse_http" THEN waited ELSE Timeout + waited
                BY <1>3, <3>2 DEF Tick, WireInv, TypeOK
            <4>2. waited' = waited + 1 /\ waited \in Nat /\ waited' <= Limit
                BY <1>3, <2>2, <4>1 DEF Tick, Waiting, Limit, TypeOK
            <4>3. wire' # None
                BY <4>1
            <4>4. wire'.age <= IF at = "abuse_http" THEN waited' ELSE Timeout + waited'
                BY <4>1, <4>2
            <4>5. wire'.age <= Timeout + RedisWait
                <5>1. wire'.age \in Nat /\ at \in {"abuse_http", "cache_set"}
                    BY <4>1
                <5>2. waited' \in Nat /\ waited' <= IF at = "abuse_http" THEN Timeout ELSE RedisWait
                    BY <4>2, <5>1 DEF Limit
                <5> QED BY <4>4, <5>1, <5>2
            <4> QED BY <2>1, <4>1, <4>3, <4>4, <4>5 DEF WireInv
        <3> QED BY <3>1, <3>2
    <2>4. /\ cache' = None \/ cache' \in [score : Nat, life : 0 .. TTL - 1, age : Nat]
          /\ CacheInv'
        <3>1. CASE cache = None \/ cache.life + 1 = TTL
            BY <1>3, <3>1 DEF Tick, CacheInv
        <3>2. CASE ~(cache = None \/ cache.life + 1 = TTL)
            <4>1. /\ cache.score \in Nat /\ cache.life \in 0 .. TTL - 1 /\ cache.age \in Nat
                  /\ Sent(cache.score)
                  /\ cache.age <= cache.life + Timeout + RedisWait
                  /\ cache' = [score |-> cache.score, life |-> cache.life + 1,
                               age |-> cache.age + 1]
                BY <1>3, <3>2 DEF Tick, CacheInv, TypeOK
            <4> QED BY <2>1, <3>2, <4>1 DEF CacheInv, Sent
        <3> QED BY <3>1, <3>2
    <2>5. TypeOK'
        BY <2>1, <2>2, <2>3, <2>4 DEF TypeOK
    <2>6. SaidInv' /\ AgeInv'
        BY <2>1 DEF SaidInv, AgeInv, Sent
    <2> QED BY <2>3, <2>4, <2>5, <2>6
<1> QED BY <1>1, <1>2, <1>3

\* Every step keeps the invariant.
LEMMA NextIInv == IInv /\ [Next]_vars => IInv'
<1> SUFFICES ASSUME IInv, [Next]_vars PROVE IInv'
    OBVIOUS
<1>1. CASE UNCHANGED vars
    BY <1>1 DEF vars, IInv, TypeOK, Limit, WireInv, CacheInv, SaidInv, AgeInv, Sent
<1>2. CASE Next
    BY <1>2, MainStep, DetectStep, ClamStep, VTStep, CacheGetStep, AbuseStep, CacheSetStep,
       EnvironmentStep DEF Next, Scanning
<1> QED BY <1>1, <1>2

\* The invariant holds throughout.
LEMMA Invariance == Spec => []IInv
BY InitIInv, NextIInv, PTL DEF Spec

-----------------------------------------------------------------------------
\* escalate picks one of its two levels, and none of them is above its pick.
LEMMA EscalateIsWorse ==
    ASSUME NEW a \in Levels, NEW b \in Levels
    PROVE  /\ Escalate(a, b) \in {a, b}
           /\ Rank(a) <= Rank(Escalate(a, b)) /\ Rank(b) <= Rank(Escalate(a, b))
BY DEF Escalate, Rank, Levels

\* Ranks order the levels.
LEMMA RankType == \A s \in Levels : Rank(s) \in 0 .. 3
BY DEF Levels, Rank

\* Every score and every count has a level.
LEMMA ThresholdsTotal ==
    ASSUME NEW n \in Nat
    PROVE  ScoreToSeverity(n) \in Levels /\ CountToSeverity(n) \in Levels
BY DEF ScoreToSeverity, CountToSeverity, Levels

\* computeSeverity folds escalate over three levels, one per report, where a
\* report that is missing counts as low: its result is one of them, and none
\* of them is above it.
LEMMA SeverityIsMaximum ==
    ASSUME NEW r \in Reports
    PROVE  LET clam  == IF NotClean(r) THEN "critical" ELSE "low"
               vt    == IF r.vt # None THEN CountToSeverity(r.vt) ELSE "low"
               abuse == IF r.abuse # None THEN ScoreToSeverity(r.abuse) ELSE "low"
           IN  /\ ComputeSeverity(r) \in {clam, vt, abuse}
               /\ \A s \in {clam, vt, abuse, "low"} : Rank(s) <= Rank(ComputeSeverity(r))
<1> DEFINE clam  == IF NotClean(r) THEN "critical" ELSE "low"
           vt    == IF r.vt # None THEN CountToSeverity(r.vt) ELSE "low"
           abuse == IF r.abuse # None THEN ScoreToSeverity(r.abuse) ELSE "low"
           one   == Escalate("low", clam)
           two   == Escalate(one, vt)
           three == Escalate(two, abuse)
<1>1. clam \in Levels /\ "low" \in Levels
    BY DEF Levels
<1>2. vt \in Levels /\ abuse \in Levels
    BY <1>1, ThresholdsTotal, DetectorAssumption DEF Reports
<1>3. \A a \in Levels : Escalate(a, "low") = a
    BY DEF Escalate, Levels, Rank
<1>4. ComputeSeverity(r) = three
    <2>1. one = (IF NotClean(r) THEN Escalate("low", "critical") ELSE "low")
        BY <1>1, <1>3
    <2>2. one \in Levels
        BY <1>1, EscalateIsWorse
    <2> HIDE DEF one
    <2>3. two = IF r.vt # None THEN Escalate(one, CountToSeverity(r.vt)) ELSE one
        BY <1>3, <2>2
    <2>4. two \in Levels
        BY <1>2, <2>2, EscalateIsWorse
    <2> HIDE DEF two
    <2>5. three = IF r.abuse # None THEN Escalate(two, ScoreToSeverity(r.abuse)) ELSE two
        BY <1>3, <2>4
    <2> HIDE DEF three
    <2> QED BY <2>1, <2>3, <2>5 DEF ComputeSeverity
<1> HIDE DEF clam, vt, abuse
<1>5. one = clam /\ Rank("low") <= Rank(clam)
    BY <1>1 DEF Escalate, Levels, Rank
<1>6. two \in {clam, vt} /\ Rank(clam) <= Rank(two) /\ Rank(vt) <= Rank(two)
    BY <1>1, <1>2, <1>5, EscalateIsWorse
<1>7. three \in {two, abuse} /\ Rank(two) <= Rank(three) /\ Rank(abuse) <= Rank(three)
    BY <1>1, <1>2, <1>6, EscalateIsWorse
<1> HIDE DEF one, two, three
<1>8. three \in {clam, vt, abuse} /\ two \in Levels /\ three \in Levels
    BY <1>1, <1>2, <1>6, <1>7
<1>9. \A s \in {clam, vt, abuse, "low"} : Rank(s) <= Rank(three)
    BY <1>1, <1>2, <1>5, <1>6, <1>7, <1>8, RankType
<1> QED BY <1>4, <1>8, <1>9 DEF clam, vt, abuse

\* What the result holds is what was said, so its severity is the worst answer.
LEMMA WorstAnswer == IInv => SeverityIsWorstAnswer
<1> SUFFICES ASSUME IInv, at = "done", result.clam # None => said.clam # None
             PROVE  LET asked == {ScoreToSeverity(s) : s \in {said.abuse} \ {None}}
                                 \cup {CountToSeverity(n) : n \in {said.vt} \ {None}}
                                 \cup {IF clean THEN "low" ELSE "critical" :
                                          clean \in {said.clam} \ {None}}
                                 \cup {"low"}
                    IN  /\ ComputeSeverity(result) \in asked
                        /\ \A s \in asked : Rank(s) <= Rank(ComputeSeverity(result))
    BY DEF SeverityIsWorstAnswer
<1> DEFINE clam  == IF NotClean(result) THEN "critical" ELSE "low"
           vt    == IF result.vt # None THEN CountToSeverity(result.vt) ELSE "low"
           abuse == IF result.abuse # None THEN ScoreToSeverity(result.abuse) ELSE "low"
<1>1. /\ ComputeSeverity(result) \in {clam, vt, abuse}
      /\ \A s \in {clam, vt, abuse, "low"} : Rank(s) <= Rank(ComputeSeverity(result))
    BY SeverityIsMaximum DEF IInv, TypeOK
<1>2. /\ result.clam = said.clam
      /\ said.vt # None => result.vt = said.vt
      /\ said.vt = None => result.vt \in {None, 0}
      /\ said.abuse # None => result.abuse = said.abuse
      /\ said.abuse = None => result.abuse \in {None, 0}
    BY DEF IInv, SaidInv
<1>2a. CountToSeverity(0) = "low" /\ ScoreToSeverity(0) = "low"
    BY DEF CountToSeverity, ScoreToSeverity
<1>3. {IF clean THEN "low" ELSE "critical" : clean \in {said.clam} \ {None}} \cup {"low"}
      = {clam, "low"}
    BY <1>2 DEF NotClean
<1>4. {CountToSeverity(n) : n \in {said.vt} \ {None}} \cup {"low"} = {vt, "low"}
    BY <1>2, <1>2a
<1>5. {ScoreToSeverity(s) : s \in {said.abuse} \ {None}} \cup {"low"} = {abuse, "low"}
    BY <1>2, <1>2a
<1> QED BY <1>1, <1>3, <1>4, <1>5

\* A result whose ClamAV report was said says of every signal what the scanners
\* said of it: a body without data is no signal.
LEMMA SignalsAreSaid ==
    ASSUME IInv, result.clam # None => said.clam # None
    PROVE  /\ NotClean(result) <=> said.clam = FALSE
           /\ result.vt # None /\ result.vt > 0 <=> said.vt # None /\ said.vt > 0
           /\ result.abuse # None /\ result.abuse >= 50 <=> said.abuse # None /\ said.abuse >= 50
           /\ result.abuse # None /\ result.abuse \in 20 .. 49
              <=> said.abuse # None /\ said.abuse \in 20 .. 49
<1> USE DetectorAssumption
<1>1. /\ result.clam \in BOOLEAN \cup {None} /\ said.clam \in BOOLEAN \cup {None}
      /\ result.vt \in Nat \cup {None} /\ said.vt \in Nat \cup {None}
      /\ result.abuse \in Nat \cup {None} /\ said.abuse \in Nat \cup {None}
    BY DEF IInv, TypeOK, Reports
<1>2. SaidInv
    BY DEF IInv
<1>3. NotClean(result) <=> said.clam = FALSE
    BY <1>1, <1>2 DEF SaidInv, NotClean
<1>4. result.vt # None /\ result.vt > 0 <=> said.vt # None /\ said.vt > 0
    BY <1>1, <1>2 DEF SaidInv
<1>5. /\ result.abuse # None /\ result.abuse >= 50 <=> said.abuse # None /\ said.abuse >= 50
      /\ result.abuse # None /\ result.abuse \in 20 .. 49
         <=> said.abuse # None /\ said.abuse \in 20 .. 49
    BY <1>1, <1>2 DEF SaidInv
<1> QED BY <1>3, <1>4, <1>5

\* Each tactic has the verdicts its signal asks for, and no tactic but the
\* default leaves out a signal that comes before its own.
LEMMA TacticAndVerdict == IInv => TacticExplainsVerdict
<1> SUFFICES ASSUME IInv, result.clam # None => said.clam # None
             PROVE  LET verdict  == ComputeVerdict(ComputeSeverity(result))
                        tactic   == InferMitreTactic(result)
                        infected == NotClean(result)
                        hit      == result.vt # None /\ result.vt > 0
                        reported == result.abuse # None /\ result.abuse >= 50
                        doubtful == result.abuse # None /\ result.abuse \in 20 .. 49
                    IN  /\ verdict = "MALICIOUS" => \/ infected /\ tactic = "TA0002"
                                                    \/ hit /\ tactic = "TA0001"
                                                    \/ reported /\ tactic = "TA0011"
                        /\ tactic # "TA0043" => verdict # "CLEAN"
                        /\ tactic = "TA0043" =>
                               /\ ~infected /\ ~hit /\ ~reported
                               /\ verdict = IF doubtful THEN "SUSPICIOUS" ELSE "CLEAN"
    BY SignalsAreSaid DEF TacticExplainsVerdict
<1> DEFINE vt    == IF result.vt # None THEN CountToSeverity(result.vt) ELSE "low"
           abuse == IF result.abuse # None THEN ScoreToSeverity(result.abuse) ELSE "low"
           clam  == IF NotClean(result) THEN "critical" ELSE "low"
           sev   == ComputeSeverity(result)
<1>1. result.vt \in Nat \cup {None} /\ result.abuse \in Nat \cup {None}
    BY DEF IInv, TypeOK, Reports
<1>2. /\ sev \in {clam, vt, abuse}
      /\ \A s \in {clam, vt, abuse, "low"} : Rank(s) <= Rank(sev)
    BY SeverityIsMaximum DEF IInv, TypeOK
<1>3. clam \in Levels /\ vt \in Levels /\ abuse \in Levels
    BY <1>1, ThresholdsTotal DEF Levels
<1>4. sev \in Levels
    BY <1>2, <1>3
<1> HIDE DEF sev
<1>5. CASE NotClean(result)
    <2>1. InferMitreTactic(result) = "TA0002" /\ clam = "critical"
        BY <1>5 DEF InferMitreTactic
    <2>2. sev = "critical"
        BY <1>2, <1>4, <2>1 DEF Rank, Levels
    <2> QED BY <1>5, <2>1, <2>2 DEF ComputeVerdict, sev
<1>6. CASE ~NotClean(result) /\ result.vt # None /\ result.vt > 0
    <2>1. InferMitreTactic(result) = "TA0001"
        BY <1>6 DEF InferMitreTactic
    <2>2. vt \in {"medium", "high", "critical"}
        BY <1>1, <1>6, DetectorAssumption DEF CountToSeverity
    <2>3. sev # "low"
        BY <1>2, <2>2 DEF Rank
    <2>4. ComputeVerdict(sev) # "CLEAN"
        BY <1>4, <2>3 DEF ComputeVerdict, Levels
    <2> QED BY <1>6, <2>1, <2>4 DEF sev
<1>7. CASE ~NotClean(result) /\ ~(result.vt # None /\ result.vt > 0)
    <2>1. clam = "low" /\ vt = "low"
        BY <1>1, <1>7, DetectorAssumption DEF CountToSeverity
    <2>2. sev = abuse
        BY <1>2, <1>3, <2>1 DEF Rank, Levels
    <2>3. CASE result.abuse # None /\ result.abuse >= 50
        <3>1. InferMitreTactic(result) = "TA0011"
            BY <1>7, <2>3 DEF InferMitreTactic
        <3>2. abuse \in {"high", "critical"}
            BY <1>1, <2>3, DetectorAssumption DEF ScoreToSeverity
        <3> QED BY <2>2, <2>3, <3>1, <3>2 DEF ComputeVerdict, sev
    <2>4. CASE ~(result.abuse # None /\ result.abuse >= 50)
        <3>1. InferMitreTactic(result) = "TA0043"
            BY <1>7, <2>4 DEF InferMitreTactic
        <3>2. abuse = IF result.abuse # None /\ result.abuse \in 20 .. 49
                      THEN "medium" ELSE "low"
            BY <1>1, <2>4, DetectorAssumption DEF ScoreToSeverity
        <3> QED BY <1>7, <2>2, <2>4, <3>1, <3>2 DEF ComputeVerdict, sev
    <2> QED BY <2>3, <2>4
<1> QED BY <1>5, <1>6, <1>7

-----------------------------------------------------------------------------
\* Every variable of the detector keeps its type; an answer of AbuseIPDB is
\* never on its way longer than its two waits.
THEOREM TypeCorrect == Spec => []TypeOK
<1>1. IInv => TypeOK
    BY DEF IInv
<1> QED BY <1>1, Invariance, PTL

\* CheckIP and its cache: a result's score is one AbuseIPDB sent, whatever was
\* given up, evicted or restarted in between, or the 0 of a body without data.
THEOREM ScoresAreReal == Spec => []ScoresWereSent
<1>1. IInv => ScoresWereSent
    BY DEF IInv, AgeInv, Sent, ScoresWereSent
<1> QED BY <1>1, Invariance, PTL

\* CheckIP: a result rests on no score older than the TTL, an HTTP timeout and
\* a SET, over hits, restarts and slow answers, for every value of the three.
THEOREM ScoresStayFresh == Spec => []ScoreIsFresh
<1>1. IInv => ScoreIsFresh
    BY DEF IInv, AgeInv, Sent, ScoreIsFresh
<1> QED BY <1>1, Invariance, PTL

\* Detect and computeSeverity: a finished result is as severe as the worst
\* scanner that answered, for every count and score.
THEOREM SeverityCorrect == Spec => []SeverityIsWorstAnswer
BY WorstAnswer, Invariance, PTL

\* inferMitreTactic and computeVerdict: what a result is called and the tactic it
\* gets follow from the same signals the scanners raised, for every count and
\* score, lines of clamd that are no verdict aside.
THEOREM TacticCorrect == Spec => []TacticExplainsVerdict
BY TacticAndVerdict, Invariance, PTL
=============================================================================
