------------------------------ MODULE Severity ------------------------------
(***************************************************************************)
(* The pure part of the detector: internal/detector/engine.go and the       *)
(* thresholds of internal/abuseipdb/client.go.  None is a nil pointer: a    *)
(* scanner that was not asked or whose error Detect ignored.                *)
(***************************************************************************)
EXTENDS Integers

CONSTANT None

Levels == {"low", "medium", "high", "critical"}

Rank(s) == CASE s = "low" -> 0 [] s = "medium" -> 1 [] s = "high" -> 2 [] s = "critical" -> 3

\* escalate: the higher of the two, the current one on a tie.
Escalate(current, candidate) ==
    IF Rank(candidate) > Rank(current) THEN candidate ELSE current

\* ScoreToSeverity of an AbuseIPDB confidence score.
ScoreToSeverity(score) ==
    CASE score >= 80 -> "critical"
      [] score >= 50 /\ score < 80 -> "high"
      [] score >= 20 /\ score < 50 -> "medium"
      [] score < 20 -> "low"

\* What VirusTotal's count of malicious verdicts asks for; 0 asks for nothing.
CountToSeverity(malicious) ==
    CASE malicious >= 10 -> "critical"
      [] malicious >= 3 /\ malicious < 10 -> "high"
      [] malicious >= 1 /\ malicious < 3 -> "medium"
      [] malicious < 1 -> "low"

\* A result has a verdict of ClamAV (clean or not), a report of VirusTotal (its
\* malicious count) and a report of AbuseIPDB (its score), or None of each.
NotClean(r) == r.clam # None /\ ~r.clam

\* As ComputeSeverity, with each report overwriting the level before it.
ComputeSeverityLast(r) ==
    CASE r.abuse # None -> ScoreToSeverity(r.abuse)
      [] r.abuse = None /\ r.vt # None -> CountToSeverity(r.vt)
      [] r.abuse = None /\ r.vt = None -> IF NotClean(r) THEN "critical" ELSE "low"

\* computeSeverity: the three reports in turn.
ComputeSeverity(r) ==
    LET afterClam == IF NotClean(r) THEN Escalate("low", "critical") ELSE "low"
        afterVT   == IF r.vt # None THEN Escalate(afterClam, CountToSeverity(r.vt))
                     ELSE afterClam
    IN  IF r.abuse # None THEN Escalate(afterVT, ScoreToSeverity(r.abuse)) ELSE afterVT

\* As InferMitreTactic, with the score asked to be critical.
InferMitreTacticHigh(r) ==
    CASE NotClean(r) -> "TA0002"
      [] ~NotClean(r) /\ r.vt # None /\ r.vt > 0 -> "TA0001"
      [] ~NotClean(r) /\ ~(r.vt # None /\ r.vt > 0) ->
            IF r.abuse # None /\ r.abuse >= 80 THEN "TA0011" ELSE "TA0043"

\* inferMitreTactic: the first signal wins.
InferMitreTactic(r) ==
    CASE NotClean(r) -> "TA0002"
      [] ~NotClean(r) /\ r.vt # None /\ r.vt > 0 -> "TA0001"
      [] ~NotClean(r) /\ ~(r.vt # None /\ r.vt > 0) ->
            IF r.abuse # None /\ r.abuse >= 50 THEN "TA0011" ELSE "TA0043"

\* computeVerdict.
ComputeVerdict(severity) ==
    CASE severity \in {"critical", "high"} -> "MALICIOUS"
      [] severity = "medium" -> "SUSPICIOUS"
      [] severity = "low" -> "CLEAN"
=============================================================================
