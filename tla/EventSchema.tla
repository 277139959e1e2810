---------------------------- MODULE EventSchema ----------------------------
(***************************************************************************)
(* EventPayloadSchema of apps/ingest/src/schema.ts: which bodies pass and   *)
(* what safeParse makes of them.  A field's text is abstracted to the class *)
(* its check puts it in; Absent is a missing key.                           *)
(***************************************************************************)

Absent == "absent"

Severities == {"low", "medium", "high", "critical"}

Body == [source_ip    : {"v4", "v6", "hostname", Absent},
         event_type   : {"known", "unknown", Absent},
         file_hash    : {"md5", "sha256", "other", Absent},
         payload      : {"object", "other", Absent},
         severity     : Severities \cup {"other", Absent},
         mitre_tactic : {"TAdddd", "other", Absent},
         timestamp    : {"utc", "offset", "other", Absent}]

\* The two required fields are present and well formed, the optional ones well
\* formed when present; z.string().datetime() takes UTC ("Z") times only.
Valid(b) ==
    /\ b.source_ip \in {"v4", "v6"}
    /\ b.event_type = "known"
    /\ b.file_hash \in {"md5", "sha256", Absent}
    /\ b.payload \in {"object", Absent}
    /\ b.severity \in Severities \cup {Absent}
    /\ b.mitre_tactic \in {"TAdddd", Absent}
    /\ b.timestamp \in {"utc", Absent}

\* parsed.data: the severity is the only field with a default.
Parsed(b) == [b EXCEPT !.severity = IF @ = Absent THEN "low" ELSE @]
=============================================================================
