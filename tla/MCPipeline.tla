----------------------------- MODULE MCPipeline -----------------------------
(* An instance of Pipeline for TLC: one sensor whose events are all valid.  *)
EXTENDS Pipeline

MCBodies == {[source_ip |-> "v4", event_type |-> "known", file_hash |-> Absent,
              payload |-> Absent, severity |-> "high", mitre_tactic |-> Absent,
              timestamp |-> "utc"]}
=============================================================================
