------------------------------ MODULE MCIngest ------------------------------
(***************************************************************************)
(* Instances of Ingest for TLC, and what the documents say of the gateway.  *)
(***************************************************************************)
EXTENDS Ingest

\* An event with an optional field missing, one that fails the schema and a
\* body that is not JSON.
Plain == [source_ip |-> "v4", event_type |-> "known", file_hash |-> Absent,
          payload |-> Absent, severity |-> Absent, mitre_tactic |-> Absent,
          timestamp |-> Absent]
Hostname == [Plain EXCEPT !.source_ip = "hostname"]

MCBodies == {Plain, Hostname, Broken}
ValidBodies == {Plain}

\* README.md:401: "Each validated event becomes one stream entry".
DocumentedOneEntry == \A i, j \in DOMAIN log : i # j => log[i] # log[j]
=============================================================================
