------------------------------ MODULE MCViews ------------------------------
(* An instance of Views: an event that the detail can show and one it cannot. *)
EXTENDS Views

MCKinds ==
    {[source_ip |-> "10.0.0.1", severity |-> "critical", mitre_tactic |-> "TA0011", dated |-> TRUE],
     [source_ip |-> "10.0.0.2", severity |-> "low", mitre_tactic |-> "TA0043", dated |-> FALSE]}
=============================================================================
