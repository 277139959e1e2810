---------------------------- MODULE MCDashboard ----------------------------
(* An instance of Dashboard: two addresses, one a part of a text's matches. *)
EXTENDS Dashboard

MCKinds ==
    {[source_ip |-> "10.0.0.1", severity |-> "critical", mitre_tactic |-> "TA0011", dated |-> TRUE],
     [source_ip |-> "10.0.0.1", severity |-> "medium", mitre_tactic |-> "TA0043", dated |-> FALSE],
     [source_ip |-> "10.0.0.2", severity |-> "low", mitre_tactic |-> "TA0043", dated |-> TRUE]}

MCIncludes == {<<"10.0", "10.0.0.1">>, <<"10.0", "10.0.0.2">>, <<"0.2", "10.0.0.2">>}
=============================================================================
