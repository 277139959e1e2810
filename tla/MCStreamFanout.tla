--------------------------- MODULE MCStreamFanout ---------------------------
(***************************************************************************)
(* Instances of StreamFanout for TLC.                                       *)
(***************************************************************************)
EXTENDS StreamFanout, TLC

Interchangeable == Permutations(Dashboards)
=============================================================================
