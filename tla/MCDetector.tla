----------------------------- MODULE MCDetector -----------------------------
(***************************************************************************)
(* An instance of Detector for TLC.                                         *)
(***************************************************************************)
EXTENDS Detector

\* An event with everything, one with a hash only and main's TEST_IP event.
MCEvents == {[payload |-> TRUE,  hash |-> TRUE,  ip |-> TRUE],
             [payload |-> FALSE, hash |-> TRUE,  ip |-> FALSE],
             [payload |-> FALSE, hash |-> FALSE, ip |-> TRUE]}
=============================================================================
