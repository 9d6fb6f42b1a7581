-------------------------- MODULE MCFailureAnalysis --------------------------
(* Instance of FailureAnalysis for TLC. *)
EXTENDS FailureAnalysis
=============================================================================
