----------------------------- MODULE MCLabFlows -----------------------------
(* Small instances of LabFlows for TLC. *)
EXTENDS LabFlows
=============================================================================
