-------------------------- MODULE MCClassification --------------------------
(* Instances of Classification for TLC. *)
EXTENDS Classification
=============================================================================
