---------------------------- MODULE MCIngestion ----------------------------
(* Instances of Ingestion for TLC. *)
EXTENDS Ingestion, TLC

CONSTANTS f1, f2

\* Two writes to f1 (an upload in two parts, a correction, a resend), one to f2.
TwoAndOne == (f1 :> 2) @@ (f2 :> 1)
=============================================================================
