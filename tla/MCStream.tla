------------------------------ MODULE MCStream ------------------------------
(* Instances of Stream for TLC. *)
EXTENDS Stream

AllCalls      == {"Write", "Resume", "Compact"}
=============================================================================
