------------------------------ MODULE MCErasure -------------------------------
(* Instances of SubjectErasure for TLC. *)
EXTENDS SubjectErasure

CONSTANTS r1, r2, x1
=============================================================================
