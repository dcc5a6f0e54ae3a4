------------------------------ MODULE MCRealtime ------------------------------
(* Instances of RealtimeFacts for TLC. *)
EXTENDS RealtimeFacts

CONSTANTS m1, m2, o1, o2
=============================================================================
