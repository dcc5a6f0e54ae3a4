------------------------------ MODULE MCInsight ------------------------------
(* Instances of InsightGateway for TLC. *)
EXTENDS InsightGateway

CONSTANTS c1, c2, k1
=============================================================================
