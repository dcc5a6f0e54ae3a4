------------------------------- MODULE MCDaily -------------------------------
(* Instances of DailyRecompute for TLC. *)
EXTENDS DailyRecompute

CONSTANTS r1, r2
=============================================================================
