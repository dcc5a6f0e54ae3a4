------------------------------ MODULE MCArchiver ------------------------------
(* Instances of RawArchiver for TLC. *)
EXTENDS RawArchiver

CONSTANTS a1, a2, p1, p2
=============================================================================
