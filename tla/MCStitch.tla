------------------------------- MODULE MCStitch -------------------------------
(* Instances of IdentityStitch for TLC. *)
EXTENDS IdentityStitch

CONSTANTS s1, s2

\* Two clusters that may grow together, and lose a customer in the middle.
Chain == {<<1, 3>>, <<2, 3>>, <<2, 4>>}
=============================================================================
