----------------------------- MODULE MCMembership -----------------------------
(* Instances of Membership for TLC. *)
EXTENDS Membership, TLC

CONSTANTS c1, c2, i1

\* Calls and invitations are interchangeable.
Symmetric == Permutations(Call) \cup Permutations(Invitation) \cup Permutations(User)
=============================================================================
