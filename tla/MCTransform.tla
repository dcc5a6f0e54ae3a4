----------------------------- MODULE MCTransform -----------------------------
(* Instances of TransformGraduation for TLC. *)
EXTENDS TransformGraduation

CONSTANTS t1, t2, create, order, o1, o2

OneStream   == {t1} \X {create}
TwoTenants  == {t1, t2} \X {create}
=============================================================================
