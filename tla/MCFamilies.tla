---------------------------- MODULE MCFamilies ----------------------------
(* An instance of FamiliesProps for TLC. *)
EXTENDS FamiliesProps, TLC

CONSTANTS a, b, w

DefaultAndTwo == {default, a, b}
OneWrite == {w}
Symmetry == Permutations({a, b})
=============================================================================
