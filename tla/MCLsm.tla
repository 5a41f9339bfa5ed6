------------------------------- MODULE MCLsm -------------------------------
(* Instances of LsmProps for TLC. *)
EXTENDS LsmProps

CONSTANTS w1
OneWriter == {w1}
OneKey == {1}
TwoKeys == {1, 2}
Puts == [k \in TwoKeys |-> [n \in 1 .. 2 |-> {"Value"}]]
(* Key 1 is put and deleted, key 2 is deleted and put. *)
PutsAndDeletes ==
    [k \in TwoKeys |-> [n \in 1 .. 2 |-> {IF n = k THEN "Value" ELSE "Deletion"}]]
=============================================================================
