------------------------------ MODULE MCLocks ------------------------------
(* Instances of LockManager for TLC. *)
EXTENDS LockProps, TLC

CONSTANTS t1, t2, t3, k1, k2

ThreeTxns == {t1, t2, t3}
OneKey == {k1}
TwoKeys == {k1, k2}
OnlyX == {"X"}
DetectOnly == {"Detect"}
AllCalls == OptionalCalls
BothTypes == {"S", "X"}

TxnSymmetry == Permutations(ThreeTxns) 
=============================================================================
