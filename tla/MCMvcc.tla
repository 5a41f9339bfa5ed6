------------------------------- MODULE MCMvcc ------------------------------
(* Instances of Mvcc for TLC. *)
EXTENDS MvccProps, TLC

CONSTANTS t1, t2, t3, k1, k2

OneTxn == {t1}
TwoTxns == {t1, t2}
ThreeTxns == {t1, t2, t3}
OneKey == {k1}
TwoKeys == {k1, k2}
OnlySnapshot == {Nobody}
TheOthers == {t2, t3}
AllRC == [t \in Txns |-> "RC"]
OneRR == [t \in Txns |-> IF t = t1 THEN "RR" ELSE "RC"]
WritersAlike == Permutations({t2, t3})
KeysAlike == Permutations({k1, k2})
Puts == {"put"}
PutsAndDeletes == {"put", "delete"}
=============================================================================
