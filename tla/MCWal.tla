------------------------------- MODULE MCWal -------------------------------
(* Instances of WalProps for TLC. *)
EXTENDS WalProps

CONSTANTS t1, t2, t3, k1, k2, k3

ThreeTxns == {t1, t2, t3}
ThreeKeys == {k1, k2, k3}
\* t2 commits beside t1 and t3; these two share a key.
Writes == [t \in Txns |-> CASE t = t1 -> {k1, k2} [] t = t2 -> {k3}
                            [] OTHER -> {k1}]
=============================================================================
