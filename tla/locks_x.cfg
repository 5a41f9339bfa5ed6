\* Locks as TransactionImpl uses them: exclusive only, three transactions.
SPECIFICATION Spec
CONSTANTS
    t1 = t1
    t2 = t2
    t3 = t3
    k1 = k1
    k2 = k2
    NoWish = NoWish
    Txns <- ThreeTxns
    Keys <- TwoKeys
    RequestTypes <- OnlyX
    Api <- DetectOnly
SYMMETRY TxnSymmetry
INVARIANT TypeOK
INVARIANT NoGhostWaiters
INVARIANT NoLostWakeup
INVARIANT NoStaleEdges
INVARIANT GraphAcyclic
