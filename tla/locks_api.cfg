\* Every entry point and both lock types: three transactions, one key.
SPECIFICATION FairSpec
CONSTANTS
    t1 = t1
    t2 = t2
    t3 = t3
    k1 = k1
    k2 = k2
    NoWish = NoWish
    Txns <- ThreeTxns
    Keys <- OneKey
    RequestTypes <- BothTypes
    Api <- AllCalls
INVARIANT MutualExclusion
PROPERTY NoOvertaking
PROPERTY EveryWaitEnds
