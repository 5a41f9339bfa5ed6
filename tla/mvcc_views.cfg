\* A repeatable read beside two writers of one key.
SPECIFICATION Spec
CONSTANTS
    t1 = t1
    t2 = t2
    t3 = t3
    k1 = k1
    k2 = k2
    Recovered = Recovered
    Absent = Absent
    Nobody = Nobody
    Nothing = Nothing
    Txns <- ThreeTxns
    Keys <- OneKey
    Isolation <- OneRR
    Users <- OneTxn
    Writers <- TheOthers
    Kinds <- Puts
    StartSeq = 1
    MaxWrites = 1
    MaxItems = 1
    MaxLayers = 3
CHECK_DEADLOCK FALSE
SYMMETRY WritersAlike
INVARIANT CommitOrder
INVARIANT QuietReadsRepeat
