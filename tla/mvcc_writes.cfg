\* Two read-committed transactions that lock, read and write two keys.
SPECIFICATION Spec
CONSTANTS
    t1 = t1
    t2 = t2
    t3 = t3
    k1 = k1
    k2 = k2
    Recovered = Recovered
    Absent = Absent
    Nobody = Nobody
    Nothing = Nothing
    Txns <- TwoTxns
    Keys <- TwoKeys
    Isolation <- AllRC
    Users <- TwoTxns
    Writers <- TwoTxns
    Kinds <- Puts
    StartSeq = 1
    MaxWrites = 1
    MaxItems = 1
    MaxLayers = 2
CHECK_DEADLOCK FALSE
SYMMETRY KeysAlike
INVARIANT SingleWriter
INVARIANT LockedReadsLatest
INVARIANT DurableBeforeVisible
PROPERTY ImplementsAtomicStore
