\* A snapshot beside two writers of one key, deletions among the writes.
SPECIFICATION Spec
CONSTANTS
    t1 = t1
    t2 = t2
    t3 = t3
    k1 = k1
    k2 = k2
    Recovered = Recovered
    Absent = Absent
    Nobody = Nobody
    Nothing = Nothing
    Txns <- TwoTxns
    Keys <- OneKey
    Isolation <- AllRC
    Users <- OnlySnapshot
    Writers <- TwoTxns
    Kinds <- PutsAndDeletes
    StartSeq = 1
    MaxWrites = 1
    MaxItems = 1
    MaxLayers = 3
CHECK_DEADLOCK FALSE
INVARIANT FlushedInOrder
INVARIANT SnapshotReadsItsPast
INVARIANT FlushedIsReadable
