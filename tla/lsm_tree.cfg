\* Two keys, one put then deleted, the other deleted then put; a crash or a failing flush.
SPECIFICATION FairSpec
CONSTANTS
    w1 = w1
    NoEntry = NoEntry
    Keys <- TwoKeys
    MaxSeq = 2
    Kinds <- PutsAndDeletes
    Writers <- OneWriter
    MaxLevel = 1
    MemtableCap = 1
    MaxMemtables = 3
    BlockCap = 2
    L0Trigger = 1
    L0Stop = 2
    MaxMishaps = 1
INVARIANT NothingLost
INVARIANT NewestFirst
INVARIANT ReadsNewest
PROPERTY SwitchedIsFlushed
