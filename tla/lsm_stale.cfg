\* Does a read return the newest version?
SPECIFICATION Spec
CONSTANTS
    w1 = w1
    NoEntry = NoEntry
    Keys <- OneKey
    MaxSeq = 2
    Kinds <- Puts
    Writers <- OneWriter
    MaxLevel = 1
    MemtableCap = 1
    MaxMemtables = 3
    BlockCap = 2
    L0Trigger = 2
    L0Stop = 3
    MaxMishaps = 0
CHECK_DEADLOCK FALSE
INVARIANT GetIsNewest
