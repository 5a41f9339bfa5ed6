\* Three keys in two memtables and a table, every way to spread the versions.
SPECIFICATION Spec
CONSTANTS
    Slots <- FourSlots
    Kinds <- BothKinds
    Memtables <- TwoMemtables
    Tables <- OneTable
    BlockCap = 2
    Snapshots <- LatestAndOne
    Chains <- SomeChains
    NoEntry = NoEntry
INVARIANT ScanIsComplete
INVARIANT ForwardInMemory
