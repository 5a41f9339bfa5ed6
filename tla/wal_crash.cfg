\* Three transactions, one crash at any step but inside a switch, three sessions.
SPECIFICATION Spec
CONSTANTS
    t1 = t1
    t2 = t2
    t3 = t3
    k1 = k1
    k2 = k2
    k3 = k3
    Torn = Torn
    Nobody = Nobody
    Txns <- ThreeTxns
    Keys <- ThreeKeys
    TouchedKeys <- Writes
    FileCap = 2
    CrashInSwitch = FALSE
    MaxCrashes = 1
    MaxOpens = 3
CHECK_DEADLOCK FALSE
INVARIANT TypeOK
INVARIANT AckedSurvives
INVARIANT NumbersCover
INVARIANT OneCommitPerNumber
INVARIANT LaterCommitWins
