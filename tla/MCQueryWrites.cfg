CONSTANTS
    s1 = s1
    s2 = s2
    Nobody = Nobody
    NoId = NoId
    Sessions <- TwoSessions
    Ids = {1, 2, 3, 4, 5}
    Keys = {"a", "b"}
    ChunkSize = 2
    MaxCount = 8
    Setups <- AllSetups
SPECIFICATION FairSpec
CHECK_DEADLOCK FALSE
INVARIANT TypeOK
INVARIANT OneDocumentPerKey
PROPERTY AtomicOnSQLite
PROPERTY EveryCallReturns
