CONSTANTS
    s1 = s1
    s2 = s2
    d1 = d1
    d2 = d2
    Nobody = Nobody
    Sessions <- TwoSessions
    Ids <- TwoIds
    Backend = "postgres"
    MaxRev = 3
SPECIFICATION LockingCalls
PROPERTY LockedUpdateSafe
PROPERTY EveryCallReturns
VIEW AllButErr
