CONSTANTS
    r1 = r1
    r2 = r2
    r3 = r3
    p1 = p1
    p2 = p2
    Nobody = Nobody
    Runners <- MCRunners
    Processes <- MCProcesses
    ProcessOf <- MCProcessOf
    Versions = {1, 2, 3}
    Known <- OldAndNew
    Reversible = {2, 3}
    Setups <- MCSetups
SPECIFICATION FairSpec
INVARIANT ExactlyOnce
INVARIANT AppliedInOrder
PROPERTY UpAppliesAll
PROPERTY EveryCallReturns
