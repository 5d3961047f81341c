CONSTANTS
    Vals <- ThreeNumbers
    Float <- OneAndTwoMeet
    MaxRev = 6
    Setups <- AllSetups
SPECIFICATION Spec
CHECK_DEADLOCK FALSE
INVARIANT SnapshotIsRow
INVARIANT ChangesAgree
PROPERTY RevertRestores
