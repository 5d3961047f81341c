CONSTANTS
    Times <- SomeTimes
    Seeds <- SomeSeeds
    Draws <- SomeDraws
    MaxIssued = 4
SPECIFICATION Spec
CHECK_DEADLOCK FALSE
INVARIANT WireFormat
PROPERTY IdsIncrease
