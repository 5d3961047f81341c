CONSTANTS
    p = p
    c1 = c1
    c2 = c2
    Parent = p
    Slots <- OneTwice
    FieldOf <- SliceAndField
    NewLinks <- ApartOrShared
    OtherLinks <- NoneOrAll
    UseRevisions = {TRUE, FALSE}
    MaxVer = 4
SPECIFICATION Spec
INVARIANT NoPhantomLink
INVARIANT CheckHoldsAtPut
PROPERTY FailedUpdateStoresNothing
PROPERTY DeleteCascades
PROPERTY FetchResolves
PROPERTY LinksRecorded
