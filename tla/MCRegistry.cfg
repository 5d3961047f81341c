CONSTANTS
    old = old
    new = new
    a = a
    b = b
    c = c
    doc = doc
    Nobody = Nobody
    Processes <- TwoProcesses
    Names <- ThreeNames
    Docs <- OneDoc
    Lookups <- OnlyNew
    MaxGen = 3
    Setups <- AllSetups
SPECIFICATION SpecRegistry
INVARIANT LookupAfterRegister
INVARIANT UsableWhenFound
INVARIANT OneEntryPerDocument
PROPERTY RegisterEstablishes
