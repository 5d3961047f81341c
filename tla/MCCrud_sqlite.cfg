CONSTANTS
    s1 = s1
    s2 = s2
    d1 = d1
    d2 = d2
    Nobody = Nobody
    Sessions <- TwoSessions
    Ids <- OneId
    Backend = "sqlite"
    MaxRev = 4
SPECIFICATION Spec
SYMMETRY Symmetric
INVARIANT RevIsIdentity
PROPERTY NoLostUpdate
PROPERTY ReplaceNeverResurrects
PROPERTY SoftDeleteSticks
PROPERTY SerialOnSQLite
