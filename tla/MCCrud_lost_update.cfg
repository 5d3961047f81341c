CONSTANTS
    s1 = s1
    s2 = s2
    d1 = d1
    d2 = d2
    Nobody = Nobody
    Sessions <- TwoSessions
    Ids <- OneId
    Backend = "postgres"
    MaxRev = 4
SPECIFICATION UpdatesOnly
SYMMETRY Symmetric
PROPERTY NoLostUpdate
