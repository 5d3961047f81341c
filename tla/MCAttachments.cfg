CONSTANTS
    s1 = s1
    s2 = s2
    d1 = d1
    d2 = d2
    p1 = p1
    p2 = p2
    Sessions <- TwoSessions
    Docs <- TwoDocs
    Paths <- TwoPaths
    Setups <- PlainSharedAndHooked
SPECIFICATION Spec
INVARIANT NoPartialFile
INVARIANT NoBrokenReferenceAlone
INVARIANT NoSilentOrphan
