--------------------------- MODULE MCAttachments ---------------------------
(* Two sessions, documents and contents.                                     *)
EXTENDS Attachments, TLC

CONSTANTS s1, s2, d1, d2, p1, p2

TwoSessions == {s1, s2}
TwoDocs     == {d1, d2}
TwoPaths    == {p1, p2}

Plain  == [storage |-> TwoSessions, unique |-> FALSE, sharing |-> FALSE, inTx |-> FALSE,
           inSlice |-> {}, hooks |-> FALSE]
Shared == [storage |-> {s1}, unique |-> TRUE, sharing |-> TRUE, inTx |-> TRUE,
           inSlice |-> {}, hooks |-> FALSE]
Hooked == [storage |-> {s1}, unique |-> FALSE, sharing |-> TRUE, inTx |-> FALSE,
           inSlice |-> {p2}, hooks |-> TRUE]

PlainSharedAndHooked == {Plain, Shared, Hooked}
=============================================================================
