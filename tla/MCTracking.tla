----------------------------- MODULE MCTracking -----------------------------
(* Both backends, with and without revisions; three numbers, two of which are
   one float64, as 2^53 and 2^53 + 1 are.                                    *)
EXTENDS Tracking

AllSetups == [backend: {"sqlite", "postgres"}, revision: BOOLEAN]

ThreeNumbers == {0, 1, 2}
OneAndTwoMeet == [v \in ThreeNumbers |-> IF v = 2 THEN 1 ELSE v]
=============================================================================
