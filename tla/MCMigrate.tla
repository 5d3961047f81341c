----------------------------- MODULE MCMigrate -----------------------------
(* Two processes; the one deployed later knows one migration more, and the
   first migration cannot be rolled back.                                   *)
EXTENDS Migrate, TLC

CONSTANTS r1, r2, r3, p1, p2

MCRunners == {r1, r2, r3}
MCProcessOf == r1 :> p1 @@ r2 :> p1 @@ r3 :> p2
MCProcesses == {p1, p2}
OldAndNew == p1 :> 1..2 @@ p2 :> 1..3

(* Three starters, two of them in one process; and one runner of each process
   calling everything.                                                      *)
MCSetups ==
    {[runners |-> MCRunners, ops |-> {"Up", "UpOne"}],
     [runners |-> {r1, r3}, ops |-> {"Up", "UpOne", "Down", "DownOne"}]}

ASSUME SegmentsAssumption == InitialSegments
=============================================================================
