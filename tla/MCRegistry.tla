----------------------------- MODULE MCRegistry -----------------------------
(* An old and a new deployment: the new one drops index a, keeps b, and adds
   the unique index c.                                                      *)
EXTENDS Registry, TLC

CONSTANTS old, new, a, b, c, doc

TwoProcesses == {old, new}
ThreeNames   == {a, b, c}
OneDoc       == {doc}
OnlyNew      == {new}

Nothing   == [n \in ThreeNames |-> "none"]
OldAndNew == old :> (a :> "plain" @@ b :> "unique" @@ c :> "none")
          @@ new :> (a :> "none"  @@ b :> "unique" @@ c :> "unique")

OnSQLite   == [backend |-> "sqlite", stale |-> {}, serial |-> FALSE, dirty |-> {},
               fts |-> {}, wanted |-> OldAndNew]
OnPostgres == [OnSQLite EXCEPT !.backend = "postgres", !.serial = TRUE]

(* Without DropStaleIndexes, with it in deployments that take turns, and with
   duplicates under index c.                                                *)
IndexSetups ==
    UNION {{x, [x EXCEPT !.stale = TwoProcesses, !.serial = TRUE], [x EXCEPT !.dirty = {c}]} :
           x \in {OnSQLite, OnPostgres}}

(* Both processes at once, with fts fields and at most one index.           *)
FTSSetups ==
    {[x EXCEPT !.fts = f, !.serial = FALSE, !.wanted = old :> Nothing @@ new :> w] :
        x \in {OnSQLite, OnPostgres}, f \in {TwoProcesses, OnlyNew},
        w \in {Nothing, [Nothing EXCEPT ![b] = "unique"]}}

AllSetups == IndexSetups \cup FTSSetups

ASSUME OrderlySetups == \A u \in Setups : Orderly(u)
=============================================================================
