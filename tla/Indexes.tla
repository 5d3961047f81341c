------------------------------ MODULE Indexes ------------------------------
(***************************************************************************)
(* The indexes of one collection: Register creates the ones its types ask  *)
(* for and records them in _den_indexes, DropStaleIndexes drops the        *)
(* recorded ones its types no longer ask for.  Processes of an old and a   *)
(* new deployment do this against one database.                            *)
(*                                                                         *)
(* PostgreSQL builds an index CONCURRENTLY: it is in the catalog, marked   *)
(* invalid, while it is being built, and stays so when the build fails or  *)
(* its session dies.  Building and dropping exclude each other on a table. *)
(***************************************************************************)
EXTENDS Naturals, FiniteSets

CONSTANTS
    Processes,
    Names,      \* index names
    Setups,     \* the deployments explored
    Nobody

Kinds == {"plain", "unique"}

ASSUME NobodyAssumption  == Nobody \notin Processes
ASSUME NamesAssumption   == Names # {}

(* wanted[p][n]: the IndexDefinition of process p, or "none"; stale: the
   processes that call DropStaleIndexes; serial: one process works on the
   schema at a time; dirty: the indexes whose fields hold duplicates; fts: the
   processes whose type has fts fields.                                     *)
ASSUME SetupsAssumption ==
    Setups \subseteq [backend: {"sqlite", "postgres"}, stale: SUBSET Processes,
                      serial: BOOLEAN, dirty: SUBSET Names, fts: SUBSET Processes,
                      wanted: [Processes -> [Names -> Kinds \cup {"none"}]]]

(* The deployments whose indexes are safe: a name stands for one definition,
   and processes that could meet over an index take turns.  There is nothing
   to meet over where no process drops stale indexes and SQLite creates an
   index in one statement, or no name is wanted by two processes.           *)
Orderly(u) ==
    /\ \A p, q \in Processes, n \in Names :
        "none" \notin {u.wanted[p][n], u.wanted[q][n]} => u.wanted[p][n] = u.wanted[q][n]
    /\ \/ u.serial
       \/ /\ u.stale = {}
          /\ \/ u.backend = "sqlite"
             \/ \A p, q \in Processes, n \in Names :
                    p # q => "none" \in {u.wanted[p][n], u.wanted[q][n]}

VARIABLES
    setup,      \* the deployment at hand
    index,      \* index[n]: its state and kind in the catalog
    record,     \* record[n]: its row in _den_indexes
    building,   \* who holds PostgreSQL's lock against concurrent index builds
    registered, \* the processes whose indexes have been seen to
    pc,
    op,         \* "register" or "stale"
    todo,       \* todo[p]: indexes p has yet to see to
    cur         \* cur[p]: the one it is seeing to

vars == <<setup, index, record, building, registered, pc, op, todo, cur>>

Wanted == setup.wanted

Absent == [state |-> "absent", kind |-> "plain"]

TypeOK ==
    /\ setup \in Setups
    /\ index \in [Names -> [state: {"absent", "building", "invalid", "valid"}, kind: Kinds]]
    /\ record \in [Names -> Kinds \cup {"none"}]
    /\ building \in Processes \cup {Nobody}
    /\ registered \subseteq Processes
    /\ pc \in [Processes -> {"idle", "next", "check", "drop", "create", "build", "record",
                             "dropstale", "forget"}]
    /\ op \in [Processes -> {"register", "stale"}]
    /\ todo \in [Processes -> SUBSET Names]
    /\ cur \in [Processes -> Names]

Init ==
    /\ setup \in Setups
    /\ index = [n \in Names |-> Absent]
    /\ record = [n \in Names |-> "none"]
    /\ building = Nobody
    /\ registered = {}
    /\ pc = [p \in Processes |-> "idle"]
    /\ op = [p \in Processes |-> "register"]
    /\ todo = [p \in Processes |-> {}]
    /\ cur = [p \in Processes |-> CHOOSE n \in Names : TRUE]

GoTo(p, at) == pc' = [pc EXCEPT ![p] = at]
Alone(p) == setup.serial => \A other \in Processes \ {p} : pc[other] = "idle"
CanBuild == building = Nobody

-----------------------------------------------------------------------------
(* Mutant: the unique indexes are left out.                                 *)
MetaIndexesPlain(p) == {n \in Names : Wanted[p][n] = "plain"}

(* buildCollectionMeta and the settings' Indexes.                           *)
MetaIndexes(p) == {n \in Names : Wanted[p][n] # "none"}

Register(p) ==
    /\ pc[p] = "idle" /\ Alone(p)
    /\ op' = [op EXCEPT ![p] = "register"]
    /\ todo' = [todo EXCEPT ![p] = MetaIndexes(p)]
    /\ GoTo(p, "next")
    /\ UNCHANGED <<setup, index, record, building, registered, cur>>

FirstStep == IF setup.backend = "sqlite" THEN "create" ELSE "check"

(* EnsureIndex, for each index in turn.                                     *)
EnsureIndex(p, n) ==
    /\ pc[p] = "next" /\ op[p] = "register" /\ n \in todo[p]
    /\ cur' = [cur EXCEPT ![p] = n]
    /\ todo' = [todo EXCEPT ![p] = @ \ {n}]
    /\ GoTo(p, FirstStep)
    /\ UNCHANGED <<setup, index, record, building, registered, op>>

(* Mutant: what an aborted build left behind is not looked for.             *)
IsIndexInvalidNever(n) == FALSE

(* pg_index.indisvalid is false of an index that is still being built, too. *)
IsIndexInvalid(n) == index[n].state \in {"building", "invalid"}

CheckInvalid(p) ==
    /\ pc[p] = "check"
    /\ GoTo(p, IF IsIndexInvalid(cur[p]) THEN "drop" ELSE "create")
    /\ UNCHANGED <<setup, index, record, building, registered, op, todo, cur>>

(* DROP INDEX CONCURRENTLY IF EXISTS, after any build on the table.         *)
DropInvalid(p) ==
    /\ pc[p] = "drop" /\ CanBuild
    /\ index' = [index EXCEPT ![cur[p]] = Absent]
    /\ GoTo(p, "create")
    /\ UNCHANGED <<setup, record, building, registered, op, todo, cur>>

NewIndex(p, state) == [state |-> state, kind |-> Wanted[p][cur[p]]]

Refused(p) == Wanted[p][cur[p]] = "unique" /\ cur[p] \in setup.dirty

(* CREATE INDEX IF NOT EXISTS goes by the name alone.                       *)
CreateSkips(p) ==
    /\ pc[p] = "create" /\ CanBuild
    /\ index[cur[p]].state # "absent"
    /\ GoTo(p, "record")
    /\ UNCHANGED <<setup, index, record, building, registered, op, todo, cur>>

(* On SQLite the statement is atomic.                                       *)
CreateOnSQLite(p) ==
    /\ pc[p] = "create" /\ setup.backend = "sqlite"
    /\ index[cur[p]].state = "absent" /\ ~Refused(p)
    /\ index' = [index EXCEPT ![cur[p]] = NewIndex(p, "valid")]
    /\ GoTo(p, "record")
    /\ UNCHANGED <<setup, record, building, registered, op, todo, cur>>

CreateOnPostgres(p) ==
    /\ pc[p] = "create" /\ setup.backend = "postgres" /\ CanBuild
    /\ index[cur[p]].state = "absent"
    /\ index' = [index EXCEPT ![cur[p]] = NewIndex(p, "building")]
    /\ building' = p
    /\ GoTo(p, "build")
    /\ UNCHANGED <<setup, record, registered, op, todo, cur>>

Built(p) ==
    /\ pc[p] = "build" /\ ~Refused(p)
    /\ index' = [index EXCEPT ![cur[p]].state = "valid"]
    /\ building' = Nobody
    /\ GoTo(p, "record")
    /\ UNCHANGED <<setup, record, registered, op, todo, cur>>

RecordIndex(p) ==
    /\ pc[p] = "record"
    /\ record' = [record EXCEPT ![cur[p]] = Wanted[p][cur[p]]]
    /\ GoTo(p, "next")
    /\ UNCHANGED <<setup, index, building, registered, op, todo, cur>>

(* The loop over meta.Indexes is over.                                      *)
IndexesDone(p) ==
    /\ pc[p] = "next" /\ op[p] = "register" /\ todo[p] = {}
    /\ registered' = registered \cup {p}
    /\ GoTo(p, "idle")
    /\ UNCHANGED <<setup, index, record, building, op, todo, cur>>

-----------------------------------------------------------------------------
(* The recorded indexes that no registered definition names.                *)
DropStaleIndexes(p) ==
    /\ p \in setup.stale /\ p \in registered
    /\ pc[p] = "idle" /\ Alone(p)
    /\ op' = [op EXCEPT ![p] = "stale"]
    /\ todo' = [todo EXCEPT ![p] = {n \in Names : record[n] # "none"} \ MetaIndexes(p)]
    /\ GoTo(p, "next")
    /\ UNCHANGED <<setup, index, record, building, registered, cur>>

DropIndex(p, n) ==
    /\ pc[p] = "next" /\ op[p] = "stale" /\ n \in todo[p]
    /\ CanBuild
    /\ index' = [index EXCEPT ![n] = Absent]
    /\ cur' = [cur EXCEPT ![p] = n]
    /\ todo' = [todo EXCEPT ![p] = @ \ {n}]
    /\ GoTo(p, "forget")
    /\ UNCHANGED <<setup, record, building, registered, op>>

ForgetIndex(p) ==
    /\ pc[p] = "forget"
    /\ record' = [record EXCEPT ![cur[p]] = "none"]
    /\ GoTo(p, "next")
    /\ UNCHANGED <<setup, index, building, registered, op, todo, cur>>

StaleReturns(p) ==
    /\ pc[p] = "next" /\ op[p] = "stale" /\ todo[p] = {}
    /\ GoTo(p, "idle")
    /\ UNCHANGED <<setup, index, record, building, registered, op, todo, cur>>

(* A statement fails (duplicates under a unique index, a deadlock between two
   builds, a cancelled context) or the process dies: what was done stays
   done, and a build leaves an invalid index behind.                        *)
Fail(p) ==
    /\ pc[p] # "idle"
    /\ index' = IF pc[p] = "build" THEN [index EXCEPT ![cur[p]].state = "invalid"] ELSE index
    /\ building' = IF building = p THEN Nobody ELSE building
    /\ todo' = [todo EXCEPT ![p] = {}]
    /\ GoTo(p, "idle")
    /\ UNCHANGED <<setup, record, registered, op, cur>>

Next == \E p \in Processes :
    \/ Register(p) \/ DropStaleIndexes(p)
    \/ \E n \in Names : EnsureIndex(p, n) \/ DropIndex(p, n)
    \/ CheckInvalid(p) \/ DropInvalid(p)
    \/ CreateSkips(p) \/ CreateOnSQLite(p) \/ CreateOnPostgres(p) \/ Built(p)
    \/ RecordIndex(p) \/ IndexesDone(p)
    \/ ForgetIndex(p) \/ StaleReturns(p) \/ Fail(p)

Spec == Init /\ [][Next]_vars

-----------------------------------------------------------------------------
(* When Register's loop over its indexes ends without an error, every index
   its types ask for is there, usable, and unique where the tag says unique,
   whatever earlier registrations and crashed builds had left behind.       *)
RegisterEstablishes ==
    [][\A p \in Processes :
        pc[p] = "next" /\ op[p] = "register" /\ todo[p] = {} /\ pc'[p] = "idle"
            => \A n \in Names :
                /\ Wanted[p][n] # "none"   => index[n].state = "valid"
                /\ Wanted[p][n] = "unique" => index[n].kind = "unique"]_vars
=============================================================================
