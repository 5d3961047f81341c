------------------------------ MODULE Registry ------------------------------
(***************************************************************************)
(* Register from end to end: after the indexes (Indexes) the full-text     *)
(* index, then the publication of the type in the maps of the *DB; and     *)
(* collectionForType, the lookup every operation begins with, running in   *)
(* another goroutine of the same process, with its lock-free cache.        *)
(*                                                                         *)
(* Each process registers one document type of one collection.  A          *)
(* collectionInfo is the number of the Register call that made it; 0 is    *)
(* none.                                                                   *)
(***************************************************************************)
EXTENDS Indexes

CONSTANTS
    Docs,    \* documents of the collection
    MaxGen,  \* bound: successful Register calls of a process
    Lookups  \* the processes that look types up meanwhile

ASSUME RegistryAssumption == MaxGen \in Nat /\ Lookups \subseteq Processes

VARIABLES
    stage,      \* stage[p]: what Register does after the indexes
    ftsTable,   \* the full-text table or column, with its triggers, exists
    stored,     \* the documents in the collection
    entries,    \* entries[d]: how often d is in the full-text index
    published,  \* published[p]: collections[name]
    cache,      \* cache[p]: typeCache[t]
    look,       \* look[p]: where the lookup is
    seen,       \* seen[p]: the info it has read or returned
    begun,      \* history: what Register had returned when it began
    raced       \* history: Register published between the read and the Store
                \* of the lookup that is under way, or that filled the cache

fulltext == <<ftsTable, stored, entries>>
lookups  == <<look, seen, begun, raced>>
registry == <<published, cache>>
rvars    == <<vars, stage, fulltext, registry, lookups>>

TypeOKRegistry ==
    /\ TypeOK
    /\ stage \in [Processes -> {"none", "fts", "create", "publish"}]
    /\ ftsTable \in BOOLEAN /\ stored \subseteq Docs /\ entries \in [Docs -> Nat]
    /\ {published, cache, seen, begun} \subseteq [Processes -> Nat]
    /\ look \in [Processes -> {"idle", "slow", "store"}]
    /\ raced \in [Processes -> BOOLEAN]

(* Documents may have been stored before the type got its fts tag.          *)
InitRegistry ==
    /\ Init
    /\ stage = [p \in Processes |-> "none"]
    /\ ftsTable = FALSE
    /\ stored \in SUBSET (IF setup.fts = {} THEN {} ELSE Docs)
    /\ entries = [d \in Docs |-> 0]
    /\ published = [p \in Processes |-> 0]
    /\ cache = [p \in Processes |-> 0]
    /\ look = [p \in Processes |-> "idle"]
    /\ seen = [p \in Processes |-> 0]
    /\ begun = [p \in Processes |-> 0]
    /\ raced = [p \in Processes |-> FALSE]

AtStage(p, s) == stage' = [stage EXCEPT ![p] = s]

-----------------------------------------------------------------------------
(* Register.                                                                *)

RegisterType(p) ==
    /\ stage[p] = "none" /\ published[p] < MaxGen
    /\ setup.serial => \A other \in Processes : stage[other] = "none"
    /\ Register(p)
    /\ UNCHANGED <<stage, fulltext, registry, lookups>>

IndexSteps(p) ==
    /\ \/ \E n \in Names : EnsureIndex(p, n) \/ DropIndex(p, n)
       \/ CheckInvalid(p) \/ DropInvalid(p)
       \/ CreateSkips(p) \/ CreateOnSQLite(p) \/ CreateOnPostgres(p) \/ Built(p)
       \/ RecordIndex(p) \/ ForgetIndex(p) \/ StaleReturns(p) \/ Fail(p)
    /\ UNCHANGED <<stage, fulltext, registry, lookups>>

DropStale(p) ==
    /\ stage[p] = "none"
    /\ DropStaleIndexes(p)
    /\ UNCHANGED <<stage, fulltext, registry, lookups>>

EnsureFTSForCollection(p) ==
    /\ IndexesDone(p)
    /\ AtStage(p, IF p \in setup.fts THEN "fts" ELSE "publish")
    /\ UNCHANGED <<fulltext, registry, lookups>>

(* EnsureFTS on SQLite looks for the table; when it is there the triggers
   are, too, and CREATE TRIGGER IF NOT EXISTS does nothing.                 *)
EnsureFTS(p) ==
    /\ stage[p] = "fts" /\ setup.backend = "sqlite"
    /\ AtStage(p, IF ftsTable THEN "publish" ELSE "create")
    /\ UNCHANGED <<vars, fulltext, registry, lookups>>

(* Mutant: CREATE VIRTUAL TABLE IF NOT EXISTS.                              *)
CanCreateFTSAgain == TRUE

(* Without IF NOT EXISTS the loser of a race is refused.                    *)
CanCreateFTS == ~ftsTable

(* Table, triggers and backfill in one IMMEDIATE transaction.               *)
CreateFTS(p) ==
    /\ stage[p] = "create" /\ CanCreateFTS
    /\ ftsTable' = TRUE
    /\ entries' = [d \in Docs |-> IF d \in stored THEN entries[d] + 1 ELSE entries[d]]
    /\ AtStage(p, "publish")
    /\ UNCHANGED <<vars, stored, registry, lookups>>

(* ADD COLUMN IF NOT EXISTS ... GENERATED ALWAYS: the database fills the
   column of the rows that are there, under the table's lock.               *)
AddFTSColumn(p) ==
    /\ stage[p] = "fts" /\ setup.backend = "postgres"
    /\ ftsTable' = TRUE
    /\ entries' = [d \in Docs |-> IF d \in stored THEN 1 ELSE 0]
    /\ AtStage(p, "publish")
    /\ UNCHANGED <<vars, stored, registry, lookups>>

(* "already exists", or any other error, on PostgreSQL also of the column's
   GIN index, when the column is there: Register returns it.                *)
StageFails(p) ==
    /\ \/ stage[p] \in {"fts", "create"}
       \/ stage[p] = "publish" /\ p \in setup.fts /\ setup.backend = "postgres"
    /\ AtStage(p, "none")
    /\ UNCHANGED <<vars, fulltext, registry, lookups>>

(* Mutant: the cache entry is kept.                                         *)
InvalidatedNever(p) == cache

Invalidated(p) == [cache EXCEPT ![p] = 0]

(* Under the mutex: the maps, and the cache entry of the type is deleted.
   Register returns.                                                        *)
Publish(p) ==
    /\ stage[p] = "publish"
    /\ published' = [published EXCEPT ![p] = @ + 1]
    /\ cache' = Invalidated(p)
    /\ raced' = [raced EXCEPT ![p] = @ \/ look[p] = "store"]
    /\ AtStage(p, "none")
    /\ UNCHANGED <<vars, fulltext, look, seen, begun>>

-----------------------------------------------------------------------------
(* collectionForType.                                                       *)

Found(p, info) ==
    /\ seen' = [seen EXCEPT ![p] = info]
    /\ look' = [look EXCEPT ![p] = "idle"]

(* The lock-free lookup in the cache.                                       *)
LookupCached(p) ==
    /\ p \in Lookups /\ look[p] = "idle"
    /\ begun' = [begun EXCEPT ![p] = published[p]]
    /\ IF cache[p] # 0
         THEN Found(p, cache[p]) /\ UNCHANGED raced
         ELSE /\ look' = [look EXCEPT ![p] = "slow"]
              /\ raced' = [raced EXCEPT ![p] = FALSE]
              /\ UNCHANGED seen
    /\ UNCHANGED <<vars, stage, fulltext, registry>>

(* ErrNotRegistered is not cached.                                          *)
AfterRead(p) == IF published[p] = 0 THEN "idle" ELSE "store"

(* The maps, under the read lock.                                           *)
LookupMaps(p) ==
    /\ look[p] = "slow"
    /\ seen' = [seen EXCEPT ![p] = published[p]]
    /\ look' = [look EXCEPT ![p] = AfterRead(p)]
    /\ UNCHANGED <<vars, stage, fulltext, registry, begun, raced>>

(* typeCache.Store, outside the lock.                                       *)
LookupStores(p) ==
    /\ look[p] = "store"
    /\ cache' = [cache EXCEPT ![p] = seen[p]]
    /\ Found(p, seen[p])
    /\ UNCHANGED <<vars, stage, fulltext, published, begun, raced>>

-----------------------------------------------------------------------------
(* The process ends, and starts again with an empty registry.               *)
Restart(p) ==
    /\ pc[p] = "idle"
    /\ published[p] # 0 \/ stage[p] # "none" \/ look[p] # "idle"
    /\ published' = [published EXCEPT ![p] = 0]
    /\ cache' = [cache EXCEPT ![p] = 0]
    /\ AtStage(p, "none")
    /\ look' = [look EXCEPT ![p] = "idle"]
    /\ seen' = [seen EXCEPT ![p] = 0]
    /\ begun' = [begun EXCEPT ![p] = 0]
    /\ raced' = [raced EXCEPT ![p] = FALSE]
    /\ UNCHANGED <<vars, fulltext>>

(* Documents come and go; triggers and generated columns follow them.       *)
StoreDoc(d) ==
    /\ setup.fts # {} /\ d \notin stored
    /\ stored' = stored \cup {d}
    /\ entries' = IF ftsTable THEN [entries EXCEPT ![d] = @ + 1] ELSE entries
    /\ UNCHANGED <<vars, stage, ftsTable, registry, lookups>>

RemoveDoc(d) ==
    /\ d \in stored
    /\ stored' = stored \ {d}
    /\ entries' = IF ftsTable THEN [entries EXCEPT ![d] = @ - 1] ELSE entries
    /\ UNCHANGED <<vars, stage, ftsTable, registry, lookups>>

NextRegistry ==
    \/ \E p \in Processes :
        \/ RegisterType(p) \/ IndexSteps(p) \/ DropStale(p)
        \/ EnsureFTSForCollection(p) \/ EnsureFTS(p) \/ CreateFTS(p)
        \/ AddFTSColumn(p) \/ StageFails(p) \/ Publish(p)
        \/ LookupCached(p) \/ LookupMaps(p) \/ LookupStores(p)
        \/ Restart(p)
    \/ \E d \in Docs : StoreDoc(d) \/ RemoveDoc(d)

SpecRegistry == InitRegistry /\ [][NextRegistry]_rvars

-----------------------------------------------------------------------------
(* A lookup that begins after Register has returned finds the type: what came
   out of the cache is never a miss, nor what an earlier call registered,
   unless Register published between the read and the Store of the lookup that
   cached it.                                                               *)
LookupAfterRegister ==
    \A p \in Lookups :
        look[p] = "idle" /\ begun[p] # 0 =>
            /\ seen[p] # 0
            /\ ~raced[p] => seen[p] >= begun[p]

(* What a lookup returns can be used: the indexes its type asks for are there,
   valid, and unique where the tag says so, and its full-text index exists,
   through restarts, failed builds and other deployments; DropStaleIndexes
   excepted.                                                                *)
UsableWhenFound ==
    \A p \in Lookups :
        seen[p] # 0 /\ setup.stale = {} =>
            /\ \A n \in MetaIndexes(p) :
                /\ index[n].state = "valid"
                /\ Wanted[p][n] = "unique" => index[n].kind = "unique"
            /\ p \in setup.fts => ftsTable

(* Once it exists the full-text index holds every stored document exactly
   once and no other: those saved before the tag was added, and those written
   while two processes were setting it up.                                  *)
OneEntryPerDocument ==
    ftsTable => \A d \in Docs : entries[d] = IF d \in stored THEN 1 ELSE 0
=============================================================================
