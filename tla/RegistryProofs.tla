---------------------------- MODULE RegistryProofs ----------------------------
(***************************************************************************)
(* Proofs about Registry and the indexes below it, for any number of       *)
(* processes, names, documents, lookups and registrations.                 *)
(*                                                                         *)
(* What a lookup finds (LookInv) and the full-text index (EntryInv,        *)
(* FTSStays) need no assumption on the deployment.  The indexes do:        *)
(* Orderly says which deployments keep them usable, and IndexInv is what   *)
(* those keep true.                                                        *)
(***************************************************************************)
EXTENDS Registry, TLAPS

-----------------------------------------------------------------------------
(* The inductive invariants.                                                *)

Handling(p) == pc[p] \in {"check", "drop", "create", "build", "record"}

(* An index has the kind every process that wants it asks for.              *)
KindOK ==
    \A p \in Processes, n \in Names :
        Wanted[p][n] # "none" /\ index[n].state # "absent" => index[n].kind = Wanted[p][n]

(* What a process handles is one of its own indexes.                        *)
OwnWork ==
    \A p \in Processes :
        /\ op[p] = "register" => todo[p] \subseteq MetaIndexes(p)
        /\ Handling(p) => /\ op[p] = "register"
                          /\ cur[p] \in MetaIndexes(p) \ todo[p]

(* The index a process builds is not usable yet.                            *)
Builder == \A p \in Processes : pc[p] = "build" => index[cur[p]].state = "building"

OnlySQLite ==
    setup.backend = "sqlite" =>
        /\ \A p \in Processes : pc[p] \notin {"check", "drop", "build"}
        /\ \A n \in Names : index[n].state \in {"absent", "valid"}

(* What was found invalid has not become valid, what was not found invalid
   has not become so.                                                       *)
StillInvalid == \A p \in Processes : pc[p] = "drop" => index[cur[p]].state # "valid"
StillClean   == \A p \in Processes : pc[p] = "create" => index[cur[p]].state \in {"absent", "valid"}

(* The indexes Register is through with are valid.                          *)
ThroughValid ==
    \A p \in Processes : pc[p] # "idle" /\ op[p] = "register" =>
        \A n \in MetaIndexes(p) \ todo[p] :
            \/ index[n].state = "valid"
            \/ n = cur[p] /\ pc[p] \in {"check", "drop", "create", "build"}

TakeTurns == setup.serial => \A p, q \in Processes : p # q => "idle" \in {pc[p], pc[q]}
StaleOnly == \A p \in Processes : pc[p] # "idle" /\ op[p] = "stale" => p \in setup.stale

IndexInv ==
    /\ TypeOK /\ Orderly(setup)
    /\ KindOK /\ OwnWork /\ Builder /\ OnlySQLite /\ StillInvalid /\ StillClean
    /\ ThroughValid /\ TakeTurns /\ StaleOnly

(* A type that Register has seen to keeps its indexes.                      *)
SeenTo(p) == stage[p] # "none" \/ published[p] # 0
IndexesStay ==
    setup.stale = {} => \A p \in Processes : SeenTo(p) =>
        \A n \in MetaIndexes(p) : index[n].state = "valid"

(* The full-text index stays, and follows the documents.                    *)
FTSStays == \A p \in setup.fts : stage[p] = "publish" \/ published[p] # 0 => ftsTable
EntryInv == \A d \in Docs : entries[d] = IF ftsTable /\ d \in stored THEN 1 ELSE 0

(* Nothing is found that has not been published, and nothing older than what
   the lookup began with, but for the race.                                 *)
LookOK(p) ==
    /\ cache[p] <= published[p] /\ seen[p] <= published[p] /\ begun[p] <= published[p]
    /\ cache[p] # 0 => raced[p] \/ cache[p] = published[p]
    /\ look[p] = "store" => /\ seen[p] # 0 /\ seen[p] >= begun[p]
                            /\ raced[p] \/ seen[p] = published[p]
    /\ look[p] = "idle" /\ begun[p] # 0 => seen[p] # 0 /\ (raced[p] \/ seen[p] >= begun[p])

LookInv == \A p \in Processes : LookOK(p)

(* The state of the registry that is not the indexes'.                      *)
RegistryOK ==
    /\ stage \in [Processes -> {"none", "fts", "create", "publish"}]
    /\ ftsTable \in BOOLEAN /\ stored \subseteq Docs /\ entries \in [Docs -> Nat]
    /\ published \in [Processes -> Nat] /\ cache \in [Processes -> Nat]
    /\ seen \in [Processes -> Nat] /\ begun \in [Processes -> Nat]
    /\ look \in [Processes -> {"idle", "slow", "store"}]
    /\ raced \in [Processes -> BOOLEAN]

-----------------------------------------------------------------------------
(* The deployment at hand is one of the records of SetupsAssumption.        *)
LEMMA SetupTyped ==
    ASSUME TypeOK
    PROVE  /\ setup.wanted \in [Processes -> [Names -> Kinds \cup {"none"}]]
           /\ setup.backend \in {"sqlite", "postgres"}
           /\ setup.stale \subseteq Processes /\ setup.fts \subseteq Processes
           /\ setup.serial \in BOOLEAN
BY SetupsAssumption DEF TypeOK

(* Two processes meet over an index on SQLite only, and then none drops.    *)
LEMMA Separate ==
    ASSUME IndexInv, NEW p \in Processes, NEW q \in Processes, p # q,
           pc[p] # "idle", pc[q] # "idle",
           NEW n \in MetaIndexes(p), n \in MetaIndexes(q)
    PROVE  setup.backend = "sqlite"
BY SetupTyped DEF IndexInv, Orderly, TakeTurns, MetaIndexes, Wanted

(* Who drops a stale index works alone.                                     *)
LEMMA DropperAlone ==
    ASSUME IndexInv, NEW p \in Processes, pc[p] # "idle", op[p] = "stale"
    PROVE  setup.stale # {} /\ \A q \in Processes \ {p} : pc[q] = "idle"
BY SetupTyped DEF IndexInv, Orderly, TakeTurns, StaleOnly

(* Setting the state of an index leaves its kind.                           *)
LEMMA StateSet ==
    ASSUME TypeOK, NEW p \in Processes, NEW s
    PROVE  [index EXCEPT ![cur[p]].state = s]
             = [index EXCEPT ![cur[p]] = [state |-> s, kind |-> index[cur[p]].kind]]
<1> DEFINE r == index[cur[p]]
<1>1. r = [state |-> r.state, kind |-> r.kind]
  BY DEF TypeOK
<1>2. [r EXCEPT !.state = s] = [state |-> s, kind |-> r.kind]
  BY <1>1
<1>. QED  BY <1>2, Zenon

LEMMA RegisterKeeps ==
    ASSUME IndexInv, NEW p \in Processes, Register(p)
    PROVE  IndexInv'
<1> USE SetupTyped DEF GoTo, MetaIndexes, Wanted
<1>1. TypeOK' /\ setup' = setup
  BY DEF IndexInv, TypeOK, Register
<1>2. Orderly(setup')
  BY <1>1 DEF IndexInv
<1>3. KindOK'
  BY <1>1 DEF IndexInv, TypeOK, Register, KindOK
<1>4. OwnWork'
  BY <1>1 DEF IndexInv, TypeOK, Register, OwnWork, Handling
<1>5. Builder'
  BY <1>1 DEF IndexInv, TypeOK, Register, Builder
<1>6. OnlySQLite'
  BY <1>1 DEF IndexInv, TypeOK, Register, OnlySQLite
<1>7. StillInvalid'
  BY <1>1 DEF IndexInv, TypeOK, Register, StillInvalid
<1>8. StillClean'
  BY <1>1 DEF IndexInv, TypeOK, Register, StillClean
<1>9. ThroughValid'
  BY <1>1 DEF IndexInv, TypeOK, Register, ThroughValid
<1>10. TakeTurns'
  BY <1>1 DEF IndexInv, TypeOK, Register, TakeTurns, Alone
<1>11. StaleOnly'
  BY <1>1 DEF IndexInv, TypeOK, Register, StaleOnly
<1>. QED  BY <1>1, <1>2, <1>3, <1>4, <1>5, <1>6, <1>7, <1>8, <1>9, <1>10, <1>11 DEF IndexInv

LEMMA EnsureIndexKeeps ==
    ASSUME IndexInv, NEW p \in Processes, NEW n \in Names, EnsureIndex(p, n)
    PROVE  IndexInv'
<1> USE SetupTyped DEF GoTo, MetaIndexes, Wanted
<1>1. TypeOK' /\ setup' = setup
  BY DEF IndexInv, TypeOK, EnsureIndex, FirstStep
<1>2. Orderly(setup')
  BY <1>1 DEF IndexInv
<1>3. KindOK'
  BY <1>1 DEF IndexInv, TypeOK, EnsureIndex, KindOK
<1>4. OwnWork'
  BY <1>1 DEF IndexInv, TypeOK, EnsureIndex, OwnWork, Handling
<1>5. Builder'
  BY <1>1 DEF IndexInv, TypeOK, EnsureIndex, Builder, FirstStep
<1>6. OnlySQLite'
  BY <1>1 DEF IndexInv, TypeOK, EnsureIndex, OnlySQLite, FirstStep
<1>7. StillInvalid'
  BY <1>1 DEF IndexInv, TypeOK, EnsureIndex, StillInvalid, FirstStep
<1>8. StillClean'
  BY <1>1 DEF IndexInv, TypeOK, EnsureIndex, StillClean, OnlySQLite, FirstStep
<1>9. ThroughValid'
  BY <1>1 DEF IndexInv, TypeOK, EnsureIndex, ThroughValid, FirstStep
<1>10. TakeTurns'
  BY <1>1 DEF IndexInv, TypeOK, EnsureIndex, TakeTurns
<1>11. StaleOnly'
  BY <1>1 DEF IndexInv, TypeOK, EnsureIndex, StaleOnly
<1>. QED  BY <1>1, <1>2, <1>3, <1>4, <1>5, <1>6, <1>7, <1>8, <1>9, <1>10, <1>11 DEF IndexInv

LEMMA CheckInvalidKeeps ==
    ASSUME IndexInv, NEW p \in Processes, CheckInvalid(p)
    PROVE  IndexInv'
<1> USE SetupTyped DEF GoTo, MetaIndexes, Wanted
<1>1. TypeOK' /\ setup' = setup
  BY DEF IndexInv, TypeOK, CheckInvalid
<1>2. Orderly(setup')
  BY <1>1 DEF IndexInv
<1>3. KindOK'
  BY <1>1 DEF IndexInv, TypeOK, CheckInvalid, KindOK
<1>4. OwnWork'
  BY <1>1 DEF IndexInv, TypeOK, CheckInvalid, OwnWork, Handling
<1>5. Builder'
  BY <1>1 DEF IndexInv, TypeOK, CheckInvalid, Builder
<1>6. OnlySQLite'
  BY <1>1 DEF IndexInv, TypeOK, CheckInvalid, OnlySQLite
<1>7. StillInvalid'
  BY <1>1 DEF IndexInv, TypeOK, CheckInvalid, StillInvalid, IsIndexInvalid
<1>8. StillClean'
  BY <1>1 DEF IndexInv, TypeOK, CheckInvalid, StillClean, IsIndexInvalid
<1>9. ThroughValid'
  BY <1>1 DEF IndexInv, TypeOK, CheckInvalid, ThroughValid
<1>10. TakeTurns'
  BY <1>1 DEF IndexInv, TypeOK, CheckInvalid, TakeTurns
<1>11. StaleOnly'
  BY <1>1 DEF IndexInv, TypeOK, CheckInvalid, StaleOnly
<1>. QED  BY <1>1, <1>2, <1>3, <1>4, <1>5, <1>6, <1>7, <1>8, <1>9, <1>10, <1>11 DEF IndexInv

LEMMA DropInvalidKeeps ==
    ASSUME IndexInv, NEW p \in Processes, DropInvalid(p)
    PROVE  IndexInv'
<1> USE SetupTyped DEF GoTo, MetaIndexes, Wanted
<1>1. TypeOK' /\ setup' = setup
  BY DEF IndexInv, TypeOK, DropInvalid, Absent, Kinds
<1>2. Orderly(setup')
  BY <1>1 DEF IndexInv
<1>3. KindOK'
  BY <1>1 DEF IndexInv, TypeOK, DropInvalid, KindOK, Absent
<1>4. OwnWork'
  BY <1>1 DEF IndexInv, TypeOK, DropInvalid, OwnWork, Handling
<1>5. Builder'
  <2> SUFFICES ASSUME NEW q \in Processes, pc'[q] = "build" PROVE index'[cur'[q]].state = "building"
    BY DEF Builder
  <2>1. q # p /\ pc[q] = "build" /\ cur'[q] = cur[q]
    BY DEF DropInvalid, IndexInv, TypeOK
  <2>2. cur[q] # cur[p]
    BY <2>1, Separate DEF DropInvalid, IndexInv, OwnWork, Handling, OnlySQLite
  <2>. QED  BY <2>1, <2>2 DEF DropInvalid, IndexInv, TypeOK, Builder
<1>6. OnlySQLite'
  BY <1>1 DEF IndexInv, TypeOK, DropInvalid, OnlySQLite
<1>7. StillInvalid'
  BY <1>1 DEF IndexInv, TypeOK, DropInvalid, StillInvalid, Absent
<1>8. StillClean'
  BY <1>1 DEF IndexInv, TypeOK, DropInvalid, StillClean, Absent
<1>9. ThroughValid'
  BY <1>1 DEF IndexInv, TypeOK, DropInvalid, ThroughValid, StillInvalid
<1>10. TakeTurns'
  BY <1>1 DEF IndexInv, TypeOK, DropInvalid, TakeTurns
<1>11. StaleOnly'
  BY <1>1 DEF IndexInv, TypeOK, DropInvalid, StaleOnly
<1>. QED  BY <1>1, <1>2, <1>3, <1>4, <1>5, <1>6, <1>7, <1>8, <1>9, <1>10, <1>11 DEF IndexInv

LEMMA CreateSkipsKeeps ==
    ASSUME IndexInv, NEW p \in Processes, CreateSkips(p)
    PROVE  IndexInv'
<1> USE SetupTyped DEF GoTo, MetaIndexes, Wanted
<1>1. TypeOK' /\ setup' = setup
  BY DEF IndexInv, TypeOK, CreateSkips
<1>2. Orderly(setup')
  BY <1>1 DEF IndexInv
<1>3. KindOK'
  BY <1>1 DEF IndexInv, TypeOK, CreateSkips, KindOK
<1>4. OwnWork'
  BY <1>1 DEF IndexInv, TypeOK, CreateSkips, OwnWork, Handling
<1>5. Builder'
  BY <1>1 DEF IndexInv, TypeOK, CreateSkips, Builder
<1>6. OnlySQLite'
  BY <1>1 DEF IndexInv, TypeOK, CreateSkips, OnlySQLite
<1>7. StillInvalid'
  BY <1>1 DEF IndexInv, TypeOK, CreateSkips, StillInvalid
<1>8. StillClean'
  BY <1>1 DEF IndexInv, TypeOK, CreateSkips, StillClean
<1>9. ThroughValid'
  BY <1>1 DEF IndexInv, TypeOK, CreateSkips, ThroughValid, StillClean
<1>10. TakeTurns'
  BY <1>1 DEF IndexInv, TypeOK, CreateSkips, TakeTurns
<1>11. StaleOnly'
  BY <1>1 DEF IndexInv, TypeOK, CreateSkips, StaleOnly
<1>. QED  BY <1>1, <1>2, <1>3, <1>4, <1>5, <1>6, <1>7, <1>8, <1>9, <1>10, <1>11 DEF IndexInv

LEMMA CreateOnSQLiteKeeps ==
    ASSUME IndexInv, NEW p \in Processes, CreateOnSQLite(p)
    PROVE  IndexInv'
<1> USE SetupTyped DEF GoTo, MetaIndexes, Wanted
<1>0. Wanted[p][cur[p]] \in Kinds
  BY DEF CreateOnSQLite, IndexInv, TypeOK, OwnWork, Handling
<1>1. TypeOK' /\ setup' = setup
  BY <1>0 DEF IndexInv, TypeOK, CreateOnSQLite, NewIndex, Kinds
<1>2. Orderly(setup')
  BY <1>1 DEF IndexInv
<1>3. KindOK'
  <2> SUFFICES ASSUME NEW q \in Processes, NEW m \in Names, Wanted[q][m] # "none", index'[m].state # "absent"
               PROVE  index'[m].kind = Wanted[q][m]
    BY <1>1 DEF KindOK
  <2>1. CASE m # cur[p]
    BY <2>1 DEF CreateOnSQLite, IndexInv, TypeOK, KindOK
  <2>2. CASE m = cur[p]
    BY <2>2 DEF CreateOnSQLite, IndexInv, TypeOK, KindOK, NewIndex, OwnWork, Handling, Orderly
  <2>. QED  BY <2>1, <2>2
<1>4. OwnWork'
  BY <1>0 DEF IndexInv, TypeOK, CreateOnSQLite, OwnWork, Handling
<1>5. Builder'
  BY <1>0 DEF IndexInv, TypeOK, CreateOnSQLite, Builder
<1>6. OnlySQLite'
  BY <1>0 DEF IndexInv, TypeOK, CreateOnSQLite, OnlySQLite, NewIndex
<1>7. StillInvalid'
  BY <1>0 DEF IndexInv, TypeOK, CreateOnSQLite, StillInvalid, OnlySQLite
<1>8. StillClean'
  BY <1>0 DEF IndexInv, TypeOK, CreateOnSQLite, StillClean, NewIndex
<1>9. ThroughValid'
  BY <1>0 DEF IndexInv, TypeOK, CreateOnSQLite, ThroughValid, NewIndex
<1>10. TakeTurns'
  BY <1>0 DEF IndexInv, TypeOK, CreateOnSQLite, TakeTurns
<1>11. StaleOnly'
  BY <1>0 DEF IndexInv, TypeOK, CreateOnSQLite, StaleOnly
<1>. QED  BY <1>1, <1>2, <1>3, <1>4, <1>5, <1>6, <1>7, <1>8, <1>9, <1>10, <1>11 DEF IndexInv

LEMMA CreateOnPostgresKeeps ==
    ASSUME IndexInv, NEW p \in Processes, CreateOnPostgres(p)
    PROVE  IndexInv'
<1> USE SetupTyped DEF GoTo, MetaIndexes, Wanted
<1>0. Wanted[p][cur[p]] \in Kinds
  BY DEF CreateOnPostgres, IndexInv, TypeOK, OwnWork, Handling
<1>1. TypeOK' /\ setup' = setup
  BY <1>0 DEF IndexInv, TypeOK, CreateOnPostgres, NewIndex, Kinds
<1>2. Orderly(setup')
  BY <1>1 DEF IndexInv
<1>3. KindOK'
  <2> SUFFICES ASSUME NEW q \in Processes, NEW m \in Names, Wanted[q][m] # "none", index'[m].state # "absent"
               PROVE  index'[m].kind = Wanted[q][m]
    BY <1>1 DEF KindOK
  <2>1. CASE m # cur[p]
    BY <2>1 DEF CreateOnPostgres, IndexInv, TypeOK, KindOK
  <2>2. CASE m = cur[p]
    BY <2>2 DEF CreateOnPostgres, IndexInv, TypeOK, KindOK, NewIndex, OwnWork, Handling, Orderly
  <2>. QED  BY <2>1, <2>2
<1>4. OwnWork'
  BY <1>0 DEF IndexInv, TypeOK, CreateOnPostgres, OwnWork, Handling
<1>5. Builder'
  BY <1>0 DEF IndexInv, TypeOK, CreateOnPostgres, Builder, NewIndex
<1>6. OnlySQLite'
  BY <1>0 DEF IndexInv, TypeOK, CreateOnPostgres, OnlySQLite
<1>7. StillInvalid'
  BY <1>0 DEF IndexInv, TypeOK, CreateOnPostgres, StillInvalid, NewIndex
<1>8. StillClean'
  <2> SUFFICES ASSUME NEW q \in Processes, pc'[q] = "create" PROVE index'[cur'[q]].state \in {"absent", "valid"}
    BY DEF StillClean
  <2>1. q # p /\ pc[q] = "create" /\ cur'[q] = cur[q]
    BY DEF CreateOnPostgres, IndexInv, TypeOK
  <2>2. cur[q] # cur[p]
    BY <2>1, Separate DEF CreateOnPostgres, IndexInv, OwnWork, Handling
  <2>. QED  BY <2>1, <2>2 DEF CreateOnPostgres, IndexInv, TypeOK, StillClean
<1>9. ThroughValid'
  BY <1>0 DEF IndexInv, TypeOK, CreateOnPostgres, ThroughValid
<1>10. TakeTurns'
  BY <1>0 DEF IndexInv, TypeOK, CreateOnPostgres, TakeTurns
<1>11. StaleOnly'
  BY <1>0 DEF IndexInv, TypeOK, CreateOnPostgres, StaleOnly
<1>. QED  BY <1>1, <1>2, <1>3, <1>4, <1>5, <1>6, <1>7, <1>8, <1>9, <1>10, <1>11 DEF IndexInv

LEMMA BuiltKeeps ==
    ASSUME IndexInv, NEW p \in Processes, Built(p)
    PROVE  IndexInv'
<1> USE SetupTyped DEF GoTo, MetaIndexes, Wanted
<1>0. /\ pc[p] = "build"
      /\ index' = [index EXCEPT ![cur[p]] = [state |-> "valid", kind |-> index[cur[p]].kind]]
      /\ building' = Nobody /\ pc' = [pc EXCEPT ![p] = "record"]
      /\ UNCHANGED <<setup, record, registered, op, todo, cur>>
  BY StateSet, Zenon DEF IndexInv, Built
<1>1. TypeOK' /\ setup' = setup
  BY <1>0 DEF IndexInv, TypeOK
<1>2. Orderly(setup')
  BY <1>1 DEF IndexInv
<1>3. KindOK'
  <2> SUFFICES ASSUME NEW q \in Processes, NEW m \in Names, Wanted[q][m] # "none", index'[m].state # "absent"
               PROVE  index'[m].kind = Wanted[q][m]
    BY <1>1 DEF KindOK
  <2>1. CASE m # cur[p]
    BY <1>0, <2>1 DEF IndexInv, TypeOK, KindOK
  <2>2. CASE m = cur[p]
    <3>1. index[m].state = "building" /\ cur[p] \in Names
      BY <1>0, <2>2 DEF IndexInv, TypeOK, Builder
    <3>2. index[m].kind = Wanted[q][m]
      BY <3>1 DEF IndexInv, KindOK
    <3>. QED  BY <1>0, <2>2, <3>2 DEF IndexInv, TypeOK
  <2>. QED  BY <2>1, <2>2
<1>4. OwnWork'
  BY <1>0 DEF IndexInv, TypeOK, OwnWork, Handling
<1>5. Builder'
  <2> SUFFICES ASSUME NEW q \in Processes, pc'[q] = "build" PROVE index'[cur'[q]].state = "building"
    BY DEF Builder
  <2>1. q # p /\ pc[q] = "build" /\ cur'[q] = cur[q]
    BY <1>0 DEF IndexInv, TypeOK
  <2>2. cur[q] # cur[p]
    BY <1>0, <2>1, Separate DEF IndexInv, OwnWork, Handling, OnlySQLite
  <2>. QED  BY <1>0, <2>1, <2>2 DEF IndexInv, TypeOK, Builder
<1>6. OnlySQLite'
  BY <1>0 DEF IndexInv, TypeOK, OnlySQLite
<1>7. StillInvalid'
  <2> SUFFICES ASSUME NEW q \in Processes, pc'[q] = "drop" PROVE index'[cur'[q]].state # "valid"
    BY DEF StillInvalid
  <2>1. q # p /\ pc[q] = "drop" /\ cur'[q] = cur[q]
    BY <1>0 DEF IndexInv, TypeOK
  <2>2. cur[q] # cur[p]
    BY <1>0, <2>1, Separate DEF IndexInv, OwnWork, Handling, OnlySQLite
  <2>. QED  BY <2>1, <2>2, <1>0 DEF IndexInv, TypeOK, StillInvalid
<1>8. StillClean'
  BY <1>0 DEF IndexInv, TypeOK, StillClean
<1>9. ThroughValid'
  BY <1>0 DEF IndexInv, TypeOK, ThroughValid
<1>10. TakeTurns'
  BY <1>0 DEF IndexInv, TypeOK, TakeTurns
<1>11. StaleOnly'
  BY <1>0 DEF IndexInv, TypeOK, StaleOnly
<1>. QED  BY <1>1, <1>2, <1>3, <1>4, <1>5, <1>6, <1>7, <1>8, <1>9, <1>10, <1>11 DEF IndexInv

LEMMA RecordIndexKeeps ==
    ASSUME IndexInv, NEW p \in Processes, RecordIndex(p)
    PROVE  IndexInv'
<1> USE SetupTyped DEF GoTo, MetaIndexes, Wanted
<1>1. TypeOK' /\ setup' = setup
  BY DEF IndexInv, TypeOK, RecordIndex
<1>2. Orderly(setup')
  BY <1>1 DEF IndexInv
<1>3. KindOK'
  BY <1>1 DEF IndexInv, TypeOK, RecordIndex, KindOK
<1>4. OwnWork'
  BY <1>1 DEF IndexInv, TypeOK, RecordIndex, OwnWork, Handling
<1>5. Builder'
  BY <1>1 DEF IndexInv, TypeOK, RecordIndex, Builder
<1>6. OnlySQLite'
  BY <1>1 DEF IndexInv, TypeOK, RecordIndex, OnlySQLite
<1>7. StillInvalid'
  BY <1>1 DEF IndexInv, TypeOK, RecordIndex, StillInvalid
<1>8. StillClean'
  BY <1>1 DEF IndexInv, TypeOK, RecordIndex, StillClean
<1>9. ThroughValid'
  BY <1>1 DEF IndexInv, TypeOK, RecordIndex, ThroughValid
<1>10. TakeTurns'
  BY <1>1 DEF IndexInv, TypeOK, RecordIndex, TakeTurns
<1>11. StaleOnly'
  BY <1>1 DEF IndexInv, TypeOK, RecordIndex, StaleOnly
<1>. QED  BY <1>1, <1>2, <1>3, <1>4, <1>5, <1>6, <1>7, <1>8, <1>9, <1>10, <1>11 DEF IndexInv

LEMMA IndexesDoneKeeps ==
    ASSUME IndexInv, NEW p \in Processes, IndexesDone(p)
    PROVE  IndexInv'
<1> USE SetupTyped DEF GoTo, MetaIndexes, Wanted
<1>1. TypeOK' /\ setup' = setup
  BY DEF IndexInv, TypeOK, IndexesDone
<1>2. Orderly(setup')
  BY <1>1 DEF IndexInv
<1>3. KindOK'
  BY <1>1 DEF IndexInv, TypeOK, IndexesDone, KindOK
<1>4. OwnWork'
  BY <1>1 DEF IndexInv, TypeOK, IndexesDone, OwnWork, Handling
<1>5. Builder'
  BY <1>1 DEF IndexInv, TypeOK, IndexesDone, Builder
<1>6. OnlySQLite'
  BY <1>1 DEF IndexInv, TypeOK, IndexesDone, OnlySQLite
<1>7. StillInvalid'
  BY <1>1 DEF IndexInv, TypeOK, IndexesDone, StillInvalid
<1>8. StillClean'
  BY <1>1 DEF IndexInv, TypeOK, IndexesDone, StillClean
<1>9. ThroughValid'
  BY <1>1 DEF IndexInv, TypeOK, IndexesDone, ThroughValid
<1>10. TakeTurns'
  BY <1>1 DEF IndexInv, TypeOK, IndexesDone, TakeTurns
<1>11. StaleOnly'
  BY <1>1 DEF IndexInv, TypeOK, IndexesDone, StaleOnly
<1>. QED  BY <1>1, <1>2, <1>3, <1>4, <1>5, <1>6, <1>7, <1>8, <1>9, <1>10, <1>11 DEF IndexInv

LEMMA DropStaleIndexesKeeps ==
    ASSUME IndexInv, NEW p \in Processes, DropStaleIndexes(p)
    PROVE  IndexInv'
<1> USE SetupTyped DEF GoTo, MetaIndexes, Wanted
<1>1. TypeOK' /\ setup' = setup
  BY DEF IndexInv, TypeOK, DropStaleIndexes
<1>2. Orderly(setup')
  BY <1>1 DEF IndexInv
<1>3. KindOK'
  BY <1>1 DEF IndexInv, TypeOK, DropStaleIndexes, KindOK
<1>4. OwnWork'
  BY <1>1 DEF IndexInv, TypeOK, DropStaleIndexes, OwnWork, Handling
<1>5. Builder'
  BY <1>1 DEF IndexInv, TypeOK, DropStaleIndexes, Builder
<1>6. OnlySQLite'
  BY <1>1 DEF IndexInv, TypeOK, DropStaleIndexes, OnlySQLite
<1>7. StillInvalid'
  BY <1>1 DEF IndexInv, TypeOK, DropStaleIndexes, StillInvalid
<1>8. StillClean'
  BY <1>1 DEF IndexInv, TypeOK, DropStaleIndexes, StillClean
<1>9. ThroughValid'
  BY <1>1 DEF IndexInv, TypeOK, DropStaleIndexes, ThroughValid
<1>10. TakeTurns'
  BY <1>1 DEF IndexInv, TypeOK, DropStaleIndexes, TakeTurns, Alone
<1>11. StaleOnly'
  BY <1>1 DEF IndexInv, TypeOK, DropStaleIndexes, StaleOnly
<1>. QED  BY <1>1, <1>2, <1>3, <1>4, <1>5, <1>6, <1>7, <1>8, <1>9, <1>10, <1>11 DEF IndexInv

LEMMA DropIndexKeeps ==
    ASSUME IndexInv, NEW p \in Processes, NEW n \in Names, DropIndex(p, n)
    PROVE  IndexInv'
<1> USE SetupTyped DEF GoTo, MetaIndexes, Wanted
<1>1. TypeOK' /\ setup' = setup
  BY DEF IndexInv, TypeOK, DropIndex, Absent, Kinds
<1>2. Orderly(setup')
  BY <1>1 DEF IndexInv
<1>3. KindOK'
  BY <1>1 DEF IndexInv, TypeOK, DropIndex, KindOK, Absent
<1>4. OwnWork'
  BY <1>1 DEF IndexInv, TypeOK, DropIndex, OwnWork, Handling
<1>5. Builder'
  <2> SUFFICES ASSUME NEW q \in Processes, pc'[q] = "build" PROVE FALSE
    BY DEF Builder
  <2>1. q # p /\ pc[q] = "build"
    BY DEF DropIndex, IndexInv, TypeOK
  <2>. QED  BY <2>1, DropperAlone DEF DropIndex
<1>6. OnlySQLite'
  BY <1>1 DEF IndexInv, TypeOK, DropIndex, OnlySQLite, Absent
<1>7. StillInvalid'
  BY <1>1 DEF IndexInv, TypeOK, DropIndex, StillInvalid, Absent
<1>8. StillClean'
  BY <1>1 DEF IndexInv, TypeOK, DropIndex, StillClean, Absent
<1>9. ThroughValid'
  <2> SUFFICES ASSUME NEW q \in Processes, pc'[q] # "idle", op'[q] = "register" PROVE FALSE
    BY DEF ThroughValid
  <2>1. q # p /\ pc[q] # "idle"
    BY DEF DropIndex, IndexInv, TypeOK
  <2>. QED  BY <2>1, DropperAlone DEF DropIndex
<1>10. TakeTurns'
  BY <1>1 DEF IndexInv, TypeOK, DropIndex, TakeTurns
<1>11. StaleOnly'
  BY <1>1 DEF IndexInv, TypeOK, DropIndex, StaleOnly
<1>. QED  BY <1>1, <1>2, <1>3, <1>4, <1>5, <1>6, <1>7, <1>8, <1>9, <1>10, <1>11 DEF IndexInv

LEMMA ForgetIndexKeeps ==
    ASSUME IndexInv, NEW p \in Processes, ForgetIndex(p)
    PROVE  IndexInv'
<1> USE SetupTyped DEF GoTo, MetaIndexes, Wanted
<1>1. TypeOK' /\ setup' = setup
  BY DEF IndexInv, TypeOK, ForgetIndex
<1>2. Orderly(setup')
  BY <1>1 DEF IndexInv
<1>3. KindOK'
  BY <1>1 DEF IndexInv, TypeOK, ForgetIndex, KindOK
<1>4. OwnWork'
  BY <1>1 DEF IndexInv, TypeOK, ForgetIndex, OwnWork, Handling
<1>5. Builder'
  BY <1>1 DEF IndexInv, TypeOK, ForgetIndex, Builder
<1>6. OnlySQLite'
  BY <1>1 DEF IndexInv, TypeOK, ForgetIndex, OnlySQLite
<1>7. StillInvalid'
  BY <1>1 DEF IndexInv, TypeOK, ForgetIndex, StillInvalid
<1>8. StillClean'
  BY <1>1 DEF IndexInv, TypeOK, ForgetIndex, StillClean
<1>9. ThroughValid'
  BY <1>1 DEF IndexInv, TypeOK, ForgetIndex, ThroughValid
<1>10. TakeTurns'
  BY <1>1 DEF IndexInv, TypeOK, ForgetIndex, TakeTurns
<1>11. StaleOnly'
  BY <1>1 DEF IndexInv, TypeOK, ForgetIndex, StaleOnly
<1>. QED  BY <1>1, <1>2, <1>3, <1>4, <1>5, <1>6, <1>7, <1>8, <1>9, <1>10, <1>11 DEF IndexInv

LEMMA StaleReturnsKeeps ==
    ASSUME IndexInv, NEW p \in Processes, StaleReturns(p)
    PROVE  IndexInv'
<1> USE SetupTyped DEF GoTo, MetaIndexes, Wanted
<1>1. TypeOK' /\ setup' = setup
  BY DEF IndexInv, TypeOK, StaleReturns
<1>2. Orderly(setup')
  BY <1>1 DEF IndexInv
<1>3. KindOK'
  BY <1>1 DEF IndexInv, TypeOK, StaleReturns, KindOK
<1>4. OwnWork'
  BY <1>1 DEF IndexInv, TypeOK, StaleReturns, OwnWork, Handling
<1>5. Builder'
  BY <1>1 DEF IndexInv, TypeOK, StaleReturns, Builder
<1>6. OnlySQLite'
  BY <1>1 DEF IndexInv, TypeOK, StaleReturns, OnlySQLite
<1>7. StillInvalid'
  BY <1>1 DEF IndexInv, TypeOK, StaleReturns, StillInvalid
<1>8. StillClean'
  BY <1>1 DEF IndexInv, TypeOK, StaleReturns, StillClean
<1>9. ThroughValid'
  BY <1>1 DEF IndexInv, TypeOK, StaleReturns, ThroughValid
<1>10. TakeTurns'
  BY <1>1 DEF IndexInv, TypeOK, StaleReturns, TakeTurns
<1>11. StaleOnly'
  BY <1>1 DEF IndexInv, TypeOK, StaleReturns, StaleOnly
<1>. QED  BY <1>1, <1>2, <1>3, <1>4, <1>5, <1>6, <1>7, <1>8, <1>9, <1>10, <1>11 DEF IndexInv

LEMMA FailKeeps ==
    ASSUME IndexInv, NEW p \in Processes, Fail(p)
    PROVE  IndexInv'
<1> USE SetupTyped DEF GoTo, MetaIndexes, Wanted
<1>0. index' = IF pc[p] = "build"
              THEN [index EXCEPT ![cur[p]] = [state |-> "invalid", kind |-> index[cur[p]].kind]]
              ELSE index
  BY StateSet, Zenon DEF IndexInv, Fail
<1>1. TypeOK' /\ setup' = setup
  <2>1. index' \in [Names -> [state: {"absent", "building", "invalid", "valid"}, kind: Kinds]]
    BY <1>0 DEF IndexInv, TypeOK
  <2>. QED  BY <2>1 DEF IndexInv, TypeOK, Fail
<1>2. Orderly(setup')
  BY <1>1 DEF IndexInv
<1>3. KindOK'
  <2> SUFFICES ASSUME NEW q \in Processes, NEW m \in Names, Wanted[q][m] # "none", index'[m].state # "absent"
               PROVE  index'[m].kind = Wanted[q][m]
    BY <1>1 DEF KindOK
  <2>1. CASE m # cur[p]
    BY <1>0, <2>1 DEF Fail, IndexInv, TypeOK, KindOK
  <2>2. CASE m = cur[p]
    BY <1>0, <2>2 DEF Fail, IndexInv, TypeOK, KindOK, Builder
  <2>. QED  BY <2>1, <2>2
<1>4. OwnWork'
  BY <1>0 DEF IndexInv, TypeOK, Fail, OwnWork, Handling
<1>5. Builder'
  BY <1>0, Separate DEF IndexInv, TypeOK, Fail, Builder, OwnWork, Handling, OnlySQLite
<1>6. OnlySQLite'
  BY <1>0 DEF IndexInv, TypeOK, Fail, OnlySQLite
<1>7. StillInvalid'
  BY <1>0 DEF IndexInv, TypeOK, Fail, StillInvalid
<1>8. StillClean'
  <2> SUFFICES ASSUME NEW q \in Processes, pc'[q] = "create" PROVE index'[cur'[q]].state \in {"absent", "valid"}
    BY DEF StillClean
  <2>1. q # p /\ pc[q] = "create" /\ cur'[q] = cur[q]
    BY DEF Fail, IndexInv, TypeOK
  <2>2. pc[p] = "build" => cur[q] # cur[p]
    BY <2>1, Separate DEF Fail, IndexInv, OwnWork, Handling, OnlySQLite
  <2>. QED  BY <2>1, <2>2, <1>0 DEF Fail, IndexInv, TypeOK, StillClean
<1>9. ThroughValid'
  BY <1>0 DEF IndexInv, TypeOK, Fail, ThroughValid, Builder
<1>10. TakeTurns'
  BY <1>0 DEF IndexInv, TypeOK, Fail, TakeTurns
<1>11. StaleOnly'
  BY <1>0 DEF IndexInv, TypeOK, Fail, StaleOnly
<1>. QED  BY <1>1, <1>2, <1>3, <1>4, <1>5, <1>6, <1>7, <1>8, <1>9, <1>10, <1>11 DEF IndexInv

-----------------------------------------------------------------------------
(* The indexes, through every step of the registry.                         *)

LEMMA IndexStart ==
    ASSUME \A u \in Setups : Orderly(u), Init
    PROVE  IndexInv
<1>1. TypeOK
  BY NamesAssumption, NobodyAssumption DEF Init, TypeOK, Absent, Kinds
<1>2. Orderly(setup)
  BY DEF Init
<1>3. KindOK /\ OwnWork /\ Builder /\ OnlySQLite /\ StillInvalid /\ StillClean
  BY DEF Init, Absent, KindOK, OwnWork, Handling, Builder, OnlySQLite, StillInvalid, StillClean
<1>4. ThroughValid /\ TakeTurns /\ StaleOnly
  BY DEF Init, ThroughValid, TakeTurns, StaleOnly
<1>. QED  BY <1>1, <1>2, <1>3, <1>4 DEF IndexInv

LEMMA IndexFrame ==
    ASSUME IndexInv, UNCHANGED vars
    PROVE  IndexInv'
BY DEF vars, IndexInv, TypeOK, KindOK, OwnWork, Handling, Builder, OnlySQLite, StillInvalid,
       StillClean, ThroughValid, TakeTurns, StaleOnly, MetaIndexes, Wanted

LEMMA IndexStepsKeep ==
    ASSUME IndexInv, NEW p \in Processes, IndexSteps(p)
    PROVE  IndexInv'
BY EnsureIndexKeeps, DropIndexKeeps, CheckInvalidKeeps, DropInvalidKeeps, CreateSkipsKeeps,
   CreateOnSQLiteKeeps, CreateOnPostgresKeeps, BuiltKeeps, RecordIndexKeeps, ForgetIndexKeeps,
   StaleReturnsKeeps, FailKeeps
   DEF IndexSteps

(* The steps of the registry that leave the indexes' state alone.           *)
Elsewhere(p) ==
    \/ EnsureFTS(p) \/ CreateFTS(p) \/ AddFTSColumn(p) \/ StageFails(p) \/ Publish(p)
    \/ LookupCached(p) \/ LookupMaps(p) \/ LookupStores(p) \/ Restart(p)

LEMMA ElsewhereFrame ==
    ASSUME NEW p, Elsewhere(p)
    PROVE  UNCHANGED vars
BY DEF Elsewhere, EnsureFTS, CreateFTS, AddFTSColumn, StageFails, Publish, LookupCached,
       LookupMaps, LookupStores, Restart

LEMMA DocFrame ==
    ASSUME NEW d, StoreDoc(d) \/ RemoveDoc(d)
    PROVE  UNCHANGED vars
BY DEF StoreDoc, RemoveDoc

LEMMA NextCases ==
    ASSUME [NextRegistry]_rvars
    PROVE  \/ \E p \in Processes : \/ RegisterType(p) \/ IndexSteps(p) \/ DropStale(p)
                                   \/ EnsureFTSForCollection(p) \/ Elsewhere(p)
           \/ \E d \in Docs : StoreDoc(d) \/ RemoveDoc(d)
           \/ UNCHANGED rvars
BY DEF NextRegistry, Elsewhere

LEMMA IndexKept ==
    ASSUME IndexInv, [NextRegistry]_rvars
    PROVE  IndexInv'
<1>1. ASSUME NEW p \in Processes, RegisterType(p)
      PROVE  IndexInv'
  BY <1>1, RegisterKeeps DEF RegisterType
<1>2. ASSUME NEW p \in Processes, DropStale(p)
      PROVE  IndexInv'
  BY <1>2, DropStaleIndexesKeeps DEF DropStale
<1>3. ASSUME NEW p \in Processes, EnsureFTSForCollection(p)
      PROVE  IndexInv'
  BY <1>3, IndexesDoneKeeps DEF EnsureFTSForCollection
<1>4. ASSUME NEW p \in Processes, Elsewhere(p)
      PROVE  IndexInv'
  BY <1>4, ElsewhereFrame, IndexFrame
<1>5. ASSUME NEW d \in Docs, StoreDoc(d) \/ RemoveDoc(d)
      PROVE  IndexInv'
  BY <1>5, DocFrame, IndexFrame
<1>6. CASE UNCHANGED rvars
  BY <1>6, IndexFrame DEF rvars
<1>. QED  BY <1>1, <1>2, <1>3, <1>4, <1>5, <1>6, IndexStepsKeep, NextCases

-----------------------------------------------------------------------------
(* The registry, the lookups and the full-text index.                       *)

RegistryInv == RegistryOK /\ EntryInv /\ LookInv /\ FTSStays /\ setup \in Setups

LEMMA RegistryStart ==
    ASSUME InitRegistry
    PROVE  RegistryInv
<1>1. RegistryOK
  BY DEF InitRegistry, RegistryOK
<1>2. EntryInv /\ LookInv
  BY DEF InitRegistry, EntryInv, LookInv, LookOK
<1>3. setup \in Setups /\ setup.fts \subseteq Processes
  BY SetupsAssumption DEF InitRegistry, Init
<1>. QED  BY <1>1, <1>2, <1>3 DEF InitRegistry, FTSStays, RegistryInv

LEMMA SetupStays ==
    ASSUME [NextRegistry]_rvars
    PROVE  setup' = setup
BY ZenonT(60) DEF NextRegistry, rvars, vars, RegisterType, Register, IndexSteps, EnsureIndex, DropIndex,
       CheckInvalid, DropInvalid, CreateSkips, CreateOnSQLite, CreateOnPostgres, Built,
       RecordIndex, ForgetIndex, StaleReturns, Fail, DropStale, DropStaleIndexes,
       EnsureFTSForCollection, IndexesDone, EnsureFTS, CreateFTS, AddFTSColumn, StageFails,
       Publish, LookupCached, LookupMaps, LookupStores, Restart, StoreDoc, RemoveDoc

(* The steps of Register that touch none of this but the stage.             *)
LEMMA RegistryFrame ==
    ASSUME RegistryInv, setup' = setup, UNCHANGED <<stage, fulltext, registry, lookups>>
    PROVE  RegistryInv'
BY DEF RegistryInv, RegistryOK, EntryInv, LookInv, LookOK, FTSStays, fulltext, registry, lookups

LEMMA RegistryKept ==
    ASSUME RegistryInv, [NextRegistry]_rvars
    PROVE  RegistryInv'
<1> USE DEF AtStage, fulltext, registry, lookups
<1>0. setup' = setup /\ setup.fts \subseteq Processes
  BY SetupStays, SetupsAssumption DEF RegistryInv
<1>1. ASSUME NEW p \in Processes, RegisterType(p) \/ IndexSteps(p) \/ DropStale(p)
      PROVE  RegistryInv'
  BY <1>0, <1>1, RegistryFrame DEF RegisterType, IndexSteps, DropStale
<1>2. ASSUME NEW p \in Processes,
             EnsureFTSForCollection(p) \/ EnsureFTS(p) \/ StageFails(p)
      PROVE  RegistryInv'
  <2>1. RegistryOK' /\ EntryInv' /\ LookInv'
    BY <1>2 DEF RegistryInv, RegistryOK, EntryInv, LookInv, LookOK, EnsureFTSForCollection, EnsureFTS,
                StageFails
  <2>2. FTSStays'
    BY <1>0, <1>2 DEF RegistryInv, RegistryOK, FTSStays, EnsureFTSForCollection, EnsureFTS, StageFails
  <2>. QED  BY <1>0, <2>1, <2>2 DEF RegistryInv
<1>3. ASSUME NEW p \in Processes, CreateFTS(p) \/ AddFTSColumn(p)
      PROVE  RegistryInv'
  <2>1. RegistryOK'
    <3>1. entries' \in [Docs -> Nat]
      BY <1>3 DEF RegistryInv, RegistryOK, CreateFTS, AddFTSColumn
    <3>. QED  BY <1>3, <3>1 DEF RegistryInv, RegistryOK, CreateFTS, AddFTSColumn
  <2>2. EntryInv'
    BY <1>3 DEF RegistryInv, RegistryOK, EntryInv, CreateFTS, CanCreateFTS, AddFTSColumn
  <2>3. LookInv' /\ FTSStays'
    BY <1>0, <1>3 DEF RegistryInv, LookInv, LookOK, FTSStays, CreateFTS, AddFTSColumn
  <2>. QED  BY <1>0, <2>1, <2>2, <2>3 DEF RegistryInv
<1>4. ASSUME NEW p \in Processes, Publish(p)
      PROVE  RegistryInv'
  <2>1. RegistryOK' /\ EntryInv'
    BY <1>4 DEF RegistryInv, RegistryOK, EntryInv, Publish, Invalidated
  <2>2. LookInv'
    <3>1. /\ published' = [published EXCEPT ![p] = published[p] + 1]
          /\ cache' = [cache EXCEPT ![p] = 0]
          /\ UNCHANGED <<look, seen, begun>>
      BY <1>4 DEF Publish, Invalidated
    <3>2. raced'[p] = (raced[p] \/ look[p] = "store")
      BY <1>4, Zenon DEF RegistryInv, RegistryOK, Publish
    <3>3. \A q \in Processes \ {p} : raced'[q] = raced[q]
      BY <1>4, Zenon DEF RegistryInv, RegistryOK, Publish
    <3>4. ASSUME NEW q \in Processes, q # p
          PROVE  LookOK(q)'
      BY <3>1, <3>3, <3>4 DEF RegistryInv, RegistryOK, LookInv, LookOK
    <3>5. LookOK(p)'
      <4>1. (look[p] = "store" => raced'[p]) /\ (raced[p] => raced'[p])
        BY <3>2, Zenon
      <4>. QED  BY <3>1, <4>1 DEF RegistryInv, RegistryOK, LookInv, LookOK
    <3>. QED  BY <3>4, <3>5 DEF LookInv
  <2>3. FTSStays'
    BY <1>0, <1>4 DEF RegistryInv, RegistryOK, FTSStays, Publish
  <2>. QED  BY <1>0, <2>1, <2>2, <2>3 DEF RegistryInv
<1>5. ASSUME NEW p \in Processes, LookupCached(p) \/ LookupMaps(p) \/ LookupStores(p)
      PROVE  RegistryInv'
  <2>1. RegistryOK'
    BY <1>5, ZenonT(60) DEF RegistryInv, RegistryOK, LookupCached, LookupMaps, LookupStores, Found, AfterRead
  <2>5. EntryInv' /\ FTSStays'
    BY <1>0, <1>5 DEF RegistryInv, EntryInv, FTSStays, LookupCached, LookupMaps, LookupStores
  <2>2. CASE LookupCached(p)
    BY <2>1, <2>5, <2>2, <1>0 DEF RegistryInv, RegistryOK, LookInv, LookOK, LookupCached, Found
  <2>3. CASE LookupMaps(p)
    BY <2>1, <2>5, <2>3, <1>0 DEF RegistryInv, RegistryOK, LookInv, LookOK, LookupMaps, AfterRead
  <2>4. CASE LookupStores(p)
    BY <2>1, <2>5, <2>4, <1>0 DEF RegistryInv, RegistryOK, LookInv, LookOK, LookupStores, Found
  <2>. QED  BY <1>5, <2>2, <2>3, <2>4
<1>6. ASSUME NEW p \in Processes, Restart(p)
      PROVE  RegistryInv'
  <2>1. RegistryOK' /\ EntryInv'
    BY <1>6 DEF RegistryInv, RegistryOK, EntryInv, Restart
  <2>2. LookInv' /\ FTSStays'
    BY <1>0, <1>6 DEF RegistryInv, RegistryOK, LookInv, LookOK, FTSStays, Restart
  <2>. QED  BY <1>0, <2>1, <2>2 DEF RegistryInv
<1>7. ASSUME NEW d \in Docs, StoreDoc(d) \/ RemoveDoc(d)
      PROVE  RegistryInv'
  <2>1. RegistryOK' /\ EntryInv'
    BY <1>7 DEF RegistryInv, RegistryOK, EntryInv, StoreDoc, RemoveDoc
  <2>2. LookInv' /\ FTSStays'
    BY <1>0, <1>7 DEF RegistryInv, LookInv, LookOK, FTSStays, StoreDoc, RemoveDoc
  <2>. QED  BY <1>0, <2>1, <2>2 DEF RegistryInv
<1>8. CASE UNCHANGED rvars
  BY <1>0, <1>8, RegistryFrame DEF rvars
<1>. QED  BY <1>1, <1>2, <1>3, <1>4, <1>5, <1>6, <1>7, <1>8, NextCases DEF Elsewhere

-----------------------------------------------------------------------------
(* Without DropStaleIndexes a valid index stays valid.                      *)
LEMMA ValidStays ==
    ASSUME IndexInv, setup.stale = {}, [NextRegistry]_rvars,
           NEW n \in Names, index[n].state = "valid"
    PROVE  index'[n].state = "valid"
<1> USE DEF IndexInv, TypeOK
<1>1. ASSUME NEW p \in Processes, NEW m \in Names, EnsureIndex(p, m) \/ DropIndex(p, m)
      PROVE  index'[n].state = "valid"
  BY <1>1 DEF EnsureIndex, DropIndex, StaleOnly
<1>2. ASSUME NEW p \in Processes, DropInvalid(p)
      PROVE  index'[n].state = "valid"
  BY <1>2 DEF DropInvalid, StillInvalid
<1>3. ASSUME NEW p \in Processes, CreateOnSQLite(p) \/ CreateOnPostgres(p)
      PROVE  index'[n].state = "valid"
  BY <1>3 DEF CreateOnSQLite, CreateOnPostgres
<1>4. ASSUME NEW p \in Processes, Built(p) \/ Fail(p)
      PROVE  index'[n].state = "valid"
  <2>1. pc[p] = "build" => n # cur[p]
    BY DEF Builder
  <2>. QED  BY <1>4, <2>1 DEF Built, Fail
<1>5. ASSUME NEW p \in Processes,
             CheckInvalid(p) \/ CreateSkips(p) \/ RecordIndex(p) \/ ForgetIndex(p)
             \/ StaleReturns(p) \/ Register(p) \/ DropStaleIndexes(p) \/ IndexesDone(p)
      PROVE  index'[n].state = "valid"
  BY <1>5 DEF CheckInvalid, CreateSkips, RecordIndex, ForgetIndex, StaleReturns, Register,
              DropStaleIndexes, IndexesDone
<1>6. ASSUME UNCHANGED vars
      PROVE  index'[n].state = "valid"
  BY <1>6 DEF vars
<1>7. ASSUME NEW p \in Processes, IndexSteps(p)
      PROVE  index'[n].state = "valid"
  BY <1>7, <1>1, <1>2, <1>3, <1>4, <1>5 DEF IndexSteps
<1>8. ASSUME NEW p \in Processes, RegisterType(p) \/ DropStale(p) \/ EnsureFTSForCollection(p)
      PROVE  index'[n].state = "valid"
  BY <1>8, <1>5 DEF RegisterType, DropStale, EnsureFTSForCollection
<1>. QED  BY <1>6, <1>7, <1>8, NextCases, ElsewhereFrame, DocFrame DEF rvars

LEMMA IndexesStayKept ==
    ASSUME IndexInv, RegistryInv, IndexesStay, [NextRegistry]_rvars
    PROVE  IndexesStay'
<1> SUFFICES ASSUME setup.stale = {}, NEW p \in Processes, SeenTo(p)',
                    NEW n \in MetaIndexes(p)
             PROVE  index'[n].state = "valid"
  BY SetupStays DEF IndexesStay, MetaIndexes, Wanted
<1>1. n \in Names
  BY DEF MetaIndexes
<1>2. CASE SeenTo(p)
  BY <1>1, <1>2, ValidStays DEF IndexesStay
<1>3. CASE ~SeenTo(p)
  <2>1. EnsureFTSForCollection(p)
    BY <1>3 DEF NextRegistry, SeenTo, RegistryInv, RegistryOK, rvars, fulltext, registry, lookups,
       AtStage, RegisterType, IndexSteps, DropStale, EnsureFTSForCollection, EnsureFTS, CreateFTS,
       AddFTSColumn, StageFails, Publish, LookupCached, LookupMaps, LookupStores, Restart,
       StoreDoc, RemoveDoc
  <2>2. index[n].state = "valid"
    BY <2>1 DEF EnsureFTSForCollection, IndexesDone, IndexInv, ThroughValid
  <2>. QED  BY <1>1, <2>2, ValidStays
<1>. QED  BY <1>2, <1>3

-----------------------------------------------------------------------------
(* A lookup that begins after Register has returned finds the type Register
   published, or a newer one, unless Register published between the read and
   the Store of the lookup that filled the cache.                           *)
THEOREM LookupFindsRegistered == SpecRegistry => []LookupAfterRegister
<1>1. InitRegistry => RegistryInv
  BY RegistryStart
<1>2. RegistryInv /\ [NextRegistry]_rvars => RegistryInv'
  BY RegistryKept
<1>3. RegistryInv => LookupAfterRegister
  BY RegistryAssumption DEF RegistryInv, RegistryOK, LookInv, LookOK, LookupAfterRegister
<1>. QED  BY <1>1, <1>2, <1>3, PTL DEF SpecRegistry

(* However many processes set the full-text index up at once, fail and try
   again, and whatever is written meanwhile, each stored document is in it
   once.                                                                    *)
THEOREM FullTextIsExact == SpecRegistry => []OneEntryPerDocument
<1>1. InitRegistry => RegistryInv
  BY RegistryStart
<1>2. RegistryInv /\ [NextRegistry]_rvars => RegistryInv'
  BY RegistryKept
<1>3. RegistryInv => OneEntryPerDocument
  BY DEF RegistryInv, EntryInv, OneEntryPerDocument
<1>. QED  BY <1>1, <1>2, <1>3, PTL DEF SpecRegistry

(* In orderly deployments the type a lookup returns can be used: its indexes
   are there, valid and unique where they have to be, through restarts, failed
   builds and the other deployments' work.                                  *)
THEOREM FoundIsUsable ==
    ASSUME \A u \in Setups : Orderly(u)
    PROVE  SpecRegistry => []UsableWhenFound
<1> DEFINE Inv == IndexInv /\ RegistryInv /\ IndexesStay
<1>1. InitRegistry => Inv
  BY IndexStart, RegistryStart DEF InitRegistry, IndexesStay, SeenTo
<1>2. Inv /\ [NextRegistry]_rvars => Inv'
  BY IndexKept, RegistryKept, IndexesStayKept
<1>3. Inv => UsableWhenFound
  <2> SUFFICES ASSUME Inv, NEW p \in Lookups, seen[p] # 0, setup.stale = {}
               PROVE  /\ \A n \in MetaIndexes(p) :
                           /\ index[n].state = "valid"
                           /\ Wanted[p][n] = "unique" => index[n].kind = "unique"
                      /\ p \in setup.fts => ftsTable
    BY DEF UsableWhenFound
  <2>1. p \in Processes /\ published[p] # 0
    BY RegistryAssumption DEF RegistryInv, RegistryOK, LookInv, LookOK
  <2>2. \A n \in MetaIndexes(p) : index[n].state = "valid"
    BY <2>1 DEF IndexesStay, SeenTo
  <2>3. \A n \in MetaIndexes(p) : Wanted[p][n] = "unique" => index[n].kind = "unique"
    BY <2>1, <2>2 DEF MetaIndexes, IndexInv, KindOK
  <2>4. p \in setup.fts => ftsTable
    BY <2>1 DEF RegistryInv, FTSStays
  <2>. QED  BY <2>2, <2>3, <2>4
<1>. QED  BY <1>1, <1>2, <1>3, PTL DEF SpecRegistry

LEMMA IndexAlways ==
    ASSUME \A u \in Setups : Orderly(u)
    PROVE  SpecRegistry => []IndexInv
<1>1. InitRegistry => IndexInv
  BY IndexStart DEF InitRegistry
<1>2. IndexInv /\ [NextRegistry]_rvars => IndexInv'
  BY IndexKept
<1>. QED  BY <1>1, <1>2, PTL DEF SpecRegistry

(* In orderly deployments, when Register's loop over its indexes ends without
   an error they are all there, usable, and of the kind asked for, whatever
   failed builds had left behind.                                           *)
THEOREM RegisterAlwaysEstablishes ==
    ASSUME \A u \in Setups : Orderly(u)
    PROVE  SpecRegistry => RegisterEstablishes
<1>1. ASSUME IndexInv, NEW p \in Processes,
             pc[p] = "next", op[p] = "register", todo[p] = {}, NEW n \in Names
      PROVE  /\ Wanted[p][n] # "none"   => index[n].state = "valid"
             /\ Wanted[p][n] = "unique" => index[n].kind = "unique"
  BY <1>1 DEF IndexInv, ThroughValid, KindOK, MetaIndexes
<1>2. IndexInv => [\A p \in Processes :
        pc[p] = "next" /\ op[p] = "register" /\ todo[p] = {} /\ pc'[p] = "idle"
            => \A n \in Names :
                /\ Wanted[p][n] # "none"   => index[n].state = "valid"
                /\ Wanted[p][n] = "unique" => index[n].kind = "unique"]_vars
  BY <1>1
<1>. QED  BY <1>2, IndexAlways, PTL DEF RegisterEstablishes
===============================================================================
