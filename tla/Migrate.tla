------------------------------ MODULE Migrate ------------------------------
(***************************************************************************)
(* The migration runner: several processes, each with its own Registry,    *)
(* call Up, UpOne, Down and DownOne against one database.  A migration is  *)
(* its version; its Forward function adds one to the schema's count for    *)
(* that version and its Backward function takes one away, so that a        *)
(* migration applied twice, or rolled back twice, shows.                   *)
(*                                                                         *)
(* The advisory lock stands for pg_advisory_xact_lock on PostgreSQL and    *)
(* for the IMMEDIATE transaction that surrounds it on SQLite: both are     *)
(* held until the transaction ends, and the log is read after both.        *)
(***************************************************************************)
EXTENDS Ordering, SequencesExt

CONSTANTS
    Runners,     \* goroutines calling the runner
    Processes,   \* each process has one Registry
    ProcessOf,   \* ProcessOf[r]: the process (and Registry) of runner r
    Versions,    \* versions are numbers; their order is the lexicographic one
    Known,       \* Known[p]: the versions registered in process p
    Reversible,  \* the versions that have a Backward function
    Setups,      \* who calls the runner, and what it calls (see setup)
    Nobody       \* the holder of the free advisory lock

ASSUME VersionsAssumption == Versions \subseteq Nat
ASSUME RunnersAssumption  == ProcessOf \in [Runners -> Processes] /\ Nobody \notin Runners
ASSUME KnownAssumption    == /\ Known \in [Processes -> SUBSET Versions]
                             /\ \A p \in Processes : IsFiniteSet(Known[p])
ASSUME SetupsAssumption   ==
    Setups \subseteq [runners : SUBSET Runners, ops : SUBSET {"Up", "UpOne", "Down", "DownOne"}]

(* Every process knows the versions up to some version: later deployments only
   add later migrations.                                                    *)
InitialSegments ==
    \A p \in Processes : \A v \in Known[p] : \A w \in Versions : w < v => w \in Known[p]

VARIABLES
    setup,   \* the runners of this deployment and the operations they call
    log,     \* the committed migration log: versions in the order applied
    schema,  \* schema[v]: net number of committed Forward runs of v
    once,    \* once[p]: ensureTableOnce and ensureTableErr of the Registry
    holder,  \* who holds the advisory lock
    pc,      \* where each runner is
    op,      \* the operation it is executing
    todo,    \* the versions it has yet to run
    entries  \* the log it will save, inside its transaction

vars == <<setup, log, schema, once, holder, pc, op, todo, entries>>

TypeOK ==
    /\ setup \in Setups
    /\ log \in Seq(Versions)
    /\ schema \in [Versions -> Int]
    /\ once \in [Processes -> {"new", "ok", "err"}]
    /\ holder \in Runners \cup {Nobody}
    /\ pc \in [Runners -> {"idle", "ensure", "load", "next", "lock", "work", "commit"}]
    /\ op \in [Runners -> {"Up", "UpOne", "Down", "DownOne"}]
    /\ todo \in [Runners -> Seq(Versions)]
    /\ entries \in [Runners -> Seq(Versions)]

Init ==
    /\ setup \in Setups
    /\ log = <<>>
    /\ schema = [v \in Versions |-> 0]
    /\ once = [p \in Processes |-> "new"]
    /\ holder = Nobody
    /\ pc = [r \in Runners |-> "idle"]
    /\ op = [r \in Runners |-> "Up"]
    /\ todo = [r \in Runners |-> <<>>]
    /\ entries = [r \in Runners |-> <<>>]

Applied(v) == Contains(log, v)

Forwards(r) == op[r] \in {"Up", "UpOne"}

(* Mutant: migrations run in the order they were registered.                *)
RegisteredUnsorted(r) == Reverse(Ascending(Known[ProcessOf[r]]))

(* Register keeps the migrations sorted by version.                         *)
Registered(r) == Ascending(Known[ProcessOf[r]])

-----------------------------------------------------------------------------
Call(r) ==
    /\ pc[r] = "idle" /\ r \in setup.runners
    /\ \E o \in setup.ops : op' = [op EXCEPT ![r] = o]
    /\ pc' = [pc EXCEPT ![r] = "ensure"]
    /\ UNCHANGED <<setup, log, schema, once, holder, todo, entries>>

(* A call returns, with nil or with an error; neither leaves anything behind
   in the runner.                                                           *)
Return(r) ==
    /\ pc' = [pc EXCEPT ![r] = "idle"]
    /\ todo' = [todo EXCEPT ![r] = <<>>]
    /\ entries' = [entries EXCEPT ![r] = <<>>]

(* The first caller creates the log's table; its outcome, the error included,
   is every later caller's outcome.                                         *)
EnsureMigrationTable(r) ==
    LET p == ProcessOf[r] IN
    /\ pc[r] = "ensure"
    /\ \E outcome \in IF once[p] = "new" THEN {"ok", "err"} ELSE {once[p]} :
        /\ once' = [once EXCEPT ![p] = outcome]
        /\ IF outcome = "err"
             THEN Return(r)
             ELSE /\ pc' = [pc EXCEPT ![r] = IF op[r] = "Up" THEN "next" ELSE "load"]
                  /\ todo' = [todo EXCEPT ![r] = IF op[r] = "Up" THEN Registered(r) ELSE <<>>]
                  /\ UNCHANGED entries
    /\ UNCHANGED <<setup, log, schema, holder, op>>

(* What the log, read outside the lock, tells UpOne, Down and DownOne to do. *)
FirstPending(r) ==
    LET pending == {n \in DOMAIN Registered(r) : ~Applied(Registered(r)[n])}
    IN  IF pending = {} THEN <<>> ELSE <<Registered(r)[Min(pending)]>>

LastApplied == IF log = <<>> THEN <<>> ELSE <<Last(log)>>

Planned(r) ==
    CASE op[r] = "UpOne"   -> FirstPending(r)
      [] op[r] = "DownOne" -> LastApplied
      [] op[r] = "Down"    -> Reverse(log)

LoadApplied(r) ==
    /\ pc[r] = "load"
    /\ todo' = [todo EXCEPT ![r] = Planned(r)]
    /\ pc' = [pc EXCEPT ![r] = "next"]
    /\ UNCHANGED <<setup, log, schema, once, holder, op, entries>>

(* Going back needs the version registered, with a Backward function.       *)
Runnable(r, v) == Forwards(r) \/ (v \in Known[ProcessOf[r]] /\ v \in Reversible)

NextVersion(r) ==
    /\ pc[r] = "next"
    /\ todo[r] # <<>> /\ Runnable(r, Head(todo[r]))
    /\ pc' = [pc EXCEPT ![r] = "lock"]
    /\ UNCHANGED <<setup, log, schema, once, holder, op, todo, entries>>

(* Nothing left: nil.                                                       *)
Finish(r) ==
    /\ pc[r] = "next"
    /\ todo[r] = <<>>
    /\ Return(r)
    /\ UNCHANGED <<setup, log, schema, once, holder, op>>

(* An unregistered version, or one without Backward: an error.              *)
Refuse(r) ==
    /\ pc[r] = "next"
    /\ todo[r] # <<>> /\ ~Runnable(r, Head(todo[r]))
    /\ Return(r)
    /\ UNCHANGED <<setup, log, schema, once, holder, op>>

(* Mutant: AdvisoryLock is a no-op and BEGIN does not serialise.            *)
LockFreeAlways == TRUE

LockFree == holder = Nobody

(* RunInTransaction and AdvisoryLock.                                       *)
Lock(r) ==
    /\ pc[r] = "lock"
    /\ LockFree
    /\ holder' = r
    /\ pc' = [pc EXCEPT ![r] = "work"]
    /\ UNCHANGED <<setup, log, schema, once, op, todo, entries>>

(* Mutant: a transaction that ends without releasing the lock.              *)
UnlockNothing(r) == holder' = holder

Unlock(r) == holder' = IF holder = r THEN Nobody ELSE holder

(* Mutant: the starter does not look at the log again under the lock.       *)
AlreadyDoneNever(r, v) == FALSE

(* The log re-read under the lock says another starter was first.           *)
AlreadyDone(r, v) == Forwards(r) <=> Applied(v)

Skip(r) ==
    /\ pc[r] = "work"
    /\ AlreadyDone(r, Head(todo[r]))
    /\ Unlock(r)
    /\ pc' = [pc EXCEPT ![r] = "next"]
    /\ todo' = [todo EXCEPT ![r] = Tail(@)]
    /\ UNCHANGED <<setup, log, schema, once, op, entries>>

(* The entries of the log that are not v's, in their order.                 *)
Filtered(v) ==
    LET kept == Ascending({n \in DOMAIN log : log[n] # v})
    IN  [k \in DOMAIN kept |-> log[kept[k]]]

(* The log with the version appended, or filtered out.                      *)
NewEntries(r, v) == IF Forwards(r) THEN Append(log, v) ELSE Filtered(v)

(* Forward or Backward ran in the transaction, and so did the Put of the log. *)
Run(r) ==
    /\ pc[r] = "work"
    /\ ~AlreadyDone(r, Head(todo[r]))
    /\ entries' = [entries EXCEPT ![r] = NewEntries(r, Head(todo[r]))]
    /\ pc' = [pc EXCEPT ![r] = "commit"]
    /\ UNCHANGED <<setup, log, schema, once, holder, op, todo>>

Delta(r) == IF Forwards(r) THEN 1 ELSE -1

Commit(r) ==
    /\ pc[r] = "commit"
    /\ log' = entries[r]
    /\ schema' = [schema EXCEPT ![Head(todo[r])] = @ + Delta(r)]
    /\ Unlock(r)
    /\ pc' = [pc EXCEPT ![r] = "next"]
    /\ todo' = [todo EXCEPT ![r] = Tail(@)]
    /\ entries' = [entries EXCEPT ![r] = <<>>]
    /\ UNCHANGED <<setup, once, op>>

(* Mutant: after a failed migration the runner goes on with the next one.   *)
FailGoesOn(r) ==
    /\ pc[r] \in {"lock", "work", "commit"}
    /\ Unlock(r)
    /\ pc' = [pc EXCEPT ![r] = "next"]
    /\ todo' = [todo EXCEPT ![r] = Tail(@)]
    /\ entries' = [entries EXCEPT ![r] = <<>>]
    /\ UNCHANGED <<setup, log, schema, once, op>>

(* Reading the log, Begin, the lock, the migration function or the Commit
   fails: the transaction, if any, rolls back and the call returns the error. *)
Fail(r) ==
    /\ pc[r] \in {"load", "lock", "work", "commit"}
    /\ Unlock(r)
    /\ Return(r)
    /\ UNCHANGED <<setup, log, schema, once, op>>

(* The process dies: its transactions roll back, its Registry is rebuilt.   *)
Crash(p) ==
    LET mine == {r \in Runners : ProcessOf[r] = p} IN
    /\ once' = [once EXCEPT ![p] = "new"]
    /\ holder' = IF holder \in mine THEN Nobody ELSE holder
    /\ pc' = [r \in Runners |-> IF r \in mine THEN "idle" ELSE pc[r]]
    /\ todo' = [r \in Runners |-> IF r \in mine THEN <<>> ELSE todo[r]]
    /\ entries' = [r \in Runners |-> IF r \in mine THEN <<>> ELSE entries[r]]
    /\ UNCHANGED <<setup, log, schema, op>>

Progress(r) ==
    \/ EnsureMigrationTable(r) \/ LoadApplied(r) \/ NextVersion(r) \/ Finish(r) \/ Refuse(r)
    \/ Lock(r) \/ Skip(r) \/ Run(r) \/ Commit(r)

Next == \/ \E r \in Runners : Call(r) \/ Progress(r) \/ Fail(r)
        \/ \E p \in Processes : Crash(p)

Spec == Init /\ [][Next]_vars

(* A runner in a call keeps running, without counting on an error to get it
   out of the lock's queue; that queue is first come first served.          *)
FairSpec == Spec /\ \A r \in Runners :
                        /\ WF_vars(Progress(r))
                        /\ SF_vars(Lock(r))

-----------------------------------------------------------------------------
(* Every migration has run exactly as often as the log says, and at most once
   more forwards than backwards: concurrent starters, failures and crashes
   never apply one twice, or roll one back twice.                           *)
ExactlyOnce ==
    \A v \in Versions : schema[v] = Cardinality({n \in DOMAIN log : log[n] = v})
                        /\ schema[v] \in {0, 1}

OnlyUp == setup.ops \subseteq {"Up", "UpOne"}

(* Where nobody rolls back, migrations are applied in version order without
   gaps: a starter stops at its first failure, and runs no version before
   the ones below it are in.                                                *)
AppliedInOrder ==
    OnlyUp => \A n \in DOMAIN log : \A v \in Versions :
        v < log[n] => \E m \in 1..(n - 1) : log[m] = v

(* Where nobody rolls back, Up returns nil only when everything its Registry
   knows is applied.                                                        *)
UpAppliesAll ==
    [][\A r \in Runners :
        OnlyUp /\ pc[r] = "next" /\ pc'[r] = "idle" /\ op[r] = "Up" /\ todo[r] = <<>>
        /\ once'[ProcessOf[r]] # "new"
            => Known[ProcessOf[r]] \subseteq ToSet(log)]_vars

(* Every call returns, however the starters queue on the lock.              *)
EveryCallReturns == \A r \in Runners : pc[r] # "idle" ~> pc[r] = "idle"
=============================================================================
