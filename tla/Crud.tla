-------------------------------- MODULE Crud --------------------------------
(***************************************************************************)
(* Den's document write path on one revisioned, soft-deletable collection: *)
(* FindByID, Save, Replace, Delete (soft and hard), LockByID and           *)
(* RunInTransaction, called concurrently by the sessions of one or several *)
(* processes against a SQLite or a PostgreSQL backend.                     *)
(*                                                                         *)
(* A document is its revision and its soft-delete mark: revision 0 is the  *)
(* empty _rev of a struct that was never loaded, and the row that is not   *)
(* there.  The 64-bit random revisions of newRevision are fresh numbers.   *)
(* Every client-owned field is abstracted: a write is what its _rev says.  *)
(***************************************************************************)
EXTENDS Integers, FiniteSets

CONSTANTS
    Sessions,   \* goroutines (of one or several processes) using Den
    Ids,        \* document ids of the collection
    Backend,    \* "sqlite" or "postgres"
    MaxRev,     \* bound: how many revisions a behaviour may draw
    Nobody      \* the holder of a free lock

ASSUME BackendAssumption == Backend \in {"sqlite", "postgres"}
ASSUME IdsAssumption     == Ids # {}
ASSUME MaxRevAssumption  == MaxRev \in Nat \ {0}
ASSUME NobodyAssumption  == Nobody \notin Sessions

VARIABLES
    row,      \* row[i]: the committed document
    lock,     \* lock[i]: the transaction holding the row's write lock
    fresh,    \* ids NewID has not handed out yet
    nextRev,  \* the next revision newRevision draws
    mem,      \* mem[s][i]: the document struct session s has in hand
    pc,       \* where each session is inside a call ("idle": between calls)
    call,     \* the call in progress
    txn,      \* "none", "auto" (opened by Den for one call), "app"
    buf,      \* buf[s][i]: the uncommitted version written by s's transaction
    how,      \* how[s][i]: the kind of that write ("clean": none)
    base,     \* base[s][i]: history variable, revision the write was derived from
    guard,    \* guard[s]: ids s locked with LockByID before writing them
    err       \* err[s]: the last call of s on a document returned an error

store   == <<row, lock>>
pending == <<buf, how, base, guard>>
vars    == <<row, lock, fresh, nextRev, mem, pc, call, txn, buf, how, base, guard, err>>

Docs  == [rev: Nat, del: BOOLEAN]
NoRow == [rev |-> 0, del |-> FALSE]
Ops   == {"tx", "insert", "save", "restore", "soft", "hard", "replace", "lock"}
Hows  == {"clean", "insert", "checked", "restore", "replace", "forced", "hard"}
Calls == [op: Ops, id: Ids, force: BOOLEAN, was: Docs, seen: Nat]

SQLite == Backend = "sqlite"

TypeOK ==
    /\ row \in [Ids -> Docs]
    /\ lock \in [Ids -> Sessions \cup {Nobody}]
    /\ fresh \subseteq Ids
    /\ nextRev \in Nat \ {0}
    /\ mem \in [Sessions -> [Ids -> Docs]]
    /\ pc \in [Sessions -> {"idle", "begin", "check", "put", "lock", "commit", "fail"}]
    /\ call \in [Sessions -> Calls]
    /\ txn \in [Sessions -> {"none", "auto", "app"}]
    /\ buf \in [Sessions -> [Ids -> Docs]]
    /\ how \in [Sessions -> [Ids -> Hows]]
    /\ base \in [Sessions -> [Ids -> Nat]]
    /\ guard \in [Sessions -> SUBSET Ids]
    /\ err \in [Sessions -> BOOLEAN]

NoCall == [op |-> "tx", id |-> CHOOSE i \in Ids : TRUE, force |-> FALSE,
           was |-> NoRow, seen |-> 0]

(* Some documents exist, each at revision 1; nobody has loaded anything.   *)
Init ==
    /\ \E old \in SUBSET Ids :
        /\ row = [i \in Ids |-> IF i \in old THEN [rev |-> 1, del |-> FALSE] ELSE NoRow]
        /\ fresh = Ids \ old
    /\ nextRev = 2
    /\ lock = [i \in Ids |-> Nobody]
    /\ mem = [s \in Sessions |-> [i \in Ids |-> NoRow]]
    /\ pc = [s \in Sessions |-> "idle"]
    /\ call = [s \in Sessions |-> NoCall]
    /\ txn = [s \in Sessions |-> "none"]
    /\ buf = [s \in Sessions |-> [i \in Ids |-> NoRow]]
    /\ how = [s \in Sessions |-> [i \in Ids |-> "clean"]]
    /\ base = [s \in Sessions |-> [i \in Ids |-> 0]]
    /\ guard = [s \in Sessions |-> {}]
    /\ err = [s \in Sessions |-> FALSE]

-----------------------------------------------------------------------------
(* What a statement sees: its own transaction's writes, else the committed
   row.  SQLite reads inside an IMMEDIATE transaction and PostgreSQL's
   default READ COMMITTED statements agree on this.                         *)
View(s, i) == IF how[s][i] = "clean" THEN row[i] ELSE buf[s][i]

Exists(s, i) == View(s, i).rev # 0

(* Mutant: a DEFERRED transaction waits for nobody.                         *)
CanBeginDeferred(s) == TRUE

(* Begin: IMMEDIATE takes SQLite's single write lock; PostgreSQL none.      *)
CanBegin(s)   == SQLite => \A i \in Ids : lock[i] = Nobody
BeginLocks(s) == IF SQLite THEN [i \in Ids |-> s] ELSE lock

(* A SQLite transaction holds the database; a SQLite autocommit statement
   needs it free; PostgreSQL locks the one row the statement writes.        *)
MayWrite(s, i) ==
    IF SQLite /\ txn[s] = "none" THEN \A j \in Ids : lock[j] = Nobody
                                 ELSE lock[i] \in {Nobody, s}

(* DELETE ... WHERE id finds nothing to lock when the row is not there.     *)
NothingToDelete(s) == /\ ~SQLite
                      /\ call[s].op = "hard"
                      /\ ~Exists(s, call[s].id)

CanWrite(s) == MayWrite(s, call[s].id) \/ NothingToDelete(s)

(* Mutant: a transaction that ends without giving its locks back.           *)
ReleaseNothing(s) == lock

Release(s) == [i \in Ids |-> IF lock[i] = s THEN Nobody ELSE lock[i]]

(* The revision budget: calls that have yet to draw their revision.         *)
Drawing == {t \in Sessions : pc[t] \in {"begin", "check"} /\ call[t].op # "tx"}
CanDraw == nextRev + Cardinality(Drawing) <= MaxRev

-----------------------------------------------------------------------------
(* Calls.  A session between calls outside a transaction passes the *DB as
   Scope; inside RunInTransaction it passes the *Tx.  The history field was
   keeps the struct as it was passed.                                       *)

(* What a call on a document has returned: an error or nil.  RunInTransaction
   returns what its closure does; the end of its transaction forgets it.    *)
Returns(s, e) == err' = [err EXCEPT ![s] = e]

Start(s, op, i, force, at) ==
    /\ Returns(s, at = "fail")
    /\ pc' = [pc EXCEPT ![s] = at]
    /\ call' = [call EXCEPT ![s] = [op |-> op, id |-> i, force |-> force,
                                       was |-> mem[s][i], seen |-> 0]]

(* Where a call goes next; back between calls it is forgotten.              *)
GoTo(s, at) ==
    /\ pc' = [pc EXCEPT ![s] = at]
    /\ call' = IF at = "idle" THEN [call EXCEPT ![s] = NoCall] ELSE call

(* FindByID decodes the row into a new struct, soft-deleted rows included; a
   missing row is ErrNotFound and changes nothing.                          *)
FindByID(s, i) ==
    /\ pc[s] = "idle"
    /\ Exists(s, i)
    /\ mem' = [mem EXCEPT ![s][i] = View(s, i)]
    /\ Returns(s, FALSE)
    /\ UNCHANGED <<store, fresh, nextRev, pc, call, txn, pending>>

RunInTransaction(s) ==
    /\ pc[s] = "idle" /\ txn[s] = "none"
    /\ GoTo(s, "begin")
    /\ UNCHANGED <<store, fresh, nextRev, mem, txn, pending, err>>

(* Save of a struct without _id: hooks and validation (whose failure changes
   nothing), newRevision and NewID run before the Put.                      *)
Insert(s, i) ==
    /\ pc[s] = "idle" /\ CanDraw
    /\ i \in fresh
    /\ fresh' = fresh \ {i}
    /\ mem' = [mem EXCEPT ![s][i] = [rev |-> nextRev, del |-> FALSE]]
    /\ nextRev' = nextRev + 1
    /\ Start(s, "insert", i, FALSE, "put")
    /\ UNCHANGED <<store, txn, pending>>

(* Mutant: the revision check and the write each run on the *DB.            *)
AutoWrapNever(s, force) == "check"

(* Without IgnoreRevision a write on the *DB is wrapped in a transaction of
   its own.                                                                 *)
AutoWrap(s, force) == IF txn[s] = "none" /\ ~force THEN "begin" ELSE "check"

(* Save of a struct with _id (the update path), possibly one that was never
   loaded, or loaded before another session changed the row.                *)
Save(s, i, force) ==
    /\ pc[s] = "idle" /\ CanDraw
    /\ i \notin fresh
    /\ Start(s, "save", i, force, AutoWrap(s, force))
    /\ UNCHANGED <<store, fresh, nextRev, mem, txn, pending>>

(* IncludeDeleted().UpdateOne(SetFields{"_deleted_at": nil}), or a Save of the
   soft-deleted struct in hand whose mark its caller has cleared.  Of a call
   that fails nothing is kept here, the cleared mark neither.               *)
Restore(s, i, force) ==
    /\ pc[s] = "idle" /\ CanDraw
    /\ i \notin fresh /\ mem[s][i].del
    /\ Start(s, "restore", i, force, AutoWrap(s, force))
    /\ UNCHANGED <<store, fresh, nextRev, mem, txn, pending>>

(* Delete on a soft-delete collection.  BeforeDelete and BeforeSoftDelete run
   here, before the wrapping transaction opens.                             *)
SoftDelete(s, i, force) ==
    /\ pc[s] = "idle" /\ CanDraw
    /\ i \notin fresh
    /\ Start(s, "soft", i, force, AutoWrap(s, force))
    /\ UNCHANGED <<store, fresh, nextRev, mem, txn, pending>>

(* Delete with HardDelete: no revision is checked.                          *)
HardDelete(s, i) ==
    /\ pc[s] = "idle"
    /\ i \notin fresh
    /\ Start(s, "hard", i, TRUE, "put")
    /\ UNCHANGED <<store, fresh, nextRev, mem, txn, pending>>

RunOnScope(s) == IF txn[s] = "none" THEN "begin" ELSE "check"

(* Replace runs FindByID and Save(IgnoreRevision) in one transaction.       *)
Replace(s, i) ==
    /\ pc[s] = "idle" /\ CanDraw
    /\ i \notin fresh
    /\ Start(s, "replace", i, TRUE, RunOnScope(s))
    /\ UNCHANGED <<store, fresh, nextRev, mem, txn, pending>>

-----------------------------------------------------------------------------
(* Opening the transaction.                                                 *)

Begin(s) ==
    /\ pc[s] = "begin"
    /\ CanBegin(s)
    /\ lock' = BeginLocks(s)
    /\ IF call[s].op = "tx"
         THEN GoTo(s, "idle") /\ txn' = [txn EXCEPT ![s] = "app"]
         ELSE GoTo(s, "check") /\ txn' = [txn EXCEPT ![s] = "auto"]
    /\ Returns(s, FALSE)
    /\ UNCHANGED <<row, fresh, nextRev, mem, pending>>

(* SQLITE_BUSY after busy_timeout, or no connection from the pool.          *)
BeginFails(s) ==
    /\ pc[s] = "begin"
    /\ GoTo(s, "idle")
    /\ IF call[s].op = "tx" THEN UNCHANGED err ELSE Returns(s, TRUE)
    /\ UNCHANGED <<store, fresh, nextRev, mem, txn, pending>>

(* A call that returns an error: Den rolls back the transaction it opened,
   an application closure is free to go on.                                 *)
AfterError(s) == IF txn[s] = "auto" THEN "fail" ELSE "idle"

(* Mutant: an empty in-memory _rev skips the comparison.                    *)
RevMatchesIfSet(s, i) == mem[s][i].rev \in {0, View(s, i).rev}

(* The comparison of the stored and the in-memory _rev.  The call is keyed
   on the row's existence: an empty in-memory _rev is a conflict.           *)
RevMatches(s, i) == View(s, i).rev = mem[s][i].rev

CheckPasses(s) ==
    LET c == call[s] IN
    IF c.op = "replace" THEN Exists(s, c.id)
                        ELSE c.force \/ (Exists(s, c.id) /\ RevMatches(s, c.id))

(* Mutant: Replace without preserveServerFields.                            *)
StampedDelOfStruct(s) ==
    call[s].op = "soft" \/ (call[s].op # "restore" /\ mem[s][call[s].id].del)

(* The document that will be written: softDelete stamps DeletedAt, Replace
   takes the server-owned fields of the row it read, Save keeps the mark of
   the struct in hand unless the caller cleared it; each under a new revision. *)
StampedDel(s) ==
    LET c == call[s] IN
    CASE c.op = "soft"    -> TRUE
      [] c.op = "restore" -> FALSE
      [] c.op = "replace" -> View(s, c.id).del
      [] OTHER            -> mem[s][c.id].del

(* Mutant: soft delete keeps the revision it was checked against.           *)
StampedSameRev(s) == [rev |-> IF call[s].op = "soft" THEN mem[s][call[s].id].rev ELSE nextRev,
                      del |-> StampedDel(s)]

Stamped(s) == [rev |-> nextRev, del |-> StampedDel(s)]

(* The hooks, the Get and the comparison, and the new revision set on the
   in-memory struct, ahead of the write and whatever becomes of it.         *)
Check(s) ==
    /\ pc[s] = "check"
    /\ CheckPasses(s)
    /\ mem' = [mem EXCEPT ![s][call[s].id] = Stamped(s)]
    /\ nextRev' = nextRev + 1
    /\ call' = [call EXCEPT ![s].seen = View(s, call[s].id).rev]
    /\ pc' = [pc EXCEPT ![s] = "put"]
    /\ UNCHANGED <<store, fresh, txn, pending, err>>

(* ErrNotFound, ErrRevisionConflict, or an error of a BeforeUpdate hook or of
   validation.  In softDelete no hook runs here.  Replace has already copied
   the server-owned fields onto the caller's struct when its hooks fail.    *)
CheckFails(s) ==
    LET c == call[s] IN
    /\ pc[s] = "check"
    /\ c.op = "soft" => ~CheckPasses(s)
    /\ mem' = IF c.op = "replace" /\ Exists(s, c.id)
                THEN [mem EXCEPT ![s][c.id] = View(s, c.id)]
                ELSE mem
    /\ GoTo(s, AfterError(s))
    /\ Returns(s, TRUE)
    /\ UNCHANGED <<store, fresh, nextRev, txn, pending>>

-----------------------------------------------------------------------------
(* The statement.  Put is an upsert: INSERT ... ON CONFLICT DO UPDATE.      *)

HowOf(s) ==
    LET c == call[s] IN
    CASE c.op = "insert"  -> "insert"
      [] c.op = "hard"    -> "hard"
      [] c.op = "replace" -> "replace"
      [] c.op = "restore" -> IF c.force THEN "forced" ELSE "restore"
      [] OTHER            -> IF c.force THEN "forced" ELSE "checked"

(* The writes that pass checkAndUpdateRevision.                             *)
CheckedHows == {"checked", "restore"}

(* Several writes of one transaction to the same row publish as one: what it
   may overwrite is decided by the weakest check among them.  A Replace, which
   checks no revision, and a restore, which keeps no mark, do what a forced
   write may.                                                               *)
MergeHow(old, new) ==
    IF {old, new} = {"replace", "restore"} THEN "forced"
    ELSE IF new \in {"forced", "hard"} \/ old \in {"clean", "checked"} THEN new
    ELSE old

(* The After hooks run on the written document; their error is returned, and
   only a transaction of Den's own around them takes the write back.        *)
AfterHooks(s) == \E failed \in BOOLEAN : Returns(s, failed)

Written(s) == IF call[s].op = "hard" THEN NoRow ELSE mem[s][call[s].id]

(* Put or Delete outside a transaction commits by itself, before the After
   hooks run.                                                               *)
WriteAutocommit(s) ==
    LET i == call[s].id IN
    /\ pc[s] = "put" /\ txn[s] = "none"
    /\ CanWrite(s)
    /\ row' = [row EXCEPT ![i] = Written(s)]
    /\ GoTo(s, "idle")
    /\ AfterHooks(s)
    /\ UNCHANGED <<lock, fresh, nextRev, mem, txn, pending>>

(* Put or Delete inside a transaction; it takes the row's lock.  The history
   variable base keeps the revision the first write was derived from.       *)
WriteInTx(s) ==
    LET i == call[s].id IN
    /\ pc[s] = "put" /\ txn[s] # "none"
    /\ CanWrite(s)
    /\ IF NothingToDelete(s)
         THEN UNCHANGED <<lock, pending>>
         ELSE /\ lock' = [lock EXCEPT ![i] = s]
              /\ buf' = [buf EXCEPT ![s][i] = Written(s)]
              /\ how' = [how EXCEPT ![s][i] = MergeHow(how[s][i], HowOf(s))]
              /\ base' = [base EXCEPT ![s][i] =
                            IF how[s][i] = "clean" THEN call[s].seen ELSE @]
              /\ guard' = guard
    /\ GoTo(s, IF txn[s] = "auto" THEN "commit" ELSE "idle")
    /\ IF txn[s] = "auto" THEN UNCHANGED err ELSE AfterHooks(s)
    /\ UNCHANGED <<row, fresh, nextRev, mem, txn>>

(* The statement is refused (a unique index, the connection; on SQLite the
   busy timeout of an autocommit write).  PostgreSQL aborts the surrounding
   transaction: nothing but a rollback can follow.                          *)
WriteFails(s) ==
    /\ pc[s] = "put"
    /\ CanWrite(s) \/ SQLite
    /\ GoTo(s, IF txn[s] = "app" /\ ~SQLite THEN "fail" ELSE AfterError(s))
    /\ Returns(s, TRUE)
    /\ UNCHANGED <<store, fresh, nextRev, mem, txn, pending>>

-----------------------------------------------------------------------------
(* LockByID: SELECT ... FOR UPDATE on PostgreSQL, a plain Get on SQLite.    *)

Modes == {"default", "nowait", "skiplocked"}

(* Mutant: SELECT without FOR UPDATE.                                       *)
GrantLockPlain(s, i) ==
    /\ mem' = [mem EXCEPT ![s][i] = View(s, i)]
    /\ guard' = [guard EXCEPT ![s] = @ \cup {i}]
    /\ UNCHANGED <<lock, buf, how, base>>

(* What a granted lock gives: the locked version of the row in hand.        *)
GrantLock(s, i) ==
    /\ mem' = [mem EXCEPT ![s][i] = View(s, i)]
    /\ lock' = IF SQLite THEN lock ELSE [lock EXCEPT ![i] = s]
    /\ guard' = IF how[s][i] = "clean" THEN [guard EXCEPT ![s] = @ \cup {i}] ELSE guard
    /\ UNCHANGED <<buf, how, base>>

LockedByOther(s, i) == ~SQLite /\ lock[i] \notin {Nobody, s}

LockByID(s, i) ==
    /\ pc[s] = "idle" /\ txn[s] = "app"
    /\ Exists(s, i) /\ ~LockedByOther(s, i)
    /\ GrantLock(s, i)
    /\ Returns(s, FALSE)
    /\ UNCHANGED <<row, fresh, nextRev, pc, call, txn>>

(* The row is held by another transaction: the default mode queues, NoWait
   gets ErrLocked (and an aborted transaction), SkipLocked ErrNotFound.     *)
LockByIDBlocked(s, i, mode) ==
    /\ pc[s] = "idle" /\ txn[s] = "app"
    /\ Exists(s, i) /\ LockedByOther(s, i)
    /\ mode # "skiplocked"
    /\ Start(s, "lock", i, FALSE, IF mode = "default" THEN "lock" ELSE "fail")
    /\ UNCHANGED <<store, fresh, nextRev, mem, txn, pending>>

(* The queue moves on; a row deleted meanwhile is ErrNotFound.              *)
LockGranted(s) ==
    LET i == call[s].id IN
    /\ pc[s] = "lock"
    /\ lock[i] \in {Nobody, s}
    /\ IF Exists(s, i) THEN GrantLock(s, i) ELSE UNCHANGED <<mem, lock, pending>>
    /\ GoTo(s, "idle")
    /\ Returns(s, ~Exists(s, i))
    /\ UNCHANGED <<row, fresh, nextRev, txn>>

(* PostgreSQL's deadlock detector: a cycle of sessions, each waiting for a
   lock the next one holds; the statement of one of them fails.             *)
Waiting(s) == pc[s] \in {"put", "lock"} /\ ~SQLite /\ ~NothingToDelete(s)
WaitsFor(s, t) == Waiting(s) /\ s # t /\ lock[call[s].id] = t

Deadlocked(s) ==
    \E C \in SUBSET Sessions :
        /\ s \in C
        /\ \A t \in C : /\ \E u \in C : WaitsFor(t, u)
                        /\ \E u \in C : WaitsFor(u, t)

DeadlockVictim(s) ==
    /\ Deadlocked(s)
    /\ GoTo(s, "fail")
    /\ Returns(s, TRUE)
    /\ UNCHANGED <<store, fresh, nextRev, mem, txn, pending>>

-----------------------------------------------------------------------------
(* The end of a transaction.                                                *)

Forget(s) ==
    /\ GoTo(s, "idle")
    /\ txn' = [txn EXCEPT ![s] = "none"]
    /\ lock' = Release(s)
    /\ buf' = [buf EXCEPT ![s] = [i \in Ids |-> NoRow]]
    /\ how' = [how EXCEPT ![s] = [i \in Ids |-> "clean"]]
    /\ base' = [base EXCEPT ![s] = [i \in Ids |-> 0]]
    /\ guard' = [guard EXCEPT ![s] = {}]

Published(s) == [i \in Ids |-> View(s, i)]

(* Den commits its own transaction after the call, the application's when the
   closure returns nil.  AfterUpdate hooks have run inside it, the After hooks
   of a soft delete run behind it.                                          *)
Commit(s) ==
    /\ pc[s] = "commit" \/ (pc[s] = "idle" /\ txn[s] = "app")
    /\ row' = Published(s)
    /\ Forget(s)
    /\ IF pc[s] = "commit" /\ call[s].op = "soft" THEN AfterHooks(s) ELSE Returns(s, FALSE)
    /\ UNCHANGED <<fresh, nextRev, mem>>

(* The call failed (fail), its After hooks did, the Commit did (commit), or
   the closure returned an error or panicked.  The structs in hand keep
   their new revisions.                                                     *)
Rollback(s) ==
    /\ pc[s] \in {"commit", "fail"} \/ (pc[s] = "idle" /\ txn[s] = "app")
    /\ Forget(s)
    /\ Returns(s, txn[s] = "auto")
    /\ UNCHANGED <<row, fresh, nextRev, mem>>

(* The process dies: the backend rolls back, the structs are gone.          *)
Crash(s) ==
    /\ Forget(s)
    /\ mem' = [mem EXCEPT ![s] = [i \in Ids |-> NoRow]]
    /\ Returns(s, FALSE)
    /\ UNCHANGED <<row, fresh, nextRev>>

-----------------------------------------------------------------------------
Calling(s) ==
    \/ RunInTransaction(s)
    \/ \E i \in Ids :
        \/ FindByID(s, i)
        \/ Insert(s, i)
        \/ HardDelete(s, i)
        \/ Replace(s, i)
        \/ LockByID(s, i)
        \/ \E mode \in Modes : LockByIDBlocked(s, i, mode)
        \/ \E force \in BOOLEAN :
            Save(s, i, force) \/ Restore(s, i, force) \/ SoftDelete(s, i, force)

Opening(s) == Begin(s) \/ BeginFails(s)
Checking(s) == Check(s) \/ CheckFails(s)
Writing(s)  == WriteAutocommit(s) \/ WriteInTx(s) \/ WriteFails(s)
Ending(s)   == Commit(s) \/ Rollback(s)

Running(s)  == \/ Opening(s) \/ Checking(s) \/ Writing(s)
               \/ LockGranted(s) \/ DeadlockVictim(s) \/ Ending(s) \/ Crash(s)

Next == \E s \in Sessions : Calling(s) \/ Running(s)

Spec == Init /\ [][Next]_vars

(* Every goroutine runs on; a statement that can run does (SQLite gives up
   after busy_timeout; PostgreSQL's lock queues are first come first served,
   hence strong fairness); the deadlock detector fires; a closure returns.  *)
Fairness == \A s \in Sessions :
    /\ WF_vars(Opening(s) \/ Checking(s) \/ DeadlockVictim(s))
    /\ SF_vars(Writing(s) \/ LockGranted(s))
    /\ SF_vars(Ending(s))

FairSpec == Spec /\ Fairness

-----------------------------------------------------------------------------
(* Properties.                                                              *)

(* A step that makes s's write of kind k to i visible to others: the commit
   of its transaction, or the statement itself when there is none.          *)
Publishes(s, i, k) ==
    \/ /\ how[s][i] = k /\ how'[s][i] = "clean"
       /\ row'[i] = buf[s][i]
    \/ /\ pc[s] = "put" /\ txn[s] = "none" /\ call[s].id = i /\ HowOf(s) = k
       /\ pc'[s] = "idle" /\ row'[i] = mem[s][i]

BaseRev(s, i) == IF how[s][i] = "clean" THEN call[s].seen ELSE base[s][i]

(* Optimistic concurrency: a write that passed checkAndUpdateRevision is only
   ever committed over the very revision it was checked against.  A second
   writer holding the same revision gets ErrRevisionConflict.               *)
NoLostUpdate ==
    [][\A s \in Sessions, i \in Ids : \A k \in CheckedHows :
        Publishes(s, i, k) => row[i].rev = BaseRev(s, i)]_vars

(* Replace "does NOT resurrect soft-deleted documents", nor hard-deleted
   ones: what it commits keeps a delete that was committed before it.       *)
ReplaceNeverResurrects ==
    [][\A s \in Sessions, i \in Ids :
        Publishes(s, i, "replace")
            => row[i].rev # 0 /\ (row[i].del => row'[i].del)]_vars

(* A revision-checked write does not undo a committed soft delete "instead of
   silently clobbering DeletedAt"; only one whose caller has read that very
   delete and cleared its mark does: a restore, of the version that is stored. *)
SoftDeleteSticks ==
    [][\A s \in Sessions, i \in Ids : \A k \in CheckedHows :
        Publishes(s, i, k) /\ row[i].del /\ ~row'[i].del
            => k = "restore" /\ row[i].rev = BaseRev(s, i)]_vars

(* LockByID followed by Save in the same transaction loses no update on
   PostgreSQL either.                                                       *)
LockedUpdateSafe ==
    [][\A s \in Sessions, i \in Ids : \A k \in CheckedHows :
        Publishes(s, i, k) /\ i \in guard[s]
            => row[i].rev = BaseRev(s, i)]_vars

(* A revision identifies a version: wherever two copies of a document carry
   the same _rev (stored, buffered, or in a caller's hand), they are the same
   document.  Comparing revisions is therefore enough.                      *)
Copies(i) == {row[i]} \cup {mem[s][i] : s \in Sessions} \cup {buf[s][i] : s \in Sessions}

RevIsIdentity ==
    \A i \in Ids : \A d, e \in Copies(i) : d.rev = e.rev => d = e

(* What a caller sees: the call it waits for, the struct as it passed it (its
   own again when the call returns), and the transaction it has opened.     *)
InCall(s) == pc[s] \in {"begin", "check", "put", "commit"} /\ call[s].op # "tx"

Asked == [s \in Sessions |->
            IF InCall(s) THEN [op |-> call[s].op, id |-> call[s].id, force |-> call[s].force]
                         ELSE [op |-> "none"]]
Hand  == [s \in Sessions |-> [i \in Ids |->
            IF InCall(s) /\ call[s].id = i THEN call[s].was ELSE mem[s][i]]]
Owner == IF \E s \in Sessions : txn[s] = "app" THEN CHOOSE s \in Sessions : txn[s] = "app"
                                              ELSE Nobody
Working == IF Owner = Nobody THEN row ELSE Published(Owner)

Serial == INSTANCE SerialWrites WITH
            Clients <- Sessions, Keys <- Ids, Versions <- [rev: 0..MaxRev, del: BOOLEAN],
            Missing <- NoRow, Free <- Nobody,
            rows <- row, owner <- Owner, view <- Working, hand <- Hand, asked <- Asked,
            failed <- err

(* On SQLite every call on the *DB is atomic, its own transaction included,
   and application transactions are serial: Crud implements SerialWrites.   *)
SerialOnSQLite ==
    /\ SQLite => Serial!InitSerial
    /\ [][SQLite => Serial!NextSerial]_(Serial!svars)

(* Every call returns: no lock order, deadlock or busy backend leaves a
   session waiting for ever.                                                *)
EveryCallReturns == \A s \in Sessions : pc[s] # "idle" ~> pc[s] = "idle"
=============================================================================
