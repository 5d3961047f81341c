----------------------------- MODULE CrudProofs -----------------------------
(***************************************************************************)
(* What TLAPS proves of Crud for every set of sessions and ids and every   *)
(* revision budget: the type invariant and that a revision identifies a    *)
(* version on both backends; on SQLite, optimistic concurrency, that a     *)
(* checked write undoes a soft delete only as a restore and Replace undoes *)
(* none, and that each call takes effect in one step and transactions run  *)
(* one after another, the refinement of SerialWrites; on both, that a      *)
(* document read FOR UPDATE is saved without a lost update.                *)
(***************************************************************************)
EXTENDS Crud, FiniteSetTheorems, TLAPS

USE IdsAssumption, NobodyAssumption, BackendAssumption
USE DEF CheckedHows

LEMMA NoCallType == NoCall \in Calls
BY DEF NoCall, Calls, Ops, NoRow, Docs

LEMMA ViewType ==
    ASSUME TypeOK, NEW s \in Sessions, NEW i \in Ids
    PROVE  View(s, i) \in Docs
BY DEF TypeOK, View

LEMMA CallIdType ==
    ASSUME TypeOK, NEW s \in Sessions
    PROVE  /\ call[s] \in Calls
           /\ call[s].id \in Ids
           /\ call[s].seen \in Nat
           /\ call[s].op \in Ops
BY DEF TypeOK, Calls

LEMMA GoToType ==
    ASSUME TypeOK, NEW s \in Sessions, NEW at, GoTo(s, at),
           at \in {"idle", "begin", "check", "put", "lock", "commit", "fail"}
    PROVE  /\ pc' \in [Sessions -> {"idle", "begin", "check", "put", "lock", "commit", "fail"}]
           /\ call' \in [Sessions -> Calls]
BY NoCallType DEF TypeOK, GoTo

LEMMA StartType ==
    ASSUME TypeOK, NEW s \in Sessions, NEW op \in Ops, NEW i \in Ids,
           NEW force \in BOOLEAN, NEW at, Start(s, op, i, force, at),
           at \in {"idle", "begin", "check", "put", "lock", "commit", "fail"}
    PROVE  /\ pc' \in [Sessions -> {"idle", "begin", "check", "put", "lock", "commit", "fail"}]
           /\ call' \in [Sessions -> Calls]
           /\ err' \in [Sessions -> BOOLEAN]
<1>1. err' \in [Sessions -> BOOLEAN]
  BY DEF TypeOK, Start, Returns
<1>2. call' \in [Sessions -> Calls]
  BY DEF TypeOK, Start, Calls
<1> QED
  BY <1>1, <1>2 DEF TypeOK, Start

LEMMA GrantLockType ==
    ASSUME TypeOK, NEW s \in Sessions, NEW i \in Ids, GrantLock(s, i)
    PROVE  /\ mem' \in [Sessions -> [Ids -> Docs]]
           /\ lock' \in [Ids -> Sessions \cup {Nobody}]
           /\ guard' \in [Sessions -> SUBSET Ids]
           /\ UNCHANGED <<buf, how, base>>
BY ViewType DEF TypeOK, GrantLock

LEMMA ForgetType ==
    ASSUME TypeOK, NEW s \in Sessions, Forget(s)
    PROVE  /\ pc' \in [Sessions -> {"idle", "begin", "check", "put", "lock", "commit", "fail"}]
           /\ call' \in [Sessions -> Calls]
           /\ txn' \in [Sessions -> {"none", "auto", "app"}]
           /\ lock' \in [Ids -> Sessions \cup {Nobody}]
           /\ buf' \in [Sessions -> [Ids -> Docs]]
           /\ how' \in [Sessions -> [Ids -> Hows]]
           /\ base' \in [Sessions -> [Ids -> Nat]]
           /\ guard' \in [Sessions -> SUBSET Ids]
<1>1. GoTo(s, "idle")
  BY DEF Forget
<1>2. NoRow \in Docs
  BY DEF NoRow, Docs
<1> QED
  BY <1>1, <1>2, GoToType DEF TypeOK, Forget, Release, Hows

(* What the end of a transaction, or of a process, does to its own state.   *)
LEMMA EndSets ==
    ASSUME NEW s \in Sessions, Commit(s) \/ Rollback(s) \/ Crash(s)
    PROVE  /\ Forget(s) /\ fresh' = fresh /\ nextRev' = nextRev
           /\ row' = row \/ row' = Published(s)
           /\ mem' = mem \/ mem' = [mem EXCEPT ![s] = [i \in Ids |-> NoRow]]
<1>1. CASE Commit(s)
  BY <1>1 DEF Commit
<1>2. CASE Rollback(s)
  BY <1>2 DEF Rollback
<1>3. CASE Crash(s)
  BY <1>3 DEF Crash
<1> QED
  BY <1>1, <1>2, <1>3

LEMMA StampedType ==
    ASSUME TypeOK, NEW s \in Sessions
    PROVE  Stamped(s) \in Docs
<1>1. StampedDel(s) \in BOOLEAN
  <2>1. View(s, call[s].id).del \in BOOLEAN /\ mem[s][call[s].id].del \in BOOLEAN
    BY CallIdType, ViewType DEF TypeOK, Docs
  <2>2. CASE call[s].op = "soft"
    BY <2>2 DEF StampedDel
  <2>3. CASE call[s].op = "replace"
    BY <2>1, <2>3 DEF StampedDel
  <2>4. CASE call[s].op \notin {"soft", "replace"}
    BY <2>1, <2>4 DEF StampedDel
  <2> QED BY <2>2, <2>3, <2>4
<1> QED
  BY <1>1 DEF Stamped, Docs, TypeOK

LEMMA ReturnsType ==
    ASSUME TypeOK, NEW s \in Sessions
    PROVE  /\ \A e \in BOOLEAN : Returns(s, e) => err' \in [Sessions -> BOOLEAN]
           /\ AfterHooks(s) => err' \in [Sessions -> BOOLEAN]
BY DEF TypeOK, Returns, AfterHooks

(* Every variable keeps its type under every step of a session.            *)
LEMMA TypeStep ==
    ASSUME TypeOK, [Next]_vars
    PROVE  TypeOK'
<1> USE DEF store, pending
<1>1. CASE UNCHANGED vars
  BY <1>1 DEF vars, TypeOK
<1>2. ASSUME NEW s \in Sessions, Calling(s) PROVE TypeOK'
  <2>1. CASE RunInTransaction(s)
    BY <2>1, GoToType DEF RunInTransaction, TypeOK
  <2>2. ASSUME NEW i \in Ids, FindByID(s, i) PROVE TypeOK'
    BY <2>2, ViewType, ReturnsType DEF FindByID, TypeOK
  <2>3. ASSUME NEW i \in Ids, Insert(s, i) PROVE TypeOK'
    <3>1. /\ pc' \in [Sessions -> {"idle", "begin", "check", "put", "lock", "commit", "fail"}]
          /\ call' \in [Sessions -> Calls]
          /\ err' \in [Sessions -> BOOLEAN]
      BY <2>3, StartType DEF Insert, Ops
    <3>2. [rev |-> nextRev, del |-> FALSE] \in Docs
      BY DEF TypeOK, Docs
    <3>3. mem' \in [Sessions -> [Ids -> Docs]]
      BY <2>3, <3>2 DEF Insert, TypeOK
    <3>4. nextRev' \in Nat \ {0} /\ fresh' \subseteq Ids
      BY <2>3 DEF Insert, TypeOK
    <3> QED
      BY <2>3, <3>1, <3>3, <3>4 DEF Insert, TypeOK
  <2>4. ASSUME NEW i \in Ids, HardDelete(s, i) PROVE TypeOK'
    BY <2>4, StartType DEF HardDelete, TypeOK, Ops
  <2>5. ASSUME NEW i \in Ids, Replace(s, i) PROVE TypeOK'
    BY <2>5, StartType DEF Replace, TypeOK, Ops, RunOnScope
  <2>6. ASSUME NEW i \in Ids, LockByID(s, i) PROVE TypeOK'
    BY <2>6, GrantLockType, ReturnsType DEF LockByID, TypeOK
  <2>7. ASSUME NEW i \in Ids, NEW mode \in Modes, LockByIDBlocked(s, i, mode) PROVE TypeOK'
    <3> DEFINE at == IF mode = "default" THEN "lock" ELSE "fail"
    <3>1. Start(s, "lock", i, FALSE, at) /\ at \in {"lock", "fail"}
      BY <2>7 DEF LockByIDBlocked
    <3> HIDE DEF at
    <3>2. /\ pc' \in [Sessions -> {"idle", "begin", "check", "put", "lock", "commit", "fail"}]
          /\ call' \in [Sessions -> Calls]
          /\ err' \in [Sessions -> BOOLEAN]
      BY <3>1, StartType DEF Ops
    <3> QED
      BY <2>7, <3>2 DEF LockByIDBlocked, TypeOK
  <2>8. ASSUME NEW i \in Ids, NEW force \in BOOLEAN, Save(s, i, force) \/ Restore(s, i, force) PROVE TypeOK'
    BY <2>8, StartType DEF Save, Restore, TypeOK, Ops, AutoWrap
  <2>9. ASSUME NEW i \in Ids, NEW force \in BOOLEAN, SoftDelete(s, i, force) PROVE TypeOK'
    BY <2>9, StartType DEF SoftDelete, TypeOK, Ops, AutoWrap
  <2> QED
    BY <1>2, <2>1, <2>2, <2>3, <2>4, <2>5, <2>6, <2>7, <2>8, <2>9 DEF Calling
<1>3. ASSUME NEW s \in Sessions, Running(s) PROVE TypeOK'
  <2>1. CASE Begin(s)
    <3>1. BeginLocks(s) \in [Ids -> Sessions \cup {Nobody}]
      BY DEF BeginLocks, TypeOK
    <3>2. CASE call[s].op = "tx"
      BY <2>1, <3>1, <3>2, GoToType, ReturnsType DEF Begin, TypeOK
    <3>3. CASE call[s].op # "tx"
      BY <2>1, <3>1, <3>3, GoToType, ReturnsType DEF Begin, TypeOK
    <3> QED BY <3>2, <3>3
  <2>2. CASE BeginFails(s)
    BY <2>2, GoToType, ReturnsType DEF BeginFails, TypeOK
  <2>3. CASE Check(s)
    <3>1. call' \in [Sessions -> Calls]
      <4>1. View(s, call[s].id).rev \in Nat
        BY CallIdType, ViewType DEF Docs
      <4>2. [call[s] EXCEPT !.seen = View(s, call[s].id).rev] \in Calls
        BY <4>1, CallIdType DEF Calls
      <4>3. call' = [call EXCEPT ![s] = [call[s] EXCEPT !.seen = View(s, call[s].id).rev]]
        BY <2>3 DEF Check
      <4> QED
        BY <4>2, <4>3 DEF TypeOK
    <3>2. mem' \in [Sessions -> [Ids -> Docs]]
      BY <2>3, CallIdType, StampedType DEF Check, TypeOK
    <3> QED
      BY <2>3, <3>1, <3>2 DEF Check, TypeOK
  <2>4. CASE CheckFails(s)
    <3>1. mem' \in [Sessions -> [Ids -> Docs]]
      BY <2>4, CallIdType, ViewType, ReturnsType DEF CheckFails, TypeOK
    <3> QED
      BY <2>4, <3>1, GoToType, ReturnsType DEF CheckFails, TypeOK, AfterError
  <2>5. CASE WriteAutocommit(s)
    <3>1. Written(s) \in Docs
      BY CallIdType DEF Written, TypeOK, NoRow, Docs
    <3> QED
      BY <2>5, <3>1, CallIdType, GoToType, ReturnsType DEF WriteAutocommit, TypeOK
  <2>6. CASE WriteInTx(s)
    <3>1. Written(s) \in Docs
      BY CallIdType DEF Written, TypeOK, NoRow, Docs
    <3>2. MergeHow(how[s][call[s].id], HowOf(s)) \in Hows
      BY CallIdType DEF MergeHow, HowOf, TypeOK, Hows
    <3>3. /\ pc' \in [Sessions -> {"idle", "begin", "check", "put", "lock", "commit", "fail"}]
          /\ call' \in [Sessions -> Calls]
      BY <2>6, GoToType DEF WriteInTx
    <3>4. /\ lock' \in [Ids -> Sessions \cup {Nobody}]
          /\ buf' \in [Sessions -> [Ids -> Docs]]
          /\ how' \in [Sessions -> [Ids -> Hows]]
          /\ base' \in [Sessions -> [Ids -> Nat]]
          /\ guard' \in [Sessions -> SUBSET Ids]
      <4>1. CASE NothingToDelete(s)
        BY <2>6, <4>1, ReturnsType DEF WriteInTx, TypeOK
      <4>2. CASE ~NothingToDelete(s)
        <5> DEFINE i == call[s].id
        <5>1. i \in Ids /\ call[s].seen \in Nat
          BY CallIdType
        <5>2. lock' = [lock EXCEPT ![i] = s] /\ guard' = guard
          BY <2>6, <4>2 DEF WriteInTx
        <5>3. buf' = [buf EXCEPT ![s][i] = Written(s)]
          BY <2>6, <4>2 DEF WriteInTx
        <5>4. how' = [how EXCEPT ![s][i] = MergeHow(how[s][i], HowOf(s))]
          BY <2>6, <4>2 DEF WriteInTx
        <5>5. base' = [base EXCEPT ![s][i] = IF how[s][i] = "clean" THEN call[s].seen ELSE @]
          BY <2>6, <4>2 DEF WriteInTx
        <5> HIDE DEF i
        <5>6. buf' \in [Sessions -> [Ids -> Docs]]
          BY <3>1, <5>1, <5>3 DEF TypeOK
        <5>7. how' \in [Sessions -> [Ids -> Hows]]
          BY <3>2, <5>1, <5>4 DEF TypeOK, i
        <5>8. base' \in [Sessions -> [Ids -> Nat]]
          BY <5>1, <5>5 DEF TypeOK
        <5> QED
          BY <5>1, <5>2, <5>6, <5>7, <5>8 DEF TypeOK
      <4> QED BY <4>1, <4>2
    <3> QED
      BY <2>6, <3>3, <3>4, ReturnsType DEF WriteInTx, TypeOK
  <2>7. CASE WriteFails(s)
    BY <2>7, GoToType, ReturnsType DEF WriteFails, TypeOK, AfterError
  <2>8. CASE LockGranted(s)
    <3>1. /\ mem' \in [Sessions -> [Ids -> Docs]]
          /\ lock' \in [Ids -> Sessions \cup {Nobody}]
          /\ guard' \in [Sessions -> SUBSET Ids]
          /\ UNCHANGED <<buf, how, base>>
      BY <2>8, CallIdType, GrantLockType, ReturnsType DEF LockGranted, TypeOK
    <3> QED
      BY <2>8, <3>1, GoToType, ReturnsType DEF LockGranted, TypeOK
  <2>9. CASE DeadlockVictim(s)
    BY <2>9, GoToType, ReturnsType DEF DeadlockVictim, TypeOK
  <2>10. CASE Commit(s)
    <3>1. Published(s) \in [Ids -> Docs]
      BY ViewType DEF Published
    <3> QED
      BY <2>10, <3>1, ForgetType, ReturnsType DEF Commit, TypeOK
  <2>11. CASE Rollback(s)
    BY <2>11, ForgetType, ReturnsType DEF Rollback, TypeOK
  <2>12. CASE Crash(s)
    <3>1. NoRow \in Docs
      BY DEF NoRow, Docs
    <3> QED
      BY <2>12, <3>1, ForgetType, ReturnsType DEF Crash, TypeOK
  <2> QED
    BY <1>3, <2>1, <2>2, <2>3, <2>4, <2>5, <2>6, <2>7, <2>8, <2>9, <2>10, <2>11, <2>12
       DEF Running, Opening, Checking, Writing, Ending
<1> QED
  BY <1>1, <1>2, <1>3 DEF Next

LEMMA TypeInit == Init => TypeOK
BY NoCallType DEF Init, TypeOK, Docs, NoRow, Hows

(* Every reachable state is well typed, whatever the sessions do.          *)
THEOREM TypeCorrect == Spec => []TypeOK
BY TypeInit, TypeStep, PTL DEF Spec

-----------------------------------------------------------------------------
(* A revision identifies a version.  Strengthening: the revisions in use are
   below the next one, and an empty revision is an absent document.         *)
RevInv ==
    /\ RevIsIdentity
    /\ \A i \in Ids : \A d \in Copies(i) : d.rev < nextRev /\ (d.rev = 0 => d = NoRow)

LEMMA InCopies ==
    ASSUME NEW i \in Ids
    PROVE  \A d : d \in Copies(i) <=>
                \/ d = row[i]
                \/ \E s \in Sessions : d = mem[s][i] \/ d = buf[s][i]
BY DEF Copies

LEMMA InCopiesNext ==
    ASSUME NEW i \in Ids
    PROVE  \A d : d \in Copies(i)' <=>
                \/ d = row'[i]
                \/ \E s \in Sessions : d = mem'[s][i] \/ d = buf'[s][i]
BY DEF Copies

LEMMA ViewInCopies ==
    ASSUME NEW s \in Sessions, NEW i \in Ids
    PROVE  View(s, i) \in Copies(i)
BY InCopies DEF View

(* A step that only moves versions around keeps revisions identifying.     *)
LEMMA CopyStep ==
    ASSUME TypeOK, RevInv, nextRev' = nextRev,
           \A i \in Ids : Copies(i)' \subseteq Copies(i) \cup {NoRow}
    PROVE  RevInv'
<1>1. \A i \in Ids : \A d \in Copies(i) \cup {NoRow} :
        d.rev < nextRev /\ (d.rev = 0 => d = NoRow)
  <2>1. NoRow.rev = 0 /\ 0 < nextRev
    BY DEF NoRow, TypeOK
  <2> QED
    BY <2>1 DEF RevInv
<1>2. \A i \in Ids : \A d, e \in Copies(i) \cup {NoRow} : d.rev = e.rev => d = e
  <2>1. NoRow.rev = 0
    BY DEF NoRow
  <2> QED
    BY <2>1 DEF RevInv, RevIsIdentity
<1> QED
  BY <1>1, <1>2 DEF RevInv, RevIsIdentity

(* A step that draws a revision for document j puts a single new version of
   it in hand.                                                             *)
LEMMA DrawStep ==
    ASSUME TypeOK, RevInv, nextRev' = nextRev + 1,
           NEW j \in Ids, NEW n, n.rev = nextRev,
           \A i \in Ids : Copies(i)' \subseteq Copies(i) \cup (IF i = j THEN {n} ELSE {})
    PROVE  RevInv'
<1> DEFINE Near(i) == Copies(i) \cup {n}
<1>1. \A i \in Ids : \A d \in Copies(i) : d.rev < nextRev
  BY DEF RevInv
<1>2. \A i \in Ids : \A d \in Copies(i) : d.rev \in Nat
  <2> TAKE i \in Ids
  <2> TAKE d \in Copies(i)
  <2>1. d \in Docs
    <3>1. CASE d = row[i]
      BY <3>1 DEF TypeOK
    <3>2. ASSUME NEW s \in Sessions, d = mem[s][i] \/ d = buf[s][i] PROVE d \in Docs
      BY <3>2 DEF TypeOK
    <3> QED BY <3>1, <3>2, InCopies
  <2> QED
    BY <2>1 DEF Docs
<1>3. nextRev \in Nat /\ nextRev # 0
  BY DEF TypeOK
<1>4. \A i \in Ids : \A d \in Near(i) : d.rev < nextRev + 1 /\ (d.rev = 0 => d = NoRow)
  BY <1>1, <1>2, <1>3 DEF RevInv
<1>5. \A i \in Ids : \A d, e \in Near(i) : d.rev = e.rev => d = e
  BY <1>1, <1>2, <1>3 DEF RevInv, RevIsIdentity
<1>6. \A i \in Ids : Copies(i)' \subseteq Near(i)
  OBVIOUS
<1> HIDE DEF Near
<1> QED
  BY <1>4, <1>5, <1>6 DEF RevInv, RevIsIdentity

LEMMA RevInit == Init => RevInv
<1> SUFFICES ASSUME Init PROVE RevInv
  OBVIOUS
<1>1. \A i \in Ids : \A d \in Copies(i) : d = NoRow \/ d = row[i]
  BY InCopies DEF Init
<1>2. \A i \in Ids : row[i] = NoRow \/ row[i].rev = 1
  BY DEF Init
<1>3. NoRow.rev = 0 /\ nextRev = 2
  BY DEF NoRow, Init
<1>4. RevIsIdentity
  BY <1>1, <1>2, <1>3 DEF RevIsIdentity
<1> QED
  BY <1>1, <1>2, <1>3, <1>4 DEF RevInv

(* Where the copies of a step come from, one variable at a time.           *)
LEMMA MovedCopies ==
    ASSUME \A i \in Ids :
              /\ row'[i] \in Copies(i) \cup {NoRow}
              /\ \A t \in Sessions : /\ mem'[t][i] \in Copies(i) \cup {NoRow}
                                     /\ buf'[t][i] \in Copies(i) \cup {NoRow}
    PROVE  \A i \in Ids : Copies(i)' \subseteq Copies(i) \cup {NoRow}
BY InCopiesNext

LEMMA RevStep ==
    ASSUME TypeOK, RevInv, [Next]_vars
    PROVE  RevInv'
<1> USE DEF store, pending
<1>1. \A i \in Ids : /\ row[i] \in Copies(i)
                     /\ \A t \in Sessions : mem[t][i] \in Copies(i) /\ buf[t][i] \in Copies(i)
  BY InCopies
<1>2. ASSUME UNCHANGED <<row, mem, buf, nextRev>> PROVE RevInv'
  BY <1>1, <1>2, CopyStep, MovedCopies
<1>3. ASSUME NEW s \in Sessions, NEW j \in Ids, UNCHANGED <<row, buf, nextRev>>,
             mem' = [mem EXCEPT ![s][j] = View(s, j)]
      PROVE  RevInv'
  <2>1. \A t \in Sessions, i \in Ids : mem'[t][i] \in Copies(i)
    BY <1>1, <1>3, ViewInCopies DEF TypeOK
  <2> QED
    BY <1>1, <1>3, <2>1, CopyStep, MovedCopies
<1>4. ASSUME NEW s \in Sessions, NEW j \in Ids, NEW n, n.rev = nextRev,
             nextRev' = nextRev + 1, UNCHANGED <<row, buf>>,
             mem' = [mem EXCEPT ![s][j] = n]
      PROVE  RevInv'
  <2>1. \A t \in Sessions, i \in Ids :
           mem'[t][i] \in Copies(i) \cup (IF i = j THEN {n} ELSE {})
    BY <1>1, <1>4 DEF TypeOK
  <2>2. \A i \in Ids : Copies(i)' \subseteq Copies(i) \cup (IF i = j THEN {n} ELSE {})
    BY <1>1, <1>4, <2>1, InCopiesNext
  <2> QED
    BY <1>4, <2>2, DrawStep
<1>5. ASSUME NEW s \in Sessions, Calling(s) PROVE RevInv'
  <2>1. ASSUME NEW i \in Ids, Insert(s, i) PROVE RevInv'
    <3> DEFINE n == [rev |-> nextRev, del |-> FALSE]
    <3>1. n.rev = nextRev
      OBVIOUS
    <3>2. mem' = [mem EXCEPT ![s][i] = n] /\ nextRev' = nextRev + 1 /\ UNCHANGED <<row, buf>>
      BY <2>1 DEF Insert
    <3> HIDE DEF n
    <3> QED
      BY <1>4, <3>1, <3>2
  <2>2. ASSUME NEW i \in Ids, FindByID(s, i) PROVE RevInv'
    BY <1>3, <2>2 DEF FindByID
  <2>3. ASSUME NEW i \in Ids, LockByID(s, i) PROVE RevInv'
    BY <1>3, <2>3 DEF LockByID, GrantLock
  <2> QED
    BY <1>2, <1>5, <2>1, <2>2, <2>3
       DEF Calling, RunInTransaction, HardDelete, Replace, LockByIDBlocked, Save, Restore, SoftDelete
<1>6. ASSUME NEW s \in Sessions, Running(s) PROVE RevInv'
  <2>1. call[s].id \in Ids
    BY CallIdType
  <2>2. CASE Check(s)
    <3>1. Stamped(s).rev = nextRev
      BY DEF Stamped
    <3> QED
      BY <1>4, <2>1, <2>2, <3>1 DEF Check
  <2>3. CASE CheckFails(s)
    BY <1>2, <1>3, <2>1, <2>3 DEF CheckFails
  <2>4. CASE LockGranted(s)
    BY <1>2, <1>3, <2>1, <2>4 DEF LockGranted, GrantLock
  <2>5. Written(s) \in Copies(call[s].id) \cup {NoRow}
    BY <1>1, <2>1 DEF Written
  <2>6. CASE WriteAutocommit(s)
    <3>1. \A i \in Ids : row'[i] \in Copies(i) \cup {NoRow}
      BY <1>1, <2>1, <2>5, <2>6 DEF WriteAutocommit, TypeOK
    <3> QED
      BY <1>1, <2>6, <3>1, CopyStep, MovedCopies DEF WriteAutocommit
  <2>7. CASE WriteInTx(s)
    <3>1. CASE NothingToDelete(s)
      BY <1>2, <2>7, <3>1 DEF WriteInTx
    <3>2. CASE ~NothingToDelete(s)
      <4>1. buf' = [buf EXCEPT ![s][call[s].id] = Written(s)]
        BY <2>7, <3>2 DEF WriteInTx
      <4>2. \A t \in Sessions, i \in Ids : buf'[t][i] \in Copies(i) \cup {NoRow}
        BY <1>1, <2>1, <2>5, <4>1 DEF TypeOK
      <4>3. UNCHANGED <<row, mem, nextRev>>
        BY <2>7 DEF WriteInTx
      <4> QED
        BY <1>1, <4>2, <4>3, CopyStep, MovedCopies
    <3> QED BY <3>1, <3>2
  <2>8. ASSUME Forget(s) PROVE \A t \in Sessions, i \in Ids : buf'[t][i] \in Copies(i) \cup {NoRow}
    BY <1>1, <2>8 DEF Forget, TypeOK
  <2>9. CASE Commit(s)
    <3>1. \A i \in Ids : row'[i] \in Copies(i)
      BY <2>9, ViewInCopies DEF Commit, Published
    <3> QED
      BY <1>1, <2>8, <2>9, <3>1, CopyStep, MovedCopies DEF Commit
  <2>10. CASE Rollback(s)
    BY <1>1, <2>8, <2>10, CopyStep, MovedCopies DEF Rollback
  <2>11. CASE Crash(s)
    <3>1. \A t \in Sessions, i \in Ids : mem'[t][i] \in Copies(i) \cup {NoRow}
      BY <1>1, <2>11 DEF Crash, TypeOK
    <3> QED
      BY <1>1, <2>8, <2>11, <3>1, CopyStep, MovedCopies DEF Crash
  <2> QED
    BY <1>2, <1>6, <2>2, <2>3, <2>4, <2>6, <2>7, <2>9, <2>10, <2>11
       DEF Running, Opening, Checking, Writing, Ending, Begin, BeginFails, WriteFails, DeadlockVictim
<1> QED
  BY <1>2, <1>5, <1>6 DEF Next, vars

(* On both backends, two copies of a document under one revision are equal. *)
THEOREM RevisionIdentity == Spec => []RevIsIdentity
<1>1. Init => TypeOK /\ RevInv
  BY TypeInit, RevInit
<1>2. TypeOK /\ RevInv /\ [Next]_vars => (TypeOK /\ RevInv)'
  BY TypeStep, RevStep
<1>3. RevInv => RevIsIdentity
  BY DEF RevInv
<1> QED
  BY <1>1, <1>2, <1>3, PTL DEF Spec

-----------------------------------------------------------------------------
(* Optimistic concurrency on SQLite.  A transaction holds the write lock from
   its BEGIN on, so the row it compared its revision with is still the row
   it commits over.                                                         *)
TxHoldsLock  == \A s \in Sessions : txn[s] # "none" => \A i \in Ids : lock[i] = s
DirtyInTx    == \A s \in Sessions, i \in Ids : how[s][i] # "clean" => txn[s] # "none"
CheckedInTx  == \A s \in Sessions :
                    pc[s] \in {"check", "put"} /\ HowOf(s) \in CheckedHows => txn[s] # "none"
BaseCurrent  == \A s \in Sessions, i \in Ids :
                    how[s][i] \in CheckedHows => row[i].rev = base[s][i]
SeenCurrent  == \A s \in Sessions :
                    /\ pc[s] = "put" /\ HowOf(s) \in CheckedHows
                    /\ how[s][call[s].id] = "clean"
                    => row[call[s].id].rev = call[s].seen
SQLiteInv    == TxHoldsLock /\ DirtyInTx /\ CheckedInTx /\ BaseCurrent /\ SeenCurrent

LEMMA InvInit == Init => SQLiteInv
BY DEF Init, SQLiteInv, TxHoldsLock, DirtyInTx, CheckedInTx, BaseCurrent, SeenCurrent

(* A step of s that neither writes nor opens or ends a transaction.        *)
LEMMA QuietStep ==
    ASSUME TypeOK, SQLiteInv, NEW s \in Sessions,
           UNCHANGED <<row, lock, txn, how, base>>,
           \A t \in Sessions \ {s} : pc'[t] = pc[t] /\ call'[t] = call[t],
           pc'[s] = "check" /\ HowOf(s)' \in CheckedHows => txn[s] # "none",
           pc'[s] = "put" => HowOf(s)' \notin CheckedHows
    PROVE  SQLiteInv'
<1>1. \A t \in Sessions \ {s} : HowOf(t)' = HowOf(t)
  BY DEF HowOf
<1>2. TxHoldsLock' /\ DirtyInTx' /\ BaseCurrent'
  BY DEF SQLiteInv, TxHoldsLock, DirtyInTx, BaseCurrent
<1>3. CheckedInTx'
  BY <1>1 DEF SQLiteInv, CheckedInTx
<1>4. SeenCurrent'
  BY <1>1 DEF SQLiteInv, SeenCurrent
<1> QED
  BY <1>2, <1>3, <1>4 DEF SQLiteInv

(* s between calls, waiting for its BEGIN, or past its write.              *)
LEMMA GoToStep ==
    ASSUME TypeOK, SQLiteInv, NEW s \in Sessions, NEW at, GoTo(s, at),
           at \notin {"check", "put"},
           UNCHANGED <<row, lock, txn, how, base>>
    PROVE  SQLiteInv'
<1>1. pc'[s] = at /\ \A t \in Sessions \ {s} : pc'[t] = pc[t] /\ call'[t] = call[t]
  BY DEF GoTo, TypeOK
<1> QED
  BY <1>1, QuietStep

LEMMA StartStep ==
    ASSUME TypeOK, SQLiteInv, NEW s \in Sessions, NEW op, NEW i, NEW force, NEW at,
           Start(s, op, i, force, at),
           at = "check" => op = "replace" \/ force = TRUE \/ txn[s] # "none",
           at = "put" => op \in {"insert", "hard"},
           UNCHANGED <<row, lock, txn, how, base>>
    PROVE  SQLiteInv'
<1>1. pc'[s] = at /\ \A t \in Sessions \ {s} : pc'[t] = pc[t] /\ call'[t] = call[t]
  BY DEF Start, TypeOK
<1>2. call'[s] = [op |-> op, id |-> i, force |-> force, was |-> mem[s][i], seen |-> 0]
  BY DEF Start, TypeOK
<1>3. at = "check" /\ HowOf(s)' \in CheckedHows => txn[s] # "none"
  BY <1>2 DEF HowOf
<1>4. at = "put" => HowOf(s)' \notin CheckedHows
  BY <1>2 DEF HowOf
<1> QED
  BY <1>1, <1>3, <1>4, QuietStep

(* At most one transaction is open.                                        *)
LEMMA OneTx ==
    ASSUME SQLiteInv, NEW s \in Sessions, NEW t \in Sessions,
           txn[s] # "none", txn[t] # "none"
    PROVE  s = t
BY DEF SQLiteInv, TxHoldsLock

(* What a transaction's end does to the others: nothing, for there are none. *)
LEMMA ForgetStep ==
    ASSUME TypeOK, SQLiteInv, NEW s \in Sessions, Forget(s),
           row' = row \/ row' = Published(s)
    PROVE  SQLiteInv'
<1>1. /\ pc'[s] = "idle" /\ txn'[s] = "none"
      /\ \A i \in Ids : how'[s][i] = "clean"
  BY DEF Forget, GoTo, TypeOK
<1>2. \A t \in Sessions \ {s} :
        /\ pc'[t] = pc[t] /\ call'[t] = call[t] /\ txn'[t] = txn[t]
        /\ how'[t] = how[t] /\ base'[t] = base[t]
  BY DEF Forget, GoTo, TypeOK
<1>3. \A t \in Sessions \ {s} : HowOf(t)' = HowOf(t)
  BY <1>2 DEF HowOf
<1>4. \A t \in Sessions \ {s} : txn[t] # "none" => row' = row
  <2> SUFFICES ASSUME NEW t \in Sessions \ {s}, txn[t] # "none", row' = Published(s)
               PROVE  row' = row
    OBVIOUS
  <2>1. \A i \in Ids : how[s][i] = "clean"
    BY OneTx DEF SQLiteInv, DirtyInTx
  <2> QED
    BY <2>1 DEF Published, View, TypeOK
<1>5. TxHoldsLock'
  <2>1. \A t \in Sessions, i \in Ids : t # s /\ lock[i] = t => lock'[i] = t
    BY DEF Forget, Release
  <2> QED
    BY <1>1, <1>2, <2>1 DEF SQLiteInv, TxHoldsLock
<1>6. DirtyInTx' /\ CheckedInTx'
  BY <1>1, <1>2, <1>3 DEF SQLiteInv, DirtyInTx, CheckedInTx
<1>7. BaseCurrent'
  BY <1>1, <1>2, <1>4 DEF SQLiteInv, BaseCurrent, DirtyInTx
<1>8. SeenCurrent'
  BY <1>1, <1>2, <1>3, <1>4 DEF SQLiteInv, SeenCurrent, CheckedInTx
<1> QED
  BY <1>5, <1>6, <1>7, <1>8 DEF SQLiteInv

(* BEGIN IMMEDIATE succeeds only while no transaction is open.             *)
LEMMA BeginStep ==
    ASSUME TypeOK, SQLiteInv, SQLite, NEW s \in Sessions, Begin(s)
    PROVE  SQLiteInv'
<1> USE DEF pending
<1>1. \A t \in Sessions : txn[t] = "none"
  BY DEF SQLiteInv, TxHoldsLock, Begin, CanBegin
<1>2. \A i \in Ids : lock'[i] = s
  BY DEF Begin, BeginLocks
<1>3. \A t \in Sessions \ {s} : pc'[t] = pc[t] /\ call'[t] = call[t] /\ txn'[t] = "none"
  <2>1. CASE call[s].op = "tx"
    BY <1>1, <2>1 DEF Begin, GoTo, TypeOK
  <2>2. CASE call[s].op # "tx"
    BY <1>1, <2>2 DEF Begin, GoTo, TypeOK
  <2> QED BY <2>1, <2>2
<1>4. txn'[s] # "none" /\ pc'[s] \in {"idle", "check"}
  <2>1. CASE call[s].op = "tx"
    BY <2>1 DEF Begin, GoTo, TypeOK
  <2>2. CASE call[s].op # "tx"
    BY <2>2 DEF Begin, GoTo, TypeOK
  <2> QED BY <2>1, <2>2
<1>5. row' = row /\ how' = how /\ base' = base
  BY DEF Begin
<1>6. \A t \in Sessions \ {s} : HowOf(t)' = HowOf(t)
  BY <1>3 DEF HowOf
<1>7. TxHoldsLock' /\ DirtyInTx'
  BY <1>1, <1>2, <1>3, <1>5 DEF SQLiteInv, TxHoldsLock, DirtyInTx
<1>8. CheckedInTx'
  BY <1>1, <1>3, <1>4, <1>6 DEF SQLiteInv, CheckedInTx
<1>9. BaseCurrent' /\ SeenCurrent'
  BY <1>3, <1>4, <1>5, <1>6 DEF SQLiteInv, BaseCurrent, SeenCurrent
<1> QED
  BY <1>7, <1>8, <1>9 DEF SQLiteInv

(* The check records the revision of the row it compared.                  *)
LEMMA CheckStep ==
    ASSUME TypeOK, SQLiteInv, NEW s \in Sessions, Check(s)
    PROVE  SQLiteInv'
<1> USE DEF store, pending
<1>1. row' = row /\ lock' = lock /\ txn' = txn /\ how' = how /\ base' = base
  BY DEF Check
<1>2. \A t \in Sessions \ {s} : pc'[t] = pc[t] /\ call'[t] = call[t]
  BY DEF Check, TypeOK
<1>3. pc[s] = "check" /\ pc'[s] = "put"
  BY DEF Check, TypeOK
<1>4. call'[s] = [call[s] EXCEPT !.seen = View(s, call[s].id).rev]
  BY DEF Check, TypeOK
<1>5. /\ call'[s].op = call[s].op /\ call'[s].id = call[s].id
      /\ call'[s].force = call[s].force
      /\ call'[s].seen = View(s, call[s].id).rev
  BY <1>4, CallIdType DEF Calls
<1>6. \A t \in Sessions : HowOf(t)' = HowOf(t)
  BY <1>2, <1>5 DEF HowOf
<1>7. TxHoldsLock' /\ DirtyInTx' /\ BaseCurrent'
  BY <1>1 DEF SQLiteInv, TxHoldsLock, DirtyInTx, BaseCurrent
<1>8. CheckedInTx'
  BY <1>1, <1>2, <1>3, <1>6 DEF SQLiteInv, CheckedInTx
<1>9. SeenCurrent'
  BY <1>1, <1>2, <1>5, <1>6 DEF SQLiteInv, SeenCurrent, View
<1> QED
  BY <1>7, <1>8, <1>9 DEF SQLiteInv

(* An autocommit write needs the database: no transaction is open.         *)
LEMMA AutocommitStep ==
    ASSUME TypeOK, SQLiteInv, SQLite, NEW s \in Sessions, WriteAutocommit(s)
    PROVE  SQLiteInv'
<1> USE DEF pending
<1>1. \A t \in Sessions : txn[t] = "none"
  BY DEF SQLiteInv, TxHoldsLock, WriteAutocommit, CanWrite, MayWrite, NothingToDelete
<1>2. \A t \in Sessions \ {s} : pc'[t] = pc[t] /\ call'[t] = call[t]
  BY DEF WriteAutocommit, GoTo, TypeOK
<1>3. pc'[s] = "idle" /\ txn' = txn /\ how' = how /\ base' = base /\ lock' = lock
  BY DEF WriteAutocommit, GoTo, TypeOK
<1>4. \A t \in Sessions \ {s} : HowOf(t)' = HowOf(t)
  BY <1>2 DEF HowOf
<1>5. TxHoldsLock' /\ DirtyInTx'
  BY <1>3 DEF SQLiteInv, TxHoldsLock, DirtyInTx
<1>6. CheckedInTx'
  BY <1>2, <1>3, <1>4 DEF SQLiteInv, CheckedInTx
<1>7. BaseCurrent'
  BY <1>1, <1>3 DEF SQLiteInv, DirtyInTx, BaseCurrent
<1>8. SeenCurrent'
  BY <1>1, <1>2, <1>3, <1>4 DEF SQLiteInv, CheckedInTx, SeenCurrent
<1> QED
  BY <1>5, <1>6, <1>7, <1>8 DEF SQLiteInv

(* A write in a transaction hands the revision seen over to base.          *)
LEMMA WriteInTxStep ==
    ASSUME TypeOK, SQLiteInv, SQLite, NEW s \in Sessions, WriteInTx(s)
    PROVE  SQLiteInv'
<1> DEFINE i == call[s].id
<1>1. i \in Ids /\ pc[s] = "put" /\ txn[s] # "none"
  BY CallIdType DEF WriteInTx
<1>2. lock' = [lock EXCEPT ![i] = s]
  BY DEF WriteInTx, NothingToDelete
<1>3. how' = [how EXCEPT ![s][i] = MergeHow(how[s][i], HowOf(s))]
  BY DEF WriteInTx, NothingToDelete
<1>4. base' = [base EXCEPT ![s][i] = IF how[s][i] = "clean" THEN call[s].seen ELSE @]
  BY DEF WriteInTx, NothingToDelete
<1>5. row' = row /\ txn' = txn
  BY DEF WriteInTx
<1>6. \A t \in Sessions \ {s} : pc'[t] = pc[t] /\ call'[t] = call[t]
  BY DEF WriteInTx, GoTo, TypeOK
<1>7. pc'[s] \in {"idle", "commit"}
  BY DEF WriteInTx, GoTo, TypeOK
<1>8. \A t \in Sessions \ {s} : HowOf(t)' = HowOf(t) /\ how'[t] = how[t] /\ base'[t] = base[t]
  BY <1>3, <1>4, <1>6 DEF HowOf, TypeOK
<1>9. TxHoldsLock'
  BY <1>1, <1>2, <1>5 DEF SQLiteInv, TxHoldsLock, TypeOK
<1>10. DirtyInTx'
  BY <1>1, <1>5, <1>8 DEF SQLiteInv, DirtyInTx
<1>11. CheckedInTx'
  BY <1>5, <1>6, <1>7, <1>8 DEF SQLiteInv, CheckedInTx
<1>12. BaseCurrent'
  <2> SUFFICES ASSUME NEW j \in Ids, how'[s][j] \in CheckedHows
               PROVE  row[j].rev = base'[s][j]
    BY <1>5, <1>8 DEF SQLiteInv, BaseCurrent
  <2>1. CASE j # i
    BY <1>3, <1>4, <2>1 DEF SQLiteInv, BaseCurrent, TypeOK
  <2>2. CASE j = i
    <3>1. how[s][i] \in CheckedHows \/ (how[s][i] = "clean" /\ HowOf(s) \in CheckedHows)
      BY <1>1, <1>3, <2>2 DEF MergeHow, TypeOK
    <3>2. CASE how[s][i] = "clean"
      BY <1>1, <1>4, <2>2, <3>1, <3>2 DEF SQLiteInv, SeenCurrent, TypeOK
    <3>3. CASE how[s][i] \in CheckedHows
      BY <1>1, <1>4, <2>2, <3>3 DEF SQLiteInv, BaseCurrent, TypeOK
    <3> QED BY <3>1, <3>2, <3>3
  <2> QED BY <2>1, <2>2
<1>13. SeenCurrent'
  BY <1>5, <1>6, <1>7, <1>8 DEF SQLiteInv, SeenCurrent
<1> QED
  BY <1>9, <1>10, <1>11, <1>12, <1>13 DEF SQLiteInv

LEMMA SQLiteStep ==
    ASSUME TypeOK, SQLiteInv, SQLite, [Next]_vars
    PROVE  SQLiteInv'
<1> USE DEF store, pending
<1>1. CASE UNCHANGED vars
  <2>1. \A t \in Sessions : HowOf(t)' = HowOf(t)
    BY <1>1 DEF vars, HowOf
  <2> QED
    BY <1>1, <2>1 DEF vars, SQLiteInv, TxHoldsLock, DirtyInTx, CheckedInTx,
                      BaseCurrent, SeenCurrent
<1>2. ASSUME NEW s \in Sessions, Calling(s) PROVE SQLiteInv'
  <2>1. CASE RunInTransaction(s)
    BY <2>1, GoToStep DEF RunInTransaction
  <2>2. ASSUME NEW i \in Ids, FindByID(s, i) PROVE SQLiteInv'
    <3>1. \A t \in Sessions : HowOf(t)' = HowOf(t)
      BY <2>2 DEF FindByID, HowOf
    <3> QED
      BY <2>2, <3>1 DEF FindByID, SQLiteInv, TxHoldsLock, DirtyInTx, CheckedInTx,
                        BaseCurrent, SeenCurrent
  <2>3. ASSUME NEW i \in Ids, Insert(s, i) PROVE SQLiteInv'
    BY <2>3, StartStep DEF Insert
  <2>4. ASSUME NEW i \in Ids, HardDelete(s, i) PROVE SQLiteInv'
    BY <2>4, StartStep DEF HardDelete
  <2>5. ASSUME NEW i \in Ids, Replace(s, i) PROVE SQLiteInv'
    BY <2>5, StartStep DEF Replace, RunOnScope
  <2>6. ASSUME NEW i \in Ids, LockByID(s, i) PROVE SQLiteInv'
    <3>1. \A t \in Sessions : HowOf(t)' = HowOf(t)
      BY <2>6 DEF LockByID, HowOf
    <3> QED
      BY <2>6, <3>1 DEF LockByID, GrantLock, SQLiteInv, TxHoldsLock, DirtyInTx,
                        CheckedInTx, BaseCurrent, SeenCurrent
  <2>7. ASSUME NEW i \in Ids, NEW mode \in Modes, LockByIDBlocked(s, i, mode) PROVE SQLiteInv'
    BY <2>7 DEF LockByIDBlocked, LockedByOther
  <2>8. ASSUME NEW i \in Ids, NEW force \in BOOLEAN, Save(s, i, force) \/ Restore(s, i, force) PROVE SQLiteInv'
    BY <2>8, StartStep DEF Save, Restore, AutoWrap
  <2>9. ASSUME NEW i \in Ids, NEW force \in BOOLEAN, SoftDelete(s, i, force) PROVE SQLiteInv'
    BY <2>9, StartStep DEF SoftDelete, AutoWrap
  <2> QED
    BY <1>2, <2>1, <2>2, <2>3, <2>4, <2>5, <2>6, <2>7, <2>8, <2>9 DEF Calling
<1>3. ASSUME NEW s \in Sessions, Running(s) PROVE SQLiteInv'
  <2>1. CASE BeginFails(s)
    BY <2>1, GoToStep DEF BeginFails
  <2>2. CASE CheckFails(s)
    BY <2>2, GoToStep DEF CheckFails, AfterError
  <2>3. CASE WriteFails(s)
    BY <2>3, GoToStep DEF WriteFails, AfterError
  <2>4. CASE LockGranted(s)
    BY <2>4, GoToStep DEF LockGranted, GrantLock
  <2>5. CASE DeadlockVictim(s)
    BY <2>5, GoToStep DEF DeadlockVictim
  <2>6. CASE Commit(s) \/ Rollback(s) \/ Crash(s)
    BY <2>6, ForgetStep DEF Commit, Rollback, Crash
  <2> QED
    BY <1>3, <2>1, <2>2, <2>3, <2>4, <2>5, <2>6,
       BeginStep, CheckStep, AutocommitStep, WriteInTxStep
       DEF Running, Opening, Checking, Writing, Ending
<1> QED
  BY <1>1, <1>2, <1>3 DEF Next

(* On SQLite a revision-checked write is only committed over the revision it
   was checked against, for any number of sessions and documents.          *)
THEOREM SQLiteNoLostUpdate ==
    ASSUME SQLite
    PROVE  Spec => NoLostUpdate
<1>1. Init => TypeOK /\ SQLiteInv
  BY TypeInit, InvInit
<1>2. TypeOK /\ SQLiteInv /\ [Next]_vars => (TypeOK /\ SQLiteInv)'
  BY TypeStep, SQLiteStep
<1>3. TypeOK /\ SQLiteInv =>
        \A s \in Sessions, i \in Ids : \A k \in CheckedHows :
            Publishes(s, i, k) => row[i].rev = BaseRev(s, i)
  BY DEF SQLiteInv, BaseCurrent, CheckedInTx, Publishes, BaseRev
<1> QED
  BY <1>1, <1>2, <1>3, PTL DEF Spec, NoLostUpdate

-----------------------------------------------------------------------------
(* Deletes on SQLite.  What a checked write or a Replace will put in the row's
   place keeps the row's mark: from the check to the statement (PutKeeps), and
   from the statement to the commit (BufKeeps).                             *)
Checks       == {"checked", "replace"}
ReplaceInTx  == \A s \in Sessions :
                    pc[s] \in {"check", "put"} /\ HowOf(s) = "replace" => txn[s] # "none"
PutKeeps     == \A s \in Sessions : pc[s] = "put" /\ HowOf(s) \in Checks =>
                    /\ Exists(s, call[s].id)
                    /\ View(s, call[s].id).del => mem[s][call[s].id].del
BufKeeps     == \A s \in Sessions, i \in Ids : how[s][i] \in Checks =>
                    /\ row[i].rev # 0
                    /\ row[i].del => buf[s][i].del

(* An id is written by a single insert, before anything else.               *)
FreshClean   == \A s \in Sessions, i \in Ids : i \in fresh => how[s][i] = "clean"
CallOld      == \A s \in Sessions :
                    /\ pc[s] \in {"check", "put"} => call[s].id \notin fresh
                    /\ pc[s] = "begin" /\ call[s].op # "tx" => call[s].id \notin fresh
                    /\ pc[s] = "idle" => call[s].op = "tx"
InsertFirst  == \A s \in Sessions : call[s].op = "insert" =>
                    /\ pc[s] \notin {"begin", "check"}
                    /\ pc[s] = "put" => how[s][call[s].id] = "clean"

FreshInv     == FreshClean /\ CallOld /\ InsertFirst
KeepInv      == ReplaceInTx /\ PutKeeps /\ BufKeeps

(* A step of s that writes nothing leaves how, and starts no call on an id
   that is still fresh.                                                     *)
LEMMA FreshQuiet ==
    ASSUME TypeOK, FreshInv, NEW s \in Sessions, how' = how, fresh' \subseteq fresh,
           \A t \in Sessions \ {s} : pc'[t] = pc[t] /\ call'[t] = call[t],
           /\ pc'[s] \in {"check", "put"} => call'[s].id \notin fresh'
           /\ pc'[s] = "begin" /\ call'[s].op # "tx" => call'[s].id \notin fresh'
           /\ pc'[s] = "idle" => call'[s].op = "tx"
           /\ call'[s].op = "insert" => /\ pc'[s] \notin {"begin", "check"}
                                        /\ pc'[s] = "put" => how[s][call'[s].id] = "clean"
    PROVE  FreshInv'
<1>1. FreshClean'
  BY DEF FreshInv, FreshClean
<1>2. CallOld'
  BY DEF FreshInv, CallOld
<1>3. InsertFirst'
  BY DEF FreshInv, InsertFirst
<1>. QED  BY <1>1, <1>2, <1>3 DEF FreshInv

LEMMA FreshGoTo ==
    ASSUME TypeOK, FreshInv, NEW s \in Sessions, NEW at, GoTo(s, at),
           how' = how, fresh' = fresh,
           at \notin {"begin", "check", "put"}
    PROVE  FreshInv'
<1>2. at = "idle" => call'[s].op = "tx"
  BY DEF GoTo, TypeOK, NoCall
<1>1. pc'[s] = at /\ \A t \in Sessions \ {s} : pc'[t] = pc[t] /\ call'[t] = call[t]
  BY DEF GoTo, TypeOK
<1>. QED  BY <1>1, <1>2, FreshQuiet

LEMMA FreshStart ==
    ASSUME TypeOK, FreshInv, NEW s \in Sessions, NEW op, NEW i \in Ids, NEW force, NEW at,
           Start(s, op, i, force, at), how' = how, fresh' \subseteq fresh,
           i \notin fresh', at # "idle", op = "insert" => at = "put" /\ i \in fresh
    PROVE  FreshInv'
<1>1. pc'[s] = at /\ \A t \in Sessions \ {s} : pc'[t] = pc[t] /\ call'[t] = call[t]
  BY DEF Start, TypeOK
<1>2. call'[s] = [op |-> op, id |-> i, force |-> force, was |-> mem[s][i], seen |-> 0]
  BY DEF Start, TypeOK
<1>3. call'[s].op = op /\ call'[s].id = i
  BY <1>2
<1>4. op = "insert" => how[s][i] = "clean"
  BY DEF FreshInv, FreshClean
<1>. QED  BY <1>1, <1>3, <1>4, FreshQuiet

LEMMA FreshStep ==
    ASSUME TypeOK, FreshInv, [Next]_vars
    PROVE  FreshInv'
<1> USE DEF store, pending
<1>1. CASE UNCHANGED vars
  BY <1>1 DEF vars, FreshInv, FreshClean, CallOld, InsertFirst
<1>2. ASSUME NEW s \in Sessions, Calling(s) PROVE FreshInv'
  <2>1. CASE RunInTransaction(s)
    <3>1. \A t \in Sessions \ {s} : pc'[t] = pc[t] /\ call'[t] = call[t]
      BY <2>1 DEF RunInTransaction, GoTo, TypeOK
    <3>2. pc'[s] = "begin" /\ call'[s].op = "tx"
      BY <2>1 DEF RunInTransaction, GoTo, TypeOK, FreshInv, CallOld
    <3>. QED  BY <2>1, <3>1, <3>2, FreshQuiet DEF RunInTransaction
  <2>2. ASSUME NEW i \in Ids, FindByID(s, i) \/ LockByID(s, i) PROVE FreshInv'
    <3>1. UNCHANGED <<fresh, pc, call, how>>
      BY <2>2 DEF FindByID, LockByID, GrantLock
    <3>. QED  BY <3>1 DEF FreshInv, FreshClean, CallOld, InsertFirst
  <2>3. ASSUME NEW i \in Ids, Insert(s, i) PROVE FreshInv'
    BY <2>3, FreshStart DEF Insert
  <2>4. ASSUME NEW i \in Ids, HardDelete(s, i) \/ Replace(s, i) PROVE FreshInv'
    BY <2>4, FreshStart DEF HardDelete, Replace, RunOnScope
  <2>5. ASSUME NEW i \in Ids, NEW mode \in Modes, LockByIDBlocked(s, i, mode) PROVE FreshInv'
    <3>1. \A t \in Sessions \ {s} : pc'[t] = pc[t] /\ call'[t] = call[t]
      BY <2>5 DEF LockByIDBlocked, Start, TypeOK
    <3>2. pc'[s] \in {"lock", "fail"}
      BY <2>5 DEF LockByIDBlocked, Start, TypeOK
    <3>. QED  BY <2>5, <3>1, <3>2, FreshQuiet DEF LockByIDBlocked
  <2>6. ASSUME NEW i \in Ids, NEW force \in BOOLEAN, Save(s, i, force) \/ Restore(s, i, force) \/ SoftDelete(s, i, force)
        PROVE  FreshInv'
    BY <2>6, FreshStart DEF Save, Restore, SoftDelete, AutoWrap
  <2>. QED  BY <1>2, <2>1, <2>2, <2>3, <2>4, <2>5, <2>6 DEF Calling
<1>3. ASSUME NEW s \in Sessions, Running(s) PROVE FreshInv'
  <2>1. CASE Begin(s)
    <3>1. \A t \in Sessions \ {s} : pc'[t] = pc[t] /\ call'[t] = call[t]
      BY <2>1 DEF Begin, GoTo, TypeOK
    <3>2. \/ pc'[s] = "idle" /\ call'[s].op = "tx"
          \/ pc'[s] = "check" /\ call'[s].id \notin fresh /\ call'[s].op # "insert"
      <4>1. CASE call[s].op = "tx"
        BY <2>1, <4>1 DEF Begin, GoTo, TypeOK, NoCall
      <4>2. CASE call[s].op # "tx"
        <5>1. pc'[s] = "check" /\ call' = call
          BY <2>1, <4>2 DEF Begin, GoTo, TypeOK
        <5>. QED  BY <2>1, <4>2, <5>1 DEF Begin, FreshInv, CallOld, InsertFirst
      <4>. QED  BY <4>1, <4>2
    <3>. QED  BY <2>1, <3>1, <3>2, FreshQuiet DEF Begin
  <2>2. CASE BeginFails(s) \/ CheckFails(s) \/ WriteFails(s) \/ DeadlockVictim(s)
    BY <2>2, FreshGoTo DEF BeginFails, CheckFails, WriteFails, DeadlockVictim, AfterError
  <2>3. CASE Check(s)
    <3>1. \A t \in Sessions \ {s} : pc'[t] = pc[t] /\ call'[t] = call[t]
      BY <2>3 DEF Check, TypeOK
    <3>2. call'[s].id = call[s].id /\ call'[s].op = call[s].op
      BY <2>3, CallIdType DEF Check, TypeOK, Calls
    <3>3. call[s].op # "insert"
      BY <2>3 DEF Check, FreshInv, InsertFirst
    <3>. QED  BY <2>3, <3>1, <3>2, <3>3, FreshQuiet DEF Check, FreshInv, CallOld
  <2>4. CASE WriteAutocommit(s)
    BY <2>4, FreshGoTo DEF WriteAutocommit
  <2>5. CASE WriteInTx(s)
    <3>1. \A t \in Sessions \ {s} : pc'[t] = pc[t] /\ call'[t] = call[t] /\ how'[t] = how[t]
      BY <2>5 DEF WriteInTx, GoTo, TypeOK
    <3>2. /\ pc'[s] = "commit" \/ (pc'[s] = "idle" /\ call'[s].op = "tx")
          /\ fresh' = fresh
      <4>1. CASE txn[s] = "auto"
        <5>1. GoTo(s, "commit") /\ fresh' = fresh
          BY <2>5, <4>1 DEF WriteInTx
        <5>2. pc'[s] = "commit"
          BY <5>1 DEF GoTo, TypeOK
        <5>. QED  BY <5>1, <5>2
      <4>2. CASE txn[s] # "auto"
        BY <2>5, <4>2 DEF WriteInTx, GoTo, TypeOK, NoCall
      <4>. QED  BY <4>1, <4>2
    <3>3. \A i \in Ids : i # call[s].id => how'[s][i] = how[s][i]
      BY <2>5, CallIdType DEF WriteInTx, TypeOK
    <3>4. call[s].id \notin fresh
      BY <2>5 DEF WriteInTx, FreshInv, CallOld
    <3>5. FreshClean'
      BY <3>1, <3>2, <3>3, <3>4 DEF FreshInv, FreshClean
    <3>6. CallOld'
      BY <3>1, <3>2 DEF FreshInv, CallOld
    <3>7. InsertFirst'
      BY <3>1, <3>2 DEF FreshInv, InsertFirst
    <3>. QED  BY <3>5, <3>6, <3>7 DEF FreshInv
  <2>6. CASE LockGranted(s)
    BY <2>6, FreshGoTo DEF LockGranted, GrantLock
  <2>7. CASE Commit(s) \/ Rollback(s) \/ Crash(s)
    <3>1. \A t \in Sessions \ {s} : pc'[t] = pc[t] /\ call'[t] = call[t] /\ how'[t] = how[t]
      BY <2>7, EndSets DEF Forget, GoTo, TypeOK
    <3>2. /\ pc'[s] = "idle" /\ call'[s].op = "tx" /\ fresh' = fresh
          /\ \A i \in Ids : how'[s][i] = "clean"
      BY <2>7, EndSets DEF Forget, GoTo, TypeOK, NoCall
    <3>. QED  BY <3>1, <3>2 DEF FreshInv, FreshClean, CallOld, InsertFirst
  <2>. QED  BY <1>3, <2>1, <2>2, <2>3, <2>4, <2>5, <2>6, <2>7
               DEF Running, Opening, Checking, Writing, Ending
<1>. QED  BY <1>1, <1>2, <1>3 DEF Next

(* What a statement of t sees is what it saw, when neither the row nor t's own
   writes change.                                                           *)
LEMMA ViewFrame ==
    ASSUME NEW t \in Sessions, row' = row, how'[t] = how[t], buf'[t] = buf[t]
    PROVE  \A i \in Ids : View(t, i)' = View(t, i) /\ (Exists(t, i)' <=> Exists(t, i))
BY DEF View, Exists

(* A step of s that neither writes nor ends a transaction.                  *)
LEMMA KeepQuiet ==
    ASSUME TypeOK, KeepInv, NEW s \in Sessions, UNCHANGED <<row, how, buf>>,
           \A t \in Sessions \ {s} : /\ pc'[t] = pc[t] /\ call'[t] = call[t]
                                     /\ mem'[t] = mem[t] /\ txn'[t] = txn[t],
           pc'[s] = "check" /\ HowOf(s)' = "replace" => txn'[s] # "none",
           pc'[s] = "put" => HowOf(s)' \notin Checks
    PROVE  KeepInv'
<1>1. \A t \in Sessions \ {s} : HowOf(t)' = HowOf(t)
  BY DEF HowOf
<1>2. ReplaceInTx'
  BY <1>1 DEF KeepInv, ReplaceInTx, Checks
<1>3. PutKeeps'
  BY <1>1, ViewFrame, CallIdType DEF KeepInv, PutKeeps
<1>4. BufKeeps'
  BY DEF KeepInv, BufKeeps
<1>. QED  BY <1>2, <1>3, <1>4 DEF KeepInv

LEMMA KeepGoTo ==
    ASSUME TypeOK, KeepInv, NEW s \in Sessions, NEW at, GoTo(s, at),
           at \notin {"check", "put"}, UNCHANGED <<row, how, buf, txn>>,
           \A t \in Sessions \ {s} : mem'[t] = mem[t]
    PROVE  KeepInv'
<1>1. pc'[s] = at /\ \A t \in Sessions \ {s} : pc'[t] = pc[t] /\ call'[t] = call[t]
  BY DEF GoTo, TypeOK
<1>. QED  BY <1>1, KeepQuiet

LEMMA KeepStart ==
    ASSUME TypeOK, KeepInv, NEW s \in Sessions, NEW op, NEW i, NEW force, NEW at,
           Start(s, op, i, force, at),
           at = "check" /\ op = "replace" => txn[s] # "none",
           at = "put" => op \in {"insert", "hard"},
           UNCHANGED <<row, how, buf, txn>>,
           \A t \in Sessions \ {s} : mem'[t] = mem[t]
    PROVE  KeepInv'
<1>1. pc'[s] = at /\ \A t \in Sessions \ {s} : pc'[t] = pc[t] /\ call'[t] = call[t]
  BY DEF Start, TypeOK
<1>2. call'[s] = [op |-> op, id |-> i, force |-> force, was |-> mem[s][i], seen |-> 0]
  BY DEF Start, TypeOK
<1>3. at = "check" /\ HowOf(s)' = "replace" => txn[s] # "none"
  BY <1>2 DEF HowOf
<1>4. at = "put" => HowOf(s)' \notin Checks
  BY <1>2 DEF HowOf, Checks
<1>. QED  BY <1>1, <1>3, <1>4, KeepQuiet

(* The check of a Save or soft delete compares revisions, so the struct in
   hand is the stored document; Replace takes the mark of the row it read.  *)
LEMMA KeepCheck ==
    ASSUME TypeOK, RevInv, SQLiteInv, KeepInv, NEW s \in Sessions, Check(s)
    PROVE  KeepInv'
<1> USE DEF store, pending
<1> DEFINE i == call[s].id
<1>1. /\ pc[s] = "check" /\ pc'[s] = "put" /\ i \in Ids /\ CheckPasses(s)
      /\ UNCHANGED <<row, txn, how, buf>>
      /\ mem'[s][i] = Stamped(s)
  BY CallIdType DEF Check, TypeOK
<1>2. \A t \in Sessions \ {s} : pc'[t] = pc[t] /\ call'[t] = call[t] /\ mem'[t] = mem[t]
  BY DEF Check, TypeOK
<1>3. /\ call'[s].op = call[s].op /\ call'[s].id = i /\ call'[s].force = call[s].force
  <2>1. call'[s] = [call[s] EXCEPT !.seen = View(s, call[s].id).rev]
    BY DEF Check, TypeOK
  <2>. QED  BY <2>1, CallIdType DEF Calls
<1>4. \A t \in Sessions : HowOf(t)' = HowOf(t)
  BY <1>2, <1>3 DEF HowOf
<1>5. ReplaceInTx' /\ BufKeeps'
  BY <1>1, <1>2, <1>4 DEF KeepInv, ReplaceInTx, BufKeeps
<1>6. ASSUME HowOf(s) \in Checks
      PROVE  Exists(s, i) /\ (View(s, i).del => Stamped(s).del)
  <2>1. Stamped(s).del = StampedDel(s)
    BY DEF Stamped
  <2>2. CASE call[s].op = "replace"
    BY <1>1, <2>1, <2>2 DEF CheckPasses, StampedDel
  <2>3. CASE call[s].op # "replace"
    <3>1. call[s].op \notin {"insert", "hard", "restore"} /\ ~call[s].force
      BY <1>6, <2>3 DEF HowOf, Checks
    <3>2. Exists(s, i) /\ View(s, i).rev = mem[s][i].rev
      BY <1>1, <2>3, <3>1 DEF CheckPasses, RevMatches
    <3>3. View(s, i) = mem[s][i]
      BY <1>1, <3>2, ViewInCopies, InCopies DEF RevInv, RevIsIdentity
    <3>4. CASE call[s].op = "soft"
      BY <2>1, <3>2, <3>4 DEF StampedDel
    <3>5. CASE call[s].op # "soft"
      <4>1. StampedDel(s) = mem[s][i].del
        BY <2>3, <3>1, <3>5 DEF StampedDel
      <4>. QED  BY <2>1, <3>2, <3>3, <4>1
    <3>. QED  BY <3>4, <3>5
  <2>. QED  BY <2>2, <2>3
<1>7. PutKeeps'
  <2> SUFFICES ASSUME NEW t \in Sessions, pc'[t] = "put", HowOf(t)' \in Checks
               PROVE  /\ Exists(t, call[t].id)
                      /\ View(t, call[t].id).del => mem'[t][call[t].id].del
    BY <1>1, <1>2, <1>3, ViewFrame, CallIdType DEF PutKeeps
  <2>1. CASE t = s
    BY <1>1, <1>4, <1>6, <2>1
  <2>2. CASE t # s
    BY <1>2, <1>4, <2>2 DEF KeepInv, PutKeeps
  <2>. QED  BY <2>1, <2>2
<1>. QED  BY <1>5, <1>7 DEF KeepInv

(* Outside a transaction nothing else is under way, and nothing checked is
   written.                                                                 *)
LEMMA KeepAutocommit ==
    ASSUME TypeOK, SQLiteInv, SQLite, KeepInv, NEW s \in Sessions, WriteAutocommit(s)
    PROVE  KeepInv'
<1> USE DEF pending
<1>1. \A t \in Sessions : txn[t] = "none"
  BY DEF SQLiteInv, TxHoldsLock, WriteAutocommit, CanWrite, MayWrite, NothingToDelete
<1>2. \A t \in Sessions \ {s} : pc'[t] = pc[t] /\ call'[t] = call[t]
  BY DEF WriteAutocommit, GoTo, TypeOK
<1>3. pc'[s] = "idle" /\ UNCHANGED <<txn, how, mem, buf>>
  BY DEF WriteAutocommit, GoTo, TypeOK
<1>4. \A t \in Sessions \ {s} : HowOf(t)' = HowOf(t)
  BY <1>2 DEF HowOf
<1>5. ReplaceInTx'
  BY <1>2, <1>3, <1>4 DEF KeepInv, ReplaceInTx
<1>6. PutKeeps'
  BY <1>1, <1>2, <1>3, <1>4 DEF KeepInv, PutKeeps, ReplaceInTx, SQLiteInv, CheckedInTx, Checks
<1>7. BufKeeps'
  BY <1>1, <1>3 DEF BufKeeps, SQLiteInv, DirtyInTx, Checks
<1>. QED  BY <1>5, <1>6, <1>7 DEF KeepInv

(* The statement hands what was checked over to the transaction.            *)
LEMMA KeepWrite ==
    ASSUME TypeOK, FreshInv, SQLite, KeepInv, NEW s \in Sessions, WriteInTx(s)
    PROVE  KeepInv'
<1> DEFINE i == call[s].id
<1>1. i \in Ids /\ pc[s] = "put" /\ row' = row /\ txn' = txn /\ mem' = mem
  BY CallIdType DEF WriteInTx
<1>2. /\ how' = [how EXCEPT ![s][i] = MergeHow(how[s][i], HowOf(s))]
      /\ buf' = [buf EXCEPT ![s][i] = Written(s)]
  BY DEF WriteInTx, NothingToDelete
<1>3. \A t \in Sessions \ {s} : /\ pc'[t] = pc[t] /\ call'[t] = call[t]
                                /\ how'[t] = how[t] /\ buf'[t] = buf[t]
  BY <1>2 DEF WriteInTx, GoTo, TypeOK
<1>4. pc'[s] \in {"idle", "commit"}
  BY DEF WriteInTx, GoTo, TypeOK
<1>5. \A t \in Sessions \ {s} : HowOf(t)' = HowOf(t)
  BY <1>3 DEF HowOf
<1>6. ReplaceInTx'
  BY <1>1, <1>3, <1>4, <1>5 DEF KeepInv, ReplaceInTx
<1>7. PutKeeps'
  BY <1>1, <1>3, <1>4, <1>5, ViewFrame, CallIdType DEF KeepInv, PutKeeps
<1>8. BufKeeps'
  <2> SUFFICES ASSUME NEW j \in Ids, how'[s][j] \in Checks
               PROVE  row[j].rev # 0 /\ (row[j].del => buf'[s][j].del)
    BY <1>1, <1>3 DEF KeepInv, BufKeeps
  <2>1. CASE j # i
    BY <1>2, <2>1 DEF KeepInv, BufKeeps, TypeOK
  <2>2. CASE j = i
    <3>1. MergeHow(how[s][i], HowOf(s)) \in Checks /\ buf'[s][i] = Written(s)
      BY <1>1, <1>2, <2>2 DEF TypeOK
    <3>2. HowOf(s) \in Checks /\ how[s][i] \in {"clean"} \cup Checks
      <4>1. HowOf(s) \in {"insert", "hard", "replace", "restore", "forced", "checked"}
        BY DEF HowOf
      <4>2. how[s][i] \in Hows
        BY <1>1 DEF TypeOK
      <4>3. HowOf(s) = "insert" => how[s][i] = "clean"
        BY <1>1 DEF HowOf, FreshInv, InsertFirst
      <4>. QED  BY <3>1, <4>1, <4>2, <4>3 DEF MergeHow, Checks, Hows
    <3>3. Exists(s, i) /\ (View(s, i).del => mem[s][i].del)
      BY <1>1, <3>2 DEF KeepInv, PutKeeps
    <3>4. Written(s) = mem[s][i]
      BY <3>2 DEF Written, HowOf, Checks
    <3>5. CASE how[s][i] = "clean"
      BY <2>2, <3>1, <3>3, <3>4, <3>5 DEF View, Exists
    <3>6. CASE how[s][i] \in Checks
      <4>1. View(s, i) = buf[s][i] /\ row[i].rev # 0 /\ (row[i].del => buf[s][i].del)
        BY <1>1, <3>6 DEF View, Checks, KeepInv, BufKeeps
      <4>. QED  BY <2>2, <3>1, <3>3, <3>4, <4>1
    <3>. QED  BY <3>2, <3>5, <3>6
  <2>. QED  BY <2>1, <2>2
<1>. QED  BY <1>6, <1>7, <1>8 DEF KeepInv

(* The end of a transaction is the end of the only one.                     *)
LEMMA KeepForget ==
    ASSUME TypeOK, SQLiteInv, KeepInv, NEW s \in Sessions, Forget(s),
           row' = row \/ row' = Published(s),
           \A t \in Sessions \ {s} : mem'[t] = mem[t]
    PROVE  KeepInv'
<1>1. /\ pc'[s] = "idle" /\ txn'[s] = "none"
      /\ \A i \in Ids : how'[s][i] = "clean"
  BY DEF Forget, GoTo, TypeOK
<1>2. \A t \in Sessions \ {s} :
        /\ pc'[t] = pc[t] /\ call'[t] = call[t] /\ txn'[t] = txn[t]
        /\ how'[t] = how[t] /\ buf'[t] = buf[t]
  BY DEF Forget, GoTo, TypeOK
<1>3. \A t \in Sessions \ {s} : HowOf(t)' = HowOf(t)
  BY <1>2 DEF HowOf
<1>4. \A t \in Sessions \ {s} : txn[t] # "none" => row' = row
  <2> SUFFICES ASSUME NEW t \in Sessions \ {s}, txn[t] # "none", row' = Published(s)
               PROVE  row' = row
    OBVIOUS
  <2>1. \A i \in Ids : how[s][i] = "clean"
    BY OneTx DEF SQLiteInv, DirtyInTx
  <2>. QED  BY <2>1 DEF Published, View, TypeOK
<1>5. ReplaceInTx'
  BY <1>1, <1>2, <1>3 DEF KeepInv, ReplaceInTx
<1>6. PutKeeps'
  <2> SUFFICES ASSUME NEW t \in Sessions \ {s}, pc[t] = "put", HowOf(t) \in Checks
               PROVE  /\ Exists(t, call[t].id)'
                      /\ View(t, call[t].id)'.del => mem[t][call[t].id].del
    BY <1>1, <1>2, <1>3 DEF PutKeeps
  <2>1. txn[t] # "none"
    BY DEF KeepInv, ReplaceInTx, SQLiteInv, CheckedInTx, Checks
  <2>2. row' = row
    BY <1>4, <2>1
  <2>. QED  BY <1>2, <2>2, ViewFrame, CallIdType DEF KeepInv, PutKeeps
<1>7. BufKeeps'
  BY <1>1, <1>2, <1>4 DEF KeepInv, BufKeeps, SQLiteInv, DirtyInTx, Checks
<1>. QED  BY <1>5, <1>6, <1>7 DEF KeepInv

LEMMA KeepStep ==
    ASSUME TypeOK, RevInv, SQLiteInv, SQLite, FreshInv, KeepInv, [Next]_vars
    PROVE  KeepInv'
<1> USE DEF store, pending
<1>1. ASSUME UNCHANGED <<row, txn, how, buf, pc, call>>, NEW s \in Sessions,
             pc[s] = "idle", \A t \in Sessions \ {s} : mem'[t] = mem[t]
      PROVE  KeepInv'
  BY <1>1, KeepQuiet
<1>2. CASE UNCHANGED vars
  <2>1. \A t \in Sessions : HowOf(t)' = HowOf(t)
    BY <1>2 DEF vars, HowOf
  <2>. QED  BY <1>2, <2>1, ViewFrame, CallIdType
               DEF vars, KeepInv, ReplaceInTx, PutKeeps, BufKeeps
<1>3. ASSUME NEW s \in Sessions, Calling(s) PROVE KeepInv'
  <2>1. CASE RunInTransaction(s)
    BY <2>1, KeepGoTo DEF RunInTransaction
  <2>2. ASSUME NEW i \in Ids, FindByID(s, i) \/ LockByID(s, i) PROVE KeepInv'
    BY <1>1, <2>2 DEF FindByID, LockByID, GrantLock, TypeOK
  <2>3. ASSUME NEW i \in Ids, Insert(s, i) PROVE KeepInv'
    BY <2>3, KeepStart DEF Insert, TypeOK
  <2>4. ASSUME NEW i \in Ids, HardDelete(s, i) \/ Replace(s, i) PROVE KeepInv'
    BY <2>4, KeepStart DEF HardDelete, Replace, RunOnScope
  <2>5. ASSUME NEW i \in Ids, NEW mode \in Modes, LockByIDBlocked(s, i, mode) PROVE KeepInv'
    BY <2>5 DEF LockByIDBlocked, LockedByOther
  <2>6. ASSUME NEW i \in Ids, NEW force \in BOOLEAN, Save(s, i, force) \/ Restore(s, i, force) \/ SoftDelete(s, i, force)
        PROVE  KeepInv'
    BY <2>6, KeepStart DEF Save, Restore, SoftDelete, AutoWrap
  <2>. QED  BY <1>3, <2>1, <2>2, <2>3, <2>4, <2>5, <2>6 DEF Calling
<1>4. ASSUME NEW s \in Sessions, Running(s) PROVE KeepInv'
  <2>1. CASE Begin(s)
    <3>1. \A t \in Sessions \ {s} : pc'[t] = pc[t] /\ call'[t] = call[t] /\ txn'[t] = txn[t]
      BY <2>1 DEF Begin, GoTo, TypeOK
    <3>2. pc'[s] # "put" /\ txn'[s] # "none"
      BY <2>1 DEF Begin, GoTo, TypeOK
    <3>. QED  BY <2>1, <3>1, <3>2, KeepQuiet DEF Begin
  <2>2. CASE BeginFails(s) \/ WriteFails(s) \/ DeadlockVictim(s)
    BY <2>2, KeepGoTo DEF BeginFails, WriteFails, DeadlockVictim, AfterError
  <2>3. CASE CheckFails(s)
    BY <2>3, KeepGoTo DEF CheckFails, AfterError, TypeOK
  <2>4. CASE LockGranted(s)
    BY <2>4, KeepGoTo DEF LockGranted, GrantLock, TypeOK
  <2>5. CASE Commit(s) \/ Rollback(s) \/ Crash(s)
    BY <2>5, KeepForget DEF Commit, Rollback, Crash, TypeOK
  <2>. QED  BY <1>4, <2>1, <2>2, <2>3, <2>4, <2>5, KeepCheck, KeepAutocommit, KeepWrite
               DEF Running, Opening, Checking, Writing, Ending
<1>. QED  BY <1>2, <1>3, <1>4 DEF Next

(* What is published of a checked write or a Replace was held back until now
   by a transaction, whose buffer keeps the row's mark.                     *)
LEMMA PublishKeeps ==
    ASSUME SQLiteInv, KeepInv, NEW s \in Sessions, NEW i \in Ids, NEW k \in Checks,
           Publishes(s, i, k)
    PROVE  row[i].rev # 0 /\ (row[i].del => row'[i].del)
BY DEF Publishes, SQLiteInv, CheckedInTx, KeepInv, ReplaceInTx, BufKeeps, Checks

DeleteInv == TypeOK /\ RevInv /\ SQLiteInv /\ FreshInv /\ KeepInv

LEMMA DeleteInit == Init => DeleteInv
<1> SUFFICES ASSUME Init PROVE DeleteInv
  OBVIOUS
<1>1. \A s \in Sessions : /\ pc[s] = "idle" /\ call[s].op = "tx"
                          /\ \A i \in Ids : how[s][i] = "clean"
  BY DEF Init, NoCall
<1>2. FreshInv
  BY <1>1 DEF FreshInv, FreshClean, CallOld, InsertFirst
<1>3. KeepInv
  BY <1>1 DEF KeepInv, ReplaceInTx, PutKeeps, BufKeeps, Checks
<1>. QED  BY <1>2, <1>3, TypeInit, RevInit, InvInit DEF DeleteInv

LEMMA DeleteStep ==
    ASSUME SQLite
    PROVE  DeleteInv /\ [Next]_vars => DeleteInv'
BY TypeStep, RevStep, SQLiteStep, FreshStep, KeepStep DEF DeleteInv

(* On SQLite a revision-checked write undoes a committed soft delete only as a
   restore of the very version that is stored, for any number of sessions and
   documents.                                                               *)
THEOREM SQLiteSoftDeleteSticks ==
    ASSUME SQLite
    PROVE  Spec => SoftDeleteSticks
<1>1. ASSUME DeleteInv, NEW s \in Sessions, NEW i \in Ids, NEW k \in CheckedHows,
             Publishes(s, i, k), row[i].del, ~row'[i].del
      PROVE  k = "restore" /\ row[i].rev = BaseRev(s, i)
  <2>1. k # "checked"
    BY <1>1, PublishKeeps DEF DeleteInv, Checks
  <2>2. row[i].rev = BaseRev(s, i)
    BY <1>1 DEF DeleteInv, SQLiteInv, BaseCurrent, CheckedInTx, Publishes, BaseRev
  <2>. QED  BY <1>1, <2>1, <2>2
<1>2. DeleteInv => \A s \in Sessions, i \in Ids : \A k \in CheckedHows :
                        Publishes(s, i, k) /\ row[i].del /\ ~row'[i].del
                            => k = "restore" /\ row[i].rev = BaseRev(s, i)
  BY <1>1
<1>. QED  BY <1>2, DeleteInit, DeleteStep, PTL DEF Spec, SoftDeleteSticks

(* On SQLite Replace brings back neither a soft-deleted nor a hard-deleted
   document, for any number of sessions and documents.                      *)
THEOREM SQLiteReplaceNeverResurrects ==
    ASSUME SQLite
    PROVE  Spec => ReplaceNeverResurrects
<1>1. DeleteInv => \A s \in Sessions, i \in Ids :
                        Publishes(s, i, "replace")
                            => row[i].rev # 0 /\ (row[i].del => row'[i].del)
  BY PublishKeeps DEF DeleteInv, Checks
<1>. QED  BY <1>1, DeleteInit, DeleteStep, PTL DEF Spec, ReplaceNeverResurrects

-----------------------------------------------------------------------------
(* What LockByID protects: a Save that follows it in the same transaction loses
   no update, on PostgreSQL by its row locks and on SQLite as every checked
   write.                                                                   *)

(* The transaction that has read a row FOR UPDATE, or written it, has the
   row's lock; with the lock goes the transaction.                          *)
GuardHolds  == \A s \in Sessions, i \in Ids : i \in guard[s] => lock[i] = s
DirtyHolds  == \A s \in Sessions, i \in Ids : how[s][i] # "clean" => lock[i] = s
HolderInTx  == \A s \in Sessions, i \in Ids : lock[i] = s => txn[s] # "none"
WaiterInTx  == \A s \in Sessions : pc[s] = "lock" => txn[s] # "none"

(* The revision that a write of a guarded row was checked against is still the
   committed one.                                                           *)
GuardedBase == \A s \in Sessions, i \in Ids :
                  i \in guard[s] /\ how[s][i] \in CheckedHows => row[i].rev = base[s][i]
GuardedSeen == \A s \in Sessions :
                  /\ pc[s] = "put" /\ HowOf(s) \in CheckedHows
                  /\ call[s].id \in guard[s] /\ how[s][call[s].id] = "clean"
                  => row[call[s].id].rev = call[s].seen

LockInv == /\ GuardHolds /\ DirtyHolds /\ HolderInTx /\ WaiterInTx
           /\ CheckedInTx /\ GuardedBase /\ GuardedSeen

LEMMA LockInit == Init => LockInv
BY DEF Init, LockInv, GuardHolds, DirtyHolds, HolderInTx, WaiterInTx,
       CheckedInTx, GuardedBase, GuardedSeen

(* A step of s that neither writes nor locks, nor opens or ends a
   transaction.                                                             *)
LEMMA LockQuietStep ==
    ASSUME TypeOK, LockInv, NEW s \in Sessions,
           UNCHANGED <<row, lock, txn, how, base, guard>>,
           \A t \in Sessions \ {s} : pc'[t] = pc[t] /\ call'[t] = call[t],
           pc'[s] = "lock" => txn[s] # "none",
           pc'[s] = "check" /\ HowOf(s)' \in CheckedHows => txn[s] # "none",
           pc'[s] = "put" => HowOf(s)' \notin CheckedHows
    PROVE  LockInv'
<1>1. \A t \in Sessions \ {s} : HowOf(t)' = HowOf(t)
  BY DEF HowOf
<1>2. GuardHolds' /\ DirtyHolds' /\ HolderInTx' /\ GuardedBase'
  BY DEF LockInv, GuardHolds, DirtyHolds, HolderInTx, GuardedBase
<1>3. WaiterInTx' /\ CheckedInTx'
  BY <1>1 DEF LockInv, WaiterInTx, CheckedInTx
<1>4. GuardedSeen'
  BY <1>1 DEF LockInv, GuardedSeen
<1> QED
  BY <1>2, <1>3, <1>4 DEF LockInv

(* s between calls, waiting for its BEGIN, or failed.                       *)
LEMMA LockGoToStep ==
    ASSUME TypeOK, LockInv, NEW s \in Sessions, NEW at, GoTo(s, at),
           at \notin {"check", "put", "lock"},
           UNCHANGED <<row, lock, txn, how, base, guard>>
    PROVE  LockInv'
<1>1. pc'[s] = at /\ \A t \in Sessions \ {s} : pc'[t] = pc[t] /\ call'[t] = call[t]
  BY DEF GoTo, TypeOK
<1> QED
  BY <1>1, LockQuietStep

LEMMA LockStartStep ==
    ASSUME TypeOK, LockInv, NEW s \in Sessions, NEW op, NEW i, NEW force, NEW at,
           Start(s, op, i, force, at),
           at = "check" => op = "replace" \/ force = TRUE \/ txn[s] # "none",
           at = "put" => op \in {"insert", "hard"},
           at = "lock" => txn[s] # "none",
           UNCHANGED <<row, lock, txn, how, base, guard>>
    PROVE  LockInv'
<1>1. pc'[s] = at /\ \A t \in Sessions \ {s} : pc'[t] = pc[t] /\ call'[t] = call[t]
  BY DEF Start, TypeOK
<1>2. call'[s] = [op |-> op, id |-> i, force |-> force, was |-> mem[s][i], seen |-> 0]
  BY DEF Start, TypeOK
<1>3. at = "check" /\ HowOf(s)' \in CheckedHows => txn[s] # "none"
  BY <1>2 DEF HowOf
<1>4. at = "put" => HowOf(s)' \notin CheckedHows
  BY <1>2 DEF HowOf
<1> QED
  BY <1>1, <1>3, <1>4, LockQuietStep

(* A granted lock was free or already the session's own.                    *)
LEMMA LockGrantStep ==
    ASSUME TypeOK, LockInv, ~SQLite, NEW s \in Sessions, NEW i \in Ids,
           GrantLock(s, i), lock[i] \in {Nobody, s}, txn[s] # "none",
           UNCHANGED <<row, txn>>, pc'[s] = "idle",
           \A t \in Sessions \ {s} : pc'[t] = pc[t] /\ call'[t] = call[t]
    PROVE  LockInv'
<1>1. /\ lock' = [lock EXCEPT ![i] = s] /\ how' = how /\ base' = base
      /\ guard' \in {guard, [guard EXCEPT ![s] = @ \cup {i}]}
      /\ i \in guard'[s] => i \in guard[s] \/ how[s][i] = "clean"
  BY DEF GrantLock, TypeOK
<1>2. \A t \in Sessions \ {s} : guard'[t] = guard[t] /\ HowOf(t)' = HowOf(t)
  BY <1>1 DEF HowOf, TypeOK
<1>3. \A j \in Ids \ {i} : lock'[j] = lock[j] /\ (j \in guard'[s] <=> j \in guard[s])
  BY <1>1 DEF TypeOK
<1>4. lock'[i] = s
  BY <1>1 DEF TypeOK
<1>5. GuardHolds'
  BY <1>2, <1>3, <1>4 DEF LockInv, GuardHolds
<1>6. DirtyHolds'
  BY <1>1, <1>3, <1>4 DEF LockInv, DirtyHolds
<1>7. HolderInTx'
  BY <1>3, <1>4 DEF LockInv, HolderInTx
<1>8. WaiterInTx' /\ CheckedInTx'
  BY <1>2 DEF LockInv, WaiterInTx, CheckedInTx
<1>9. GuardedBase'
  BY <1>1, <1>2, <1>3 DEF LockInv, GuardedBase
<1>10. GuardedSeen'
  BY <1>1, <1>2 DEF LockInv, GuardedSeen
<1> QED
  BY <1>5, <1>6, <1>7, <1>8, <1>9, <1>10 DEF LockInv

(* The end of a transaction publishes only rows it has locked, which no other
   transaction guards.                                                      *)
LEMMA LockForgetStep ==
    ASSUME TypeOK, LockInv, NEW s \in Sessions, Forget(s),
           row' = row \/ row' = Published(s)
    PROVE  LockInv'
<1>1. /\ pc'[s] = "idle" /\ txn'[s] = "none" /\ guard'[s] = {}
      /\ \A i \in Ids : how'[s][i] = "clean"
  BY DEF Forget, GoTo, TypeOK
<1>2. \A t \in Sessions \ {s} :
        /\ pc'[t] = pc[t] /\ call'[t] = call[t] /\ txn'[t] = txn[t]
        /\ how'[t] = how[t] /\ base'[t] = base[t] /\ guard'[t] = guard[t]
  BY DEF Forget, GoTo, TypeOK
<1>3. \A t \in Sessions \ {s} : HowOf(t)' = HowOf(t)
  BY <1>2 DEF HowOf
<1>4. \A i \in Ids : lock'[i] = IF lock[i] = s THEN Nobody ELSE lock[i]
  BY DEF Forget, Release
<1>5. \A t \in Sessions \ {s}, i \in Ids : i \in guard[t] => row'[i] = row[i]
  <2> SUFFICES ASSUME NEW t \in Sessions \ {s}, NEW i \in Ids, i \in guard[t],
                      row' = Published(s)
               PROVE  row'[i] = row[i]
    OBVIOUS
  <2>1. how[s][i] = "clean"
    BY DEF LockInv, GuardHolds, DirtyHolds
  <2> QED
    BY <2>1 DEF Published, View
<1>6. GuardHolds' /\ DirtyHolds' /\ HolderInTx'
  BY <1>1, <1>2, <1>4 DEF LockInv, GuardHolds, DirtyHolds, HolderInTx
<1>7. WaiterInTx' /\ CheckedInTx'
  BY <1>1, <1>2, <1>3 DEF LockInv, WaiterInTx, CheckedInTx
<1>8. GuardedBase'
  BY <1>1, <1>2, <1>5 DEF LockInv, GuardedBase
<1>9. GuardedSeen'
  BY <1>1, <1>2, <1>3, <1>5, CallIdType DEF LockInv, GuardedSeen
<1> QED
  BY <1>6, <1>7, <1>8, <1>9 DEF LockInv

(* A transaction of PostgreSQL begins with no locks.                        *)
LEMMA LockBeginStep ==
    ASSUME TypeOK, LockInv, ~SQLite, NEW s \in Sessions, Begin(s)
    PROVE  LockInv'
<1> USE DEF pending
<1>1. lock' = lock /\ row' = row /\ how' = how /\ base' = base /\ guard' = guard
  BY DEF Begin, BeginLocks
<1>2. \A t \in Sessions \ {s} : pc'[t] = pc[t] /\ call'[t] = call[t] /\ txn'[t] = txn[t]
  <2>1. CASE call[s].op = "tx"
    BY <2>1 DEF Begin, GoTo, TypeOK
  <2>2. CASE call[s].op # "tx"
    BY <2>2 DEF Begin, GoTo, TypeOK
  <2> QED BY <2>1, <2>2
<1>3. txn'[s] # "none" /\ pc'[s] \in {"idle", "check"}
  <2>1. CASE call[s].op = "tx"
    BY <2>1 DEF Begin, GoTo, TypeOK
  <2>2. CASE call[s].op # "tx"
    BY <2>2 DEF Begin, GoTo, TypeOK
  <2> QED BY <2>1, <2>2
<1>4. \A t \in Sessions \ {s} : HowOf(t)' = HowOf(t)
  BY <1>2 DEF HowOf
<1>5. GuardHolds' /\ DirtyHolds' /\ HolderInTx' /\ GuardedBase'
  BY <1>1, <1>2, <1>3 DEF LockInv, GuardHolds, DirtyHolds, HolderInTx, GuardedBase
<1>6. WaiterInTx' /\ CheckedInTx'
  BY <1>2, <1>3, <1>4 DEF LockInv, WaiterInTx, CheckedInTx
<1>7. GuardedSeen'
  BY <1>1, <1>2, <1>3, <1>4 DEF LockInv, GuardedSeen
<1> QED
  BY <1>5, <1>6, <1>7 DEF LockInv

(* The check records the revision of the row it compared.                   *)
LEMMA LockCheckStep ==
    ASSUME TypeOK, LockInv, NEW s \in Sessions, Check(s)
    PROVE  LockInv'
<1> USE DEF store, pending
<1>1. UNCHANGED <<row, lock, txn, how, base, guard>>
  BY DEF Check
<1>2. \A t \in Sessions \ {s} : pc'[t] = pc[t] /\ call'[t] = call[t]
  BY DEF Check, TypeOK
<1>3. pc[s] = "check" /\ pc'[s] = "put"
  BY DEF Check, TypeOK
<1>4. call'[s] = [call[s] EXCEPT !.seen = View(s, call[s].id).rev]
  BY DEF Check, TypeOK
<1>5. /\ call'[s].op = call[s].op /\ call'[s].id = call[s].id
      /\ call'[s].force = call[s].force
      /\ call'[s].seen = View(s, call[s].id).rev
  BY <1>4, CallIdType DEF Calls
<1>6. \A t \in Sessions : HowOf(t)' = HowOf(t)
  BY <1>2, <1>5 DEF HowOf
<1>7. GuardHolds' /\ DirtyHolds' /\ HolderInTx' /\ GuardedBase'
  BY <1>1 DEF LockInv, GuardHolds, DirtyHolds, HolderInTx, GuardedBase
<1>8. WaiterInTx' /\ CheckedInTx'
  BY <1>1, <1>2, <1>3, <1>6 DEF LockInv, WaiterInTx, CheckedInTx
<1>9. GuardedSeen'
  BY <1>1, <1>2, <1>5, <1>6 DEF LockInv, GuardedSeen, View
<1> QED
  BY <1>7, <1>8, <1>9 DEF LockInv

(* An autocommit write waits for the row's lock, and so leaves guarded rows
   alone; a DELETE that does not wait finds nothing and changes nothing.    *)
LEMMA LockAutocommitStep ==
    ASSUME TypeOK, LockInv, ~SQLite, NEW s \in Sessions, WriteAutocommit(s)
    PROVE  LockInv'
<1> USE DEF pending
<1> DEFINE i == call[s].id
<1>1. i \in Ids /\ txn[s] = "none" /\ row' = [row EXCEPT ![i] = Written(s)]
  BY CallIdType DEF WriteAutocommit
<1>2. UNCHANGED <<lock, txn, how, base, guard>> /\ pc'[s] = "idle"
  BY DEF WriteAutocommit, GoTo, TypeOK
<1>3. \A t \in Sessions \ {s} : pc'[t] = pc[t] /\ call'[t] = call[t]
  BY DEF WriteAutocommit, GoTo, TypeOK
<1>4. \A t \in Sessions \ {s} : HowOf(t)' = HowOf(t)
  BY <1>3 DEF HowOf
<1>5. \A t \in Sessions, j \in Ids : j \in guard[t] => row'[j].rev = row[j].rev
  <2>1. CASE NothingToDelete(s)
    <3>1. how[s][i] = "clean"
      BY <1>1 DEF LockInv, DirtyHolds, HolderInTx
    <3>2. row[i].rev = 0 /\ Written(s) = NoRow
      BY <2>1, <3>1 DEF NothingToDelete, Exists, View, Written
    <3> QED
      BY <1>1, <3>2 DEF NoRow, TypeOK
  <2>2. CASE ~NothingToDelete(s)
    <3>1. lock[i] \in {Nobody, s}
      BY <2>2 DEF WriteAutocommit, CanWrite, MayWrite
    <3>2. lock[i] = Nobody
      BY <1>1, <3>1 DEF LockInv, HolderInTx
    <3>3. \A t \in Sessions : i \notin guard[t]
      BY <1>1, <3>2 DEF LockInv, GuardHolds
    <3> QED
      BY <1>1, <3>3 DEF TypeOK
  <2> QED BY <2>1, <2>2
<1> HIDE DEF i
<1>6. GuardHolds' /\ DirtyHolds' /\ HolderInTx'
  BY <1>2 DEF LockInv, GuardHolds, DirtyHolds, HolderInTx
<1>7. WaiterInTx' /\ CheckedInTx'
  BY <1>2, <1>3, <1>4 DEF LockInv, WaiterInTx, CheckedInTx
<1>8. GuardedBase'
  BY <1>2, <1>5 DEF LockInv, GuardedBase
<1>9. GuardedSeen'
  BY <1>2, <1>3, <1>4, <1>5, CallIdType DEF LockInv, GuardedSeen
<1> QED
  BY <1>6, <1>7, <1>8, <1>9 DEF LockInv

(* A write in a transaction waits for the row's lock and then has it; it hands
   the revision seen over to base.                                          *)
LEMMA LockWriteInTxStep ==
    ASSUME TypeOK, LockInv, NEW s \in Sessions, WriteInTx(s), ~NothingToDelete(s)
    PROVE  LockInv'
<1> DEFINE i == call[s].id
<1>1. i \in Ids /\ pc[s] = "put" /\ txn[s] # "none"
  BY CallIdType DEF WriteInTx
<1>2. lock[i] \in {Nobody, s}
  BY <1>1 DEF WriteInTx, CanWrite, MayWrite
<1>3. lock' = [lock EXCEPT ![i] = s] /\ row' = row /\ txn' = txn /\ guard' = guard
  BY DEF WriteInTx
<1>4. how' = [how EXCEPT ![s][i] = MergeHow(how[s][i], HowOf(s))]
  BY DEF WriteInTx
<1>5. base' = [base EXCEPT ![s][i] = IF how[s][i] = "clean" THEN call[s].seen ELSE @]
  BY DEF WriteInTx
<1>6. \A t \in Sessions \ {s} : pc'[t] = pc[t] /\ call'[t] = call[t]
  BY DEF WriteInTx, GoTo, TypeOK
<1>7. pc'[s] \in {"idle", "commit"}
  BY DEF WriteInTx, GoTo, TypeOK
<1>8. \A t \in Sessions \ {s} : HowOf(t)' = HowOf(t) /\ how'[t] = how[t] /\ base'[t] = base[t]
  BY <1>4, <1>5, <1>6 DEF HowOf, TypeOK
<1>9. \A j \in Ids : lock'[j] = IF j = i THEN s ELSE lock[j]
  BY <1>1, <1>3 DEF TypeOK
<1>10. \A j \in Ids \ {i} : how'[s][j] = how[s][j] /\ base'[s][j] = base[s][j]
  BY <1>4, <1>5 DEF TypeOK
<1>11. GuardHolds' /\ HolderInTx'
  BY <1>1, <1>2, <1>3, <1>9 DEF LockInv, GuardHolds, HolderInTx
<1>12. DirtyHolds'
  BY <1>2, <1>8, <1>9, <1>10 DEF LockInv, DirtyHolds
<1>13. WaiterInTx' /\ CheckedInTx'
  BY <1>3, <1>6, <1>7, <1>8 DEF LockInv, WaiterInTx, CheckedInTx
<1>14. GuardedBase'
  <2> SUFFICES ASSUME NEW j \in Ids, j \in guard[s], how'[s][j] \in CheckedHows
               PROVE  row[j].rev = base'[s][j]
    BY <1>3, <1>8 DEF LockInv, GuardedBase
  <2>1. CASE j # i
    BY <1>10, <2>1 DEF LockInv, GuardedBase
  <2>2. CASE j = i
    <3>1. how[s][i] \in CheckedHows \/ (how[s][i] = "clean" /\ HowOf(s) \in CheckedHows)
      BY <1>1, <1>4, <2>2 DEF MergeHow, TypeOK
    <3>2. CASE how[s][i] = "clean"
      BY <1>1, <1>5, <2>2, <3>1, <3>2 DEF LockInv, GuardedSeen, TypeOK
    <3>3. CASE how[s][i] \in CheckedHows
      BY <1>1, <1>5, <2>2, <3>3 DEF LockInv, GuardedBase, TypeOK
    <3> QED BY <3>1, <3>2, <3>3
  <2> QED BY <2>1, <2>2
<1>15. GuardedSeen'
  BY <1>3, <1>6, <1>7, <1>8 DEF LockInv, GuardedSeen
<1> QED
  BY <1>11, <1>12, <1>13, <1>14, <1>15 DEF LockInv

LEMMA LockStep ==
    ASSUME TypeOK, LockInv, ~SQLite, [Next]_vars
    PROVE  LockInv'
<1> USE DEF store, pending
<1>1. CASE UNCHANGED vars
  <2>1. \A t \in Sessions : HowOf(t)' = HowOf(t)
    BY <1>1 DEF vars, HowOf
  <2> QED
    BY <1>1, <2>1 DEF vars, LockInv, GuardHolds, DirtyHolds, HolderInTx, WaiterInTx,
                      CheckedInTx, GuardedBase, GuardedSeen
<1>2. ASSUME NEW s \in Sessions, Calling(s) PROVE LockInv'
  <2>1. CASE RunInTransaction(s)
    BY <2>1, LockGoToStep DEF RunInTransaction
  <2>2. ASSUME NEW i \in Ids, FindByID(s, i) PROVE LockInv'
    BY <2>2, LockQuietStep DEF FindByID
  <2>3. ASSUME NEW i \in Ids, Insert(s, i) PROVE LockInv'
    BY <2>3, LockStartStep DEF Insert
  <2>4. ASSUME NEW i \in Ids, HardDelete(s, i) PROVE LockInv'
    BY <2>4, LockStartStep DEF HardDelete
  <2>5. ASSUME NEW i \in Ids, Replace(s, i) PROVE LockInv'
    BY <2>5, LockStartStep DEF Replace, RunOnScope
  <2>6. ASSUME NEW i \in Ids, LockByID(s, i) PROVE LockInv'
    BY <2>6, LockGrantStep DEF LockByID, LockedByOther
  <2>7. ASSUME NEW i \in Ids, NEW mode \in Modes, LockByIDBlocked(s, i, mode) PROVE LockInv'
    BY <2>7, LockStartStep DEF LockByIDBlocked
  <2>8. ASSUME NEW i \in Ids, NEW force \in BOOLEAN, Save(s, i, force) \/ Restore(s, i, force) PROVE LockInv'
    BY <2>8, LockStartStep DEF Save, Restore, AutoWrap
  <2>9. ASSUME NEW i \in Ids, NEW force \in BOOLEAN, SoftDelete(s, i, force) PROVE LockInv'
    BY <2>9, LockStartStep DEF SoftDelete, AutoWrap
  <2> QED
    BY <1>2, <2>1, <2>2, <2>3, <2>4, <2>5, <2>6, <2>7, <2>8, <2>9 DEF Calling
<1>3. ASSUME NEW s \in Sessions, Running(s) PROVE LockInv'
  <2>1. CASE BeginFails(s)
    BY <2>1, LockGoToStep DEF BeginFails
  <2>2. CASE CheckFails(s)
    BY <2>2, LockGoToStep DEF CheckFails, AfterError
  <2>3. CASE WriteFails(s)
    BY <2>3, LockGoToStep DEF WriteFails, AfterError
  <2>4. CASE LockGranted(s)
    <3>1. CASE Exists(s, call[s].id)
      <4>1. pc'[s] = "idle" /\ \A t \in Sessions \ {s} : pc'[t] = pc[t] /\ call'[t] = call[t]
        BY <2>4 DEF LockGranted, GoTo, TypeOK
      <4>2. txn[s] # "none"
        BY <2>4 DEF LockGranted, LockInv, WaiterInTx
      <4> QED
        BY <2>4, <3>1, <4>1, <4>2, CallIdType, LockGrantStep DEF LockGranted
    <3>2. CASE ~Exists(s, call[s].id)
      BY <2>4, <3>2, LockGoToStep DEF LockGranted
    <3> QED BY <3>1, <3>2
  <2>5. CASE DeadlockVictim(s)
    BY <2>5, LockGoToStep DEF DeadlockVictim
  <2>6. CASE Commit(s) \/ Rollback(s) \/ Crash(s)
    BY <2>6, LockForgetStep DEF Commit, Rollback, Crash
  <2>7. CASE WriteInTx(s) /\ NothingToDelete(s)
    BY <2>7, LockGoToStep DEF WriteInTx
  <2> QED
    BY <1>3, <2>1, <2>2, <2>3, <2>4, <2>5, <2>6, <2>7,
       LockBeginStep, LockCheckStep, LockAutocommitStep, LockWriteInTxStep
       DEF Running, Opening, Checking, Writing, Ending
<1> QED
  BY <1>1, <1>2, <1>3 DEF Next

(* LockByID followed by a revision-checked Save in the same transaction loses
   no update, on either backend and for any number of sessions and documents:
   what the Save commits over is the revision it was checked against.       *)
THEOREM LockedUpdatesAreSafe == Spec => LockedUpdateSafe
<1>1. CASE SQLite
  <2>1. Init => TypeOK /\ SQLiteInv
    BY TypeInit, InvInit
  <2>2. TypeOK /\ SQLiteInv /\ [Next]_vars => (TypeOK /\ SQLiteInv)'
    BY <1>1, TypeStep, SQLiteStep
  <2>3. TypeOK /\ SQLiteInv =>
          \A s \in Sessions, i \in Ids : \A k \in CheckedHows :
              Publishes(s, i, k) /\ i \in guard[s] => row[i].rev = BaseRev(s, i)
    BY DEF SQLiteInv, BaseCurrent, CheckedInTx, Publishes, BaseRev
  <2> QED
    BY <2>1, <2>2, <2>3, PTL DEF Spec, LockedUpdateSafe
<1>2. CASE ~SQLite
  <2>1. Init => TypeOK /\ LockInv
    BY TypeInit, LockInit
  <2>2. TypeOK /\ LockInv /\ [Next]_vars => (TypeOK /\ LockInv)'
    BY <1>2, TypeStep, LockStep
  <2>3. TypeOK /\ LockInv =>
          \A s \in Sessions, i \in Ids : \A k \in CheckedHows :
              Publishes(s, i, k) /\ i \in guard[s] => row[i].rev = BaseRev(s, i)
    BY DEF LockInv, GuardedBase, CheckedInTx, Publishes, BaseRev
  <2> QED
    BY <2>1, <2>2, <2>3, PTL DEF Spec, LockedUpdateSafe
<1> QED
  BY <1>1, <1>2

-----------------------------------------------------------------------------
(* Calls and transactions on SQLite as their callers see them.  Shape says
   where a call can stand.                                                  *)
Writes == {"insert", "save", "restore", "soft", "replace", "hard"}

Shape(s) ==
    /\ pc[s] # "lock" /\ call[s].op # "lock"
    /\ pc[s] \in {"check", "put", "commit"} => call[s].op \in Writes
    /\ pc[s] = "begin" => txn[s] = "none"
    /\ pc[s] \in {"commit", "fail"} => txn[s] = "auto"
    /\ txn[s] = "auto" => pc[s] \in {"check", "put", "commit", "fail"}
    /\ call[s].op \in {"insert", "hard"} => pc[s] = "put" /\ txn[s] # "auto"

(* Den's own transaction holds the write of its one call and no other.      *)
AutoOne(s) ==
    /\ txn[s] = "auto" => \A i \in Ids :
            pc[s] # "commit" \/ i # call[s].id => how[s][i] = "clean"
    /\ pc[s] = "commit" => /\ how[s][call[s].id] # "clean"
                           /\ buf[s][call[s].id] = mem[s][call[s].id]

(* The struct is the caller's own until the check, and across a hard delete. *)
Passed(s) ==
    InCall(s) /\ (pc[s] \in {"begin", "check"} \/ call[s].op = "hard")
        => call[s].was = mem[s][call[s].id]

Local == \A s \in Sessions : Shape(s) /\ AutoOne(s) /\ Passed(s)

(* What a write is about to put something in the place of: its transaction's
   view of the row or, once it waits for its own COMMIT, the committed row. *)
Replaced(s) == IF pc[s] = "commit" THEN row[call[s].id] ELSE View(s, call[s].id)

(* From the check to its effect, what a call will write is what it may.     *)
Ready == \A s \in Sessions : pc[s] \in {"put", "commit"} =>
    Serial!Allowed(call[s], Replaced(s), call[s].was, Written(s))

(* The revision a call has drawn is in nobody's hand before its effect.     *)
Drawn(s) == pc[s] \in {"put", "commit"} /\ call[s].op # "hard"

Unseen(s, i, r) ==
    /\ r # 0 /\ r # row[i].rev
    /\ \A t \in Sessions : /\ t # s => mem[t][i].rev # r
                           /\ t # s \/ pc[s] = "put" => buf[t][i].rev # r
                           /\ call[t].id = i => call[t].was.rev # r

Private == /\ \A s \in Sessions : Drawn(s) => Unseen(s, call[s].id, mem[s][call[s].id].rev)
           /\ \A s \in Sessions : call[s].was.rev < nextRev

(* Revisions stay within the budget.                                        *)
Budget == IsFiniteSet(Drawing) /\ nextRev + Cardinality(Drawing) <= MaxRev + 1

(* An error is what the last call returned: not yet that of a call in progress,
   and that of a call whose rollback is still to come.                      *)
Said == \A s \in Sessions : (InCall(s) => ~err[s]) /\ (pc[s] = "fail" => err[s])

SerialInv == Local /\ Ready /\ Private /\ Budget /\ Said

(* A step of one session leaves what the others hold and where they are.    *)
LEMMA OthersStay ==
    ASSUME TypeOK, NEW s \in Sessions, Calling(s) \/ Running(s),
           NEW t \in Sessions \ {s}
    PROVE  /\ pc'[t] = pc[t] /\ call'[t] = call[t] /\ txn'[t] = txn[t]
           /\ mem'[t] = mem[t] /\ buf'[t] = buf[t] /\ how'[t] = how[t]
           /\ err'[t] = err[t]
<1> USE DEF store, pending, TypeOK, GoTo, Start, Returns, AfterHooks
<1>1. CASE Calling(s)
  <2>1. CASE RunInTransaction(s)
    BY <2>1 DEF RunInTransaction
  <2>2. ASSUME NEW i \in Ids, FindByID(s, i) \/ LockByID(s, i)
        PROVE  /\ pc'[t] = pc[t] /\ call'[t] = call[t] /\ txn'[t] = txn[t]
               /\ mem'[t] = mem[t] /\ buf'[t] = buf[t] /\ how'[t] = how[t]
               /\ err'[t] = err[t]
    BY <2>2 DEF FindByID, LockByID, GrantLock
  <2>3. ASSUME NEW i \in Ids, Insert(s, i) \/ HardDelete(s, i) \/ Replace(s, i)
        PROVE  /\ pc'[t] = pc[t] /\ call'[t] = call[t] /\ txn'[t] = txn[t]
               /\ mem'[t] = mem[t] /\ buf'[t] = buf[t] /\ how'[t] = how[t]
               /\ err'[t] = err[t]
    BY <2>3 DEF Insert, HardDelete, Replace
  <2>4. ASSUME NEW i \in Ids, NEW mode \in Modes, LockByIDBlocked(s, i, mode)
        PROVE  /\ pc'[t] = pc[t] /\ call'[t] = call[t] /\ txn'[t] = txn[t]
               /\ mem'[t] = mem[t] /\ buf'[t] = buf[t] /\ how'[t] = how[t]
               /\ err'[t] = err[t]
    BY <2>4 DEF LockByIDBlocked
  <2>5. ASSUME NEW i \in Ids, NEW force \in BOOLEAN, Save(s, i, force) \/ Restore(s, i, force) \/ SoftDelete(s, i, force)
        PROVE  /\ pc'[t] = pc[t] /\ call'[t] = call[t] /\ txn'[t] = txn[t]
               /\ mem'[t] = mem[t] /\ buf'[t] = buf[t] /\ how'[t] = how[t]
               /\ err'[t] = err[t]
    BY <2>5 DEF Save, Restore, SoftDelete
  <2>. QED  BY <1>1, <2>1, <2>2, <2>3, <2>4, <2>5 DEF Calling
<1>2. CASE Running(s)
  <2>1. CASE Opening(s)
    BY <2>1 DEF Opening, Begin, BeginFails
  <2>2. CASE Checking(s)
    BY <2>2 DEF Checking, Check, CheckFails
  <2>3. CASE Writing(s)
    BY <2>3 DEF Writing, WriteAutocommit, WriteInTx, WriteFails
  <2>4. CASE LockGranted(s) \/ DeadlockVictim(s)
    BY <2>4 DEF LockGranted, GrantLock, DeadlockVictim
  <2>5. CASE Ending(s) \/ Crash(s)
    BY <2>5 DEF Ending, Commit, Rollback, Crash, Forget
  <2>. QED  BY <1>2, <2>1, <2>2, <2>3, <2>4, <2>5 DEF Running
<1>. QED  BY <1>1, <1>2

(* Where Start and GoTo put a session.                                      *)
LEMMA StartSets ==
    ASSUME TypeOK, NEW s \in Sessions, NEW op, NEW i, NEW force, NEW at,
           Start(s, op, i, force, at)
    PROVE  /\ pc'[s] = at
           /\ call'[s].op = op /\ call'[s].id = i /\ call'[s].force = force
           /\ call'[s].was = mem[s][i]
<1>1. call'[s] = [op |-> op, id |-> i, force |-> force, was |-> mem[s][i], seen |-> 0]
  BY DEF Start, TypeOK
<1>. QED  BY <1>1 DEF Start, TypeOK

LEMMA GoToSets ==
    ASSUME TypeOK, NEW s \in Sessions, NEW at, GoTo(s, at)
    PROVE  /\ pc'[s] = at
           /\ at = "idle" => call'[s].op = "tx" /\ call'[s].was = NoRow
           /\ at # "idle" => call'[s] = call[s]
<1>1. at = "idle" => call'[s] = NoCall
  BY DEF GoTo, TypeOK
<1>. QED  BY <1>1 DEF GoTo, TypeOK, NoCall

LEMMA CheckSets ==
    ASSUME TypeOK, NEW s \in Sessions, Check(s)
    PROVE  /\ pc[s] = "check" /\ pc'[s] = "put" /\ CheckPasses(s)
           /\ call'[s].op = call[s].op /\ call'[s].id = call[s].id
           /\ call'[s].force = call[s].force /\ call'[s].was = call[s].was
           /\ mem'[s][call[s].id] = Stamped(s)
           /\ \A i \in Ids \ {call[s].id} : mem'[s][i] = mem[s][i]
           /\ UNCHANGED <<row, lock, fresh, txn, buf, how>>
           /\ nextRev' = nextRev + 1
<1> USE DEF store, pending
<1>1. call'[s] = [call[s] EXCEPT !.seen = View(s, call[s].id).rev]
  BY DEF Check, TypeOK
<1>2. /\ call'[s].op = call[s].op /\ call'[s].id = call[s].id
      /\ call'[s].force = call[s].force /\ call'[s].was = call[s].was
  BY <1>1, CallIdType DEF Calls
<1>3. call[s].id \in Ids
  BY CallIdType
<1>. QED  BY <1>2, <1>3 DEF Check, TypeOK

(* A session whose call has returned, or that has no transaction of Den's
   own, has nothing to keep.                                                *)
LEMMA LocalStart ==
    ASSUME TypeOK, Local, NEW s \in Sessions, NEW op, NEW i, NEW force, NEW at,
           Start(s, op, i, force, at), pc[s] = "idle",
           op \in Writes, at \in {"begin", "check", "put"},
           at = "begin" => txn[s] = "none",
           op \in {"insert", "hard"} => at = "put",
           mem'[s] = mem[s] \/ op = "insert",
           txn'[s] = txn[s]
    PROVE  (Shape(s) /\ AutoOne(s) /\ Passed(s))'
<1>1. /\ pc'[s] = at /\ call'[s].op = op /\ call'[s].id = i /\ call'[s].was = mem[s][i]
  BY StartSets
<1>2. Shape(s)
  BY DEF Local
<1>3. Shape(s)' /\ AutoOne(s)'
  BY <1>1, <1>2 DEF Shape, AutoOne, Writes
<1>4. Passed(s)'
  BY <1>1 DEF Passed
<1>. QED  BY <1>3, <1>4

LEMMA LocalGoTo ==
    ASSUME TypeOK, Local, NEW s \in Sessions, NEW at, GoTo(s, at),
           at \in {"idle", "fail"}, at = "fail" <=> txn'[s] = "auto",
           at = "fail" => /\ txn[s] = "auto" /\ pc[s] \in {"check", "put"}
                          /\ how'[s] = how[s]
    PROVE  (Shape(s) /\ AutoOne(s) /\ Passed(s))'
<1>1. /\ pc'[s] = at
      /\ at = "idle" => call'[s].op = "tx" /\ call'[s].was = NoRow
      /\ at # "idle" => call'[s] = call[s]
  BY GoToSets
<1>2. Shape(s) /\ AutoOne(s)
  BY DEF Local
<1>3. Shape(s)'
  BY <1>1, <1>2 DEF Shape
<1>4. AutoOne(s)'
  BY <1>1, <1>2 DEF AutoOne
<1>5. Passed(s)'
  BY <1>1 DEF Passed, InCall
<1>. QED  BY <1>3, <1>4, <1>5

LEMMA LocalStep ==
    ASSUME TypeOK, Local, SQLiteInv, FreshInv, SQLite, [Next]_vars
    PROVE  Local'
<1> USE DEF store, pending
<1>1. CASE UNCHANGED vars
  BY <1>1 DEF vars, Local, Shape, AutoOne, Passed, InCall
<1>2. ASSUME NEW s \in Sessions, Calling(s) \/ Running(s),
             (Shape(s) /\ AutoOne(s) /\ Passed(s))'
      PROVE  Local'
  <2>1. ASSUME NEW t \in Sessions \ {s} PROVE (Shape(t) /\ AutoOne(t) /\ Passed(t))'
    <3>1. Shape(t) /\ AutoOne(t) /\ Passed(t)
      BY DEF Local
    <3>2. /\ pc'[t] = pc[t] /\ call'[t] = call[t] /\ txn'[t] = txn[t]
          /\ mem'[t] = mem[t] /\ buf'[t] = buf[t] /\ how'[t] = how[t]
      BY <1>2, OthersStay
    <3>. QED  BY <3>1, <3>2 DEF Shape, AutoOne, Passed, InCall
  <2>. QED  BY <1>2, <2>1 DEF Local
<1>3. ASSUME NEW s \in Sessions, Calling(s) PROVE (Shape(s) /\ AutoOne(s) /\ Passed(s))'
  <2>1. CASE RunInTransaction(s)
    <3>1. pc'[s] = "begin" /\ txn'[s] = "none" /\ call'[s].op = "tx"
      BY <2>1, GoToSets DEF RunInTransaction, FreshInv, CallOld
    <3>. QED  BY <3>1 DEF Shape, AutoOne, Passed, InCall, Writes
  <2>2. ASSUME NEW i \in Ids, FindByID(s, i) \/ LockByID(s, i)
        PROVE  (Shape(s) /\ AutoOne(s) /\ Passed(s))'
    <3>1. pc[s] = "idle" /\ UNCHANGED <<pc, call, txn>>
      BY <2>2 DEF FindByID, LockByID
    <3>. QED  BY <3>1 DEF Local, Shape, AutoOne, Passed, InCall
  <2>3. ASSUME NEW i \in Ids, Insert(s, i) PROVE (Shape(s) /\ AutoOne(s) /\ Passed(s))'
    BY <2>3, LocalStart DEF Insert, Writes
  <2>4. ASSUME NEW i \in Ids, HardDelete(s, i) PROVE (Shape(s) /\ AutoOne(s) /\ Passed(s))'
    BY <2>4, LocalStart DEF HardDelete, Writes
  <2>5. ASSUME NEW i \in Ids, Replace(s, i) PROVE (Shape(s) /\ AutoOne(s) /\ Passed(s))'
    BY <2>5, LocalStart DEF Replace, RunOnScope, Writes
  <2>6. ASSUME NEW i \in Ids, NEW mode \in Modes, LockByIDBlocked(s, i, mode) PROVE FALSE
    BY <2>6 DEF LockByIDBlocked, LockedByOther
  <2>7. ASSUME NEW i \in Ids, NEW force \in BOOLEAN, Save(s, i, force) \/ Restore(s, i, force)
        PROVE  (Shape(s) /\ AutoOne(s) /\ Passed(s))'
    BY <2>7, LocalStart DEF Save, Restore, AutoWrap, Writes
  <2>8. ASSUME NEW i \in Ids, NEW force \in BOOLEAN, SoftDelete(s, i, force)
        PROVE  (Shape(s) /\ AutoOne(s) /\ Passed(s))'
    BY <2>8, LocalStart DEF SoftDelete, AutoWrap, Writes
  <2>. QED  BY <1>3, <2>1, <2>2, <2>3, <2>4, <2>5, <2>6, <2>7, <2>8 DEF Calling
<1>4. ASSUME NEW s \in Sessions, Running(s) PROVE (Shape(s) /\ AutoOne(s) /\ Passed(s))'
  <2>0. Shape(s) /\ AutoOne(s) /\ Passed(s) /\ call[s].id \in Ids
    BY CallIdType DEF Local
  <2>1. CASE Begin(s)
    <3>1. CASE call[s].op = "tx"
      <4>1. txn'[s] = "app" /\ GoTo(s, "idle")
        BY <2>1, <3>1 DEF Begin, TypeOK
      <4>. QED  BY <4>1, LocalGoTo
    <3>2. CASE call[s].op # "tx"
      <4>1. GoTo(s, "check") /\ txn'[s] = "auto" /\ UNCHANGED <<how, mem>>
        BY <2>1, <3>2 DEF Begin, TypeOK
      <4>2. pc'[s] = "check" /\ call'[s] = call[s]
        BY <4>1, GoToSets
      <4>3. txn[s] = "none" /\ pc[s] = "begin"
        BY <2>0, <2>1 DEF Begin, Shape
      <4>4. \A i \in Ids : how[s][i] = "clean"
        BY <4>3 DEF SQLiteInv, DirtyInTx
      <4>5. call[s].op \in Writes \ {"insert", "hard"}
        BY <2>0, <3>2, <4>3, CallIdType DEF Shape, Ops, Writes, FreshInv, CallOld, InsertFirst
      <4>6. Shape(s)'
        BY <4>1, <4>2, <4>5 DEF Shape, Writes
      <4>7. AutoOne(s)' /\ Passed(s)'
        BY <2>0, <3>2, <4>1, <4>2, <4>3, <4>4 DEF AutoOne, Passed, InCall
      <4>. QED  BY <4>6, <4>7
    <3>. QED  BY <3>1, <3>2
  <2>2. CASE BeginFails(s)
    BY <2>0, <2>2, LocalGoTo DEF BeginFails, Shape
  <2>3. CASE CheckFails(s)
    BY <2>3, LocalGoTo DEF CheckFails, AfterError
  <2>4. CASE WriteFails(s)
    BY <2>4, LocalGoTo DEF WriteFails, AfterError
  <2>5. CASE Check(s)
    <3>1. /\ pc[s] = "check" /\ pc'[s] = "put" /\ txn'[s] = txn[s] /\ how'[s] = how[s]
          /\ call'[s].op = call[s].op /\ call'[s].id = call[s].id
          /\ call'[s].was = call[s].was
      BY <2>5, CheckSets
    <3>2. call[s].op \notin {"insert", "hard"}
      BY <2>0, <3>1 DEF Shape
    <3>. QED  BY <2>0, <3>1, <3>2 DEF Shape, AutoOne, Passed
  <2>6. CASE WriteAutocommit(s)
    BY <2>6, LocalGoTo DEF WriteAutocommit
  <2>7. CASE WriteInTx(s)
    <3>1. CASE txn[s] = "app"
      BY <2>7, <3>1, LocalGoTo DEF WriteInTx
    <3>2. CASE txn[s] # "app"
      <4>1. txn[s] = "auto" /\ pc[s] = "put" /\ txn' = txn /\ mem' = mem
        BY <2>7, <3>2 DEF WriteInTx, TypeOK
      <4>2. GoTo(s, "commit")
        BY <2>7, <4>1 DEF WriteInTx
      <4>3. pc'[s] = "commit" /\ call'[s] = call[s]
        BY <4>2, GoToSets
      <4>4. call[s].op \notin {"insert", "hard"} /\ Written(s) = mem[s][call[s].id]
        BY <2>0, <4>1 DEF Shape, Written
      <4>5. /\ how' = [how EXCEPT ![s][call[s].id] = MergeHow(how[s][call[s].id], HowOf(s))]
            /\ buf' = [buf EXCEPT ![s][call[s].id] = Written(s)]
        BY <2>7 DEF WriteInTx, NothingToDelete
      <4>6. MergeHow(how[s][call[s].id], HowOf(s)) # "clean"
        <5>1. HowOf(s) # "clean"
          BY DEF HowOf
        <5>. QED  BY <5>1 DEF MergeHow
      <4>7. AutoOne(s)'
        BY <2>0, <4>1, <4>3, <4>4, <4>5, <4>6 DEF AutoOne, TypeOK
      <4>8. Shape(s)' /\ Passed(s)'
        BY <2>0, <4>1, <4>3, <4>4 DEF Shape, Passed
      <4>. QED  BY <4>7, <4>8
    <3>. QED  BY <3>1, <3>2
  <2>8. CASE LockGranted(s)
    BY <2>0, <2>8 DEF LockGranted, Shape
  <2>9. CASE DeadlockVictim(s)
    BY <2>9 DEF DeadlockVictim, Deadlocked, WaitsFor, Waiting
  <2>10. CASE Commit(s) \/ Rollback(s) \/ Crash(s)
    <3>1. GoTo(s, "idle") /\ txn'[s] = "none"
      BY <2>10 DEF Commit, Rollback, Crash, Forget, TypeOK
    <3>. QED  BY <3>1, LocalGoTo
  <2>. QED  BY <1>4, <2>1, <2>2, <2>3, <2>4, <2>5, <2>6, <2>7, <2>8, <2>9, <2>10
               DEF Running, Opening, Checking, Writing, Ending
<1>. QED  BY <1>1, <1>2, <1>3, <1>4 DEF Next

(* Nothing but s can change the rows while s is in a transaction.           *)
LEMMA RowsHeld ==
    ASSUME TypeOK, SQLiteInv, SQLite, NEW t \in Sessions, NEW s \in Sessions \ {t},
           txn[t] # "none", Calling(s) \/ Running(s)
    PROVE  row' = row
<1> USE DEF store
<1>1. CASE Calling(s)
  BY <1>1 DEF Calling, RunInTransaction, FindByID, Insert, HardDelete, Replace, LockByID,
              LockByIDBlocked, Save, Restore, SoftDelete
<1>2. CASE WriteAutocommit(s)
  BY <1>2 DEF WriteAutocommit, CanWrite, MayWrite, NothingToDelete, SQLiteInv, TxHoldsLock
<1>3. CASE Commit(s)
  <2>1. \A i \in Ids : how[s][i] = "clean"
    BY OneTx DEF SQLiteInv, DirtyInTx
  <2>. QED  BY <1>3, <2>1 DEF Commit, Published, View, TypeOK
<1>4. CASE Running(s) /\ ~WriteAutocommit(s) /\ ~Commit(s)
  BY <1>4 DEF Running, Opening, Begin, BeginFails, Checking, Check, CheckFails, Writing,
              WriteInTx, WriteFails, LockGranted, DeadlockVictim, Ending, Rollback, Crash
<1>. QED  BY <1>1, <1>2, <1>3, <1>4

(* What a call outside a transaction may write does not depend on the row.  *)
LEMMA LooseWrites ==
    ASSUME TypeOK, SQLiteInv, KeepInv, NEW s \in Sessions, pc[s] = "put", txn[s] = "none",
           call[s].op \in Writes, NEW old, NEW new, NEW v,
           Serial!Allowed(call[s], old, call[s].was, v)
    PROVE  Serial!Allowed(call[s], new, call[s].was, v)
<1>1. call[s].op # "replace"
  BY DEF KeepInv, ReplaceInTx, HowOf
<1>2. call[s].op \in {"save", "restore", "soft"} => call[s].force
  BY DEF SQLiteInv, CheckedInTx, HowOf
<1>3. CASE call[s].op = "insert"
  BY <1>3 DEF Serial!Allowed
<1>4. CASE call[s].op = "save"
  BY <1>2, <1>4 DEF Serial!Allowed
<1>5. CASE call[s].op = "soft"
  BY <1>2, <1>5 DEF Serial!Allowed
<1>6. CASE call[s].op = "hard"
  BY <1>6 DEF Serial!Allowed
<1>7. CASE call[s].op = "restore"
  BY <1>2, <1>7 DEF Serial!Allowed
<1>. QED  BY <1>1, <1>3, <1>4, <1>5, <1>6, <1>7 DEF Writes

(* The check: what the struct is stamped with is what the call may write.   *)
LEMMA CheckReady ==
    ASSUME TypeOK, RevInv, Local, NEW s \in Sessions, Check(s)
    PROVE  Serial!Allowed(call[s], View(s, call[s].id), call[s].was, Stamped(s))
<1> DEFINE i == call[s].id
<1>0. /\ i \in Ids /\ pc[s] = "check" /\ CheckPasses(s) /\ call[s].op \in Writes
      /\ call[s].op \notin {"insert", "hard"} /\ call[s].was = mem[s][i]
  BY CallIdType, CheckSets DEF Local, Shape, Passed, InCall, Writes
<1>1. Stamped(s).del = StampedDel(s)
  BY DEF Stamped
<1>2. Exists(s, i) => View(s, i) # NoRow
  BY DEF Exists, NoRow
<1>3. CASE call[s].op = "replace"
  BY <1>0, <1>1, <1>2, <1>3 DEF CheckPasses, StampedDel, Serial!Allowed
<1>4. CASE call[s].op \in {"save", "restore", "soft"}
  <2>1. call[s].force \/ (View(s, i) # NoRow /\ View(s, i) = call[s].was)
    <3>1. ASSUME ~call[s].force PROVE View(s, i) = mem[s][i]
      <4>1. View(s, i).rev = mem[s][i].rev
        BY <1>0, <1>4, <3>1 DEF CheckPasses, RevMatches
      <4>. QED  BY <1>0, <4>1, ViewInCopies, InCopies DEF RevInv, RevIsIdentity
    <3>. QED  BY <1>0, <1>2, <1>4, <3>1 DEF CheckPasses
  <2>2. CASE call[s].op = "save"
    <3>1. Stamped(s).del = call[s].was.del
      BY <1>0, <1>1, <2>2 DEF StampedDel
    <3>. QED  BY <2>1, <2>2, <3>1 DEF Serial!Allowed
  <2>3. CASE call[s].op = "soft"
    <3>1. Stamped(s).del
      BY <1>1, <2>3 DEF StampedDel
    <3>. QED  BY <2>1, <2>3, <3>1 DEF Serial!Allowed
  <2>4. CASE call[s].op = "restore"
    <3>1. Stamped(s).del = FALSE
      BY <1>1, <2>4 DEF StampedDel
    <3>. QED  BY <2>1, <2>4, <3>1 DEF Serial!Allowed
  <2>. QED  BY <1>4, <2>2, <2>3, <2>4
<1>. QED  BY <1>0, <1>3, <1>4 DEF Writes

LEMMA ReadyStep ==
    ASSUME TypeOK, RevInv, SQLiteInv, KeepInv, FreshInv, SQLite, Local, Ready, [Next]_vars
    PROVE  Ready'
<1> USE DEF store, pending
<1>1. CASE UNCHANGED vars
  BY <1>1 DEF vars, Ready, Replaced, View, Written, Serial!Allowed
<1>2. ASSUME NEW s \in Sessions, Calling(s) \/ Running(s), NEW t \in Sessions \ {s},
             pc'[t] \in {"put", "commit"}
      PROVE  Serial!Allowed(call[t], Replaced(t), call[t].was, Written(t))'
  <2>1. /\ pc'[t] = pc[t] /\ call'[t] = call[t] /\ txn'[t] = txn[t]
        /\ mem'[t] = mem[t] /\ buf'[t] = buf[t] /\ how'[t] = how[t]
    BY <1>2, OthersStay
  <2>2. Serial!Allowed(call[t], Replaced(t), call[t].was, Written(t)) /\ call[t].op \in Writes
    BY <1>2, <2>1 DEF Ready, Local, Shape
  <2>3. Written(t)' = Written(t)
    BY <2>1 DEF Written
  <2>4. CASE txn[t] # "none"
    <3>1. row' = row
      BY <1>2, <2>4, RowsHeld
    <3>2. Replaced(t)' = Replaced(t)
      BY <2>1, <3>1 DEF Replaced, View
    <3>. QED  BY <2>1, <2>2, <2>3, <3>2 DEF Serial!Allowed
  <2>5. CASE txn[t] = "none"
    <3>1. pc[t] = "put"
      BY <1>2, <2>1, <2>5 DEF Local, Shape
    <3>2. Serial!Allowed(call[t], Replaced(t)', call[t].was, Written(t))
      BY <2>2, <2>5, <3>1, LooseWrites
    <3>. QED  BY <2>1, <2>3, <3>2 DEF Serial!Allowed
  <2>. QED  BY <2>4, <2>5
<1>3. ASSUME NEW s \in Sessions, Calling(s), pc'[s] \in {"put", "commit"}
      PROVE  Serial!Allowed(call[s], Replaced(s), call[s].was, Written(s))'
  <2>1. CASE RunInTransaction(s)
    BY <1>3, <2>1, GoToSets DEF RunInTransaction
  <2>2. ASSUME NEW i \in Ids, FindByID(s, i) \/ LockByID(s, i) PROVE FALSE
    BY <1>3, <2>2 DEF FindByID, LockByID
  <2>3. ASSUME NEW i \in Ids, Insert(s, i)
        PROVE  Serial!Allowed(call[s], Replaced(s), call[s].was, Written(s))'
    <3>0. Start(s, "insert", i, FALSE, "put")
      BY <2>3 DEF Insert
    <3>1. call'[s].op = "insert" /\ call'[s].id = i
      BY <3>0, StartSets, ZenonT(60)
    <3>2. mem'[s][i] = [rev |-> nextRev, del |-> FALSE]
      BY <2>3 DEF Insert, TypeOK
    <3>. QED  BY <3>1, <3>2 DEF Written, Serial!Allowed
  <2>4. ASSUME NEW i \in Ids, HardDelete(s, i)
        PROVE  Serial!Allowed(call[s], Replaced(s), call[s].was, Written(s))'
    <3>1. call'[s].op = "hard"
      BY <2>4, StartSets DEF HardDelete
    <3>. QED  BY <3>1 DEF Written, Serial!Allowed
  <2>5. ASSUME NEW i \in Ids, Replace(s, i) PROVE FALSE
    <3>1. Start(s, "replace", i, TRUE, RunOnScope(s))
      BY <2>5 DEF Replace
    <3>2. pc'[s] = RunOnScope(s)
      BY <3>1, StartSets, ZenonT(60)
    <3>. QED  BY <1>3, <3>2 DEF RunOnScope
  <2>6. ASSUME NEW i \in Ids, NEW mode \in Modes, LockByIDBlocked(s, i, mode) PROVE FALSE
    BY <2>6 DEF LockByIDBlocked, LockedByOther
  <2>7. ASSUME NEW i \in Ids, NEW force \in BOOLEAN, Save(s, i, force) \/ Restore(s, i, force) \/ SoftDelete(s, i, force)
        PROVE  FALSE
    BY <1>3, <2>7, StartSets DEF Save, Restore, SoftDelete, AutoWrap
  <2>. QED  BY <1>3, <2>1, <2>2, <2>3, <2>4, <2>5, <2>6, <2>7 DEF Calling
<1>4. ASSUME NEW s \in Sessions, Running(s), pc'[s] \in {"put", "commit"}
      PROVE  Serial!Allowed(call[s], Replaced(s), call[s].was, Written(s))'
  <2>1. CASE Begin(s)
    BY <1>4, <2>1, GoToSets DEF Begin
  <2>2. CASE BeginFails(s) \/ CheckFails(s) \/ WriteFails(s) \/ WriteAutocommit(s)
             \/ LockGranted(s) \/ DeadlockVictim(s)
    <3>1. GoTo(s, "idle") \/ GoTo(s, "fail")
      BY <2>2 DEF BeginFails, CheckFails, WriteFails, WriteAutocommit, LockGranted, DeadlockVictim,
                  AfterError
    <3>2. pc'[s] \in {"idle", "fail"}
      BY <3>1, GoToSets
    <3>. QED  BY <1>4, <3>2
  <2>3. CASE Check(s)
    <3>1. /\ pc[s] = "check" /\ pc'[s] = "put"
          /\ call'[s].op = call[s].op /\ call'[s].id = call[s].id
          /\ call'[s].force = call[s].force /\ call'[s].was = call[s].was
          /\ mem'[s][call[s].id] = Stamped(s) /\ row' = row /\ how' = how /\ buf' = buf
      BY <2>3, CheckSets
    <3>2. Serial!Allowed(call[s], View(s, call[s].id), call[s].was, Stamped(s))
      BY <2>3, CheckReady
    <3>3. Replaced(s)' = View(s, call[s].id)
      BY <3>1 DEF Replaced, View
    <3>4. Written(s)' = Stamped(s)
      BY <3>1 DEF Written, Local, Shape
    <3>. QED  BY <3>1, <3>2, <3>3, <3>4 DEF Serial!Allowed
  <2>4. CASE WriteInTx(s)
    <3>1. txn[s] = "auto" /\ pc[s] = "put" /\ GoTo(s, "commit") /\ row' = row /\ mem' = mem
      BY <1>4, <2>4, GoToSets DEF WriteInTx, TypeOK
    <3>2. pc'[s] = "commit" /\ call'[s] = call[s]
      BY <3>1, GoToSets
    <3>3. View(s, call[s].id) = row[call[s].id]
      BY <3>1, CallIdType DEF Local, AutoOne, View
    <3>4. Replaced(s)' = Replaced(s) /\ Written(s)' = Written(s)
      BY <3>1, <3>2, <3>3 DEF Replaced, Written
    <3>5. Serial!Allowed(call[s], Replaced(s), call[s].was, Written(s))
      BY <3>1 DEF Ready
    <3>. QED  BY <3>2, <3>4, <3>5 DEF Serial!Allowed
  <2>5. CASE Commit(s) \/ Rollback(s) \/ Crash(s)
    <3>1. GoTo(s, "idle")
      BY <2>5, EndSets DEF Forget
    <3>2. pc'[s] = "idle"
      BY <3>1, GoToSets
    <3>. QED  BY <1>4, <3>2
  <2>. QED  BY <1>4, <2>1, <2>2, <2>3, <2>4, <2>5 DEF Running, Opening, Checking, Writing, Ending
<1>5. ASSUME NEW s \in Sessions, Calling(s) \/ Running(s) PROVE Ready'
  BY <1>2, <1>3, <1>4, <1>5 DEF Ready
<1>. QED  BY <1>1, <1>5 DEF Next

(* Where the versions come from that a step of a leaves behind.             *)
Comes(a, i) ==
    /\ row'[i] \in {row[i], mem[a][i], buf[a][i], NoRow}
    /\ \/ mem'[a][i] \in {mem[a][i], row[i], buf[a][i], NoRow}
       \/ mem'[a][i].rev = nextRev /\ nextRev' = nextRev + 1
    /\ buf'[a][i] \in {buf[a][i], mem[a][i], NoRow}

LEMMA StepComes ==
    ASSUME TypeOK, NEW a \in Sessions, Calling(a) \/ Running(a), NEW i \in Ids
    PROVE  Comes(a, i)
<1> USE DEF store, pending, TypeOK
<1>0. View(a, i) \in {row[i], buf[a][i]}
  BY DEF View
<1>1. CASE UNCHANGED <<row, mem, buf>>
  BY <1>1 DEF Comes
<1>2. ASSUME NEW j \in Ids, mem' = [mem EXCEPT ![a][j] = View(a, j)], UNCHANGED <<row, buf>>
      PROVE  Comes(a, i)
  BY <1>0, <1>2 DEF Comes
<1>3. ASSUME NEW j \in Ids, NEW n, n.rev = nextRev, nextRev' = nextRev + 1,
             mem' = [mem EXCEPT ![a][j] = n], UNCHANGED <<row, buf>>
      PROVE  Comes(a, i)
  BY <1>3 DEF Comes
<1>4. call[a].id \in Ids
  BY CallIdType
<1>5. CASE Calling(a)
  <2>1. ASSUME NEW j \in Ids, FindByID(a, j) \/ LockByID(a, j) PROVE Comes(a, i)
    BY <1>2, <2>1 DEF FindByID, LockByID, GrantLock
  <2>2. ASSUME NEW j \in Ids, Insert(a, j) PROVE Comes(a, i)
    <3>1. PICK n : n = [rev |-> nextRev, del |-> FALSE]
      OBVIOUS
    <3>2. n.rev = nextRev
      BY <3>1
    <3>. QED  BY <1>3, <2>2, <3>1, <3>2 DEF Insert
  <2>. QED  BY <1>1, <1>5, <2>1, <2>2 DEF Calling, RunInTransaction, HardDelete, Replace,
               LockByIDBlocked, Save, Restore, SoftDelete
<1>6. CASE Check(a)
  <2>1. Stamped(a).rev = nextRev
    BY DEF Stamped
  <2>. QED  BY <1>3, <1>4, <1>6, <2>1 DEF Check
<1>7. CASE CheckFails(a) \/ LockGranted(a)
  BY <1>1, <1>2, <1>4, <1>7 DEF CheckFails, LockGranted, GrantLock
<1>8. Written(a) \in {mem[a][call[a].id], NoRow}
  BY DEF Written
<1>9. CASE WriteAutocommit(a)
  BY <1>4, <1>8, <1>9 DEF WriteAutocommit, Comes
<1>10. CASE WriteInTx(a)
  <2>1. CASE NothingToDelete(a)
    BY <1>1, <1>10, <2>1 DEF WriteInTx
  <2>2. CASE ~NothingToDelete(a)
    <3>1. buf' = [buf EXCEPT ![a][call[a].id] = Written(a)] /\ UNCHANGED <<row, mem>>
      BY <1>10, <2>2 DEF WriteInTx
    <3>. QED  BY <1>4, <1>8, <3>1 DEF Comes
  <2>. QED  BY <2>1, <2>2
<1>11. CASE Commit(a) \/ Rollback(a) \/ Crash(a)
  <2>1. buf'[a][i] = NoRow
    BY <1>11, EndSets DEF Forget
  <2>2. row'[i] \in {row[i], buf[a][i]}
    <3>1. row' = row \/ row' = Published(a)
      BY <1>11, EndSets
    <3>. QED  BY <1>0, <3>1 DEF Published
  <2>3. mem'[a][i] \in {mem[a][i], NoRow}
    <3>1. mem' = mem \/ mem' = [mem EXCEPT ![a] = [j \in Ids |-> NoRow]]
      BY <1>11, EndSets
    <3>. QED  BY <3>1
  <2>. QED  BY <2>1, <2>2, <2>3 DEF Comes
<1>. QED  BY <1>1, <1>5, <1>6, <1>7, <1>9, <1>10, <1>11
             DEF Running, Opening, Begin, BeginFails, Checking, Writing, WriteFails, DeadlockVictim, Ending

(* A call keeps the struct it was passed.                                   *)
LEMMA WasComes ==
    ASSUME TypeOK, NEW a \in Sessions, Calling(a) \/ Running(a)
    PROVE  \/ call'[a].was = call[a].was /\ call'[a].id = call[a].id
           \/ call'[a].was = NoRow
           \/ call'[a].id \in Ids /\ call'[a].was = mem[a][call'[a].id]
<1> DEFINE Goal == \/ call'[a].was = call[a].was /\ call'[a].id = call[a].id
                   \/ call'[a].was = NoRow
                   \/ call'[a].id \in Ids /\ call'[a].was = mem[a][call'[a].id]
<1> USE DEF store, pending
<1>1. ASSUME NEW at, GoTo(a, at) PROVE Goal
  BY <1>1, GoToSets
<1>2. ASSUME NEW op, NEW i \in Ids, NEW force, NEW at, Start(a, op, i, force, at) PROVE Goal
  <2>1. call'[a].id = i /\ call'[a].was = mem[a][i]
    BY <1>2, StartSets
  <2>. QED  BY <2>1
<1>3. ASSUME call' = call PROVE Goal
  BY <1>3
<1> SUFFICES Goal
  OBVIOUS
<1> HIDE DEF Goal
<1>4. CASE Calling(a)
  <2>1. ASSUME NEW i \in Ids, Insert(a, i) PROVE Goal
    <3>1. Start(a, "insert", i, FALSE, "put")
      BY <2>1 DEF Insert
    <3>. QED  BY <1>2, <3>1, ZenonT(30)
  <2>2. ASSUME NEW i \in Ids, HardDelete(a, i) PROVE Goal
    <3>1. Start(a, "hard", i, TRUE, "put")
      BY <2>2 DEF HardDelete
    <3>. QED  BY <1>2, <3>1, ZenonT(30)
  <2>3. ASSUME NEW i \in Ids, Replace(a, i) PROVE Goal
    <3>1. Start(a, "replace", i, TRUE, RunOnScope(a))
      BY <2>3 DEF Replace
    <3>. QED  BY <1>2, <3>1, ZenonT(30)
  <2>4. ASSUME NEW i \in Ids, NEW mode \in Modes, LockByIDBlocked(a, i, mode) PROVE Goal
    <3>1. Start(a, "lock", i, FALSE, IF mode = "default" THEN "lock" ELSE "fail")
      BY <2>4 DEF LockByIDBlocked
    <3>. QED  BY <1>2, <3>1, ZenonT(30)
  <2>5. ASSUME NEW i \in Ids, NEW force \in BOOLEAN, Save(a, i, force) \/ Restore(a, i, force) \/ SoftDelete(a, i, force)
        PROVE  Goal
    BY <1>2, <2>5 DEF Save, Restore, SoftDelete
  <2>6. ASSUME NEW i \in Ids, FindByID(a, i) \/ LockByID(a, i) PROVE Goal
    BY <1>3, <2>6 DEF FindByID, LockByID
  <2>7. CASE RunInTransaction(a)
    BY <1>1, <2>7 DEF RunInTransaction
  <2>. QED  BY <1>4, <2>1, <2>2, <2>3, <2>4, <2>5, <2>6, <2>7 DEF Calling
<1>5. CASE Check(a)
  <2>1. call'[a].was = call[a].was /\ call'[a].id = call[a].id
    BY <1>5, CheckSets
  <2>. QED  BY <2>1 DEF Goal
<1>6. CASE Running(a) /\ ~Check(a)
  <2>1. \E at : GoTo(a, at)
    BY <1>6 DEF Running, Opening, Begin, BeginFails, Checking, CheckFails, Writing, WriteAutocommit,
                WriteInTx, WriteFails, LockGranted, DeadlockVictim, Ending, Commit, Rollback, Crash,
                Forget
  <2>. QED  BY <1>1, <2>1
<1>. QED  BY <1>4, <1>5, <1>6

(* Who has drawn a revision after its own step has just drawn it, or has just
   put it into the transaction of its call.                                 *)
LEMMA DrawnComes ==
    ASSUME TypeOK, FreshInv, NEW a \in Sessions, Calling(a) \/ Running(a), Drawn(a)'
    PROVE  /\ row' = row
           /\ call'[a].id \in Ids
           /\ \/ /\ mem'[a][call'[a].id].rev = nextRev /\ nextRev' = nextRev + 1
                 /\ buf' = buf
              \/ /\ Drawn(a) /\ pc'[a] = "commit" /\ nextRev' = nextRev
                 /\ mem' = mem /\ call'[a] = call[a]
<1> USE DEF store, pending
<1>1. CASE Calling(a)
  <2>1. ASSUME NEW i \in Ids, Insert(a, i)
        PROVE  /\ row' = row /\ buf' = buf
               /\ call'[a].id \in Ids
               /\ mem'[a][call'[a].id].rev = nextRev /\ nextRev' = nextRev + 1
    <3>1. Start(a, "insert", i, FALSE, "put")
      BY <2>1 DEF Insert
    <3>2. call'[a].id = i
      BY <3>1, StartSets, ZenonT(60)
    <3>3. mem'[a][i] = [rev |-> nextRev, del |-> FALSE]
      BY <2>1 DEF Insert, TypeOK
    <3>. QED  BY <2>1, <3>2, <3>3 DEF Insert
  <2>2. ASSUME NEW i \in Ids, HardDelete(a, i) PROVE FALSE
    <3>1. call'[a].op = "hard"
      BY <2>2, StartSets DEF HardDelete
    <3>. QED  BY <3>1 DEF Drawn
  <2>3. ASSUME NEW i \in Ids, Replace(a, i) PROVE FALSE
    <3>1. Start(a, "replace", i, TRUE, RunOnScope(a))
      BY <2>3 DEF Replace
    <3>2. pc'[a] = RunOnScope(a)
      BY <3>1, StartSets, ZenonT(60)
    <3>. QED  BY <3>2 DEF RunOnScope, Drawn
  <2>4. ASSUME NEW i \in Ids, NEW mode \in Modes, LockByIDBlocked(a, i, mode) PROVE FALSE
    <3>1. pc'[a] \in {"lock", "fail"}
      BY <2>4 DEF LockByIDBlocked, Start, TypeOK
    <3>. QED  BY <3>1 DEF Drawn
  <2>5. ASSUME NEW i \in Ids, NEW force \in BOOLEAN, Save(a, i, force) \/ Restore(a, i, force) \/ SoftDelete(a, i, force)
        PROVE  FALSE
    BY <2>5, StartSets DEF Save, Restore, SoftDelete, AutoWrap, Drawn
  <2>6. ASSUME NEW i \in Ids, FindByID(a, i) \/ LockByID(a, i) PROVE FALSE
    BY <2>6 DEF FindByID, LockByID, Drawn
  <2>7. CASE RunInTransaction(a)
    BY <2>7, GoToSets DEF RunInTransaction, Drawn
  <2>. QED  BY <1>1, <2>1, <2>2, <2>3, <2>4, <2>5, <2>6, <2>7 DEF Calling
<1>2. CASE Check(a)
  <2>1. Stamped(a).rev = nextRev
    BY DEF Stamped
  <2>. QED  BY <1>2, <2>1, CheckSets, CallIdType
<1>3. CASE WriteInTx(a)
  <2>1. GoTo(a, "commit")
    BY <1>3, GoToSets DEF WriteInTx, Drawn
  <2>2. pc'[a] = "commit" /\ call'[a] = call[a]
    BY <2>1, GoToSets
  <2>. QED  BY <1>3, <2>2, CallIdType DEF WriteInTx, Drawn
<1>4. CASE Running(a) /\ ~Check(a) /\ ~WriteInTx(a)
  <2>1. CASE Commit(a) \/ Rollback(a) \/ Crash(a)
    <3>1. GoTo(a, "idle")
      BY <2>1, EndSets DEF Forget
    <3>2. pc'[a] = "idle"
      BY <3>1, GoToSets
    <3>. QED  BY <3>2 DEF Drawn
  <2>2. CASE Opening(a) \/ CheckFails(a) \/ WriteAutocommit(a) \/ WriteFails(a)
             \/ LockGranted(a) \/ DeadlockVictim(a)
    <3>1. GoTo(a, "idle") \/ GoTo(a, "fail") \/ GoTo(a, "check")
      BY <2>2 DEF Opening, Begin, BeginFails, CheckFails, WriteAutocommit, WriteFails, LockGranted,
                  DeadlockVictim, AfterError
    <3>2. pc'[a] \in {"idle", "fail", "check"}
      BY <3>1, GoToSets
    <3>. QED  BY <3>2 DEF Drawn
  <2>. QED  BY <1>4, <2>1, <2>2 DEF Running, Checking, Writing, Ending
<1>. QED  BY <1>1, <1>2, <1>3, <1>4

LEMMA PrivateStep ==
    ASSUME TypeOK, TypeOK', RevInv, FreshInv, Private, [Next]_vars
    PROVE  Private'
<1>1. CASE UNCHANGED vars
  BY <1>1 DEF vars, Private, Drawn, Unseen
<1>2. ASSUME NEW a \in Sessions, Calling(a) \/ Running(a) PROVE Private'
  <2>0. NoRow.rev = 0 /\ nextRev \in Nat \ {0}
    BY DEF NoRow, TypeOK
  <2>1. \A t \in Sessions, i \in Ids :
            /\ mem[t][i].rev \in Nat /\ buf[t][i].rev \in Nat /\ row[i].rev \in Nat
            /\ mem[t][i].rev < nextRev /\ buf[t][i].rev < nextRev /\ row[i].rev < nextRev
    <3> SUFFICES ASSUME NEW t \in Sessions, NEW i \in Ids
                 PROVE  /\ mem[t][i].rev \in Nat /\ buf[t][i].rev \in Nat /\ row[i].rev \in Nat
                        /\ mem[t][i].rev < nextRev /\ buf[t][i].rev < nextRev
                        /\ row[i].rev < nextRev
      OBVIOUS
    <3>1. mem[t][i] \in Docs /\ buf[t][i] \in Docs /\ row[i] \in Docs
      BY DEF TypeOK
    <3>2. mem[t][i] \in Copies(i) /\ buf[t][i] \in Copies(i) /\ row[i] \in Copies(i)
      BY InCopies
    <3>. QED  BY <3>1, <3>2 DEF Docs, RevInv
  <2>2. nextRev' \in {nextRev, nextRev + 1}
    BY <1>2 DEF store, pending, Calling, RunInTransaction, FindByID, Insert, HardDelete, Replace,
                LockByID, LockByIDBlocked, Save, Restore, SoftDelete, Running, Opening, Begin, BeginFails,
                Checking, Check, CheckFails, Writing, WriteAutocommit, WriteInTx, WriteFails,
                LockGranted, DeadlockVictim, Ending, Commit, Rollback, Crash
  <2>3. \A t \in Sessions : call[t].was.rev \in Nat /\ call[t].was.rev < nextRev
    BY DEF Private, TypeOK, Calls, Docs
  <2>4. \A t \in Sessions \ {a} :
            /\ pc'[t] = pc[t] /\ call'[t] = call[t]
            /\ mem'[t] = mem[t] /\ buf'[t] = buf[t]
    BY <1>2, OthersStay
  <2>5. call'[a].was.rev < nextRev
    <3>1. CASE call'[a].was = NoRow
      BY <2>0, <3>1
    <3>2. CASE call'[a].was = call[a].was
      BY <2>3, <3>2
    <3>3. CASE call'[a].id \in Ids /\ call'[a].was = mem[a][call'[a].id]
      BY <2>1, <3>3
    <3>. QED  BY <1>2, <3>1, <3>2, <3>3, WasComes
  <2>6. \A t \in Sessions : call'[t].was.rev \in Nat /\ call'[t].was.rev < nextRev
    BY <2>3, <2>4, <2>5 DEF TypeOK, Calls, Docs
  <2>7. \A t \in Sessions : call'[t].was.rev < nextRev'
    BY <2>0, <2>2, <2>6
  <2>8. ASSUME NEW s \in Sessions \ {a}, Drawn(s)'
        PROVE  Unseen(s, call[s].id, mem[s][call[s].id].rev)'
    <3>1. PICK i \in Ids : i = call[s].id
      BY CallIdType
    <3>2. PICK r : r = mem[s][i].rev
      OBVIOUS
    <3>3. r \in Nat /\ r < nextRev
      BY <2>1, <3>2
    <3>4. call'[s].id = i /\ mem'[s][i].rev = r /\ pc'[s] = pc[s]
      BY <2>4, <3>1, <3>2
    <3>5. Unseen(s, i, r)
      BY <2>4, <2>8, <3>1, <3>2 DEF Private, Drawn
    <3>6. Comes(a, i)
      BY <1>2, StepComes
    <3>7. r # row'[i].rev
      BY <2>0, <3>5, <3>6 DEF Comes, Unseen
    <3>8. mem'[a][i].rev # r
      BY <2>0, <3>3, <3>5, <3>6 DEF Comes, Unseen
    <3>9. buf'[a][i].rev # r
      BY <2>0, <3>5, <3>6 DEF Comes, Unseen
    <3>10. call'[a].id = i => call'[a].was.rev # r
      BY <1>2, <2>0, <3>5, WasComes DEF Unseen
    <3>11. \A t \in Sessions : /\ t # s => mem'[t][i].rev # r
                               /\ t # s \/ pc'[s] = "put" => buf'[t][i].rev # r
                               /\ call'[t].id = i => call'[t].was.rev # r
      BY <2>4, <3>4, <3>5, <3>8, <3>9, <3>10 DEF Unseen
    <3>12. Unseen(s, i, r)'
      BY <3>5, <3>7, <3>11 DEF Unseen
    <3>. QED  BY <3>4, <3>12
  <2>9. ASSUME Drawn(a)' PROVE Unseen(a, call[a].id, mem[a][call[a].id].rev)'
    <3>1. PICK i \in Ids : i = call'[a].id
      BY <1>2, <2>9, DrawnComes
    <3>2. PICK r : r = mem'[a][i].rev
      OBVIOUS
    <3>3. CASE mem'[a][i].rev = nextRev /\ nextRev' = nextRev + 1 /\ buf' = buf /\ row' = row
      <4>1. r # 0 /\ r # row'[i].rev
        BY <2>0, <2>1, <3>2, <3>3
      <4>2. \A t \in Sessions : /\ t # a => mem'[t][i].rev # r
                                /\ buf'[t][i].rev # r
                                /\ call'[t].was.rev # r
        BY <2>0, <2>1, <2>4, <2>6, <3>2, <3>3
      <4>3. Unseen(a, i, r)'
        BY <4>1, <4>2 DEF Unseen
      <4>. QED  BY <3>1, <3>2, <4>3
    <3>4. CASE Drawn(a) /\ pc'[a] = "commit" /\ mem' = mem /\ call'[a] = call[a] /\ row' = row
      <4>1. Unseen(a, i, r)
        BY <3>1, <3>2, <3>4 DEF Private
      <4>2. Unseen(a, i, r)'
        BY <2>4, <3>4, <4>1 DEF Unseen
      <4>. QED  BY <3>1, <3>2, <4>2
    <3>. QED  BY <1>2, <2>9, <3>1, <3>3, <3>4, DrawnComes
  <2>. QED  BY <2>7, <2>8, <2>9 DEF Private
<1>. QED  BY <1>1, <1>2 DEF Next

(* A revision is drawn by a call that the budget has counted.               *)
LEMMA BudgetStep ==
    ASSUME TypeOK, FreshInv, Local, Budget, [Next]_vars
    PROVE  Budget'
<1> USE DEF store, pending, MaxRevAssumption
<1>0. /\ IsFiniteSet(Drawing) /\ Cardinality(Drawing) \in Nat /\ nextRev \in Nat /\ MaxRev \in Nat
      /\ nextRev + Cardinality(Drawing) <= MaxRev + 1
  BY FS_CardinalityType, MaxRevAssumption DEF Budget, TypeOK
<1>1. ASSUME nextRev' = nextRev, Drawing' \subseteq Drawing PROVE Budget'
  <2>1. IsFiniteSet(Drawing') /\ Cardinality(Drawing') <= Cardinality(Drawing)
    BY <1>0, <1>1, FS_Subset
  <2>2. Cardinality(Drawing') \in Nat
    BY <2>1, FS_CardinalityType
  <2>3. PICK m \in Nat, n \in Nat : m = Cardinality(Drawing') /\ n = Cardinality(Drawing)
    BY <1>0, <2>2
  <2>4. nextRev + m <= MaxRev + 1
    BY <1>0, <2>1, <2>3
  <2>. QED  BY <1>1, <2>1, <2>3, <2>4 DEF Budget
<1>2. ASSUME CanDraw, NEW a \in Sessions, nextRev' = nextRev, Drawing' \subseteq Drawing \cup {a}
      PROVE  Budget'
  <2>1. /\ IsFiniteSet(Drawing \cup {a})
        /\ Cardinality(Drawing \cup {a}) \in {Cardinality(Drawing), Cardinality(Drawing) + 1}
    BY <1>0, FS_AddElement
  <2>2. IsFiniteSet(Drawing') /\ Cardinality(Drawing') <= Cardinality(Drawing \cup {a})
    BY <1>2, <2>1, FS_Subset
  <2>3. Cardinality(Drawing') \in Nat
    BY <2>2, FS_CardinalityType
  <2>4. PICK m \in Nat, n \in Nat : m = Cardinality(Drawing') /\ n = Cardinality(Drawing)
    BY <1>0, <2>3
  <2>5. m <= n + 1 /\ nextRev + n <= MaxRev
    BY <1>2, <2>1, <2>2, <2>4 DEF CanDraw
  <2>6. nextRev + m <= MaxRev + 1
    BY <1>0, <2>5
  <2>. QED  BY <1>2, <2>2, <2>4, <2>6 DEF Budget
<1>3. ASSUME CanDraw, nextRev' = nextRev + 1, Drawing' = Drawing PROVE Budget'
  <2>1. PICK n \in Nat : n = Cardinality(Drawing)
    BY <1>0
  <2>2. (nextRev + 1) + n <= MaxRev + 1
    BY <1>0, <1>3, <2>1 DEF CanDraw
  <2>. QED  BY <1>0, <1>3, <2>1, <2>2 DEF Budget
<1>4. ASSUME NEW a \in Drawing, nextRev' = nextRev + 1, Drawing' = Drawing \ {a} PROVE Budget'
  <2>1. IsFiniteSet(Drawing') /\ Cardinality(Drawing') = Cardinality(Drawing) - 1
    BY <1>0, <1>4, FS_RemoveElement
  <2>2. PICK n \in Nat : n = Cardinality(Drawing)
    BY <1>0
  <2>3. (nextRev + 1) + (n - 1) <= MaxRev + 1
    BY <1>0, <2>2
  <2>. QED  BY <1>4, <2>1, <2>2, <2>3 DEF Budget
<1>5. CASE UNCHANGED vars
  BY <1>1, <1>5 DEF vars, Drawing
<1>6. ASSUME NEW a \in Sessions, Calling(a) \/ Running(a) PROVE Budget'
  <2>1. \A t \in Sessions \ {a} : t \in Drawing' <=> t \in Drawing
    <3> SUFFICES ASSUME NEW t \in Sessions \ {a} PROVE t \in Drawing' <=> t \in Drawing
      OBVIOUS
    <3>1. pc'[t] = pc[t] /\ call'[t] = call[t]
      BY <1>6, OthersStay
    <3>. QED  BY <3>1 DEF Drawing
  <2>2. Drawing \subseteq Sessions /\ Drawing' \subseteq Sessions
    BY DEF Drawing
  <2>3. a \in Drawing' <=> pc'[a] \in {"begin", "check"} /\ call'[a].op # "tx"
    BY DEF Drawing
  <2>4. a \in Drawing <=> pc[a] \in {"begin", "check"} /\ call[a].op # "tx"
    BY DEF Drawing
  <2>5. CASE CanDraw /\ nextRev' = nextRev
    BY <1>2, <2>1, <2>2, <2>5
  <2>6. ASSUME nextRev' = nextRev, a \in Drawing' => a \in Drawing PROVE Budget'
    BY <1>1, <2>1, <2>2, <2>6
  <2>7. CASE Calling(a)
    <3>1. ASSUME NEW i \in Ids, Insert(a, i) PROVE Budget'
      <4>1. Start(a, "insert", i, FALSE, "put")
        BY <3>1 DEF Insert
      <4>2. pc'[a] = "put"
        BY <4>1, StartSets, ZenonT(30)
      <4>3. pc[a] = "idle" /\ CanDraw /\ nextRev' = nextRev + 1
        BY <3>1 DEF Insert
      <4>4. Drawing' = Drawing
        BY <2>1, <2>2, <2>3, <2>4, <4>2, <4>3
      <4>. QED  BY <1>3, <4>3, <4>4
    <3>2. ASSUME NEW i \in Ids, HardDelete(a, i) PROVE Budget'
      <4>1. pc'[a] = "put" /\ nextRev' = nextRev
        BY <3>2, StartSets DEF HardDelete
      <4>. QED  BY <2>3, <2>6, <4>1
    <3>3. ASSUME NEW i \in Ids, NEW mode \in Modes, LockByIDBlocked(a, i, mode) PROVE Budget'
      <4>1. pc'[a] \in {"lock", "fail"} /\ nextRev' = nextRev
        BY <3>3 DEF LockByIDBlocked, Start, TypeOK
      <4>. QED  BY <2>3, <2>6, <4>1
    <3>4. ASSUME NEW i \in Ids, FindByID(a, i) \/ LockByID(a, i) PROVE Budget'
      BY <2>3, <2>4, <2>6, <3>4 DEF FindByID, LockByID
    <3>5. CASE RunInTransaction(a)
      <4>1. call'[a].op = "tx" /\ nextRev' = nextRev
        BY <3>5, GoToSets DEF RunInTransaction, FreshInv, CallOld
      <4>. QED  BY <2>3, <2>6, <4>1
    <3>6. ASSUME NEW i \in Ids, Replace(a, i) PROVE Budget'
      BY <2>5, <3>6 DEF Replace
    <3>7. ASSUME NEW i \in Ids, NEW force \in BOOLEAN, Save(a, i, force) \/ Restore(a, i, force) \/ SoftDelete(a, i, force)
          PROVE  Budget'
      BY <2>5, <3>7 DEF Save, Restore, SoftDelete
    <3>. QED  BY <2>7, <3>1, <3>2, <3>3, <3>4, <3>5, <3>6, <3>7 DEF Calling
  <2>8. CASE Check(a)
    <3>1. pc[a] = "check" /\ pc'[a] = "put" /\ nextRev' = nextRev + 1
      BY <2>8, CheckSets
    <3>2. call[a].op # "tx"
      BY <3>1 DEF Local, Shape, Writes
    <3>3. Drawing' = Drawing \ {a} /\ a \in Drawing
      BY <2>1, <2>2, <2>3, <2>4, <3>1, <3>2
    <3>. QED  BY <1>4, <3>1, <3>3
  <2>9. CASE Begin(a)
    <3>1. pc[a] = "begin" /\ nextRev' = nextRev
      BY <2>9 DEF Begin
    <3>2. CASE call[a].op = "tx"
      <4>1. pc'[a] = "idle"
        BY <2>9, <3>2, GoToSets DEF Begin
      <4>. QED  BY <2>3, <2>6, <3>1, <4>1
    <3>3. CASE call[a].op # "tx"
      BY <2>4, <2>6, <3>1, <3>3
    <3>. QED  BY <3>2, <3>3
  <2>10. CASE Running(a) /\ ~Check(a) /\ ~Begin(a)
    <3>1. /\ \E at : GoTo(a, at) /\ at \notin {"begin", "check"}
          /\ nextRev' = nextRev
      <4>1. CASE Commit(a) \/ Rollback(a) \/ Crash(a)
        BY <4>1, EndSets DEF Forget
      <4>2. CASE WriteInTx(a) /\ txn[a] = "auto"
        BY <4>2 DEF WriteInTx
      <4>3. CASE WriteInTx(a) /\ txn[a] # "auto"
        BY <4>3 DEF WriteInTx
      <4>4. CASE WriteAutocommit(a)
        BY <4>4 DEF WriteAutocommit
      <4>5. CASE BeginFails(a) \/ CheckFails(a) \/ WriteFails(a) \/ LockGranted(a) \/ DeadlockVictim(a)
        <5>1. GoTo(a, "idle") \/ GoTo(a, "fail")
          BY <4>5 DEF BeginFails, CheckFails, WriteFails, LockGranted, DeadlockVictim, AfterError
        <5>2. nextRev' = nextRev
          BY <4>5 DEF BeginFails, CheckFails, WriteFails, LockGranted, DeadlockVictim
        <5>. QED  BY <5>1, <5>2
      <4>. QED  BY <2>10, <4>1, <4>2, <4>3, <4>4, <4>5 DEF Running, Opening, Checking, Writing, Ending
    <3>2. pc'[a] \notin {"begin", "check"}
      BY <3>1, GoToSets
    <3>. QED  BY <2>3, <2>6, <3>1, <3>2
  <2>. QED  BY <1>6, <2>7, <2>8, <2>9, <2>10
<1>. QED  BY <1>5, <1>6 DEF Next

LEMMA SerialInit == Init => SerialInv
<1> SUFFICES ASSUME Init PROVE SerialInv
  OBVIOUS
<1>1. \A s \in Sessions : /\ pc[s] = "idle" /\ txn[s] = "none"
                          /\ call[s].op = "tx" /\ call[s].was = NoRow
  BY DEF Init, NoCall
<1>2. Local
  BY <1>1 DEF Local, Shape, AutoOne, Passed, InCall
<1>3. Ready
  BY <1>1 DEF Ready
<1>4. nextRev = 2 /\ NoRow.rev = 0
  BY DEF Init, NoRow
<1>5. Private
  BY <1>1, <1>4 DEF Private, Drawn
<1>6. Drawing = {}
  BY <1>1 DEF Drawing
<1>7. Budget
  BY <1>4, <1>6, FS_EmptySet, MaxRevAssumption DEF Budget
<1>8. Said
  BY <1>1 DEF Said, InCall
<1>. QED  BY <1>2, <1>3, <1>5, <1>7, <1>8 DEF SerialInv

LEMMA SaidStep ==
    ASSUME TypeOK, FreshInv, Said, [Next]_vars
    PROVE  Said'
<1> USE DEF store, pending
<1>1. CASE UNCHANGED vars
  BY <1>1 DEF vars, Said, InCall
<1>2. ASSUME NEW s \in Sessions, Calling(s) \/ Running(s), InCall(s)' => ~err'[s],
             pc'[s] = "fail" => err'[s]
      PROVE  Said'
  <2>1. ASSUME NEW t \in Sessions \ {s} PROVE (InCall(t)' => ~err'[t]) /\ (pc'[t] = "fail" => err'[t])
    <3>1. pc'[t] = pc[t] /\ call'[t] = call[t] /\ err'[t] = err[t]
      BY <1>2, OthersStay
    <3>. QED  BY <3>1 DEF Said, InCall
  <2>. QED  BY <1>2, <2>1 DEF Said
<1>3. ASSUME NEW s \in Sessions, NEW e, Returns(s, e) PROVE err'[s] = e
  BY <1>3 DEF Returns, TypeOK
<1>4. ASSUME NEW s \in Sessions, NEW op, NEW i, NEW force, NEW at, Start(s, op, i, force, at)
      PROVE  (InCall(s)' => ~err'[s]) /\ (pc'[s] = "fail" => err'[s])
  <2>1. pc'[s] = at
    BY <1>4, StartSets
  <2>2. err'[s] = (at = "fail")
    BY <1>4 DEF Start, Returns, TypeOK
  <2>3. CASE at = "fail"
    BY <2>1, <2>2, <2>3 DEF InCall
  <2>4. CASE at # "fail"
    <3>1. (at = "fail") = FALSE
      BY <2>4
    <3>. QED  BY <2>1, <2>2, <2>4, <3>1
  <2>. QED  BY <2>3, <2>4
<1>5. ASSUME NEW s \in Sessions, GoTo(s, "idle")
      PROVE  (InCall(s)' => ~err'[s]) /\ (pc'[s] = "fail" => err'[s])
  <2>1. pc'[s] = "idle"
    BY <1>5, GoToSets
  <2>. QED  BY <2>1 DEF InCall
<1>6. ASSUME NEW s \in Sessions, GoTo(s, "fail"), Returns(s, TRUE)
      PROVE  (InCall(s)' => ~err'[s]) /\ (pc'[s] = "fail" => err'[s])
  <2>1. pc'[s] = "fail" /\ err'[s]
    BY <1>6, <1>3, GoToSets
  <2>. QED  BY <2>1 DEF InCall
<1>7. ASSUME NEW s \in Sessions, Calling(s)
      PROVE  (InCall(s)' => ~err'[s]) /\ (pc'[s] = "fail" => err'[s])
  <2>1. CASE RunInTransaction(s)
    <3>1. pc'[s] = "begin" /\ call'[s].op = "tx"
      BY <2>1, GoToSets DEF RunInTransaction, FreshInv, CallOld
    <3>. QED  BY <3>1 DEF InCall
  <2>2. ASSUME NEW i \in Ids, FindByID(s, i) \/ LockByID(s, i)
        PROVE  (InCall(s)' => ~err'[s]) /\ (pc'[s] = "fail" => err'[s])
    <3>1. pc'[s] = "idle"
      BY <2>2 DEF FindByID, LockByID
    <3>. QED  BY <3>1 DEF InCall
  <2>3. ASSUME ~RunInTransaction(s), \A i \in Ids : ~FindByID(s, i) /\ ~LockByID(s, i)
        PROVE  (InCall(s)' => ~err'[s]) /\ (pc'[s] = "fail" => err'[s])
    <3>1. \E op, i, force, at : Start(s, op, i, force, at)
      BY <1>7, <2>3, ZenonT(60) DEF Calling, Insert, HardDelete, Replace, LockByIDBlocked, Save, Restore,
                        SoftDelete
    <3>. QED  BY <1>4, <3>1
  <2>. QED  BY <2>1, <2>2, <2>3
<1>8. ASSUME NEW s \in Sessions, Running(s)
      PROVE  (InCall(s)' => ~err'[s]) /\ (pc'[s] = "fail" => err'[s])
  <2>1. CASE Begin(s)
    <3>1. GoTo(s, "idle") \/ GoTo(s, "check")
      BY <2>1 DEF Begin
    <3>2. pc'[s] # "fail"
      BY <3>1, GoToSets
    <3>3. err'[s] = FALSE
      BY <2>1 DEF Begin, Returns, TypeOK
    <3>. QED  BY <3>2, <3>3
  <2>2. CASE BeginFails(s)
    BY <1>5, <2>2 DEF BeginFails
  <2>3. CASE Check(s)
    <3>1. /\ pc[s] = "check" /\ pc'[s] = "put" /\ call'[s].op = call[s].op
          /\ err' = err
      BY <2>3, CheckSets DEF Check
    <3>. QED  BY <3>1 DEF Said, InCall
  <2>4. CASE CheckFails(s) \/ WriteFails(s) \/ DeadlockVictim(s)
    <3>1. Returns(s, TRUE) /\ (GoTo(s, "idle") \/ GoTo(s, "fail"))
      BY <2>4 DEF CheckFails, WriteFails, DeadlockVictim, AfterError
    <3>. QED  BY <1>5, <1>6, <3>1
  <2>5. CASE WriteAutocommit(s) \/ LockGranted(s)
    BY <1>5, <2>5 DEF WriteAutocommit, LockGranted
  <2>6. CASE WriteInTx(s)
    <3>1. CASE txn[s] = "auto"
      <4>1. GoTo(s, "commit") /\ err' = err /\ pc[s] = "put"
        BY <2>6, <3>1 DEF WriteInTx
      <4>2. pc'[s] = "commit" /\ call'[s] = call[s]
        BY <4>1, GoToSets
      <4>. QED  BY <4>1, <4>2 DEF Said, InCall
    <3>2. CASE txn[s] # "auto"
      BY <1>5, <2>6, <3>2 DEF WriteInTx
    <3>. QED  BY <3>1, <3>2
  <2>7. CASE Ending(s) \/ Crash(s)
    BY <1>5, <2>7 DEF Ending, Commit, Rollback, Crash, Forget
  <2>. QED  BY <1>8, <2>1, <2>2, <2>3, <2>4, <2>5, <2>6, <2>7
               DEF Running, Opening, Checking, Writing
<1>. QED  BY <1>1, <1>2, <1>7, <1>8 DEF Next

LEMMA SerialStep ==
    ASSUME SQLite
    PROVE  DeleteInv /\ SerialInv /\ [Next]_vars => (DeleteInv /\ SerialInv)'
<1> SUFFICES ASSUME DeleteInv, SerialInv, [Next]_vars PROVE DeleteInv' /\ SerialInv'
  OBVIOUS
<1>1. DeleteInv'
  BY DeleteStep
<1>2. Local'
  BY LocalStep DEF DeleteInv, SerialInv
<1>3. Ready'
  BY ReadyStep DEF DeleteInv, SerialInv
<1>4. Private'
  BY <1>1, PrivateStep DEF DeleteInv, SerialInv
<1>5. Budget'
  BY BudgetStep DEF DeleteInv, SerialInv
<1>6. Said'
  BY SaidStep DEF DeleteInv, SerialInv
<1>. QED  BY <1>1, <1>2, <1>3, <1>4, <1>5, <1>6 DEF SerialInv

-----------------------------------------------------------------------------
(* The refinement, step by step.                                            *)
LEMMA TheOnly ==
    ASSUME NEW f, NEW s \in Sessions, f[s] = "app", \A t \in Sessions : f[t] = "app" => t = s
    PROVE  (CHOOSE t \in Sessions : f[t] = "app") = s
OBVIOUS

(* Whoever has an application transaction open has the only one.            *)
LEMMA OwnerIs ==
    ASSUME SQLiteInv, NEW s \in Sessions
    PROVE  /\ txn[s] = "app" => Owner = s
           /\ Owner = s => txn[s] = "app"
           /\ (\A t \in Sessions : txn[t] # "app") => Owner = Nobody
           /\ Owner # Nobody => Owner \in Sessions /\ txn[Owner] = "app"
<1>1. ASSUME NEW o \in Sessions, txn[o] = "app" PROVE Owner = o
  <2>1. \A t \in Sessions : txn[t] = "app" => t = o
    BY <1>1, OneTx
  <2>2. (CHOOSE t \in Sessions : txn[t] = "app") = o
    BY <1>1, <2>1, TheOnly
  <2>. QED  BY <1>1, <2>2 DEF Owner
<1>2. (\A t \in Sessions : txn[t] # "app") => Owner = Nobody
  BY DEF Owner
<1>. QED  BY <1>1, <1>2

LEMMA OwnerNext ==
    ASSUME SQLiteInv', NEW s \in Sessions
    PROVE  /\ txn'[s] = "app" => Owner' = s
           /\ Owner' = s => txn'[s] = "app"
           /\ (\A t \in Sessions : txn'[t] # "app") => Owner' = Nobody
           /\ Owner' # Nobody => Owner' \in Sessions /\ txn'[Owner'] = "app"
<1>1. ASSUME NEW o \in Sessions, txn'[o] = "app" PROVE Owner' = o
  <2>1. \A t \in Sessions : txn'[t] = "app" => t = o
    BY <1>1 DEF SQLiteInv, TxHoldsLock
  <2>2. (CHOOSE t \in Sessions : txn'[t] = "app") = o
    BY <1>1, <2>1, TheOnly
  <2>. QED  BY <1>1, <2>2 DEF Owner
<1>2. (\A t \in Sessions : txn'[t] # "app") => Owner' = Nobody
  BY DEF Owner
<1>. QED  BY <1>1, <1>2

(* The owner stays while the application transactions do.                   *)
LEMMA OwnerStays ==
    ASSUME \A t \in Sessions : txn'[t] = "app" <=> txn[t] = "app"
    PROVE  Owner' = Owner
<1>1. (CHOOSE t \in Sessions : txn'[t] = "app") = (CHOOSE t \in Sessions : txn[t] = "app")
  OBVIOUS
<1>. QED  BY <1>1 DEF Owner

LEMMA WorkingStays ==
    ASSUME SQLiteInv, Owner' = Owner, row' = row,
           Owner # Nobody => how'[Owner] = how[Owner] /\ buf'[Owner] = buf[Owner]
    PROVE  Working' = Working
<1>1. CASE Owner = Nobody
  BY <1>1 DEF Working
<1>2. CASE Owner # Nobody
  <2>1. PICK o : o = Owner
    OBVIOUS
  <2>2. how'[o] = how[o] /\ buf'[o] = buf[o] /\ Owner' = o
    BY <1>2, <2>1
  <2>3. Published(o)' = Published(o)
    BY <2>2 DEF Published, View
  <2>4. Working' = Published(o)'
    BY <1>2, <2>1, <2>2 DEF Working
  <2>5. Working = Published(o)
    BY <1>2, <2>1 DEF Working
  <2>. QED  BY <2>3, <2>4, <2>5
<1>. QED  BY <1>1, <1>2

(* What a caller sees of its own call, and of the others' nothing changes.  *)
LEMMA CallerSees ==
    ASSUME TypeOK, NEW s \in Sessions
    PROVE  /\ InCall(s) => /\ Asked[s].op = call[s].op /\ Asked[s].id = call[s].id
                           /\ Asked[s].force = call[s].force
                           /\ Asked[s] # [op |-> "none"]
                           /\ Hand[s] = [mem[s] EXCEPT ![call[s].id] = call[s].was]
           /\ ~InCall(s) => Asked[s] = [op |-> "none"] /\ Hand[s] = mem[s]
<1>1. ASSUME InCall(s)
      PROVE  /\ Asked[s].op = call[s].op /\ Asked[s].id = call[s].id
             /\ Asked[s].force = call[s].force
             /\ Asked[s] # [op |-> "none"]
  <2>1. Asked[s] = [op |-> call[s].op, id |-> call[s].id, force |-> call[s].force]
    BY <1>1 DEF Asked
  <2>2. call[s].op # "none"
    BY CallIdType DEF Ops
  <2>. QED  BY <2>1, <2>2
<1>2. ASSUME InCall(s) PROVE Hand[s] = [mem[s] EXCEPT ![call[s].id] = call[s].was]
  BY <1>2 DEF Hand, TypeOK
<1>3. ASSUME ~InCall(s) PROVE Asked[s] = [op |-> "none"] /\ Hand[s] = mem[s]
  BY <1>3 DEF Asked, Hand, TypeOK
<1>. QED  BY <1>1, <1>2, <1>3

LEMMA CallerSeesNext ==
    ASSUME TypeOK', NEW s \in Sessions
    PROVE  /\ InCall(s)' => /\ Asked'[s] = [op |-> call'[s].op, id |-> call'[s].id,
                                            force |-> call'[s].force]
                            /\ Hand'[s] = [mem'[s] EXCEPT ![call'[s].id] = call'[s].was]
           /\ ~InCall(s)' => Asked'[s] = [op |-> "none"] /\ Hand'[s] = mem'[s]
BY DEF Asked, Hand, TypeOK

LEMMA OthersSee ==
    ASSUME TypeOK, NEW s \in Sessions, Calling(s) \/ Running(s), NEW a, NEW h,
           Asked'[s] = a, Hand'[s] = h
    PROVE  Asked' = [Asked EXCEPT ![s] = a] /\ Hand' = [Hand EXCEPT ![s] = h]
<1>1. ASSUME NEW t \in Sessions \ {s}
      PROVE  Asked'[t] = Asked[t] /\ Hand'[t] = Hand[t]
  <2>1. pc'[t] = pc[t] /\ call'[t] = call[t] /\ mem'[t] = mem[t]
    BY OthersStay
  <2>2. InCall(t)' <=> InCall(t)
    BY <2>1 DEF InCall
  <2>. QED  BY <2>1, <2>2 DEF Asked, Hand
<1>2. /\ DOMAIN Asked = Sessions /\ DOMAIN Hand = Sessions
      /\ Asked = [t \in Sessions |-> Asked[t]] /\ Hand = [t \in Sessions |-> Hand[t]]
      /\ Asked' = [t \in Sessions |-> Asked'[t]] /\ Hand' = [t \in Sessions |-> Hand'[t]]
  BY DEF Asked, Hand
<1>3. Asked' = [Asked EXCEPT ![s] = a]
  BY <1>1, <1>2
<1>4. Hand' = [Hand EXCEPT ![s] = h]
  BY <1>1, <1>2
<1>. QED  BY <1>3, <1>4

AllVersions == [rev: 0..MaxRev, del: BOOLEAN]

LEMMA CopiesWithinBudget ==
    ASSUME TypeOK, RevInv, Budget, NEW i \in Ids, NEW d \in Copies(i), d \in Docs
    PROVE  d \in AllVersions
<1>1. Cardinality(Drawing) \in Nat
  BY FS_CardinalityType DEF Budget
<1>2. PICK n \in Nat : n = Cardinality(Drawing)
  BY <1>1
<1>3. d.rev \in Nat /\ d.rev < nextRev /\ nextRev \in Nat /\ nextRev + n <= MaxRev + 1
  BY <1>2 DEF RevInv, Docs, TypeOK, Budget
<1>4. d.rev \in 0..MaxRev
  BY <1>3, MaxRevAssumption
<1>. QED  BY <1>4 DEF AllVersions, Docs

LEMMA DrawnIsNew ==
    ASSUME DeleteInv, SerialInv, NEW s \in Sessions, Drawn(s)
    PROVE  /\ Serial!New(call[s].id, mem[s][call[s].id])
           /\ mem[s][call[s].id] \in AllVersions
<1> USE DEF DeleteInv, SerialInv
<1>1. PICK i \in Ids : i = call[s].id
  BY CallIdType
<1>2. PICK r : r = mem[s][i].rev
  OBVIOUS
<1>3. Unseen(s, i, r)
  BY <1>1, <1>2 DEF Private
<1>4. r # 0 /\ r # row[i].rev
  BY <1>3 DEF Unseen
<1>5. r # Working[i].rev
  <2>1. CASE Owner = Nobody
    BY <1>4, <2>1 DEF Working
  <2>2. CASE Owner # Nobody
    <3>1. PICK o \in Sessions : o = Owner /\ txn[o] = "app"
      BY <2>2, OwnerIs
    <3>2. Working[i] = View(o, i)
      BY <2>2, <3>1 DEF Working, Published
    <3>3. o = s => pc[s] = "put"
      BY <3>1 DEF Drawn, Local, Shape
    <3>4. buf[o][i].rev # r
      BY <1>3, <3>3 DEF Unseen
    <3>. QED  BY <1>4, <3>2, <3>4 DEF View
  <2>. QED  BY <2>1, <2>2
<1>6. ASSUME NEW c \in Sessions PROVE r # Hand[c][i].rev
  <2>1. CASE InCall(c) /\ call[c].id = i
    <3>1. Hand[c][i] = call[c].was
      BY <2>1 DEF Hand
    <3>. QED  BY <1>3, <2>1, <3>1 DEF Unseen
  <2>2. CASE ~(InCall(c) /\ call[c].id = i)
    <3>1. Hand[c][i] = mem[c][i]
      BY <2>2 DEF Hand
    <3>2. InCall(s)
      BY DEF Drawn, InCall, Local, Shape, Writes
    <3>3. c # s
      BY <1>1, <2>2, <3>2
    <3>. QED  BY <1>3, <3>1, <3>3 DEF Unseen
  <2>. QED  BY <2>1, <2>2
<1>7. NoRow.rev = 0
  BY DEF NoRow
<1>8. Serial!New(i, mem[s][i])
  BY <1>2, <1>4, <1>5, <1>6, <1>7 DEF Serial!New
<1>9. mem[s][i] \in AllVersions
  <2>1. mem[s][i] \in Copies(i) /\ mem[s][i] \in Docs
    BY InCopies DEF TypeOK
  <2>. QED  BY <2>1, CopiesWithinBudget
<1>. QED  BY <1>1, <1>8, <1>9

(* The effect of a call, in its caller's transaction or by itself.          *)
LEMMA MapsToPerform ==
    ASSUME DeleteInv, SerialInv, TypeOK', NEW s \in Sessions, Calling(s) \/ Running(s),
           pc[s] \in {"put", "commit"}, ~InCall(s)', mem' = mem,
           Owner' = Owner, Owner \in {s, Nobody},
           Working[call[s].id] = Replaced(s),
           Working' = [Working EXCEPT ![call[s].id] = Written(s)],
           row' = IF Owner = s THEN row ELSE Working',
           NEW e \in BOOLEAN, Returns(s, e),
           e => \/ Owner = s
                \/ call[s].op \in {"insert", "soft", "hard"}
                \/ call[s].op # "replace" /\ call[s].force
    PROVE  Serial!Perform(s)
<1> USE DEF DeleteInv, SerialInv
<1>1. PICK i \in Ids : i = call[s].id
  BY CallIdType
<1>2. InCall(s) /\ call[s].op \in Writes
  BY DEF InCall, Local, Shape, Writes
<1>3. /\ Asked[s].op = call[s].op /\ Asked[s].id = i /\ Asked[s].force = call[s].force
      /\ Asked[s] # [op |-> "none"]
      /\ Hand[s] = [mem[s] EXCEPT ![i] = call[s].was]
  BY <1>1, <1>2, CallerSees
<1>4. Asked'[s] = [op |-> "none"] /\ Hand'[s] = mem[s]
  BY CallerSeesNext
<1>5. Asked' = [Asked EXCEPT ![s] = [op |-> "none"]] /\ Hand' = [Hand EXCEPT ![s] = mem[s]]
  BY <1>4, OthersSee
<1>6. PICK v : v = Written(s)
  OBVIOUS
<1>7. Hand[s][i] = call[s].was
  BY <1>3 DEF TypeOK
<1>8. Serial!Allowed(Asked[s], Working[i], Hand[s][i], v)
  <2>1. Serial!Allowed(call[s], Replaced(s), call[s].was, Written(s))
    BY DEF Ready
  <2>. QED  BY <1>1, <1>3, <1>6, <1>7, <2>1 DEF Serial!Allowed
<1>9. v \in AllVersions
  <2>1. CASE call[s].op = "hard"
    BY <1>6, <2>1, MaxRevAssumption DEF Written, NoRow, AllVersions
  <2>2. CASE call[s].op # "hard"
    BY <1>6, <2>2, DrawnIsNew DEF Written, Drawn
  <2>. QED  BY <2>1, <2>2
<1>10. IF Asked[s].op = "hard" THEN Hand' = Hand
                               ELSE Serial!New(i, v) /\ Hand' = [Hand EXCEPT ![s][i] = v]
  <2>1. CASE call[s].op = "hard"
    <3>1. mem[s][i] = call[s].was
      BY <1>1, <1>2, <2>1 DEF Local, Passed
    <3>2. Hand[s] = mem[s]
      BY <1>3, <3>1 DEF TypeOK
    <3>3. Hand' = Hand
      BY <1>5, <3>2 DEF Hand
    <3>. QED  BY <1>3, <2>1, <3>3
  <2>2. CASE call[s].op # "hard"
    <3>1. v = mem[s][i]
      BY <1>1, <1>6, <2>2 DEF Written
    <3>2. Serial!New(i, v)
      BY <1>1, <2>2, <3>1, DrawnIsNew DEF Drawn
    <3>3. mem[s] = [Hand[s] EXCEPT ![i] = v]
      BY <1>3, <3>1 DEF TypeOK
    <3>4. Hand' = [Hand EXCEPT ![s][i] = v]
      BY <1>5, <3>3
    <3>. QED  BY <1>3, <2>2, <3>2, <3>4
  <2>. QED  BY <2>1, <2>2
<1>11. /\ Working' = [Working EXCEPT ![i] = v]
  BY <1>1, <1>6
<1>12. \E f \in BOOLEAN : Serial!Returns(s, f) /\ (f => Serial!MayFailDone(s))
  <2>1. e => Serial!MayFailDone(s)
    BY <1>3 DEF Serial!MayFailDone
  <2>2. Serial!Returns(s, e)
    BY DEF Serial!Returns, Returns
  <2>. QED  BY <2>1, <2>2
<1>. QED  BY <1>3, <1>5, <1>8, <1>9, <1>10, <1>11, <1>12
             DEF Serial!Perform, Serial!Idle, Serial!NoRequest, Serial!Done, AllVersions

(* A call that returns an error: the struct is as it was passed, or has the
   revision the call drew, or is what a Replace read.                       *)
LEMMA MapsToRefuse ==
    ASSUME DeleteInv, SerialInv, TypeOK', NEW s \in Sessions, Calling(s) \/ Running(s),
           InCall(s), ~InCall(s)', row' = row, Owner' = Owner, Working' = Working,
           Returns(s, TRUE),
           \/ mem'[s] = mem[s]
           \/ /\ call[s].op = "replace"
              /\ mem'[s] = [mem[s] EXCEPT ![call[s].id] = Serial!Seen(s)[call[s].id]]
    PROVE  Serial!Refuse(s)
<1> USE DEF DeleteInv, SerialInv
<1>1. PICK i \in Ids : i = call[s].id
  BY CallIdType
<1>3. /\ Asked[s].op = call[s].op /\ Asked[s].id = i
      /\ Asked[s] # [op |-> "none"]
      /\ Hand[s] = [mem[s] EXCEPT ![i] = call[s].was]
  BY <1>1, CallerSees
<1>4. Asked'[s] = [op |-> "none"] /\ Hand'[s] = mem'[s]
  BY CallerSeesNext
<1>5. Asked' = [Asked EXCEPT ![s] = [op |-> "none"]] /\ Hand' = [Hand EXCEPT ![s] = mem'[s]]
  BY <1>4, OthersSee
<1>6. ASSUME NEW v, mem'[s] = [mem[s] EXCEPT ![i] = v] PROVE Hand' = [Hand EXCEPT ![s][i] = v]
  <2>1. mem'[s] = [Hand[s] EXCEPT ![i] = v]
    BY <1>3, <1>6 DEF TypeOK
  <2>. QED  BY <1>5, <2>1
<1>10. Serial!Returns(s, TRUE)
  BY DEF Serial!Returns, Returns
<1>7. CASE mem'[s] = mem[s] /\ ~Drawn(s)
  <2>1. mem[s][i] = call[s].was
    BY <1>1, <1>7 DEF Drawn, Local, Passed, InCall
  <2>2. Hand[s] = mem[s]
    BY <1>3, <2>1 DEF TypeOK
  <2>3. Hand' = Hand
    BY <1>5, <1>7, <2>2 DEF Hand
  <2>. QED  BY <1>3, <1>5, <1>10, <2>3
               DEF Serial!Refuse, Serial!Idle, Serial!NoRequest, Serial!Done
<1>8. CASE mem'[s] = mem[s] /\ Drawn(s)
  <2>1. PICK v : v = mem[s][i]
    OBVIOUS
  <2>2. Serial!New(i, v) /\ v \in AllVersions
    BY <1>1, <1>8, <2>1, DrawnIsNew
  <2>3. mem'[s] = [mem[s] EXCEPT ![i] = v]
    BY <1>8, <2>1 DEF TypeOK
  <2>4. Hand' = [Hand EXCEPT ![s][i] = v]
    BY <1>6, <2>3
  <2>. QED  BY <1>3, <1>5, <1>10, <2>2, <2>4
               DEF Serial!Refuse, Serial!Idle, Serial!NoRequest, Serial!Done, AllVersions
<1>9. CASE /\ call[s].op = "replace"
           /\ mem'[s] = [mem[s] EXCEPT ![call[s].id] = Serial!Seen(s)[call[s].id]]
  <2>1. PICK v : v = Serial!Seen(s)[i]
    OBVIOUS
  <2>2. Hand' = [Hand EXCEPT ![s][i] = v]
    BY <1>1, <1>6, <1>9, <2>1
  <2>. QED  BY <1>3, <1>5, <1>9, <1>10, <2>1, <2>2
               DEF Serial!Refuse, Serial!Idle, Serial!NoRequest, Serial!Done
<1>. QED  BY <1>7, <1>8, <1>9

(* A call begins.                                                           *)
LEMMA MapsToAsk ==
    ASSUME DeleteInv, SerialInv, TypeOK', NEW s \in Sessions, Calling(s), pc[s] = "idle",
           NEW op \in Writes, NEW i \in Ids, NEW force \in BOOLEAN, NEW at,
           Start(s, op, i, force, at), at \in {"begin", "check", "put"},
           UNCHANGED <<row, txn, buf, how>>,
           \A j \in Ids \ {i} : mem'[s][j] = mem[s][j]
    PROVE  Serial!Ask(s)
<1> USE DEF DeleteInv, SerialInv
<1>1. /\ pc'[s] = at
      /\ call'[s].op = op /\ call'[s].id = i /\ call'[s].force = force
      /\ call'[s].was = mem[s][i]
  BY StartSets
<1>2. ~InCall(s) /\ InCall(s)'
  BY <1>1 DEF InCall, Writes
<1>3. Asked[s] = [op |-> "none"] /\ Hand[s] = mem[s]
  BY <1>2, CallerSees
<1>4. PICK q : q = [op |-> op, id |-> i, force |-> force]
  OBVIOUS
<1>5. Asked'[s] = q
  BY <1>1, <1>2, <1>4, CallerSeesNext
<1>6. Hand'[s] = mem[s]
  <2>1. Hand'[s] = [mem'[s] EXCEPT ![i] = mem[s][i]]
    BY <1>1, <1>2, CallerSeesNext
  <2>. QED  BY <2>1 DEF TypeOK
<1>7. Asked' = [Asked EXCEPT ![s] = q] /\ Hand' = [Hand EXCEPT ![s] = mem[s]]
  BY <1>5, <1>6, OthersSee
<1>8. Hand' = Hand
  BY <1>3, <1>7 DEF Hand
<1>9. Owner' = Owner
  BY OwnerStays
<1>10. Working' = Working
  BY <1>9, WorkingStays
<1>11. q \in Serial!Requests
  BY <1>4 DEF Serial!Requests, Writes
<1>12. Serial!Returns(s, FALSE)
  <2>1. (at = "fail") = FALSE
    OBVIOUS
  <2>. QED  BY <2>1 DEF Start, Returns, Serial!Returns
<1>. QED  BY <1>3, <1>7, <1>8, <1>9, <1>10, <1>11, <1>12 DEF Serial!Ask, Serial!Idle, Serial!NoRequest

(* What a statement sees is the transaction of the application that is open,
   or the committed rows.                                                   *)
LEMMA SeenIsView ==
    ASSUME DeleteInv, SerialInv, NEW s \in Sessions, NEW i \in Ids,
           txn[s] = "auto" => pc[s] # "commit"
    PROVE  Serial!Seen(s)[i] = View(s, i)
<1> USE DEF DeleteInv, SerialInv
<1>1. CASE txn[s] = "app"
  <2>1. Owner = s
    BY <1>1, OwnerIs
  <2>2. Working = Published(s)
    BY <2>1 DEF Working
  <2>. QED  BY <2>1, <2>2 DEF Serial!Seen, Published
<1>2. CASE txn[s] # "app"
  <2>1. Owner # s
    BY <1>2, OwnerIs
  <2>2. how[s][i] = "clean"
    BY <1>2 DEF Local, AutoOne, SQLiteInv, DirtyInTx, TypeOK
  <2>. QED  BY <2>1, <2>2 DEF Serial!Seen, View
<1>. QED  BY <1>1, <1>2

LEMMA MapsToLoad ==
    ASSUME DeleteInv, SerialInv, TypeOK', NEW s \in Sessions, Calling(s), NEW i \in Ids,
           pc[s] = "idle", Exists(s, i), mem' = [mem EXCEPT ![s][i] = View(s, i)],
           UNCHANGED <<row, pc, call, txn, buf, how>>, Returns(s, FALSE)
    PROVE  Serial!Load(s, i)
<1> USE DEF DeleteInv, SerialInv
<1>1. ~InCall(s) /\ ~InCall(s)'
  BY DEF InCall
<1>2. Asked[s] = [op |-> "none"] /\ Hand[s] = mem[s]
  BY <1>1, CallerSees
<1>3. Asked'[s] = [op |-> "none"] /\ Hand'[s] = mem'[s]
  BY <1>1, CallerSeesNext
<1>4. Asked' = [Asked EXCEPT ![s] = [op |-> "none"]] /\ Hand' = [Hand EXCEPT ![s] = mem'[s]]
  BY <1>3, OthersSee
<1>5. Asked' = Asked
  BY <1>2, <1>4 DEF Asked
<1>6. PICK v : v = View(s, i)
  OBVIOUS
<1>7. Serial!Seen(s)[i] = v
  BY <1>6, SeenIsView DEF Local, Shape
<1>8. mem'[s] = [Hand[s] EXCEPT ![i] = v]
  BY <1>2, <1>6 DEF TypeOK
<1>9. Hand' = [Hand EXCEPT ![s][i] = v]
  BY <1>4, <1>8
<1>10. v # NoRow
  BY <1>6 DEF Exists, NoRow
<1>11. Owner' = Owner
  BY OwnerStays
<1>12. Working' = Working
  BY <1>11, WorkingStays
<1>. QED  BY <1>2, <1>5, <1>7, <1>9, <1>10, <1>11, <1>12
             DEF Serial!Load, Serial!Idle, Serial!NoRequest, Serial!Returns, Returns

(* A step its caller does not see.                                          *)
LEMMA MapsToNothing ==
    ASSUME DeleteInv, TypeOK', NEW s \in Sessions, Calling(s) \/ Running(s),
           Asked'[s] = Asked[s], Hand'[s] = Hand[s], err' = err,
           row' = row, Owner' = Owner, Working' = Working
    PROVE  UNCHANGED Serial!svars
<1>1. Asked' = [Asked EXCEPT ![s] = Asked[s]] /\ Hand' = [Hand EXCEPT ![s] = Hand[s]]
  BY OthersSee DEF DeleteInv
<1>2. Asked' = Asked /\ Hand' = Hand
  BY <1>1 DEF Asked, Hand
<1>. QED  BY <1>2 DEF Serial!svars

LEMMA CallingRefines ==
    ASSUME DeleteInv, SerialInv, SQLite, TypeOK', NEW s \in Sessions, Calling(s)
    PROVE  Serial!NextSerial \/ UNCHANGED Serial!svars
<1> USE DEF store, pending
<1>0. TypeOK /\ FreshInv /\ SQLiteInv
  BY DEF DeleteInv
<1>1. CASE RunInTransaction(s)
  <2>1. /\ pc[s] = "idle" /\ call[s].op = "tx" /\ pc'[s] = "begin" /\ call'[s] = call[s]
        /\ UNCHANGED <<row, txn, mem, buf, how, err>>
    BY <1>0, <1>1, GoToSets DEF RunInTransaction, FreshInv, CallOld
  <2>2. ~InCall(s) /\ ~InCall(s)'
    BY <2>1 DEF InCall
  <2>3. Asked'[s] = Asked[s] /\ Hand'[s] = Hand[s]
    BY <1>0, <2>1, <2>2, CallerSees, CallerSeesNext
  <2>4. Owner' = Owner
    BY <2>1, OwnerStays
  <2>5. Working' = Working
    BY <1>0, <2>1, <2>4, WorkingStays
  <2>. QED  BY <2>1, <2>3, <2>4, <2>5, MapsToNothing
<1>2. ASSUME NEW i \in Ids, FindByID(s, i) \/ LockByID(s, i) PROVE Serial!NextSerial
  <2>1. Serial!Load(s, i)
    BY <1>2, MapsToLoad DEF FindByID, LockByID, GrantLock
  <2>. QED  BY <2>1 DEF Serial!NextSerial
<1>3. ASSUME NEW i \in Ids, Insert(s, i) PROVE Serial!NextSerial
  <2>1. /\ Start(s, "insert", i, FALSE, "put") /\ pc[s] = "idle"
        /\ UNCHANGED <<row, txn, buf, how>>
        /\ \A j \in Ids \ {i} : mem'[s][j] = mem[s][j]
    BY <1>0, <1>3 DEF Insert, TypeOK
  <2>2. Serial!Ask(s)
    BY <2>1, MapsToAsk, ZenonT(60) DEF Writes
  <2>. QED  BY <2>2 DEF Serial!NextSerial
<1>4. ASSUME NEW i \in Ids, HardDelete(s, i) PROVE Serial!NextSerial
  <2>1. /\ Start(s, "hard", i, TRUE, "put") /\ pc[s] = "idle"
        /\ UNCHANGED <<row, txn, buf, how>>
        /\ \A j \in Ids \ {i} : mem'[s][j] = mem[s][j]
    BY <1>4 DEF HardDelete
  <2>2. Serial!Ask(s)
    BY <2>1, MapsToAsk, ZenonT(60) DEF Writes
  <2>. QED  BY <2>2 DEF Serial!NextSerial
<1>5. ASSUME NEW i \in Ids, Replace(s, i) PROVE Serial!NextSerial
  <2>1. /\ Start(s, "replace", i, TRUE, RunOnScope(s)) /\ pc[s] = "idle"
        /\ UNCHANGED <<row, txn, buf, how>>
        /\ \A j \in Ids \ {i} : mem'[s][j] = mem[s][j]
    BY <1>5 DEF Replace
  <2>2. RunOnScope(s) \in {"begin", "check", "put"}
    BY DEF RunOnScope
  <2>3. Serial!Ask(s)
    BY <2>1, <2>2, MapsToAsk, ZenonT(60) DEF Writes
  <2>. QED  BY <2>3 DEF Serial!NextSerial
<1>6. ASSUME NEW i \in Ids, NEW mode \in Modes, LockByIDBlocked(s, i, mode) PROVE FALSE
  BY <1>6 DEF LockByIDBlocked, LockedByOther
<1>7. ASSUME NEW i \in Ids, NEW force \in BOOLEAN, Save(s, i, force) \/ Restore(s, i, force) \/ SoftDelete(s, i, force)
      PROVE  Serial!NextSerial
  <2>1. /\ \/ Start(s, "save", i, force, AutoWrap(s, force))
           \/ Start(s, "restore", i, force, AutoWrap(s, force))
           \/ Start(s, "soft", i, force, AutoWrap(s, force))
        /\ pc[s] = "idle"
        /\ UNCHANGED <<row, txn, buf, how>>
        /\ \A j \in Ids \ {i} : mem'[s][j] = mem[s][j]
    BY <1>7 DEF Save, Restore, SoftDelete
  <2>2. AutoWrap(s, force) \in {"begin", "check", "put"}
    BY DEF AutoWrap
  <2>3. Serial!Ask(s)
    BY <2>1, <2>2, MapsToAsk, ZenonT(60) DEF Writes
  <2>. QED  BY <2>3 DEF Serial!NextSerial
<1>. QED  BY <1>1, <1>2, <1>3, <1>4, <1>5, <1>6, <1>7 DEF Calling

(* An error, whatever becomes of Den's own transaction.                     *)
LEMMA ErrorRefines ==
    ASSUME DeleteInv, SerialInv, TypeOK', NEW s \in Sessions, Running(s), NEW at, GoTo(s, at),
           at \in {"idle", "fail"}, InCall(s), row' = row, Working' = Working, Owner' = Owner,
           Returns(s, TRUE),
           \/ mem'[s] = mem[s]
           \/ /\ call[s].op = "replace"
              /\ mem'[s] = [mem[s] EXCEPT ![call[s].id] = Serial!Seen(s)[call[s].id]]
    PROVE  Serial!NextSerial
<1>1. pc'[s] = at
  BY GoToSets DEF DeleteInv
<1>2. ~InCall(s)'
  BY <1>1 DEF InCall
<1>3. Serial!Refuse(s)
  BY <1>2, MapsToRefuse
<1>. QED  BY <1>3 DEF Serial!NextSerial

LEMMA OpeningRefines ==
    ASSUME DeleteInv, SerialInv, SQLite, TypeOK', SQLiteInv', NEW s \in Sessions, Opening(s)
    PROVE  Serial!NextSerial \/ UNCHANGED Serial!svars
<1> USE DEF store, pending
<1>0. /\ TypeOK /\ FreshInv /\ SQLiteInv /\ Running(s) /\ pc[s] = "begin" /\ Shape(s)
      /\ Passed(s) /\ Said
  BY DEF DeleteInv, SerialInv, Local, Running, Opening, Begin, BeginFails
<1>1. CASE Begin(s)
  <2>1. \A t \in Sessions : txn[t] = "none"
    BY <1>0, <1>1 DEF SQLiteInv, TxHoldsLock, Begin, CanBegin
  <2>2. Owner = Nobody /\ Working = row
    BY <1>0, <2>1, OwnerIs DEF Working
  <2>3. \A t \in Sessions \ {s} : txn'[t] = txn[t]
    BY <1>0, OthersStay
  <2>4. UNCHANGED <<row, mem, buf, how>>
    BY <1>1 DEF Begin
  <2>5. CASE call[s].op = "tx"
    <3>1. GoTo(s, "idle") /\ txn'[s] = "app"
      BY <1>0, <1>1, <2>5 DEF Begin, TypeOK
    <3>2. pc'[s] = "idle"
      BY <1>0, <3>1, GoToSets
    <3>3. ~InCall(s) /\ ~InCall(s)'
      BY <2>5, <3>2 DEF InCall
    <3>4. Asked[s] = [op |-> "none"] /\ Hand[s] = mem[s]
      BY <1>0, <3>3, CallerSees
    <3>5. Asked'[s] = Asked[s] /\ Hand'[s] = Hand[s]
      BY <2>4, <3>3, <3>4, CallerSeesNext
    <3>6. Asked' = [Asked EXCEPT ![s] = Asked[s]] /\ Hand' = [Hand EXCEPT ![s] = Hand[s]]
      BY <1>0, <3>5, OthersSee
    <3>7. Asked' = Asked /\ Hand' = Hand
      BY <3>6 DEF Asked, Hand
    <3>8. Owner' = s /\ s # Nobody
      BY <3>1, OwnerNext
    <3>9. Published(s)' = row
      <4>1. \A i \in Ids : how[s][i] = "clean"
        BY <1>0, <2>1 DEF SQLiteInv, DirtyInTx
      <4>2. \A i \in Ids : View(s, i)' = row[i]
        BY <2>4, <4>1 DEF View
      <4>. QED  BY <1>0, <4>2 DEF Published, TypeOK
    <3>10. Working' = row
      <4>1. Working' = Published(s)'
        BY <3>8 DEF Working
      <4>. QED  BY <3>9, <4>1
    <3>12. Serial!Returns(s, FALSE)
      BY <1>1 DEF Begin, Returns, Serial!Returns
    <3>11. Serial!Open(s)
      BY <2>2, <2>4, <3>4, <3>7, <3>8, <3>10, <3>12 DEF Serial!Open, Serial!Idle, Serial!NoRequest
    <3>. QED  BY <3>11 DEF Serial!NextSerial
  <2>6. CASE call[s].op # "tx"
    <3>1. GoTo(s, "check") /\ txn'[s] = "auto"
      BY <1>0, <1>1, <2>6 DEF Begin, TypeOK
    <3>2. pc'[s] = "check" /\ call'[s] = call[s]
      BY <1>0, <3>1, GoToSets
    <3>3. InCall(s) /\ InCall(s)'
      BY <1>0, <2>6, <3>2 DEF InCall
    <3>4. Asked'[s] = Asked[s]
      BY <3>2, <3>3 DEF Asked
    <3>5. Hand'[s] = Hand[s]
      BY <2>4, <3>2, <3>3 DEF Hand
    <3>6. Owner' = Owner
      BY <2>1, <2>3, <3>1, OwnerStays
    <3>7. Working' = Working
      BY <1>0, <2>4, <3>6, WorkingStays
    <3>8. err' = err
      <4>1. err[s] = FALSE
        BY <1>0, <3>3 DEF Said, TypeOK
      <4>. QED  BY <1>0, <1>1, <4>1 DEF Begin, Returns, TypeOK
    <3>. QED  BY <1>0, <2>4, <3>4, <3>5, <3>6, <3>7, <3>8, MapsToNothing
  <2>. QED  BY <2>5, <2>6
<1>2. CASE BeginFails(s)
  <2>1. GoTo(s, "idle") /\ UNCHANGED <<row, mem, txn, buf, how>>
    BY <1>2 DEF BeginFails
  <2>2. pc'[s] = "idle"
    BY <1>0, <2>1, GoToSets
  <2>3. ~InCall(s)'
    BY <2>2 DEF InCall
  <2>4. Owner' = Owner
    BY <2>1, OwnerStays
  <2>5. Working' = Working
    BY <1>0, <2>1, <2>4, WorkingStays
  <2>6. CASE InCall(s)
    <3>1. Returns(s, TRUE)
      BY <1>2, <2>6 DEF BeginFails, InCall
    <3>. QED  BY <1>0, <2>1, <2>4, <2>5, <2>6, <3>1, ErrorRefines
  <2>7. CASE ~InCall(s)
    <3>1. Asked'[s] = Asked[s] /\ Hand'[s] = Hand[s]
      BY <1>0, <2>1, <2>3, <2>7, CallerSees, CallerSeesNext
    <3>2. err' = err
      BY <1>0, <1>2, <2>7 DEF BeginFails, InCall
    <3>. QED  BY <1>0, <2>1, <2>4, <2>5, <3>1, <3>2, MapsToNothing
  <2>. QED  BY <2>6, <2>7
<1>. QED  BY <1>1, <1>2 DEF Opening

LEMMA CheckingRefines ==
    ASSUME DeleteInv, SerialInv, SQLite, TypeOK', NEW s \in Sessions, Checking(s)
    PROVE  Serial!NextSerial \/ UNCHANGED Serial!svars
<1> USE DEF store, pending
<1>0. /\ TypeOK /\ SQLiteInv /\ Running(s) /\ pc[s] = "check" /\ Shape(s) /\ Passed(s)
      /\ call[s].id \in Ids /\ KeepInv
  BY CallIdType DEF DeleteInv, SerialInv, Local, Running, Checking, Check, CheckFails
<1>1. InCall(s)
  BY <1>0 DEF InCall, Shape, Writes
<1>2. UNCHANGED <<row, txn, buf, how>>
  BY DEF Checking, Check, CheckFails
<1>3. Owner' = Owner
  BY <1>2, OwnerStays
<1>4. Working' = Working
  BY <1>0, <1>2, <1>3, WorkingStays
<1>5. CASE Check(s)
  <2>1. /\ pc'[s] = "put"
        /\ call'[s].op = call[s].op /\ call'[s].id = call[s].id
        /\ call'[s].force = call[s].force /\ call'[s].was = call[s].was
        /\ \A i \in Ids \ {call[s].id} : mem'[s][i] = mem[s][i]
    BY <1>0, <1>5, CheckSets
  <2>2. InCall(s)'
    BY <1>1, <2>1 DEF InCall
  <2>3. Asked'[s] = Asked[s]
    BY <1>1, <2>1, <2>2 DEF Asked
  <2>4. Hand'[s] = Hand[s]
    BY <1>1, <2>1, <2>2 DEF Hand
  <2>5. err' = err
    BY <1>5 DEF Check
  <2>. QED  BY <1>0, <1>2, <1>3, <1>4, <2>3, <2>4, <2>5, MapsToNothing
<1>6. CASE CheckFails(s)
  <2>1. GoTo(s, AfterError(s)) /\ AfterError(s) \in {"idle", "fail"} /\ Returns(s, TRUE)
    BY <1>6 DEF CheckFails, AfterError
  <2>2. CASE mem' = mem
    BY <1>0, <1>1, <1>2, <1>3, <1>4, <2>1, <2>2, ErrorRefines
  <2>3. CASE call[s].op = "replace" /\ mem' = [mem EXCEPT ![s][call[s].id] = View(s, call[s].id)]
    <3>1. Serial!Seen(s)[call[s].id] = View(s, call[s].id)
      BY <1>0, SeenIsView
    <3>2. mem'[s] = [mem[s] EXCEPT ![call[s].id] = Serial!Seen(s)[call[s].id]]
      BY <1>0, <2>3, <3>1 DEF TypeOK
    <3>. QED  BY <1>0, <1>1, <1>2, <1>3, <1>4, <2>1, <2>3, <3>2, ErrorRefines
  <2>. QED  BY <1>6, <2>2, <2>3 DEF CheckFails
<1>. QED  BY <1>5, <1>6 DEF Checking

LEMMA WritingRefines ==
    ASSUME DeleteInv, SerialInv, SQLite, TypeOK', NEW s \in Sessions, Writing(s)
    PROVE  Serial!NextSerial \/ UNCHANGED Serial!svars
<1> USE DEF store, pending
<1>0. /\ TypeOK /\ SQLiteInv /\ Running(s) /\ pc[s] = "put" /\ Shape(s) /\ AutoOne(s)
      /\ call[s].id \in Ids /\ KeepInv
  BY CallIdType
     DEF DeleteInv, SerialInv, Local, Running, Writing, WriteAutocommit, WriteInTx, WriteFails
<1>1. InCall(s)
  BY <1>0 DEF InCall, Shape, Writes
<1>2. txn' = txn /\ mem' = mem
  BY DEF Writing, WriteAutocommit, WriteInTx, WriteFails
<1>3. Owner' = Owner
  BY <1>2, OwnerStays
<1>4. Replaced(s) = View(s, call[s].id)
  BY <1>0 DEF Replaced
<1>5. CASE WriteAutocommit(s)
  <2>1. \A t \in Sessions : txn[t] = "none"
    BY <1>0, <1>5
       DEF SQLiteInv, TxHoldsLock, WriteAutocommit, CanWrite, MayWrite, NothingToDelete
  <2>2. Owner = Nobody /\ Owner # s
    BY <1>0, <2>1, OwnerIs
  <2>3. Working = row /\ Working' = row'
    BY <1>3, <2>2 DEF Working
  <2>4. how[s][call[s].id] = "clean"
    BY <1>0, <2>1 DEF SQLiteInv, DirtyInTx
  <2>5. Working[call[s].id] = Replaced(s)
    BY <1>4, <2>3, <2>4 DEF View
  <2>6. row' = [row EXCEPT ![call[s].id] = Written(s)] /\ GoTo(s, "idle")
    BY <1>5 DEF WriteAutocommit
  <2>7. ~InCall(s)'
    BY <1>0, <2>6, GoToSets DEF InCall
  <2>9. PICK e \in BOOLEAN : Returns(s, e)
    BY <1>5 DEF WriteAutocommit, AfterHooks
  <2>10. \/ call[s].op \in {"insert", "soft", "hard"}
         \/ call[s].op # "replace" /\ call[s].force
    <3>1. HowOf(s) \notin CheckedHows /\ HowOf(s) # "replace"
      BY <1>0, <2>1 DEF SQLiteInv, CheckedInTx, KeepInv, ReplaceInTx
    <3>. QED  BY <1>0, <3>1 DEF HowOf, Shape, Writes
  <2>8. Serial!Perform(s)
    BY <1>0, <1>2, <1>3, <2>2, <2>3, <2>5, <2>6, <2>7, <2>9, <2>10, MapsToPerform
  <2>. QED  BY <2>8 DEF Serial!NextSerial
<1>6. CASE WriteInTx(s)
  <2>1. row' = row /\ txn[s] # "none"
    BY <1>6 DEF WriteInTx
  <2>2. /\ how' = [how EXCEPT ![s][call[s].id] = MergeHow(how[s][call[s].id], HowOf(s))]
        /\ buf' = [buf EXCEPT ![s][call[s].id] = Written(s)]
    BY <1>6 DEF WriteInTx, NothingToDelete
  <2>3. CASE txn[s] = "app"
    <3>1. Owner = s /\ s # Nobody
      BY <1>0, <2>3, OwnerIs
    <3>2. Working = Published(s)
      BY <3>1 DEF Working
    <3>3. Working' = Published(s)'
      BY <1>3, <3>1 DEF Working
    <3>4. MergeHow(how[s][call[s].id], HowOf(s)) # "clean"
      <4>1. HowOf(s) # "clean"
        BY DEF HowOf
      <4>. QED  BY <4>1 DEF MergeHow
    <3>6. \A i \in Ids \ {call[s].id} : View(s, i)' = View(s, i)
      BY <1>0, <2>1, <2>2 DEF View, TypeOK
    <3>7. Published(s)' = [Published(s) EXCEPT ![call[s].id] = Written(s)]
      <4>0. PICK k \in Ids : k = call[s].id
        BY <1>0
      <4>1. PICK w : w = Written(s)
        OBVIOUS
      <4>2. \A i \in Ids : View(s, i)' = IF i = k THEN w ELSE View(s, i)
        <5> SUFFICES ASSUME NEW i \in Ids PROVE View(s, i)' = IF i = k THEN w ELSE View(s, i)
          OBVIOUS
        <5>1. CASE i # k
          BY <3>6, <4>0, <4>1, <5>1
        <5>2. CASE i = k
          <6>1. how'[s][k] # "clean" /\ buf'[s][k] = w
            BY <1>0, <2>2, <3>4, <4>0, <4>1 DEF TypeOK
          <6>. QED  BY <5>2, <6>1 DEF View
        <5>. QED  BY <5>1, <5>2
      <4>3. Published(s)' = [i \in Ids |-> IF i = k THEN w ELSE View(s, i)]
        BY <4>2 DEF Published
      <4>. QED  BY <4>0, <4>1, <4>3 DEF Published
    <3>8. Working[call[s].id] = Replaced(s)
      BY <1>0, <1>4, <3>2 DEF Published
    <3>9. GoTo(s, "idle")
      BY <1>6, <2>3 DEF WriteInTx
    <3>10. ~InCall(s)'
      BY <1>0, <3>9, GoToSets DEF InCall
    <3>12. PICK e \in BOOLEAN : Returns(s, e)
      BY <1>6, <2>3 DEF WriteInTx, AfterHooks
    <3>11. Serial!Perform(s)
      BY <1>0, <1>2, <1>3, <2>1, <3>1, <3>2, <3>3, <3>7, <3>8, <3>10, <3>12, MapsToPerform
    <3>. QED  BY <3>11 DEF Serial!NextSerial
  <2>4. CASE txn[s] # "app"
    <3>1. txn[s] = "auto"
      BY <1>0, <2>1, <2>4 DEF TypeOK
    <3>2. GoTo(s, "commit")
      BY <1>6, <3>1 DEF WriteInTx
    <3>3. pc'[s] = "commit" /\ call'[s] = call[s]
      BY <1>0, <3>2, GoToSets
    <3>4. InCall(s)'
      BY <1>1, <3>3 DEF InCall
    <3>5. Asked'[s] = Asked[s]
      BY <1>1, <3>3, <3>4 DEF Asked
    <3>6. Hand'[s] = Hand[s]
      BY <1>1, <1>2, <3>3, <3>4 DEF Hand
    <3>7. Owner = Nobody
      <4>1. \A t \in Sessions : txn[t] # "app"
        BY <1>0, <3>1, OneTx
      <4>. QED  BY <1>0, <4>1, OwnerIs
    <3>8. Working' = Working
      BY <1>3, <2>1, <3>7 DEF Working
    <3>9. err' = err
      BY <1>6, <3>1 DEF WriteInTx
    <3>. QED  BY <1>0, <1>3, <2>1, <3>5, <3>6, <3>8, <3>9, MapsToNothing
  <2>. QED  BY <2>3, <2>4
<1>7. CASE WriteFails(s)
  <2>1. /\ GoTo(s, AfterError(s)) /\ AfterError(s) \in {"idle", "fail"}
        /\ UNCHANGED <<row, buf, how>> /\ Returns(s, TRUE)
    BY <1>7 DEF WriteFails, AfterError
  <2>2. Working' = Working
    BY <1>0, <1>3, <2>1, WorkingStays
  <2>. QED  BY <1>0, <1>1, <1>2, <1>3, <2>1, <2>2, ErrorRefines
<1>. QED  BY <1>5, <1>6, <1>7 DEF Writing

LEMMA EndingRefines ==
    ASSUME DeleteInv, SerialInv, SQLite, TypeOK', SQLiteInv', NEW s \in Sessions, Ending(s)
    PROVE  Serial!NextSerial \/ UNCHANGED Serial!svars
<1>0. /\ TypeOK /\ SQLiteInv /\ Running(s) /\ Forget(s) /\ mem' = mem /\ Shape(s) /\ AutoOne(s)
      /\ call[s].id \in Ids /\ GoTo(s, "idle")
  BY CallIdType DEF DeleteInv, SerialInv, Local, Running, Ending, Commit, Rollback, Forget
<1>1. pc'[s] = "idle" /\ txn'[s] = "none"
  BY <1>0, GoToSets DEF Forget, TypeOK
<1>2. ~InCall(s)'
  BY <1>1 DEF InCall
<1>3. \A t \in Sessions \ {s} : txn'[t] = txn[t]
  BY <1>0, OthersStay
<1>4. pc[s] \in {"commit", "fail"} \/ (pc[s] = "idle" /\ txn[s] = "app")
  BY DEF Ending, Commit, Rollback
<1>5. CASE pc[s] \in {"commit", "fail"}
  <2>1. txn[s] = "auto" /\ \A t \in Sessions : txn[t] # "app" /\ txn'[t] # "app"
    BY <1>0, <1>1, <1>3, <1>5, OneTx DEF Shape
  <2>2. Owner = Nobody /\ Owner' = Nobody
    BY <1>0, <2>1, OwnerIs, OwnerNext
  <2>3. Working = row /\ Working' = row'
    BY <2>2 DEF Working
  <2>4. CASE Commit(s) /\ pc[s] = "commit"
    <3>1. InCall(s) /\ call[s].op # "hard"
      BY <1>0, <2>4 DEF InCall, Shape, Writes
    <3>0. PICK k \in Ids : k = call[s].id
      BY <1>0
    <3>2. PICK w : w = mem[s][k]
      OBVIOUS
    <3>3. \A i \in Ids : View(s, i) = IF i = k THEN w ELSE row[i]
      BY <1>0, <2>1, <2>4, <3>0, <3>2 DEF AutoOne, View
    <3>4. row' = [i \in Ids |-> IF i = k THEN w ELSE row[i]]
      BY <2>4, <3>3 DEF Commit, Published
    <3>5. row' = [row EXCEPT ![k] = w]
      BY <1>0, <3>4 DEF TypeOK
    <3>6. Written(s) = w
      BY <3>1, <3>0, <3>2 DEF Written
    <3>7. Working' = [Working EXCEPT ![call[s].id] = Written(s)]
      BY <2>3, <3>0, <3>2, <3>5, <3>6
    <3>8. Working[call[s].id] = Replaced(s)
      BY <2>3, <2>4 DEF Replaced
    <3>9. Owner # s
      BY <2>2
    <3>11. PICK e \in BOOLEAN : Returns(s, e) /\ (e => call[s].op = "soft")
      BY <2>4 DEF Commit, AfterHooks
    <3>10. Serial!Perform(s)
      BY <1>0, <1>2, <2>2, <2>3, <2>4, <3>7, <3>8, <3>9, <3>11, MapsToPerform
    <3>. QED  BY <3>10 DEF Serial!NextSerial
  <2>5. CASE Rollback(s) /\ pc[s] = "commit"
    <3>1. InCall(s)
      BY <1>0, <2>5 DEF InCall, Shape, Writes
    <3>2. row' = row
      BY <2>5 DEF Rollback
    <3>3. Returns(s, TRUE)
      <4>1. (txn[s] = "auto") = TRUE
        BY <2>1
      <4>. QED  BY <2>5, <4>1 DEF Rollback
    <3>. QED  BY <1>0, <2>2, <2>3, <3>1, <3>2, <3>3, ErrorRefines
  <2>6. CASE pc[s] = "fail"
    <3>1. row' = row
      BY <2>6 DEF Ending, Commit, Rollback
    <3>2. ~InCall(s)
      BY <2>6 DEF InCall
    <3>3. Asked'[s] = Asked[s] /\ Hand'[s] = Hand[s]
      BY <1>0, <1>2, <3>2, CallerSees, CallerSeesNext
    <3>4. err' = err
      <4>1. (txn[s] = "auto") = TRUE /\ Rollback(s)
        BY <2>1, <2>6 DEF Ending, Commit
      <4>2. err[s] = TRUE
        BY <1>0, <2>6 DEF SerialInv, Said, TypeOK
      <4>3. err' = [err EXCEPT ![s] = TRUE]
        BY <4>1 DEF Rollback, Returns
      <4>. QED  BY <1>0, <4>2, <4>3 DEF TypeOK
    <3>. QED  BY <1>0, <2>2, <2>3, <3>1, <3>3, <3>4, MapsToNothing
  <2>. QED  BY <1>5, <2>4, <2>5, <2>6 DEF Ending
<1>6. CASE pc[s] = "idle" /\ txn[s] = "app"
  <2>1. Owner = s /\ s # Nobody
    BY <1>0, <1>6, OwnerIs
  <2>2. \A t \in Sessions : txn'[t] # "app"
    BY <1>0, <1>1, <1>3, <1>6, OneTx
  <2>3. Owner' = Nobody
    BY <2>2, OwnerNext
  <2>4. Working = Published(s)
    BY <2>1 DEF Working
  <2>5. Working' = row'
    BY <2>3 DEF Working
  <2>6. ~InCall(s)
    BY <1>6 DEF InCall
  <2>7. Asked[s] = [op |-> "none"] /\ Hand[s] = mem[s]
    BY <1>0, <2>6, CallerSees
  <2>8. Asked'[s] = Asked[s] /\ Hand'[s] = Hand[s]
    BY <1>0, <1>2, <2>7, CallerSeesNext
  <2>9. Asked' = [Asked EXCEPT ![s] = Asked[s]] /\ Hand' = [Hand EXCEPT ![s] = Hand[s]]
    BY <1>0, <2>8, OthersSee
  <2>10. Asked' = Asked /\ Hand' = Hand
    BY <2>9 DEF Asked, Hand
  <2>11. CASE Commit(s)
    <3>1. row' = Working
      BY <2>4, <2>11 DEF Commit
    <3>3. Serial!Returns(s, FALSE)
      BY <1>6, <2>11 DEF Commit, Returns, Serial!Returns
    <3>2. Serial!Commit(s)
      BY <2>1, <2>3, <2>5, <2>7, <2>10, <3>1, <3>3 DEF Serial!Commit, Serial!Idle, Serial!NoRequest
    <3>. QED  BY <3>2 DEF Serial!NextSerial
  <2>12. CASE Rollback(s)
    <3>1. row' = row
      BY <2>12 DEF Rollback
    <3>3. Serial!Returns(s, FALSE)
      <4>1. (txn[s] = "auto") = FALSE
        BY <1>6
      <4>. QED  BY <2>12, <4>1 DEF Rollback, Returns, Serial!Returns
    <3>2. Serial!Abort(s)
      BY <2>1, <2>3, <2>5, <2>7, <2>10, <3>1, <3>3 DEF Serial!Abort, Serial!Idle, Serial!NoRequest
    <3>. QED  BY <3>2 DEF Serial!NextSerial
  <2>. QED  BY <2>11, <2>12 DEF Ending
<1>. QED  BY <1>4, <1>5, <1>6

LEMMA CrashRefines ==
    ASSUME DeleteInv, SerialInv, SQLite, TypeOK', SQLiteInv', NEW s \in Sessions, Crash(s)
    PROVE  Serial!NextSerial
<1>0. TypeOK /\ SQLiteInv /\ Running(s) /\ Forget(s) /\ row' = row /\ GoTo(s, "idle")
  BY DEF DeleteInv, Running, Crash, Forget
<1>1. pc'[s] = "idle" /\ txn'[s] = "none"
  BY <1>0, GoToSets DEF Forget, TypeOK
<1>2. ~InCall(s)'
  BY <1>1 DEF InCall
<1>3. \A t \in Sessions \ {s} : txn'[t] = txn[t] /\ how'[t] = how[t] /\ buf'[t] = buf[t]
  BY <1>0, OthersStay
<1>4. mem'[s] = [i \in Ids |-> NoRow]
  BY <1>0 DEF Crash, TypeOK
<1>5. Asked'[s] = [op |-> "none"] /\ Hand'[s] = [i \in Ids |-> NoRow]
  BY <1>2, <1>4, CallerSeesNext
<1>6. PICK e : e = [i \in Ids |-> NoRow]
  OBVIOUS
<1>7. /\ Asked' = [Asked EXCEPT ![s] = [op |-> "none"]]
      /\ Hand' = [Hand EXCEPT ![s] = e]
  BY <1>0, <1>5, <1>6, OthersSee
<1>10. Serial!Returns(s, FALSE)
  BY DEF Crash, Returns, Serial!Returns
<1>8. CASE Owner = s
  <2>1. txn[s] = "app"
    BY <1>0, <1>8, OwnerIs
  <2>2. \A t \in Sessions : txn'[t] # "app"
    BY <1>0, <1>1, <1>3, <2>1, OneTx
  <2>3. Owner' = Nobody
    BY <2>2, OwnerNext
  <2>4. Working' = row
    BY <1>0, <2>3 DEF Working
  <2>5. Serial!Crash(s)
    BY <1>0, <1>6, <1>7, <1>8, <2>3, <2>4, <1>10 DEF Serial!Crash, Serial!Done, Serial!NoRequest
  <2>. QED  BY <2>5 DEF Serial!NextSerial
<1>9. CASE Owner # s
  <2>1. txn[s] # "app"
    BY <1>0, <1>9, OwnerIs
  <2>2. Owner' = Owner
    BY <1>1, <1>3, <2>1, OwnerStays
  <2>3. Owner # Nobody => how'[Owner] = how[Owner] /\ buf'[Owner] = buf[Owner]
    BY <1>0, <1>3, <1>9, OwnerIs
  <2>4. Working' = Working
    BY <1>0, <2>2, <2>3, WorkingStays
  <2>5. Serial!Crash(s)
    BY <1>0, <1>6, <1>7, <1>9, <2>2, <2>4, <1>10 DEF Serial!Crash, Serial!Done, Serial!NoRequest
  <2>. QED  BY <2>5 DEF Serial!NextSerial
<1>. QED  BY <1>8, <1>9

LEMMA SerialRefines ==
    ASSUME DeleteInv, SerialInv, SQLite, TypeOK', SQLiteInv', [Next]_vars
    PROVE  [Serial!NextSerial]_(Serial!svars)
<1>1. CASE UNCHANGED vars
  <2>1. \A t \in Sessions : InCall(t)' <=> InCall(t)
    BY <1>1 DEF vars, InCall
  <2>2. Asked' = Asked /\ Hand' = Hand
    BY <1>1, <2>1 DEF vars, Asked, Hand
  <2>3. Owner' = Owner
    BY <1>1, OwnerStays DEF vars
  <2>4. Working' = Working
    BY <1>1, <2>3, WorkingStays DEF vars, DeleteInv
  <2>. QED  BY <1>1, <2>2, <2>3, <2>4 DEF vars, Serial!svars
<1>2. ASSUME NEW s \in Sessions, Calling(s) PROVE [Serial!NextSerial]_(Serial!svars)
  BY <1>2, CallingRefines
<1>3. ASSUME NEW s \in Sessions, Running(s) PROVE [Serial!NextSerial]_(Serial!svars)
  <2>1. ~LockGranted(s)
    BY DEF LockGranted, SerialInv, Local, Shape
  <2>2. ~DeadlockVictim(s)
    BY DEF DeadlockVictim, Deadlocked, WaitsFor, Waiting
  <2>. QED  BY <1>3, <2>1, <2>2, OpeningRefines, CheckingRefines, WritingRefines, EndingRefines,
               CrashRefines DEF Running
<1>. QED  BY <1>1, <1>2, <1>3 DEF Next

LEMMA SerialInitially == Init => Serial!InitSerial
<1> SUFFICES ASSUME Init PROVE Serial!InitSerial
  OBVIOUS
<1>1. \A s \in Sessions : pc[s] = "idle" /\ txn[s] = "none" /\ mem[s] = [i \in Ids |-> NoRow]
  BY DEF Init
<1>2. \A s \in Sessions : ~InCall(s)
  BY <1>1 DEF InCall
<1>3. Owner = Nobody
  BY <1>1 DEF Owner
<1>4. Working = row
  BY <1>3 DEF Working
<1>5. Asked = [s \in Sessions |-> [op |-> "none"]]
  BY <1>2 DEF Asked
<1>6. Hand = [s \in Sessions |-> [i \in Ids |-> NoRow]]
  BY <1>1, <1>2 DEF Hand
<1>7. row \in [Ids -> AllVersions]
  <2>1. NoRow \in AllVersions /\ [rev |-> 1, del |-> FALSE] \in AllVersions
    BY MaxRevAssumption DEF NoRow, AllVersions
  <2>. QED  BY <2>1 DEF Init
<1>8. err = [s \in Sessions |-> FALSE]
  BY DEF Init
<1>. QED  BY <1>3, <1>4, <1>5, <1>6, <1>7, <1>8 DEF Serial!InitSerial, Serial!NoRequest, AllVersions

(* On SQLite every call is atomic and application transactions are serial:
   Crud implements SerialWrites, for any number of sessions and documents.  *)
THEOREM SQLiteIsSerial ==
    ASSUME SQLite
    PROVE  Spec => SerialOnSQLite
<1>1. Init => DeleteInv /\ SerialInv
  BY DeleteInit, SerialInit
<1>2. DeleteInv /\ SerialInv /\ [Next]_vars => (DeleteInv /\ SerialInv)'
  BY SerialStep
<1>3. DeleteInv /\ SerialInv /\ (DeleteInv /\ SerialInv)' /\ [Next]_vars
        => [SQLite => Serial!NextSerial]_(Serial!svars)
  BY SerialRefines DEF DeleteInv
<1>4. Init => (SQLite => Serial!InitSerial)
  BY SerialInitially
<1>. QED  BY <1>1, <1>2, <1>3, <1>4, PTL DEF Spec, SerialOnSQLite
=============================================================================
