--------------------------- MODULE MigrateProofs ---------------------------
(***************************************************************************)
(* Proofs about Migrate, for any number of runners, processes and          *)
(* versions: the log counts every migration once whatever races, fails or  *)
(* crashes; where nobody rolls back, Up applies all it knows, and in the   *)
(* order of the versions when every process knows an initial segment.      *)
(***************************************************************************)
EXTENDS Migrate, WellFoundedInduction, NaturalsInduction, FiniteSetTheorems, TLAPS

-----------------------------------------------------------------------------
(* Versions in order.                                                       *)

(* A set of naturals that is not empty has a least element.                 *)
LEMMA LeastElement ==
    ASSUME NEW T \in SUBSET Nat, T # {}
    PROVE  \E n \in T : \A m \in T : n <= m
<1> DEFINE R == {ss \in Nat \X Nat : ss[1] < ss[2]}
<1>1. OpToRel(<, Nat) = R
  BY Zenon DEF OpToRel
<1>2. IsWellFoundedOn(R, Nat)
  BY <1>1, NatLessThanWellFounded, Zenon
<1>3. PICK x \in T : \A y \in T : ~(<<y, x>> \in R)
  <2> HIDE DEF R
  <2>. QED  BY <1>2, WFMin
<1>4. \A m \in T : m < x => <<m, x>> \in R
  BY Zenon
<1>5. \A m \in T : ~(m < x)
  <2> HIDE DEF R
  <2>. QED  BY <1>3, <1>4, Zenon
<1>. QED  BY <1>5

(* A greater element has more below it.                                     *)
LEMMA RankGrows ==
    ASSUME NEW S \in SUBSET Nat, IsFiniteSet(S), NEW x \in S, NEW y \in S, x < y
    PROVE  Cardinality(Below(S, x)) < Cardinality(Below(S, y))
<1>1. IsFiniteSet(Below(S, y)) /\ IsFiniteSet(Below(S, x))
  BY FS_Subset DEF Below
<1>2. Below(S, x) \subseteq Below(S, y) /\ x \in Below(S, y) /\ x \notin Below(S, x)
  <2>1. \A z \in S : z \in Nat
    OBVIOUS
  <2>2. ASSUME NEW z \in S, z < x PROVE z < y
    BY <2>1, <2>2
  <2>3. ~(x < x)
    BY <2>1
  <2>. QED  BY <2>2, <2>3, Zenon DEF Below
<1>3. Cardinality(Below(S, x)) <= Cardinality(Below(S, y)) /\ Cardinality(Below(S, x)) # Cardinality(Below(S, y))
  BY <1>1, <1>2, FS_Subset
<1>4. Cardinality(Below(S, x)) \in Nat /\ Cardinality(Below(S, y)) \in Nat
  BY <1>1, FS_CardinalityType
<1>. QED  BY <1>3, <1>4

(* What sorting returns: every element once, in ascending order.  Ranks are
   an injection of the set into as many numbers, hence onto them.           *)
LEMMA AscendingSorts ==
    ASSUME NEW S \in SUBSET Nat, IsFiniteSet(S)
    PROVE  /\ Ascending(S) \in [1..Cardinality(S) -> S]
           /\ Ascending(S) \in Seq(S)
           /\ Cardinality(S) \in Nat
           /\ \A i, j \in 1..Cardinality(S) : i < j => Ascending(S)[i] < Ascending(S)[j]
           /\ \A v \in S : \E i \in 1..Cardinality(S) : Ascending(S)[i] = v
<1> DEFINE n == Cardinality(S)
           rank == [x \in S |-> Cardinality(Below(S, x)) + 1]
           a == Ascending(S)
<1>1. n \in Nat
  BY FS_CardinalityType
<1>2. ASSUME NEW x \in S PROVE rank[x] \in 1..n
  <2>1. IsFiniteSet(Below(S, x)) /\ Cardinality(Below(S, x)) <= n /\ Cardinality(Below(S, x)) # n
    <3>1. Below(S, x) \subseteq S /\ x \notin Below(S, x)
      BY DEF Below
    <3>. QED  BY <3>1, FS_Subset
  <2>2. Cardinality(Below(S, x)) \in Nat
    BY <2>1, FS_CardinalityType
  <2>. QED  BY <1>1, <2>1, <2>2
<1>3. \A x, y \in S : x < y => rank[x] < rank[y]
  <2>1. \A x \in S : IsFiniteSet(Below(S, x)) /\ Cardinality(Below(S, x)) \in Nat
    BY FS_Subset, FS_CardinalityType DEF Below
  <2>. QED  BY <2>1, RankGrows
<1>4. a = [k \in 1..n |-> CHOOSE x \in S : rank[x] = k]
  <2>1. \A x \in S : Cardinality(Below(S, x)) \in Nat
    BY FS_Subset, FS_CardinalityType DEF Below
  <2>2. ASSUME NEW k \in 1..n PROVE (CHOOSE x \in S : Cardinality(Below(S, x)) = k - 1) = (CHOOSE x \in S : rank[x] = k)
    <3>1. \A x \in S : Cardinality(Below(S, x)) = k - 1 <=> rank[x] = k
      BY <1>1, <2>1
    <3>. QED  BY <3>1
  <2>. QED  BY <2>2 DEF Ascending
<1>5. rank = [x \in S |-> rank[x]] /\ IsFiniteSet(1..n) /\ Cardinality(1..n) = n
  BY <1>1, FS_Interval
<1> HIDE DEF rank, n, a
<1>6. \A x, y \in S : rank[x] = rank[y] => x = y
  <2>1. \A x \in S : x \in Nat /\ rank[x] \in Int
    BY <1>1, <1>2
  <2>. QED  BY <1>3, <2>1
<1>7. rank \in [S -> 1..n]
  BY <1>2, <1>5
<1>8. rank \in Surjection(S, 1..n)
  <2>1. rank \in Injection(S, 1..n)
    BY <1>6, <1>7 DEF Injection, IsInjective
  <2>. QED  BY <1>5, <2>1, FS_Injection DEF n
<1>9. \A k \in 1..n : a[k] \in S /\ rank[a[k]] = k
  BY <1>4, <1>8 DEF Surjection
<1>10. a \in [1..n -> S]
  BY <1>4, <1>9
<1>11. \A i, j \in 1..n : i < j => a[i] < a[j]
  <2> SUFFICES ASSUME NEW i \in 1..n, NEW j \in 1..n, i < j PROVE a[i] < a[j]
    OBVIOUS
  <2>1. a[i] \in Nat /\ a[j] \in Nat /\ a[i] \in S /\ a[j] \in S
    BY <1>9
  <2>2. rank[a[i]] = i /\ rank[a[j]] = j
    BY <1>9
  <2>3. ~(a[j] < a[i]) /\ a[i] # a[j]
    BY <1>3, <2>1, <2>2
  <2>. QED  BY <2>1, <2>3
<1>12. \A v \in S : \E i \in 1..n : a[i] = v
  BY <1>6, <1>7, <1>9
<1>13. a \in Seq(S)
  BY <1>1, <1>10
<1>. QED  BY <1>1, <1>10, <1>11, <1>12, <1>13 DEF n, a

-----------------------------------------------------------------------------
(* The inductive invariants.                                                *)

Working(r) == pc[r] \in {"work", "commit"}
Running(r) == pc[r] \in {"next", "lock", "work", "commit"}

(* Who is inside the transaction holds the lock, and nobody else does.      *)
LockInv == \A r \in Runners : Working(r) <=> holder = r

(* Who is about to run a version has one to run, and Up does not plan.      *)
HasWork ==
    \A r \in Runners :
        /\ pc[r] \in {"lock", "work", "commit"} => todo[r] # <<>>
        /\ pc[r] = "load" => op[r] # "Up"

(* What is about to be saved is the committed log with the one change that is
   still missing from it.                                                   *)
Ready(r) ==
    /\ entries[r] = NewEntries(r, Head(todo[r]))
    /\ Forwards(r) <=> ~Applied(Head(todo[r]))
ReadyToCommit == \A r \in Runners : pc[r] = "commit" => Ready(r)

(* The log has no version twice, and the schema is what it says.            *)
LogInv ==
    /\ \A i, j \in DOMAIN log : log[i] = log[j] => i = j
    /\ \A v \in Versions : schema[v] = IF Applied(v) THEN 1 ELSE 0

MigrateInv == TypeOK /\ LockInv /\ HasWork /\ ReadyToCommit /\ LogInv

(* A call is one of those its deployment makes.                             *)
OpOf == \A r \in Runners : pc[r] # "idle" => op[r] \in setup.ops

(* Where nobody rolls back: Up still has in hand what is not in the log.    *)
UpCovers ==
    OnlyUp => \A r \in Runners : Running(r) /\ op[r] = "Up" =>
        \A v \in Known[ProcessOf[r]] : Applied(v) \/ Contains(todo[r], v)

(* ... and below the version a runner has in hand everything is in, or comes
   first.                                                                   *)
Ahead ==
    OnlyUp => \A r \in Runners : Running(r) =>
        \A i \in DOMAIN todo[r] : \A v \in Versions : v < todo[r][i] =>
            Applied(v) \/ \E j \in 1..(i - 1) : todo[r][j] = v

-----------------------------------------------------------------------------
(* The migrations of a Registry: all it knows, in ascending order.          *)
LEMMA RegisteredSorted ==
    ASSUME NEW r \in Runners
    PROVE  /\ Registered(r) \in Seq(Versions)
           /\ \A i \in 1..Len(Registered(r)) : Registered(r)[i] \in Known[ProcessOf[r]]
           /\ \A i, j \in 1..Len(Registered(r)) : i < j => Registered(r)[i] < Registered(r)[j]
           /\ \A v \in Known[ProcessOf[r]] : Contains(Registered(r), v)
<1> DEFINE K == Known[ProcessOf[r]]
           n == Cardinality(K)
<1>1. K \in SUBSET Nat /\ IsFiniteSet(K) /\ K \subseteq Versions
  BY VersionsAssumption, RunnersAssumption, KnownAssumption
<1> HIDE DEF K
<1>2. /\ Ascending(K) \in [1..n -> K] /\ Ascending(K) \in Seq(K) /\ n \in Nat
      /\ \A i, j \in 1..n : i < j => Ascending(K)[i] < Ascending(K)[j]
      /\ \A v \in K : \E i \in 1..n : Ascending(K)[i] = v
  BY <1>1, AscendingSorts
<1> HIDE DEF n
<1>3. Len(Ascending(K)) = n
  BY <1>2
<1>4. Ascending(K) \in Seq(Versions)
  <2>1. Ascending(K) \in [1..n -> Versions]
    BY <1>1, <1>2
  <2>. QED  BY <1>2, <2>1
<1>5. Registered(r) = Ascending(K)
  BY DEF K, Registered
<1>. QED  BY <1>2, <1>3, <1>4, <1>5 DEF Contains, K

(* The log without v: its other versions, each as often as before.          *)
LEMMA FilteredLog ==
    ASSUME log \in Seq(Versions), NEW v
    PROVE  /\ Filtered(v) \in Seq(Versions)
           /\ \A w : Contains(Filtered(v), w) <=> Contains(log, w) /\ w # v
           /\ (\A i, j \in DOMAIN log : log[i] = log[j] => i = j)
                => \A i, j \in DOMAIN Filtered(v) : Filtered(v)[i] = Filtered(v)[j] => i = j
<1> DEFINE K == {n \in DOMAIN log : log[n] # v}
           k == Ascending(K)
           c == Cardinality(K)
           f == Filtered(v)
<1>1. K \in SUBSET Nat /\ K \subseteq 1..Len(log) /\ Len(log) \in Nat
  OBVIOUS
<1>2. IsFiniteSet(K)
  BY <1>1, FS_Interval, FS_Subset
<1>3. /\ k \in [1..c -> K] /\ c \in Nat
      /\ \A i, j \in 1..c : i < j => k[i] < k[j]
      /\ \A n \in K : \E i \in 1..c : k[i] = n
  <2> HIDE DEF K
  <2>. QED  BY <1>1, <1>2, AscendingSorts
<1>4. f = [i \in 1..c |-> log[k[i]]]
  BY <1>3 DEF Filtered
<1> HIDE DEF k, c, f
<1>5. \A i \in 1..c : k[i] \in 1..Len(log) /\ log[k[i]] \in Versions /\ log[k[i]] # v
  BY <1>3
<1>6. f \in Seq(Versions) /\ Len(f) = c /\ DOMAIN f = 1..c
  BY <1>3, <1>4, <1>5
<1>7. \A w : Contains(f, w) <=> Contains(log, w) /\ w # v
  <2>1. ASSUME NEW w, Contains(f, w)
        PROVE  Contains(log, w) /\ w # v
    BY <1>4, <1>5, <1>6, <2>1 DEF Contains
  <2>2. ASSUME NEW w, Contains(log, w), w # v
        PROVE  Contains(f, w)
    <3>1. PICK n \in 1..Len(log) : log[n] = w
      BY <2>2 DEF Contains
    <3>2. PICK i \in 1..c : k[i] = n
      BY <1>3, <2>2, <3>1
    <3>. QED  BY <1>4, <1>6, <3>1, <3>2 DEF Contains
  <2>. QED  BY <2>1, <2>2
<1>8. ASSUME \A i, j \in DOMAIN log : log[i] = log[j] => i = j,
             NEW i \in 1..c, NEW j \in 1..c, f[i] = f[j]
      PROVE  i = j
  <2>1. k[i] = k[j]
    BY <1>4, <1>5, <1>8
  <2>2. k[i] \in Nat /\ k[j] \in Nat
    BY <1>5
  <2>. QED  BY <1>3, <2>1, <2>2
<1>. QED  BY <1>6, <1>7, <1>8 DEF f

-----------------------------------------------------------------------------
(* The log counts every migration once.                                     *)

LEMMA MigrateStart == Init => MigrateInv
<1> SUFFICES ASSUME Init PROVE MigrateInv
  OBVIOUS
<1>1. TypeOK
  BY DEF Init, TypeOK
<1>2. LockInv /\ HasWork /\ ReadyToCommit
  BY RunnersAssumption DEF Init, LockInv, Working, HasWork, ReadyToCommit
<1>3. LogInv
  BY DEF Init, LogInv, Applied, Contains
<1>. QED  BY <1>1, <1>2, <1>3 DEF MigrateInv

(* What a runner plans to do is a list of versions.                         *)
LEMMA PlannedType ==
    ASSUME TypeOK, NEW r \in Runners, op[r] # "Up"
    PROVE  Planned(r) \in Seq(Versions)
<1>1. FirstPending(r) \in Seq(Versions)
  <2> DEFINE R == Registered(r)
             pending == {n \in DOMAIN R : ~Applied(R[n])}
  <2>1. R \in Seq(Versions)
    BY RegisteredSorted
  <2>2. CASE pending = {}
    BY <2>2 DEF FirstPending
  <2>3. CASE pending # {}
    <3>1. pending \in SUBSET Nat
      BY <2>1
    <3>2. Min(pending) \in pending
      BY <2>3, <3>1, LeastElement DEF Min
    <3>3. R[Min(pending)] \in Versions
      BY <2>1, <3>2
    <3>4. FirstPending(r) = <<R[Min(pending)]>>
      BY <2>3 DEF FirstPending
    <3>. QED  BY <3>3, <3>4
  <2>. QED  BY <2>2, <2>3
<1>2. LastApplied \in Seq(Versions)
  BY DEF TypeOK, LastApplied, Last
<1>3. Reverse(log) \in Seq(Versions)
  BY DEF TypeOK, Reverse
<1>4. op[r] \in {"UpOne", "Down", "DownOne"}
  BY DEF TypeOK
<1>. QED  BY <1>1, <1>2, <1>3, <1>4 DEF Planned

(* What follows the version in hand.                                        *)
LEMMA TailType ==
    ASSUME NEW s \in Seq(Versions), s # <<>>
    PROVE  /\ Head(s) \in Versions /\ Tail(s) \in Seq(Versions)
           /\ Len(s) \in Nat \ {0} /\ Len(Tail(s)) = Len(s) - 1
           /\ Head(s) = s[1] /\ \A i \in 1..Len(Tail(s)) : Tail(s)[i] = s[i + 1]
OBVIOUS

(* A runner whose call, versions and entries stay is as ready as before, as
   long as the log is the same.                                             *)
LEMMA ReadyFrame ==
    ASSUME NEW q \in Runners, Ready(q), log' = log,
           op'[q] = op[q], todo'[q] = todo[q], entries'[q] = entries[q]
    PROVE  Ready(q)'
<1>1. Forwards(q)' <=> Forwards(q)
  BY DEF Forwards
<1>2. \A v : Applied(v)' <=> Applied(v)
  BY DEF Applied
<1>3. \A v : Filtered(v)' = Filtered(v)
  BY DEF Filtered
<1>4. \A v : NewEntries(q, v)' = NewEntries(q, v)
  BY <1>1, <1>3 DEF NewEntries
<1>. QED  BY <1>1, <1>2, <1>4 DEF Ready

(* A runner outside its transaction does not hold the lock.                 *)
LEMMA OutsideKeeps ==
    ASSUME MigrateInv, NEW r \in Runners,
           Call(r) \/ EnsureMigrationTable(r) \/ LoadApplied(r) \/ NextVersion(r)
           \/ Finish(r) \/ Refuse(r)
    PROVE  MigrateInv'
<1>0. /\ ~Working(r) /\ UNCHANGED <<log, schema, holder>>
      /\ pc'[r] \notin {"work", "commit"}
      /\ \A q \in Runners \ {r} : /\ pc'[q] = pc[q] /\ op'[q] = op[q]
                                  /\ todo'[q] = todo[q] /\ entries'[q] = entries[q]
  BY DEF MigrateInv, TypeOK, Working, Call, EnsureMigrationTable, LoadApplied, NextVersion,
         Finish, Refuse, Return
<1>9. <<>> \in Seq(Versions)
  OBVIOUS
<1>1. TypeOK'
  <2>1. CASE Call(r)
    BY <2>1, SetupsAssumption DEF MigrateInv, TypeOK, Call
  <2>2. CASE EnsureMigrationTable(r)
    <3>1. ProcessOf[r] \in Processes /\ Registered(r) \in Seq(Versions)
      BY RunnersAssumption, RegisteredSorted
    <3>2. once' \in [Processes -> {"new", "ok", "err"}]
      BY <2>2, <3>1 DEF MigrateInv, TypeOK, EnsureMigrationTable
    <3>3. /\ todo' \in [Runners -> Seq(Versions)] /\ entries' \in [Runners -> Seq(Versions)]
          /\ pc' \in [Runners -> {"idle", "ensure", "load", "next", "lock", "work", "commit"}]
      BY <2>2, <3>1, <1>9 DEF MigrateInv, TypeOK, EnsureMigrationTable, Return
    <3>. QED  BY <2>2, <3>2, <3>3 DEF MigrateInv, TypeOK, EnsureMigrationTable
  <2>3. CASE LoadApplied(r)
    <3>1. op[r] # "Up"
      BY <2>3 DEF MigrateInv, HasWork, LoadApplied
    <3>. QED  BY <2>3, <3>1, PlannedType DEF MigrateInv, TypeOK, LoadApplied
  <2>4. CASE NextVersion(r) \/ Finish(r) \/ Refuse(r)
    BY <2>4, <1>9, ZenonT(60) DEF MigrateInv, TypeOK, NextVersion, Finish, Refuse, Return
  <2>. QED  BY <2>1, <2>2, <2>3, <2>4
<1>2. LockInv'
  BY <1>0 DEF MigrateInv, LockInv, Working
<1>3. HasWork'
  BY <1>0 DEF MigrateInv, TypeOK, HasWork, Call, EnsureMigrationTable, LoadApplied, NextVersion,
         Finish, Refuse, Return
<1>4. ReadyToCommit'
  BY <1>0, ReadyFrame DEF MigrateInv, ReadyToCommit
<1>5. LogInv'
  BY <1>0 DEF MigrateInv, LogInv, Applied
<1>. QED  BY <1>1, <1>2, <1>3, <1>4, <1>5 DEF MigrateInv

(* Only one runner is in its transaction.                                   *)
LEMMA OneAtWork ==
    ASSUME MigrateInv, NEW r \in Runners, NEW q \in Runners, Working(r), Working(q)
    PROVE  q = r
BY DEF MigrateInv, LockInv

LEMMA LockKeeps ==
    ASSUME MigrateInv, NEW r \in Runners, Lock(r)
    PROVE  MigrateInv'
<1>0. /\ pc[r] = "lock" /\ holder = Nobody /\ holder' = r
      /\ pc' = [pc EXCEPT ![r] = "work"]
      /\ UNCHANGED <<setup, log, schema, once, op, todo, entries>>
  BY DEF Lock, LockFree
<1>1. TypeOK' /\ LogInv'
  BY <1>0 DEF MigrateInv, TypeOK, LogInv, Applied
<1>2. LockInv'
  BY <1>0, RunnersAssumption DEF MigrateInv, TypeOK, LockInv, Working
<1>3. HasWork'
  BY <1>0 DEF MigrateInv, TypeOK, HasWork
<1>4. ReadyToCommit'
  BY <1>0, ReadyFrame DEF MigrateInv, TypeOK, ReadyToCommit
<1>. QED  BY <1>1, <1>2, <1>3, <1>4 DEF MigrateInv

(* The versions of the log that will be saved.                              *)
LEMMA NewEntriesLog ==
    ASSUME MigrateInv, NEW r \in Runners, NEW v \in Versions, Forwards(r) <=> ~Applied(v)
    PROVE  /\ NewEntries(r, v) \in Seq(Versions)
           /\ \A w : Contains(NewEntries(r, v), w)
                       <=> IF w = v THEN Forwards(r) ELSE Applied(w)
           /\ \A i, j \in DOMAIN NewEntries(r, v) :
                NewEntries(r, v)[i] = NewEntries(r, v)[j] => i = j
<1> DEFINE e == NewEntries(r, v)
<1>0. /\ log \in Seq(Versions) /\ \A i, j \in DOMAIN log : log[i] = log[j] => i = j
  BY DEF MigrateInv, TypeOK, LogInv
<1>1. CASE ~Forwards(r)
  BY <1>0, <1>1, FilteredLog DEF NewEntries, Applied
<1>2. CASE Forwards(r)
  <2>1. e = Append(log, v)
    BY <1>2 DEF NewEntries
  <2>2. e \in Seq(Versions) /\ Len(e) = Len(log) + 1 /\ Len(log) \in Nat
    BY <1>0, <2>1
  <2>3. \A i \in 1..Len(log) : e[i] = log[i]
    BY <1>0, <2>1
  <2>4. e[Len(log) + 1] = v
    BY <1>0, <2>1
  <2>5. \A i \in 1..Len(log) : log[i] # v
    BY <1>2 DEF Applied, Contains
  <2> HIDE DEF e
  <2>6. \A w : Contains(e, w) <=> IF w = v THEN Forwards(r) ELSE Applied(w)
    BY <1>2, <2>2, <2>3, <2>4 DEF Contains, Applied
  <2>7. \A i, j \in DOMAIN e : e[i] = e[j] => i = j
    <3> SUFFICES ASSUME NEW i \in 1..(Len(log) + 1), NEW j \in 1..(Len(log) + 1), e[i] = e[j]
                 PROVE  i = j
      BY <2>2
    <3>1. CASE i \in 1..Len(log) /\ j \in 1..Len(log)
      BY <3>1, <1>0, <2>3
    <3>2. CASE ~(i \in 1..Len(log) /\ j \in 1..Len(log))
      BY <3>2, <2>2, <2>3, <2>4, <2>5
    <3>. QED  BY <3>1, <3>2
  <2>. QED  BY <2>2, <2>6, <2>7 DEF e
<1>. QED  BY <1>1, <1>2

LEMMA SkipKeeps ==
    ASSUME MigrateInv, NEW r \in Runners, Skip(r)
    PROVE  MigrateInv'
<1>0. /\ pc[r] = "work" /\ holder = r /\ holder' = Nobody /\ todo[r] # <<>>
      /\ pc' = [pc EXCEPT ![r] = "next"]
      /\ todo' = [todo EXCEPT ![r] = Tail(todo[r])]
      /\ UNCHANGED <<setup, log, schema, once, op, entries>>
  BY DEF Skip, Unlock, MigrateInv, LockInv, Working, HasWork
<1>1. TypeOK'
  BY <1>0, TailType DEF MigrateInv, TypeOK
<1>2. LogInv'
  BY <1>0 DEF MigrateInv, LogInv, Applied
<1>3. LockInv'
  BY <1>0, RunnersAssumption DEF MigrateInv, TypeOK, LockInv, Working
<1>4. HasWork'
  BY <1>0 DEF MigrateInv, TypeOK, HasWork
<1>5. ReadyToCommit'
  BY <1>0, ReadyFrame DEF MigrateInv, TypeOK, ReadyToCommit
<1>. QED  BY <1>1, <1>2, <1>3, <1>4, <1>5 DEF MigrateInv

LEMMA RunKeeps ==
    ASSUME MigrateInv, NEW r \in Runners, Run(r)
    PROVE  MigrateInv'
<1> DEFINE v == Head(todo[r])
<1>0. /\ pc[r] = "work" /\ todo[r] # <<>> /\ v \in Versions
      /\ Forwards(r) <=> ~Applied(v)
      /\ entries' = [entries EXCEPT ![r] = NewEntries(r, v)]
      /\ pc' = [pc EXCEPT ![r] = "commit"]
      /\ UNCHANGED <<setup, log, schema, once, holder, op, todo>>
  BY TailType DEF Run, AlreadyDone, MigrateInv, TypeOK, HasWork
<1>1. TypeOK'
  BY <1>0, NewEntriesLog DEF MigrateInv, TypeOK
<1>2. LogInv'
  BY <1>0 DEF MigrateInv, LogInv, Applied
<1>3. LockInv'
  BY <1>0 DEF MigrateInv, TypeOK, LockInv, Working
<1>4. HasWork'
  BY <1>0 DEF MigrateInv, TypeOK, HasWork
<1>5. ReadyToCommit'
  <2>1. ASSUME NEW q \in Runners \ {r}, pc'[q] = "commit"
        PROVE  Ready(q)'
    BY <1>0, <2>1, ReadyFrame DEF MigrateInv, TypeOK, ReadyToCommit
  <2>2. Ready(r)'
    <3>1. entries'[r] = NewEntries(r, v)
      BY <1>0 DEF MigrateInv, TypeOK
    <3>. QED  BY <1>0, <3>1 DEF Ready, NewEntries, Filtered, Forwards, Applied
  <2>. QED  BY <2>1, <2>2 DEF ReadyToCommit
<1>. QED  BY <1>1, <1>2, <1>3, <1>4, <1>5 DEF MigrateInv

LEMMA CommitKeeps ==
    ASSUME MigrateInv, NEW r \in Runners, Commit(r)
    PROVE  MigrateInv'
<1> DEFINE v == Head(todo[r])
<1>0. /\ pc[r] = "commit" /\ holder = r /\ holder' = Nobody
      /\ todo[r] # <<>> /\ v \in Versions /\ <<>> \in Seq(Versions)
      /\ Forwards(r) <=> ~Applied(v)
      /\ log' = NewEntries(r, v)
      /\ schema' = [schema EXCEPT ![v] = schema[v] + Delta(r)]
      /\ pc' = [pc EXCEPT ![r] = "next"]
      /\ todo' = [todo EXCEPT ![r] = Tail(todo[r])]
      /\ entries' = [entries EXCEPT ![r] = <<>>]
      /\ UNCHANGED <<setup, once, op>>
  BY TailType
     DEF Commit, Unlock, MigrateInv, TypeOK, LockInv, Working, HasWork, ReadyToCommit, Ready
<1>1. TypeOK'
  BY <1>0, NewEntriesLog, TailType DEF MigrateInv, TypeOK, Delta
<1>2. LogInv'
  <2>1. \A i, j \in DOMAIN log' : log'[i] = log'[j] => i = j
    BY <1>0, NewEntriesLog
  <2>2. \A w : Applied(w)' <=> IF w = v THEN Forwards(r) ELSE Applied(w)
    BY <1>0, NewEntriesLog DEF Applied
  <2>3. \A w \in Versions : schema'[w] = IF Applied(w)' THEN 1 ELSE 0
    BY <1>0, <2>2 DEF MigrateInv, TypeOK, LogInv, Delta
  <2>. QED  BY <2>1, <2>3 DEF LogInv
<1>3. LockInv'
  BY <1>0, RunnersAssumption DEF MigrateInv, TypeOK, LockInv, Working
<1>4. HasWork'
  BY <1>0 DEF MigrateInv, TypeOK, HasWork
<1>5. ReadyToCommit'
  <2> SUFFICES \A q \in Runners : pc'[q] # "commit"
    BY DEF ReadyToCommit
  <2>. QED  BY <1>0, OneAtWork DEF MigrateInv, TypeOK, Working
<1>. QED  BY <1>1, <1>2, <1>3, <1>4, <1>5 DEF MigrateInv

LEMMA FailKeeps ==
    ASSUME MigrateInv, NEW r \in Runners, Fail(r)
    PROVE  MigrateInv'
<1>0. /\ holder' = IF holder = r THEN Nobody ELSE holder
      /\ pc' = [pc EXCEPT ![r] = "idle"]
      /\ todo' = [todo EXCEPT ![r] = <<>>] /\ entries' = [entries EXCEPT ![r] = <<>>]
      /\ <<>> \in Seq(Versions)
      /\ UNCHANGED <<setup, log, schema, once, op>>
  BY DEF Fail, Unlock, Return
<1>1. TypeOK' /\ LogInv'
  BY <1>0 DEF MigrateInv, TypeOK, LogInv, Applied
<1>3. LockInv'
  BY <1>0, RunnersAssumption DEF MigrateInv, TypeOK, LockInv, Working
<1>4. HasWork'
  BY <1>0 DEF MigrateInv, TypeOK, HasWork
<1>5. ReadyToCommit'
  BY <1>0, ReadyFrame DEF MigrateInv, TypeOK, ReadyToCommit
<1>. QED  BY <1>1, <1>3, <1>4, <1>5 DEF MigrateInv

LEMMA CrashKeeps ==
    ASSUME MigrateInv, NEW p \in Processes, Crash(p)
    PROVE  MigrateInv'
<1> DEFINE mine == {r \in Runners : ProcessOf[r] = p}
<1>0. /\ once' = [once EXCEPT ![p] = "new"]
      /\ holder' = IF holder \in mine THEN Nobody ELSE holder
      /\ pc' = [r \in Runners |-> IF r \in mine THEN "idle" ELSE pc[r]]
      /\ todo' = [r \in Runners |-> IF r \in mine THEN <<>> ELSE todo[r]]
      /\ entries' = [r \in Runners |-> IF r \in mine THEN <<>> ELSE entries[r]]
      /\ <<>> \in Seq(Versions)
      /\ UNCHANGED <<setup, log, schema, op>>
  BY DEF Crash
<1> HIDE DEF mine
<1>1. TypeOK' /\ LogInv'
  BY <1>0 DEF MigrateInv, TypeOK, LogInv, Applied
<1>3. LockInv'
  BY <1>0, RunnersAssumption DEF MigrateInv, TypeOK, LockInv, Working
<1>4. HasWork'
  BY <1>0 DEF MigrateInv, TypeOK, HasWork
<1>5. ReadyToCommit'
  BY <1>0, ReadyFrame DEF MigrateInv, TypeOK, ReadyToCommit
<1>. QED  BY <1>1, <1>3, <1>4, <1>5 DEF MigrateInv

LEMMA MigrateFrame ==
    ASSUME MigrateInv, UNCHANGED vars
    PROVE  MigrateInv'
<1>1. TypeOK' /\ LogInv' /\ LockInv' /\ HasWork'
  BY DEF vars, MigrateInv, TypeOK, LogInv, Applied, LockInv, Working, HasWork
<1>2. ReadyToCommit'
  BY ReadyFrame DEF vars, MigrateInv, ReadyToCommit
<1>. QED  BY <1>1, <1>2 DEF MigrateInv

LEMMA MigrateKept == MigrateInv /\ [Next]_vars => MigrateInv'
BY OutsideKeeps, LockKeeps, SkipKeeps, RunKeeps, CommitKeeps, FailKeeps, CrashKeeps, MigrateFrame
   DEF Next, Progress

(* Whatever starters race, migrations fail and processes die, every migration
   has run as often as the log says: once, or not at all.                   *)
THEOREM MigrationsRunOnce == Spec => []ExactlyOnce
<1>1. MigrateInv => ExactlyOnce
  <2> SUFFICES ASSUME MigrateInv, NEW v \in Versions
               PROVE  /\ schema[v] = Cardinality({n \in DOMAIN log : log[n] = v})
                      /\ schema[v] \in {0, 1}
    BY DEF ExactlyOnce
  <2> DEFINE N == {n \in DOMAIN log : log[n] = v}
  <2>1. CASE Applied(v)
    <3>1. PICK n \in DOMAIN log : log[n] = v
      BY <2>1 DEF Applied, Contains, MigrateInv, TypeOK
    <3>2. N = {n}
      BY <3>1 DEF MigrateInv, LogInv
    <3>3. Cardinality(N) = 1
      BY <3>2, FS_Singleton
    <3>. QED  BY <2>1, <3>3 DEF MigrateInv, LogInv
  <2>2. CASE ~Applied(v)
    <3>1. N = {}
      BY <2>2 DEF Applied, Contains, MigrateInv, TypeOK
    <3>2. Cardinality(N) = 0
      BY <3>1, FS_EmptySet
    <3>. QED  BY <2>2, <3>2 DEF MigrateInv, LogInv
  <2>. QED  BY <2>1, <2>2
<1>. QED  BY <1>1, MigrateStart, MigrateKept, PTL DEF Spec

-----------------------------------------------------------------------------
(* Where nobody rolls back.                                                 *)

LEMMA OpOfKept ==
    ASSUME MigrateInv, OpOf, [Next]_vars
    PROVE  OpOf' /\ setup' = setup
<1> USE DEF MigrateInv, TypeOK, OpOf
<1>1. ASSUME NEW r \in Runners, Call(r)
      PROVE  OpOf' /\ setup' = setup
  BY <1>1 DEF Call
<1>2. ASSUME NEW r \in Runners, EnsureMigrationTable(r)
      PROVE  OpOf' /\ setup' = setup
  BY <1>2 DEF EnsureMigrationTable, Return
<1>3. ASSUME NEW r \in Runners,
             LoadApplied(r) \/ NextVersion(r) \/ Lock(r) \/ Skip(r) \/ Run(r) \/ Commit(r)
      PROVE  OpOf' /\ setup' = setup
  BY <1>3 DEF LoadApplied, NextVersion, Lock, Skip, Run, Commit
<1>4. ASSUME NEW r \in Runners, Finish(r) \/ Refuse(r) \/ Fail(r)
      PROVE  OpOf' /\ setup' = setup
  BY <1>4 DEF Finish, Refuse, Fail, Return
<1>5. ASSUME NEW p \in Processes, Crash(p)
      PROVE  OpOf' /\ setup' = setup
  BY <1>5 DEF Crash
<1>6. CASE UNCHANGED vars
  BY <1>6 DEF vars
<1>. QED  BY <1>1, <1>2, <1>3, <1>4, <1>5, <1>6 DEF Next, Progress

(* Only a commit changes the log, and it appends the version in hand, which
   was not in it.                                                           *)
LEMMA LogCases ==
    ASSUME MigrateInv, OpOf, OnlyUp, [Next]_vars
    PROVE  \/ log' = log
           \/ \E r \in Runners : /\ Commit(r) /\ pc[r] = "commit" /\ todo[r] # <<>>
                                 /\ Head(todo[r]) \in Versions
                                 /\ log' = Append(log, Head(todo[r]))
<1>1. ASSUME NEW r \in Runners, Commit(r)
      PROVE  /\ pc[r] = "commit" /\ todo[r] # <<>> /\ Head(todo[r]) \in Versions
             /\ log' = Append(log, Head(todo[r]))
  <2>1. pc[r] = "commit" /\ todo[r] # <<>> /\ Head(todo[r]) \in Versions
    BY <1>1, TailType DEF Commit, MigrateInv, TypeOK, HasWork
  <2>2. Forwards(r)
    BY <2>1 DEF OpOf, OnlyUp, Forwards
  <2>. QED  BY <1>1, <2>1, <2>2 DEF Commit, MigrateInv, ReadyToCommit, Ready, NewEntries
<1>2. ASSUME NEW r \in Runners, Call(r) \/ EnsureMigrationTable(r) \/ LoadApplied(r)
             \/ NextVersion(r) \/ Finish(r) \/ Refuse(r) \/ Lock(r) \/ Skip(r) \/ Run(r) \/ Fail(r)
      PROVE  log' = log
  BY <1>2 DEF Call, EnsureMigrationTable, LoadApplied, NextVersion, Finish, Refuse, Lock, Skip,
              Run, Fail
<1>3. ASSUME NEW p \in Processes, Crash(p)
      PROVE  log' = log
  BY <1>3 DEF Crash
<1>. QED  BY <1>1, <1>2, <1>3 DEF Next, Progress, vars

LEMMA LogGrows ==
    ASSUME MigrateInv, OpOf, OnlyUp, [Next]_vars, NEW v, Applied(v)
    PROVE  Applied(v)'
<1>1. CASE log' = log
  BY <1>1 DEF Applied
<1>2. ASSUME NEW w \in Versions, log' = Append(log, w)
      PROVE  Applied(v)'
  <2>1. log \in Seq(Versions)
    BY DEF MigrateInv, TypeOK
  <2>2. PICK n \in 1..Len(log) : log[n] = v
    BY DEF Applied, Contains
  <2>3. n \in 1..Len(log') /\ log'[n] = v
    BY <1>2, <2>1, <2>2
  <2>. QED  BY <2>3 DEF Applied, Contains
<1>. QED  BY <1>1, <1>2, LogCases

(* How the versions a runner has in hand come about.                        *)
LEMMA TodoCases ==
    ASSUME MigrateInv, OpOf, OnlyUp, [Next]_vars, NEW q \in Runners, Running(q)'
    PROVE  \/ Running(q) /\ op'[q] = op[q] /\ todo'[q] = todo[q]
           \/ /\ Running(q) /\ op'[q] = op[q] /\ todo[q] # <<>>
              /\ todo'[q] = Tail(todo[q]) /\ Contains(log', Head(todo[q]))
           \/ op'[q] = "Up" /\ todo'[q] = Registered(q)
           \/ op'[q] = "UpOne" /\ todo'[q] = FirstPending(q) /\ log' = log
<1> DEFINE Goal == \/ Running(q) /\ op'[q] = op[q] /\ todo'[q] = todo[q]
                   \/ /\ Running(q) /\ op'[q] = op[q] /\ todo[q] # <<>>
                      /\ todo'[q] = Tail(todo[q]) /\ Contains(log', Head(todo[q]))
                   \/ op'[q] = "Up" /\ todo'[q] = Registered(q)
                   \/ op'[q] = "UpOne" /\ todo'[q] = FirstPending(q) /\ log' = log
<1> USE DEF Running
<1>1. ASSUME NEW r \in Runners, Call(r) \/ NextVersion(r) \/ Finish(r) \/ Refuse(r) \/ Lock(r)
             \/ Run(r) \/ Fail(r)
      PROVE  Goal
  BY <1>1 DEF MigrateInv, TypeOK, Call, NextVersion, Finish, Refuse, Lock, Run, Fail, Return
<1>2. ASSUME NEW r \in Runners, EnsureMigrationTable(r)
      PROVE  Goal
  BY <1>2, SMTT(40) DEF MigrateInv, TypeOK, EnsureMigrationTable, Return
<1>3. ASSUME NEW r \in Runners, LoadApplied(r)
      PROVE  Goal
  <2>1. CASE q # r
    BY <1>3, <2>1 DEF MigrateInv, TypeOK, LoadApplied
  <2>2. CASE q = r
    <3>1. op[r] = "UpOne"
      BY <1>3 DEF LoadApplied, MigrateInv, HasWork, OpOf, OnlyUp
    <3>. QED  BY <1>3, <2>2, <3>1 DEF MigrateInv, TypeOK, LoadApplied, Planned
  <2>. QED  BY <2>1, <2>2
<1>4. ASSUME NEW r \in Runners, Skip(r)
      PROVE  Goal
  <2>1. Applied(Head(todo[r])) /\ todo[r] # <<>>
    BY <1>4 DEF Skip, AlreadyDone, Forwards, OpOf, OnlyUp, MigrateInv, HasWork
  <2>2. Contains(log', Head(todo[r]))
    BY <2>1, LogGrows DEF Applied
  <2>. QED  BY <1>4, <2>1, <2>2 DEF MigrateInv, TypeOK, Skip
<1>5. ASSUME NEW r \in Runners, Commit(r)
      PROVE  Goal
  <2>1. todo[r] # <<>> /\ Head(todo[r]) \in Versions
    BY <1>5, TailType DEF Commit, MigrateInv, TypeOK, HasWork
  <2>2. log \in Seq(Versions) /\ log' = Append(log, Head(todo[r]))
    BY <1>5, <2>1 DEF Commit, MigrateInv, TypeOK, ReadyToCommit, Ready, NewEntries, Forwards,
                      OpOf, OnlyUp
  <2>3. Contains(log', Head(todo[r]))
    <3>1. Len(log) + 1 \in 1..Len(log') /\ log'[Len(log) + 1] = Head(todo[r])
      BY <2>1, <2>2
    <3>. QED  BY <3>1 DEF Contains
  <2>. QED  BY <1>5, <2>1, <2>3 DEF MigrateInv, TypeOK, Commit
<1>6. ASSUME NEW p \in Processes, Crash(p)
      PROVE  Goal
  BY <1>6 DEF Crash
<1>7. CASE UNCHANGED vars
  BY <1>7 DEF vars
<1>. QED  BY <1>1, <1>2, <1>3, <1>4, <1>5, <1>6, <1>7 DEF Next, Progress

(* A version in hand is the first one, or among those that follow.          *)
LEMMA TailContains ==
    ASSUME NEW s \in Seq(Versions), s # <<>>, NEW v, Contains(s, v), v # Head(s)
    PROVE  Contains(Tail(s), v)
<1>1. PICK i \in 1..Len(s) : s[i] = v
  BY DEF Contains
<1>2. i - 1 \in 1..Len(Tail(s)) /\ Tail(s)[i - 1] = v
  BY <1>1, TailType
<1>. QED  BY <1>2 DEF Contains

LEMMA UpCoversKept ==
    ASSUME MigrateInv, OpOf, UpCovers, [Next]_vars
    PROVE  UpCovers'
<1> SUFFICES ASSUME OnlyUp, NEW q \in Runners, Running(q)', op'[q] = "Up",
                    NEW v \in Known[ProcessOf[q]]
             PROVE  Applied(v)' \/ Contains(todo'[q], v)
  BY OpOfKept DEF UpCovers, OnlyUp
<1>1. CASE Running(q) /\ op'[q] = op[q] /\ todo'[q] = todo[q]
  BY <1>1, LogGrows DEF UpCovers
<1>2. CASE /\ Running(q) /\ op'[q] = op[q] /\ todo[q] # <<>>
           /\ todo'[q] = Tail(todo[q]) /\ Contains(log', Head(todo[q]))
  <2>1. Applied(v) \/ Contains(todo[q], v)
    BY <1>2 DEF UpCovers
  <2>2. todo[q] \in Seq(Versions)
    BY DEF MigrateInv, TypeOK
  <2>. QED  BY <1>2, <2>1, <2>2, LogGrows, TailContains DEF Applied
<1>3. CASE todo'[q] = Registered(q)
  BY <1>3, RegisteredSorted
<1>. QED  BY <1>1, <1>2, <1>3, TodoCases

(* Where nobody rolls back, Up returns nil only when all that its Registry
   knows is in the log.                                                     *)
THEOREM UpAlwaysAppliesAll == Spec => UpAppliesAll
<1> DEFINE Inv == MigrateInv /\ OpOf /\ UpCovers
<1>1. Init => Inv
  BY MigrateStart DEF Init, OpOf, UpCovers, Running
<1>2. Inv /\ [Next]_vars => Inv'
  BY MigrateKept, OpOfKept, UpCoversKept
<1>3. Inv => [\A r \in Runners :
        OnlyUp /\ pc[r] = "next" /\ pc'[r] = "idle" /\ op[r] = "Up" /\ todo[r] = <<>>
        /\ once'[ProcessOf[r]] # "new"
            => Known[ProcessOf[r]] \subseteq ToSet(log)]_vars
  <2> SUFFICES ASSUME Inv, NEW r \in Runners, OnlyUp, pc[r] = "next", op[r] = "Up",
                      todo[r] = <<>>, NEW v \in Known[ProcessOf[r]]
               PROVE  v \in ToSet(log)
    OBVIOUS
  <2>1. ~Contains(todo[r], v)
    BY DEF Contains
  <2>2. Applied(v)
    BY <2>1 DEF UpCovers, Running
  <2>. QED  BY <2>2 DEF Applied, Contains, ToSet, MigrateInv, TypeOK
<1>. QED  BY <1>1, <1>2, <1>3, PTL DEF Spec, UpAppliesAll

-----------------------------------------------------------------------------
(* ... and every process knows an initial segment.                          *)

LEMMA AheadKept ==
    ASSUME InitialSegments, MigrateInv, OpOf, Ahead, [Next]_vars
    PROVE  Ahead'
<1> SUFFICES ASSUME OnlyUp, NEW q \in Runners, Running(q)', NEW i \in DOMAIN todo'[q],
                    NEW v \in Versions, v < todo'[q][i]
             PROVE  Applied(v)' \/ \E j \in 1..(i - 1) : todo'[q][j] = v
  BY OpOfKept DEF Ahead, OnlyUp
<1> DEFINE R == Registered(q)
           K == Known[ProcessOf[q]]
<1>0. /\ R \in Seq(Versions) /\ K \subseteq Versions
      /\ \A m \in 1..Len(R) : R[m] \in K
      /\ \A m, n \in 1..Len(R) : m < n => R[m] < R[n]
      /\ \A w \in K : \E m \in 1..Len(R) : R[m] = w
      /\ \A w \in Versions, m \in 1..Len(R) : w < R[m] => w \in K
  BY RegisteredSorted, RunnersAssumption, KnownAssumption DEF InitialSegments, Contains
<1>1. CASE Running(q) /\ op'[q] = op[q] /\ todo'[q] = todo[q]
  BY <1>1, LogGrows DEF Ahead
<1>2. CASE /\ Running(q) /\ op'[q] = op[q] /\ todo[q] # <<>>
           /\ todo'[q] = Tail(todo[q]) /\ Contains(log', Head(todo[q]))
  <2>1. /\ i \in Nat \ {0} /\ i + 1 \in DOMAIN todo[q] /\ todo'[q][i] = todo[q][i + 1]
        /\ \A j \in 1..(i - 1) : todo'[q][j] = todo[q][j + 1]
        /\ Head(todo[q]) = todo[q][1]
    <3>1. todo[q] \in Seq(Versions)
      BY DEF MigrateInv, TypeOK
    <3>2. /\ Len(todo[q]) \in Nat \ {0} /\ Len(Tail(todo[q])) = Len(todo[q]) - 1
          /\ Head(todo[q]) = todo[q][1] /\ Tail(todo[q]) \in Seq(Versions)
          /\ \A j \in 1..Len(Tail(todo[q])) : Tail(todo[q])[j] = todo[q][j + 1]
      BY <1>2, <3>1, TailType
    <3>3. i \in 1..(Len(todo[q]) - 1)
      BY <1>2, <3>2
    <3>. QED  BY <1>2, <3>1, <3>2, <3>3
  <2>2. Applied(v) \/ \E j \in 1..i : todo[q][j] = v
    BY <1>2, <2>1 DEF Ahead
  <2>3. ASSUME NEW j \in 1..i, todo[q][j] = v, j # 1
        PROVE  j - 1 \in 1..(i - 1) /\ todo'[q][j - 1] = v
    BY <2>1, <2>3
  <2>. QED  BY <1>2, <2>1, <2>2, <2>3, LogGrows DEF Applied
<1>3. CASE todo'[q] = Registered(q)
  <2>1. i \in 1..Len(R)
    BY <1>0, <1>3
  <2>2. PICK m \in 1..Len(R) : R[m] = v
    BY <1>0, <1>3, <2>1
  <2>3. m < i
    <3>1. v \in Nat /\ R[i] \in Nat /\ v < R[i]
      BY <1>0, <1>3, <2>1, VersionsAssumption
    <3> HIDE DEF R
    <3>2. ~(i < m) /\ i # m
      BY <1>0, <2>1, <2>2, <3>1
    <3>. QED  BY <2>1, <2>2, <3>2
  <2>. QED  BY <1>3, <2>1, <2>2, <2>3
<1>4. CASE op'[q] = "UpOne" /\ todo'[q] = FirstPending(q) /\ log' = log
  <2> DEFINE pending == {n \in DOMAIN R : ~Applied(R[n])}
             f == Min(pending)
  <2>1. pending # {} /\ i = 1 /\ todo'[q] = <<R[f]>>
    BY <1>4 DEF FirstPending
  <2>2. pending \in SUBSET Nat
    BY <1>0
  <2>3. f \in pending /\ \A n \in pending : f <= n
    <3> HIDE DEF pending
    <3>. QED  BY <2>1, <2>2, LeastElement DEF Min
  <2>4. f \in 1..Len(R) /\ v < R[f]
    BY <1>0, <2>1, <2>3
  <2> HIDE DEF f
  <2>5. PICK m \in 1..Len(R) : R[m] = v
    BY <1>0, <2>4
  <2>6. m < f
    <3>1. v \in Nat /\ R[f] \in Nat
      BY <1>0, <2>4, VersionsAssumption
    <3> HIDE DEF R
    <3>2. ~(f < m) /\ f # m
      BY <1>0, <2>4, <2>5, <3>1
    <3>. QED  BY <2>4, <2>5, <3>2
  <2>7. Applied(v)
    BY <1>0, <2>3, <2>4, <2>5, <2>6
  <2>. QED  BY <2>7, LogGrows
<1>. QED  BY <1>1, <1>2, <1>3, <1>4, TodoCases

LEMMA InOrderKept ==
    ASSUME MigrateInv, OpOf, Ahead, AppliedInOrder, [Next]_vars
    PROVE  AppliedInOrder'
<1> SUFFICES ASSUME OnlyUp, NEW n \in DOMAIN log', NEW v \in Versions, v < log'[n]
             PROVE  \E m \in 1..(n - 1) : log'[m] = v
  BY OpOfKept DEF AppliedInOrder, OnlyUp
<1>1. CASE log' = log
  BY <1>1 DEF AppliedInOrder
<1>2. ASSUME NEW r \in Runners, pc[r] = "commit", todo[r] # <<>>, Head(todo[r]) \in Versions,
             log' = Append(log, Head(todo[r]))
      PROVE  \E m \in 1..(n - 1) : log'[m] = v
  <2>1. /\ log \in Seq(Versions) /\ Len(log) \in Nat /\ n \in 1..(Len(log) + 1)
        /\ \A m \in 1..Len(log) : log'[m] = log[m]
        /\ log'[Len(log) + 1] = Head(todo[r])
    BY <1>2 DEF MigrateInv, TypeOK
  <2>2. CASE n \in 1..Len(log)
    <3>1. PICK m \in 1..(n - 1) : log[m] = v
      BY <2>1, <2>2 DEF AppliedInOrder
    <3>. QED  BY <2>1, <2>2, <3>1
  <2>3. CASE n = Len(log) + 1
    <3>1. 1 \in DOMAIN todo[r] /\ v < todo[r][1]
      BY <1>2, <2>1, <2>3, TailType DEF MigrateInv, TypeOK
    <3>2. Applied(v)
      BY <1>2, <3>1 DEF Ahead, Running
    <3>. QED  BY <2>1, <2>3, <3>2 DEF Applied, Contains
  <2>. QED  BY <2>1, <2>2, <2>3
<1>. QED  BY <1>1, <1>2, LogCases

(* Where nobody rolls back and every process knows an initial segment of the
   versions, no version is ever applied before those below it, however Up and
   UpOne of old and new deployments interleave, fail and crash.             *)
THEOREM MigrationsRunInOrder ==
    ASSUME InitialSegments
    PROVE  Spec => []AppliedInOrder
<1> DEFINE Inv == MigrateInv /\ OpOf /\ Ahead /\ AppliedInOrder
<1>1. Init => Inv
  BY MigrateStart DEF Init, OpOf, Ahead, Running, AppliedInOrder
<1>2. Inv /\ [Next]_vars => Inv'
  BY MigrateKept, OpOfKept, AheadKept, InOrderKept
<1>. QED  BY <1>1, <1>2, PTL DEF Spec
=============================================================================
