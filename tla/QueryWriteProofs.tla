--------------------------- MODULE QueryWriteProofs ---------------------------
(***************************************************************************)
(* Proofs about QueryWrites, for any number of sessions, rows and keys, any*)
(* calls and any chunk size: the types, with them the bound on the         *)
(* documents a Delete has in memory; that upserts by key do not create a   *)
(* second document; and that on SQLite the terminals are those of          *)
(* AtomicWrites.                                                           *)
(*                                                                         *)
(* On SQLite a transaction is alone (Solitary), so what it has read is     *)
(* what it finds when it writes (Current), and what it has done and has    *)
(* yet to do can be told from the committed rows (Progress).  Under a      *)
(* unique index transactions share rows; Distinct says what the waits of   *)
(* the index leave true of their uncommitted rows.                         *)
(***************************************************************************)
EXTENDS QueryWrites, WellFoundedInduction, NaturalsInduction, FiniteSetTheorems, TLAPS

-----------------------------------------------------------------------------
(* Ids in order.                                                            *)

(* A set of naturals that is not empty has a least element.                 *)
LEMMA LeastElement ==
    ASSUME NEW T \in SUBSET Nat, T # {}
    PROVE  \E n \in T : \A m \in T : n <= m
<1> DEFINE R == {ss \in Nat \X Nat : ss[1] < ss[2]}
<1>1. OpToRel(<, Nat) = R
  BY Zenon DEF OpToRel
<1>2. IsWellFoundedOn(R, Nat)
  BY <1>1, NatLessThanWellFounded, Zenon
<1>3. PICK x \in T : \A y \in T : ~(<<y, x>> \in R)
  <2> HIDE DEF R
  <2>. QED  BY <1>2, WFMin
<1>4. \A m \in T : m < x => <<m, x>> \in R
  BY Zenon
<1>5. \A m \in T : ~(m < x)
  <2> HIDE DEF R
  <2>. QED  BY <1>3, <1>4, Zenon
<1>. QED  BY <1>5

(* A greater element has more below it.                                     *)
LEMMA RankGrows ==
    ASSUME NEW S \in SUBSET Nat, IsFiniteSet(S), NEW x \in S, NEW y \in S, x < y
    PROVE  Cardinality(Below(S, x)) < Cardinality(Below(S, y))
<1>1. IsFiniteSet(Below(S, y)) /\ IsFiniteSet(Below(S, x))
  BY FS_Subset DEF Below
<1>2. Below(S, x) \subseteq Below(S, y) /\ x \in Below(S, y) /\ x \notin Below(S, x)
  <2>1. \A z \in S : z \in Nat
    OBVIOUS
  <2>2. ASSUME NEW z \in S, z < x PROVE z < y
    BY <2>1, <2>2
  <2>3. ~(x < x)
    BY <2>1
  <2>. QED  BY <2>2, <2>3, Zenon DEF Below
<1>3. Cardinality(Below(S, x)) <= Cardinality(Below(S, y)) /\ Cardinality(Below(S, x)) # Cardinality(Below(S, y))
  BY <1>1, <1>2, FS_Subset
<1>4. Cardinality(Below(S, x)) \in Nat /\ Cardinality(Below(S, y)) \in Nat
  BY <1>1, FS_CardinalityType
<1>. QED  BY <1>3, <1>4

(* What sorting returns: every element once, in ascending order.  Ranks are
   an injection of the set into as many numbers, hence onto them.           *)
LEMMA AscendingSorts ==
    ASSUME NEW S \in SUBSET Nat, IsFiniteSet(S)
    PROVE  /\ Ascending(S) \in [1..Cardinality(S) -> S]
           /\ Ascending(S) \in Seq(S)
           /\ Cardinality(S) \in Nat
           /\ \A i, j \in 1..Cardinality(S) : i < j => Ascending(S)[i] < Ascending(S)[j]
           /\ \A v \in S : \E i \in 1..Cardinality(S) : Ascending(S)[i] = v
<1> DEFINE n == Cardinality(S)
           rank == [x \in S |-> Cardinality(Below(S, x)) + 1]
           a == Ascending(S)
<1>1. n \in Nat
  BY FS_CardinalityType
<1>2. ASSUME NEW x \in S PROVE rank[x] \in 1..n
  <2>1. IsFiniteSet(Below(S, x)) /\ Cardinality(Below(S, x)) <= n /\ Cardinality(Below(S, x)) # n
    <3>1. Below(S, x) \subseteq S /\ x \notin Below(S, x)
      BY DEF Below
    <3>. QED  BY <3>1, FS_Subset
  <2>2. Cardinality(Below(S, x)) \in Nat
    BY <2>1, FS_CardinalityType
  <2>. QED  BY <1>1, <2>1, <2>2
<1>3. \A x, y \in S : x < y => rank[x] < rank[y]
  <2>1. \A x \in S : IsFiniteSet(Below(S, x)) /\ Cardinality(Below(S, x)) \in Nat
    BY FS_Subset, FS_CardinalityType DEF Below
  <2>. QED  BY <2>1, RankGrows
<1>4. a = [k \in 1..n |-> CHOOSE x \in S : rank[x] = k]
  <2>1. \A x \in S : Cardinality(Below(S, x)) \in Nat
    BY FS_Subset, FS_CardinalityType DEF Below
  <2>2. ASSUME NEW k \in 1..n PROVE (CHOOSE x \in S : Cardinality(Below(S, x)) = k - 1) = (CHOOSE x \in S : rank[x] = k)
    <3>1. \A x \in S : Cardinality(Below(S, x)) = k - 1 <=> rank[x] = k
      BY <1>1, <2>1
    <3>. QED  BY <3>1
  <2>. QED  BY <2>2 DEF Ascending
<1>5. rank = [x \in S |-> rank[x]] /\ IsFiniteSet(1..n) /\ Cardinality(1..n) = n
  BY <1>1, FS_Interval
<1> HIDE DEF rank, n, a
<1>6. \A x, y \in S : rank[x] = rank[y] => x = y
  <2>1. \A x \in S : x \in Nat /\ rank[x] \in Int
    BY <1>1, <1>2
  <2>. QED  BY <1>3, <2>1
<1>7. rank \in [S -> 1..n]
  BY <1>2, <1>5
<1>8. rank \in Surjection(S, 1..n)
  <2>1. rank \in Injection(S, 1..n)
    BY <1>6, <1>7 DEF Injection, IsInjective
  <2>. QED  BY <1>5, <2>1, FS_Injection DEF n
<1>9. \A k \in 1..n : a[k] \in S /\ rank[a[k]] = k
  BY <1>4, <1>8 DEF Surjection
<1>10. a \in [1..n -> S]
  BY <1>4, <1>9
<1>11. \A i, j \in 1..n : i < j => a[i] < a[j]
  <2> SUFFICES ASSUME NEW i \in 1..n, NEW j \in 1..n, i < j PROVE a[i] < a[j]
    OBVIOUS
  <2>1. a[i] \in Nat /\ a[j] \in Nat /\ a[i] \in S /\ a[j] \in S
    BY <1>9
  <2>2. rank[a[i]] = i /\ rank[a[j]] = j
    BY <1>9
  <2>3. ~(a[j] < a[i]) /\ a[i] # a[j]
    BY <1>3, <2>1, <2>2
  <2>. QED  BY <2>1, <2>3
<1>12. \A v \in S : \E i \in 1..n : a[i] = v
  BY <1>6, <1>7, <1>9
<1>13. a \in Seq(S)
  BY <1>1, <1>10
<1>. QED  BY <1>1, <1>10, <1>11, <1>12, <1>13 DEF n, a

Increasing(s) == \A i, j \in DOMAIN s : i < j => s[i] < s[j]

LEMMA IncreasingOnto ==
    ASSUME NEW S \in SUBSET Nat, IsFiniteSet(S), NEW s \in [1..Cardinality(S) -> S], Increasing(s)
    PROVE  /\ \A i, j \in 1..Cardinality(S) : s[i] = s[j] => i = j
           /\ \A v \in S : \E i \in 1..Cardinality(S) : s[i] = v
<1> DEFINE n == Cardinality(S)
<1>1. n \in Nat
  BY FS_CardinalityType
<1>2. IsFiniteSet(1..n) /\ Cardinality(1..n) = n
  BY <1>1, FS_Interval
<1> HIDE DEF n
<1>3. \A i, j \in 1..n : s[i] = s[j] => i = j
  <2>1. \A i \in 1..n : s[i] \in Nat
    BY DEF n
  <2>2. \A i, j \in 1..n : i < j => s[i] < s[j]
    BY DEF Increasing, n
  <2>. QED  BY <1>1, <2>1, <2>2
<1>4. s \in Injection(1..n, S)
  BY <1>3 DEF Injection, IsInjective, n
<1>5. s \in Surjection(1..n, S)
  BY <1>2, <1>4, FS_Injection DEF n
<1>. QED  BY <1>3, <1>5 DEF Surjection, n

(* The k-th of an increasing sequence has k - 1 elements below it.          *)
LEMMA RankOfKth ==
    ASSUME NEW S \in SUBSET Nat, IsFiniteSet(S), NEW s \in [1..Cardinality(S) -> S], Increasing(s),
           NEW k \in 1..Cardinality(S)
    PROVE  Cardinality(Below(S, s[k])) = k - 1
<1> DEFINE n == Cardinality(S)
           B == Below(S, s[k])
           g == [i \in 1..(k - 1) |-> s[i]]
<1>1. n \in Nat
  BY FS_CardinalityType
<1>2. /\ \A i, j \in 1..n : s[i] = s[j] => i = j
      /\ \A v \in S : \E i \in 1..n : s[i] = v
  BY IncreasingOnto
<1>3. \A i, j \in 1..n : (i < j => s[i] < s[j]) /\ s[i] \in Nat
  BY DEF Increasing
<1>4. k \in 1..n /\ s \in [1..n -> S]
  OBVIOUS
<1> HIDE DEF n
<1>5. \A i \in 1..n : s[i] < s[k] <=> i < k
  BY <1>1, <1>2, <1>3, <1>4
<1>6. g \in [1..(k - 1) -> B]
  <2>1. \A i \in 1..(k - 1) : i \in 1..n /\ i < k
    BY <1>1, <1>4
  <2>2. \A i \in 1..(k - 1) : s[i] \in B
    BY <1>4, <1>5, <2>1 DEF Below
  <2> HIDE DEF B
  <2>. QED  BY <2>2
<1>7. \A i, j \in 1..(k - 1) : g[i] = g[j] => i = j
  BY <1>1, <1>2, <1>4
<1>8. \A v \in B : \E i \in 1..(k - 1) : g[i] = v
  <2> SUFFICES ASSUME NEW v \in B PROVE \E i \in 1..(k - 1) : g[i] = v
    OBVIOUS
  <2>1. v \in S /\ v < s[k]
    BY DEF Below
  <2>2. PICK i \in 1..n : s[i] = v
    BY <1>2, <2>1
  <2>3. i \in 1..(k - 1)
    BY <1>1, <1>4, <1>5, <2>1, <2>2
  <2>. QED  BY <2>2, <2>3
<1> HIDE DEF g, B
<1>9. g \in Bijection(1..(k - 1), B)
  BY <1>6, <1>7, <1>8 DEF Bijection, Injection, IsInjective, Surjection
<1>. QED  BY <1>1, <1>4, <1>9, FS_CountingElements DEF ExistsBijection, B

(* An increasing sequence of all elements is the one that sorting returns.  *)
LEMMA AscendingUnique ==
    ASSUME NEW S \in SUBSET Nat, IsFiniteSet(S), NEW s \in [1..Cardinality(S) -> S], Increasing(s)
    PROVE  Ascending(S) = s
<1> DEFINE n == Cardinality(S)
<1>1. \A v \in S : \E i \in 1..n : s[i] = v
  BY IncreasingOnto
<1>2. \A k \in 1..n : Cardinality(Below(S, s[k])) = k - 1
  BY RankOfKth
<1>3. n \in Nat /\ s \in [1..n -> S]
  BY FS_CardinalityType
<1>4. Ascending(S) = [k \in 1..n |-> CHOOSE x \in S : Cardinality(Below(S, x)) = k - 1]
  BY DEF Ascending
<1> HIDE DEF n
<1>5. ASSUME NEW k \in 1..n
      PROVE  (CHOOSE x \in S : Cardinality(Below(S, x)) = k - 1) = s[k]
  <2>1. ASSUME NEW x \in S, Cardinality(Below(S, x)) = k - 1 PROVE x = s[k]
    <3>1. PICK i \in 1..n : s[i] = x
      BY <1>1
    <3>2. i - 1 = k - 1
      BY <1>2, <2>1, <3>1
    <3>. QED  BY <1>3, <3>1, <3>2
  <2>2. s[k] \in S /\ Cardinality(Below(S, s[k])) = k - 1
    BY <1>2, <1>3
  <2>. QED  BY <2>1, <2>2
<1>. QED  BY <1>3, <1>4, <1>5

(* A stretch of a sorted sequence is its elements sorted.                   *)
LEMMA AscendingPart ==
    ASSUME NEW S \in SUBSET Nat, IsFiniteSet(S), NEW lo \in Nat, NEW m \in Nat,
           lo + m <= Cardinality(S)
    PROVE  LET T == {Ascending(S)[lo + k] : k \in 1..m} IN
           /\ IsFiniteSet(T) /\ Cardinality(T) = m
           /\ Ascending(T) = [k \in 1..m |-> Ascending(S)[lo + k]]
<1> DEFINE n == Cardinality(S)
           a == Ascending(S)
           T == {a[lo + k] : k \in 1..m}
           g == [k \in 1..m |-> a[lo + k]]
<1>1. /\ a \in [1..n -> S] /\ n \in Nat /\ lo + m <= n
      /\ \A i, j \in 1..n : i < j => a[i] < a[j]
  BY AscendingSorts
<1> HIDE DEF n, a
<1>2. \A k \in 1..m : lo + k \in 1..n
  BY <1>1
<1>3. \A i, j \in 1..m : i < j => g[i] < g[j]
  <2> SUFFICES ASSUME NEW i \in 1..m, NEW j \in 1..m, i < j PROVE a[lo + i] < a[lo + j]
    OBVIOUS
  <2>1. lo + i < lo + j
    OBVIOUS
  <2>. QED  BY <1>1, <1>2, <2>1
<1>4. T \subseteq S /\ T \in SUBSET Nat /\ g \in [1..m -> T] /\ DOMAIN g = 1..m
  BY <1>1, <1>2
<1>5. \A v \in T : \E k \in 1..m : g[k] = v
  OBVIOUS
<1> HIDE DEF T, g
<1>6. \A i, j \in 1..m : g[i] = g[j] => i = j
  <2>1. \A i \in 1..m : g[i] \in Nat
    BY <1>4
  <2>. QED  BY <1>3, <2>1
<1>7. g \in Bijection(1..m, T)
  BY <1>4, <1>5, <1>6 DEF Bijection, Injection, IsInjective, Surjection
<1>8. IsFiniteSet(T) /\ Cardinality(T) = m
  BY <1>4, <1>7, FS_CountingElements, FS_Subset DEF ExistsBijection
<1>9. Ascending(T) = g
  BY <1>3, <1>4, <1>8, AscendingUnique DEF Increasing
<1>. QED  BY <1>8, <1>9 DEF T, g, a

-----------------------------------------------------------------------------

USE IdsAssumption

Bufs == UNION {[D -> Row] : D \in SUBSET Ids}

(* TypeOK, with the local variables as functions.                           *)
Types ==
    /\ setup \in Setups
    /\ rows \in [Ids -> Row]
    /\ lock \in [Ids -> Sessions \cup {Nobody}]
    /\ fresh \subseteq Ids
    /\ pc \in [Sessions -> {"idle", "begin", "find", "put", "commit"}]
    /\ tries \in [Sessions -> 0..setup.tries]
    /\ tmpl \in [Sessions -> Ids \cup {NoId}]
    /\ buf \in [Sessions -> Bufs]
    /\ docs \in [Sessions -> Seq(Ids \X Row)]
    /\ \A s \in Sessions : Q(s).op = "delete" => Len(docs[s]) <= ChunkSize
    /\ count \in [Sessions -> 0..MaxCount]
    /\ skip \in [Sessions -> Nat] /\ limit \in [Sessions -> Nat] /\ got \in [Sessions -> Nat]

(* A session outside its transaction has nothing, one about to write has
   read something to write; a document is read once, and a document that is
   not there is what an upsert has missed.                                  *)
Inside(s) == pc[s] \notin {"idle", "begin"}
Shape ==
    \A s \in Sessions :
        /\ ~Inside(s) => buf[s] = <<>> /\ docs[s] = <<>>
        /\ pc[s] # "idle" => Q(s).op # "none"
        /\ pc[s] = "put" => docs[s] # <<>>
        /\ \A m, n \in DOMAIN docs[s] : docs[s][m][1] = docs[s][n][1] => m = n
        /\ \A n \in DOMAIN docs[s] :
            IF docs[s][n][2] = Gone
              THEN Q(s).op = "upsertOne" /\ Len(docs[s]) = 1
              ELSE docs[s][n][2].key \in Q(s).match

(* On SQLite one transaction is open at a time.                             *)
Solitary == SQLite => \A s, t \in Sessions : s # t => ~(Inside(s) /\ Inside(t))

LiveOf(k) == [st |-> "live", key |-> k]
Single(now, k) == \A i, j \in Ids : now[i] = LiveOf(k) /\ now[j] = LiveOf(k) => i = j
Fine(k) == SQLite /\ Keyed(k) /\ Single(setup.rows, k)

(* What s has read of the documents with key k is still so.                 *)
Current(s, k) ==
    Q(s).op # "delete" => \A n \in DOMAIN docs[s] :
        /\ docs[s][n][2] = LiveOf(k) => View(s)[docs[s][n][1]] = LiveOf(k)
        /\ docs[s][n][2] = Gone /\ Q(s).match = {k} => \A j \in Ids : View(s)[j] # LiveOf(k)

OnePerKey ==
    \A k \in Keys : Fine(k) =>
        /\ Single(rows, k)
        /\ \A s \in Sessions : Single(View(s), k) /\ Current(s, k)

(* Uncommitted rows are locked; no two transactions have the same row, and
   none has or is going to have a key twice.                                *)
NoneTwice(now) == \A i, j \in Ids : now[i].key = now[j].key /\ now[i].key # NoKey => i = j
Locked == \A s \in Sessions : \A i \in DOMAIN buf[s] : lock[i] = s
Distinct ==
    setup.unique =>
        /\ NoneTwice(rows)
        /\ \A s \in Sessions : NoneTwice(View(s))
        /\ \A s, t \in Sessions : s # t =>
            \A i \in DOMAIN buf[s], j \in DOMAIN buf[t] :
                buf[s][i].key = buf[t][j].key => buf[s][i].key = NoKey

-----------------------------------------------------------------------------
(* The types of what the model computes.                                    *)

LEMMA BufType ==
    ASSUME NEW b \in Bufs
    PROVE  /\ DOMAIN b \subseteq Ids
           /\ \A i \in DOMAIN b : b[i] \in Row
BY DEF Bufs

LEMMA TypesImply == Types => TypeOK
<1> SUFFICES ASSUME Types PROVE TypeOK
  OBVIOUS
<1>1. ASSUME NEW s \in Sessions
      PROVE  DOMAIN buf[s] \subseteq Ids /\ Range(buf[s]) \subseteq Row
  BY BufType DEF Types, Range
<1>. QED  BY <1>1 DEF Types, TypeOK

LEMMA SetupType ==
    ASSUME Types, NEW s \in Sessions
    PROVE  /\ setup.tries \in Nat /\ setup.rows \in [Ids -> Row] /\ setup.unique \in BOOLEAN
           /\ setup.call \in [Sessions -> Call]
           /\ Q(s) \in Call
           /\ Q(s).limit \in Nat /\ Q(s).skip \in Nat /\ Q(s).match \subseteq Keys
           /\ Q(s).set \in Keys \cup {NoKey} /\ Q(s).new \in Keys \cup {NoKey}
<1>1. setup \in [backend: {"sqlite", "postgres"}, unique: BOOLEAN,
                rows: [Ids -> Row], call: [Sessions -> Call], tries: Nat]
  BY SetupsAssumption DEF Types
<1>2. setup.call \in [Sessions -> Call] /\ setup.tries \in Nat
      /\ setup.rows \in [Ids -> Row] /\ setup.unique \in BOOLEAN
  BY <1>1
<1>3. Q(s) \in Call
  BY <1>2 DEF Q
<1>. QED  BY <1>2, <1>3 DEF Call

LEMMA ViewType ==
    ASSUME Types, NEW s \in Sessions
    PROVE  View(s) \in [Ids -> Row]
BY BufType DEF Types, View

LEMMA RowFacts ==
    /\ Gone \in Row /\ Gone.key = NoKey /\ Gone.st = "gone"
    /\ \A r \in Row : /\ r.st \in {"live", "deleted", "gone"}
                      /\ r # Gone => r.st # "gone" /\ r.key \in Keys /\ r.key # NoKey
                      /\ r.key = NoKey => r = Gone
<1>1. NoKey \notin Keys
  BY KeysAssumption
<1>2. Gone \in Row /\ Gone.key = NoKey /\ Gone.st = "gone"
  BY DEF Row, Gone
<1>3. ASSUME NEW r \in Row
      PROVE  r = Gone \/ (r.st \in {"live", "deleted"} /\ r.key \in Keys)
  BY DEF Row, Gone
<1>. QED  BY <1>1, <1>2, <1>3

(* The order of a query.                                                    *)
Sorted(S, desc) == IF desc THEN Reverse(Ascending(S)) ELSE Ascending(S)

LEMMA SortedFacts ==
    ASSUME NEW S \in SUBSET Nat, IsFiniteSet(S), NEW desc \in BOOLEAN
    PROVE  LET o == Sorted(S, desc)
               c == Cardinality(S) IN
           /\ c \in Nat /\ o \in [1..c -> S] /\ o \in Seq(S) /\ Len(o) = c
           /\ \A i, j \in 1..c : o[i] = o[j] => i = j
           /\ \A v \in S : \E i \in 1..c : o[i] = v
           /\ \A i \in 1..c : o[i] = IF desc THEN Ascending(S)[c - i + 1] ELSE Ascending(S)[i]
<1> DEFINE c == Cardinality(S)
           a == Ascending(S)
           o == Sorted(S, desc)
<1>1. /\ a \in [1..c -> S] /\ a \in Seq(S) /\ c \in Nat
      /\ \A i, j \in 1..c : i < j => a[i] < a[j]
      /\ \A v \in S : \E i \in 1..c : a[i] = v
  BY AscendingSorts
<1> HIDE DEF c, a
<1>2. Len(a) = c /\ DOMAIN a = 1..c
  BY <1>1
<1>3. \A i, j \in 1..c : a[i] = a[j] => i = j
  <2>1. \A i \in 1..c : a[i] \in Nat
    BY <1>1
  <2>. QED  BY <1>1, <2>1
<1>4. CASE desc
  <2>1. o = [i \in 1..c |-> a[c - i + 1]]
    BY <1>2, <1>4 DEF Reverse, Sorted, a
  <2>2. \A i \in 1..c : c - i + 1 \in 1..c /\ c - (c - i + 1) + 1 = i
    BY <1>1
  <2> HIDE DEF o
  <2>3. o \in [1..c -> S]
    BY <1>1, <2>1, <2>2
  <2>4. \A i, j \in 1..c : o[i] = o[j] => i = j
    <3> SUFFICES ASSUME NEW i \in 1..c, NEW j \in 1..c, o[i] = o[j] PROVE i = j
      OBVIOUS
    <3>1. a[c - i + 1] = a[c - j + 1]
      BY <2>1
    <3>2. c - i + 1 = c - j + 1
      BY <1>3, <2>2, <3>1
    <3>. QED  BY <1>1, <3>2
  <2>5. ASSUME NEW v \in S PROVE \E i \in 1..c : o[i] = v
    <3>1. PICK i \in 1..c : a[i] = v
      BY <1>1
    <3>2. o[c - i + 1] = a[c - (c - i + 1) + 1]
      BY <2>1, <2>2
    <3>. QED  BY <2>2, <3>1, <3>2
  <2>6. o \in Seq(S) /\ Len(o) = c
    BY <1>1, <2>3
  <2>. QED  BY <1>1, <1>4, <2>1, <2>3, <2>4, <2>5, <2>6 DEF o, c, a
<1>5. CASE ~desc
  <2>1. o = a
    BY <1>5 DEF Sorted, a
  <2>. QED  BY <1>1, <1>2, <1>3, <1>5, <2>1 DEF o, c, a
<1>. QED  BY <1>4, <1>5

(* Without its first m elements the order is the rest of it.                *)
LEMMA SortedTail ==
    ASSUME NEW S \in SUBSET Nat, IsFiniteSet(S), NEW desc \in BOOLEAN, NEW m \in 0..Cardinality(S)
    PROVE  LET o == Sorted(S, desc)
               c == Cardinality(S)
               T == S \ {o[k] : k \in 1..m} IN
           Cardinality(T) = c - m /\ Sorted(T, desc) = [k \in 1..(c - m) |-> o[m + k]]
<1> DEFINE c == Cardinality(S)
           a == Ascending(S)
           o == Sorted(S, desc)
           T == S \ {o[k] : k \in 1..m}
           lo == IF desc THEN 0 ELSE m
           U == {a[lo + k] : k \in 1..(c - m)}
<1>1. /\ c \in Nat /\ o \in [1..c -> S] /\ \A i, j \in 1..c : o[i] = o[j] => i = j
      /\ \A v \in S : \E i \in 1..c : o[i] = v
      /\ \A i \in 1..c : o[i] = IF desc THEN a[c - i + 1] ELSE a[i]
      /\ m \in 0..c
  BY SortedFacts
<1>2. /\ lo \in Nat /\ c - m \in Nat /\ lo + (c - m) <= c
  BY <1>1
<1>3. IsFiniteSet(U) /\ Cardinality(U) = c - m /\ Ascending(U) = [k \in 1..(c - m) |-> a[lo + k]]
  BY <1>2, AscendingPart
<1> HIDE DEF c, a, o
<1>4. \A k \in 1..(c - m) : m + k \in 1..c /\ (c - m) - k + 1 \in 1..(c - m)
  BY <1>1
<1>5. \A k \in 1..(c - m) : o[m + k] = IF desc THEN a[(c - m) - k + 1] ELSE a[m + k]
  <2> SUFFICES ASSUME NEW k \in 1..(c - m)
               PROVE  o[m + k] = IF desc THEN a[(c - m) - k + 1] ELSE a[m + k]
    OBVIOUS
  <2>1. c - (m + k) + 1 = (c - m) - k + 1
    BY <1>1
  <2>. QED  BY <1>1, <1>4, <2>1
<1>6. U = {o[m + k] : k \in 1..(c - m)}
  <2>1. CASE ~desc
    BY <1>5, <2>1
  <2>2. CASE desc
    <3>1. \A k \in 1..(c - m) : o[m + k] = a[(c - m) - k + 1] /\ o[m + ((c - m) - k + 1)] = a[k]
      <4> SUFFICES ASSUME NEW k \in 1..(c - m)
                   PROVE  o[m + k] = a[(c - m) - k + 1] /\ o[m + ((c - m) - k + 1)] = a[k]
        OBVIOUS
      <4>1. (c - m) - ((c - m) - k + 1) + 1 = k
        BY <1>1
      <4>. QED  BY <1>4, <1>5, <2>2, <4>1
    <3>2. U = {a[k] : k \in 1..(c - m)}
      BY <2>2
    <3> HIDE DEF U
    <3>. QED  BY <1>4, <3>1, <3>2
  <2>. QED  BY <2>1, <2>2
<1>7. U = T
  <2> HIDE DEF U
  <2>1. \A v \in T : v \in U
    <3> SUFFICES ASSUME NEW v \in T PROVE v \in U
      OBVIOUS
    <3>1. PICK i \in 1..c : o[i] = v
      BY <1>1
    <3>2. i \notin 1..m
      BY <3>1
    <3>3. i - m \in 1..(c - m) /\ i = m + (i - m)
      BY <1>1, <3>2
    <3>. QED  BY <1>6, <3>1, <3>3
  <2>2. \A v \in U : v \in T
    <3> SUFFICES ASSUME NEW v \in U PROVE v \in T
      OBVIOUS
    <3>1. PICK k \in 1..(c - m) : v = o[m + k]
      BY <1>6
    <3>2. m + k \in 1..c /\ \A j \in 1..m : j \in 1..c /\ j # m + k
      BY <1>1
    <3>. QED  BY <1>1, <3>1, <3>2
  <2>. QED  BY <2>1, <2>2
<1>8. Sorted(U, desc) = [k \in 1..(c - m) |-> o[m + k]]
  <2> DEFINE b == [k \in 1..(c - m) |-> a[lo + k]]
  <2>1. Ascending(U) = b
    BY <1>3
  <2>2. CASE ~desc
    BY <1>5, <2>1, <2>2 DEF Sorted
  <2>3. CASE desc
    <3>1. Len(b) = c - m /\ \A k \in 1..(c - m) : b[(c - m) - k + 1] = a[(c - m) - k + 1]
      BY <1>2, <1>4, <2>3
    <3> HIDE DEF b, U
    <3>2. Sorted(U, desc) = [k \in 1..(c - m) |-> b[(c - m) - k + 1]]
      BY <2>1, <2>3, <3>1 DEF Sorted, Reverse
    <3>. QED  BY <1>5, <2>3, <3>1, <3>2
  <2>. QED  BY <2>2, <2>3
<1> HIDE DEF U, T
<1>. QED  BY <1>3, <1>7, <1>8 DEF T, c, o

(* How many rows LIMIT n OFFSET m leaves of c.                              *)
Picked(c, n, m) ==
    LET last == IF n = 0 \/ m + n > c THEN c ELSE m + n IN IF last > m THEN last - m ELSE 0

LEMMA SelectIs ==
    ASSUME NEW now, NEW q, q.desc \in BOOLEAN, NEW n \in Nat, NEW m \in Nat
    PROVE  LET S == Found(now, q) IN
           /\ S \in SUBSET Nat /\ S \subseteq Ids /\ IsFiniteSet(S)
           /\ Select(now, q, n, m) =
                [k \in 1..Picked(Cardinality(S), n, m) |-> Sorted(S, q.desc)[m + k]]
<1> DEFINE S == Found(now, q)
<1>1. S \in SUBSET Nat /\ S \subseteq Ids /\ IsFiniteSet(S)
  BY FS_Subset DEF Found
<1> HIDE DEF S
<1>2. Len(Sorted(S, q.desc)) = Cardinality(S)
  BY <1>1, SortedFacts
<1>3. Select(now, q, n, m) =
        [k \in 1..Picked(Len(Sorted(S, q.desc)), n, m) |-> Sorted(S, q.desc)[m + k]]
  BY DEF Select, Sorted, Picked, S
<1>. QED  BY <1>1, <1>2, <1>3 DEF S

(* Where a query looks, each row is found at most once, and some row if one
   matches.                                                                 *)
LEMMA SelectFacts ==
    ASSUME NEW now, NEW q, q.desc \in BOOLEAN, NEW n \in Nat, NEW m \in Nat
    PROVE  LET f == Select(now, q, n, m) IN
           /\ f \in Seq(Found(now, q))
           /\ \A j, k \in DOMAIN f : f[j] = f[k] => j = k
           /\ n # 0 => Len(f) <= n
           /\ m = 0 /\ f = <<>> => Found(now, q) = {}
<1> DEFINE S == Found(now, q)
           c == Cardinality(S)
           o == Sorted(S, q.desc)
           z == Picked(c, n, m)
           f == Select(now, q, n, m)
<1>1. S \in SUBSET Nat /\ IsFiniteSet(S) /\ f = [k \in 1..z |-> o[m + k]]
  BY SelectIs
<1> HIDE DEF S, f
<1>2. /\ c \in Nat /\ o \in [1..c -> S]
      /\ \A i, j \in 1..c : o[i] = o[j] => i = j
      /\ \A v \in S : \E i \in 1..c : o[i] = v
  BY <1>1, SortedFacts
<1> HIDE DEF c, o
<1>3. /\ z \in Nat
      /\ \A k \in 1..z : m + k \in 1..c
      /\ n # 0 => z <= n
      /\ m = 0 /\ z = 0 => c = 0
  BY <1>2 DEF Picked
<1> HIDE DEF z
<1>5. f \in Seq(S) /\ Len(f) = z /\ DOMAIN f = 1..z
  <2>1. f \in [1..z -> S]
    BY <1>1, <1>2, <1>3
  <2>. QED  BY <1>3, <2>1
<1>6. \A j, k \in 1..z : f[j] = f[k] => j = k
  <2> SUFFICES ASSUME NEW j \in 1..z, NEW k \in 1..z, f[j] = f[k] PROVE j = k
    OBVIOUS
  <2>1. o[m + j] = o[m + k] /\ m + j \in 1..c /\ m + k \in 1..c
    BY <1>1, <1>3
  <2>2. m + j = m + k
    BY <1>2, <2>1
  <2>. QED  BY <1>3, <2>2
<1>7. m = 0 /\ f = <<>> => S = {}
  <2>1. f = <<>> => z = 0
    BY <1>5
  <2>2. c = 0 => S = {}
    BY <1>2
  <2>. QED  BY <1>3, <2>1, <2>2
<1>. QED  BY <1>3, <1>5, <1>6, <1>7 DEF f, S

(* What a query of s reads: distinct documents, as they are and as they match. *)
LEMMA ReadFacts ==
    ASSUME Types, NEW s \in Sessions, NEW n \in Nat, NEW m \in Nat
    PROVE  LET r == Read(s, n, m) IN
           /\ r \in Seq(Ids \X Row)
           /\ \A k \in DOMAIN r : /\ r[k][2] = View(s)[r[k][1]]
                                  /\ r[k][2] # Gone /\ r[k][2].key \in Q(s).match
           /\ \A j, k \in DOMAIN r : r[j][1] = r[k][1] => j = k
           /\ n # 0 => Len(r) <= n
           /\ m = 0 /\ r = <<>> => \A i \in Ids : ~Matches(View(s)[i], Q(s))
<1> DEFINE f == Select(View(s), Q(s), n, m)
           F == Found(View(s), Q(s))
           r == Read(s, n, m)
<1>1. Q(s).desc \in BOOLEAN
  BY SetupType DEF Call
<1>2. /\ f \in Seq(F) /\ \A j, k \in DOMAIN f : f[j] = f[k] => j = k
      /\ n # 0 => Len(f) <= n
      /\ m = 0 /\ f = <<>> => F = {}
  BY <1>1, SelectFacts
<1>3. r = [k \in 1..Len(f) |-> <<f[k], View(s)[f[k]]>>]
  BY DEF Read
<1>4. \A i \in F : i \in Ids /\ Matches(View(s)[i], Q(s))
  BY DEF Found
<1>5. \A i \in Ids : Matches(View(s)[i], Q(s)) => i \in F
  BY DEF Found
<1>6. \A i \in F : View(s)[i] \in Row /\ View(s)[i] # Gone /\ View(s)[i].key \in Q(s).match
  BY <1>4, ViewType, RowFacts DEF Matches
<1> HIDE DEF f, F, r
<1>7. Len(f) \in Nat /\ DOMAIN f = 1..Len(f) /\ \A k \in 1..Len(f) : f[k] \in F
  BY <1>2
<1>8. DOMAIN r = 1..Len(f) /\ \A k \in 1..Len(f) : r[k] = <<f[k], View(s)[f[k]]>>
  BY <1>3
<1>9. r \in Seq(Ids \X Row) /\ Len(r) = Len(f)
  <2>1. r \in [1..Len(f) -> Ids \X Row]
    BY <1>3, <1>4, <1>6, <1>7
  <2>. QED  BY <1>7, <2>1
<1>10. r = <<>> => f = <<>>
  BY <1>2, <1>9
<1>. QED  BY <1>2, <1>5, <1>6, <1>7, <1>8, <1>9, <1>10 DEF r

-----------------------------------------------------------------------------
(* What a document is written as.                                           *)
LEMMA WrittenFacts ==
    ASSUME Types, Shape, NEW s \in Sessions, NEW n \in DOMAIN docs[s]
    PROVE  LET o == docs[s][n][2]
               r == Written(s, o)
               q == Q(s) IN
           /\ docs[s][n][1] \in Ids /\ o \in Row /\ r \in Row
           /\ q.op = "delete" => r.st # "live"
           /\ q.op # "delete" /\ o = Gone =>
                q.op = "upsertOne" /\ r.key = IF q.set = NoKey THEN q.new ELSE q.set
           /\ q.op # "delete" /\ o # Gone =>
                /\ o.key \in q.match
                /\ IF q.set = NoKey THEN r = o ELSE r.st = o.st /\ r.key = q.set
<1> DEFINE o == docs[s][n][2]
           r == Written(s, o)
           q == Q(s)
<1>1. docs[s][n] \in Ids \X Row
  BY DEF Types
<1>2. docs[s][n][1] \in Ids /\ o \in Row
  BY <1>1
<1>3. q \in Call /\ q.set \in Keys \cup {NoKey} /\ q.new \in Keys \cup {NoKey}
  BY SetupType
<1>4. /\ o = Gone => q.op = "upsertOne"
      /\ o # Gone => o.key \in q.match
  BY DEF Shape
<1>5. o # Gone => o \in [st: {"live", "deleted"}, key: Keys]
  BY <1>2 DEF Row, Gone
<1>6. q.op = "upsertOne" => q.set # NoKey \/ q.new # NoKey
  BY DefaultsAssumption DEF Types, Q
<1>7. CASE q.op = "delete"
  <2>1. r = Deleted(o, q) /\ o # Gone
    BY <1>4, <1>7 DEF Written
  <2>2. r = Gone \/ r = [o EXCEPT !.st = "deleted"]
    BY <2>1 DEF Deleted
  <2>3. r \in Row /\ r.st # "live"
    <3> HIDE DEF o, r, q
    <3>1. CASE r = Gone
      BY <3>1 DEF Row, Gone
    <3>2. CASE r = [o EXCEPT !.st = "deleted"]
      BY <1>5, <2>1, <3>2 DEF Row
    <3>. QED  BY <2>2, <3>1, <3>2
  <2>. QED  BY <1>2, <1>7, <2>3
<1>8. CASE q.op # "delete" /\ o = Gone
  <2>1. r = Applied([st |-> "live", key |-> q.new], q)
    BY <1>8 DEF Written, Created
  <2>2. r = [st |-> "live", key |-> IF q.set = NoKey THEN q.new ELSE q.set]
    BY <2>1 DEF Applied
  <2>3. r \in Row
    <3> HIDE DEF o, r, q
    <3>1. (IF q.set = NoKey THEN q.new ELSE q.set) \in Keys
      BY <1>3, <1>4, <1>6, <1>8
    <3>. QED  BY <2>2, <3>1 DEF Row
  <2> HIDE DEF o, r, q
  <2>4. r.key = IF q.set = NoKey THEN q.new ELSE q.set
    BY <2>2
  <2>5. q.op = "upsertOne"
    BY <1>4, <1>8
  <2>. QED  BY <1>2, <1>8, <2>3, <2>4, <2>5 DEF o, r, q
<1>9. CASE q.op # "delete" /\ o # Gone
  <2>1. r = Applied(o, q)
    BY <1>9 DEF Written
  <2>2. IF q.set = NoKey THEN r = o ELSE r.st = o.st /\ r.key = q.set /\ r \in Row
    BY <1>3, <1>5, <1>9, <2>1 DEF Applied, Row
  <2>. QED  BY <1>2, <1>4, <1>9, <2>2
<1>. QED  BY <1>7, <1>8, <1>9

LEMMA EmptyBuf == <<>> \in Bufs /\ DOMAIN <<>> = {}
<1>1. <<>> \in [{} -> Row] /\ {} \in SUBSET Ids
  OBVIOUS
<1>. QED  BY <1>1 DEF Bufs

(* The steps, by what they do to the invariants: a query whose answer is
   taken, the end of a call that has failed, and those that are of a kind of
   their own.                                                               *)
Searches(s) ==
    /\ pc[s] = "find"
    /\ \E d \in Seq(Ids \X Row) :
        /\ \A k \in DOMAIN d : /\ d[k][2] = View(s)[d[k][1]]
                               /\ d[k][2] # Gone /\ d[k][2].key \in Q(s).match
        /\ \A j, k \in DOMAIN d : d[j][1] = d[k][1] => j = k
        /\ Q(s).op = "delete" => Len(d) <= ChunkSize
        /\ docs' = [docs EXCEPT ![s] = d]
        /\ GoTo(s, IF d = <<>> THEN "commit" ELSE "put")
    /\ limit' \in [Sessions -> Nat] /\ got' \in [Sessions -> Nat]
    /\ UNCHANGED <<setup, rows, lock, fresh, tries, tmpl, buf, count, skip, answer>>

Aborts(s) == pc[s] # "idle" /\ Rollback(s)

LEMMA Kinds ==
    ASSUME Types, NEW s \in Sessions, Enter(s) \/ Step(s) \/ Fail(s)
    PROVE  \/ Enter(s) \/ Begin(s) \/ Searches(s) \/ FindNone(s)
           \/ Put(s) \/ Aborts(s) \/ Commit(s)
<1>1. Q(s).limit \in Nat /\ Q(s).skip \in Nat /\ skip[s] \in Nat /\ count[s] \in Nat
      /\ ChunkSize \in Nat \ {0}
  <2>1. ChunkSize \in Nat \ {0} /\ MaxCount \in Nat
    BY BoundsAssumption
  <2>2. count[s] \in 0..MaxCount /\ skip[s] \in Nat
    BY DEF Types
  <2>3. Q(s).limit \in Nat /\ Q(s).skip \in Nat
    BY SetupType
  <2>. QED  BY <2>1, <2>2, <2>3
<1>2. CASE DrainUpdate(s)
  <2> DEFINE d == Read(s, Q(s).limit, Q(s).skip)
  <2>1. /\ d \in Seq(Ids \X Row)
        /\ \A k \in DOMAIN d : /\ d[k][2] = View(s)[d[k][1]]
                               /\ d[k][2] # Gone /\ d[k][2].key \in Q(s).match
        /\ \A j, k \in DOMAIN d : d[j][1] = d[k][1] => j = k
    BY <1>1, ReadFacts
  <2>2. /\ pc[s] = "find" /\ Q(s).op = "update" /\ docs' = [docs EXCEPT ![s] = d]
        /\ GoTo(s, IF d = <<>> THEN "commit" ELSE "put")
        /\ UNCHANGED <<setup, rows, lock, fresh, tries, tmpl, buf, count, limit, got, skip, answer>>
    BY <1>2 DEF DrainUpdate, chunk
  <2> HIDE DEF d
  <2>3. limit' \in [Sessions -> Nat] /\ got' \in [Sessions -> Nat]
    BY <2>2 DEF Types
  <2>. QED  BY <2>1, <2>2, <2>3 DEF Searches
<1>3. CASE ReadChunk(s)
  <2> DEFINE z == ChunkLimit(s)
             d == IF LimitReached(s) THEN <<>> ELSE Read(s, z, skip[s])
  <2>1. z \in Nat /\ z <= ChunkSize
    BY <1>1 DEF ChunkLimit, Remaining
  <2>2. ~LimitReached(s) => z # 0
    BY <1>1 DEF ChunkLimit, Remaining, LimitReached
  <2> HIDE DEF z
  <2>3. /\ d \in Seq(Ids \X Row)
        /\ \A k \in DOMAIN d : /\ d[k][2] = View(s)[d[k][1]]
                               /\ d[k][2] # Gone /\ d[k][2].key \in Q(s).match
        /\ \A j, k \in DOMAIN d : d[j][1] = d[k][1] => j = k
        /\ Len(d) <= ChunkSize
    <3>1. CASE LimitReached(s)
      BY <1>1, <3>1
    <3>2. CASE ~LimitReached(s)
      <4>1. d = Read(s, z, skip[s])
        BY <3>2
      <4> HIDE DEF d
      <4>2. Len(d) \in Nat /\ Len(d) <= z
        BY <1>1, <2>1, <2>2, <3>2, <4>1, ReadFacts
      <4>3. Len(d) <= ChunkSize
        BY <1>1, <2>1, <4>2
      <4>. QED  BY <1>1, <2>1, <4>1, <4>3, ReadFacts
    <3>. QED  BY <3>1, <3>2
  <2>4. /\ pc[s] = "find" /\ docs' = [docs EXCEPT ![s] = d]
        /\ GoTo(s, IF d = <<>> THEN "commit" ELSE "put")
        /\ limit' = [limit EXCEPT ![s] = z] /\ got' = [got EXCEPT ![s] = Len(d)]
        /\ UNCHANGED <<setup, rows, lock, fresh, tries, tmpl, buf, count, skip, answer>>
    BY <1>3 DEF ReadChunk, z
  <2> HIDE DEF d
  <2>5. limit' \in [Sessions -> Nat] /\ got' \in [Sessions -> Nat]
    <3>1. Len(d) \in Nat
      BY <2>3
    <3>. QED  BY <2>1, <2>4, <3>1 DEF Types
  <2>. QED  BY <2>3, <2>4, <2>5 DEF Searches
<1>4. CASE FindOne(s)
  <2> DEFINE d == Strict(s)
  <2>1. /\ d \in Seq(Ids \X Row)
        /\ \A k \in DOMAIN d : /\ d[k][2] = View(s)[d[k][1]]
                               /\ d[k][2] # Gone /\ d[k][2].key \in Q(s).match
        /\ \A j, k \in DOMAIN d : d[j][1] = d[k][1] => j = k
    BY ReadFacts DEF Strict
  <2>2. /\ pc[s] = "find" /\ Q(s).op # "delete" /\ docs' = [docs EXCEPT ![s] = d]
        /\ Len(d) = 1 /\ GoTo(s, "put")
        /\ UNCHANGED <<setup, rows, lock, fresh, tries, tmpl, buf, count, limit, got, skip, answer>>
    BY <1>4 DEF FindOne, chunk
  <2> HIDE DEF d
  <2>3. limit' \in [Sessions -> Nat] /\ got' \in [Sessions -> Nat]
    BY <2>2 DEF Types
  <2>4. d # <<>>
    BY <2>2
  <2>. QED  BY <2>1, <2>2, <2>3, <2>4 DEF Searches
<1>5. CASE FindRefuses(s) \/ PutRefused(s) \/ Fail(s)
  BY <1>5 DEF FindRefuses, PutRefused, Fail, Aborts
<1>6. CASE DeadlockVictim(s)
  <2>1. pc[s] = "put"
    BY <1>6 DEF DeadlockVictim, WaitsFor
  <2>. QED  BY <1>6, <2>1 DEF DeadlockVictim, Aborts
<1>. QED  BY <1>2, <1>3, <1>4, <1>5, <1>6 DEF Step

-----------------------------------------------------------------------------
(* How the steps change what a session sees.                                *)

LEMMA ViewsKept ==
    ASSUME rows' = rows, buf' = buf
    PROVE  \A t \in Sessions : View(t)' = View(t)
BY DEF View

LEMMA OutsideView ==
    ASSUME NEW t \in Sessions, buf[t] = <<>>, Types
    PROVE  View(t) = rows
BY EmptyBuf DEF View, Types

(* The end of a call: s has nothing left, the others what they had.         *)
LEMMA ReturnFacts ==
    ASSUME Types, NEW s \in Sessions, NEW a, Return(s, a)
    PROVE  /\ pc' = [pc EXCEPT ![s] = "idle"]
           /\ buf'[s] = <<>> /\ docs'[s] = <<>>
           /\ \A t \in Sessions \ {s} : buf'[t] = buf[t] /\ docs'[t] = docs[t] /\ pc'[t] = pc[t]
           /\ buf' \in [Sessions -> Bufs] /\ docs' \in [Sessions -> Seq(Ids \X Row)]
           /\ lock' \in [Ids -> Sessions \cup {Nobody}]
           /\ count' \in [Sessions -> 0..MaxCount]
           /\ skip' \in [Sessions -> Nat] /\ limit' \in [Sessions -> Nat]
           /\ got' \in [Sessions -> Nat]
           /\ \A i \in Ids : lock[i] # s => lock'[i] = lock[i]
<1>1. MaxCount \in Nat
  BY BoundsAssumption
<1>2. /\ buf' = [buf EXCEPT ![s] = <<>>] /\ docs' = [docs EXCEPT ![s] = <<>>]
      /\ pc' = [pc EXCEPT ![s] = "idle"]
      /\ count' = [count EXCEPT ![s] = 0] /\ skip' = [skip EXCEPT ![s] = 0]
      /\ limit' = [limit EXCEPT ![s] = 0] /\ got' = [got EXCEPT ![s] = 0]
      /\ lock' = [i \in Ids |-> IF lock[i] = s THEN Nobody ELSE lock[i]]
  BY DEF Return, GoTo
<1>3. buf' \in [Sessions -> Bufs] /\ docs' \in [Sessions -> Seq(Ids \X Row)]
  <2>1. <<>> \in Seq(Ids \X Row)
    OBVIOUS
  <2>2. docs' \in [Sessions -> Seq(Ids \X Row)]
    BY <1>2, <2>1 DEF Types
  <2>3. <<>> \in Bufs
    BY EmptyBuf
  <2>4. buf' \in [Sessions -> Bufs]
    BY <1>2, <2>3 DEF Types
  <2>. QED  BY <2>2, <2>4
<1>4. count' \in [Sessions -> 0..MaxCount] /\ skip' \in [Sessions -> Nat]
      /\ limit' \in [Sessions -> Nat] /\ got' \in [Sessions -> Nat]
  BY <1>1, <1>2 DEF Types
<1>5. /\ lock' \in [Ids -> Sessions \cup {Nobody}]
      /\ \A i \in Ids : lock[i] # s => lock'[i] = lock[i]
  BY <1>2 DEF Types
<1>6. /\ buf'[s] = <<>> /\ docs'[s] = <<>>
      /\ \A t \in Sessions \ {s} : buf'[t] = buf[t] /\ docs'[t] = docs[t] /\ pc'[t] = pc[t]
  BY <1>2 DEF Types
<1>. QED  BY <1>2, <1>3, <1>4, <1>5, <1>6

(* A write: the row that s is to write, and no other, becomes r; nobody else
   has that row.                                                            *)
LEMMA PutFacts ==
    ASSUME Types, Shape, NEW s \in Sessions, Put(s)
    PROVE  LET i == docs[s][1][1]
               r == Written(s, docs[s][1][2]) IN
           /\ pc[s] = "put" /\ docs[s] # <<>> /\ 1 \in DOMAIN docs[s]
           /\ i \in Ids /\ r \in Row
           /\ Blockers(s, i, r) = {} /\ ~Duplicate(s, i, r)
           /\ buf' = [buf EXCEPT ![s] = [j \in DOMAIN buf[s] \cup {i} |->
                                            IF j = i THEN r ELSE buf[s][j]]]
           /\ buf' \in [Sessions -> Bufs]
           /\ DOMAIN buf'[s] = DOMAIN buf[s] \cup {i}
           /\ buf'[s][i] = r /\ \A j \in DOMAIN buf[s] : j # i => buf'[s][j] = buf[s][j]
           /\ \A t \in Sessions \ {s} : buf'[t] = buf[t]
           /\ View(s)' = [View(s) EXCEPT ![i] = r]
           /\ \A t \in Sessions \ {s} : View(t)' = View(t)
           /\ lock' = [lock EXCEPT ![i] = s]
           /\ docs' = [docs EXCEPT ![s] = Tail(docs[s])]
           /\ pc' = [pc EXCEPT ![s] = IF Len(docs[s]) > 1 THEN "put" ELSE AfterBatch(s)]
           /\ rows' = rows /\ setup' = setup
<1> DEFINE i == docs[s][1][1]
           r == Written(s, docs[s][1][2])
           b == [j \in DOMAIN buf[s] \cup {i} |-> IF j = i THEN r ELSE buf[s][j]]
<1>1. pc[s] = "put" /\ docs[s] # <<>> /\ 1 \in DOMAIN docs[s] /\ Head(docs[s]) = docs[s][1]
  <2>1. pc[s] = "put"
    BY DEF Put
  <2>2. docs[s] # <<>> /\ docs[s] \in Seq(Ids \X Row)
    BY <2>1 DEF Shape, Types
  <2>. QED  BY <2>1, <2>2
<1>2. i \in Ids /\ r \in Row
  BY <1>1, WrittenFacts
<1>3. /\ Blockers(s, i, r) = {} /\ ~Duplicate(s, i, r)
      /\ buf' = [buf EXCEPT ![s] = b]
      /\ lock' = [lock EXCEPT ![i] = s]
      /\ docs' = [docs EXCEPT ![s] = Tail(docs[s])]
      /\ rows' = rows /\ setup' = setup
  BY <1>1 DEF Put
<1>4. pc' = [pc EXCEPT ![s] = IF Len(docs[s]) > 1 THEN "put" ELSE AfterBatch(s)]
  BY <1>1 DEF Put, GoTo, Types
<1> HIDE DEF i, r
<1>5. buf[s] \in Bufs /\ DOMAIN buf[s] \subseteq Ids /\ \A j \in DOMAIN buf[s] : buf[s][j] \in Row
  BY BufType DEF Types
<1>6. b \in Bufs
  <2>1. b \in [DOMAIN buf[s] \cup {i} -> Row] /\ DOMAIN buf[s] \cup {i} \in SUBSET Ids
    BY <1>2, <1>5
  <2>. QED  BY <2>1 DEF Bufs
<1>7. /\ DOMAIN b = DOMAIN buf[s] \cup {i}
      /\ b[i] = r /\ \A j \in DOMAIN buf[s] : j # i => b[j] = buf[s][j]
  OBVIOUS
<1> HIDE DEF b
<1>8. buf' \in [Sessions -> Bufs] /\ buf'[s] = b /\ \A t \in Sessions \ {s} : buf'[t] = buf[t]
  BY <1>3, <1>6 DEF Types
<1>9. View(s)' = [View(s) EXCEPT ![i] = r]
  BY <1>2, <1>3, <1>7, <1>8 DEF View
<1>10. \A t \in Sessions \ {s} : View(t)' = View(t)
  BY <1>3, <1>8 DEF View
<1>. QED  BY <1>1, <1>2, <1>3, <1>4, <1>7, <1>8, <1>9, <1>10 DEF b, i, r

-----------------------------------------------------------------------------
(* The types.                                                               *)

LEMMA InitTypes == Init => Types /\ Shape
<1> SUFFICES ASSUME Init PROVE Types /\ Shape
  OBVIOUS
<1>1. setup \in Setups /\ rows = setup.rows
  BY DEF Init
<1>2. setup.tries \in Nat /\ setup.rows \in [Ids -> Row] /\ MaxCount \in Nat
  BY <1>1, SetupsAssumption, BoundsAssumption
<1>3. <<>> \in Bufs /\ <<>> \in Seq(Ids \X Row) /\ DOMAIN <<>> = {} /\ Len(<<>>) = 0
  BY EmptyBuf
<1>4. /\ buf = [s \in Sessions |-> <<>>] /\ docs = [s \in Sessions |-> <<>>]
      /\ pc = [s \in Sessions |-> "idle"]
  BY DEF Init
<1>5. buf \in [Sessions -> Bufs]
  BY <1>3, <1>4
<1>6. docs \in [Sessions -> Seq(Ids \X Row)] /\ \A s \in Sessions : Len(docs[s]) = 0
  BY <1>4
<1>7. \A s \in Sessions : Len(docs[s]) <= ChunkSize
  <2>1. ChunkSize \in Nat
    BY BoundsAssumption
  <2>. QED  BY <1>6, <2>1
<1>8. /\ rows \in [Ids -> Row] /\ lock \in [Ids -> Sessions \cup {Nobody}] /\ fresh \subseteq Ids
      /\ tmpl \in [Sessions -> Ids \cup {NoId}]
      /\ pc \in [Sessions -> {"idle", "begin", "find", "put", "commit"}]
  BY <1>1, <1>2 DEF Init
<1>9. /\ tries \in [Sessions -> 0..setup.tries] /\ count \in [Sessions -> 0..MaxCount]
      /\ skip \in [Sessions -> Nat] /\ limit \in [Sessions -> Nat] /\ got \in [Sessions -> Nat]
  BY <1>2 DEF Init
<1>10. Shape
  BY <1>3, <1>4 DEF Shape, Inside
<1>. QED  BY <1>1, <1>5, <1>6, <1>7, <1>8, <1>9, <1>10 DEF Types

LEMMA StepTypes ==
    ASSUME Types, Shape, NEW s \in Sessions, Enter(s) \/ Step(s) \/ Fail(s)
    PROVE  Types'
<1>1. setup.tries \in Nat /\ MaxCount \in Nat /\ Q(s).skip \in Nat
  BY SetupType, BoundsAssumption
<1>2. Q(s)' = Q(s) /\ \A t \in Sessions : setup' = setup => Q(t)' = Q(t)
  BY Kinds DEF Q, Enter, Begin, Searches, FindNone, Put, Aborts, Rollback, Commit
<1>3. CASE Enter(s)
  <2>1. tries' \in [Sessions -> 0..setup.tries]
    BY <1>1, <1>3 DEF Enter, Types
  <2>. QED  BY <1>3, <2>1 DEF Enter, GoTo, Types, local, chunk, Q
<1>4. CASE Begin(s)
  BY <1>1, <1>4 DEF Begin, GoTo, Types, Q
<1>5. CASE Searches(s)
  <2>1. PICK d \in Seq(Ids \X Row) :
            /\ Q(s).op = "delete" => Len(d) <= ChunkSize
            /\ docs' = [docs EXCEPT ![s] = d]
            /\ GoTo(s, IF d = <<>> THEN "commit" ELSE "put")
    BY <1>5 DEF Searches
  <2>2. docs' \in [Sessions -> Seq(Ids \X Row)]
    BY <2>1 DEF Types
  <2>3. pc' \in [Sessions -> {"idle", "begin", "find", "put", "commit"}]
    BY <2>1 DEF Types, GoTo
  <2>4. setup' = setup /\ \A t \in Sessions : Q(t).op = "delete" => Len(docs'[t]) <= ChunkSize
    BY <1>5, <2>1 DEF Types, Searches
  <2>. QED  BY <1>5, <2>2, <2>3, <2>4 DEF Searches, Types, Q
<1>6. CASE FindNone(s)
  <2> DEFINE i == IF tmpl[s] = NoId THEN Min(fresh) ELSE tmpl[s]
  <2>1. i \in Ids
    <3>1. CASE tmpl[s] = NoId
      <4>1. fresh # {} /\ fresh \subseteq Nat
        BY <1>6, <3>1 DEF FindNone, Types
      <4>2. Min(fresh) \in fresh
        BY <4>1, LeastElement DEF Min
      <4>. QED  BY <3>1, <4>2 DEF Types
    <3>2. CASE tmpl[s] # NoId
      BY <3>2 DEF Types
    <3>. QED  BY <3>1, <3>2
  <2>2. /\ tmpl' = [tmpl EXCEPT ![s] = i] /\ fresh' = fresh \ {i}
        /\ docs' = [docs EXCEPT ![s] = <<<<i, Gone>>>>]
        /\ pc' = [pc EXCEPT ![s] = "put"]
        /\ Q(s).op = "upsertOne"
        /\ UNCHANGED <<setup, rows, lock, tries, buf, count, skip, limit, got>>
    BY <1>6 DEF FindNone, GoTo, chunk
  <2> HIDE DEF i
  <2>3. <<<<i, Gone>>>> \in Seq(Ids \X Row)
    <3>1. <<i, Gone>> \in Ids \X Row
      BY <2>1, RowFacts
    <3>. QED  BY <3>1
  <2>4. docs' \in [Sessions -> Seq(Ids \X Row)]
    BY <2>2, <2>3 DEF Types
  <2>5. \A t \in Sessions : Q(t).op = "delete" => Len(docs'[t]) <= ChunkSize
    BY <2>2 DEF Types
  <2>. QED  BY <2>1, <2>2, <2>4, <2>5 DEF Types, Q
<1>7. CASE Put(s)
  <2>1. /\ docs' = [docs EXCEPT ![s] = Tail(docs[s])] /\ docs[s] # <<>>
        /\ docs[s][1][1] \in Ids /\ lock' = [lock EXCEPT ![docs[s][1][1]] = s]
        /\ buf' \in [Sessions -> Bufs]
        /\ pc' = [pc EXCEPT ![s] = IF Len(docs[s]) > 1 THEN "put" ELSE AfterBatch(s)]
    BY <1>7, PutFacts
  <2>2. docs' \in [Sessions -> Seq(Ids \X Row)]
    BY <2>1 DEF Types
  <2>3. Len(Tail(docs[s])) <= Len(docs[s]) /\ Len(Tail(docs[s])) \in Nat /\ Len(docs[s]) \in Nat
    BY <2>1 DEF Types
  <2>4. \A t \in Sessions : Q(t).op = "delete" => Len(docs'[t]) <= ChunkSize
    <3> SUFFICES ASSUME NEW t \in Sessions, Q(t).op = "delete" PROVE Len(docs'[t]) <= ChunkSize
      OBVIOUS
    <3>1. ChunkSize \in Nat
      BY BoundsAssumption
    <3>2. Len(docs[t]) <= ChunkSize
      BY DEF Types
    <3>3. docs'[t] = IF t = s THEN Tail(docs[s]) ELSE docs[t]
      BY <2>1 DEF Types
    <3>. QED  BY <2>3, <3>1, <3>2, <3>3
  <2>5. lock' \in [Ids -> Sessions \cup {Nobody}]
    BY <2>1 DEF Types
  <2>6. pc' \in [Sessions -> {"idle", "begin", "find", "put", "commit"}]
    BY <2>1 DEF Types, AfterBatch
  <2>7. count' \in [Sessions -> 0..MaxCount]
    BY <1>1, <1>7 DEF Put, Types
  <2>8. skip' \in [Sessions -> Nat]
    <3>1. skip' = skip \/ skip' = [skip EXCEPT ![s] = 0]
      BY <1>7 DEF Put
    <3>. QED  BY <3>1 DEF Types
  <2>9. UNCHANGED <<setup, rows, fresh, tries, tmpl, limit, got>>
    BY <1>7 DEF Put
  <2>. QED  BY <2>1, <2>2, <2>4, <2>5, <2>6, <2>7, <2>8, <2>9 DEF Types, Q
<1>8. CASE Aborts(s) \/ Commit(s)
  <2>1. /\ \E a : Return(s, a)
        /\ rows' \in {rows, View(s)} /\ UNCHANGED <<setup, fresh, tries, tmpl>>
    BY <1>8 DEF Aborts, Rollback, Commit
  <2>2. rows' \in [Ids -> Row]
    BY <2>1, ViewType DEF Types
  <2>3. /\ pc' = [pc EXCEPT ![s] = "idle"] /\ docs'[s] = <<>>
        /\ \A t \in Sessions \ {s} : docs'[t] = docs[t]
        /\ buf' \in [Sessions -> Bufs] /\ docs' \in [Sessions -> Seq(Ids \X Row)]
        /\ lock' \in [Ids -> Sessions \cup {Nobody}]
        /\ count' \in [Sessions -> 0..MaxCount]
        /\ skip' \in [Sessions -> Nat] /\ limit' \in [Sessions -> Nat]
        /\ got' \in [Sessions -> Nat]
    BY <2>1, ReturnFacts
  <2>4. \A t \in Sessions : Q(t).op = "delete" => Len(docs'[t]) <= ChunkSize
    <3> SUFFICES ASSUME NEW t \in Sessions, Q(t).op = "delete" PROVE Len(docs'[t]) <= ChunkSize
      OBVIOUS
    <3>1. ChunkSize \in Nat
      BY BoundsAssumption
    <3>2. Len(docs[t]) <= ChunkSize
      BY DEF Types
    <3>3. docs'[t] = <<>> \/ docs'[t] = docs[t]
      BY <2>3
    <3>. QED  BY <3>1, <3>2, <3>3
  <2>. QED  BY <2>1, <2>2, <2>3, <2>4 DEF Types, Q
<1>. QED  BY <1>3, <1>4, <1>5, <1>6, <1>7, <1>8, Kinds

LEMMA StepShape ==
    ASSUME Types, Shape, NEW s \in Sessions, Enter(s) \/ Step(s) \/ Fail(s)
    PROVE  Shape'
<1> DEFINE At(t) ==
        /\ ~Inside(t) => buf[t] = <<>> /\ docs[t] = <<>>
        /\ pc[t] # "idle" => Q(t).op # "none"
        /\ pc[t] = "put" => docs[t] # <<>>
        /\ \A m, n \in DOMAIN docs[t] : docs[t][m][1] = docs[t][n][1] => m = n
        /\ \A n \in DOMAIN docs[t] :
            IF docs[t][n][2] = Gone
              THEN Q(t).op = "upsertOne" /\ Len(docs[t]) = 1
              ELSE docs[t][n][2].key \in Q(t).match
<1>1. At(s)
  BY DEF Shape
<1>2. SUFFICES ASSUME setup' = setup,
                      \A t \in Sessions \ {s} : buf'[t] = buf[t] /\ docs'[t] = docs[t] /\ pc'[t] = pc[t]
               PROVE  At(s)'
  <2>1. setup' = setup
    BY Kinds DEF Enter, Begin, Searches, FindNone, Put, Aborts, Rollback, Commit
  <2>2. \A t \in Sessions \ {s} : buf'[t] = buf[t] /\ docs'[t] = docs[t] /\ pc'[t] = pc[t]
    <3>1. CASE Aborts(s) \/ Commit(s)
      BY <3>1, ReturnFacts DEF Aborts, Rollback, Commit
    <3>2. CASE Put(s)
      <4>1. /\ \A t \in Sessions \ {s} : buf'[t] = buf[t]
            /\ \E x : docs' = [docs EXCEPT ![s] = x]
            /\ \E x : pc' = [pc EXCEPT ![s] = x]
        BY <3>2, PutFacts
      <4>. QED  BY <4>1 DEF Types
    <3>3. CASE Enter(s) \/ Begin(s) \/ Searches(s) \/ FindNone(s)
      BY <3>3 DEF Enter, Begin, Searches, FindNone, GoTo, Types, local
    <3>. QED  BY <3>1, <3>2, <3>3, Kinds
  <2>3. \A t \in Sessions \ {s} : At(t)'
    BY <2>1, <2>2 DEF Shape, Inside, Q
  <2>. QED  BY <2>1, <2>2, <2>3 DEF Shape
<1>3. Q(s)' = Q(s)
  BY <1>2 DEF Q
<1>4. CASE Enter(s)
  BY <1>1, <1>3, <1>4 DEF Enter, GoTo, Types, Inside, local
<1>5. CASE Begin(s)
  BY <1>1, <1>3, <1>5 DEF Begin, GoTo, Types, Inside
<1>6. CASE Searches(s)
  <2>1. PICK d \in Seq(Ids \X Row) :
            /\ \A k \in DOMAIN d : d[k][2] # Gone /\ d[k][2].key \in Q(s).match
            /\ \A j, k \in DOMAIN d : d[j][1] = d[k][1] => j = k
            /\ docs' = [docs EXCEPT ![s] = d]
            /\ pc' = [pc EXCEPT ![s] = IF d = <<>> THEN "commit" ELSE "put"]
    BY <1>6 DEF Searches, GoTo
  <2>2. docs'[s] = d /\ pc'[s] = IF d = <<>> THEN "commit" ELSE "put"
    BY <2>1 DEF Types
  <2>3. Q(s).op # "none"
    BY <1>1, <1>6 DEF Searches
  <2>. QED  BY <1>3, <2>1, <2>2, <2>3 DEF Inside
<1>7. CASE FindNone(s)
  <2>1. PICK i : docs' = [docs EXCEPT ![s] = <<<<i, Gone>>>>]
    BY <1>7 DEF FindNone
  <2>2. docs'[s] = <<<<i, Gone>>>> /\ pc'[s] = "put" /\ Q(s).op = "upsertOne"
    BY <1>7, <2>1 DEF FindNone, GoTo, Types
  <2>3. /\ DOMAIN docs'[s] = {1} /\ Len(docs'[s]) = 1 /\ docs'[s] # <<>>
        /\ docs'[s][1][2] = Gone
    BY <2>2
  <2>. QED  BY <1>3, <2>2, <2>3 DEF Inside
<1>8. CASE Put(s)
  <2>1. /\ docs' = [docs EXCEPT ![s] = Tail(docs[s])] /\ docs[s] # <<>> /\ pc[s] = "put"
        /\ pc' = [pc EXCEPT ![s] = IF Len(docs[s]) > 1 THEN "put" ELSE AfterBatch(s)]
    BY <1>8, PutFacts
  <2> DEFINE d == docs[s]
             e == docs'[s]
  <2>2. /\ e = Tail(d) /\ d \in Seq(Ids \X Row)
        /\ pc'[s] = IF Len(d) > 1 THEN "put" ELSE AfterBatch(s)
    BY <2>1 DEF Types
  <2>3. pc'[s] \in {"put", "find", "commit"} /\ (pc'[s] = "put" => Len(d) > 1)
    BY <2>2 DEF AfterBatch
  <2>4. /\ \A m, n \in DOMAIN d : d[m][1] = d[n][1] => m = n
        /\ \A n \in DOMAIN d :
            IF d[n][2] = Gone
              THEN Q(s).op = "upsertOne" /\ Len(d) = 1
              ELSE d[n][2].key \in Q(s).match
        /\ Q(s).op # "none" /\ d # <<>>
    BY <1>1, <2>1
  <2> HIDE DEF d, e
  <2>5. /\ Len(d) \in Nat /\ Len(d) >= 1 /\ DOMAIN d = 1..Len(d)
        /\ DOMAIN e = 1..(Len(d) - 1) /\ \A n \in 1..(Len(d) - 1) : e[n] = d[n + 1]
        /\ Len(d) > 1 => e # <<>>
    <3>1. Len(d) \in Nat /\ Len(d) >= 1 /\ DOMAIN d = 1..Len(d)
      BY <2>2, <2>4
    <3>2. /\ e \in Seq(Ids \X Row) /\ Len(e) = Len(d) - 1
          /\ \A n \in 1..(Len(d) - 1) : e[n] = d[n + 1]
      BY <2>2, <2>4, <3>1
    <3>. QED  BY <3>1, <3>2
  <2>6. \A m, n \in DOMAIN e : e[m][1] = e[n][1] => m = n
    <3> SUFFICES ASSUME NEW m \in DOMAIN e, NEW n \in DOMAIN e, e[m][1] = e[n][1] PROVE m = n
      OBVIOUS
    <3>1. m + 1 \in DOMAIN d /\ n + 1 \in DOMAIN d /\ e[m] = d[m + 1] /\ e[n] = d[n + 1]
      BY <2>5
    <3>2. m + 1 = n + 1
      BY <2>4, <3>1
    <3>. QED  BY <2>5, <3>2
  <2>7. \A n \in DOMAIN e : e[n][2] # Gone /\ e[n][2].key \in Q(s).match
    <3> SUFFICES ASSUME NEW n \in DOMAIN e PROVE e[n][2] # Gone /\ e[n][2].key \in Q(s).match
      OBVIOUS
    <3>1. n + 1 \in DOMAIN d /\ e[n] = d[n + 1] /\ Len(d) # 1
      BY <2>5
    <3>. QED  BY <2>4, <3>1
  <2>8. pc'[s] = "put" => e # <<>>
    BY <2>3, <2>5
  <2>. QED  BY <1>3, <2>3, <2>4, <2>6, <2>7, <2>8 DEF Inside, e
<1>9. CASE Aborts(s) \/ Commit(s)
  <2>1. pc' = [pc EXCEPT ![s] = "idle"] /\ buf'[s] = <<>> /\ docs'[s] = <<>>
    BY <1>9, ReturnFacts DEF Aborts, Rollback, Commit
  <2>2. pc'[s] = "idle" /\ DOMAIN docs'[s] = {}
    BY <2>1 DEF Types
  <2>. QED  BY <2>1, <2>2
<1>. QED  BY <1>4, <1>5, <1>6, <1>7, <1>8, <1>9, Kinds

-----------------------------------------------------------------------------
(* One transaction at a time.                                               *)

LEMMA StepSolitary ==
    ASSUME Types, Solitary, NEW s \in Sessions, Enter(s) \/ Step(s) \/ Fail(s)
    PROVE  Solitary'
<1>1. setup' = setup /\ \A t \in Sessions \ {s} : pc'[t] = pc[t]
  <2>1. setup' = setup
    BY Kinds DEF Enter, Begin, Searches, FindNone, Put, Aborts, Rollback, Commit
  <2>2. \E x : pc' = [pc EXCEPT ![s] = x] \/ pc' = pc
    BY Kinds DEF Enter, Begin, Searches, FindNone, Put, Aborts, Rollback, Commit, Return, GoTo
  <2>. QED  BY <2>1, <2>2 DEF Types
<1>2. CASE Begin(s)
  BY <1>1, <1>2 DEF Begin, CanBegin, Solitary, Inside, SQLite
<1>3. CASE Enter(s) \/ Aborts(s) \/ Commit(s)
  <2>1. pc'[s] \in {"idle", "begin"}
    BY <1>3 DEF Enter, Aborts, Rollback, Commit, Return, GoTo, Types
  <2>. QED  BY <1>1, <2>1 DEF Solitary, Inside, SQLite
<1>4. CASE Searches(s) \/ FindNone(s) \/ Put(s)
  <2>1. Inside(s)
    BY <1>4 DEF Searches, FindNone, Put, Inside
  <2>. QED  BY <1>1, <2>1 DEF Solitary, Inside, SQLite
<1>. QED  BY <1>2, <1>3, <1>4, Kinds

(* Outside a transaction, and on SQLite everywhere but in one, the committed
   rows are all there is.                                                   *)
LEMMA Alone ==
    ASSUME Types, Shape, Solitary, SQLite, NEW s \in Sessions, Inside(s),
           NEW t \in Sessions, t # s
    PROVE  buf[t] = <<>> /\ docs[t] = <<>>
BY DEF Solitary, Shape

(* A write of s makes no second live document of key k.                     *)
LEMMA PutKeepsSingle ==
    ASSUME Types, Shape, NEW s \in Sessions, Put(s), NEW k \in Keys, Keyed(k),
           Single(View(s), k), Current(s, k)
    PROVE  Single(View(s), k)' /\ Current(s, k)'
<1> DEFINE i == docs[s][1][1]
           o == docs[s][1][2]
           r == Written(s, o)
           q == Q(s)
           v == View(s)
<1>1. /\ pc[s] = "put" /\ 1 \in DOMAIN docs[s] /\ docs[s] # <<>>
      /\ i \in Ids /\ r \in Row
      /\ View(s)' = [v EXCEPT ![i] = r]
      /\ docs' = [docs EXCEPT ![s] = Tail(docs[s])] /\ setup' = setup
  BY PutFacts
<1>2. v \in [Ids -> Row]
  BY ViewType
<1>3. /\ o \in Row
      /\ q.op = "delete" => r.st # "live"
      /\ q.op # "delete" /\ o = Gone =>
           q.op = "upsertOne" /\ r.key = IF q.set = NoKey THEN q.new ELSE q.set
      /\ q.op # "delete" /\ o # Gone =>
           /\ o.key \in q.match
           /\ IF q.set = NoKey THEN r = o ELSE r.st = o.st /\ r.key = q.set
  BY <1>1, WrittenFacts
<1>4. q.op # "none"
  BY <1>1 DEF Shape
<1>5. q.op # "delete" =>
        /\ q.match = {k} => q.set \in {NoKey, k} /\ q.new \in {NoKey, k}
        /\ q.match # {k} => q.set # k /\ q.new # k /\ k \notin q.match
  BY <1>4 DEF Keyed
<1>6. q.op # "delete" =>
        /\ o = LiveOf(k) => v[i] = LiveOf(k)
        /\ o = Gone /\ q.match = {k} => \A j \in Ids : v[j] # LiveOf(k)
  BY <1>1 DEF Current
<1>7. \A x \in Row : x = LiveOf(k) <=> x.st = "live" /\ x.key = k
  <2>1. \A x \in Row : x.st = "live" => x \in [st: {"live", "deleted"}, key: Keys]
    BY DEF Row, Gone
  <2>2. LiveOf(k) \in [st: {"live", "deleted"}, key: Keys]
        /\ LiveOf(k).st = "live" /\ LiveOf(k).key = k
    BY DEF LiveOf
  <2>. QED  BY <2>1, <2>2
<1> HIDE DEF i, o, r, q, v
<1>8. r = LiveOf(k) => v[i] = LiveOf(k) \/ \A j \in Ids : v[j] # LiveOf(k)
  <2> SUFFICES ASSUME r = LiveOf(k) PROVE v[i] = LiveOf(k) \/ \A j \in Ids : v[j] # LiveOf(k)
    OBVIOUS
  <2>1. r.st = "live" /\ r.key = k /\ q.op # "delete"
    BY <1>1, <1>3, <1>7
  <2>2. CASE o = Gone
    BY <1>3, <1>5, <1>6, <2>1, <2>2
  <2>3. CASE o # Gone
    <3>1. CASE q.set = NoKey
      BY <1>3, <1>6, <2>1, <2>3, <3>1
    <3>2. CASE q.set # NoKey
      <4>1. q.set = k /\ o.st = "live" /\ o.key \in q.match
        BY <1>3, <2>1, <2>3, <3>2
      <4>2. o.key = k
        BY <1>5, <2>1, <4>1
      <4>. QED  BY <1>3, <1>6, <1>7, <2>1, <4>1, <4>2
    <3>. QED  BY <3>1, <3>2
  <2>. QED  BY <2>2, <2>3
<1>9. Single(View(s), k)'
  BY <1>1, <1>2, <1>8 DEF Single, LiveOf, v
<1>10. Current(s, k)'
  <2> DEFINE d == docs[s]
             e == docs'[s]
  <2>1. d \in Seq(Ids \X Row) /\ d # <<>> /\ e = Tail(d)
    BY <1>1 DEF Types
  <2>2. Q(s)' = q
    BY <1>1 DEF Q, q
  <2>3. /\ \A m, n \in DOMAIN d : d[m][1] = d[n][1] => m = n
        /\ \A n \in DOMAIN d : d[n][2] = Gone => Len(d) = 1
    BY DEF Shape
  <2>4. q.op # "delete" => \A n \in DOMAIN d : d[n][2] = LiveOf(k) => v[d[n][1]] = LiveOf(k)
    BY DEF Current, q, v
  <2>5. d[1][1] = i /\ \A n \in DOMAIN d : d[n][1] \in Ids
    BY <2>1 DEF i
  <2> HIDE DEF d
  <2>6. Len(d) \in Nat /\ Len(d) >= 1 /\ DOMAIN d = 1..Len(d)
    BY <2>1
  <2>7. DOMAIN e = 1..(Len(d) - 1) /\ \A n \in 1..(Len(d) - 1) : e[n] = d[n + 1]
    <3>1. Len(e) = Len(d) - 1 /\ e \in Seq(Ids \X Row)
      BY <2>1, <2>6
    <3>. QED  BY <2>1, <2>6, <3>1
  <2> HIDE DEF e
  <2>8. ASSUME NEW n \in DOMAIN e, q.op # "delete"
        PROVE  /\ e[n][2] # Gone
               /\ e[n][2] = LiveOf(k) => View(s)'[e[n][1]] = LiveOf(k)
    <3>1. n + 1 \in DOMAIN d /\ e[n] = d[n + 1] /\ n + 1 # 1 /\ Len(d) # 1 /\ 1 \in DOMAIN d
      BY <2>6, <2>7
    <3>2. e[n][1] # i /\ e[n][1] \in Ids /\ e[n][2] # Gone
      BY <2>3, <2>5, <3>1
    <3>3. View(s)'[e[n][1]] = v[e[n][1]]
      BY <1>1, <1>2, <3>2
    <3>. QED  BY <2>4, <2>8, <3>1, <3>2, <3>3
  <2>. QED  BY <2>2, <2>8 DEF Current, e
<1>. QED  BY <1>9, <1>10

LEMMA StepOnePerKey ==
    ASSUME Types, Shape, Solitary, OnePerKey, NEW s \in Sessions,
           Enter(s) \/ Step(s) \/ Fail(s)
    PROVE  OnePerKey'
<1>1. setup' = setup
  BY Kinds DEF Enter, Begin, Searches, FindNone, Put, Aborts, Rollback, Commit
<1> SUFFICES ASSUME NEW k \in Keys, Fine(k)
             PROVE  /\ Single(rows, k)'
                    /\ \A t \in Sessions : Single(View(t), k)' /\ Current(t, k)'
  BY <1>1 DEF OnePerKey, Fine, SQLite, Keyed, Q, Single
<1>2. SQLite /\ Keyed(k) /\ Single(rows, k)
      /\ \A t \in Sessions : Single(View(t), k) /\ Current(t, k)
  BY DEF OnePerKey, Fine
<1>3. \A t \in Sessions : Q(t)' = Q(t)
  BY <1>1 DEF Q
<1>4. CASE Enter(s) \/ Begin(s)
  <2>1. rows' = rows /\ buf' = buf /\ docs' = docs
    BY <1>4 DEF Enter, Begin, local
  <2>2. \A t \in Sessions : View(t)' = View(t)
    BY <2>1, ViewsKept
  <2>3. \A t \in Sessions : Current(t, k)'
    BY <1>2, <1>3, <2>1, <2>2 DEF Current, LiveOf
  <2>. QED  BY <1>2, <2>1, <2>2, <2>3 DEF Single, LiveOf
<1>5. CASE Searches(s) \/ FindNone(s)
  <2>1. rows' = rows /\ buf' = buf /\ Inside(s) /\ \E d : docs' = [docs EXCEPT ![s] = d]
    BY <1>5 DEF Searches, FindNone, Inside
  <2>2. \A t \in Sessions : View(t)' = View(t)
    BY <2>1, ViewsKept
  <2>3. \A t \in Sessions \ {s} : docs'[t] = docs[t]
    BY <2>1 DEF Types
  <2>4. \A t \in Sessions \ {s} : Current(t, k)'
    BY <1>2, <1>3, <2>2, <2>3 DEF Current, LiveOf
  <2>5. Current(s, k)'
    <3>1. CASE Searches(s)
      <4>1. PICK d : /\ docs' = [docs EXCEPT ![s] = d]
                     /\ \A n \in DOMAIN d : d[n][2] = View(s)[d[n][1]] /\ d[n][2] # Gone
        <5>1. \E d \in Seq(Ids \X Row) :
                /\ docs' = [docs EXCEPT ![s] = d]
                /\ \A n \in DOMAIN d : d[n][2] = View(s)[d[n][1]] /\ d[n][2] # Gone
          BY <3>1 DEF Searches
        <5>. QED  BY <5>1
      <4>2. docs'[s] = d
        BY <4>1 DEF Types
      <4>. QED  BY <2>2, <4>1, <4>2 DEF Current, LiveOf
    <3>2. CASE FindNone(s)
      <4>1. PICK i : docs' = [docs EXCEPT ![s] = <<<<i, Gone>>>>]
        BY <3>2 DEF FindNone
      <4>2. docs'[s] = <<<<i, Gone>>>>
        BY <4>1 DEF Types
      <4>3. DOMAIN docs'[s] = {1} /\ docs'[s][1][2] = Gone
        BY <4>2
      <4>4. Gone # LiveOf(k)
        BY DEF Gone, LiveOf
      <4>5. Read(s, 2, 0) = <<>>
        BY <3>2 DEF FindNone, Strict
      <4>6. \A j \in Ids : ~Matches(View(s)[j], Q(s))
        BY <4>5, ReadFacts
      <4>7. k \in Q(s).match => \A j \in Ids : View(s)[j] # LiveOf(k)
        BY <4>6 DEF Matches, LiveOf
      <4>. QED  BY <1>3, <2>2, <4>3, <4>4, <4>7 DEF Current, LiveOf
    <3>. QED  BY <1>5, <3>1, <3>2
  <2>. QED  BY <1>2, <2>1, <2>2, <2>4, <2>5 DEF Single, LiveOf
<1>6. CASE Put(s)
  <2>1. /\ rows' = rows /\ \A t \in Sessions \ {s} : View(t)' = View(t)
        /\ docs' = [docs EXCEPT ![s] = Tail(docs[s])]
    BY <1>6, PutFacts
  <2>2. \A t \in Sessions \ {s} : docs'[t] = docs[t]
    BY <2>1 DEF Types
  <2>3. \A t \in Sessions \ {s} : Current(t, k)'
    BY <1>2, <1>3, <2>1, <2>2 DEF Current, LiveOf
  <2>4. Single(View(s), k)' /\ Current(s, k)'
    BY <1>2, <1>6, PutKeepsSingle
  <2>5. Single(rows, k)'
    BY <1>2, <2>1 DEF Single, LiveOf
  <2>6. \A t \in Sessions \ {s} : Single(View(t), k)'
    BY <1>2, <2>1 DEF Single, LiveOf
  <2>. QED  BY <2>3, <2>4, <2>5, <2>6
<1>7. CASE Aborts(s) \/ Commit(s)
  <2>1. PICK a : Return(s, a)
    BY <1>7 DEF Aborts, Rollback, Commit
  <2>2. /\ buf'[s] = <<>> /\ docs'[s] = <<>>
        /\ \A t \in Sessions \ {s} : buf'[t] = buf[t] /\ docs'[t] = docs[t]
    BY <2>1, ReturnFacts
  <2>3. rows' \in [Ids -> Row] /\ Single(rows, k)'
    <3>1. rows' \in {rows, View(s)}
      BY <1>7 DEF Aborts, Rollback, Commit
    <3>. QED  BY <1>2, <3>1, ViewType DEF Single, LiveOf, Types
  <2>4. CASE Aborts(s)
    <3>1. rows' = rows
      BY <2>4 DEF Aborts, Rollback
    <3>2. \A t \in Sessions \ {s} : View(t)' = View(t)
      BY <2>2, <3>1 DEF View
    <3>3. View(s)' = rows'
      BY <2>2, <2>3, EmptyBuf DEF View
    <3>4. DOMAIN docs'[s] = {}
      BY <2>2
    <3>5. \A t \in Sessions \ {s} : Current(t, k)'
      BY <1>2, <1>3, <2>2, <3>2 DEF Current, LiveOf
    <3>6. Current(s, k)'
      BY <3>4 DEF Current
    <3>. QED  BY <1>2, <2>3, <3>2, <3>3, <3>5, <3>6 DEF Single, LiveOf
  <2>5. CASE Commit(s)
    <3>1. Inside(s)
      BY <2>5 DEF Commit, Inside
    <3>2. \A t \in Sessions : buf'[t] = <<>> /\ docs'[t] = <<>>
      BY <1>2, <2>2, <3>1, Alone
    <3>3. \A t \in Sessions : View(t)' = rows'
      BY <2>3, <3>2, EmptyBuf DEF View
    <3>4. \A t \in Sessions : DOMAIN docs'[t] = {}
      BY <3>2
    <3>5. \A t \in Sessions : Current(t, k)'
      BY <3>4 DEF Current
    <3>. QED  BY <2>3, <3>3, <3>5 DEF Single, LiveOf
  <2>. QED  BY <1>7, <2>4, <2>5
<1>. QED  BY <1>4, <1>5, <1>6, <1>7, Kinds

-----------------------------------------------------------------------------
(* What a unique index keeps apart.                                         *)

LEMMA StepLocked ==
    ASSUME Types, Shape, Locked, NEW s \in Sessions, Enter(s) \/ Step(s) \/ Fail(s)
    PROVE  Locked'
<1>1. CASE Enter(s) \/ Begin(s) \/ Searches(s) \/ FindNone(s)
  <2>1. buf' = buf /\ lock' = lock
    BY <1>1 DEF Enter, Begin, Searches, FindNone
  <2>. QED  BY <2>1 DEF Locked
<1>2. CASE Put(s)
  <2> DEFINE i == docs[s][1][1]
             r == Written(s, docs[s][1][2])
  <2>1. /\ i \in Ids /\ Blockers(s, i, r) = {} /\ lock' = [lock EXCEPT ![i] = s]
        /\ DOMAIN buf'[s] = DOMAIN buf[s] \cup {i}
        /\ \A t \in Sessions \ {s} : buf'[t] = buf[t]
    BY <1>2, PutFacts
  <2> HIDE DEF i, r
  <2>2. \A t \in Sessions \ {s} : lock[i] # t
    BY <2>1 DEF Blockers
  <2>3. \A t \in Sessions : DOMAIN buf[t] \subseteq Ids
    BY BufType DEF Types
  <2>4. \A j \in DOMAIN buf'[s] : lock'[j] = s
    BY <2>1, <2>3 DEF Locked, Types
  <2>5. \A t \in Sessions \ {s} : \A j \in DOMAIN buf'[t] : lock'[j] = t
    BY <2>1, <2>2, <2>3 DEF Locked, Types
  <2>. QED  BY <2>4, <2>5 DEF Locked
<1>3. CASE Aborts(s) \/ Commit(s)
  <2>1. PICK a : Return(s, a)
    BY <1>3 DEF Aborts, Rollback, Commit
  <2>2. /\ buf'[s] = <<>> /\ \A t \in Sessions \ {s} : buf'[t] = buf[t]
        /\ \A i \in Ids : lock[i] # s => lock'[i] = lock[i]
    BY <2>1, ReturnFacts
  <2>3. \A t \in Sessions : DOMAIN buf[t] \subseteq Ids
    BY BufType DEF Types
  <2>. QED  BY <2>2, <2>3, EmptyBuf DEF Locked
<1>. QED  BY <1>1, <1>2, <1>3, Kinds

(* The write that the index lets through.                                   *)
LEMMA PutKeepsDistinct ==
    ASSUME Types, Shape, Locked, setup.unique, Distinct, NEW s \in Sessions, Put(s)
    PROVE  Distinct'
<1> DEFINE i == docs[s][1][1]
           r == Written(s, docs[s][1][2])
           v == View(s)
<1>1. /\ i \in Ids /\ r \in Row /\ Blockers(s, i, r) = {} /\ ~Duplicate(s, i, r)
      /\ DOMAIN buf'[s] = DOMAIN buf[s] \cup {i} /\ buf'[s][i] = r
      /\ \A j \in DOMAIN buf[s] : j # i => buf'[s][j] = buf[s][j]
      /\ \A t \in Sessions \ {s} : buf'[t] = buf[t]
      /\ View(s)' = [v EXCEPT ![i] = r]
      /\ \A t \in Sessions \ {s} : View(t)' = View(t)
      /\ rows' = rows
  BY PutFacts
<1>2. v \in [Ids -> Row] /\ \A t \in Sessions : DOMAIN buf[t] \subseteq Ids
  BY ViewType, BufType DEF Types
<1>3. r.key # NoKey => r # Gone
  BY DEF Gone
<1>4. r.key # NoKey => \A j \in Ids \ {i} : v[j].key # r.key
  BY <1>1, <1>3 DEF Duplicate
<1>5. ASSUME r.key # NoKey, NEW t \in Sessions \ {s}, NEW j \in DOMAIN buf[t]
      PROVE  buf[t][j].key # r.key
  <2>1. lock[j] = t /\ j \in Ids
    BY <1>2 DEF Locked
  <2>2. j # i
    BY <1>1, <2>1 DEF Blockers
  <2>3. SUFFICES ASSUME buf[t][j].key = r.key PROVE FALSE
    OBVIOUS
  <2>4. j \in Rivals(s, i, r.key)
    BY <2>1, <2>2, <2>3 DEF Rivals
  <2>5. t \in Blockers(s, i, r)
    BY <1>3, <1>5, <2>4 DEF Blockers
  <2>. QED  BY <1>1, <2>5
<1> HIDE DEF i, r, v
<1>6. /\ NoneTwice(rows) /\ NoneTwice(v) /\ \A t \in Sessions : NoneTwice(View(t))
      /\ \A x, y \in Sessions : x # y =>
            \A m \in DOMAIN buf[x], n \in DOMAIN buf[y] :
                buf[x][m].key = buf[y][n].key => buf[x][m].key = NoKey
  BY DEF Distinct, v
<1>7. NoneTwice(rows)' /\ \A t \in Sessions \ {s} : NoneTwice(View(t))'
  BY <1>1, <1>6 DEF NoneTwice
<1>8. NoneTwice(View(s))'
  BY <1>1, <1>2, <1>4, <1>6 DEF NoneTwice
<1>9. ASSUME NEW x \in Sessions, NEW y \in Sessions, x # y,
             NEW m \in DOMAIN buf'[x], NEW n \in DOMAIN buf'[y],
             buf'[x][m].key = buf'[y][n].key
      PROVE  buf'[x][m].key = NoKey
  <2>1. CASE x # s /\ y # s
    BY <1>1, <1>6, <1>9, <2>1
  <2>2. CASE x = s
    <3>1. n \in DOMAIN buf[y] /\ buf'[y] = buf[y] /\ y \in Sessions \ {s}
      BY <1>1, <1>9, <2>2
    <3>2. CASE m = i
      BY <1>1, <1>5, <1>9, <2>2, <3>1, <3>2
    <3>3. CASE m # i
      <4>1. m \in DOMAIN buf[s] /\ buf'[s][m] = buf[s][m]
        BY <1>1, <2>2, <3>3
      <4>. QED  BY <1>6, <1>9, <2>2, <3>1, <4>1
    <3>. QED  BY <3>2, <3>3
  <2>3. CASE y = s
    <3>1. m \in DOMAIN buf[x] /\ buf'[x] = buf[x] /\ x \in Sessions \ {s}
      BY <1>1, <1>9, <2>3
    <3>2. CASE n = i
      BY <1>1, <1>5, <1>9, <2>3, <3>1, <3>2
    <3>3. CASE n # i
      <4>1. n \in DOMAIN buf[s] /\ buf'[s][n] = buf[s][n]
        BY <1>1, <2>3, <3>3
      <4>. QED  BY <1>6, <1>9, <2>3, <3>1, <4>1
    <3>. QED  BY <3>2, <3>3
  <2>. QED  BY <2>1, <2>2, <2>3
<1>. QED  BY <1>7, <1>8, <1>9 DEF Distinct

(* A commit: what s has written was apart from what the others have.        *)
LEMMA CommitKeepsDistinct ==
    ASSUME Types, setup.unique, Distinct, NEW s \in Sessions, Commit(s)
    PROVE  Distinct'
<1>1. /\ rows' = View(s) /\ buf'[s] = <<>>
      /\ \A t \in Sessions \ {s} : buf'[t] = buf[t]
  BY ReturnFacts DEF Commit
<1>2. /\ NoneTwice(rows) /\ \A t \in Sessions : NoneTwice(View(t))
      /\ \A x, y \in Sessions : x # y =>
            \A m \in DOMAIN buf[x], n \in DOMAIN buf[y] :
                buf[x][m].key = buf[y][n].key => buf[x][m].key = NoKey
  BY DEF Distinct
<1>3. NoneTwice(rows)'
  BY <1>1, <1>2 DEF NoneTwice
<1>4. View(s)' = rows'
  <2>1. View(s) \in [Ids -> Row]
    BY ViewType
  <2>. QED  BY <1>1, <2>1, EmptyBuf DEF View
<1>5. ASSUME NEW t \in Sessions \ {s} PROVE NoneTwice(View(t))'
  <2> DEFINE w == View(t)'
             b == buf[t]
  <2>1. \A j \in Ids : w[j] = IF j \in DOMAIN b THEN b[j] ELSE View(s)[j]
    BY <1>1 DEF View
  <2>2. \A j \in Ids : View(t)[j] = IF j \in DOMAIN b THEN b[j] ELSE rows[j]
    BY DEF View
  <2>3. \A j \in Ids : View(s)[j] = IF j \in DOMAIN buf[s] THEN buf[s][j] ELSE rows[j]
    BY DEF View
  <2>4. /\ \A m, n \in Ids : View(t)[m].key = View(t)[n].key /\ View(t)[m].key # NoKey => m = n
        /\ \A m, n \in Ids : View(s)[m].key = View(s)[n].key /\ View(s)[m].key # NoKey => m = n
    BY <1>2 DEF NoneTwice
  <2>5. \A m \in DOMAIN buf[s], n \in DOMAIN b : buf[s][m].key = b[n].key => b[n].key = NoKey
    BY <1>2
  <2> HIDE DEF w, b
  <2>6. ASSUME NEW m \in Ids, NEW n \in Ids, m \in DOMAIN b, n \notin DOMAIN b,
               w[m].key = w[n].key, w[m].key # NoKey
        PROVE  FALSE
    <3>1. w[m] = b[m] /\ w[n] = View(s)[n] /\ View(t)[m] = b[m] /\ View(t)[n] = rows[n] /\ m # n
      BY <2>1, <2>2, <2>6
    <3>2. CASE n \in DOMAIN buf[s]
      BY <2>3, <2>5, <2>6, <3>1, <3>2
    <3>3. CASE n \notin DOMAIN buf[s]
      <4>1. View(t)[n] = w[n]
        BY <2>3, <3>1, <3>3
      <4>. QED  BY <2>4, <2>6, <3>1, <4>1
    <3>. QED  BY <3>2, <3>3
  <2>7. \A m, n \in Ids : w[m].key = w[n].key /\ w[m].key # NoKey => m = n
    <3> SUFFICES ASSUME NEW m \in Ids, NEW n \in Ids, w[m].key = w[n].key, w[m].key # NoKey
                 PROVE  m = n
      OBVIOUS
    <3>1. CASE m \in DOMAIN b /\ n \in DOMAIN b
      <4>1. w[m] = View(t)[m] /\ w[n] = View(t)[n]
        BY <2>1, <2>2, <3>1
      <4>. QED  BY <2>4, <4>1
    <3>2. CASE m \notin DOMAIN b /\ n \notin DOMAIN b
      BY <2>1, <2>4, <3>2
    <3>3. CASE (m \in DOMAIN b) # (n \in DOMAIN b)
      BY <2>6, <3>3
    <3>. QED  BY <3>1, <3>2, <3>3
  <2>. QED  BY <2>7 DEF NoneTwice, w
<1>6. \A x, y \in Sessions : x # y =>
        \A m \in DOMAIN buf'[x], n \in DOMAIN buf'[y] :
            buf'[x][m].key = buf'[y][n].key => buf'[x][m].key = NoKey
  BY <1>1, <1>2, EmptyBuf
<1>7. NoneTwice(View(s))'
  BY <1>3, <1>4 DEF NoneTwice
<1>. QED  BY <1>3, <1>5, <1>6, <1>7 DEF Distinct

LEMMA StepDistinct ==
    ASSUME Types, Shape, Locked, Distinct, NEW s \in Sessions,
           Enter(s) \/ Step(s) \/ Fail(s)
    PROVE  Distinct'
<1>1. setup' = setup
  BY Kinds DEF Enter, Begin, Searches, FindNone, Put, Aborts, Rollback, Commit
<1>2. CASE ~setup.unique
  BY <1>1, <1>2 DEF Distinct
<1>3. CASE setup.unique
  <2>1. /\ NoneTwice(rows) /\ \A t \in Sessions : NoneTwice(View(t))
        /\ \A x, y \in Sessions : x # y =>
            \A m \in DOMAIN buf[x], n \in DOMAIN buf[y] :
                buf[x][m].key = buf[y][n].key => buf[x][m].key = NoKey
    BY <1>3 DEF Distinct
  <2>2. CASE Enter(s) \/ Begin(s) \/ Searches(s) \/ FindNone(s)
    <3>1. rows' = rows /\ buf' = buf
      BY <2>2 DEF Enter, Begin, Searches, FindNone
    <3>2. \A t \in Sessions : View(t)' = View(t)
      BY <3>1, ViewsKept
    <3>3. ASSUME NEW t \in Sessions PROVE NoneTwice(View(t))'
      <4>1. NoneTwice(View(t)) /\ View(t)' = View(t)
        BY <2>1, <3>2
      <4>. QED  BY <4>1 DEF NoneTwice
    <3>4. NoneTwice(rows)'
      BY <2>1, <3>1 DEF NoneTwice
    <3>. QED  BY <2>1, <3>1, <3>3, <3>4 DEF Distinct
  <2>3. CASE Aborts(s)
    <3>1. PICK a : Return(s, a)
      BY <2>3 DEF Aborts, Rollback
    <3>2. /\ buf'[s] = <<>> /\ \A t \in Sessions \ {s} : buf'[t] = buf[t]
      BY <3>1, ReturnFacts
    <3>3. rows' = rows /\ rows \in [Ids -> Row]
      BY <2>3 DEF Aborts, Rollback, Types
    <3>4. View(s)' = rows'
      BY <3>2, <3>3, EmptyBuf DEF View
    <3>5. \A t \in Sessions \ {s} : View(t)' = View(t)
      BY <3>2, <3>3 DEF View
    <3>6. NoneTwice(rows)' /\ NoneTwice(View(s))'
      BY <2>1, <3>3, <3>4 DEF NoneTwice
    <3>7. \A t \in Sessions \ {s} : NoneTwice(View(t))'
      BY <2>1, <3>5 DEF NoneTwice
    <3>8. \A x, y \in Sessions : x # y =>
            \A m \in DOMAIN buf'[x], n \in DOMAIN buf'[y] :
                buf'[x][m].key = buf'[y][n].key => buf'[x][m].key = NoKey
      BY <2>1, <3>2, EmptyBuf
    <3>. QED  BY <3>6, <3>7, <3>8 DEF Distinct
  <2>4. CASE Put(s)
    BY <1>3, <2>4, PutKeepsDistinct
  <2>5. CASE Commit(s)
    BY <1>3, <2>5, CommitKeepsDistinct
  <2>. QED  BY <2>2, <2>3, <2>4, <2>5, Kinds
<1>. QED  BY <1>2, <1>3 DEF Types

-----------------------------------------------------------------------------
(* The theorems.                                                            *)

QueryInv == Types /\ Shape /\ Solitary /\ OnePerKey /\ Locked /\ Distinct

LEMMA InitInv == Init => QueryInv
<1> SUFFICES ASSUME Init PROVE QueryInv
  OBVIOUS
<1>1. Types /\ Shape
  BY InitTypes
<1>2. /\ setup \in Setups /\ rows = setup.rows /\ buf = [s \in Sessions |-> <<>>]
      /\ docs = [s \in Sessions |-> <<>>] /\ pc = [s \in Sessions |-> "idle"]
  BY DEF Init
<1>3. \A s \in Sessions : View(s) = rows /\ DOMAIN buf[s] = {} /\ DOMAIN docs[s] = {}
  BY <1>1, <1>2, OutsideView, EmptyBuf
<1>4. Solitary
  BY <1>2 DEF Solitary, Inside
<1>5. OnePerKey
  BY <1>2, <1>3 DEF OnePerKey, Fine, Single, Current
<1>6. Locked
  BY <1>3 DEF Locked
<1>7. setup.unique => NoneTwice(rows)
  <2>1. rows \in [Ids -> Row]
    BY <1>1 DEF Types
  <2>2. setup.unique => \A i, j \in Ids : rows[i].key = rows[j].key /\ rows[i] # Gone => i = j
    BY <1>2, UniqueAssumption
  <2>3. \A i \in Ids : rows[i].key # NoKey => rows[i] # Gone
    BY DEF Gone
  <2>. QED  BY <2>2, <2>3 DEF NoneTwice
<1>8. Distinct
  BY <1>3, <1>7 DEF Distinct, NoneTwice
<1>. QED  BY <1>1, <1>4, <1>5, <1>6, <1>8 DEF QueryInv

LEMMA StepInv == QueryInv /\ [Next]_vars => QueryInv'
<1> SUFFICES ASSUME QueryInv, [Next]_vars PROVE QueryInv'
  OBVIOUS
<1>1. CASE Next
  <2>1. PICK s \in Sessions : Enter(s) \/ Step(s) \/ Fail(s)
    BY <1>1 DEF Next
  <2>2. Types' /\ Shape'
    BY <2>1, StepTypes, StepShape DEF QueryInv
  <2>3. Solitary' /\ OnePerKey'
    BY <2>1, StepSolitary, StepOnePerKey DEF QueryInv
  <2>4. Locked' /\ Distinct'
    BY <2>1, StepLocked, StepDistinct DEF QueryInv
  <2>. QED  BY <2>2, <2>3, <2>4 DEF QueryInv
<1>2. CASE UNCHANGED vars
  <2>1. /\ UNCHANGED <<setup, rows, lock, fresh, pc, tries, tmpl>>
        /\ UNCHANGED <<buf, docs, count, skip, limit, got>>
    BY <1>2 DEF vars, local, chunk
  <2>2. \A t \in Sessions : View(t)' = View(t) /\ Q(t)' = Q(t) /\ Inside(t)' = Inside(t)
    BY <2>1 DEF View, Q, Inside
  <2>3. Types'
    BY <2>1, <2>2 DEF QueryInv, Types
  <2>4. Shape' /\ Solitary' /\ Locked'
    BY <2>1, <2>2 DEF QueryInv, Shape, Solitary, SQLite, Locked
  <2>5. OnePerKey'
    <3> SUFFICES ASSUME NEW k \in Keys, Fine(k)
                 PROVE  /\ Single(rows, k)'
                        /\ \A t \in Sessions : Single(View(t), k)' /\ Current(t, k)'
      BY <2>1 DEF OnePerKey, Fine, SQLite, Keyed, Q, Single
    <3>1. Single(rows, k) /\ \A t \in Sessions : Single(View(t), k) /\ Current(t, k)
      BY DEF QueryInv, OnePerKey
    <3>2. Single(rows, k)' /\ \A t \in Sessions : Single(View(t), k)'
      BY <2>1, <2>2, <3>1 DEF Single, LiveOf
    <3>3. \A t \in Sessions : Current(t, k)'
      BY <2>1, <2>2, <3>1 DEF Current, LiveOf
    <3>. QED  BY <3>2, <3>3
  <2>6. Distinct'
    BY <2>1, <2>2 DEF QueryInv, Distinct, NoneTwice
  <2>. QED  BY <2>3, <2>4, <2>5, <2>6 DEF QueryInv
<1>. QED  BY <1>1, <1>2

LEMMA AtMostOne ==
    ASSUME NEW S, IsFiniteSet(S)
    PROVE  Cardinality(S) <= 1 <=> \A x, y \in S : x = y
<1>1. CASE S = {}
  BY <1>1, FS_EmptySet
<1>2. CASE S # {}
  <2>1. PICK x \in S : TRUE
    BY <1>2
  <2>2. IsFiniteSet({x}) /\ Cardinality({x}) = 1
    BY FS_Singleton
  <2>3. Cardinality(S) \in Nat
    BY FS_CardinalityType
  <2>4. ASSUME \A y, z \in S : y = z PROVE Cardinality(S) <= 1
    <3>1. S = {x}
      BY <2>1, <2>4
    <3>. QED  BY <2>2, <3>1
  <2>5. ASSUME Cardinality(S) <= 1 PROVE \A y, z \in S : y = z
    <3>1. {x} \subseteq S
      BY <2>1
    <3>2. Cardinality({x}) <= Cardinality(S)
      BY <3>1, FS_Subset
    <3>3. Cardinality(S) = Cardinality({x})
      BY <2>2, <2>3, <2>5, <3>2
    <3>4. S = {x}
      BY <3>1, <3>3, FS_Subset
    <3>. QED  BY <3>4
  <2>. QED  BY <2>4, <2>5
<1>. QED  BY <1>1, <1>2

LEMMA InvGivesOne == QueryInv => OneDocumentPerKey
<1> SUFFICES ASSUME QueryInv, SQLite \/ setup.unique, NEW k \in Keys, Keyed(k),
                    Cardinality({i \in Ids : setup.rows[i] = [st |-> "live", key |-> k]}) <= 1
             PROVE  Cardinality({i \in Ids : rows[i] = [st |-> "live", key |-> k]}) <= 1
  BY DEF OneDocumentPerKey
<1> DEFINE A == {i \in Ids : setup.rows[i] = LiveOf(k)}
           B == {i \in Ids : rows[i] = LiveOf(k)}
<1>1. IsFiniteSet(A) /\ IsFiniteSet(B)
  BY FS_Subset
<1>2. Cardinality(A) <= 1
  BY DEF LiveOf
<1>3. Single(setup.rows, k)
  BY <1>1, <1>2, AtMostOne DEF Single
<1>4. Single(rows, k)
  <2>1. CASE SQLite
    BY <1>3, <2>1 DEF QueryInv, OnePerKey, Fine
  <2>2. CASE setup.unique
    <3>1. NoneTwice(rows)
      BY <2>2 DEF QueryInv, Distinct
    <3>2. k # NoKey /\ LiveOf(k).key = k
      BY KeysAssumption DEF LiveOf
    <3>. QED  BY <3>1, <3>2 DEF NoneTwice, Single
  <2>. QED  BY <2>1, <2>2
<1>5. \A x, y \in B : x = y
  BY <1>4 DEF Single
<1>6. Cardinality(B) <= 1
  <2> HIDE DEF B
  <2>. QED  BY <1>1, <1>5, AtMostOne
<1>. QED  BY <1>6 DEF LiveOf

(* The types of the write terminals, and that a Delete never has more than
   deleteChunkSize documents in memory, whatever Limit, Skip and match set. *)
THEOREM ChunksAreBounded == Spec => []TypeOK
<1>1. QueryInv => TypeOK
  BY TypesImply DEF QueryInv
<1>. QED  BY <1>1, InitInv, StepInv, PTL DEF Spec

(* UpsertOne and GetOrCreate by key leave one live document of that key, for
   any number of callers, any interleaving of their statements and any number
   of retries: on SQLite because BEGIN IMMEDIATE leaves a transaction alone,
   under a unique index because a writer waits for the rival of its key.    *)
THEOREM UpsertsAreUnique == Spec => []OneDocumentPerKey
BY InitInv, StepInv, InvGivesOne, PTL DEF Spec

-----------------------------------------------------------------------------
(* The refinement.  What a transaction has done and has yet to do, told from
   the committed rows, which on SQLite nobody else changes meanwhile.       *)

Many(s) == Q(s).op \in {"update", "delete"}
Made(s, r) == IF Q(s).op = "delete" THEN Deleted(r, Q(s)) ELSE Applied(r, Q(s))

(* Update and Delete go through the window that All would return: the first
   count[s] of its rows are done, and docs[s] is what comes next.           *)
Through(s) ==
    LET w == Window(rows, Q(s)) IN
    /\ count[s] + Len(docs[s]) <= Len(w)
    /\ \A k \in 1..Len(docs[s]) : docs[s][k] = <<w[count[s] + k], rows[w[count[s] + k]]>>
    /\ View(s) = [i \in Ids |-> IF \E k \in 1..count[s] : w[k] = i THEN Made(s, rows[i]) ELSE rows[i]]

(* Where it stands in its loop.                                             *)
AtFind(s) ==
    pc[s] = "find" =>
        /\ docs[s] = <<>>
        /\ Q(s).op = "update" => count[s] = 0
        /\ skip[s] = IF count[s] = 0 THEN Q(s).skip ELSE 0
        /\ count[s] # 0 /\ Q(s).skip # 0 => count[s] = Q(s).limit
AtPut(s) ==
    pc[s] = "put" =>
        IF Q(s).op = "delete" /\ got[s] = limit[s]
          THEN Q(s).skip # 0 => count[s] + Len(docs[s]) = Q(s).limit
          ELSE count[s] + Len(docs[s]) = Len(Window(rows, Q(s)))
AtCommit(s) ==
    pc[s] = "commit" => docs[s] = <<>> /\ count[s] = Len(Window(rows, Q(s)))

(* UpdateOne and UpsertOne: the row i, a hit or a miss.                     *)
Hit(s, i)  == rows[i] # Gone /\ Found(rows, Q(s)) = {i}
Miss(s, i) == /\ rows[i] = Gone /\ Found(rows, Q(s)) = {}
              /\ Q(s).op = "upsertOne" /\ tmpl[s] = i
OneRow(s) ==
    /\ pc[s] \in {"find", "put"} => count[s] = 0 /\ buf[s] = <<>>
    /\ pc[s] = "find" => docs[s] = <<>>
    /\ pc[s] = "put" =>
        \E i \in Ids : docs[s] = <<<<i, rows[i]>>>> /\ (Hit(s, i) \/ Miss(s, i))
    /\ pc[s] = "commit" =>
        /\ count[s] = 1 /\ docs[s] = <<>>
        /\ \E i \in Ids :
            /\ DOMAIN buf[s] = {i}
            /\ \/ Hit(s, i) /\ buf[s][i] = Applied(rows[i], Q(s))
               \/ Miss(s, i) /\ buf[s][i] = Created(Q(s))

Answer  == [what: {"none", "error", "affected", "inserted"}, n: Nat]
Answers == answer \in [Sessions -> Answer]

(* Ids not yet drawn have no row, nor has the id a failed upsert has left in
   its defaults; nobody else writes it.                                     *)
Owed(s) == pc[s] # "idle" \/ answer[s].what \in {"none", "error"}
NewIds ==
    /\ \A i \in fresh : rows[i] = Gone /\ \A s \in Sessions : tmpl[s] # i
    /\ \A s, t \in Sessions : tmpl[s] = tmpl[t] /\ s # t => tmpl[s] = NoId
    /\ \A s \in Sessions : Owed(s) /\ tmpl[s] # NoId => rows[tmpl[s]] = Gone
    /\ \A s \in Sessions : \A i \in DOMAIN buf[s] : rows[i] # Gone \/ i = tmpl[s]
    /\ \A s \in Sessions : \A n \in DOMAIN docs[s] :
            rows[docs[s][n][1]] # Gone \/ docs[s][n][1] = tmpl[s]

Progress(s) ==
    IF Inside(s)
      THEN IF Many(s) THEN Through(s) /\ AtFind(s) /\ AtPut(s) /\ AtCommit(s) ELSE OneRow(s)
      ELSE count[s] = 0
RefInv == Answers /\ (SQLite => NewIds /\ \A s \in Sessions : Progress(s))

-----------------------------------------------------------------------------
(* What All returns: a stretch of the order.                                *)
LEMMA WindowFacts ==
    ASSUME Types, NEW s \in Sessions
    PROVE  LET q == Q(s)
               S == Found(rows, q)
               n == Cardinality(S)
               w == Window(rows, q) IN
           /\ S \in SUBSET Nat /\ S \subseteq Ids /\ IsFiniteSet(S) /\ n \in Nat
           /\ w = [k \in 1..Picked(n, q.limit, q.skip) |-> Sorted(S, q.desc)[q.skip + k]]
           /\ Len(w) = Picked(n, q.limit, q.skip) /\ Len(w) \in Nat /\ Len(w) <= n
           /\ Len(w) <= Cardinality(Ids) /\ Cardinality(Ids) \in Nat
           /\ \A k \in 1..Len(w) : w[k] \in S
<1> DEFINE q == Q(s)
           S == Found(rows, q)
           n == Cardinality(S)
           z == Picked(n, q.limit, q.skip)
           o == Sorted(S, q.desc)
           w == Window(rows, q)
<1>1. q.limit \in Nat /\ q.skip \in Nat /\ q.desc \in BOOLEAN
  <2>1. Q(s) \in Call /\ Q(s).limit \in Nat /\ Q(s).skip \in Nat
    BY SetupType
  <2>. QED  BY <2>1 DEF Call
<1> HIDE DEF q
<1>2. /\ S \in SUBSET Nat /\ S \subseteq Ids /\ IsFiniteSet(S)
      /\ w = [k \in 1..z |-> o[q.skip + k]]
  <2>1. w = Select(rows, q, q.limit, q.skip)
    BY DEF Window
  <2>2. \A a, b \in Nat : Select(rows, q, a, b) =
            [k \in 1..Picked(Cardinality(S), a, b) |-> Sorted(S, q.desc)[b + k]]
    BY <1>1, SelectIs
  <2>3. S \in SUBSET Nat /\ S \subseteq Ids /\ IsFiniteSet(S)
    BY <1>1, SelectIs
  <2> HIDE DEF w, S
  <2>. QED  BY <1>1, <2>1, <2>2, <2>3
<1> HIDE DEF S, w
<1>3. n \in Nat /\ o \in [1..n -> S]
  BY <1>1, <1>2, SortedFacts
<1>4. n <= Cardinality(Ids) /\ Cardinality(Ids) \in Nat
  BY <1>2, FS_Subset, FS_CardinalityType
<1> HIDE DEF n, o
<1>5. z \in Nat /\ z <= n /\ \A k \in 1..z : q.skip + k \in 1..n
  BY <1>1, <1>3 DEF Picked
<1> HIDE DEF z
<1>6. w \in [1..z -> S] /\ Len(w) = z
  BY <1>2, <1>3, <1>5
<1>7. z <= Cardinality(Ids)
  BY <1>3, <1>4, <1>5
<1>. QED  BY <1>2, <1>3, <1>4, <1>5, <1>6, <1>7 DEF w, S, n, q, z, o

(* What Delete has made of a row does not match any more.                   *)
LEMMA DeletedIsGone ==
    ASSUME Types, TidyDeletes, NEW s \in Sessions, Q(s).op = "delete", NEW r \in Row
    PROVE  ~Matches(Deleted(r, Q(s)), Q(s))
<1>1. Q(s).soft /\ Q(s).all => Q(s).hard
  BY DEF TidyDeletes, Types, Q
<1>2. Q(s).soft \in BOOLEAN /\ Q(s).hard \in BOOLEAN /\ Q(s).all \in BOOLEAN
  BY SetupType DEF Call
<1>3. CASE Q(s).soft /\ ~Q(s).hard
  <2>1. Deleted(r, Q(s)).st = "deleted"
    BY <1>3 DEF Deleted, Row, Gone
  <2>. QED  BY <1>1, <1>2, <1>3, <2>1 DEF Matches
<1>4. CASE ~(Q(s).soft /\ ~Q(s).hard)
  BY <1>4 DEF Deleted, Matches, Gone
<1>. QED  BY <1>3, <1>4

(* The arithmetic of the chunk loop: c of the Picked(n, L, K) rows are done,
   and a chunk of at most ChunkOf(c, L, B) is taken from the n - c that still
   match.  LoopAt is where the loop stands, LoopGoes what it gets there.    *)
ChunkOf(c, L, B) == IF L > 0 /\ L - c < B THEN L - c ELSE B

LoopAt(n, c, L, K, B) ==
    /\ n \in Nat /\ c \in Nat /\ L \in Nat /\ K \in Nat /\ B \in Nat \ {0}
    /\ L = 0 \/ c < L
    /\ c <= Picked(n, L, K)
    /\ c # 0 => K = 0
    /\ K # 0 => L \in 1..B

LoopGoes(n, c, L, K, B) ==
    LET t == ChunkOf(c, L, B)
        x == Picked(n - c, t, K)
        y == Picked(n, L, K) IN
    /\ t \in Nat /\ t # 0 /\ n - c \in Nat /\ x \in Nat
    /\ c + x <= y /\ (K + y <= n \/ y = 0)
    /\ x = 0 => c = y
    /\ x # t => c + x = y
    /\ K # 0 /\ x = t => c + x = L

LEMMA ChunkSizes == \A n, c, L, K, B : LoopAt(n, c, L, K, B) => LoopGoes(n, c, L, K, B)
BY DEF Picked, ChunkOf, LoopAt, LoopGoes

(* A chunk of Delete is the next stretch of the window, and where the loop
   ends there is nothing left of it.                                        *)
LEMMA ChunkFacts ==
    ASSUME Types, TidyDeletes, NEW s \in Sessions, Q(s).op = "delete", pc[s] = "find",
           Through(s), AtFind(s)
    PROVE  LET w == Window(rows, Q(s))
               c == count[s]
               z == ChunkLimit(s)
               d == IF LimitReached(s) THEN <<>> ELSE Read(s, z, skip[s]) IN
           /\ Len(d) \in Nat /\ c + Len(d) <= Len(w)
           /\ \A k \in 1..Len(d) : d[k] = <<w[c + k], rows[w[c + k]]>>
           /\ d = <<>> => c = Len(w)
           /\ Len(d) # z => c + Len(d) = Len(w)
           /\ Q(s).skip # 0 /\ Len(d) = z => c + Len(d) = Q(s).limit
<1> DEFINE q == Q(s)
           w == Window(rows, q)
           c == count[s]
           z == ChunkLimit(s)
           S == Found(rows, q)
           n == Cardinality(S)
           o == Sorted(S, q.desc)
           v == View(s)
<1>1. /\ q.limit \in Nat /\ q.skip \in Nat /\ q.desc \in BOOLEAN /\ c \in Nat
      /\ ChunkSize \in Nat \ {0}
  <2>1. Q(s) \in Call /\ Q(s).limit \in Nat /\ Q(s).skip \in Nat
    BY SetupType
  <2>2. Q(s).desc \in BOOLEAN
    BY <2>1 DEF Call
  <2>3. ChunkSize \in Nat \ {0} /\ MaxCount \in Nat
    BY BoundsAssumption
  <2>4. count[s] \in 0..MaxCount
    BY DEF Types
  <2>. QED  BY <2>1, <2>2, <2>3, <2>4
<1>2. /\ S \in SUBSET Nat /\ S \subseteq Ids /\ IsFiniteSet(S) /\ n \in Nat
      /\ w = [k \in 1..Picked(n, q.limit, q.skip) |-> o[q.skip + k]]
      /\ Len(w) = Picked(n, q.limit, q.skip) /\ Len(w) \in Nat /\ Len(w) <= n
      /\ \A k \in 1..Len(w) : w[k] \in S
  BY WindowFacts
<1>3. /\ docs[s] = <<>> /\ skip[s] = IF c = 0 THEN q.skip ELSE 0
      /\ c # 0 /\ q.skip # 0 => c = q.limit
      /\ q.skip # 0 => q.limit \in 1..ChunkSize
  <2>1. q.skip > 0 => q.limit \in 1..ChunkSize
    BY DEF TidyDeletes, Types, Q
  <2>. QED  BY <1>1, <2>1 DEF AtFind
<1>4. /\ c <= Len(w)
      /\ v = [i \in Ids |-> IF \E k \in 1..c : w[k] = i THEN Deleted(rows[i], q) ELSE rows[i]]
  <2>1. c <= Len(w)
    <3>1. c + Len(docs[s]) <= Len(w) /\ Len(docs[s]) = 0
      BY <1>3 DEF Through
    <3> HIDE DEF w, c
    <3>. QED  BY <1>1, <3>1
  <2>2. v = [i \in Ids |-> IF \E k \in 1..c : w[k] = i THEN Made(s, rows[i]) ELSE rows[i]]
    BY DEF Through
  <2>3. \A i \in Ids : Made(s, rows[i]) = Deleted(rows[i], q)
    BY DEF Made
  <2> HIDE DEF v, w
  <2>. QED  BY <2>1, <2>2, <2>3
<1>5. LimitReached(s) <=> q.limit > 0 /\ q.limit <= c
  BY <1>1 DEF LimitReached, Remaining
<1>6. z = IF q.limit > 0 /\ (IF q.limit > c THEN q.limit - c ELSE 0) < ChunkSize
            THEN (IF q.limit > c THEN q.limit - c ELSE 0) ELSE ChunkSize
  BY DEF ChunkLimit, Remaining
<1> HIDE DEF q, w, c, z, S, v, n, o
<1>7. /\ n \in Nat /\ Len(w) \in Nat /\ Len(w) <= n /\ c <= Len(w)
      /\ Len(w) = Picked(n, q.limit, q.skip)
  BY <1>2, <1>4
<1>8. CASE LimitReached(s)
  <2>1. q.limit > 0 /\ q.limit <= c
    BY <1>5, <1>8
  <2>2. Len(w) <= q.limit
    BY <1>1, <1>7, <2>1 DEF Picked
  <2>3. c = Len(w) /\ c = q.limit /\ z = 0
    BY <1>1, <1>7, <1>6, <2>1, <2>2
  <2>. QED  BY <1>1, <1>2, <1>8, <2>3 DEF q, w, c, z
<1>9. CASE ~LimitReached(s)
  <2> DEFINE K == skip[s]
             e == Picked(n - c, z, q.skip)
             f == Select(v, q, z, K)
             d == Read(s, z, K)
  <2>1. q.limit = 0 \/ c < q.limit
    BY <1>1, <1>5, <1>9
  <2>2. (c # 0 => q.skip = 0) /\ K = q.skip
    BY <1>1, <1>3, <2>1
  <2>3. z = IF q.limit > 0 /\ q.limit - c < ChunkSize THEN q.limit - c ELSE ChunkSize
    BY <1>1, <1>6, <2>1
  <2> HIDE DEF K
  <2>4. c <= Picked(n, q.limit, q.skip)
    BY <1>7
  <2>5. /\ z \in Nat /\ z # 0 /\ n - c \in Nat /\ e \in Nat
        /\ c + e <= Len(w) /\ (q.skip + Len(w) <= n \/ Len(w) = 0)
        /\ e = 0 => c = Len(w)
        /\ e # z => c + e = Len(w)
        /\ q.skip # 0 /\ e = z => c + e = q.limit
    <3>1. q.skip # 0 => q.limit \in 1..ChunkSize
      BY <1>3
    <3>2. c # 0 => q.skip = 0
      BY <2>2
    <3>3. LoopAt(n, c, q.limit, q.skip, ChunkSize)
      BY <1>1, <1>7, <2>1, <2>4, <3>1, <3>2 DEF LoopAt
    <3>4. LoopGoes(n, c, q.limit, q.skip, ChunkSize)
      BY <3>3, ChunkSizes, Zenon
    <3>5. z = ChunkOf(c, q.limit, ChunkSize)
      BY <2>3 DEF ChunkOf
    <3>. QED  BY <1>7, <3>4, <3>5, Zenon DEF LoopGoes
  <2>6. o \in [1..n -> S] /\ \A i, j \in 1..n : o[i] = o[j] => i = j
    BY <1>1, <1>2, SortedFacts DEF n, o
  <2>7. Found(v, q) = S \ {o[k] : k \in 1..c}
    <3>1. CASE c = 0
      <4>1. v = rows
        BY <1>4, <3>1 DEF Types
      <4>. QED  BY <3>1, <4>1 DEF S
    <3>2. CASE c # 0
      <4>1. q.skip = 0
        BY <2>2, <3>2
      <4>2. \A k \in 1..c : w[k] = o[k]
        <5>1. \A k \in 1..c : k \in 1..Picked(n, q.limit, q.skip) /\ q.skip + k = k
          BY <1>1, <1>7, <4>1
        <5>. QED  BY <1>2, <5>1
      <4>3. \A i \in Ids : v[i] = IF i \in {o[k] : k \in 1..c} THEN Deleted(rows[i], q) ELSE rows[i]
        BY <1>4, <4>2
      <4>4. \A i \in Ids : ~Matches(Deleted(rows[i], q), q)
        BY DeletedIsGone DEF q, Types
      <4>. QED  BY <4>3, <4>4 DEF Found, S
    <3>. QED  BY <3>1, <3>2
  <2>8. f = [k \in 1..e |-> o[q.skip + (c + k)]]
    <3> DEFINE T == S \ {o[k] : k \in 1..c}
    <3>1. c \in 0..n
      BY <1>1, <1>7
    <3>2. Cardinality(T) = n - c /\ Sorted(T, q.desc) = [k \in 1..(n - c) |-> o[c + k]]
      BY <1>1, <1>2, <3>1, SortedTail DEF n, o
    <3>3. f = [k \in 1..Picked(Cardinality(T), z, K) |-> Sorted(T, q.desc)[K + k]]
      <4>1. K \in Nat
        BY <1>1, <2>2
      <4>2. \A a, b \in Nat : Select(v, q, a, b) =
                [k \in 1..Picked(Cardinality(Found(v, q)), a, b) |-> Sorted(Found(v, q), q.desc)[b + k]]
        BY <1>1, SelectIs
      <4>3. Found(v, q) = T
        BY <2>7
      <4> HIDE DEF T
      <4>. QED  BY <2>5, <4>1, <4>2, <4>3
    <3> HIDE DEF T
    <3>4. f = [k \in 1..e |-> [j \in 1..(n - c) |-> o[c + j]][K + k]]
      BY <2>2, <3>2, <3>3
    <3>5. \A k \in 1..e : K + k \in 1..(n - c) /\ c + (K + k) = q.skip + (c + k)
      <4>1. n - c \in Nat /\ z \in Nat /\ q.skip \in Nat /\ K = q.skip
        BY <1>1, <2>2, <2>5
      <4>2. e \in Nat /\ \A k \in 1..e : q.skip + k \in 1..(n - c)
        BY <4>1 DEF Picked
      <4> HIDE DEF e
      <4>. QED  BY <1>1, <4>1, <4>2
    <3> HIDE DEF e, f
    <3>. QED  BY <3>4, <3>5
  <2>9. d = [k \in 1..Len(f) |-> <<f[k], v[f[k]]>>]
    BY DEF Read, v, q
  <2> HIDE DEF e, f, d
  <2>10. Len(f) = e
    BY <2>5, <2>8
  <2>11. Len(d) = e /\ \A k \in 1..e : d[k] = <<f[k], v[f[k]]>>
    BY <2>5, <2>9, <2>10
  <2>12. ASSUME NEW k \in 1..e PROVE d[k] = <<w[c + k], rows[w[c + k]]>>
    <3>1. c + k \in 1..Len(w) /\ \A j \in 1..c : j \in 1..Len(w) /\ j # c + k
      BY <1>1, <1>7, <2>5
    <3>2. f[k] = w[c + k] /\ w[c + k] \in Ids
      BY <1>2, <2>8, <3>1
    <3>3. \A j \in 1..c : w[j] # w[c + k]
      <4> SUFFICES ASSUME NEW j \in 1..c, w[j] = w[c + k] PROVE FALSE
        OBVIOUS
      <4>1. o[q.skip + j] = o[q.skip + (c + k)]
        BY <1>2, <3>1
      <4>2. q.skip + j \in 1..n /\ q.skip + (c + k) \in 1..n
        BY <1>1, <1>7, <2>5, <3>1
      <4>3. q.skip + j = q.skip + (c + k)
        BY <2>6, <4>1, <4>2
      <4>. QED  BY <1>1, <3>1, <4>3
    <3>4. v[w[c + k]] = rows[w[c + k]]
      BY <1>4, <3>2, <3>3
    <3>. QED  BY <2>11, <3>2, <3>4
  <2>13. d = <<>> => e = 0
    BY <2>11
  <2>. QED  BY <1>9, <2>5, <2>11, <2>12, <2>13 DEF d, q, w, c, z, K
<1>. QED  BY <1>8, <1>9

-----------------------------------------------------------------------------
(* A step of s leaves the progress of the others alone.                     *)
LEMMA ProgressFrame ==
    ASSUME NEW t \in Sessions, Progress(t), setup' = setup,
           Inside(t) => rows' = rows,
           pc'[t] = pc[t], tmpl'[t] = tmpl[t], buf'[t] = buf[t], docs'[t] = docs[t],
           count'[t] = count[t], skip'[t] = skip[t], limit'[t] = limit[t], got'[t] = got[t]
    PROVE  Progress(t)'
<1>1. Q(t)' = Q(t) /\ (Inside(t)' <=> Inside(t)) /\ (Many(t)' <=> Many(t))
  BY DEF Q, Inside, Many
<1>2. CASE ~Inside(t)
  BY <1>1, <1>2 DEF Progress
<1>3. CASE Inside(t) /\ Many(t)
  <2>1. rows' = rows
    BY <1>3
  <2>2. View(t)' = View(t)
    BY <2>1 DEF View
  <2>3. \A r : Made(t, r)' = Made(t, r)
    BY <1>1 DEF Made
  <2>4. Through(t)'
    BY <1>1, <1>3, <2>1, <2>2, <2>3 DEF Progress, Through, Made
  <2>5. AtFind(t)' /\ AtPut(t)' /\ AtCommit(t)'
    BY <1>1, <1>3, <2>1 DEF Progress, AtFind, AtPut, AtCommit
  <2>. QED  BY <1>1, <1>3, <2>4, <2>5 DEF Progress
<1>4. CASE Inside(t) /\ ~Many(t)
  <2>1. rows' = rows
    BY <1>4
  <2>2. OneRow(t)'
    BY <1>1, <1>4, <2>1 DEF Progress, OneRow, Hit, Miss
  <2>. QED  BY <1>1, <1>4, <2>2 DEF Progress
<1>. QED  BY <1>2, <1>3, <1>4

LEMMA AnswersKept ==
    ASSUME Types, Answers, NEW s \in Sessions, Enter(s) \/ Step(s) \/ Fail(s)
    PROVE  Answers'
<1>1. ASSUME NEW a \in Answer, answer' = [answer EXCEPT ![s] = a] PROVE Answers'
  BY <1>1 DEF Answers
<1>2. Atomic!NoAnswer \in Answer /\ Atomic!Refusal \in Answer
  BY DEF Answer, Atomic!NoAnswer, Atomic!Refusal
<1>3. Result(s) \in Answer
  <2>1. count[s] \in Nat
    BY BoundsAssumption DEF Types
  <2>. QED  BY <2>1 DEF Answer, Result, Atomic!Inserted, Atomic!Affected
<1>4. CASE Enter(s)
  BY <1>1, <1>2, <1>4 DEF Enter
<1>5. CASE Begin(s) \/ Searches(s) \/ FindNone(s) \/ Put(s)
  BY <1>5 DEF Begin, Searches, FindNone, Put, Answers
<1>6. CASE Aborts(s)
  BY <1>1, <1>2, <1>6 DEF Aborts, Rollback, Return
<1>7. CASE Commit(s)
  BY <1>1, <1>3, <1>7 DEF Commit, Return
<1>. QED  BY Kinds, <1>4, <1>5, <1>6, <1>7

(* What a step of s leaves as it is of another session.                     *)
LEMMA OthersKept ==
    ASSUME Types, Answers, NEW s \in Sessions, Enter(s) \/ Step(s) \/ Fail(s),
           NEW t \in Sessions, t # s
    PROVE  /\ setup' = setup /\ pc'[t] = pc[t] /\ tmpl'[t] = tmpl[t] /\ buf'[t] = buf[t]
           /\ docs'[t] = docs[t] /\ count'[t] = count[t] /\ skip'[t] = skip[t]
           /\ limit'[t] = limit[t] /\ got'[t] = got[t] /\ answer'[t] = answer[t]
<1>1. CASE Enter(s) \/ Begin(s)
  BY <1>1 DEF Enter, Begin, GoTo, Types, Answers, local, chunk
<1>2. CASE DrainUpdate(s) \/ FindOne(s) \/ FindNone(s)
  BY <1>2 DEF DrainUpdate, FindOne, FindNone, GoTo, Types, chunk
<1>3. CASE ReadChunk(s)
  BY <1>3 DEF ReadChunk, GoTo, Types
<1>4. CASE Put(s)
  <2>1. pc'[t] = pc[t] /\ skip'[t] = skip[t]
    BY <1>4 DEF Put, GoTo, Types
  <2>. QED  BY <1>4, <2>1 DEF Put, Types
<1>5. ASSUME NEW a, Return(s, a)
      PROVE  /\ pc'[t] = pc[t] /\ buf'[t] = buf[t]
             /\ docs'[t] = docs[t] /\ count'[t] = count[t] /\ skip'[t] = skip[t]
             /\ limit'[t] = limit[t] /\ got'[t] = got[t] /\ answer'[t] = answer[t]
  BY <1>5 DEF Return, GoTo, Types, Answers
<1>6. CASE FindRefuses(s) \/ PutRefused(s) \/ DeadlockVictim(s) \/ Fail(s)
  BY <1>5, <1>6 DEF FindRefuses, PutRefused, DeadlockVictim, Fail, Rollback
<1>7. CASE Commit(s)
  BY <1>5, <1>7 DEF Commit
<1>. QED  BY <1>1, <1>2, <1>3, <1>4, <1>6, <1>7 DEF Step

LEMMA OthersProgress ==
    ASSUME Types, Answers, Solitary, SQLite, NEW s \in Sessions, Enter(s) \/ Step(s) \/ Fail(s),
           NEW t \in Sessions, t # s, Progress(t)
    PROVE  Progress(t)'
<1>1. Inside(t) => rows' = rows
  <2>1. CASE Commit(s)
    BY <2>1 DEF Commit, Solitary, Inside
  <2>2. CASE Enter(s) \/ Begin(s) \/ Searches(s) \/ FindNone(s) \/ Put(s) \/ Aborts(s)
    BY <2>2 DEF Enter, Begin, Searches, FindNone, Put, Aborts, Rollback
  <2>. QED  BY Kinds, <2>1, <2>2
<1>. QED  BY <1>1, OthersKept, ProgressFrame

-----------------------------------------------------------------------------
(* New ids stay new.                                                        *)
LEMMA NewIdsKept ==
    ASSUME Types, Answers, Shape, Solitary, SQLite, NewIds, NEW s \in Sessions,
           Enter(s) \/ Step(s) \/ Fail(s)
    PROVE  NewIds'
<1>1. NoId \notin Ids
  BY BoundsAssumption
<1>2. CASE Enter(s)
  <2>1. /\ pc' = [pc EXCEPT ![s] = "begin"]
        /\ answer[s].what \in {"none", "error"}
        /\ UNCHANGED <<rows, fresh, tmpl, buf, docs>>
    BY <1>2 DEF Enter, GoTo, local
  <2>2. \A t \in Sessions : Owed(t)' => Owed(t)
    BY <1>2, <2>1, OthersKept DEF Owed
  <2>. QED  BY <2>1, <2>2 DEF NewIds
<1>3. CASE Begin(s)
  <2>1. /\ pc[s] = "begin" /\ UNCHANGED <<rows, fresh, tmpl, buf, docs, answer>>
    BY <1>3 DEF Begin
  <2>2. \A t \in Sessions : Owed(t)' => Owed(t)
    BY <1>3, <2>1, OthersKept DEF Owed
  <2>. QED  BY <2>1, <2>2 DEF NewIds
<1>4. CASE Searches(s)
  <2>1. /\ pc[s] = "find" /\ UNCHANGED <<rows, fresh, tmpl, buf, answer>>
    BY <1>4 DEF Searches
  <2>2. PICK d \in Seq(Ids \X Row) :
            /\ \A k \in DOMAIN d : d[k][2] = View(s)[d[k][1]] /\ d[k][2] # Gone
            /\ docs' = [docs EXCEPT ![s] = d]
            /\ pc' = [pc EXCEPT ![s] = IF d = <<>> THEN "commit" ELSE "put"]
    BY <1>4 DEF Searches, GoTo
  <2>3. \A t \in Sessions : Owed(t)' => Owed(t)
    BY <2>1, <2>2 DEF Owed, Types
  <2>4. ASSUME NEW k \in DOMAIN d
        PROVE  rows[d[k][1]] # Gone \/ d[k][1] = tmpl[s]
    <3>1. d[k] \in Ids \X Row
      BY <2>2
    <3>2. d[k][1] \in Ids
      BY <3>1
    <3>. QED  BY <2>2, <3>2 DEF View, NewIds
  <2>5. \A t \in Sessions : \A n \in DOMAIN docs'[t] :
            rows[docs'[t][n][1]] # Gone \/ docs'[t][n][1] = tmpl[t]
    BY <2>2, <2>4 DEF NewIds, Types
  <2>. QED  BY <2>1, <2>3, <2>5 DEF NewIds
<1>5. CASE FindNone(s)
  <2> DEFINE i == IF tmpl[s] = NoId THEN Min(fresh) ELSE tmpl[s]
  <2>1. /\ pc[s] = "find" /\ pc' = [pc EXCEPT ![s] = "put"]
        /\ tmpl' = [tmpl EXCEPT ![s] = i] /\ fresh' = fresh \ {i}
        /\ docs' = [docs EXCEPT ![s] = <<<<i, Gone>>>>]
        /\ tmpl[s] = NoId => fresh # {}
        /\ UNCHANGED <<rows, buf, answer>>
    BY <1>5 DEF FindNone, GoTo
  <2>2. i \in Ids /\ rows[i] = Gone /\ (tmpl[s] = NoId => i \in fresh)
    <3>1. CASE tmpl[s] = NoId
      <4>1. fresh # {} /\ fresh \subseteq Nat
        BY <2>1, <3>1, IdsAssumption DEF Types
      <4>2. Min(fresh) \in fresh
        BY <4>1, LeastElement DEF Min
      <4>. QED  BY <3>1, <4>2 DEF Types, NewIds
    <3>2. CASE tmpl[s] # NoId
      BY <2>1, <3>2 DEF Types, NewIds, Owed
    <3>. QED  BY <3>1, <3>2
  <2>3. tmpl[s] # NoId => i = tmpl[s]
    OBVIOUS
  <2> HIDE DEF i
  <2>4. \A t \in Sessions : Owed(t)' => Owed(t)
    BY <2>1 DEF Owed, Types
  <2>5. \A t \in Sessions : tmpl'[t] = IF t = s THEN i ELSE tmpl[t]
    BY <2>1 DEF Types
  <2>6. \A t \in Sessions : t # s => tmpl[t] # i
    BY <1>1, <2>2, <2>3 DEF NewIds
  <2>7. \A j \in fresh' : rows'[j] = Gone /\ \A t \in Sessions : tmpl'[t] # j
    BY <2>1, <2>5 DEF NewIds
  <2>8. \A t, u \in Sessions : tmpl'[t] = tmpl'[u] /\ t # u => tmpl'[t] = NoId
    BY <2>5, <2>6 DEF NewIds
  <2>9. \A t \in Sessions : Owed(t)' /\ tmpl'[t] # NoId => rows'[tmpl'[t]] = Gone
    BY <2>1, <2>2, <2>4, <2>5 DEF NewIds
  <2>10. \A t \in Sessions : \A j \in DOMAIN buf'[t] : rows'[j] # Gone \/ j = tmpl'[t]
    <3> SUFFICES ASSUME NEW t \in Sessions, NEW j \in DOMAIN buf[t], rows[j] = Gone
                 PROVE  j = tmpl'[t]
      BY <2>1
    <3>1. j = tmpl[t] /\ j \in Ids
      BY BufType DEF NewIds, Types
    <3>. QED  BY <1>1, <2>3, <2>5, <3>1
  <2>11. \A t \in Sessions : \A n \in DOMAIN docs'[t] :
            rows'[docs'[t][n][1]] # Gone \/ docs'[t][n][1] = tmpl'[t]
    <3>1. \A n \in DOMAIN docs'[s] : docs'[s][n][1] = i
      BY <2>1 DEF Types
    <3>2. \A t \in Sessions \ {s} : docs'[t] = docs[t] /\ tmpl'[t] = tmpl[t]
      BY <2>1, <2>5 DEF Types
    <3>. QED  BY <2>1, <2>5, <3>1, <3>2 DEF NewIds
  <2>. QED  BY <2>7, <2>8, <2>9, <2>10, <2>11 DEF NewIds
<1>6. CASE Put(s)
  <2> DEFINE i == docs[s][1][1]
  <2>1. /\ pc[s] = "put" /\ 1 \in DOMAIN docs[s] /\ docs[s] # <<>>
        /\ DOMAIN buf'[s] = DOMAIN buf[s] \cup {i}
        /\ \A t \in Sessions \ {s} : buf'[t] = buf[t]
        /\ docs' = [docs EXCEPT ![s] = Tail(docs[s])]
        /\ rows' = rows
    BY <1>6, PutFacts
  <2>2. UNCHANGED <<fresh, tmpl, answer>>
    BY <1>6 DEF Put
  <2>3. \A t \in Sessions : Owed(t)' => Owed(t)
    BY <1>6, <2>1, <2>2, OthersKept DEF Owed
  <2>4. rows[i] # Gone \/ i = tmpl[s]
    BY <2>1 DEF NewIds
  <2>5. \A n \in DOMAIN docs'[s] : n + 1 \in DOMAIN docs[s] /\ docs'[s][n] = docs[s][n + 1]
    <3>1. docs'[s] = Tail(docs[s]) /\ docs[s] \in Seq(Ids \X Row)
      BY <2>1 DEF Types
    <3> DEFINE l == docs[s]
               m == Tail(l)
    <3>2. l \in Seq(Ids \X Row) /\ l # <<>>
      BY <2>1, <3>1
    <3> HIDE DEF l
    <3>3. \A n \in DOMAIN m : n + 1 \in DOMAIN l /\ m[n] = l[n + 1]
      BY <3>2
    <3>. QED  BY <3>1, <3>3 DEF l
  <2> HIDE DEF i
  <2>6. \A t \in Sessions : \A j \in DOMAIN buf'[t] : rows[j] # Gone \/ j = tmpl[t]
    BY <2>1, <2>4 DEF NewIds
  <2>7. \A t \in Sessions : \A n \in DOMAIN docs'[t] :
            rows[docs'[t][n][1]] # Gone \/ docs'[t][n][1] = tmpl[t]
    <3>1. \A t \in Sessions \ {s} : docs'[t] = docs[t]
      BY <2>1 DEF Types
    <3>. QED  BY <2>5, <3>1 DEF NewIds
  <2>. QED  BY <2>1, <2>2, <2>3, <2>6, <2>7 DEF NewIds
<1>7. CASE Aborts(s)
  <2>1. /\ pc[s] # "idle" /\ UNCHANGED <<rows, fresh, tmpl>> /\ Return(s, Atomic!Refusal)
    BY <1>7 DEF Aborts, Rollback
  <2>2. /\ buf'[s] = <<>> /\ docs'[s] = <<>>
        /\ \A t \in Sessions \ {s} : buf'[t] = buf[t] /\ docs'[t] = docs[t]
    BY <2>1, ReturnFacts
  <2>3. \A t \in Sessions : Owed(t)' => Owed(t)
    BY <2>1, OthersKept DEF Owed
  <2>4. \A t \in Sessions : \A j \in DOMAIN buf'[t] : rows[j] # Gone \/ j = tmpl[t]
    BY <2>2, EmptyBuf DEF NewIds
  <2>5. \A t \in Sessions : \A n \in DOMAIN docs'[t] :
            rows[docs'[t][n][1]] # Gone \/ docs'[t][n][1] = tmpl[t]
    BY <2>2, EmptyBuf DEF NewIds
  <2>. QED  BY <2>1, <2>3, <2>4, <2>5 DEF NewIds
<1>8. CASE Commit(s)
  <2>1. /\ pc[s] = "commit" /\ UNCHANGED <<fresh, tmpl>> /\ rows' = View(s)
        /\ Return(s, Result(s))
    BY <1>8 DEF Commit
  <2>2. /\ buf'[s] = <<>> /\ docs'[s] = <<>> /\ pc'[s] = "idle"
        /\ \A t \in Sessions \ {s} : buf'[t] = buf[t] /\ docs'[t] = docs[t]
    BY <2>1, ReturnFacts DEF Types
  <2>3. \A t \in Sessions : buf'[t] = <<>> /\ docs'[t] = <<>>
    BY <2>1, <2>2, Alone DEF Inside
  <2>4. ~Owed(s)'
    <3>1. answer'[s] = Result(s)
      BY <2>1 DEF Return, Answers
    <3>2. Result(s).what \in {"inserted", "affected"}
      BY DEF Result, Atomic!Inserted, Atomic!Affected
    <3>. QED  BY <2>2, <3>1, <3>2 DEF Owed
  <2>5. \A t \in Sessions \ {s} : Owed(t)' => Owed(t)
    BY <1>8, OthersKept DEF Owed
  <2>6. \A i \in Ids : rows[i] = Gone /\ i # tmpl[s] => rows'[i] = Gone
    BY <2>1 DEF View, NewIds
  <2>7. \A i \in fresh : rows'[i] = Gone /\ \A t \in Sessions : tmpl[t] # i
    BY <2>6 DEF NewIds, Types
  <2>8. \A t \in Sessions : Owed(t)' /\ tmpl[t] # NoId => rows'[tmpl[t]] = Gone
    <3> SUFFICES ASSUME NEW t \in Sessions, Owed(t)', tmpl[t] # NoId
                 PROVE  rows'[tmpl[t]] = Gone
      OBVIOUS
    <3>1. t # s /\ Owed(t)
      BY <2>4, <2>5
    <3>2. rows[tmpl[t]] = Gone /\ tmpl[t] # tmpl[s] /\ tmpl[t] \in Ids
      BY <3>1 DEF NewIds, Types
    <3>. QED  BY <2>6, <3>2
  <2>9. \A t \in Sessions : DOMAIN buf'[t] = {} /\ DOMAIN docs'[t] = {}
    BY <2>3, EmptyBuf
  <2>. QED  BY <2>1, <2>7, <2>8, <2>9 DEF NewIds
<1>. QED  BY Kinds, <1>2, <1>3, <1>4, <1>5, <1>6, <1>7, <1>8

-----------------------------------------------------------------------------
(* The progress of the session that takes the step.  An open transaction that
   has written nothing sees the committed rows.                             *)
LEMMA NothingDone ==
    ASSUME Types, NEW s \in Sessions, Through(s), count[s] = 0
    PROVE  View(s) = rows
BY DEF Through, Types

LEMMA BeginProgress ==
    ASSUME Types, Shape, NEW s \in Sessions, Progress(s), Begin(s)
    PROVE  Progress(s)'
<1>1. /\ pc'[s] = "find" /\ skip'[s] = Q(s).skip /\ pc[s] = "begin"
      /\ UNCHANGED <<setup, rows, tmpl, buf, docs, count>>
  BY DEF Begin, GoTo, Types
<1>2. /\ buf[s] = <<>> /\ docs[s] = <<>> /\ count[s] = 0 /\ View(s) = rows
  BY <1>1, OutsideView DEF Shape, Inside, Progress
<1>3. Q(s)' = Q(s) /\ View(s)' = View(s) /\ Inside(s)' /\ (Many(s)' <=> Many(s))
  BY <1>1, <1>2 DEF Q, View, Inside, Many
<1>4. CASE Many(s)
  <2>1. Len(Window(rows, Q(s))) \in Nat
    BY WindowFacts
  <2>2. Through(s)'
    <3>1. Len(docs[s]) = 0
      BY <1>2
    <3>2. rows = [i \in Ids |-> rows[i]]
      BY DEF Types
    <3>. QED  BY <1>1, <1>2, <1>3, <2>1, <3>1, <3>2 DEF Through
  <2>3. AtFind(s)' /\ AtPut(s)' /\ AtCommit(s)'
    BY <1>1, <1>2, <1>3 DEF AtFind, AtPut, AtCommit
  <2>. QED  BY <1>3, <1>4, <2>2, <2>3 DEF Progress
<1>5. CASE ~Many(s)
  <2>1. OneRow(s)'
    BY <1>1, <1>2 DEF OneRow
  <2>. QED  BY <1>3, <1>5, <2>1 DEF Progress
<1>. QED  BY <1>4, <1>5

(* A query of Update or Delete that has found the next rows of the window.  *)
LEMMA ManyFound ==
    ASSUME Types, NEW s \in Sessions, Many(s), Through(s), pc[s] = "find", NEW d,
           Len(d) \in Nat, count[s] + Len(d) <= Len(Window(rows, Q(s))),
           \A k \in 1..Len(d) : d[k] = <<Window(rows, Q(s))[count[s] + k],
                                         rows[Window(rows, Q(s))[count[s] + k]]>>,
           d = <<>> => count[s] = Len(Window(rows, Q(s))),
           docs'[s] = d, pc'[s] = IF d = <<>> THEN "commit" ELSE "put",
           UNCHANGED <<setup, rows, buf, count>>,
           IF Q(s).op = "delete" /\ got'[s] = limit'[s]
             THEN Q(s).skip # 0 => count[s] + Len(d) = Q(s).limit
             ELSE count[s] + Len(d) = Len(Window(rows, Q(s)))
    PROVE  Progress(s)'
<1>1. Q(s)' = Q(s) /\ View(s)' = View(s) /\ Inside(s)' /\ Many(s)'
  BY DEF Q, View, Inside, Many
<1>2. \A r : Made(s, r)' = Made(s, r)
  BY <1>1 DEF Made
<1>3. Through(s)'
  BY <1>1, <1>2 DEF Through, Made
<1>4. AtFind(s)' /\ AtPut(s)' /\ AtCommit(s)'
  BY <1>1 DEF AtFind, AtPut, AtCommit
<1>. QED  BY <1>1, <1>3, <1>4 DEF Progress

LEMMA DrainProgress ==
    ASSUME Types, NEW s \in Sessions, Progress(s), DrainUpdate(s)
    PROVE  Progress(s)'
<1> DEFINE w == Window(rows, Q(s))
           d == Read(s, Q(s).limit, Q(s).skip)
<1>1. /\ pc[s] = "find" /\ Q(s).op = "update" /\ docs'[s] = d
      /\ pc'[s] = IF d = <<>> THEN "commit" ELSE "put"
      /\ UNCHANGED <<setup, rows, buf, count>>
  BY DEF DrainUpdate, GoTo, Types
<1>2. Many(s) /\ Through(s) /\ count[s] = 0
  BY <1>1 DEF Many, Progress, Inside, AtFind
<1>3. View(s) = rows
  BY <1>2, NothingDone
<1>4. Len(w) \in Nat
  BY WindowFacts
<1>5. d = [k \in 1..Len(w) |-> <<w[k], rows[w[k]]>>]
  BY <1>3 DEF Read, Window
<1> HIDE DEF w, d
<1>6. Len(d) = Len(w) /\ \A k \in 1..Len(d) : d[k] = <<w[0 + k], rows[w[0 + k]]>>
  BY <1>4, <1>5
<1>7. d = <<>> => Len(w) = 0
  BY <1>6
<1>8. 0 + Len(d) = Len(w) /\ Len(d) \in Nat /\ 0 + Len(d) <= Len(w)
  BY <1>4, <1>6
<1>. QED  BY <1>1, <1>2, <1>6, <1>7, <1>8, ManyFound DEF w

LEMMA ChunkProgress ==
    ASSUME Types, TidyDeletes, NEW s \in Sessions, Progress(s), ReadChunk(s)
    PROVE  Progress(s)'
<1> DEFINE w == Window(rows, Q(s))
           z == ChunkLimit(s)
           d == IF LimitReached(s) THEN <<>> ELSE Read(s, z, skip[s])
<1>1. /\ pc[s] = "find" /\ Q(s).op = "delete" /\ docs'[s] = d
      /\ pc'[s] = IF d = <<>> THEN "commit" ELSE "put"
      /\ limit'[s] = z /\ got'[s] = Len(d)
      /\ UNCHANGED <<setup, rows, buf, count>>
  BY DEF ReadChunk, GoTo, Types
<1>2. Many(s) /\ Through(s) /\ AtFind(s)
  BY <1>1 DEF Many, Progress, Inside
<1>3. /\ Len(d) \in Nat /\ count[s] + Len(d) <= Len(w)
      /\ \A k \in 1..Len(d) : d[k] = <<w[count[s] + k], rows[w[count[s] + k]]>>
      /\ d = <<>> => count[s] = Len(w)
      /\ Len(d) # z => count[s] + Len(d) = Len(w)
      /\ Q(s).skip # 0 /\ Len(d) = z => count[s] + Len(d) = Q(s).limit
  BY <1>1, <1>2, ChunkFacts
<1> HIDE DEF w, d, z
<1>. QED  BY <1>1, <1>2, <1>3, ManyFound DEF w

(* findOneStrict tells one match from several.                              *)
LEMMA StrictFacts ==
    ASSUME Types, NEW s \in Sessions, View(s) = rows
    PROVE  /\ Strict(s) = <<>> => Found(rows, Q(s)) = {}
           /\ Len(Strict(s)) = 1 => \E i \in Ids : Strict(s) = <<<<i, rows[i]>>>> /\ Hit(s, i)
<1> DEFINE q == Q(s)
           S == Found(rows, q)
           n == Cardinality(S)
           o == Sorted(S, q.desc)
           f == Select(rows, q, 2, 0)
           d == Strict(s)
<1>1. q.desc \in BOOLEAN
  BY SetupType DEF Call
<1>2. d = [k \in 1..Len(f) |-> <<f[k], rows[f[k]]>>]
  BY DEF Strict, Read
<1>3. S \subseteq Ids /\ \A i \in S : rows[i] # Gone
  BY RowFacts DEF Found, Matches
<1> HIDE DEF q
<1>4. /\ S \in SUBSET Nat /\ IsFiniteSet(S)
      /\ f = [k \in 1..Picked(n, 2, 0) |-> o[0 + k]]
  BY <1>1, SelectIs
<1> HIDE DEF S, f, d
<1>5. /\ n \in Nat /\ o \in [1..n -> S] /\ \A v \in S : \E i \in 1..n : o[i] = v
  BY <1>1, <1>4, SortedFacts
<1> HIDE DEF n, o
<1>6. Picked(n, 2, 0) = (IF n <= 2 THEN n ELSE 2) /\ Picked(n, 2, 0) \in Nat
  BY <1>5 DEF Picked
<1>7. Len(f) = Picked(n, 2, 0)
  BY <1>4, <1>6
<1>8. Len(d) = Len(f)
  BY <1>2, <1>6, <1>7
<1>9. d = <<>> => S = {}
  <2>1. d = <<>> => n = 0
    BY <1>5, <1>6, <1>7, <1>8
  <2>2. n = 0 => S = {}
    BY <1>5
  <2>. QED  BY <2>1, <2>2
<1>10. ASSUME Len(d) = 1 PROVE \E i \in Ids : d = <<<<i, rows[i]>>>> /\ rows[i] # Gone /\ S = {i}
  <2>1. n = 1
    <3>1. (IF n <= 2 THEN n ELSE 2) = 1
      BY <1>6, <1>7, <1>8, <1>10
    <3>. QED  BY <1>5, <3>1
  <2>2. o[1] \in S /\ \A v \in S : v = o[1]
    BY <1>5, <2>1
  <2>3. f = [k \in 1..1 |-> o[0 + k]]
    BY <1>4, <1>6, <2>1
  <2>4. f[1] = o[1] /\ Len(f) = 1
    BY <2>3
  <2>5. d = [k \in 1..1 |-> <<o[1], rows[o[1]]>>]
    BY <1>2, <2>4
  <2>6. d = <<<<o[1], rows[o[1]]>>>>
    BY <2>5
  <2>. QED  BY <1>3, <2>2, <2>6
<1>. QED  BY <1>9, <1>10 DEF d, S, q, Hit

LEMMA FindOneProgress ==
    ASSUME Types, NEW s \in Sessions, Progress(s), FindOne(s)
    PROVE  Progress(s)'
<1>1. /\ pc[s] = "find" /\ ~Many(s) /\ Len(Strict(s)) = 1 /\ docs'[s] = Strict(s)
      /\ pc'[s] = "put" /\ UNCHANGED <<setup, rows, tmpl, buf, count>>
  BY DEF FindOne, GoTo, Types, Many
<1>2. count[s] = 0 /\ buf[s] = <<>>
  BY <1>1 DEF Progress, Inside, OneRow
<1>3. View(s) = rows
  BY <1>2, OutsideView
<1>4. PICK i \in Ids : Strict(s) = <<<<i, rows[i]>>>> /\ Hit(s, i)
  BY <1>1, <1>3, StrictFacts
<1>5. Q(s)' = Q(s) /\ Inside(s)' /\ ~Many(s)'
  BY <1>1 DEF Q, Inside, Many
<1>6. Hit(s, i)'
  BY <1>1, <1>4, <1>5 DEF Hit
<1>7. OneRow(s)'
  BY <1>1, <1>2, <1>4, <1>6 DEF OneRow
<1>. QED  BY <1>5, <1>7 DEF Progress

LEMMA FindNoneProgress ==
    ASSUME Types, NewIds, NEW s \in Sessions, Progress(s), FindNone(s)
    PROVE  Progress(s)'
<1> DEFINE i == IF tmpl[s] = NoId THEN Min(fresh) ELSE tmpl[s]
<1>1. /\ pc[s] = "find" /\ ~Many(s) /\ Q(s).op = "upsertOne" /\ Strict(s) = <<>>
      /\ tmpl'[s] = i /\ docs'[s] = <<<<i, Gone>>>> /\ pc'[s] = "put"
      /\ tmpl[s] = NoId => fresh # {}
      /\ UNCHANGED <<setup, rows, buf, count>>
  BY DEF FindNone, GoTo, Types, Many
<1>2. count[s] = 0 /\ buf[s] = <<>>
  BY <1>1 DEF Progress, Inside, OneRow
<1>3. View(s) = rows
  BY <1>2, OutsideView
<1>4. Found(rows, Q(s)) = {}
  BY <1>1, <1>3, StrictFacts
<1>5. Q(s)' = Q(s) /\ Inside(s)' /\ ~Many(s)'
  BY <1>1 DEF Q, Inside, Many
<1>6. i \in Ids /\ rows[i] = Gone
  <2>1. CASE tmpl[s] = NoId
    <3>1. fresh # {} /\ fresh \subseteq Nat
      BY <1>1, <2>1, IdsAssumption DEF Types
    <3>2. Min(fresh) \in fresh
      BY <3>1, LeastElement DEF Min
    <3>. QED  BY <2>1, <3>2 DEF Types, NewIds
  <2>2. CASE tmpl[s] # NoId
    BY <1>1, <2>2 DEF Types, NewIds, Owed
  <2>. QED  BY <2>1, <2>2
<1>7. PICK j \in Ids : j = i
  BY <1>6
<1> HIDE DEF i
<1>8. OneRow(s)'
  <2>1. /\ tmpl'[s] = j /\ docs'[s] = <<<<j, rows'[j]>>>> /\ rows'[j] = Gone
        /\ Found(rows', Q(s)') = {} /\ Q(s)'.op = "upsertOne"
    BY <1>1, <1>4, <1>5, <1>6, <1>7
  <2>2. Miss(s, j)'
    BY <2>1 DEF Miss
  <2>. QED  BY <1>1, <1>2, <2>1, <2>2 DEF OneRow
<1>. QED  BY <1>5, <1>8 DEF Progress

(* The next document of an Update or a Delete is written.                   *)
LEMMA PutManyProgress ==
    ASSUME Types, Shape, Unbounded, NEW s \in Sessions, Progress(s), Many(s), Put(s)
    PROVE  Progress(s)'
<1> DEFINE q == Q(s)
           w == Window(rows, q)
           c == count[s]
           l == docs[s]
           i == w[c + 1]
<1>1. /\ pc[s] = "put" /\ l # <<>> /\ l \in Seq(Ids \X Row)
      /\ View(s)' = [View(s) EXCEPT ![l[1][1]] = Written(s, l[1][2])]
      /\ docs'[s] = Tail(l)
      /\ pc'[s] = IF Len(l) > 1 THEN "put" ELSE AfterBatch(s)
      /\ rows' = rows /\ setup' = setup
  <2>1. /\ pc[s] = "put" /\ docs[s] # <<>>
        /\ View(s)' = [View(s) EXCEPT ![docs[s][1][1]] = Written(s, docs[s][1][2])]
        /\ docs' = [docs EXCEPT ![s] = Tail(docs[s])]
        /\ pc' = [pc EXCEPT ![s] = IF Len(docs[s]) > 1 THEN "put" ELSE AfterBatch(s)]
        /\ rows' = rows /\ setup' = setup
    BY PutFacts
  <2>2. docs'[s] = Tail(docs[s]) /\ docs[s] \in Seq(Ids \X Row)
    BY <2>1 DEF Types
  <2>3. pc'[s] = IF Len(docs[s]) > 1 THEN "put" ELSE AfterBatch(s)
    BY <2>1 DEF Types
  <2>. QED  BY <2>1, <2>2, <2>3
<1>2. /\ count'[s] = IF c < MaxCount THEN c + 1 ELSE c
      /\ limit' = limit /\ got' = got
      /\ ~(Len(l) > 1) => skip'[s] = 0
  BY DEF Put, Types
<1>3. Through(s) /\ AtPut(s)
  BY <1>1 DEF Progress, Inside
<1>4. /\ Len(w) \in Nat /\ Len(w) <= MaxCount /\ MaxCount \in Nat /\ c \in Nat /\ Len(l) \in Nat \ {0}
  <2>1. MaxCount \in Nat /\ count[s] \in 0..MaxCount
    BY BoundsAssumption DEF Types
  <2>2. Len(w) \in Nat /\ Len(w) <= Cardinality(Ids) /\ Cardinality(Ids) \in Nat
    BY WindowFacts
  <2>3. Len(l) \in Nat \ {0}
    BY <1>1
  <2> HIDE DEF w, l
  <2>. QED  BY <2>1, <2>2, <2>3 DEF Unbounded
<1>5. /\ c + Len(l) <= Len(w)
      /\ \A k \in 1..Len(l) : l[k] = <<w[c + k], rows[w[c + k]]>>
      /\ View(s) = [j \in Ids |-> IF \E k \in 1..c : w[k] = j THEN Made(s, rows[j]) ELSE rows[j]]
  BY <1>3 DEF Through
<1>6. /\ IF q.op = "delete" /\ got[s] = limit[s]
           THEN q.skip # 0 => c + Len(l) = q.limit
           ELSE c + Len(l) = Len(w)
  BY <1>1, <1>3 DEF AtPut
<1>7. q' = q /\ Inside(s)' /\ Many(s)'
  BY <1>1 DEF Q, Inside, Many, AfterBatch
<1>8. \A k \in 1..Len(w) : w[k] \in Ids /\ rows[w[k]] # Gone
  <2>1. \A k \in 1..Len(w) : w[k] \in Found(rows, q)
    BY WindowFacts
  <2>2. \A j \in Found(rows, q) : j \in Ids /\ rows[j] # Gone
    BY RowFacts DEF Found, Matches
  <2>. QED  BY <2>1, <2>2
<1>9. \A r \in Row : r # Gone => Written(s, r) = Made(s, r)
  BY DEF Written, Made, Many
<1>11. AfterBatch(s) = IF q.op = "delete" /\ got[s] = limit[s] THEN "find" ELSE "commit"
  BY DEF AfterBatch
<1>12. q.op = "update" => q.op # "delete"
  OBVIOUS
<1>13. Window(rows, q)' = w
  BY <1>1, <1>7
<1> HIDE DEF q, w, l, c
<1>14. c + 1 <= Len(w) /\ c < MaxCount /\ 1 \in 1..Len(l) /\ c + 1 \in 1..Len(w)
  <2>1. c + Len(l) <= Len(w)
    BY <1>5
  <2> DEFINE m == Len(l)
             n == Len(w)
  <2> HIDE DEF m, n
  <2>2. c + 1 <= n /\ c < MaxCount /\ 1 \in 1..m /\ c + 1 \in 1..n
    BY <1>4, <2>1 DEF m, n
  <2>. QED  BY <2>2 DEF m, n
<1>15. count'[s] = c + 1
  BY <1>2, <1>14
<1>16. i \in Ids /\ rows[i] \in Row /\ rows[i] # Gone /\ l[1] = <<i, rows[i]>>
  <2>1. i \in Ids /\ rows[i] # Gone
    BY <1>8, <1>14
  <2>. QED  BY <1>5, <1>14, <2>1 DEF Types
<1> HIDE DEF i
<1>17. View(s)' = [View(s) EXCEPT ![i] = Made(s, rows[i])]
  <2>1. l[1][1] = i /\ l[1][2] = rows[i]
    BY <1>16
  <2>2. Written(s, rows[i]) = Made(s, rows[i])
    BY <1>9, <1>16
  <2>. QED  BY <1>1, <2>1, <2>2
<1>18. View(s)' = [j \in Ids |-> IF \E k \in 1..(c + 1) : w[k] = j THEN Made(s, rows[j]) ELSE rows[j]]
  <2>1. \A k : k \in 1..(c + 1) <=> k \in 1..c \/ k = c + 1
    BY <1>4
  <2>2. \A j \in Ids : (\E k \in 1..(c + 1) : w[k] = j) <=> (\E k \in 1..c : w[k] = j) \/ j = i
    BY <2>1 DEF i
  <2>3. View(s)' = [j \in Ids |-> IF j = i THEN Made(s, rows[i]) ELSE View(s)[j]]
    BY <1>5, <1>17
  <2>4. \A j \in Ids : View(s)[j] = IF \E k \in 1..c : w[k] = j THEN Made(s, rows[j]) ELSE rows[j]
    BY <1>5
  <2> HIDE DEF View
  <2>. QED  BY <2>2, <2>3, <2>4
<1>19. /\ Len(Tail(l)) = Len(l) - 1 /\ Len(Tail(l)) \in Nat
       /\ \A k \in 1..Len(Tail(l)) : Tail(l)[k] = l[k + 1] /\ k + 1 \in 1..Len(l)
  BY <1>1
<1>20. /\ (c + 1) + Len(Tail(l)) = c + Len(l)
       /\ \A k \in 1..Len(Tail(l)) : c + (k + 1) = (c + 1) + k
       /\ Len(l) > 1 <=> Tail(l) # <<>>
  <2>1. Len(l) > 1 => Len(Tail(l)) # 0
    BY <1>4, <1>19
  <2>2. ~(Len(l) > 1) => Len(Tail(l)) = 0
    BY <1>4, <1>19
  <2>3. Tail(l) \in Seq(Ids \X Row)
    BY <1>1
  <2>4. Tail(l) = <<>> <=> Len(Tail(l)) = 0
    <3> DEFINE m == Tail(l)
    <3>1. m \in Seq(Ids \X Row)
      BY <2>3
    <3> HIDE DEF m
    <3>2. m = <<>> <=> Len(m) = 0
      BY <3>1
    <3>. QED  BY <3>2 DEF m
  <2>5. (c + 1) + Len(Tail(l)) = c + Len(l) /\ \A k \in 1..Len(Tail(l)) : c + (k + 1) = (c + 1) + k
    BY <1>4, <1>19
  <2>. QED  BY <2>1, <2>2, <2>4, <2>5
<1>21. \A k \in 1..Len(Tail(l)) : Tail(l)[k] = <<w[(c + 1) + k], rows[w[(c + 1) + k]]>>
  BY <1>5, <1>19, <1>20
<1>22. Through(s)'
  <2>1. (c + 1) + Len(Tail(l)) <= Len(w)
    BY <1>5, <1>20
  <2>2. Q(s)' = Q(s) /\ Window(rows', Q(s)') = w /\ rows' = rows
    BY <1>1, <1>7, <1>13 DEF q
  <2>3. View(s)' = [j \in Ids |-> IF \E k \in 1..count'[s] : w[k] = j
                                   THEN Made(s, rows[j])' ELSE rows'[j]]
    BY <1>15, <1>18, <2>2 DEF Made
  <2>4. /\ count'[s] + Len(docs'[s]) <= Len(w)
        /\ \A k \in 1..Len(docs'[s]) :
              docs'[s][k] = <<w[count'[s] + k], rows'[w[count'[s] + k]]>>
    BY <1>1, <1>15, <1>21, <2>1, <2>2
  <2>. QED  BY <2>2, <2>3, <2>4 DEF Through
<1>23. AtFind(s)' /\ AtPut(s)' /\ AtCommit(s)'
  <2>1. CASE Len(l) > 1
    <3>1. pc'[s] = "put" /\ docs'[s] = Tail(l)
      BY <1>1, <2>1
    <3>2. AtPut(s)'
      BY <1>2, <1>6, <1>7, <1>13, <1>15, <1>20, <3>1 DEF AtPut, q
    <3>. QED  BY <3>1, <3>2 DEF AtFind, AtCommit
  <2>2. CASE ~(Len(l) > 1)
    <3>1. docs'[s] = <<>> /\ pc'[s] = AfterBatch(s) /\ skip'[s] = 0
      BY <1>1, <1>2, <1>20, <2>2
    <3>2. c + Len(l) = c + 1 /\ c + 1 # 0
      BY <1>4, <2>2
    <3>3. CASE q.op = "delete" /\ got[s] = limit[s]
      <4>1. pc'[s] = "find" /\ (q.skip # 0 => c + 1 = q.limit)
        BY <1>6, <1>11, <3>1, <3>2, <3>3
      <4>2. AtFind(s)'
        BY <1>7, <1>15, <3>1, <3>2, <3>3, <4>1 DEF AtFind, q
      <4>. QED  BY <4>1, <4>2 DEF AtPut, AtCommit
    <3>4. CASE ~(q.op = "delete" /\ got[s] = limit[s])
      <4>1. pc'[s] = "commit" /\ c + 1 = Len(w)
        BY <1>6, <1>11, <3>1, <3>2, <3>4
      <4>2. AtCommit(s)'
        BY <1>7, <1>13, <1>15, <3>1, <4>1 DEF AtCommit, q
      <4>. QED  BY <4>1, <4>2 DEF AtPut, AtFind
    <3>. QED  BY <3>3, <3>4
  <2>. QED  BY <2>1, <2>2
<1>. QED  BY <1>7, <1>22, <1>23 DEF Progress

(* The one document of an UpdateOne or UpsertOne is written.                *)
LEMMA PutOneProgress ==
    ASSUME Types, Shape, Unbounded, NEW s \in Sessions, Progress(s), ~Many(s), Put(s)
    PROVE  Progress(s)'
<1>1. /\ pc[s] = "put" /\ rows' = rows /\ setup' = setup
      /\ DOMAIN buf'[s] = DOMAIN buf[s] \cup {docs[s][1][1]}
      /\ buf'[s][docs[s][1][1]] = Written(s, docs[s][1][2])
      /\ docs'[s] = Tail(docs[s])
      /\ pc'[s] = IF Len(docs[s]) > 1 THEN "put" ELSE AfterBatch(s)
  <2>1. /\ pc[s] = "put" /\ rows' = rows /\ setup' = setup
        /\ DOMAIN buf'[s] = DOMAIN buf[s] \cup {docs[s][1][1]}
        /\ buf'[s][docs[s][1][1]] = Written(s, docs[s][1][2])
        /\ docs' = [docs EXCEPT ![s] = Tail(docs[s])]
        /\ pc' = [pc EXCEPT ![s] = IF Len(docs[s]) > 1 THEN "put" ELSE AfterBatch(s)]
    BY PutFacts
  <2>2. docs'[s] = Tail(docs[s])
    BY <2>1 DEF Types
  <2>3. pc'[s] = IF Len(docs[s]) > 1 THEN "put" ELSE AfterBatch(s)
    BY <2>1 DEF Types
  <2>. QED  BY <2>1, <2>2, <2>3
<1>2. count'[s] = (IF count[s] < MaxCount THEN count[s] + 1 ELSE count[s]) /\ tmpl' = tmpl
  BY DEF Put, Types
<1>3. count[s] = 0 /\ buf[s] = <<>>
  BY <1>1 DEF Progress, Inside, OneRow
<1>4. PICK i \in Ids : docs[s] = <<<<i, rows[i]>>>> /\ (Hit(s, i) \/ Miss(s, i))
  BY <1>1 DEF Progress, Inside, OneRow
<1>5. Q(s)' = Q(s) /\ (Many(s)' <=> Many(s))
  BY <1>1 DEF Q, Many
<1>6. Q(s).op # "delete" /\ Q(s).op # "update"
  BY DEF Many
<1>7. /\ docs'[s] = <<>> /\ pc'[s] = "commit" /\ DOMAIN buf'[s] = {i}
      /\ buf'[s][i] = Written(s, rows[i])
  BY <1>1, <1>3, <1>4, <1>6, EmptyBuf DEF AfterBatch
<1>8. count'[s] = 1
  <2>1. Cardinality(Ids) \in Nat /\ Cardinality(Ids) # 0
    BY <1>4, IdsAssumption, FS_CardinalityType, FS_EmptySet
  <2>2. 0 < MaxCount
    BY <2>1, BoundsAssumption DEF Unbounded
  <2>. QED  BY <1>2, <1>3, <2>2
<1>9. (Hit(s, i)' <=> Hit(s, i)) /\ (Miss(s, i)' <=> Miss(s, i))
  BY <1>1, <1>2, <1>5 DEF Hit, Miss
<1>10. Written(s, rows[i]) = IF rows[i] = Gone THEN Created(Q(s)) ELSE Applied(rows[i], Q(s))
  BY <1>6 DEF Written
<1>11. \/ Hit(s, i) /\ buf'[s][i] = Applied(rows[i], Q(s))
       \/ Miss(s, i) /\ buf'[s][i] = Created(Q(s))
  BY <1>4, <1>7, <1>10 DEF Hit, Miss
<1>12. OneRow(s)'
  BY <1>1, <1>5, <1>7, <1>8, <1>9, <1>11 DEF OneRow
<1>. QED  BY <1>5, <1>7, <1>12 DEF Progress, Inside

(* No step of a session disturbs its progress.                              *)
LEMMA OwnProgress ==
    ASSUME Types, Shape, NewIds, Unbounded, NEW s \in Sessions, Progress(s),
           Enter(s) \/ Step(s) \/ Fail(s)
    PROVE  Progress(s)'
<1>1. CASE Enter(s)
  BY <1>1 DEF Enter, GoTo, Types, Progress, Inside, local
<1>2. ASSUME NEW a, Return(s, a) PROVE Progress(s)'
  BY <1>2 DEF Return, GoTo, Types, Progress, Inside
<1>3. CASE FindRefuses(s) \/ PutRefused(s) \/ DeadlockVictim(s) \/ Fail(s)
  BY <1>2, <1>3 DEF FindRefuses, PutRefused, DeadlockVictim, Fail, Rollback
<1>4. CASE Commit(s)
  BY <1>2, <1>4 DEF Commit
<1>5. CASE Put(s)
  BY <1>5, PutManyProgress, PutOneProgress
<1>6. CASE ReadChunk(s)
  BY <1>6, ChunkProgress DEF Unbounded
<1>. QED  BY <1>1, <1>3, <1>4, <1>5, <1>6, BeginProgress, DrainProgress, FindOneProgress,
             FindNoneProgress DEF Step

LEMMA StepRefInv ==
    ASSUME Unbounded
    PROVE  QueryInv /\ RefInv /\ [Next]_vars => RefInv'
<1> SUFFICES ASSUME QueryInv, RefInv, [Next]_vars PROVE RefInv'
  OBVIOUS
<1>1. Types /\ Shape /\ Solitary /\ Answers
  BY DEF QueryInv, RefInv
<1>2. ASSUME NEW s \in Sessions, Enter(s) \/ Step(s) \/ Fail(s) PROVE RefInv'
  <2>1. Answers'
    BY <1>1, <1>2, AnswersKept
  <2>2. setup' = setup
    BY <1>1, <1>2, Kinds DEF Enter, Begin, Searches, FindNone, Put, Aborts, Rollback, Commit
  <2>3. ASSUME SQLite PROVE NewIds' /\ \A t \in Sessions : Progress(t)'
    <3>1. NewIds /\ \A t \in Sessions : Progress(t)
      BY <2>3 DEF RefInv
    <3>2. NewIds'
      BY <1>1, <1>2, <2>3, <3>1, NewIdsKept
    <3>3. Progress(s)'
      BY <1>1, <1>2, <3>1, OwnProgress
    <3>4. ASSUME NEW t \in Sessions, t # s PROVE Progress(t)'
      BY <1>1, <1>2, <2>3, <3>1, <3>4, OthersProgress
    <3>. QED  BY <3>2, <3>3, <3>4
  <2>4. SQLite' <=> SQLite
    BY <2>2 DEF SQLite
  <2>. QED  BY <2>1, <2>3, <2>4 DEF RefInv
<1>3. CASE UNCHANGED vars
  <2>1. UNCHANGED <<setup, rows, fresh, pc, tmpl, buf, docs, count, skip, limit, got, answer>>
    BY <1>3 DEF vars, local, chunk
  <2>2. Answers' /\ (SQLite' <=> SQLite) /\ (NewIds => NewIds')
    BY <1>1, <2>1 DEF Answers, SQLite, NewIds, Owed
  <2>3. ASSUME NEW t \in Sessions, Progress(t) PROVE Progress(t)'
    BY <2>1, <2>3, ProgressFrame
  <2>. QED  BY <2>2, <2>3 DEF RefInv
<1>. QED  BY <1>2, <1>3 DEF Next

LEMMA InitRefInv == Init => RefInv
<1> SUFFICES ASSUME Init PROVE RefInv
  OBVIOUS
<1>1. Answers
  BY DEF Init, Answers, Answer, Atomic!NoAnswer
<1>2. \A s \in Sessions : Progress(s)
  BY DEF Init, Progress, Inside
<1>3. NewIds
  <2>1. \A s \in Sessions : tmpl[s] = NoId /\ DOMAIN buf[s] = {} /\ DOMAIN docs[s] = {}
    BY EmptyBuf DEF Init
  <2>2. \A i \in fresh : i \in Ids /\ rows[i] = Gone
    BY DEF Init
  <2>. QED  BY <2>1, <2>2, BoundsAssumption DEF NewIds
<1>. QED  BY <1>1, <1>2, <1>3 DEF RefInv

-----------------------------------------------------------------------------
(* AtomicWrites speaks of queries with its own copies of the same operators. *)
LEMMA SameOrder == \A S : Atomic!Ascending(S) = Ascending(S) /\ Atomic!Reverse(S) = Reverse(S)
<1>1. \A S : Atomic!Ascending(S) = Ascending(S)
  BY DEF Atomic!Cardinality, Cardinality, Atomic!Ascending, Ascending, Atomic!Below, Below
<1>2. \A S : Atomic!Reverse(S) = Reverse(S)
  BY DEF Atomic!Reverse, Reverse
<1>. QED  BY <1>1, <1>2

LEMMA SameQueries ==
    /\ \A now, q : Atomic!Found(now, q) = Found(now, q) /\ Atomic!Window(now, q) = Window(now, q)
    /\ \A r, q : Atomic!Applied(r, q) = Applied(r, q) /\ Atomic!Deleted(r, q) = Deleted(r, q)
    /\ \A q : Atomic!Created(q) = Created(q)
    /\ \A w, i : Atomic!Contains(w, i) <=> Contains(w, i)
    /\ Atomic!Gone = Gone /\ Atomic!NoCall = NoCall /\ Atomic!Row = Row
<1>1. \A now, q : Atomic!Found(now, q) = Found(now, q)
  BY DEF Atomic!Found, Found, Atomic!Matches, Matches
<1>2. \A now, q : Atomic!Window(now, q) = Window(now, q)
  BY <1>1, SameOrder DEF Atomic!Window, Window, Atomic!Select, Select
<1>3. Atomic!Gone = Gone /\ Atomic!NoCall = NoCall /\ Atomic!Row = Row
  BY DEF Atomic!Gone, Gone, Atomic!NoKey, NoKey, Atomic!NoCall, NoCall, Atomic!Row, Row
<1>4. \A r, q : Atomic!Applied(r, q) = Applied(r, q)
  BY DEF Atomic!Applied, Applied, Atomic!NoKey, NoKey
<1>5. \A r, q : Atomic!Deleted(r, q) = Deleted(r, q)
  BY <1>3 DEF Atomic!Deleted, Deleted
<1>6. \A q : Atomic!Created(q) = Created(q)
  BY <1>4 DEF Atomic!Created, Created
<1>7. \A w, i : Atomic!Contains(w, i) <=> Contains(w, i)
  BY DEF Atomic!Contains, Contains
<1>. QED  BY <1>1, <1>2, <1>3, <1>4, <1>5, <1>6, <1>7

(* What a caller waits for changes when its call begins and when it ends.   *)
LEMMA PendingFacts ==
    ASSUME Types, NEW s \in Sessions, setup' = setup,
           \A t \in Sessions : t # s => pc'[t] = pc[t]
    PROVE  /\ Pending[s] = IF pc[s] = "idle" THEN NoCall ELSE Q(s)
           /\ Pending' = [Pending EXCEPT ![s] = IF pc'[s] = "idle" THEN NoCall ELSE Q(s)]
BY DEF Pending, Q

(* The commit of an Update or a Delete is the atomic one.                   *)
LEMMA CommitMany ==
    ASSUME Types, NEW s \in Sessions, Progress(s), Many(s), Commit(s),
           Pending[s] = Q(s), Pending' = [Pending EXCEPT ![s] = NoCall]
    PROVE  Atomic!Update(s) \/ Atomic!Delete(s)
<1> DEFINE w == Window(rows, Q(s))
<1>1. /\ pc[s] = "commit" /\ rows' = View(s) /\ answer' = [answer EXCEPT ![s] = Result(s)]
  BY DEF Commit, Return
<1>2. Through(s) /\ count[s] = Len(w)
  BY <1>1 DEF Progress, Inside, AtCommit
<1>3. rows' = [i \in Ids |-> IF \E k \in 1..Len(w) : w[k] = i THEN Made(s, rows[i]) ELSE rows[i]]
  BY <1>1, <1>2 DEF Through
<1>4. Result(s) = Atomic!Affected(Len(w))
  BY <1>2 DEF Result, Many
<1>5. Atomic!Window(rows, Pending[s]) = w
  BY SameQueries
<1> HIDE DEF w
<1>6. \A i : Atomic!Contains(w, i) <=> \E k \in 1..Len(w) : w[k] = i
  BY SameQueries DEF Contains
<1>7. Atomic!Return(s, Atomic!Affected(Len(w)))
  BY <1>1, <1>4, SameQueries DEF Atomic!Return
<1>8. CASE Q(s).op = "update"
  <2>1. rows' = [i \in Ids |-> IF Atomic!Contains(w, i) THEN Atomic!Applied(rows[i], Pending[s])
                                                         ELSE rows[i]]
    BY <1>3, <1>6, <1>8, SameQueries DEF Made
  <2>. QED  BY <1>5, <1>7, <1>8, <2>1 DEF Atomic!Update, Atomic!OnWindow
<1>9. CASE Q(s).op = "delete"
  <2>1. rows' = [i \in Ids |-> IF Atomic!Contains(w, i) THEN Atomic!Deleted(rows[i], Pending[s])
                                                         ELSE rows[i]]
    BY <1>3, <1>6, <1>9, SameQueries DEF Made
  <2>. QED  BY <1>5, <1>7, <1>9, <2>1 DEF Atomic!Delete, Atomic!OnWindow
<1>. QED  BY <1>8, <1>9 DEF Many

(* So is that of an UpdateOne or an UpsertOne, a hit or a miss.             *)
LEMMA CommitOne ==
    ASSUME Types, NewIds, NEW s \in Sessions, Progress(s), ~Many(s), Q(s).op # "none", Commit(s),
           Pending[s] = Q(s), Pending' = [Pending EXCEPT ![s] = NoCall]
    PROVE  Atomic!Modify(s) \/ Atomic!Create(s)
<1>1. /\ pc[s] = "commit" /\ rows' = View(s) /\ answer' = [answer EXCEPT ![s] = Result(s)]
  BY DEF Commit, Return
<1>2. count[s] = 1
  BY <1>1 DEF Progress, Inside, OneRow
<1>3. PICK i \in Ids :
        /\ DOMAIN buf[s] = {i}
        /\ \/ Hit(s, i) /\ buf[s][i] = Applied(rows[i], Q(s))
           \/ Miss(s, i) /\ buf[s][i] = Created(Q(s))
  BY <1>1 DEF Progress, Inside, OneRow
<1>4. rows' = [rows EXCEPT ![i] = buf[s][i]]
  BY <1>1, <1>3 DEF View, Types
<1>5. Q(s).op \in {"updateOne", "upsertOne"}
  <2>1. Q(s).op \in {"none", "update", "delete", "updateOne", "upsertOne"}
    BY SetupType DEF Call
  <2>. QED  BY <2>1 DEF Many
<1>6. CASE Hit(s, i) /\ buf[s][i] = Applied(rows[i], Q(s))
  <2>1. tmpl[s] # i
    BY <1>1, <1>6, BoundsAssumption DEF Hit, NewIds, Owed
  <2>2. Result(s) = Atomic!Affected(1)
    BY <1>2, <1>3, <2>1 DEF Result
  <2>3. Atomic!Return(s, Atomic!Affected(1))
    BY <1>1, <2>2, SameQueries DEF Atomic!Return
  <2>4. Atomic!Found(rows, Pending[s]) = {i}
    BY <1>6, SameQueries DEF Hit
  <2>5. rows' = [rows EXCEPT ![i] = Atomic!Applied(rows[i], Pending[s])]
    BY <1>4, <1>6, SameQueries
  <2>. QED  BY <1>5, <2>3, <2>4, <2>5 DEF Atomic!Modify
<1>7. CASE Miss(s, i) /\ buf[s][i] = Created(Q(s))
  <2>1. Result(s) = Atomic!Inserted
    BY <1>3, <1>7 DEF Result, Miss
  <2>2. Atomic!Return(s, Atomic!Inserted)
    BY <1>1, <2>1, SameQueries DEF Atomic!Return
  <2>3. Atomic!Found(rows, Pending[s]) = {} /\ rows[i] = Atomic!Gone /\ Q(s).op = "upsertOne"
    BY <1>7, SameQueries DEF Miss
  <2>4. rows' = [rows EXCEPT ![i] = Atomic!Created(Pending[s])]
    BY <1>4, <1>7, SameQueries
  <2>. QED  BY <2>2, <2>3, <2>4 DEF Atomic!Create
<1>. QED  BY <1>3, <1>6, <1>7

(* On SQLite every step is a step of AtomicWrites, or none.                 *)
LEMMA StepMaps ==
    ASSUME QueryInv, RefInv, SQLite, NEW s \in Sessions, Enter(s) \/ Step(s) \/ Fail(s)
    PROVE  Atomic!NextAtomic \/ UNCHANGED Atomic!avars
<1>1. Types /\ Shape /\ NewIds /\ Progress(s) /\ Answers
  BY DEF QueryInv, RefInv
<1>2. \A t \in Sessions : t # s => pc'[t] = pc[t]
  BY <1>1, OthersKept
<1>3. setup' = setup
  BY <1>1, Kinds DEF Enter, Begin, Searches, FindNone, Put, Aborts, Rollback, Commit
<1>4. /\ Pending[s] = IF pc[s] = "idle" THEN NoCall ELSE Q(s)
      /\ Pending' = [Pending EXCEPT ![s] = IF pc'[s] = "idle" THEN NoCall ELSE Q(s)]
  BY <1>1, <1>2, <1>3, PendingFacts
<1>5. pc[s] # "idle" => Q(s).op # "none"
  BY <1>1 DEF Shape
<1>6. NoCall.op = "none"
  BY DEF NoCall
<1>7. CASE Enter(s)
  <2>1. /\ pc[s] = "idle" /\ Q(s).op # "none" /\ pc'[s] = "begin"
        /\ answer' = [answer EXCEPT ![s] = Atomic!NoAnswer] /\ rows' = rows
    BY <1>1, <1>7 DEF Enter, GoTo, Types
  <2>2. Q(s) \in Requests
    <3>1. Q(s) # NoCall
      BY <1>6, <2>1
    <3>2. setup \in Setups /\ Q(s) \in {setup.call[t] : t \in Sessions}
      BY <1>1 DEF Types, Q
    <3>. QED  BY <3>1, <3>2 DEF Requests
  <2>3. Pending[s] = Atomic!NoCall /\ Pending' = [Pending EXCEPT ![s] = Q(s)]
    BY <1>4, <2>1, SameQueries
  <2>4. Atomic!Ask(s)
    BY <2>1, <2>2, <2>3 DEF Atomic!Ask
  <2>. QED  BY <2>4 DEF Atomic!NextAtomic
<1>8. CASE Begin(s) \/ Searches(s) \/ FindNone(s) \/ Put(s)
  <2>1. /\ pc[s] # "idle" /\ pc'[s] # "idle" /\ rows' = rows /\ answer' = answer
    <3>1. CASE Begin(s) \/ FindNone(s)
      BY <1>1, <3>1 DEF Begin, FindNone, GoTo, Types
    <3>2. CASE Searches(s)
      BY <1>1, <3>2 DEF Searches, GoTo, Types
    <3>3. CASE Put(s)
      BY <1>1, <3>3 DEF Put, GoTo, AfterBatch, Types
    <3>. QED  BY <1>8, <3>1, <3>2, <3>3
  <2>2. Pending' = Pending
    <3>1. Pending' = [Pending EXCEPT ![s] = Pending[s]]
      BY <1>4, <2>1
    <3>. QED  BY <3>1 DEF Pending
  <2>. QED  BY <2>1, <2>2 DEF Atomic!avars
<1>9. CASE Aborts(s)
  <2>1. /\ pc[s] # "idle" /\ pc'[s] = "idle" /\ rows' = rows
        /\ answer' = [answer EXCEPT ![s] = Atomic!Refusal]
    BY <1>1, <1>9 DEF Aborts, Rollback, Return, GoTo, Types
  <2>2. Pending[s] # Atomic!NoCall /\ Pending' = [Pending EXCEPT ![s] = Atomic!NoCall]
    BY <1>4, <1>5, <1>6, <2>1, SameQueries
  <2>3. Atomic!Refuse(s)
    BY <2>1, <2>2 DEF Atomic!Refuse, Atomic!Return
  <2>. QED  BY <2>3 DEF Atomic!NextAtomic
<1>10. CASE Commit(s)
  <2>1. pc[s] # "idle" /\ pc'[s] = "idle"
    BY <1>1, <1>10 DEF Commit, Return, GoTo, Types
  <2>2. Pending[s] = Q(s) /\ Pending' = [Pending EXCEPT ![s] = NoCall] /\ Q(s).op # "none"
    BY <1>4, <1>5, <2>1
  <2>3. Atomic!Update(s) \/ Atomic!Delete(s) \/ Atomic!Modify(s) \/ Atomic!Create(s)
    BY <1>1, <1>10, <2>2, CommitMany, CommitOne
  <2>. QED  BY <2>3 DEF Atomic!NextAtomic
<1>. QED  BY <1>1, Kinds, <1>7, <1>8, <1>9, <1>10

(* QueryWrites implements AtomicWrites on SQLite (AtomicOnSQLite): Update and
   Delete, in as many chunks as they take, act on exactly the rows All would
   return at the commit and return their number; UpdateOne and UpsertOne act
   on the one row that matches then or on a new one; an error has changed
   nothing.                                                                 *)
THEOREM SQLiteIsAtomic ==
    ASSUME Unbounded
    PROVE  Spec => AtomicOnSQLite
<1>1. Init => QueryInv /\ RefInv /\ Atomic!InitAtomic
  <2>1. Init => QueryInv /\ RefInv
    BY InitInv, InitRefInv
  <2>2. ASSUME Init PROVE Atomic!InitAtomic
    <3>1. Types
      BY <2>1, <2>2 DEF QueryInv
    <3>2. rows \in [Ids -> Atomic!Row]
      BY <3>1, SameQueries DEF Types
    <3>3. Pending = [c \in Sessions |-> Atomic!NoCall]
      BY <2>2, SameQueries DEF Pending, Init
    <3>4. answer = [c \in Sessions |-> Atomic!NoAnswer]
      BY <2>2 DEF Init
    <3>. QED  BY <3>2, <3>3, <3>4 DEF Atomic!InitAtomic
  <2>. QED  BY <2>1, <2>2
<1>2. QueryInv /\ RefInv /\ [Next]_vars => (QueryInv /\ RefInv)'
  BY StepInv, StepRefInv
<1>3. QueryInv /\ RefInv /\ [Next]_vars => [SQLite => Atomic!NextAtomic]_(Atomic!avars)
  <2> SUFFICES ASSUME QueryInv, RefInv, [Next]_vars, SQLite
               PROVE  Atomic!NextAtomic \/ UNCHANGED Atomic!avars
    OBVIOUS
  <2>1. CASE UNCHANGED vars
    BY <2>1 DEF vars, Pending, Atomic!avars
  <2>2. CASE Next
    BY <2>2, StepMaps DEF Next
  <2>. QED  BY <2>1, <2>2
<1>. QED  BY <1>1, <1>2, <1>3, PTL DEF Spec, AtomicOnSQLite
=============================================================================
