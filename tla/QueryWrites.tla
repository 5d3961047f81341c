----------------------------- MODULE QueryWrites -----------------------------
(***************************************************************************)
(* The write terminals of a QuerySet, statement by statement: Update,      *)
(* Delete with its chunk loop, UpdateOne, UpsertOne and GetOrCreate (an    *)
(* upsert without fields).  Each runs in one transaction; the sessions are *)
(* goroutines of one or several processes.  A session repeats a call that  *)
(* failed, with the same defaults struct.                                  *)
(*                                                                         *)
(* The collection has no revisions: a revision check compares with what    *)
(* the same transaction has read, and what PostgreSQL lets happen between  *)
(* that and the write is Crud's subject.                                   *)
(***************************************************************************)
EXTENDS Selection

CONSTANTS
    Sessions,
    Nobody,     \* the holder of a free lock
    NoId,       \* the empty _id of a defaults struct
    ChunkSize,  \* deleteChunkSize
    MaxCount,   \* bound: count saturates here
    Setups      \* the situations explored

(* backend; unique: a unique index on the key; rows: what is stored; call:
   what each session calls; tries: bound on how often.                      *)
ASSUME SetupsAssumption ==
    Setups \subseteq [backend: {"sqlite", "postgres"}, unique: BOOLEAN,
                      rows: [Ids -> Row], call: [Sessions -> Call], tries: Nat]

(* The defaults of an upsert have some key, and what a unique index covers is
   unique to begin with.                                                    *)
ASSUME DefaultsAssumption ==
    \A u \in Setups, s \in Sessions :
        u.call[s].op = "upsertOne" => u.call[s].set # NoKey \/ u.call[s].new # NoKey
ASSUME UniqueAssumption ==
    \A u \in Setups : u.unique => \A i, j \in Ids :
        u.rows[i].key = u.rows[j].key /\ u.rows[i] # Gone => i = j
ASSUME BoundsAssumption ==
    /\ ChunkSize \in Nat \ {0} /\ MaxCount \in Nat
    /\ Nobody \notin Sessions /\ NoId \notin Ids

(* Deletes whose match set shrinks with every chunk and whose Skip ends with
   the first one: no soft delete under IncludeDeleted, no Skip over several
   chunks.                                                                  *)
TidyDeletes ==
    \A u \in Setups, s \in Sessions :
        LET q == u.call[s] IN
        q.op = "delete" => /\ q.soft /\ q.all => q.hard
                           /\ q.skip > 0 => q.limit \in 1..ChunkSize

(* Such deletes, and a count that does not saturate: what AtomicOnSQLite is
   about.                                                                   *)
Unbounded == TidyDeletes /\ Cardinality(Ids) <= MaxCount

VARIABLES
    setup,
    rows,    \* the committed rows
    lock,    \* lock[i]: the transaction that has the row's lock
    fresh,   \* ids NewID has not handed out
    pc,      \* where each session is inside its call ("idle": outside)
    tries,   \* how often it has called
    tmpl,    \* tmpl[s]: the _id in its defaults struct
    buf,     \* buf[s]: uncommitted rows, a function on the ids written
    docs,    \* documents read and still to be written: <<id, document>>
    count,   \* rows affected so far
    skip,    \* chunk.skipN
    limit,   \* chunk.limitN
    got,     \* how many rows the chunk had
    answer   \* what the last call returned

chunk == <<skip, limit, got>>
local == <<docs, count, chunk>>
vars  == <<setup, rows, lock, fresh, pc, tries, tmpl, buf, local, answer>>

SQLite  == setup.backend = "sqlite"
Q(s)    == setup.call[s]

(* What each session is waiting for, as its caller sees it.                 *)
Pending == [s \in Sessions |-> IF pc[s] = "idle" THEN NoCall ELSE setup.call[s]]

Requests == (UNION {{u.call[s] : s \in Sessions} : u \in Setups}) \ {NoCall}

Atomic == INSTANCE AtomicWrites WITH Clients <- Sessions, asked <- Pending

Init ==
    /\ setup \in Setups
    /\ rows = setup.rows
    /\ fresh = {i \in Ids : rows[i] = Gone}
    /\ lock = [i \in Ids |-> Nobody]
    /\ pc = [s \in Sessions |-> "idle"]
    /\ tries = [s \in Sessions |-> 0]
    /\ tmpl = [s \in Sessions |-> NoId]
    /\ buf = [s \in Sessions |-> <<>>]
    /\ docs = [s \in Sessions |-> <<>>]
    /\ count = [s \in Sessions |-> 0]
    /\ skip = [s \in Sessions |-> 0]
    /\ limit = [s \in Sessions |-> 0]
    /\ got = [s \in Sessions |-> 0]
    /\ answer = [s \in Sessions |-> Atomic!NoAnswer]

(* The types, and that Delete has no more than deleteChunkSize documents in
   memory, whatever the match set and the Limit.                            *)
TypeOK ==
    /\ rows \in [Ids -> Row]
    /\ lock \in [Ids -> Sessions \cup {Nobody}]
    /\ fresh \subseteq Ids
    /\ pc \in [Sessions -> {"idle", "begin", "find", "put", "commit"}]
    /\ tries \in [Sessions -> 0..setup.tries]
    /\ tmpl \in [Sessions -> Ids \cup {NoId}]
    /\ \A s \in Sessions :
        /\ DOMAIN buf[s] \subseteq Ids /\ Range(buf[s]) \subseteq Row
        /\ docs[s] \in Seq(Ids \X Row)
        /\ Q(s).op = "delete" => Len(docs[s]) <= ChunkSize
    /\ count \in [Sessions -> 0..MaxCount]
    /\ skip \in [Sessions -> Nat] /\ limit \in [Sessions -> Nat] /\ got \in [Sessions -> Nat]

-----------------------------------------------------------------------------
(* The databases.                                                           *)

(* A statement sees its transaction's writes, else the committed row.       *)
View(s) == [i \in Ids |-> IF i \in DOMAIN buf[s] THEN buf[s][i] ELSE rows[i]]

(* Mutant: BEGIN instead of BEGIN IMMEDIATE.                                *)
CanBeginDeferred(s) == TRUE

(* BEGIN IMMEDIATE waits for SQLite's only write lock.                      *)
CanBegin(s) == SQLite => \A t \in Sessions : pc[t] \in {"idle", "begin"}

(* The uncommitted versions, and else the committed ones, of the rows that
   have key k: what a unique index finds when i is given that key.          *)
Rivals(s, i, k) ==
    {j \in Ids \ {i} : rows[j].key = k
                       \/ \E t \in Sessions : j \in DOMAIN buf[t] /\ buf[t][j].key = k}

(* Whom a write of row i as r has to wait for: the transaction that holds the
   row's lock, and under a unique index any that is about to add or to remove
   the same key.                                                            *)
Blockers(s, i, r) ==
    {t \in Sessions \ {s} :
        \/ lock[i] = t
        \/ /\ setup.unique /\ r # Gone
           /\ \E j \in Rivals(s, i, r.key) : j \in DOMAIN buf[t]}

(* A unique index covers soft-deleted rows too.                             *)
Duplicate(s, i, r) ==
    setup.unique /\ r # Gone /\ \E j \in Ids \ {i} : View(s)[j].key = r.key

-----------------------------------------------------------------------------
GoTo(s, at) == pc' = [pc EXCEPT ![s] = at]

Return(s, a) ==
    /\ GoTo(s, "idle")
    /\ answer' = [answer EXCEPT ![s] = a]
    /\ lock' = [i \in Ids |-> IF lock[i] = s THEN Nobody ELSE lock[i]]
    /\ buf' = [buf EXCEPT ![s] = <<>>]
    /\ docs' = [docs EXCEPT ![s] = <<>>]
    /\ count' = [count EXCEPT ![s] = 0]
    /\ skip' = [skip EXCEPT ![s] = 0]
    /\ limit' = [limit EXCEPT ![s] = 0]
    /\ got' = [got EXCEPT ![s] = 0]

(* RunInTransaction rolls back when the body fails; the defaults struct keeps
   what the insert path has put into it.                                    *)
Rollback(s) ==
    /\ Return(s, Atomic!Refusal)
    /\ UNCHANGED <<setup, rows, fresh, tries, tmpl>>

Enter(s) ==
    /\ pc[s] = "idle"
    /\ Q(s).op # "none"
    /\ answer[s].what \in {"none", "error"}
    /\ tries[s] < setup.tries
    /\ tries' = [tries EXCEPT ![s] = @ + 1]
    /\ answer' = [answer EXCEPT ![s] = Atomic!NoAnswer]
    /\ GoTo(s, "begin")
    /\ UNCHANGED <<setup, rows, lock, fresh, tmpl, buf, local>>

(* RunInTransaction; the chunk query starts as the QuerySet's own.          *)
Begin(s) ==
    /\ pc[s] = "begin"
    /\ CanBegin(s)
    /\ GoTo(s, "find")
    /\ skip' = [skip EXCEPT ![s] = Q(s).skip]
    /\ UNCHANGED <<setup, rows, lock, fresh, tries, tmpl, buf, docs, count, limit, got, answer>>

(* Documents as they were read, in the order of the query.                  *)
Read(s, n, m) ==
    LET found == Select(View(s), Q(s), n, m) IN
    [k \in 1..Len(found) |-> <<found[k], View(s)[found[k]]>>]

(* Update drains its one query before it writes.                            *)
DrainUpdate(s) ==
    LET found == Read(s, Q(s).limit, Q(s).skip) IN
    /\ pc[s] = "find" /\ Q(s).op = "update"
    /\ docs' = [docs EXCEPT ![s] = found]
    /\ GoTo(s, IF found = <<>> THEN "commit" ELSE "put")
    /\ UNCHANGED <<setup, rows, lock, fresh, tries, tmpl, buf, count, chunk, answer>>

(* Mutant: Limit bounds each chunk, not the sum of them.                    *)
RemainingOfLimit(s) == Q(s).limit

(* What Limit still allows.                                                 *)
Remaining(s) == IF Q(s).limit > count[s] THEN Q(s).limit - count[s] ELSE 0

(* Mutant: a Limit larger than the chunk replaces it.                       *)
ChunkLimitOfQuery(s) == IF Q(s).limit > 0 THEN Remaining(s) ELSE ChunkSize

ChunkLimit(s) ==
    IF Q(s).limit > 0 /\ Remaining(s) < ChunkSize THEN Remaining(s) ELSE ChunkSize

LimitReached(s) == Q(s).limit > 0 /\ Remaining(s) = 0

(* Mutant: an empty chunk is asked for again.                               *)
ReadChunkUntilLimit(s) ==
    LET found == Read(s, ChunkLimit(s), skip[s]) IN
    /\ pc[s] = "find" /\ Q(s).op = "delete"
    /\ limit' = [limit EXCEPT ![s] = ChunkLimit(s)]
    /\ docs' = [docs EXCEPT ![s] = found]
    /\ got' = [got EXCEPT ![s] = Len(found)]
    /\ GoTo(s, IF LimitReached(s) THEN "commit" ELSE IF found = <<>> THEN "find" ELSE "put")
    /\ UNCHANGED <<setup, rows, lock, fresh, tries, tmpl, buf, count, skip, answer>>

(* One chunk of Delete is drained before anything is written; the loop is
   over when the Limit is used up or the chunk is empty.                    *)
ReadChunk(s) ==
    LET found == IF LimitReached(s) THEN <<>> ELSE Read(s, ChunkLimit(s), skip[s]) IN
    /\ pc[s] = "find" /\ Q(s).op = "delete"
    /\ limit' = [limit EXCEPT ![s] = ChunkLimit(s)]
    /\ docs' = [docs EXCEPT ![s] = found]
    /\ got' = [got EXCEPT ![s] = Len(found)]
    /\ GoTo(s, IF found = <<>> THEN "commit" ELSE "put")
    /\ UNCHANGED <<setup, rows, lock, fresh, tries, tmpl, buf, count, skip, answer>>

(* findOneStrict: LIMIT 2 over the conditions alone, to tell one match from
   several.                                                                 *)
Strict(s) == Read(s, 2, 0)

(* The hit of UpdateOne and UpsertOne.                                      *)
FindOne(s) ==
    /\ pc[s] = "find" /\ Q(s).op \in {"updateOne", "upsertOne"}
    /\ Len(Strict(s)) = 1
    /\ docs' = [docs EXCEPT ![s] = Strict(s)]
    /\ GoTo(s, "put")
    /\ UNCHANGED <<setup, rows, lock, fresh, tries, tmpl, buf, count, chunk, answer>>

(* The miss of UpsertOne: the fields and, unless it has one, a new ID are set
   on the caller's defaults, and stay there whatever becomes of the insert. *)
FindNone(s) ==
    LET i == IF tmpl[s] = NoId THEN Min(fresh) ELSE tmpl[s] IN
    /\ pc[s] = "find" /\ Q(s).op = "upsertOne"
    /\ Strict(s) = <<>>
    /\ tmpl[s] = NoId => fresh # {}   \* bound: the ids the model can draw
    /\ tmpl' = [tmpl EXCEPT ![s] = i]
    /\ fresh' = fresh \ {i}
    /\ docs' = [docs EXCEPT ![s] = <<<<i, Gone>>>>]
    /\ GoTo(s, "put")
    /\ UNCHANGED <<setup, rows, lock, tries, buf, count, chunk, answer>>

(* ErrNotFound of UpdateOne, ErrMultipleMatches.                            *)
FindRefuses(s) ==
    /\ pc[s] = "find" /\ Q(s).op \in {"updateOne", "upsertOne"}
    /\ Len(Strict(s)) # 1 /\ (Q(s).op = "upsertOne" => Strict(s) # <<>>)
    /\ Rollback(s)

(* What is written for a document that was read as r.                       *)
Written(s, r) ==
    CASE Q(s).op = "delete" -> Deleted(r, Q(s))
      [] r = Gone           -> Created(Q(s))
      [] OTHER              -> Applied(r, Q(s))

(* After the last document of a batch.  Skip is for the first chunk only, and
   a short chunk is the last one.                                           *)
AfterBatch(s) ==
    IF Q(s).op = "delete" /\ got[s] = limit[s] THEN "find" ELSE "commit"

(* One document: its hooks, and the Put (an upsert, whatever has become of
   the row since it was read) or the DELETE.                                *)
Put(s) ==
    LET i == Head(docs[s])[1]
        r == Written(s, Head(docs[s])[2])
    IN
    /\ pc[s] = "put"
    /\ Blockers(s, i, r) = {}
    /\ ~Duplicate(s, i, r)
    /\ buf' = [buf EXCEPT ![s] = [j \in DOMAIN @ \cup {i} |-> IF j = i THEN r ELSE @[j]]]
    /\ lock' = [lock EXCEPT ![i] = s]
    /\ count' = [count EXCEPT ![s] = IF @ < MaxCount THEN @ + 1 ELSE @]
    /\ docs' = [docs EXCEPT ![s] = Tail(@)]
    /\ IF Len(docs[s]) > 1
         THEN UNCHANGED <<pc, skip>>
         ELSE GoTo(s, AfterBatch(s)) /\ skip' = [skip EXCEPT ![s] = 0]
    /\ UNCHANGED <<setup, rows, fresh, tries, tmpl, limit, got, answer>>

(* ErrDuplicate, once no transaction that could change the verdict is open. *)
PutRefused(s) ==
    LET i == Head(docs[s])[1]
        r == Written(s, Head(docs[s])[2])
    IN
    /\ pc[s] = "put"
    /\ Blockers(s, i, r) = {}
    /\ Duplicate(s, i, r)
    /\ Rollback(s)

WaitsFor(s, t) ==
    /\ pc[s] = "put"
    /\ t \in Blockers(s, Head(docs[s])[1], Written(s, Head(docs[s])[2]))

(* PostgreSQL ends a circle of waiting transactions by failing one.         *)
DeadlockVictim(s) ==
    /\ \E C \in SUBSET Sessions :
        /\ s \in C
        /\ \A t \in C : (\E u \in C : WaitsFor(t, u)) /\ (\E u \in C : WaitsFor(u, t))
    /\ Rollback(s)

(* A cancelled context, a hook, validation or the connection.               *)
Fail(s) ==
    /\ pc[s] \in {"begin", "find", "put", "commit"}
    /\ Rollback(s)

(* Two results: a document and whether it was inserted, or a count.         *)
Result(s) ==
    IF Q(s).op = "upsertOne" /\ tmpl[s] \in DOMAIN buf[s] THEN Atomic!Inserted
    ELSE Atomic!Affected(count[s])

Commit(s) ==
    /\ pc[s] = "commit"
    /\ rows' = View(s)
    /\ Return(s, Result(s))
    /\ UNCHANGED <<setup, fresh, tries, tmpl>>

Step(s) == \/ Begin(s) \/ DrainUpdate(s) \/ ReadChunk(s)
           \/ FindOne(s) \/ FindNone(s) \/ FindRefuses(s)
           \/ Put(s) \/ PutRefused(s) \/ DeadlockVictim(s)
           \/ Commit(s)

Next == \E s \in Sessions : Enter(s) \/ Step(s) \/ Fail(s)

Spec == Init /\ [][Next]_vars

(* A call runs on, and a statement or a BEGIN whose lock is free again and
   again gets its turn; no error is counted on to end a call.               *)
FairSpec == Spec /\ \A s \in Sessions : SF_vars(Step(s))

-----------------------------------------------------------------------------
(* On SQLite every terminal is atomic: Update and Delete act on exactly the
   rows that All would have returned, however many chunks that takes, and
   return their number; UpdateOne and UpsertOne modify the row that matches
   at that moment or insert one where none does; a call that returns an error
   has changed nothing.  QueryWrites implements AtomicWrites.               *)
AtomicOnSQLite ==
    /\ SQLite => Atomic!InitAtomic
    /\ [][SQLite => Atomic!NextAtomic]_(Atomic!avars)

(* Every upsert of the setup looks for one key and creates or keeps it, and
   nothing else gives a document that key.                                  *)
Keyed(k) ==
    \A s \in Sessions :
        LET q == Q(s) IN
        \/ q.op \in {"none", "delete"}
        \/ /\ q.match = {k} => q.set \in {NoKey, k} /\ q.new \in {NoKey, k}
           /\ q.match # {k} => q.set # k /\ q.new # k /\ k \notin q.match

(* Upserts by key create no second document of that key, when two of them
   find none at the same time, or one is repeated after it failed: always on
   SQLite; on PostgreSQL under a unique index, as the comment of UpsertOne
   says.                                                                    *)
OneDocumentPerKey ==
    SQLite \/ setup.unique =>
        \A k \in Keys :
            Keyed(k) /\ Cardinality({i \in Ids : setup.rows[i] = [st |-> "live", key |-> k]}) <= 1
                => Cardinality({i \in Ids : rows[i] = [st |-> "live", key |-> k]}) <= 1

(* Every call returns: the chunk loop ends, and transactions that write rows
   in different orders do not wait for each other for ever.                 *)
EveryCallReturns == \A s \in Sessions : pc[s] # "idle" ~> pc[s] = "idle"
=============================================================================
