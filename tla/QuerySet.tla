------------------------------ MODULE QuerySet ------------------------------
(* A QuerySet: the query an application builds with chain methods, and the
   pages it reads with All or AllWithCount while other clients write.

   The collection embeds document.SoftDelete.  Each terminal call is one
   statement on the committed rows, except AllWithCount, which is two.  Row
   locks (ForUpdate) belong to module Crud, link hydration to module Links.  *)
EXTENDS Conditions, FiniteSets

CONSTANT Setups     \* the situations a behaviour may start in

VARIABLES
    setup,          \* backend, conditions, documents, ids and page order of this behaviour
    qs,             \* the QuerySet: its conditions and modifiers
    table,          \* the committed rows: id -> document
    walk,           \* the page walk: its phase, the ids read so far and the count read
    stable          \* the ids that have matched at every moment of the walk

vars == <<setup, qs, table, walk, stable>>

NoDoc == [x |-> Absent, y |-> Absent, n |-> Absent, tags |-> {Absent}, attrs |-> {Absent},
          deleted |-> 2]
NoSort == [field |-> "", dir |-> "asc"]

(***************************************************************************)
(* Queries                                                                 *)
(***************************************************************************)

NewQuery == [conds |-> <<>>, includeDeleted |-> FALSE, sort |-> NoSort,
             limit |-> 0, skip |-> 0, after |-> 0, before |-> 0]

(* The conditions of the application and, unless it asked for deleted
   documents too, the one that hides them.                                  *)
allConditions(q) ==
    q.conds \o (IF q.includeDeleted THEN <<>> ELSE <<FieldCond("deleted", "IsNil", <<>>)>>)

buildBackendQuery(q) == [q EXCEPT !.conds = allConditions(q)]

preflight(q) == ~(q.skip > 0 /\ (q.after # 0 \/ q.before # 0))

WhereOf(backend, q) ==
    IF backend = "sqlite" THEN SQLite_Where(buildBackendQuery(q))
                          ELSE PG_Where(buildBackendQuery(q))

(* The statement of Search; x is the field with the fts tag.                *)
SearchOf(backend, term, q) ==
    IF backend = "sqlite" THEN SQLite_buildFTSSearchSQL(term, buildBackendQuery(q))
                          ELSE PG_buildFTSSearchSQL(term, buildBackendQuery(q))

(* A statement the database cannot parse fails whatever the rows.           *)
Rejected(backend, q) == Answer(WhereOf(backend, q), 1, NoDoc) = "E"

Matching(q, rows) ==
    LET w == WhereOf(setup.backend, q)
    IN  {i \in DOMAIN rows : rows[i] # NoDoc /\ Answer(w, i, rows[i]) = "T"}

Count(q, rows) == Cardinality(Matching(q, rows))

(* ORDER BY puts SQL NULL first on SQLite and last on PostgreSQL, where an
   explicit null is a value below all others.                               *)
SortKey(q, i, rows) ==
    LET v == rows[i][q.sort.field]
    IN  CASE q.sort.field = "_id"        -> i
          [] setup.backend = "sqlite"    -> IF v = JNull THEN SqlNull ELSE v
          [] OTHER                       -> IF v = Absent THEN 1000 ELSE v

(* Without ORDER BY, and among equal keys, the order is the database's.     *)
InOrder(s, q, rows) ==
    q.sort # NoSort =>
        \A a, b \in DOMAIN s : a < b =>
            IF q.sort.dir = "asc" THEN SortKey(q, s[a], rows) <= SortKey(q, s[b], rows)
                                  ELSE SortKey(q, s[a], rows) >= SortKey(q, s[b], rows)

Window(s, q) ==
    SubSeq(s, q.skip + 1, IF q.limit > 0 /\ q.skip + q.limit < Len(s) THEN q.skip + q.limit
                                                                      ELSE Len(s))

(* The results a SELECT may return.                                         *)
Select(q, rows) ==
    {Window(s, q) : s \in {t \in SetToSeqs(Matching(q, rows)) : InOrder(t, q, rows)}}

(* Mutant: PostgreSQL groups by the jsonb value, where null is a value.     *)
GroupKeyTyped(d, f) ==
    IF setup.backend = "sqlite" /\ d[f] = JNull THEN SqlNull ELSE d[f]

(* GROUP BY extracts its key as text on PostgreSQL: SQL NULL for an explicit
   null as for a missing field, like json_extract.                          *)
GroupKey(d, f) == IF d[f] = JNull THEN SqlNull ELSE d[f]

(* SUM skips NULL and is NULL when nothing is left.                         *)
SumOf(f, ids, rows) ==
    LET some == {i \in ids : GroupKey(rows[i], f) # SqlNull}
    IN  IF some = {} THEN SqlNull ELSE MapThenSumSet(LAMBDA i : rows[i][f], some)

GroupRow(k, f, g, q, rows) ==
    LET ids == {i \in Matching(q, rows) : GroupKey(rows[i], f) = k}
    IN  [key |-> k, count |-> Cardinality(ids), sum |-> SumOf(g, ids, rows)]

(* The rows of GroupBy(f).Into with a count and the sum of the numeric field
   g.  A NULL key is scanned as the empty string, a NULL aggregate as 0.    *)
Scanned(r) == [key   |-> IF r.key = SqlNull THEN Empty ELSE r.key,
               count |-> r.count,
               sum   |-> IF r.sum = SqlNull THEN 0 ELSE r.sum]

GroupByInto(f, g, q, rows) ==
    LET keys == {GroupKey(rows[i], f) : i \in Matching(q, rows)}
    IN  {Window([n \in DOMAIN s |-> Scanned(GroupRow(s[n], f, g, q, rows))], q) :
            s \in SetToSeqs(keys)}

(***************************************************************************)
(* Building the query: chain methods return a copy                         *)
(***************************************************************************)

Building == walk.phase = "build"

RECURSIVE Leaves(_)
Leaves(c) ==
    IF c.subs = <<>> THEN 1
    ELSE FoldLeft(LAMBDA n, s : n + Leaves(s), 0, c.subs)

QueryLeaves == FoldLeft(LAMBDA n, c : n + Leaves(c), 0, qs.conds)

Chain(q) == Building /\ qs' = q /\ UNCHANGED <<setup, table, walk, stable>>

(* Bound: setup.maxLeaves field conditions in one query.                    *)
Where(c) ==
    /\ QueryLeaves < setup.maxLeaves
    /\ Chain([qs EXCEPT !.conds = Append(qs.conds, c)])

(* The application wraps its last condition with where.And, where.Or or
   where.Not before it passes it on.                                        *)
Wrap(f(_)) ==
    /\ qs.conds # <<>>
    /\ Chain([qs EXCEPT !.conds[Len(qs.conds)] = f(qs.conds[Len(qs.conds)])])

WrapAnd(c) == QueryLeaves < setup.maxLeaves /\ Wrap(LAMBDA l : And(<<l, c>>))
WrapOr(c)  == QueryLeaves < setup.maxLeaves /\ Wrap(LAMBDA l : Or(<<l, c>>))
WrapNot    == (qs.conds # <<>> => Last(qs.conds).kind # "not") /\ Wrap(LAMBDA l : Not(l))

IncludeDeleted == ~qs.includeDeleted /\ Chain([qs EXCEPT !.includeDeleted = TRUE])
Skip(n)        == qs.skip = 0 /\ Chain([qs EXCEPT !.skip = n])
After(i)       == qs.after = 0 /\ Chain([qs EXCEPT !.after = i])
Before(i)      == qs.before = 0 /\ Chain([qs EXCEPT !.before = i])

(***************************************************************************)
(* Reading pages                                                           *)
(***************************************************************************)

(* The query of the next page.  The application sorts, limits, and passes the
   last id it read as the cursor: by _id forward with After, by _id backward
   with Before, or by a field of its own with After, as the guide shows.    *)
PageQuery ==
    LET sorted == [qs EXCEPT !.sort = setup.sort, !.limit = setup.limit]
    IN  CASE walk.seen = <<>>                         -> sorted
          [] setup.sort = [field |-> "_id", dir |-> "desc"] ->
               [sorted EXCEPT !.before = Last(walk.seen)]
          [] OTHER                                    -> [sorted EXCEPT !.after = Last(walk.seen)]

Reading == walk.phase \in {"build", "walking"}

(* The ids to account for: those that match when the walk begins.           *)
Tracked == IF Building THEN Matching(qs, table) ELSE stable

Fail ==
    /\ walk' = [walk EXCEPT !.phase = "failed"]
    /\ UNCHANGED <<setup, qs, table, stable>>

Refused(q) == ~preflight(q) \/ Rejected(setup.backend, q)

(* A page shorter than the limit is the last.                               *)
Deliver(page) ==
    walk' = [walk EXCEPT !.seen = @ \o page, !.total = 0,
                         !.phase = IF Len(page) < setup.limit THEN "done" ELSE "walking"]

All ==
    /\ Reading
    /\ IF Refused(PageQuery) THEN Fail
       ELSE /\ \E page \in Select(PageQuery, table) : Deliver(page)
            /\ stable' = Tracked
            /\ UNCHANGED <<setup, qs, table>>

(* AllWithCount: the count ignores sort, limit, skip and cursor, and is a
   statement of its own in the transaction that the rows are read in.       *)
CountQuery == [qs EXCEPT !.sort = NoSort, !.limit = 0, !.skip = 0, !.after = 0, !.before = 0]

AllWithCount ==
    /\ Reading
    /\ IF Refused(PageQuery) THEN Fail
       ELSE /\ walk' = [walk EXCEPT !.phase = "counted", !.total = Count(CountQuery, table)]
            /\ stable' = Tracked
            /\ UNCHANGED <<setup, qs, table>>

AllWithCountRows ==
    /\ walk.phase = "counted"
    /\ \E page \in Select(PageQuery, table) : Deliver(page)
    /\ UNCHANGED <<setup, qs, table, stable>>

(***************************************************************************)
(* Other clients                                                           *)
(***************************************************************************)

(* Mutant: AllWithCount's two statements run without a transaction.         *)
CanAlwaysWrite == walk.phase \in {"walking", "counted"}

(* SQLite begins every transaction with the write lock, AllWithCount's too;
   a READ COMMITTED transaction of PostgreSQL keeps nobody out.             *)
CanWrite ==
    /\ walk.phase \in {"walking", "counted"}
    /\ setup.backend = "sqlite" => walk.phase # "counted"

Write(i, d) ==
    /\ CanWrite
    /\ table[i] # d
    /\ table' = [table EXCEPT ![i] = d]
    /\ stable' = stable \cap Matching(qs, table')
    /\ UNCHANGED <<setup, qs, walk>>

Put(i, d)    == d # NoDoc /\ Write(i, d)
Delete(i)    == Write(i, NoDoc)

(***************************************************************************)
(* Specification                                                           *)
(***************************************************************************)

Init ==
    /\ setup \in Setups
    /\ qs = NewQuery
    /\ table \in [setup.ids -> setup.stored \cup {NoDoc}]
    /\ walk = [phase |-> "build", seen |-> <<>>, total |-> 0]
    /\ stable = {}

Next ==
    \/ \E c \in setup.leaves : Where(c) \/ WrapAnd(c) \/ WrapOr(c)
    \/ WrapNot
    \/ IncludeDeleted
    \/ \E n \in setup.skips : Skip(n)
    \/ \E i \in setup.cursors : After(i) \/ Before(i)
    \/ All
    \/ AllWithCount
    \/ AllWithCountRows
    \/ \E i \in setup.ids : Delete(i) \/ \E d \in setup.stored : Put(i, d)

Spec == Init /\ [][Next]_vars

(***************************************************************************)
(* Properties                                                              *)
(***************************************************************************)

(* What a condition says of a document that has every field: the reference
   that the two translations are checked against.                           *)
RECURSIVE Meaning(_, _)
Meaning(c, d) ==
    LET v    == d[c.field]
        vals == ToSet(c.vals)
        w    == IF c.ref # NoRef THEN d[c.ref] ELSE c.vals[1]
    IN  CASE c.kind = "and" -> \A k \in DOMAIN c.subs : Meaning(c.subs[k], d)
          [] c.kind = "or"  -> \E k \in DOMAIN c.subs : Meaning(c.subs[k], d)
          [] c.kind = "not" -> ~Meaning(c.subs[1], d)
          [] c.op = "Eq"    -> v = w
          [] c.op = "Ne"    -> v # w
          [] c.op = "Gt"    -> v > w
          [] c.op = "Gte"   -> v >= w
          [] c.op = "Lt"    -> v < w
          [] c.op = "Lte"   -> v <= w
          [] c.op = "In"    -> v \in vals
          [] c.op = "NotIn" -> v \notin vals
          [] c.op = "IsNil"    -> FALSE
          [] c.op = "IsNotNil" -> TRUE
          [] c.op \in {"Contains", "ContainsAny", "HasKey"} -> v \cap vals # {}
          [] c.op = "ContainsAll" -> vals \subseteq v

(* A condition in which no operand is nil, no operand list is empty, no And
   or Or is empty, and a field is referred to only in a comparison.         *)
RECURSIVE Plain(_)
Plain(c) ==
    CASE c.kind # "field" -> c.subs # <<>> /\ \A k \in DOMAIN c.subs : Plain(c.subs[k])
      [] c.ref # NoRef -> c.op \in Comparisons
      [] c.op \in {"IsNil", "IsNotNil"} -> TRUE
      [] OTHER -> c.vals # <<>> /\ JNull \notin ToSet(c.vals)

(* A condition that asks arrays for strings and maps for plain names.       *)
RECURSIVE Portable(_)
Portable(c) ==
    /\ \A k \in DOMAIN c.subs : Portable(c.subs[k])
    /\ c.op \in {"Contains", "ContainsAny", "ContainsAll"} => ToSet(c.vals) \subseteq Strings
    /\ c.op = "HasKey" => ToSet(c.vals) \subseteq Names

RECURSIVE Positive(_)
Positive(c) ==
    c.kind # "not" /\ \A k \in DOMAIN c.subs : Positive(c.subs[k])

(* A query no longer changes once a terminal has run, so the properties of its
   translation are stated while it is built.                                *)
PlainQuery    == Building /\ \A k \in DOMAIN qs.conds : Plain(qs.conds[k])
PortableQuery == \A k \in DOMAIN qs.conds : Portable(qs.conds[k])
PositiveQuery == \A k \in DOMAIN qs.conds : Positive(qs.conds[k])

Holes(d, hole) ==
    {f \in {"x", "y"} : d[f] = hole} \cup {f \in {"tags", "attrs"} : d[f] = {hole}}
Complete(d)     == Holes(d, JNull) = {} /\ Holes(d, Absent) = {}

Backends == {"sqlite", "postgres"}

Returned(w, i, d) == Answer(w, i, d) = "T"

Term == 2

Statements(backend) == {WhereOf(backend, qs), SearchOf(backend, Term, qs)}

(* Either backend returns a document that has all its fields exactly when
   every condition holds of it, it is past the cursors, and it is not soft
   deleted or deleted documents were asked for, and Search when it also has
   the term: no nesting of And, Or and Not changes what a sibling means, in
   buildWhereClauses, logicalToSQL, buildFTSSearchSQL and the numbering of
   placeholders.  Arrays are asked for strings, which is what PostgreSQL casts
   the operand to, and maps for names that the path of json_type can spell.  *)
RowsMatchMeaning ==
    PlainQuery /\ PortableQuery =>
        \A b \in Backends, i \in setup.ids, d \in {e \in setup.docs : Complete(e)} :
            LET meant == /\ \A k \in DOMAIN qs.conds : Meaning(qs.conds[k], d)
                         /\ qs.includeDeleted \/ d.deleted = Absent
                         /\ qs.after  # 0 => i > qs.after
                         /\ qs.before # 0 => i < qs.before
            IN  /\ Returned(WhereOf(b, qs), i, d) <=> meant
                /\ Returned(SearchOf(b, Term, qs), i, d) <=> meant /\ d.x = Term

(* Documents that lack fields, and arrays and maps with elements and keys of
   any kind, are returned by both backends or by neither, as long as no
   condition negates, no field holds an explicit null, and arrays are asked for
   strings and maps for plain names: what differs there is only whether the
   predicate is false or unknown (containment and @> against json_extract and
   json_each).  A number in an array is found by json_each and not by PostgreSQL,
   which casts the operand of Contains to text; and SQLite sanitizes the key of
   HasKey, where jsonb_exists takes it as it is.                            *)
BackendsAgree ==
    LET lite == WhereOf("sqlite", qs)
        pg   == WhereOf("postgres", qs)
    IN  PlainQuery /\ PortableQuery /\ PositiveQuery =>
            \A i \in setup.ids, d \in {e \in setup.docs : Holes(e, JNull) = {}} :
                Returned(lite, i, d) <=> Returned(pg, i, d)

(* A soft-deleted document is returned, by All or by Search, only to a query
   that asked for deleted ones, whatever its conditions are: the filter that
   allConditions appends is never absorbed by an Or of the application.     *)
DeletedStaysHidden ==
    Building /\ ~qs.includeDeleted =>
        \A w \in UNION {Statements(b) : b \in Backends}, i \in setup.ids, d \in setup.docs :
            d.deleted # Absent => ~Returned(w, i, d)

(* A page walk by _id reads no document twice, and when it ends it has read
   every document that matched all along, whatever other clients inserted,
   changed and deleted between the pages (After and Before as cursors).     *)
StablePagination ==
    /\ IsInjective(walk.seen)
    /\ walk.phase = "done" /\ qs.skip = 0 => stable \subseteq ToSet(walk.seen)

(* Grouping splits the matching documents: the rows reported are, one for one,
   the groups of documents that hold the same string, each with its number of
   documents and the sum over them, and those whose field is null or missing
   form one group together, on either backend.  Only that group may report the
   key of another, the one of the documents that hold the empty string.     *)
GroupsPartition ==
    Building /\ qs.skip = 0 =>
        LET ids       == Matching(qs, table)
            None      == {JNull, Absent}
            Alike(i)  == {j \in ids : table[j].x = table[i].x \/ {table[i].x, table[j].x} \subseteq None}
            Key(i)    == IF table[i].x \in None THEN Empty ELSE table[i].x
            Row(i)    == [key |-> Key(i), count |-> Cardinality(Alike(i)),
                          sum |-> Cardinality({j \in Alike(i) : table[j].n = 1})]
        IN  \A out \in GroupByInto("x", "n", qs, table) :
                \E group \in Bijection(DOMAIN out, {Alike(i) : i \in ids}) :
                    \A m \in DOMAIN out : \A i \in group[m] : out[m] = Row(i)

(* On SQLite the total that AllWithCount returns is the number of documents
   that match when its rows are read: the transaction it opens keeps other
   writers out between its two statements.                                  *)
CountFitsRows ==
    [][setup.backend = "sqlite" /\ AllWithCountRows
        => walk.total = Count(CountQuery, table)]_vars
=============================================================================
