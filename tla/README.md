# Den: a TLA+ verification project

Den is an object-document mapper for Go on SQLite and PostgreSQL. This
directory models the parts of it in which the order of events matters: document
writes under revision control, transactions and locks, change tracking, the write
terminals of queries, cascades over links, migrations, identifiers, attachments,
the registration of types with their indexes, and the translation of queries into
the SQL of two databases. The models are translated
from the Go source; `PROJECT.json` maps every definition to the lines it stands
for.

Run a model with `tlc -config <file>.cfg <module>`, the proofs with
`tlapm <module>.tla` for `CrudProofs`, `QueryWriteProofs`, `MigrateProofs`,
`LinkProofs`, `RegistryProofs`, `TrackingProofs`, `AttachmentProofs` and
`IdGenProofs`.

## Inventory

| Component (source) | State | Operations | Interacts with | Hard behaviours | Correct when |
|---|---|---|---|---|---|
| Document writes (`engine/crud*.go`, `revision.go`, `soft_delete.go`, `replace.go`) | rows with `_rev` and `_deleted_at`; the caller's structs | FindByID, Refresh, Save, SaveAll, Replace, Delete, DeleteAll | hooks, backend, links, attachments | check and write are two statements; the struct is changed before the write | no checked write overwrites a version it did not see; deletes are not undone |
| Transactions, locks (`engine/tx.go`, `lock/`) | open transactions, row locks | RunInTransaction, runOnScope, runInWriteTx, LockByID, AdvisoryLock | backends | nested scopes, failed commits, deadlocks, panics | locks protect, and always come back |
| Backends (`backend/sqlite`, `backend/postgres`) | tables, pools, prepared statements | Get, Put, Delete, Query, Begin, ... | engine through `backend.Backend` | different isolation: one writer versus READ COMMITTED | the engine's promises hold on both |
| Migration runner (`migrate/`) | `_den_migrations` log, per-process Registry | Up, UpOne, Down, DownOne | transactions, AdvisoryLock | concurrent starters, crashes, stale reads | every migration exactly once, in order |
| QuerySet (`engine/queryset.go`, `iter.go`) | an immutable query | All, First, Count, Iter, AllWithCount, Update, Delete, UpdateOne, UpsertOne, GetOrCreate | backend, links, CRUD | chunk loop, multi-statement reads, upsert races | a terminal acts on the match set it describes |
| Identifiers (`idgen/`) | last timestamp and random bits | New | Save | clock rewinds, carries, overflow | ids are ULIDs and increase |
| Attachments (`engine/attachments.go`, `storage/`) | files by content hash | Store, Open, Delete, hard-delete cleanup | Delete, transactions | two systems, no common transaction | no document refers to missing bytes |
| Full-text search (`engine/search.go`, `backend/*/fts.go`) | FTS5 table and triggers, or a generated column | EnsureFTS, Search | Register, QuerySet | set-up by two processes at once, documents older than the index | each document is found once |
| Schema (`engine/collection.go`, `stale_indexes.go`, `backend/*/schema.go`) | catalog, `_den_indexes` | Register, DropStaleIndexes | backends, deployments | concurrent builds, aborted builds, crashes | Register leaves what the types ask for |
| Type registry (`engine/collection.go`, `den.go`) | collections, name map, type cache | Register, collectionFor | every call | lock-free cache next to a locked map | a lookup after Register sees it |
| Links (`engine/link*.go`) | references, hydrated values | cascade write and delete, fetch, batch resolve | CRUD, QuerySet | several documents per call, dangling targets | cascades are all or nothing where promised |
| Change tracking (`engine/track.go`) | snapshot per struct | IsChanged, GetChanges, Revert | CRUD | snapshot versus failed write | the snapshot is the last persisted state |
| Hooks, validation (`engine/hooks.go`, `validate/`) | none | run before and after writes | CRUD | an error at each point undoes something different | as in Document writes |
| Conditions (`where/`, `backend/*/sql.go`) | condition trees, SQL text, arguments | Eq to HasKey, And, Or, Not; buildWhereClauses, conditionToSQL | QuerySet, backends | two dialects, precedence, NULL, numbered placeholders | both texts mean what the condition says |
| Aggregation, marshalling, URLs, facade | none or generated text | build SQL, convert | backends | data conversion | equivalence with a reference |

The hazards this code is exposed to, each at its line and with the properties
that would catch it, are the `hazards` of `PROJECT.json`.

## Modules

### `Crud`: writes, transactions and locks

State: the committed `row` of each document, the row `lock`s, and for each
session (a goroutine of any process) the struct it has in hand (`mem`), where it
is inside a call (`pc`, `call`), its transaction (`txn`), and that transaction's
uncommitted versions (`buf`, `how`). A document is a revision number and a
soft-delete mark. `how`, `base`, `guard` and the field `was` of a call are
bookkeeping for the properties: how a buffered version was checked, the revision it
was derived from, the rows locked first, the struct as it was passed.

One call is several steps, cut where another session's statement can run in
between: *open the transaction* (`Begin`), *hooks, Get, comparison, new revision*
(`Check`), *Put or Delete* (`WriteInTx`, or `WriteAutocommit` on the `*DB`),
*commit*. Each step can fail (`BeginFails`, `CheckFails`, `WriteFails`,
`Rollback`), and the process can die anywhere (`Crash`). Which calls are wrapped
in a transaction follows `updateCore`, `softDelete` and `runOnScope`. After hooks
run on the written document (`AfterHooks`): when one fails, a transaction of Den's
own is rolled back, but a write that committed by itself stays, and the call
returns an error all the same. `err` is what the call returned. `Restore` is the
documented way to bring a soft-deleted document back, a checked write that clears
the mark its caller has read.

The backends differ in `CanBegin`, `BeginLocks`, `MayWrite` and `GrantLock`:
SQLite's IMMEDIATE transactions exclude each other and every writer;
PostgreSQL's READ COMMITTED transactions lock a row when they write it or
`SELECT ... FOR UPDATE` it, and see each commit at the next statement. A failed
statement aborts a PostgreSQL transaction; on SQLite the closure may go on. The
waits and the deadlock detector are the databases' own and marked external.

Assumed of the application: inside RunInTransaction it passes the `*Tx`, not
the `*DB`; an id is not reused by hand.

### `SerialWrites`: what the document writes promise

The abstract specification of `Crud` on SQLite. A client loads a document into its
`hand`, or `Ask`s for a write, which then happens at one moment (`Perform`) or not
at all (`Refuse`); one client at a time may have a transaction open (`Open`,
`Commit`, `Abort`), and while it has, its writes go to `view` and nobody else
writes. `Allowed` is what each call may do to the version it meets: a checked Save
or soft Delete only replaces the very version its caller passed, Replace keeps the
mark of the version it replaces, and what is put has a revision that nobody holds
(`New`). What a call will return is fixed at that moment (`failed`): a `Refuse` has
written nothing, but may leave the struct with a revision that is nobody's, since
the code stamps it before the Put, or, for Replace, with the version that was
read; a `Perform` without a transaction of Den's own (`MayFailDone`: inserts, hard
deletes, forced writes) may return the error of an After hook although it has
written.

The refinement mapping, at the end of `Crud`: a session has `asked` from the start
of a call to its return or to its first error (`InCall`, `Asked`); what it holds
is its struct, but during a call the struct as it was passed (`Hand`, from `was`);
the owner is the session whose application transaction is open (`Owner`), and
`view` the rows as it would publish them (`Working`). A transaction of Den's own
around one call is not seen: its COMMIT is the one step `Perform`.

### `Ordering`: sets in ascending order

`Ascending` is what `sort.Slice` makes of versions, ORDER BY of ids and a loop of
the positions of a slice. `Migrate`, `Selection` and `Links` use it. It is defined
by counting what lies below an element, without recursion, so that it can be
reasoned about.

### `Migrate`: the migration runner

The log, each process's `ensureTableOnce` with its sticky error, the advisory
lock, and per runner the versions it still has to run. `schema[v]` counts
Forward minus Backward runs, which is what shows a migration run twice.
UpOne, Down and DownOne read the log outside the lock (`LoadApplied`), then each
version runs under it (`Lock`, `Skip` or `Run`, `Commit`). `Fail` stands for any
error of a step, `Crash` for the end of a process. `setup` says who calls what;
it is chosen in the initial state, so that one run covers starters alone and
starters racing rollbacks. The versions a runner plans are a filter (`Filtered`)
over the sorted Registry. `InitialSegments` says that every process knows the
versions up to some one: newer deployments add migrations at the end.

### `Links`: cascades and hydration

A parent, its links in the order of its fields, and one client with structs of
them in hand. `Slots[k]` is the document link k leads to, which another link may
lead to as well, and `FieldOf[k]` the field it is in, several for a slice.
`mem[k]` is what the struct of link k holds (an ID or not, its version, its
deletion mark), `slot[k]` the `Link`: its ID, its Value, which is the position of a
struct, so that links can share one (`Sharing`), and Loaded. A Save walks `todo`,
the positions of the linked values and then of the parent, in ascending order,
and takes three steps for each: `Check` (hooks, revision comparison, new revision
and ID, all in the struct), `Put`, `After` (the After hook, and a child's new ID
into the link at hand). A Delete walks `todo` with `Get` and `SoftDelete` or
`HardDelete`. A read (`FindByID`, which stands for Refresh too, and
`FetchAllLinks`) hydrates the fields it was `asked` for, eager ones, all, those
named or none, with one IN query for each (`Hydrate`), between which other clients
write; links of fields it was not asked for stay unresolved. Each statement goes to
the open transaction, if there is one, and is committed by itself otherwise;
`AutoWrap` is `updateCore`'s decision to open one ahead of the cascade. `Fail` is
an error at any point; what it does not do, and the code does not either, is to
restore the structs, so the retries start from what the failed call left in them.
`OtherSaves` and `OtherDeletes` are the other clients. A save is an upsert: one of
a stale struct brings a deleted row back (`revived` is history for
DeleteCascades).

Assumed of the application: links that a Save does not write refer to stored
documents (the documentation asks for it), and a closure that gets an error from
a write returns it. The backend is SQLite; what READ COMMITTED adds is in `Crud`.

### `Selection`, `AtomicWrites`, `QueryWrites`: the write terminals of a QuerySet

`Selection` is the rows of a collection and what a query selects of them: the
soft-delete filter, sort, Limit and Skip, and what SetFields, the defaults of an
upsert and Delete make of a document. `AtomicWrites` is what the terminals
promise: a call happens at one moment or not at all; Update and Delete act on the
rows All would return at that moment and return their number; UpdateOne and
UpsertOne act on the one row that matches, or insert one where none does; an
error has changed nothing.

`QueryWrites` is what the code does. A call is a BEGIN, the read of its rows
(`DrainUpdate`, `ReadChunk` with the remaining limit, `findOneStrict`'s two rows),
one `Put` per document, and for Delete the next chunk, `skipN = 0` and the
short-chunk exit, then the COMMIT; `Fail` may end it at any point. `tmpl` is the
`_id` in the caller's defaults struct, which a failed insert leaves there for the
retry. Unique indexes make a write wait for transactions that could change the
verdict (`Blockers`, `Rivals`: the databases', external). The refinement mapping
is `asked <- Pending`: a caller has asked from its `Enter` to its return, and the
rows are the committed ones; the atomic step is the COMMIT. GetOrCreate is an
upsert without fields. `TidyDeletes` and `Unbounded` say which setups
AtomicOnSQLite is about (see where the passing properties end). The calls are made
on the `*DB`; inside a `*Tx` the same
statements run in a transaction that is `Crud`'s subject. The collection has no
revisions.

### `Tracking`: the struct, its snapshot and the row

One struct that embeds `Tracked`, loaded, edited, saved and soft deleted, in a
transaction of the application, of Den's own, or none, with each point at which a
write can fail; `Refresh` and `Revert`; and other clients that write the row. A
document is one field of the application, the soft-delete mark, which JSON omits
when it is unset, and what Den stamps. A snapshot is bytes: a document and the
form of its text, since PostgreSQL returns the canonical text of a `jsonb` value
and not what was put. `Decoded` merges into the struct it is given, as
`json.Unmarshal` does; decoding into a map turns every number into a float64,
which `Float` rounds (`AsMap`). `behind` and `undone` are history for the
properties.

### `IdGen`: ULIDs

Bytes and base-32 digits at their real width. `Carry` and `Added` are
`addRandStep80`; `EncodeMs` and `EncodeFive` are `encode`, with `Shift` for the
shifts of the timestamp, which has 48 bits until the year 10889.

### `Attachments`: documents and the bytes they refer to

Store's temporary file, link and dedup hit; Save; and a hard delete with its
preflight, its row delete and its byte cleanup, on the `*DB` or inside a
transaction (DeleteAll and a QuerySet's Delete open one themselves). A Save that
fails is cleaned up after as the guide shows, and so is one whose After hook failed
with the row stored (`AfterInsertFails`). A path stands for the content it is the
hash of. `setup`, chosen in the initial state, says which session has a Storage,
whether the path field is unique, whether documents may share content, which
contents are in slices or maps, which `walkAttachments` does not follow, whether
there are hooks, and whether deletes run in transactions.

### `Indexes` and `Registry`: Register

`Indexes` has the index catalog with PostgreSQL's `building` and `invalid`
states, the `_den_indexes` records, Register's loop over its definitions and
DropStaleIndexes. CONCURRENTLY builds and drops on a table exclude each other.

`Registry` extends it to the whole of Register: the full-text index after the
others (on SQLite the check for the table, then table, triggers and backfill in
one transaction; on PostgreSQL a generated column), then the publication of the
type under the mutex and the removal of its cache entry. In another goroutine
`LookupCached`, `LookupMaps` and `LookupStores` are the three steps of
`collectionForType`. A collectionInfo is the number of the Register call that
made it. Documents come and go meanwhile; a process may end and start again with
an empty registry. `raced` is history for LookupAfterRegister: a Register published
between the read of the maps and the Store of the lookup that is under way, or that
filled the cache. `setup` holds the backend, the indexes each deployment wants,
who has fts fields, who calls DropStaleIndexes, whether deployments take turns,
and which fields hold duplicates.

### `Conditions`: from condition trees to SQL

Pure operators. A condition is a field operator, or an And, Or or Not of
conditions. `SQLite_*` and `PG_*` are the two `sql.go` files, function by
function. A WHERE clause is represented the way the database parses it, as an OR
of ANDs of atoms, and pasting text together joins these: an unparenthesised OR
does absorb its neighbours, as it would in the text. A field of a document is a
string, an explicit null (`JNull`) or missing (`Absent`); the elements of an array
are strings and numbers, the keys of a map names or not. `TextParam` is a
placeholder cast to text, which is what PostgreSQL's Contains operators and HasKey
compare with, and `sanitizeFieldName` what SQLite leaves of a key. `Eval` is SQL's
three-valued logic, with "E" for a text the database refuses; it is the
databases' and marked external. `buildFTSSearchSQL` of each backend puts the
conditions and cursors behind the match of the term. The text operators
(StartsWith, EndsWith, StringContains, RegExp) are left out.

### `QuerySet`: building a query and reading pages

`qs` is the query; the chain methods (`Where`, `IncludeDeleted`, `Skip`, `After`,
`Before`) build it, and `WrapAnd`, `WrapOr` and `WrapNot` are the application
combining conditions before it passes them on. Then `walk` reads pages with
`All`, or `AllWithCount` in its two statements, each page starting at the last id
of the one before, while other clients `Put` and `Delete` rows of `table`.
`stable` is bookkeeping: the ids that matched all along. `GroupByInto` is
GROUP BY with a count and a sum, and the scan of its NULLs; `SearchOf` is the
statement of `Search`. The collection embeds
SoftDelete; a query sorts by at most one field. `setup`, chosen in the initial
state, holds the backend, the conditions, documents and ids to build from, and
the order of the pages. Row locks are `Crud`'s, hydration is `Links`'.

## Runs

All pass unless noted. Bounds are CONSTANTS of the `.cfg` files.

| Run | Checks | Bounds and why they are enough |
|---|---|---|
| `crud_sqlite` | RevIsIdentity, NoLostUpdate, ReplaceNeverResurrects, SoftDeleteSticks, SerialOnSQLite | two sessions, one document, `MaxRev` revisions: a lost update needs two writers of one row; locks of different rows matter only for deadlock; four revisions: an insert, a soft delete, a restore and a stale write. The theorem `SQLiteIsSerial` covers transactions over several documents |
| `crud_postgres` | LockedUpdateSafe, EveryCallReturns | two sessions and two documents, the smallest deadlock; LockByID in its three modes and Saves, locked or not, which is what takes row locks (`LockingCalls`); the theorem `LockedUpdatesAreSafe` covers the other calls. `VIEW AllButErr` identifies states that differ only in what finished calls returned: no guard and neither property reads `err` |
| `lost_update` (violation) | NoLostUpdate on PostgreSQL | only loads and Saves, so that the counterexample is the plain one |
| `tracking` | SnapshotIsRow, ChangesAgree, RevertRestores | one document, three numbers, two of which are one float64, six stamps: loads, writes that fail or not, writes of another client; both backends, with and without revisions |
| `query_writes` | TypeOK (which bounds the chunks), OneDocumentPerKey, AtomicOnSQLite, EveryCallReturns | one call alone: five rows in chunks of two, none to three chunks, full and partial, every table, limit and mode; two at once: every pair of eight calls over the tables of two rows, with and without a unique index, upserts tried twice |
| `registry` | LookupAfterRegister, UsableWhenFound, OneEntryPerDocument, RegisterEstablishes | an old and a new deployment, three indexes, one of them over duplicate values or not, each Register up to three times (a race, and a Register after it); indexes at once on SQLite and in turn on PostgreSQL, full text always at once; one document before, during and after |
| `migrate` | ExactlyOnce, AppliedInOrder, UpAppliesAll, EveryCallReturns | an old process that knows two versions and a new one that knows three; three starters, two of them in one process, or one runner of each process calling all four operations; version 1 is irreversible |
| `links` | NoPhantomLink, CheckHoldsAtPut, FailedUpdateStoresNothing, DeleteCascades, FetchResolves, LinksRecorded | a slice of two links and a field of one, the first and the last to one child, so that a read makes two queries. A new parent has two children, or one child twice, each new or stored (`NewLinks`), so that a cascade can fail before, between and after them, and meet one struct as an insert and then as an update; `MaxVer` counts every write: the three of a whole cascade, or parts of one and intruders. Other clients save the parent with all its links or none (`OtherLinks`), and a read of it brings all three |
| `idgen` | WireFormat, IdsIncrease | four ids; timestamps at digit boundaries and the largest TLC has, seeds about to carry or overflow, small and nearly 32-bit steps |
| `attachments` | NoPartialFile, NoBrokenReferenceAlone, NoSilentOrphan | two sessions, documents and contents; with and without sharing, slices, After hooks, a unique index, transactions and a Storage |
| `queries` | RowsMatchMeaning, BackendsAgree, DeletedStaysHidden, StablePagination, GroupsPartition, CountFitsRows | every operator in trees of two field conditions, four operators in trees of three (a sibling, and a nested pair, is what a precedence error needs), with both cursors, for All and Search, over the shapes of documents: full, null and missing fields, strings and numbers in arrays, keys that a path can spell and others, live and deleted. Walks over four ids in pages of two, forward and backward: a page boundary, and ids on both sides of it. Groups over three documents with the empty string, another, null or nothing for a key |
| `queries_cursor` (violation) | StablePagination | the walk of the guide, sorted by a field of the document |

There is one run per question. The two violations are disagreements between the
code and its own documentation, each quoted under `findings` in `PROJECT.json`; the
others that came up while modelling are quoted in the list that follows. Every
module states its type invariant; the runs list it where it says more than a type
(`QueryWrites`, the size of a chunk). That of `Crud` is proved.

**Where the passing properties end.** Each of these bounds is a place where the
code does something else beyond it, which the models show when it is lifted; where
the repository says otherwise, it is quoted:

* ReplaceNeverResurrects holds on SQLite. On PostgreSQL a soft delete committed
  between Replace's read and its write is undone.
* SerialOnSQLite holds on SQLite. On PostgreSQL the check and the write of a call
  are two moments, and a commit may come between them; `lost_update` is the
  plainest case.
* SoftDeleteSticks allows the restore of `docs/guide/soft-delete.md:53-57`, of the
  very version that is stored. A restore of a stale struct is refused as any stale
  Save.
* An error does not mean that nothing was written: an insert, a hard delete or a
  forced write on the `*DB` has committed when its After hook fails
  (`engine/crud.go:100-108`). `docs/guide/hooks.md:188` says "An `AfterInserter` that
  fails causes the entire insert (including the document write) to roll back."
* Put is an upsert, so `SerialWrites` does not say that an insert finds its id
  free: what keeps it from overwriting is that the id is new.
* DownOne chooses its version from a log read outside the lock, so a migration
  applied meanwhile makes it roll back one that is no longer the last;
  ExactlyOnce holds all the same.
* LinksRecorded needs a struct no earlier call failed on. A child whose insert
  failed after it was given its ID is an update on the retry, and its ID is never
  put into the parent's link. It is about linked documents, not links: the cascade
  comes to a new child of two links as an insert and then as an update, fills the
  first link only, and the second is stored without an ID, though nothing has
  failed. `engine/link_cascade.go:55-56` says "Propagate the (possibly newly
  generated) child ID back into the parent's Link slot."
* DeleteCascades leaves out a document that another client has saved between its
  deletion and the call's return. A parent that another client writes anew from a
  struct it holds brings its references back unchecked; NoPhantomLink is about
  children that have been stored at some time.
* FetchResolves is about the fields a read was asked for; the links of lazy fields
  stay unresolved with nil returned. A dangling link is an error
  (`engine/link_batch.go:132-136`), where the comment at line 22 says "except the
  batched path doesn't surface a dangling-link error", and a Refresh that ends in
  one leaves the struct half hydrated.
* AtomicOnSQLite and EveryCallReturns of `QueryWrites` leave out a Skip over more
  than one chunk (the later chunks start at the skipped rows) and a soft delete
  under IncludeDeleted (the match set does not shrink, and a full chunk repeats
  for ever). On PostgreSQL the terminals are not atomic: a row may stop matching
  between the read and the write, and two upserts without a unique index both
  insert, as the comment of UpsertOne says.
* A repeated upsert reuses its defaults struct only after a failure. After a
  success the struct has an id, and an insert with it overwrites that document;
  the comment of UpsertOne asks for a fresh one.
* GetOrCreate of an existing row is an upsert without fields: `Applied` leaves the
  document as it is, but the code does write it again, with a new `_rev` and
  `_updated_at` and its update hooks, where `engine/queryset.go:726` says
  "Existing rows are not modified".
* SnapshotIsRow and RevertRestores leave out a Put that was rolled back (by an
  After hook, a failed COMMIT or the application's closure): the snapshot is then
  a version that was never stored.
* ChangesAgree asks for one direction only on PostgreSQL, where IsChanged is true
  right after a load, since the snapshot is `jsonb` text
  (`backend/postgres/postgres.go:84`) and the comparison is of bytes; and everywhere
  it allows for integers that are one float64 to GetChanges
  (`engine/track.go:72-86`). The comments say "IsChanged reports whether the document
  has changed since it was loaded" (line 47), and of GetChanges "before/after values
  for all fields that changed since the document was loaded" (lines 63-65).
* Refresh merges: a soft-delete mark of the struct survives it, since the stored
  JSON omits the field; `engine/crud_refresh.go:9` says "overwriting all fields".
* LookupAfterRegister leaves out the Register that publishes between another
  lookup's read of the maps and its Store: the cache keeps the older
  collectionInfo of the type until the next Register.
* OneEntryPerDocument is about one list of fts fields. A changed list is ignored,
  since the table, the triggers and the column are created IF NOT EXISTS.
* CheckHoldsAtPut is about saves in a transaction. The children of an insert on
  the `*DB`, and of an update under IgnoreRevision, are compared and written in
  two autocommitted statements, and a write in between is lost.
* IdsIncrease leaves out the overflow of the 80 random bits, after which the
  generator draws a fresh seed under the same timestamp.
* NoBrokenReferenceAlone is about documents that share no content, have no
  AfterInsert hook, and are deleted by Delete on the `*DB`: hard-deleting one of two
  that share takes the bytes of both; inside a transaction, and that of DeleteAll and
  of a QuerySet's Delete is one, the bytes go before the commit, so that a rollback
  brings back a row without them; and the clean-up after a Save whose After hook
  failed takes the bytes of the row it stored.
* NoSilentOrphan leaves out attachments in slices and maps, whose bytes a hard
  delete leaves behind, as the guide says.
* RegisterEstablishes on PostgreSQL needs deployments that take turns (a build in
  progress looks like the leftover of an aborted one, and since the look and the drop
  are two statements, `backend/postgres/schema.go:129-138`, it is dropped when it is
  done, where `docs/guide/documents.md:368` says "`Register()` is additive: it creates
  new indexes but never removes obsolete ones") and fields that do not change from
  `index` to `unique` (IF NOT EXISTS goes by name).
* RowsMatchMeaning and BackendsAgree are about conditions with operands. An empty
  In, NotIn or ContainsAny is a syntax error on PostgreSQL and an answer on
  SQLite; an empty And, Or or ContainsAll drops out of the text. BackendsAgree
  leaves out Not (a missing field is unknown to one backend and false to the
  other) and explicit nulls (Ne, Lt, Lte and NotIn compare them on PostgreSQL and
  not on SQLite). Both ask arrays for strings and maps for plain names: PostgreSQL
  finds no number in an array (`backend/postgres/sql.go:348`), and SQLite strips a key
  and takes a dot for a path (`backend/sqlite/sql.go:341-342`).
  `docs/getting-started/quickstart.md:125` says that every operation "works the same
  on both backends". Sorting puts NULL first on SQLite and last on PostgreSQL.
* GroupsPartition lets two rows report the empty string: a NULL key is scanned into
  a string, so the documents without a key look like those that hold an empty one.
* CountFitsRows is about SQLite. On PostgreSQL the two statements of AllWithCount
  have a snapshot each, and a write can come between them.
* StablePagination holds of walks sorted by `_id`; `queries_cursor` shows what
  becomes of others.

**Fairness.** `Crud`: goroutines run on and closures return (weak fairness of
opening, checking, and the deadlock detector); a statement whose lock is free
infinitely often runs and a transaction that can end infinitely often does
(strong fairness, since PostgreSQL's lock queues are first come first served and
SQLite gives up after `busy_timeout`). `Migrate`: a runner inside a call runs on,
and the lock's queue is fair; no failure is counted on to end a wait.
`QueryWrites`: a call runs on, and a BEGIN or a statement whose lock is free
infinitely often gets its turn (strong fairness of `Step`); no error is counted on
to end a call. The other
modules claim no liveness.

**Deadlock checking** is off in `QueryWrites`, `IdGen`, `QuerySet` and `Tracking`,
whose behaviours end: calls tried a bounded number of times, a bounded number of
ids, one walk, a document that is gone.

## Proofs

Every property of a passing run is also a theorem, for every value of the constants, but
for the liveness properties and those of `QuerySet` (below). `theorems` in
`PROJECT.json` lists them. A theorem about a safety property rests on an
inductive invariant, which TLC checked on the bounded runs before it was proved;
an action property or a refinement follows from the invariant step by step.

**`CrudProofs`**, for every set of sessions and documents and every revision
budget.

* `TypeCorrect`: `Spec => []TypeOK`.
* `RevisionIdentity`: `Spec => []RevIsIdentity`. A new revision must be new:
  `RevInv` adds that every copy of a document, stored, buffered or in a caller's
  hand, carries a revision below `nextRev`, and that a copy with revision 0 is the
  empty one.
* `SQLiteNoLostUpdate`: with `Backend = "sqlite"`, `Spec => NoLostUpdate`. The
  argument is `SQLiteInv`: whoever is in a transaction holds every lock
  (`TxHoldsLock`), only such a session has uncommitted versions (`DirtyInTx`) or
  is between a check and its write without having skipped the check
  (`CheckedInTx`), and therefore the row a buffered or checked version was
  derived from is still the committed one (`BaseCurrent`, `SeenCurrent`). On
  PostgreSQL `TxHoldsLock` fails, and `lost_update` shows the consequence.
* `SQLiteSoftDeleteSticks`, `SQLiteReplaceNeverResurrects`: the same with the mark
  in place of the revision; a write that clears a mark is a restore, and has passed
  the comparison with the version it replaces. `DeleteInv` adds to `SQLiteInv` and `RevInv` that
  what a checked write or a Replace puts in a row's place keeps the row's mark, from
  the check to the statement and from there to the commit (`KeepInv`), and that an
  id is inserted once, before anything else is written under it (`FreshInv`).
* `SQLiteIsSerial`: with `Backend = "sqlite"`, `Spec => SerialOnSQLite`, the
  refinement of `SerialWrites`. `SerialInv` stands on `DeleteInv` and says what a
  call may count on when it takes effect. It says where a call can stand and that a
  transaction of Den's own holds the write of its one call (`Local`); that from the
  check to the write, and to the commit, the version the call was allowed to replace
  is still the one there, though only the struct it was passed tells which (`Ready`);
  that a revision drawn for a write is in nobody else's struct, row or buffer until
  then (`Private`); and that the calls that have yet to draw a revision are within
  the budget (`Budget`, which counts them). `Ready` needs the lock of every
  transaction, and is what fails on PostgreSQL. The steps then fall into four kinds:
  the start of a call maps to `Ask`; an autocommitted write, a write in the
  application's transaction and the commit of Den's own map to `Perform`; the first
  error maps to `Refuse`; and all that comes between, or after an error, to no step.
* `LockedUpdatesAreSafe`: `Spec => LockedUpdateSafe` on either backend. On SQLite
  it follows from `SQLiteInv`. On PostgreSQL the argument is `LockInv`: the
  transaction that has read a row FOR UPDATE (`GuardHolds`) or has written it
  (`DirtyHolds`) is the one that holds its lock, and is open (`HolderInTx`,
  `WaiterInTx`); since publishing a row needs its lock, nobody else publishes a
  guarded row, and the revision a checked write of it was compared with is still
  the committed one (`GuardedBase`, and `GuardedSeen` between the check and the
  write). The one write that takes no lock, the DELETE that finds nothing,
  changes nothing.

**`QueryWriteProofs`**, for any sessions, rows, keys, calls and chunk size.

* `ChunksAreBounded` (TypeOK): no Delete has more than `ChunkSize` documents in
  memory.
* `UpsertsAreUnique` (OneDocumentPerKey). There are two arguments. On SQLite one
  transaction is open at a time (`Solitary`), so what an upsert has found, or has
  not, is still so when it writes (`OnePerKey`, with `Current`). Under a unique
  index transactions overlap, and `Distinct` says what the waits of the index
  leave true: no key is twice among the committed rows, among the rows as one
  transaction sees them, or in the uncommitted rows of two.
* `SQLiteIsAtomic`: `Spec => AtomicOnSQLite`, the refinement of `AtomicWrites`.
  `RefInv` tells from the committed rows alone what a transaction has done and has
  yet to do. An Update or Delete is at some point of the window All would return:
  the rows before it are changed in the transaction's view, and what it has in
  memory are the next ones (`Through`); the chunk that ends the loop is the one
  that reaches the end of the window (`AtFind`, `AtPut`, `AtCommit`). That the next
  chunk, asked for with the remaining limit among the rows that still match, is
  the next stretch of the window is `ChunkFacts`; its arithmetic is `ChunkSizes`,
  and that removing the first rows of an order leaves the rest of it in order is
  `SortedTail`. An UpdateOne or UpsertOne has its one row or none (`OneRow`), and
  the id of an insert, drawn or left over from a failed attempt, is nobody's row
  (`NewIds`). Then a call's beginning maps to `Ask`, its commit to `Update`,
  `Delete`, `Modify` or `Create`, its failure to `Refuse`, all else to no step.
  The hypothesis is `Unbounded`: tidy deletes, and a count that does not reach the
  model's bound.

**`MigrateProofs`**, for any runners, processes and versions.

* `MigrationsRunOnce` (ExactlyOnce), whatever races, fails, crashes or rolls back.
  `MigrateInv`: who works holds the lock and nobody else does (`LockInv`), what is
  about to be saved is the committed log with the one change that is missing from
  it (`ReadyToCommit`), the log has no version twice and the schema is what it says
  (`LogInv`).
* `UpAlwaysAppliesAll` (UpAppliesAll): what Up has not found in the log it still
  has in hand (`UpCovers`).
* `MigrationsRunInOrder` (AppliedInOrder), under `InitialSegments`: below the version
  a runner has in hand everything is in the log or comes first (`Ahead`).

**`LinkProofs`**, for any number of link fields, links that share documents, and any
budget of writes:
`NoLinkIsPhantom`, `ChecksHoldAtPut`, `UpdateIsAllOrNothing`, `LinksAreRecorded`,
`DeleteAlwaysCascades`, `FetchAlwaysResolves`, each for the property it is named
after. `LinkInv` says that a Value is the struct of a link to the same document
(`Pointers`), where a call can stand (`Shape`), that a live parent's links
lead to stored children and that a Save has stored the linked children it does not
write still (`Rows`, `Covered`), that a value with an ID has it in some link to
its document while no call has failed (`Numbered`), what a cascading delete is done with
(`Undone`), and which fields a read is through with (`Resolving`).

**`RegistryProofs`**, for any number of processes, names, documents, lookups and
registrations.

* `LookupFindsRegistered`, `FullTextIsExact`: no assumption on the deployment.
  `LookInv` relates what is published, cached and read to what the lookup began
  with, but for the race; `EntryInv` and `FTSStays` say that the full-text index,
  once there, follows the documents.
* `FoundIsUsable`, `RegisterAlwaysEstablishes`, under `Orderly`. `IndexInv`: an index has the kind everybody asks for (`KindOK`), what
  was found invalid has not become valid and the reverse (`StillInvalid`,
  `StillClean`), the indexes Register is through with are valid (`ThroughValid`).

The attempt to prove LookupAfterRegister found that `raced` was cleared by any later
publication, although the stale cache entry may be stored after it; it takes three
registrations to see, and the run now makes three.

**`TrackingProofs`**: `SnapshotIsAlwaysRow`, `ChangeDetectorsAgree`,
`RevertAlwaysRestores`, for every set of values and every rounding `Float`. `TrackInv`: outside a commit the
snapshot is the row (`InStep`), during one it is what is about to be committed
(`AheadBy`).

**`AttachmentProofs`**: `FilesAreWhole`, `OrphansAreExcused`, `ReferencesAreWhole`,
for any sessions, documents and contents, in slices or not, with hooks or without.
`AttachInv`: a file is linked when its copy
is complete (`TempFull`); the bytes that are there are kept by an excuse, by a
document no open transaction has deleted, or by a session at work on them
(`FilesKept`); and for documents that share nothing, rows, hands and uploads are
disjoint (`AloneInv`).

**`IdGenProofs`**, for any clock readings of 48 bits in any order, any seeds and
draws, and any number of ids.

* `IdsAlwaysIncrease`: `Spec => IdsIncrease`. `IdInv` says that the id is the
  encoding of the generator's timestamp and randomness, whose types it includes.
  Adding a step without overflow makes the ten bytes larger in their first
  difference; a later millisecond makes the ten digits of the timestamp larger; and
  the encoding keeps both orders.
* `WireFormatAlways`: `Spec => []WireFormat`, digit by digit. The definitions are
  recursive or quantify over bits, but of fixed width: ten carries, 26 digits, 130
  bits. They are written out, so that no induction is needed.

The lemmas about `Ascending` are with the proofs that use them: it is a
sequence of exactly the elements, strictly increasing, the only one, and a stretch of
it is the order of its elements.

**Assumptions.** The proofs use the ASSUMEs of the modules: types of the setups,
finite sets of ids and versions, positive bounds, link fields in the order of the
links, links that are filled at first, and other clients' links, among the parent's,
`Nobody` and `NoId` apart from the real values, an upsert whose defaults have a key,
timestamps of 48 bits, and tables that satisfy their unique index to begin with.
Some theorems have a hypothesis, each a place where the code does something else
beyond it (see above): `SQLite` (the backend), `Orderly` (deployments that take
turns over shared indexes, and one definition per name), `InitialSegments` (later
deployments add later migrations), `Unbounded` (no soft delete under IncludeDeleted,
no Skip over several chunks). The MC modules ASSUME the last three, so that TLC
evaluates them on the setups of the runs; `crud_sqlite` is the instance of the
first.

**Only model-checked.**

* Liveness: EveryCallReturns of `Crud`, `Migrate` and `QueryWrites` (fairness and
  ENABLED are beyond the prover).
* The six properties of `QuerySet`. They are about the translation of condition
  trees, RECURSIVE operators that cost the prover its SMT backend, and what these
  compute for every tree takes an induction over data that the installed provers
  cannot do.

## Not modelled

JSON conversion, reflection and URL parsing carry no state. Of the generated SQL
the WHERE clause, the cursors and GROUP BY are modelled; text operators, DDL and
the other aggregations, which are single statements, are not. Of full-text search
the set-up and the statement are modelled; the ranking, and what a term matches,
are the databases'. `PROJECT.json` gives the reason
for each component; the plan below takes up those that have behaviour.

## Plan

In order of weight:

1. What can be proved of `QuerySet` without its translation: pages that are sorted
   by `_id` (`StablePagination`), with the rows a page may hold as a hypothesis; it
   takes a module of pages apart from the module of conditions.
2. The fetch modes and the nesting depth of link hydration, against the set of
   documents within reach.
3. ForUpdate queries, and the write terminals inside a transaction of the
   application, as calls of `Crud`.
