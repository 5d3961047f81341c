------------------------------- MODULE Links -------------------------------
(***************************************************************************)
(* A parent document with links to children: Save under LinkWrite writes   *)
(* the children and then the parent, Delete under LinkDelete deletes them  *)
(* in that order, and the read operations hydrate the links, field by      *)
(* field.  One client does so with one struct in hand, on the *DB or in a  *)
(* transaction, retries what failed, and meets the single writes of other  *)
(* clients.                                                                *)
(*                                                                         *)
(* Two links may lead to one child.  A struct is known by a position: the  *)
(* links that share a pointer have the position of the first as their      *)
(* value, links to one child that were loaded apart have their own.        *)
(*                                                                         *)
(* The backend is SQLite: while a transaction is open nobody else writes.  *)
(* A version number is the _rev of a collection with UseRevision; without  *)
(* it every version is 1.  The documents embed SoftDelete; one that does   *)
(* not is deleted as under HardDelete.                                     *)
(***************************************************************************)
EXTENDS Naturals, SequencesExt

CONSTANTS
    Parent,
    Slots,   \* the children its links lead to, in the order of its link fields
    FieldOf, \* FieldOf[k]: the field of link k; several links make a slice
    UseRevisions, \* the settings explored: a subset of BOOLEAN
    NewLinks,   \* bound: the links that are filled in the parent at first
    OtherLinks, \* bound: the links of the parents that other clients save
    MaxVer   \* bound: the writes of the model, each with a version of its own

Children == ToSet(Slots)
Docs == Children \cup {Parent}
Fields == {FieldOf[k] : k \in DOMAIN Slots}

(* A cascade goes through the link fields, then comes to the parent.        *)
AtParent == Len(Slots) + 1
DocAt(k) == IF k \in DOMAIN Slots THEN Slots[k] ELSE Parent

ASSUME SlotsAssumption  == Slots \in Seq(Children) /\ Parent \notin Children
ASSUME FieldOfAssumption ==
    /\ FieldOf \in [DOMAIN Slots -> Nat]
    /\ \A i, j \in DOMAIN Slots : i <= j => FieldOf[i] <= FieldOf[j]
ASSUME UseRevisionsAssumption == UseRevisions \subseteq BOOLEAN
ASSUME NewLinksAssumption == NewLinks \subseteq SUBSET DOMAIN Slots
ASSUME OtherLinksAssumption == OtherLinks \subseteq SUBSET DOMAIN Slots
ASSUME MaxVerAssumption == MaxVer \in Nat \ {0}

VARIABLES
    useRevision, \* the collections' settings
    row,      \* row[d]: the committed document, ver = 0 if there is none
    born,     \* the documents that have ever been committed
    nextVer,  \* the next fresh version, and a count of the writes
    tx,       \* "none", "own" (opened by the call) or "user" (RunInTransaction)
    buf,      \* the database as the open transaction sees it
    mem,      \* mem[k]: the struct of position k: has it an ID, which version, deleted
    slot,     \* slot[k]: the Link: has it an ID, which struct is its Value (0: nil),
              \* is it Loaded
    pc, call, \* the call in progress
    todo,     \* what it has yet to write, delete or resolve, by positions
    cur,      \* what it knows of the first of them: the version its Get returned,
              \* whether it compared it, whether this is an insert
    wrote,    \* the documents it has committed one by one
    revived,  \* those another client saved since a delete was done with them
    outcome,  \* "nil" or "err": what the last call returned
    clean     \* no call on this struct has failed since it was built or loaded

db   == <<row, born, tx, buf>>
vars == <<useRevision, row, born, nextVer, tx, buf, mem, slot, pc, call, todo, cur, wrote, revived, outcome, clean>>

Row   == [ver: 0..MaxVer, del: BOOLEAN, links: SUBSET DOMAIN Slots]
NoRow == [ver |-> 0, del |-> FALSE, links |-> {}]
NoStruct == [id |-> FALSE, ver |-> 0, del |-> FALSE]
NoLink == [id |-> FALSE, value |-> 0, loaded |-> FALSE]
NoCall == [op |-> "fetch", cascade |-> FALSE, ignore |-> FALSE, hard |-> FALSE,
           update |-> FALSE, inTx |-> FALSE, asked |-> {}]
Closed == [d \in Docs |-> NoRow]
Unread == [ver |-> 0, checked |-> FALSE, insert |-> FALSE]
Calls == [op: {"save", "delete", "fetch"}, cascade: BOOLEAN, ignore: BOOLEAN,
          hard: BOOLEAN, update: BOOLEAN, inTx: BOOLEAN, asked: SUBSET Fields]

TypeOK ==
    /\ useRevision \in UseRevisions
    /\ row \in [Docs -> Row]
    /\ born \subseteq Docs
    /\ nextVer \in 1..(MaxVer + 1)
    /\ tx \in {"none", "own", "user"}
    /\ buf \in [Docs -> Row]
    /\ mem \in [1..AtParent -> [id: BOOLEAN, ver: 0..MaxVer, del: BOOLEAN]]
    /\ slot \in [DOMAIN Slots -> [id: BOOLEAN, value: {0} \cup DOMAIN Slots, loaded: BOOLEAN]]
    /\ pc \in {"idle", "check", "put", "after", "get", "delete", "hydrate"}
    /\ call \in Calls
    /\ todo \subseteq 1..AtParent
    /\ cur \in [ver: 0..MaxVer, checked: BOOLEAN, insert: BOOLEAN]
    /\ wrote \subseteq Docs /\ revived \subseteq Docs
    /\ outcome \in {"nil", "err"}
    /\ clean \in BOOLEAN

(* The first of the positions K that lead to the child of position k.       *)
Sharing(K, k) == Min({j \in K : Slots[j] = Slots[k]})

(* A new parent, some of its links filled with NewLink: with new children, or
   with loaded ones.                                                        *)
Init ==
    /\ useRevision \in UseRevisions
    /\ \E old \in SUBSET Children, linked \in NewLinks :
        /\ row = [d \in Docs |-> IF d \in old THEN [NoRow EXCEPT !.ver = 1] ELSE NoRow]
        /\ born = old
        /\ mem = [k \in 1..AtParent |->
                    IF k \in linked /\ Slots[k] \in old /\ Sharing(linked, k) = k
                      THEN [NoStruct EXCEPT !.id = TRUE, !.ver = 1]
                      ELSE NoStruct]
        /\ slot = [k \in DOMAIN Slots |->
                    IF k \in linked
                      THEN [id |-> Slots[k] \in old, value |-> Sharing(linked, k), loaded |-> TRUE]
                      ELSE NoLink]
    /\ nextVer = 2
    /\ tx = "none" /\ buf = Closed
    /\ pc = "idle"
    /\ call = NoCall
    /\ todo = {} /\ cur = Unread /\ wrote = {} /\ revived = {}
    /\ outcome = "nil" /\ clean = TRUE

-----------------------------------------------------------------------------
View == IF tx = "none" THEN row ELSE buf

(* The document at hand, its struct, and what comes after it.               *)
Current == DocAt(Min(todo))
Struct  == IF Min(todo) \in DOMAIN Slots THEN slot[Min(todo)].value ELSE AtParent
Rest    == todo \ {Min(todo)}

(* A statement that leaves document d as v: in the transaction if there is
   one, committed by itself otherwise.                                      *)
Write(d, v) ==
    IF tx = "none"
      THEN /\ row' = [row EXCEPT ![d] = v]
           /\ born' = IF v = NoRow THEN born ELSE born \cup {d}
           /\ wrote' = wrote \cup {d}
           /\ UNCHANGED <<tx, buf>>
      ELSE /\ buf' = [buf EXCEPT ![d] = v]
           /\ UNCHANGED <<row, born, tx, wrote>>

(* A revision is drawn where the collection uses them; every write counts.  *)
Version == IF useRevision THEN nextVer ELSE 1
Fresh   == nextVer <= MaxVer /\ nextVer' = nextVer + 1

(* Commit, of a transaction the call opened or of the client's.             *)
CommitTx ==
    /\ row' = buf
    /\ born' = born \cup {d \in Docs : buf[d] # NoRow}
    /\ tx' = "none" /\ buf' = Closed

Start(c) ==
    /\ pc = "idle"
    /\ call' = c
    /\ outcome' = "nil" /\ UNCHANGED <<wrote, revived>>

(* The end of a call.                                                       *)
Return(o) == pc' = "idle" /\ outcome' = o /\ call' = NoCall /\ wrote' = {} /\ revived' = {}

(* It ends in an error, which the structs will show.                        *)
Failed == Return("err") /\ todo' = {} /\ cur' = Unread /\ clean' = FALSE

(* Mutant: a child that cannot be written is passed over.                   *)
FailPassesOver ==
    IF pc = "put" /\ Current # Parent
      THEN /\ slot' = [slot EXCEPT ![Min(todo)].id = TRUE]
           /\ pc' = "check" /\ todo' = Rest
           /\ UNCHANGED <<useRevision, db, nextVer, mem, call, cur, wrote, revived, outcome, clean>>
      ELSE /\ pc # "idle" /\ Failed
           /\ tx' = "none" /\ buf' = Closed
           /\ UNCHANGED <<useRevision, row, born, nextVer, mem, slot>>

(* Mutant: a call that fails commits the transaction it opened.             *)
FailCommits ==
    /\ pc # "idle" /\ Failed
    /\ IF tx = "own" THEN CommitTx ELSE tx' = "none" /\ buf' = Closed /\ UNCHANGED <<row, born>>
    /\ UNCHANGED <<useRevision, nextVer, mem, slot>>

(* Any error of a step: the transaction rolls back, the call's own or the
   client's, whose closure returns the error; the structs keep what they were
   given.                                                                   *)
Fail ==
    /\ pc # "idle" /\ Failed
    /\ pc \in {"check", "hydrate"} /\ todo = {} => tx = "own"   \* only a Commit is left to fail
    /\ tx' = "none" /\ buf' = Closed
    /\ UNCHANGED <<useRevision, row, born, nextVer, mem, slot>>

(* Every document is done: the call returns nil.                            *)
Finish ==
    /\ pc \in {"check", "get", "hydrate"} /\ todo = {}
    /\ IF tx = "own" THEN CommitTx ELSE UNCHANGED db
    /\ Return("nil")
    /\ UNCHANGED <<useRevision, nextVer, mem, slot, todo, cur, clean>>

-----------------------------------------------------------------------------
(* Mutant: an update is never wrapped in a transaction.                     *)
AutoWrapNever(c) == FALSE

(* updateCore opens a transaction ahead of the cascade.                     *)
AutoWrap(c) == useRevision /\ c.update /\ ~c.ignore /\ tx = "none"

(* Mutant: the parent is written ahead of its children.                     *)
WriteOrderParentFirst(c) ==
    {0} \cup {k \in DOMAIN Slots : c.cascade /\ slot[k].value # 0}

WriteOrder(c) == {k \in DOMAIN Slots : c.cascade /\ slot[k].value # 0} \cup {AtParent}

(* Save with LinkWrite or LinkIgnore.  Linked documents that it does not write
   "must already exist in the database".                                    *)
Save(cascade, ignore) ==
    LET c == [NoCall EXCEPT !.op = "save", !.cascade = cascade, !.ignore = ignore,
                            !.update = mem[AtParent].id, !.inTx = (tx = "user")]
    IN  /\ Start(c)
        /\ \A k \in DOMAIN Slots :
                slot[k].id /\ ~(cascade /\ slot[k].value # 0) => View[Slots[k]] # NoRow
        /\ IF AutoWrap(c) THEN tx' = "own" /\ buf' = row ELSE UNCHANGED <<tx, buf>>
        /\ todo' = WriteOrder(c)
        /\ pc' = "check"
        /\ UNCHANGED <<useRevision, row, born, nextVer, mem, slot, cur, clean>>

(* IgnoreRevision is the parent's only.                                     *)
Checked == useRevision /\ mem[Struct].id /\ ~(Current = Parent /\ call.ignore)

(* writeDocCore up to the Put: hooks, revision, ID.                         *)
Check ==
    LET d == Current IN
    /\ pc = "check" /\ todo # {}
    /\ Checked => View[d] # NoRow /\ View[d].ver = mem[Struct].ver
    /\ Fresh
    /\ cur' = [ver |-> View[d].ver, checked |-> Checked, insert |-> ~mem[Struct].id]
    /\ mem' = [mem EXCEPT ![Struct].id = TRUE, ![Struct].ver = Version]
    /\ pc' = "put"
    /\ UNCHANGED <<useRevision, db, slot, call, todo, wrote, revived, outcome, clean>>

(* What the struct encodes to: a Link is its ID.                            *)
Encoded(d, ver, del) ==
    [ver |-> ver, del |-> del,
     links |-> IF d = Parent THEN {k \in DOMAIN Slots : slot[k].id} ELSE {}]

Put ==
    /\ pc = "put"
    /\ Write(Current, Encoded(Current, mem[Struct].ver, mem[Struct].del))
    /\ pc' = "after"
    /\ UNCHANGED <<useRevision, nextVer, mem, slot, call, todo, cur, revived, outcome, clean>>

(* The After hook passed; the ID of an inserted child goes into the Link it
   was reached by, and into no other.                                       *)
After ==
    /\ pc = "after"
    /\ slot' = IF Current # Parent /\ cur.insert
                 THEN [slot EXCEPT ![Min(todo)].id = TRUE]
                 ELSE slot
    /\ todo' = Rest /\ cur' = Unread
    /\ pc' = "check"
    /\ UNCHANGED <<useRevision, db, nextVer, mem, call, wrote, revived, outcome, clean>>

-----------------------------------------------------------------------------
(* Delete with LinkDelete or LinkIgnore.                                    *)
Delete(cascade, ignore, hard) ==
    /\ mem[AtParent].id
    /\ Start([NoCall EXCEPT !.op = "delete", !.cascade = cascade, !.ignore = ignore,
                            !.hard = hard, !.inTx = (tx = "user")])
    /\ todo' = {k \in DOMAIN Slots : cascade /\ slot[k].id} \cup {AtParent}
    /\ pc' = "get"
    /\ UNCHANGED <<useRevision, db, nextVer, mem, slot, cur, clean>>

(* A child is read from the database, the parent is the struct in hand.     *)
Get ==
    LET d == Current IN
    /\ pc = "get" /\ todo # {}
    /\ d # Parent => View[d] # NoRow
    /\ cur' = [Unread EXCEPT !.ver = IF d = Parent THEN mem[AtParent].ver ELSE View[d].ver]
    /\ pc' = "delete"
    /\ UNCHANGED <<useRevision, db, nextVer, mem, slot, call, todo, wrote, revived, outcome, clean>>

(* A child that is gone is passed over.                                     *)
AlreadyDeleted ==
    LET d == Current IN
    /\ pc = "get" /\ todo # {} /\ d # Parent /\ View[d] = NoRow
    /\ todo' = Rest /\ revived' = revived \ {d}
    /\ UNCHANGED <<useRevision, db, nextVer, mem, slot, pc, call, cur, wrote, outcome, clean>>

(* Mutant: HardDelete is not forwarded to the children.                     *)
SoftPathOfChild(d) == ~(call.hard /\ d = Parent)

SoftPath(d) == ~call.hard

(* softDelete: its check and its write are one transaction.  The struct is
   marked before the write, which may fail.                                 *)
MarkDeleted(d) ==
    /\ pc = "delete" /\ SoftPath(d)
    /\ useRevision /\ ~call.ignore => View[d] # NoRow /\ View[d].ver = cur.ver
    /\ Fresh
    /\ mem' = IF d = Parent
                THEN [mem EXCEPT ![AtParent].ver = Version, ![AtParent].del = TRUE]
                ELSE mem

SoftDelete ==
    LET d == Current IN
    /\ MarkDeleted(d)
    /\ Write(d, Encoded(d, Version, TRUE))
    /\ todo' = Rest /\ cur' = Unread /\ revived' = revived \ {d}
    /\ pc' = "get"
    /\ UNCHANGED <<useRevision, slot, call, outcome, clean>>

SoftDeleteFails ==
    /\ MarkDeleted(Current) /\ Failed
    /\ tx' = "none" /\ buf' = Closed
    /\ UNCHANGED <<useRevision, row, born, slot>>

HardDelete ==
    LET d == Current IN
    /\ pc = "delete" /\ ~SoftPath(d)
    /\ Write(d, NoRow)
    /\ todo' = Rest /\ cur' = Unread /\ revived' = revived \ {d}
    /\ pc' = "get"
    /\ UNCHANGED <<useRevision, nextVer, mem, slot, call, outcome, clean>>

-----------------------------------------------------------------------------
Decoded(d) == [id |-> TRUE, ver |-> View[d].ver, del |-> View[d].del]

(* FindByID and Refresh, soft-deleted documents included: a struct whose links
   are IDs, then the hydration of the fields asked for, which are those tagged
   eager, all of them, those named or none.                                 *)
FindByID(asked) ==
    LET links == View[Parent].links IN
    /\ View[Parent] # NoRow
    /\ Start([NoCall EXCEPT !.asked = asked])
    /\ mem' = [k \in 1..AtParent |-> IF k = AtParent THEN Decoded(Parent) ELSE NoStruct]
    /\ slot' = [k \in DOMAIN Slots |-> [id |-> k \in links, value |-> 0, loaded |-> FALSE]]
    /\ clean' = TRUE
    /\ todo' = {k \in links : FieldOf[k] \in asked}
    /\ pc' = "hydrate"
    /\ UNCHANGED <<useRevision, db, nextVer, cur>>

(* collectLinkSlot: the links to resolve.                                   *)
Unresolved == {k \in DOMAIN Slots : slot[k].id /\ ~slot[k].loaded}

FetchAllLinks ==
    /\ Start([NoCall EXCEPT !.asked = Fields])
    /\ todo' = Unresolved
    /\ pc' = "hydrate"
    /\ UNCHANGED <<useRevision, db, nextVer, mem, slot, cur, clean>>

(* Mutant: an ID without a row is left alone.                               *)
DanglingNever(K) == {}

Dangling(K) == {k \in K : View[Slots[k]] = NoRow}

(* One IN query for the first field that is left.  What it finds is hydrated,
   links of one ID with one struct, even if something is missing; that ends the
   call.                                                                    *)
Hydrate ==
    LET field == {k \in todo : FieldOf[k] = FieldOf[Min(todo)]}
        found == {k \in field : View[Slots[k]] # NoRow}
    IN  /\ pc = "hydrate" /\ todo # {}
        /\ mem' = [k \in 1..AtParent |->
                     IF k \in found /\ Sharing(found, k) = k THEN Decoded(Slots[k]) ELSE mem[k]]
        /\ slot' = [k \in DOMAIN Slots |->
                       IF k \in found
                         THEN [id |-> TRUE, value |-> Sharing(found, k), loaded |-> TRUE]
                         ELSE slot[k]]
        /\ IF Dangling(field) = {}
             THEN todo' = todo \ field /\ UNCHANGED <<pc, call, wrote, revived, outcome>>
             ELSE todo' = {} /\ Return("err")
        /\ UNCHANGED <<useRevision, db, nextVer, cur, clean>>

(* FetchLink and FetchLinkField resolve one link after the other with a Get. *)
FetchLink(k) ==
    /\ k \in Unresolved
    /\ pc = "idle" /\ Return(IF View[Slots[k]] = NoRow THEN "err" ELSE "nil")
    /\ IF View[Slots[k]] = NoRow
         THEN UNCHANGED <<mem, slot>>
         ELSE /\ mem' = [mem EXCEPT ![k] = Decoded(Slots[k])]
              /\ slot' = [slot EXCEPT ![k].value = k, ![k].loaded = TRUE]
    /\ UNCHANGED <<useRevision, db, nextVer, todo, cur, clean>>

-----------------------------------------------------------------------------
BeginTx ==
    /\ pc = "idle" /\ tx = "none"
    /\ tx' = "user" /\ buf' = row
    /\ UNCHANGED <<useRevision, row, born, nextVer, mem, slot, pc, call, todo, cur, wrote, revived, outcome, clean>>

EndTx ==
    /\ pc = "idle" /\ tx = "user"
    /\ \/ CommitTx /\ UNCHANGED clean
       \/ tx' = "none" /\ buf' = Closed /\ clean' = FALSE /\ UNCHANGED <<row, born>>
    /\ UNCHANGED <<useRevision, nextVer, mem, slot, pc, call, todo, cur, wrote, revived, outcome>>

(* Another client saves one document or deletes it.  Its Put is an upsert: from
   a stale copy, without a check or under IgnoreRevision, it brings back what
   was deleted.  It links to documents that exist or have existed.          *)
OtherSaves(d, del, links) ==
    /\ tx = "none" /\ d \in born
    /\ \A k \in links : d = Parent /\ Slots[k] \in born
    /\ Fresh
    /\ row' = [row EXCEPT ![d] = [ver |-> Version, del |-> del, links |-> links]]
    /\ revived' = IF pc \in {"get", "delete"} THEN revived \cup {d} ELSE revived
    /\ UNCHANGED <<useRevision, born, tx, buf, mem, slot, pc, call, todo, cur, wrote, outcome, clean>>

OtherDeletes(d) ==
    /\ tx = "none" /\ row[d] # NoRow
    /\ row' = [row EXCEPT ![d] = NoRow]
    /\ UNCHANGED <<useRevision, born, nextVer, tx, buf, mem, slot, pc, call, todo, cur, wrote, revived, outcome, clean>>

Next ==
    \/ \E cascade, hard \in BOOLEAN, ignore \in {FALSE, useRevision} :
        Save(cascade, ignore) \/ Delete(cascade, ignore, hard)
    \/ Check \/ Put \/ After \/ Get \/ AlreadyDeleted \/ SoftDelete \/ SoftDeleteFails \/ HardDelete
    \/ Finish \/ Fail
    \/ \E asked \in SUBSET Fields : FindByID(asked)
    \/ FetchAllLinks \/ Hydrate
    \/ \E k \in DOMAIN Slots : FetchLink(k)
    \/ BeginTx \/ EndTx
    \/ \E d \in Docs, del \in BOOLEAN, links \in OtherLinks : OtherSaves(d, del, links)
    \/ \E d \in Docs : OtherDeletes(d)

Spec == Init /\ [][Next]_vars

-----------------------------------------------------------------------------
(* The documents a stored parent refers to.                                 *)
Linked(r) == {Slots[k] : k \in r.links}

(* A stored, live parent refers only to children that were stored too: they are
   written first, a failed or rolled-back cascade stores no parent, and no
   retry of it, however far the failed one had come, stores a reference to a
   child whose insert was undone.                                           *)
NoPhantomLink == ~row[Parent].del => Linked(row[Parent]) \subseteq born

(* LinkWrite stores a reference to every linked document, provided no earlier
   call with the same struct failed.                                        *)
LinksRecorded ==
    [][pc = "put" /\ pc' = "after" /\ Current = Parent /\ call.cascade /\ clean
        => {Slots[k] : k \in {j \in DOMAIN Slots : slot[j].value # 0}}
                \subseteq Linked(View'[Parent])]_vars

(* A revision-checked update that returns an error has stored nothing, of the
   parent or of its children.                                               *)
FailedUpdateStoresNothing ==
    [][pc # "idle" /\ outcome' = "err" /\ call.op = "save" /\ call.update
       /\ useRevision /\ ~call.ignore => wrote = {} /\ row' = row]_vars

StillCurrent == View[Current].ver = cur.ver

(* In a transaction, and in an update that opens its own, what a document's
   revision was compared with is what the Put replaces.  It does not hold of an
   insert on the *DB or an update under IgnoreRevision, whose children
   saveSingleLinkedValue compares and writes in two statements.             *)
CheckHoldsAtPut ==
    pc = "put" /\ cur.checked /\ (call.inTx \/ (call.update /\ ~call.ignore)) => StillCurrent

(* When Delete under LinkDelete returns nil, the parent and its children are
   gone, and not merely marked when HardDelete was asked for, except those
   another client saved after deleteDocCore was done with them.             *)
DeleteCascades ==
    [][pc = "get" /\ pc' = "idle" /\ outcome' = "nil" /\ call.op = "delete" /\ call.cascade
        => \A d \in {Parent} \cup {Slots[k] : k \in {j \in DOMAIN Slots : slot[j].id}} :
                d \in revived \/ View[d] = NoRow \/ (View[d].del /\ ~call.hard)]_vars

(* A read that returns nil, its fields resolved one after the other while other
   clients write, leaves no link of the fields it was asked for unresolved.  *)
FetchResolves ==
    [][pc = "hydrate" /\ pc' = "idle" /\ outcome' = "nil"
        => \A k \in DOMAIN Slots : FieldOf[k] \in call.asked /\ slot'[k].id => slot'[k].loaded]_vars
=============================================================================
