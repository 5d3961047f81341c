------------------------------ MODULE Tracking ------------------------------
(***************************************************************************)
(* Change tracking: a struct that embeds document.Tracked, the snapshot it *)
(* carries, and the stored row, through loads, edits, writes that fail at  *)
(* each of their points, Refresh and Revert, while other clients write the *)
(* same document.                                                          *)
(*                                                                         *)
(* A document is a field of the application (val), the soft-delete mark    *)
(* (del) and what Den stamps on a write (rev): the _rev, or, in a          *)
(* collection without revisions, the _updated_at.  In JSON the mark is     *)
(* omitted when it is not set.                                             *)
(***************************************************************************)
EXTENDS Integers

CONSTANTS
    Vals,    \* values of the application's field, numbers
    Float,   \* Float[v]: the float64 next to v
    MaxRev,  \* bound: stamps drawn in a behaviour
    Setups   \* [backend, revision]: the situations explored

ASSUME SetupsAssumption ==
    Setups \subseteq [backend: {"sqlite", "postgres"}, revision: BOOLEAN]
ASSUME BoundsAssumption == MaxRev \in Nat /\ 0 \in Vals
ASSUME FloatAssumption == Float \in [Vals -> Vals]

VARIABLES
    setup,
    row,      \* the committed document
    fresh,    \* no document has been given the id yet
    nextRev,
    mem,      \* the struct in hand
    snap,     \* its snapshot: a document and the form of its bytes
    buf,      \* the version Put in an open transaction
    pc, call, \* where the client is inside which call
    behind,   \* history: others have written since the struct was in step
    undone    \* history: a Put of the struct was rolled back since then

vars == <<setup, row, fresh, nextRev, mem, snap, buf, pc, call, behind, undone>>

Docs   == [rev: Nat, val: Vals, del: BOOLEAN]
NoRow  == [rev |-> 0, val |-> 0, del |-> FALSE]
NoSnap == [doc |-> NoRow, form |-> "none"]
NoCall == [op |-> "none", tx |-> FALSE]

TypeOK ==
    /\ setup \in Setups
    /\ {row, mem, buf} \subseteq Docs
    /\ snap \in [doc: Docs, form: {"none", "go", "jsonb"}]
    /\ pc \in {"idle", "check", "put", "commit"}
    /\ call \in [op: {"none", "insert", "save", "soft"}, tx: BOOLEAN]
    /\ {fresh, behind, undone} \subseteq BOOLEAN /\ nextRev \in 1..(MaxRev + 2)

(* A document is stored or still to be made; the struct is an empty one.    *)
Init ==
    /\ setup \in Setups
    /\ fresh \in BOOLEAN
    /\ row = IF fresh THEN NoRow ELSE [rev |-> 1, val |-> 0, del |-> FALSE]
    /\ nextRev = 2
    /\ mem = NoRow /\ snap = NoSnap /\ buf = NoRow
    /\ pc = "idle" /\ call = NoCall
    /\ behind = FALSE /\ undone = FALSE

-----------------------------------------------------------------------------
(* Conversions.                                                             *)

(* encode's bytes, which captureSnapshot keeps after a write.               *)
Encoded(d) == [doc |-> d, form |-> "go"]

(* The bytes of a stored row: SQLite's json(data) is the text that was put,
   PostgreSQL's data::text the canonical text of a jsonb value.             *)
Stored(d) == [doc |-> d, form |-> IF setup.backend = "sqlite" THEN "go" ELSE "jsonb"]

(* json.Unmarshal into a struct: a field the JSON omits keeps its value.    *)
Decoded(bytes, into) ==
    [bytes.doc EXCEPT !.del = bytes.doc.del \/ into.del]

HasSnapshot == snap.form # "none"

(* IsChanged compares bytes.                                                *)
IsChanged == HasSnapshot /\ snap # Encoded(mem)

(* The fields of a document in a map[string]any, where numbers are float64.  *)
AsMap(d) == {<<"rev", d.rev>>, <<"val", Float[d.val]>>} \cup (IF d.del THEN {<<"del", 1>>} ELSE {})

Names(m) == {p[1] : p \in m}

(* Mutant: only the fields of the current struct are looked at.             *)
GetChangesOfPresent ==
    IF HasSnapshot THEN Names(AsMap(mem) \ AsMap(snap.doc)) ELSE {}

(* The names of the fields whose values differ, or that only one side has.  *)
GetChanges ==
    IF HasSnapshot
      THEN Names(AsMap(mem) \ AsMap(snap.doc)) \cup (Names(AsMap(snap.doc)) \ Names(AsMap(mem)))
      ELSE {}

-----------------------------------------------------------------------------
(* In memory.                                                               *)

InHand == mem.rev # 0 /\ pc = "idle"

Edit(v) ==
    /\ InHand
    /\ mem' = [mem EXCEPT !.val = v]
    /\ UNCHANGED <<setup, row, fresh, nextRev, snap, buf, pc, call, behind, undone>>

(* The application clears DeletedAt.                                        *)
Undelete ==
    /\ InHand
    /\ mem' = [mem EXCEPT !.del = FALSE]
    /\ UNCHANGED <<setup, row, fresh, nextRev, snap, buf, pc, call, behind, undone>>

(* Mutant: Revert decodes over the struct as it is.                         *)
RevertBaseOfStruct == mem

(* Revert zeroes the struct before it decodes.                              *)
RevertBase == NoRow

Revert ==
    /\ InHand /\ HasSnapshot
    /\ mem' = Decoded(snap, RevertBase)
    /\ UNCHANGED <<setup, row, fresh, nextRev, snap, buf, pc, call, behind, undone>>

-----------------------------------------------------------------------------
(* Reads.                                                                   *)

Loaded(into) ==
    /\ pc = "idle" /\ row # NoRow
    /\ mem' = Decoded(Stored(row), into)
    /\ snap' = Stored(row)
    /\ behind' = FALSE /\ undone' = FALSE
    /\ UNCHANGED <<setup, row, fresh, nextRev, buf, pc, call>>

(* FindByID decodes into a new struct, Refresh into the one in hand.        *)
FindByID == Loaded(NoRow)
Refresh  == InHand /\ Loaded(mem)

-----------------------------------------------------------------------------
(* Writes, in a transaction of the application (tx) or on the *DB.          *)

Start(op, tx, at) == call' = [op |-> op, tx |-> tx] /\ pc' = at
Finish == call' = NoCall /\ pc' = "idle"

CanDraw == nextRev <= MaxRev

(* A new struct: hooks, stamps and ID are set before the Put.               *)
Insert(tx, v) ==
    /\ pc = "idle" /\ fresh /\ CanDraw
    /\ fresh' = FALSE
    /\ mem' = [rev |-> nextRev, val |-> v, del |-> FALSE]
    /\ nextRev' = nextRev + 1
    /\ Start("insert", tx, "put")
    /\ UNCHANGED <<setup, row, snap, buf, behind, undone>>

(* updateCore and softDelete open a transaction of their own in a collection
   with revisions.                                                          *)
Write(op, tx) ==
    /\ InHand /\ CanDraw
    /\ Start(op, tx \/ setup.revision, "check")
    /\ UNCHANGED <<setup, row, fresh, nextRev, mem, snap, buf, behind, undone>>

RevMatches == setup.revision => row # NoRow /\ row.rev = mem.rev

(* A collection without revisions is stamped by Save only.                  *)
Stamped == IF setup.revision \/ call.op = "save" THEN nextRev ELSE mem.rev

(* The struct is changed ahead of the Put.                                  *)
Check ==
    /\ pc = "check" /\ RevMatches
    /\ mem' = [mem EXCEPT !.rev = Stamped, !.del = @ \/ call.op = "soft"]
    /\ nextRev' = IF Stamped = nextRev THEN nextRev + 1 ELSE nextRev
    /\ pc' = "put"
    /\ UNCHANGED <<setup, row, fresh, snap, buf, call, behind, undone>>

(* ErrRevisionConflict, ErrNotFound, a hook or validation.                  *)
CheckFails ==
    /\ pc = "check"
    /\ Finish
    /\ UNCHANGED <<setup, row, fresh, nextRev, mem, snap, buf, behind, undone>>

(* Mutant: the snapshot is taken when the document has been encoded.        *)
SnapshotOnError == Encoded(mem)

(* A Put that fails leaves the snapshot alone.                              *)
SnapshotAfterError == snap

(* The Put, and the snapshot after it.  Without a transaction it is final,
   whatever an After hook says.                                             *)
Put ==
    /\ pc = "put"
    /\ snap' = Encoded(mem)
    /\ IF call.tx
         THEN /\ buf' = mem /\ pc' = "commit"
              /\ UNCHANGED <<row, call, behind, undone>>
         ELSE /\ row' = mem /\ behind' = FALSE /\ undone' = FALSE
              /\ Finish /\ UNCHANGED buf
    /\ UNCHANGED <<setup, fresh, nextRev, mem>>

(* The statement is refused; the struct keeps its new stamps.               *)
PutFails ==
    /\ pc = "put"
    /\ snap' = SnapshotAfterError
    /\ Finish
    /\ UNCHANGED <<setup, row, fresh, nextRev, mem, buf, behind, undone>>

Commit ==
    /\ pc = "commit"
    /\ row' = buf /\ buf' = NoRow
    /\ behind' = FALSE /\ undone' = FALSE
    /\ Finish
    /\ UNCHANGED <<setup, fresh, nextRev, mem, snap>>

(* An After hook or the Commit fails, or the closure returns an error: the
   snapshot is not taken back.                                              *)
Rollback ==
    /\ pc = "commit"
    /\ buf' = NoRow /\ undone' = TRUE
    /\ Finish
    /\ UNCHANGED <<setup, row, fresh, nextRev, mem, snap, behind>>

-----------------------------------------------------------------------------
(* The other clients.  On SQLite they wait for an open transaction, on
   PostgreSQL only for one that has written the row.                        *)
OthersMay ==
    /\ row # NoRow
    /\ pc # "commit"
    /\ setup.backend = "sqlite" /\ call.tx => pc = "idle"

OtherSaves(v, del) ==
    /\ OthersMay /\ CanDraw
    /\ row' = [rev |-> nextRev, val |-> v, del |-> del]
    /\ nextRev' = nextRev + 1
    /\ behind' = TRUE
    /\ UNCHANGED <<setup, fresh, mem, snap, buf, pc, call, undone>>

OtherDeletes ==
    /\ OthersMay
    /\ row' = NoRow
    /\ behind' = TRUE
    /\ UNCHANGED <<setup, fresh, nextRev, mem, snap, buf, pc, call, undone>>

-----------------------------------------------------------------------------
Next ==
    \/ FindByID \/ Refresh \/ Undelete \/ Revert
    \/ \E v \in Vals : Edit(v) \/ \E tx \in BOOLEAN : Insert(tx, v)
    \/ \E op \in {"save", "soft"}, tx \in BOOLEAN : Write(op, tx)
    \/ Check \/ CheckFails \/ Put \/ PutFails \/ Commit \/ Rollback
    \/ OtherDeletes
    \/ \E v \in Vals, del \in BOOLEAN : OtherSaves(v, del)

Spec == Init /\ [][Next]_vars

-----------------------------------------------------------------------------
(* The snapshot is what is stored: between calls, whatever writes of the
   struct have failed before their Put, and unless others have written since
   or a Put was rolled back.  Only then does Revert lead back to a struct that
   can be saved.                                                            *)
SnapshotIsRow ==
    pc = "idle" /\ HasSnapshot /\ ~behind /\ ~undone => snap.doc = row

(* The struct differs from the snapshot in a number, by less than a float64
   can tell.                                                                *)
OnlyRounding ==
    mem = [snap.doc EXCEPT !.val = mem.val] /\ Float[mem.val] = Float[snap.doc.val]

(* IsChanged, which compares bytes, misses nothing that GetChanges, which
   compares decoded fields, reports; on SQLite they agree but for a number that
   changed by less than a float64 can tell.                                 *)
ChangesAgree ==
    /\ GetChanges # {} => IsChanged
    /\ setup.backend = "sqlite" /\ IsChanged => GetChanges # {} \/ OnlyRounding

(* Revert undoes every edit, and the marks of a delete that failed: there is
   no change left, and the struct is the stored document again if nobody else
   has written it and no Put of it was rolled back.                         *)
RevertRestores ==
    [][Revert => /\ GetChanges' = {}
                 /\ ~behind /\ ~undone => mem' = row]_vars
=============================================================================
