--------------------------- MODULE TrackingProofs ---------------------------
(***************************************************************************)
(* Proofs about Tracking, for every set of values, every backend and every *)
(* collection, with or without revisions: the snapshot is the stored row   *)
(* unless somebody else wrote or a Put was rolled back, the two change     *)
(* detectors agree but for rounded numbers, and Revert restores.           *)
(***************************************************************************)
EXTENDS Tracking, TLAPS

(* While a Put awaits its commit the snapshot is ahead of the row.          *)
InStep    == pc # "commit" /\ HasSnapshot /\ ~behind /\ ~undone => snap.doc = row
AheadBy   == pc = "commit" => snap.doc = buf
GoOnly    == setup.backend = "sqlite" => snap.form # "jsonb"

(* A call that has yet to draw its stamp has one left within the bound.     *)
StampLeft == pc = "check" => nextRev <= MaxRev + 1

TrackInv == TypeOK /\ InStep /\ AheadBy /\ GoOnly /\ StampLeft

USE BoundsAssumption, SetupsAssumption, FloatAssumption

LEMMA EmptyTypes == NoRow \in Docs /\ NoSnap \in [doc: Docs, form: {"none", "go", "jsonb"}]
<1>1. NoRow \in Docs
  BY DEF NoRow, Docs
<1> QED
  BY <1>1 DEF NoSnap

LEMMA TrackInit == Init => TrackInv
<1> SUFFICES ASSUME Init PROVE TrackInv
  OBVIOUS
<1>1. row \in Docs
  BY EmptyTypes DEF Init, Docs
<1>2. NoCall \in [op: {"none", "insert", "save", "soft"}, tx: BOOLEAN]
  BY DEF NoCall
<1>3. TypeOK
  <2>1. fresh \in BOOLEAN /\ behind \in BOOLEAN /\ undone \in BOOLEAN
    BY DEF Init
  <2>2. pc \in {"idle", "check", "put", "commit"} /\ nextRev \in 1..(MaxRev + 2)
    BY DEF Init
  <2>3. {mem, buf} \subseteq Docs /\ snap \in [doc: Docs, form: {"none", "go", "jsonb"}]
    BY EmptyTypes DEF Init
  <2> QED
    BY <1>1, <1>2, <2>1, <2>2, <2>3 DEF Init, TypeOK
<1>4. snap.form = "none"
  BY DEF Init, NoSnap
<1> QED
  BY <1>3, <1>4 DEF Init, TrackInv, InStep, AheadBy, GoOnly, StampLeft, HasSnapshot

(* A call that is over.                                                     *)
LEMMA FinishType ==
    ASSUME Finish
    PROVE  /\ call' \in [op: {"none", "insert", "save", "soft"}, tx: BOOLEAN]
           /\ pc' = "idle"
BY DEF Finish, NoCall

(* Decoding gives a document again.                                         *)
LEMMA DecodedType ==
    ASSUME NEW d \in Docs, NEW f, NEW into \in Docs
    PROVE  LET new == Decoded([doc |-> d, form |-> f], into) IN
           /\ new \in Docs
           /\ new.rev = d.rev /\ new.val = d.val /\ new.del = (d.del \/ into.del)
BY DEF Decoded, Docs

(* One step keeps the invariant.                                            *)
LEMMA TrackNext == TrackInv /\ [Next]_vars => TrackInv'
<1> SUFFICES ASSUME TrackInv, [Next]_vars PROVE TrackInv'
  OBVIOUS
<1> USE DEF TrackInv, TypeOK, InStep, AheadBy, GoOnly, StampLeft, HasSnapshot
<1>1. ASSUME NEW v \in Vals, Edit(v) PROVE TrackInv'
  BY <1>1 DEF Edit, Docs
<1>2. CASE Undelete
  BY <1>2 DEF Undelete, Docs
<1>3. CASE Revert
  <2>1. mem' \in Docs
    BY <1>3, DecodedType DEF Revert, RevertBase, NoRow, Docs, Decoded
  <2> QED
    BY <1>3, <2>1 DEF Revert
<1>4. ASSUME NEW into \in Docs, Loaded(into) PROVE TrackInv'
  <2>1. mem' \in Docs
    BY <1>4, DecodedType DEF Loaded, Stored
  <2>2. snap' \in [doc: Docs, form: {"none", "go", "jsonb"}] /\ snap'.doc = row
    BY <1>4 DEF Loaded, Stored
  <2> QED
    BY <1>4, <2>1, <2>2 DEF Loaded, Stored
<1>5. ASSUME NEW tx \in BOOLEAN, NEW v \in Vals, Insert(tx, v) PROVE TrackInv'
  <2>1. mem' \in Docs
    BY <1>5 DEF Insert, Docs
  <2>2. call' \in [op: {"none", "insert", "save", "soft"}, tx: BOOLEAN] /\ pc' = "put"
    BY <1>5 DEF Insert, Start
  <2>3. nextRev' \in 1..(MaxRev + 2)
    BY <1>5 DEF Insert, CanDraw
  <2> QED
    BY <1>5, <2>1, <2>2, <2>3 DEF Insert
<1>6. ASSUME NEW op \in {"save", "soft"}, NEW tx \in BOOLEAN, Write(op, tx) PROVE TrackInv'
  <2>1. setup.revision \in BOOLEAN
    OBVIOUS
  <2>2. call' \in [op: {"none", "insert", "save", "soft"}, tx: BOOLEAN] /\ pc' = "check"
    BY <1>6, <2>1 DEF Write, Start
  <2> QED
    <3>1. nextRev' <= MaxRev + 1
      BY <1>6 DEF Write, CanDraw
    <3>2. InStep' /\ AheadBy' /\ GoOnly'
      BY <1>6, <2>2 DEF Write, InHand
    <3>3. TypeOK'
      BY <1>6, <2>2 DEF Write
    <3> QED
      BY <3>1, <3>2, <3>3
<1>7. CASE Check
  <2>1. nextRev \in Nat /\ mem.rev \in Nat /\ mem.del \in BOOLEAN /\ mem \in Docs
    BY DEF Docs
  <2>2. Stamped \in Nat
    BY <2>1 DEF Stamped
  <2>3. (mem.del \/ call.op = "soft") \in BOOLEAN
    OBVIOUS
  <2>4. mem' = [rev |-> Stamped, val |-> mem.val, del |-> mem.del \/ call.op = "soft"]
    BY <1>7, <2>1 DEF Check, Docs
  <2>5. mem' \in Docs
    BY <2>1, <2>2, <2>3, <2>4 DEF Docs
  <2> QED
    BY <1>7, <2>5 DEF Check
<1>8. CASE CheckFails
  BY <1>8, FinishType DEF CheckFails
<1>9. CASE Put
  <2>1. snap' \in [doc: Docs, form: {"none", "go", "jsonb"}] /\ snap'.doc = mem
        /\ snap'.form = "go"
    BY <1>9 DEF Put, Encoded
  <2>2. CASE call.tx
    BY <1>9, <2>1, <2>2 DEF Put
  <2>3. CASE ~call.tx
    BY <1>9, <2>1, <2>3, FinishType DEF Put
  <2> QED
    BY <2>2, <2>3
<1>10. CASE PutFails
  BY <1>10, FinishType DEF PutFails, SnapshotAfterError
<1>11. CASE Commit
  BY <1>11, FinishType, EmptyTypes DEF Commit
<1>12. CASE Rollback
  BY <1>12, FinishType, EmptyTypes DEF Rollback
<1>13. CASE OtherDeletes
  BY <1>13, EmptyTypes DEF OtherDeletes, OthersMay
<1>14. ASSUME NEW v \in Vals, NEW del \in BOOLEAN, OtherSaves(v, del) PROVE TrackInv'
  BY <1>14 DEF OtherSaves, OthersMay, CanDraw, Docs
<1>15. CASE UNCHANGED vars
  BY <1>15 DEF vars
<1> QED
  BY <1>1, <1>2, <1>3, <1>4, <1>5, <1>6, <1>7, <1>8, <1>9, <1>10, <1>11, <1>12,
     <1>13, <1>14, <1>15, EmptyTypes DEF Next, FindByID, Refresh

LEMMA TrackAlways == Spec => []TrackInv
BY TrackInit, TrackNext, PTL DEF Spec

-----------------------------------------------------------------------------
(* In every behaviour, between calls, the snapshot that Track, FindByID and a
   successful write leave in the struct is the stored document, unless others
   have written since or a Put was rolled back: captureSnapshot runs only
   where the bytes it keeps are, or will be, the row's.                     *)
THEOREM SnapshotIsAlwaysRow == Spec => []SnapshotIsRow
<1>1. TrackInv => SnapshotIsRow
  BY DEF TrackInv, InStep, SnapshotIsRow
<1> QED
  BY <1>1, TrackAlways, PTL

(* GetChanges sees no difference only where there is none but rounding.     *)
LEMMA ChangedFields ==
    ASSUME NEW d \in Docs, NEW e \in Docs
    PROVE  d.rev = e.rev /\ Float[d.val] = Float[e.val] /\ d.del = e.del <=>
               Names(AsMap(d) \ AsMap(e)) \cup (Names(AsMap(e)) \ Names(AsMap(d))) = {}
<1> DEFINE Same == d.rev = e.rev /\ Float[d.val] = Float[e.val] /\ d.del = e.del
<1>1. AsMap(d) = {<<"rev", d.rev>>, <<"val", Float[d.val]>>} \cup (IF d.del THEN {<<"del", 1>>} ELSE {})
  BY DEF AsMap
<1>2. AsMap(e) = {<<"rev", e.rev>>, <<"val", Float[e.val]>>} \cup (IF e.del THEN {<<"del", 1>>} ELSE {})
  BY DEF AsMap
<1>3. ASSUME ~Same
      PROVE  Names(AsMap(d) \ AsMap(e)) \cup (Names(AsMap(e)) \ Names(AsMap(d))) # {}
  <2>1. CASE d.rev # e.rev
    <3>1. <<"rev", d.rev>> \in AsMap(d) \ AsMap(e)
      BY <1>1, <1>2, <2>1
    <3> QED
      BY <3>1 DEF Names
  <2>2. CASE Float[d.val] # Float[e.val]
    <3>1. <<"val", Float[d.val]>> \in AsMap(d) \ AsMap(e)
      BY <1>1, <1>2, <2>2
    <3> QED
      BY <3>1 DEF Names
  <2>3. CASE d.del /\ ~e.del
    <3>1. <<"del", 1>> \in AsMap(d) \ AsMap(e)
      BY <1>1, <1>2, <2>3
    <3> QED
      BY <3>1 DEF Names
  <2>4. CASE ~d.del /\ e.del
    <3>1. <<"del", 1>> \in AsMap(e) /\ AsMap(d) = {<<"rev", d.rev>>, <<"val", Float[d.val]>>}
      BY <1>1, <1>2, <2>4
    <3>2. "del" \in Names(AsMap(e)) \ Names(AsMap(d))
      BY <3>1 DEF Names
    <3> QED
      BY <3>2
  <2> QED
    BY <1>3, <2>1, <2>2, <2>3, <2>4 DEF Docs
<1>4. Names({}) = {}
  BY DEF Names
<1>5. ASSUME Same PROVE AsMap(d) = AsMap(e)
  BY <1>1, <1>2, <1>5
<1> QED
  BY <1>3, <1>4, <1>5

(* In every behaviour IsChanged, which compares the snapshot's bytes with the
   struct's, reports whatever GetChanges, which compares decoded fields, does;
   on SQLite, which hands back the bytes it was given, they agree but for a
   number that changed by less than a float64 can tell.                     *)
THEOREM ChangeDetectorsAgree == Spec => []ChangesAgree
<1>1. TrackInv => ChangesAgree
  <2> SUFFICES ASSUME TrackInv PROVE ChangesAgree
    OBVIOUS
  <2>1. mem \in Docs /\ snap.doc \in Docs /\ snap = [doc |-> snap.doc, form |-> snap.form]
    BY DEF TrackInv, TypeOK
  <2>2. HasSnapshot =>
            (GetChanges = {} <=> /\ mem.rev = snap.doc.rev /\ mem.del = snap.doc.del
                                 /\ Float[mem.val] = Float[snap.doc.val])
    BY <2>1, ChangedFields DEF GetChanges
  <2>3. ~HasSnapshot => GetChanges = {}
    BY DEF GetChanges
  <2>4. snap = Encoded(mem) <=> snap.doc = mem /\ snap.form = "go"
    BY <2>1 DEF Encoded
  <2>5. setup.backend = "sqlite" /\ HasSnapshot => snap.form = "go"
    BY DEF TrackInv, TypeOK, GoOnly, HasSnapshot
  <2>6. HasSnapshot /\ GetChanges = {} => OnlyRounding
    BY <2>1, <2>2 DEF OnlyRounding, Docs
  <2> QED
    BY <2>2, <2>3, <2>4, <2>5, <2>6 DEF ChangesAgree, IsChanged
<1> QED
  BY <1>1, TrackAlways, PTL

(* In every behaviour a Revert leaves nothing changed, the mark of a failed
   delete included, and gives back the stored document where the snapshot is
   that document.                                                           *)
THEOREM RevertAlwaysRestores == Spec => RevertRestores
<1> DEFINE Goal == Revert => /\ GetChanges' = {}
                             /\ ~behind /\ ~undone => mem' = row
<1>1. TrackInv /\ TrackInv' /\ [Next]_vars => [Goal]_vars
  <2> SUFFICES ASSUME TrackInv, TrackInv', Revert
               PROVE  GetChanges' = {} /\ (~behind /\ ~undone => mem' = row)
    OBVIOUS
  <2>1. snap.doc \in Docs /\ snap' = snap /\ pc = "idle" /\ HasSnapshot
    BY DEF Revert, InHand, TrackInv, TypeOK
  <2>2. mem' = [snap.doc EXCEPT !.del = snap.doc.del \/ FALSE]
    BY DEF Revert, RevertBase, Decoded, NoRow
  <2>3. mem' = snap.doc
    BY <2>1, <2>2 DEF Docs
  <2>4. GetChanges' = {}
    BY <2>1, <2>3, ChangedFields DEF GetChanges, HasSnapshot
  <2>5. ~behind /\ ~undone => mem' = row
    BY <2>1, <2>3 DEF TrackInv, InStep
  <2> QED
    BY <2>4, <2>5
<1> QED
  BY <1>1, TrackAlways, PTL DEF Spec, RevertRestores
=============================================================================
