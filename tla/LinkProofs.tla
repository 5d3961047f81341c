------------------------------ MODULE LinkProofs ------------------------------
(***************************************************************************)
(* Proofs about Links, for any number of link fields and any budget of     *)
(* versions.                                                               *)
(*                                                                         *)
(* Shape says where a call can stand and what it has ahead of it, Rows and *)
(* Covered which children the database holds when the parent is written,   *)
(* Numbered which links carry their child's ID, Undone what a cascading    *)
(* delete has left behind, and Resolving what a read has yet to resolve.   *)
(***************************************************************************)
EXTENDS Links, WellFoundedInduction, NaturalsInduction, FiniteSetTheorems, TLAPS

USE SlotsAssumption, UseRevisionsAssumption, MaxVerAssumption

Saving   == pc \in {"check", "put", "after"}
Deleting == pc \in {"get", "delete"}

(* Child x is at one of the positions S.                                    *)
Among(S, x) == \E k \in S : k \in DOMAIN Slots /\ Slots[k] = x
Queued(x)   == Among(todo, x)

(* Some link to child x has its ID.                                         *)
Recorded(x) == \E k \in DOMAIN Slots : Slots[k] = x /\ slot[k].id

(* A link's struct is one of its child, and so is what a Save has ahead.    *)
Pointers ==
    /\ \A k \in DOMAIN Slots : slot[k].value # 0 => Slots[slot[k].value] = Slots[k]
    /\ Saving => \A k \in todo : k \in DOMAIN Slots => slot[k].value # 0

(* Where a call can stand: the parent comes last, and a checked update has a
   transaction of its own or the client's.                                  *)
Shape ==
    /\ pc = "idle" => todo = {}
    /\ pc = "hydrate" => todo \subseteq DOMAIN Slots
    /\ pc \in {"put", "after", "delete"} => todo # {}
    /\ todo # {} /\ pc # "hydrate" => AtParent \in todo
    /\ Saving => call.op = "save"
    /\ pc = "hydrate" => call.op = "fetch"
    /\ Deleting => call.op = "delete"
    /\ pc # "idle" => outcome = "nil"
    /\ Saving /\ call.inTx => tx = "user"
    /\ Saving /\ useRevision /\ call.update /\ ~call.ignore => tx # "none"
    /\ pc = "idle" \/ tx # "none" => wrote = {}
    /\ pc \in {"put", "after"} => mem[Struct].id /\ mem[Struct].ver # 0
    /\ pc = "put" /\ cur.checked => useRevision

(* A child the database has had, or has for the open transaction.           *)
Stored(x) == x \in born \/ (tx # "none" /\ buf[x] # NoRow)

(* The links of a live parent lead to stored children, in the database and
   for the transaction; there, a cascading delete may have removed them
   already, and is going to remove the parent.                              *)
Rows ==
    /\ \A d \in Docs : row[d] # NoRow => d \in born
    /\ ~row[Parent].del => Linked(row[Parent]) \subseteq born
    /\ tx # "none" /\ ~buf[Parent].del /\ ~(Deleting /\ todo # {})
        => \A k \in buf[Parent].links : Stored(Slots[k])

(* Of the linked children, Save has stored those it need not write still.   *)
Covered ==
    /\ Saving => \A x \in Children : Recorded(x) => Stored(x) \/ Queued(x)
    /\ pc = "after" => Stored(Current)

(* While no call has failed, a value that has an ID has it in a link to its
   child, or is being inserted; and Save numbers every value it does not write
   still.                                                                   *)
Numbered ==
    clean =>
        /\ \A k \in DOMAIN Slots : slot[k].value # 0 /\ mem[slot[k].value].id =>
                \/ Recorded(Slots[k])
                \/ (pc \in {"put", "after"} /\ Current = Slots[k] /\ cur.insert)
        /\ Saving /\ call.cascade =>
                \A k \in DOMAIN Slots : slot[k].value # 0 => Recorded(Slots[k]) \/ Queued(Slots[k])

Gone(d) == d \in revived \/ View[d] = NoRow \/ (View[d].del /\ ~call.hard)

(* What a cascading delete is done with is gone.                            *)
Undone ==
    Deleting =>
        /\ todo = {} => Gone(Parent)
        /\ call.cascade => \A x \in Children : Recorded(x) => Gone(x) \/ Queued(x)

(* A read has yet to resolve what it was asked for and has not loaded.      *)
Resolving ==
    pc = "hydrate" => \A k \in DOMAIN Slots :
        FieldOf[k] \in call.asked /\ slot[k].id => slot[k].loaded \/ k \in todo

LinkInv ==
    /\ TypeOK /\ Pointers /\ Shape /\ Rows /\ Covered
    /\ CheckHoldsAtPut /\ Numbered /\ Undone /\ Resolving

-----------------------------------------------------------------------------
(* A set of naturals that is not empty has a least element.                 *)
LEMMA LeastElement ==
    ASSUME NEW T \in SUBSET Nat, T # {}
    PROVE  \E n \in T : \A m \in T : n <= m
<1> DEFINE R == {ss \in Nat \X Nat : ss[1] < ss[2]}
<1>1. OpToRel(<, Nat) = R
  BY Zenon DEF OpToRel
<1>2. IsWellFoundedOn(R, Nat)
  BY <1>1, NatLessThanWellFounded, Zenon
<1>3. PICK x \in T : \A y \in T : ~(<<y, x>> \in R)
  <2> HIDE DEF R
  <2>. QED  BY <1>2, WFMin
<1>4. \A m \in T : m < x => <<m, x>> \in R
  BY Zenon
<1>5. \A m \in T : ~(m < x)
  <2> HIDE DEF R
  <2>. QED  BY <1>3, <1>4, Zenon
<1>. QED  BY <1>5

(* A nonempty set of positions has a first one.                             *)
LEMMA FirstExists ==
    ASSUME NEW T \in SUBSET Nat, T # {}
    PROVE  Min(T) \in T /\ \A m \in T : Min(T) <= m
BY LeastElement DEF Min

LEMMA SlotTypes ==
    /\ AtParent \in Nat \ {0} /\ DOMAIN Slots = 1..(AtParent - 1)
    /\ \A k \in DOMAIN Slots : Slots[k] \in Children /\ Slots[k] # Parent
BY DEF AtParent

(* The parent's turn comes when everything else is done.                    *)
LEMMA Turns ==
    ASSUME todo \subseteq 1..AtParent, todo # {}
    PROVE  /\ Min(todo) \in todo /\ Current \in Docs
           /\ Rest \subseteq 1..AtParent /\ Rest \subseteq todo
           /\ Current # Parent => Current \in Children /\ (AtParent \in todo => AtParent \in Rest)
           /\ Current = Parent => Rest = {}
           /\ \A x \in Children : Queued(x) => Among(Rest, x) \/ x = Current
<1> DEFINE m == Min(todo)
<1>1. m \in todo /\ m \in 1..AtParent /\ \A k \in todo : m <= k /\ k \in 1..AtParent
  <2>1. todo \in SUBSET Nat
    BY SlotTypes
  <2>2. m \in todo /\ \A k \in todo : m <= k
    BY <2>1, FirstExists
  <2>. QED  BY <2>2
<1>2. Current = IF m \in DOMAIN Slots THEN Slots[m] ELSE Parent
  BY DEF Current, DocAt
<1>3. Rest = todo \ {m}
  BY DEF Rest
<1> HIDE DEF m
<1>4. CASE m \in DOMAIN Slots
  <2>1. Current \in Children /\ Current # Parent /\ m # AtParent
    BY <1>1, <1>2, <1>4, SlotTypes
  <2>2. \A x \in Children : Queued(x) => Among(Rest, x) \/ x = Current
    BY <1>2, <1>3, <1>4 DEF Queued, Among
  <2>. QED  BY <1>1, <1>3, <2>1, <2>2 DEF Docs, m
<1>5. CASE m \notin DOMAIN Slots
  <2>1. m = AtParent /\ Current = Parent
    BY <1>1, <1>2, <1>5, SlotTypes
  <2>2. \A k \in todo : k = m
    BY <1>1, <2>1, SlotTypes
  <2>3. \A x \in Children : ~Queued(x)
    BY <1>5, <2>2 DEF Queued, Among
  <2>. QED  BY <1>1, <1>3, <2>1, <2>2, <2>3 DEF Docs, m
<1>. QED  BY <1>4, <1>5

(* The turn of a Save: the struct it writes is one of the document at hand. *)
LEMMA StructAtTurn ==
    ASSUME TypeOK, Pointers, Saving, todo # {}
    PROVE  /\ Struct \in 1..AtParent
           /\ Current = Parent => Struct = AtParent
           /\ Current # Parent => /\ Min(todo) \in DOMAIN Slots /\ Slots[Min(todo)] = Current
                                  /\ Struct = slot[Min(todo)].value /\ Struct \in DOMAIN Slots
                                  /\ Slots[Struct] = Current
<1>1. Min(todo) \in todo
  BY Turns DEF TypeOK
<1>2. CASE Min(todo) \in DOMAIN Slots
  <2>1. /\ Struct = slot[Min(todo)].value /\ Current = Slots[Min(todo)]
        /\ Struct \in DOMAIN Slots
    BY <1>1, <1>2 DEF Struct, Current, DocAt, Pointers, TypeOK
  <2>2. Current # Parent /\ Slots[Struct] = Current
    BY <1>2, <2>1, SlotTypes DEF Pointers
  <2>. QED  BY <1>2, <2>1, <2>2, SlotTypes
<1>3. CASE Min(todo) \notin DOMAIN Slots
  BY <1>3, SlotTypes DEF Struct, Current, DocAt
<1>. QED  BY <1>2, <1>3

(* The first of the positions that lead to the same child.                  *)
LEMMA Shares ==
    ASSUME NEW K \in SUBSET DOMAIN Slots, NEW k \in K
    PROVE  Sharing(K, k) \in K /\ Slots[Sharing(K, k)] = Slots[k]
<1> DEFINE S == {j \in K : Slots[j] = Slots[k]}
<1>1. S \in SUBSET Nat /\ S # {}
  BY SlotTypes
<1>2. Min(S) \in S
  BY <1>1, FirstExists
<1>. QED  BY <1>2 DEF Sharing

StructSet == [id: BOOLEAN, ver: 0..MaxVer, del: BOOLEAN]
LinkType == [id: BOOLEAN, value: {0} \cup DOMAIN Slots, loaded: BOOLEAN]

(* The types, in three parts: the database, the structs, the call.          *)
DbOK     == /\ useRevision \in UseRevisions /\ nextVer \in 1..(MaxVer + 1)
            /\ row \in [Docs -> Row] /\ born \subseteq Docs
            /\ tx \in {"none", "own", "user"} /\ buf \in [Docs -> Row]
StructOK == /\ mem \in [1..AtParent -> [id: BOOLEAN, ver: 0..MaxVer, del: BOOLEAN]]
            /\ slot \in [DOMAIN Slots -> LinkType]
CallOK   == /\ pc \in {"idle", "check", "put", "after", "get", "delete", "hydrate"}
            /\ call \in Calls /\ todo \subseteq 1..AtParent
            /\ cur \in [ver: 0..MaxVer, checked: BOOLEAN, insert: BOOLEAN]
            /\ wrote \subseteq Docs /\ revived \subseteq Docs /\ outcome \in {"nil", "err"} /\ clean \in BOOLEAN

LEMMA TypeParts == TypeOK <=> DbOK /\ StructOK /\ CallOK
BY DEF TypeOK, DbOK, StructOK, CallOK, LinkType

LEMMA TypePartsPrime == TypeOK' <=> DbOK' /\ StructOK' /\ CallOK'
BY TypeParts, PTL

LEMMA StructType ==
    ASSUME NEW r \in [id: BOOLEAN, ver: 0..MaxVer, del: BOOLEAN], NEW v \in 0..MaxVer
    PROVE  [r EXCEPT !.id = TRUE, !.ver = v] \in [id: BOOLEAN, ver: 0..MaxVer, del: BOOLEAN]
OBVIOUS

LEMMA SlotType ==
    ASSUME NEW r \in LinkType, NEW k \in DOMAIN Slots
    PROVE  /\ [r EXCEPT !.id = TRUE] \in LinkType
           /\ [r EXCEPT !.value = k, !.loaded = TRUE] \in LinkType
           /\ [r EXCEPT !.value = k, !.loaded = TRUE].id = r.id
BY DEF LinkType

LEMMA NoRowType ==
    /\ NoRow \in Row /\ Closed \in [Docs -> Row] /\ NoRow.links = {} /\ ~NoRow.del
    /\ NoStruct \in [id: BOOLEAN, ver: 0..MaxVer, del: BOOLEAN] /\ ~NoStruct.id
    /\ NoCall \in Calls /\ NoCall.op = "fetch" /\ Unread \in [ver: 0..MaxVer, checked: BOOLEAN, insert: BOOLEAN]
BY DEF NoRow, Row, Closed, NoCall, Calls, Unread, NoStruct

LEMMA ViewType ==
    ASSUME TypeOK
    PROVE  View \in [Docs -> Row]
BY DEF TypeOK, View, Row

LEMMA FreshType ==
    ASSUME TypeOK, Fresh
    PROVE  nextVer' \in 1..(MaxVer + 1) /\ Version \in 0..MaxVer /\ Version # 0
BY DEF TypeOK, Fresh, Version

LEMMA EncodedType ==
    ASSUME NEW d, NEW v \in 0..MaxVer, NEW del \in BOOLEAN
    PROVE  /\ Encoded(d, v, del) \in Row
           /\ Encoded(d, v, del).del = del
           /\ v # 0 => Encoded(d, v, del) # NoRow
           /\ d = Parent => Encoded(d, v, del).links = {k \in DOMAIN Slots : slot[k].id}
BY DEF Encoded, Row, NoRow

(* What a statement does, inside a transaction and on its own.              *)
LEMMA Writes ==
    ASSUME TypeOK, NEW d \in Docs, NEW v \in Row, Write(d, v)
    PROVE  /\ row' \in [Docs -> Row] /\ buf' \in [Docs -> Row]
           /\ born' \subseteq Docs /\ born \subseteq born' /\ wrote' \subseteq Docs
           /\ tx' = tx
           /\ View'[d] = v /\ \A e \in Docs \ {d} : View'[e] = View[e]
           /\ tx # "none" => /\ row' = row /\ born' = born /\ wrote' = wrote
                             /\ buf'[d] = v /\ \A e \in Docs \ {d} : buf'[e] = buf[e]
           /\ tx = "none" => /\ row'[d] = v /\ \A e \in Docs \ {d} : row'[e] = row[e]
                             /\ v # NoRow => d \in born'
<1>0. row \in [Docs -> Row] /\ buf \in [Docs -> Row] /\ born \subseteq Docs /\ wrote \subseteq Docs
  BY DEF TypeOK, Row
<1>1. CASE tx = "none"
  <2>1. /\ row' = [row EXCEPT ![d] = v] /\ tx' = tx /\ buf' = buf
        /\ born' = IF v = NoRow THEN born ELSE born \cup {d}
        /\ wrote' = wrote \cup {d}
    BY <1>1 DEF Write
  <2>2. View = row /\ View' = row'
    BY <1>1, <2>1 DEF View
  <2>. QED  BY <1>0, <1>1, <2>1, <2>2
<1>2. CASE tx # "none"
  <2>1. buf' = [buf EXCEPT ![d] = v] /\ UNCHANGED <<row, born, tx, wrote>>
    BY <1>2 DEF Write
  <2>2. View = buf /\ View' = buf'
    BY <1>2, <2>1 DEF View
  <2>. QED  BY <1>0, <1>2, <2>1, <2>2
<1>. QED  BY <1>1, <1>2

LEMMA WriteStores ==
    ASSUME TypeOK, NEW d \in Docs, NEW v \in Row, Write(d, v)
    PROVE  \A x \in Docs : (Stored(x) \/ x = d) /\ (x = d => v # NoRow) => Stored(x)'
BY Writes DEF Stored

LEMMA Commits ==
    ASSUME TypeOK, CommitTx
    PROVE  row' \in [Docs -> Row] /\ buf' \in [Docs -> Row] /\ born' \subseteq Docs
BY NoRowType DEF TypeOK, CommitTx, Row

LEMMA CommitRows ==
    ASSUME TypeOK, Rows, CommitTx, tx # "none", ~(Deleting /\ todo # {})
    PROVE  Rows'
<1>1. /\ row' = buf /\ tx' = "none"
      /\ \A x \in Docs : x \in born' <=> x \in born \/ buf[x] # NoRow
  BY DEF CommitTx, TypeOK
<1>2. ~buf[Parent].del => \A k \in buf[Parent].links : Slots[k] \in born'
  <2>1. \A k \in buf[Parent].links : Slots[k] \in Docs
    BY SlotTypes DEF TypeOK, Row, Docs
  <2>. QED  BY <1>1, <2>1 DEF Rows, Stored
<1>. QED  BY <1>1, <1>2 DEF Rows, Linked

LEMMA TypeStep ==
    ASSUME TypeOK, Pointers, Shape, [Next]_vars
    PROVE  TypeOK'
<1>1. CASE UNCHANGED vars
  BY <1>1 DEF vars, TypeOK
<1>2. ASSUME NEW cascade \in BOOLEAN, NEW ignore \in {FALSE, useRevision}, Save(cascade, ignore)
        PROVE  TypeOK'
  <2>1. todo' \subseteq 1..AtParent
    BY <1>2, SlotTypes DEF Save, WriteOrder
  <2>2. call' \in Calls
    <3>1. ignore \in BOOLEAN /\ mem[AtParent].id \in BOOLEAN
      <4>1. AtParent \in 1..AtParent
        BY SlotTypes
      <4>. QED  BY <4>1, TypeParts DEF StructOK, DbOK
    <3>. QED  BY <1>2, <3>1 DEF Save, Start, Calls, NoCall
  <2>. QED  BY <1>2, <2>1, <2>2 DEF Save, Start, TypeOK
<1>3. ASSUME NEW cascade \in BOOLEAN, NEW ignore \in {FALSE, useRevision}, NEW hard \in BOOLEAN,
             Delete(cascade, ignore, hard)
        PROVE  TypeOK'
  <2>1. todo' \subseteq 1..AtParent
    BY <1>3, SlotTypes DEF Delete
  <2>2. call' \in Calls
    <3>1. ignore \in BOOLEAN
      BY DEF TypeOK
    <3>. QED  BY <1>3, <3>1 DEF Delete, Start, Calls, NoCall
  <2>. QED  BY <1>3, <2>1, <2>2 DEF Delete, Start, db, TypeOK
<1>4. CASE Check
  <2>1. Current \in Docs /\ Struct \in 1..AtParent
    BY <1>4, Turns, StructAtTurn DEF Check, Saving, TypeOK
  <2>2. Version \in 0..MaxVer /\ nextVer' \in 1..(MaxVer + 1)
    BY <1>4, FreshType DEF Check
  <2>3. View[Current] \in Row /\ mem[Struct] \in [id: BOOLEAN, ver: 0..MaxVer, del: BOOLEAN]
    BY <2>1, ViewType DEF TypeOK
  <2>4. mem' \in [1..AtParent -> [id: BOOLEAN, ver: 0..MaxVer, del: BOOLEAN]]
    <3> DEFINE c == Struct
               v == Version
    <3>1. mem' = [mem EXCEPT ![c].id = TRUE, ![c].ver = v]
      BY <1>4 DEF Check
    <3>2. c \in 1..AtParent /\ v \in 0..MaxVer
      BY <2>1, <2>2
    <3> HIDE DEF c, v
    <3>3. mem' = [mem EXCEPT ![c] = [mem[c] EXCEPT !.id = TRUE, !.ver = v]]
      BY <3>1, <3>2 DEF TypeOK
    <3>4. mem \in [1..AtParent -> [id: BOOLEAN, ver: 0..MaxVer, del: BOOLEAN]]
      BY DEF TypeOK
    <3>5. [mem[c] EXCEPT !.id = TRUE, !.ver = v] \in [id: BOOLEAN, ver: 0..MaxVer, del: BOOLEAN]
      BY <3>2, <3>4, StructType
    <3>. QED  BY <3>2, <3>3, <3>4, <3>5
  <2>5. cur' \in [ver: 0..MaxVer, checked: BOOLEAN, insert: BOOLEAN]
    BY <1>4, <2>3 DEF Check, Row, Checked, TypeOK
  <2>. QED  BY <1>4, <2>2, <2>4, <2>5 DEF Check, db, TypeOK
<1>5. CASE Put
  <2>1. Current \in Docs /\ Struct \in 1..AtParent
    BY <1>5, Turns, StructAtTurn DEF Put, Saving, TypeOK, Shape
  <2>2. Encoded(Current, mem[Struct].ver, mem[Struct].del) \in Row
    BY <2>1, EncodedType DEF TypeOK
  <2>3. /\ row' \in [Docs -> Row] /\ buf' \in [Docs -> Row] /\ tx' = tx
        /\ born' \subseteq Docs /\ wrote' \subseteq Docs
    BY <1>5, <2>1, <2>2, Writes DEF Put
  <2>. QED  BY <1>5, <2>3 DEF Put, TypeOK
<1>6. CASE After
  <2>1. DbOK'
    BY <1>6, TypeParts DEF After, db, DbOK
  <2>2. StructOK'
    <3>1. Min(todo) \in DOMAIN Slots => slot' = slot \/
            slot' = [slot EXCEPT ![Min(todo)] = [slot[Min(todo)] EXCEPT !.id = TRUE]]
      BY <1>6 DEF After, TypeOK
    <3>2. Min(todo) \notin DOMAIN Slots => slot' = slot
      BY <1>6 DEF After, Current, DocAt
    <3>3. Min(todo) \in DOMAIN Slots => [slot[Min(todo)] EXCEPT !.id = TRUE] \in LinkType
      BY TypeParts, SlotType DEF StructOK
    <3>. QED  BY <1>6, <3>1, <3>2, <3>3, TypeParts DEF After, StructOK
  <2>3. CallOK'
    BY <1>6, TypeParts, NoRowType DEF After, Rest, CallOK
  <2>. QED  BY <2>1, <2>2, <2>3 DEF TypeOK, DbOK, StructOK, CallOK, LinkType
<1>7. CASE Get
  <2>1. Current \in Docs /\ AtParent \in 1..AtParent
    BY <1>7, Turns, SlotTypes DEF Get, TypeOK
  <2>2. View[Current].ver \in 0..MaxVer /\ mem[AtParent].ver \in 0..MaxVer
    BY <2>1, ViewType, TypeParts DEF StructOK, Row
  <2>. QED  BY <1>7, <2>2 DEF Get, db, TypeOK, Unread
<1>8. CASE AlreadyDeleted
  BY <1>8 DEF AlreadyDeleted, db, TypeOK, Rest
<1>9. CASE SoftDelete
  <2>1. Current \in Docs
    BY <1>9, Turns DEF SoftDelete, MarkDeleted, TypeOK, Shape
  <2>2. Version \in 0..MaxVer /\ nextVer' \in 1..(MaxVer + 1)
    BY <1>9, FreshType DEF SoftDelete, MarkDeleted
  <2>3. Encoded(Current, Version, TRUE) \in Row
    BY <2>2, EncodedType
  <2>4. /\ row' \in [Docs -> Row] /\ buf' \in [Docs -> Row] /\ tx' = tx
        /\ born' \subseteq Docs /\ wrote' \subseteq Docs
    BY <1>9, <2>1, <2>3, Writes DEF SoftDelete
  <2>5. todo' \subseteq 1..AtParent
    BY <1>9 DEF SoftDelete, Rest, TypeOK
  <2>6. StructOK'
    BY <1>9, <2>1, <2>2, TypeParts, SlotTypes DEF SoftDelete, MarkDeleted, StructOK
  <2>. QED  BY <1>9, <2>2, <2>4, <2>5, <2>6, NoRowType DEF SoftDelete, MarkDeleted,
     StructOK, LinkType, TypeOK
<1>10. CASE SoftDeleteFails
  <2>1. DbOK'
    BY <1>10, TypeParts, FreshType, NoRowType DEF SoftDeleteFails, MarkDeleted, Failed,
       Return, DbOK
  <2>2. StructOK'
    BY <1>10, TypeParts, FreshType, SlotTypes DEF SoftDeleteFails, MarkDeleted, Failed, StructOK
  <2>3. CallOK'
    BY <1>10, TypeParts, NoRowType DEF SoftDeleteFails, MarkDeleted, Failed, Return, CallOK
  <2>. QED  BY <2>1, <2>2, <2>3 DEF TypeOK, DbOK, StructOK, CallOK, LinkType
<1>11. CASE HardDelete
  <2>1. Current \in Docs
    BY <1>11, Turns DEF HardDelete, TypeOK, Shape
  <2>2. /\ row' \in [Docs -> Row] /\ buf' \in [Docs -> Row] /\ tx' = tx
        /\ born' \subseteq Docs /\ wrote' \subseteq Docs
    BY <1>11, <2>1, NoRowType, Writes DEF HardDelete
  <2>3. todo' \subseteq 1..AtParent
    BY <1>11 DEF HardDelete, Rest, TypeOK
  <2>. QED  BY <1>11, <2>2, <2>3, NoRowType DEF HardDelete, TypeOK
<1>12. CASE Finish
  <2>1. DbOK'
    BY <1>12, TypeParts, NoRowType, Commits DEF Finish, db, CommitTx, DbOK
  <2>2. StructOK'
    BY <1>12, TypeParts DEF Finish, StructOK
  <2>3. CallOK'
    BY <1>12, TypeParts, NoRowType DEF Finish, Return, CallOK
  <2>. QED  BY <2>1, <2>2, <2>3 DEF TypeOK, DbOK, StructOK, CallOK, LinkType
<1>13. CASE Fail
  <2>1. DbOK'
    BY <1>13, TypeParts, NoRowType DEF Fail, Failed, DbOK
  <2>2. StructOK'
    BY <1>13, TypeParts DEF Fail, Failed, StructOK
  <2>3. CallOK'
    BY <1>13, TypeParts, NoRowType DEF Fail, Failed, Return, CallOK
  <2>. QED  BY <2>1, <2>2, <2>3 DEF TypeOK, DbOK, StructOK, CallOK, LinkType
<1>14. ASSUME NEW asked \in SUBSET Fields, FindByID(asked) PROVE TypeOK'
  <2>1. DbOK'
    BY <1>14, TypeParts DEF FindByID, Start, db, DbOK
  <2>2. View[Parent].links \in SUBSET DOMAIN Slots /\ Decoded(Parent) \in StructSet
    BY ViewType DEF Decoded, Row, Docs, StructSet
  <2>3. StructOK'
    BY <1>14, <2>2, NoRowType DEF FindByID, StructOK, LinkType, StructSet
  <2>4. CallOK'
    <3>1. call' \in Calls
      BY <1>14 DEF FindByID, Start, NoCall, Calls
    <3>2. todo' \subseteq 1..AtParent
      BY <1>14, <2>2, SlotTypes DEF FindByID
    <3>. QED  BY <1>14, <3>1, <3>2, TypeParts DEF FindByID, Start, CallOK
  <2>. QED  BY <2>1, <2>3, <2>4, TypePartsPrime
<1>15. CASE FetchAllLinks
  <2>1. call' \in Calls
    BY <1>15 DEF FetchAllLinks, Start, NoCall, Calls
  <2>2. todo' \subseteq 1..AtParent
    BY <1>15, SlotTypes DEF FetchAllLinks, Unresolved
  <2>. QED  BY <1>15, <2>1, <2>2 DEF FetchAllLinks, Start, db, TypeOK
<1>16. CASE Hydrate
  <2> DEFINE field == {k \in todo : FieldOf[k] = FieldOf[Min(todo)]}
             found == {k \in field : View[Slots[k]] # NoRow}
  <2>1. todo \subseteq DOMAIN Slots
    BY <1>16 DEF Hydrate, Shape
  <2>2. StructOK'
    <3>1. found \in SUBSET DOMAIN Slots
      BY <2>1
    <3>2. /\ mem' = [k \in 1..AtParent |-> IF k \in found /\ Sharing(found, k) = k
                                              THEN Decoded(Slots[k]) ELSE mem[k]]
          /\ slot' = [k \in DOMAIN Slots |->
                        IF k \in found
                          THEN [id |-> TRUE, value |-> Sharing(found, k), loaded |-> TRUE]
                          ELSE slot[k]]
      BY <1>16 DEF Hydrate
    <3> HIDE DEF found
    <3>3. \A k \in found : Decoded(Slots[k]) \in StructSet
      BY <3>1, SlotTypes, ViewType DEF Decoded, Row, Docs, StructSet
    <3>4. \A k \in found : Sharing(found, k) \in DOMAIN Slots
      BY <3>1, Shares
    <3>5. mem' \in [1..AtParent -> StructSet]
      BY <3>2, <3>3, TypeParts DEF StructOK, StructSet
    <3>6. slot' \in [DOMAIN Slots -> LinkType]
      BY <3>2, <3>4, TypeParts DEF StructOK, LinkType
    <3>. QED  BY <3>5, <3>6 DEF StructOK, StructSet
  <2>3. CallOK'
    BY <1>16, NoRowType, TypeParts DEF Hydrate, Return, CallOK
  <2>4. DbOK'
    BY <1>16, TypeParts DEF Hydrate, db, DbOK
  <2>. QED  BY <2>2, <2>3, <2>4, TypePartsPrime
<1>17. ASSUME NEW x \in DOMAIN Slots, FetchLink(x) PROVE TypeOK'
  <2>1. StructOK'
    <3>1. x \in 1..AtParent /\ Decoded(Slots[x]) \in StructSet
      BY ViewType, SlotTypes DEF Decoded, Row, Docs, StructSet
    <3>2. mem' = mem \/ mem' = [mem EXCEPT ![x] = Decoded(Slots[x])]
      BY <1>17 DEF FetchLink
    <3>3. \/ slot' = slot
          \/ slot' = [slot EXCEPT ![x] = [slot[x] EXCEPT !.value = x, !.loaded = TRUE]]
      BY <1>17 DEF FetchLink, TypeOK
    <3>4. slot' \in [DOMAIN Slots -> LinkType]
      <4>1. [slot[x] EXCEPT !.value = x, !.loaded = TRUE] \in LinkType
        BY SlotType, TypeParts DEF StructOK
      <4>. QED  BY <3>3, <4>1, TypeParts DEF StructOK
    <3>5. mem' \in [1..AtParent -> StructSet]
      BY <3>1, <3>2, TypeParts DEF StructOK, StructSet
    <3>. QED  BY <3>4, <3>5 DEF StructOK, StructSet
  <2>2. DbOK'
    BY <1>17, TypeParts DEF FetchLink, db, DbOK
  <2>3. CallOK'
    BY <1>17, TypeParts, NoRowType DEF FetchLink, Return, CallOK
  <2>. QED  BY <2>1, <2>2, <2>3, TypePartsPrime
<1>18. CASE BeginTx
  BY <1>18 DEF BeginTx, TypeOK
<1>19. CASE EndTx
  <2>1. DbOK'
    BY <1>19, TypeParts, NoRowType, Commits DEF EndTx, CommitTx, DbOK
  <2>2. StructOK'
    BY <1>19, TypeParts DEF EndTx, StructOK
  <2>3. CallOK'
    BY <1>19, TypeParts DEF EndTx, CallOK
  <2>. QED  BY <2>1, <2>2, <2>3 DEF TypeOK, DbOK, StructOK, CallOK, LinkType
<1>20. ASSUME NEW d \in Docs, NEW del \in BOOLEAN, NEW links \in OtherLinks, OtherSaves(d, del, links)
      PROVE  TypeOK'
  <2>1. DbOK'
    BY <1>20, TypeParts, FreshType, OtherLinksAssumption DEF OtherSaves, Row, DbOK
  <2>2. StructOK'
    BY <1>20, TypeParts DEF OtherSaves, StructOK
  <2>3. CallOK'
    BY <1>20, TypeParts DEF OtherSaves, CallOK
  <2>. QED  BY <2>1, <2>2, <2>3 DEF TypeOK, DbOK, StructOK, CallOK, LinkType
<1>21. ASSUME NEW d \in Docs, OtherDeletes(d) PROVE TypeOK'
  BY <1>21, NoRowType DEF OtherDeletes, TypeOK
<1>. QED  BY <1>1, <1>2, <1>3, <1>4, <1>5, <1>6, <1>7, <1>8, <1>9, <1>10, <1>11, <1>12,
   <1>13, <1>14, <1>15, <1>16, <1>17, <1>18, <1>19, <1>20, <1>21 DEF Next

(* The step leaves the first position alone, or takes it away.              *)
LEMMA SameTurn ==
    ASSUME todo' = todo
    PROVE  /\ Current' = Current /\ (slot' = slot => Struct' = Struct)
           /\ \A x \in Children : Queued(x)' <=> Queued(x)
BY DEF Current, Struct, Queued

LEMMA NextTurn ==
    ASSUME todo' = Rest
    PROVE  \A x \in Children : Queued(x)' <=> Among(Rest, x)
BY DEF Queued

LEMMA PointersStep ==
    ASSUME TypeOK, Pointers, Shape, [Next]_vars
    PROVE  Pointers'
<1>1. CASE UNCHANGED vars
  BY <1>1 DEF vars, Pointers, Saving
<1>2. ASSUME NEW cascade \in BOOLEAN, NEW ignore \in {FALSE, useRevision}, Save(cascade, ignore)
        PROVE  Pointers'
  BY <1>2, SlotTypes DEF Save, Pointers, Saving, WriteOrder
<1>3. CASE Check \/ Put
  BY <1>3 DEF Check, Put, Pointers, Saving
<1>4. CASE After
  <2>1. /\ \A k \in DOMAIN Slots : slot'[k].value = slot[k].value
        /\ todo' \subseteq todo /\ Saving
    BY <1>4 DEF After, Rest, TypeOK, Saving
  <2>. QED  BY <2>1 DEF Pointers
<1>5. CASE Hydrate
  <2> DEFINE field == {k \in todo : FieldOf[k] = FieldOf[Min(todo)]}
             found == {k \in field : View[Slots[k]] # NoRow}
  <2>1. found \in SUBSET DOMAIN Slots
    BY <1>5 DEF Hydrate, Shape
  <2>2. /\ slot' = [k \in DOMAIN Slots |->
                      IF k \in found
                        THEN [id |-> TRUE, value |-> Sharing(found, k), loaded |-> TRUE]
                        ELSE slot[k]]
        /\ pc' \in {"hydrate", "idle"}
    BY <1>5 DEF Hydrate, Return
  <2> HIDE DEF found
  <2>3. \A k \in found : Slots[Sharing(found, k)] = Slots[k]
    BY <2>1, Shares
  <2>. QED  BY <2>2, <2>3 DEF Pointers, Saving
<1>6. ASSUME NEW k \in DOMAIN Slots, FetchLink(k) PROVE Pointers'
  <2>1. pc' = "idle" /\ \A j \in DOMAIN Slots :
          slot'[j].value = slot[j].value \/ (j = k /\ slot'[j].value = k)
    BY <1>6 DEF FetchLink, Return, TypeOK
  <2>. QED  BY <2>1 DEF Pointers, Saving
<1>7. ASSUME NEW asked \in SUBSET Fields, FindByID(asked) PROVE Pointers'
  BY <1>7 DEF FindByID, Pointers, Saving
<1>8. CASE UNCHANGED slot /\ ~Saving'
  BY <1>8 DEF Pointers
<1>9. CASE UNCHANGED <<slot, pc, todo>>
  BY <1>9 DEF Pointers, Saving
<1>. QED
  BY <1>1, <1>2, <1>3, <1>4, <1>5, <1>6, <1>7, <1>8, <1>9
     DEF Next, Delete, Start, Get, AlreadyDeleted, SoftDelete, SoftDeleteFails, MarkDeleted,
         HardDelete, Finish, Fail, Failed, Return, FetchAllLinks, BeginTx, EndTx, OtherSaves,
         OtherDeletes, Saving

LEMMA ShapeStep ==
    ASSUME TypeOK, Pointers, Shape, [Next]_vars
    PROVE  Shape'
<1>1. CASE UNCHANGED vars
  BY <1>1, SameTurn DEF vars, Shape, Saving, Deleting
<1>2. ASSUME NEW cascade \in BOOLEAN, NEW ignore \in {FALSE, useRevision}, Save(cascade, ignore)
        PROVE  Shape'
  BY <1>2, SlotTypes DEF Save, Start, Shape, Saving, Deleting, WriteOrder, AutoWrap, NoCall
<1>3. ASSUME NEW cascade \in BOOLEAN, NEW ignore \in {FALSE, useRevision}, NEW hard \in BOOLEAN,
             Delete(cascade, ignore, hard)
        PROVE  Shape'
  BY <1>3, SlotTypes DEF Delete, Start, Shape, Saving, Deleting, NoCall
<1>4. CASE Check
  <2>1. Struct \in 1..AtParent /\ Struct' = Struct /\ Version # 0
    BY <1>4, StructAtTurn, SameTurn, FreshType DEF Check, Saving
  <2>2. mem'[Struct].id /\ mem'[Struct].ver # 0
    BY <1>4, <2>1 DEF Check, TypeOK
  <2>. QED  BY <1>4, <2>1, <2>2 DEF Check, db, Checked, Shape, Saving, Deleting
<1>5. CASE Put
  BY <1>5, SameTurn DEF Put, Shape, Saving, Deleting, Write
<1>6. CASE After
  BY <1>6, Turns DEF After, db, Shape, Saving, Deleting, TypeOK
<1>7. CASE Get
  BY <1>7 DEF Get, db, Shape, Saving, Deleting
<1>8. CASE AlreadyDeleted
  BY <1>8, Turns DEF AlreadyDeleted, db, Shape, Saving, Deleting, TypeOK
<1>9. CASE SoftDelete
  BY <1>9, Turns DEF SoftDelete, MarkDeleted, Shape, Saving, Deleting, TypeOK, Write
<1>10. CASE SoftDeleteFails
  BY <1>10 DEF SoftDeleteFails, MarkDeleted, Failed, Return, Shape, Saving, Deleting
<1>11. CASE HardDelete
  BY <1>11, Turns DEF HardDelete, Shape, Saving, Deleting, TypeOK, Write
<1>12. CASE Finish
  BY <1>12 DEF Finish, Return, Shape, Saving, Deleting, CommitTx
<1>13. CASE Fail
  BY <1>13 DEF Fail, Failed, Return, Shape, Saving, Deleting
<1>14. ASSUME NEW asked \in SUBSET Fields, FindByID(asked) PROVE Shape'
  BY <1>14, ViewType DEF FindByID, Start, Shape, Saving, Deleting, NoCall, Row, Docs
<1>15. CASE FetchAllLinks
  BY <1>15 DEF FetchAllLinks, Start, Shape, Saving, Deleting, NoCall, Unresolved
<1>16. CASE Hydrate
  <2>1. \/ pc' = "hydrate" /\ todo' \subseteq todo /\ UNCHANGED <<pc, call, wrote, outcome, tx>>
        \/ pc' = "idle" /\ todo' = {} /\ wrote' = {}
    BY <1>16 DEF Hydrate, Return, db
  <2>. QED  BY <1>16, <2>1 DEF Hydrate, Shape, Saving, Deleting
<1>17. ASSUME NEW k \in DOMAIN Slots, FetchLink(k) PROVE Shape'
  BY <1>17 DEF FetchLink, Return, Shape, Saving, Deleting
<1>18. CASE BeginTx
  BY <1>18 DEF BeginTx, Shape, Saving, Deleting
<1>19. CASE EndTx
  BY <1>19 DEF EndTx, Shape, Saving, Deleting, CommitTx
<1>20. ASSUME NEW d \in Docs, NEW del \in BOOLEAN, NEW links \in OtherLinks, OtherSaves(d, del, links)
      PROVE  Shape'
  BY <1>20, SameTurn DEF OtherSaves, Shape, Saving, Deleting
<1>21. ASSUME NEW d \in Docs, OtherDeletes(d) PROVE Shape'
  BY <1>21, SameTurn DEF OtherDeletes, Shape, Saving, Deleting
<1>. QED  BY <1>1, <1>2, <1>3, <1>4, <1>5, <1>6, <1>7, <1>8, <1>9, <1>10, <1>11, <1>12,
   <1>13, <1>14, <1>15, <1>16, <1>17, <1>18, <1>19, <1>20, <1>21 DEF Next

LEMMA RowsStep ==
    ASSUME TypeOK, Pointers, Shape, Rows, Covered, [Next]_vars
    PROVE  Rows'
<1>1. CASE UNCHANGED vars
  BY <1>1 DEF vars, Rows, Deleting, Stored
<1>2. ASSUME NEW cascade \in BOOLEAN, NEW ignore \in {FALSE, useRevision}, Save(cascade, ignore)
        PROVE  Rows'
  <2>1. UNCHANGED <<row, born>> /\ (UNCHANGED <<tx, buf>> \/ (tx' = "own" /\ buf' = row))
    BY <1>2 DEF Save
  <2>2. pc' = "check" /\ pc = "idle"
    BY <1>2 DEF Save, Start
  <2>. QED  BY <2>1, <2>2 DEF Rows, Linked, Stored, Deleting
<1>3. ASSUME NEW cascade \in BOOLEAN, NEW ignore \in {FALSE, useRevision}, NEW hard \in BOOLEAN,
             Delete(cascade, ignore, hard)
        PROVE  Rows'
  BY <1>3 DEF Delete, Start, db, Rows, Deleting, Stored
<1>4. CASE Check
  BY <1>4 DEF Check, db, Rows, Deleting, Stored, Shape
<1>5. CASE Put
  <2> DEFINE d == Current
             m == mem[Struct]
             v == Encoded(d, m.ver, m.del)
  <2>1. d \in Docs /\ Struct \in 1..AtParent /\ m.ver # 0 /\ todo # {}
    BY <1>5, Turns, StructAtTurn DEF Put, Shape, Saving, TypeOK
  <2>2. v \in Row /\ v # NoRow /\ v.del = m.del
    <3>1. m.ver \in 0..MaxVer /\ m.del \in BOOLEAN
      BY <2>1 DEF TypeOK
    <3>2. v \in Row /\ v # NoRow
      BY <2>1, <3>1, EncodedType
    <3>3. v.del = m.del
      BY DEF Encoded
    <3>. QED  BY <3>2, <3>3
  <2>3. Write(d, v)
    BY <1>5 DEF Put
  <2>4. d = Parent => \A k \in v.links : Slots[k] \in Docs /\ Stored(Slots[k])
    <3> SUFFICES ASSUME d = Parent, NEW k \in v.links PROVE Slots[k] \in Docs /\ Stored(Slots[k])
      OBVIOUS
    <3>1. k \in DOMAIN Slots /\ Slots[k] \in Children /\ Recorded(Slots[k])
      BY <2>1, EncodedType, SlotTypes DEF TypeOK, Recorded
    <3>2. ~Queued(Slots[k])
      BY <3>1, <2>1, Turns, SlotTypes DEF Among, TypeOK
    <3>. QED  BY <1>5, <3>1, <3>2 DEF Covered, Saving, Put, Docs
  <2> HIDE DEF v, d, m
  <2>5. \A x \in Docs : Stored(x) => Stored(x)'
    BY <2>1, <2>2, <2>3, WriteStores
  <2>6. pc' = "after" /\ tx' = tx /\ \A x \in Docs : x \in born => x \in born'
    BY <1>5, <2>1, <2>2, <2>3, Writes DEF Put
  <2>7. Parent \in Docs /\ \A k \in buf[Parent].links \cup row[Parent].links : Slots[k] \in Docs
    BY SlotTypes DEF TypeOK, Row, Docs
  <2>8. CASE tx = "none"
    <3>1. row'[d] = v /\ d \in born' /\ \A e \in Docs \ {d} : row'[e] = row[e]
      BY <2>1, <2>2, <2>3, <2>8, Writes
    <3>2. \A x \in Docs : Stored(x) => x \in born'
      BY <2>5, <2>6, <2>8 DEF Stored
    <3>. QED  BY <2>1, <2>4, <2>6, <2>7, <2>8, <3>1, <3>2 DEF Rows, Linked
  <2>9. CASE tx # "none"
    <3>1. row' = row /\ buf'[d] = v /\ \A e \in Docs \ {d} : buf'[e] = buf[e]
      BY <2>1, <2>2, <2>3, <2>9, Writes
    <3>2. ~(Deleting /\ todo # {}) /\ ~(Deleting /\ todo # {})'
      BY <1>5, <2>6 DEF Put, Deleting
    <3>. QED  BY <2>4, <2>5, <2>6, <2>7, <2>9, <3>1, <3>2 DEF Rows, Linked
  <2>. QED  BY <2>8, <2>9
<1>6. CASE After
  BY <1>6 DEF After, db, Rows, Deleting, Stored, Shape
<1>7. CASE Get
  BY <1>7 DEF Get, db, Rows, Deleting, Stored, Shape
<1>8. CASE AlreadyDeleted
  BY <1>8, Turns DEF AlreadyDeleted, db, Rows, Deleting, Stored, Shape, TypeOK
<1>9. CASE SoftDelete
  <2> DEFINE d == Current
             v == Encoded(d, Version, TRUE)
  <2>1. d \in Docs /\ todo # {} /\ pc = "delete"
    BY <1>9, Turns DEF SoftDelete, MarkDeleted, Shape, TypeOK
  <2>2. v \in Row /\ v # NoRow /\ v.del
    BY <1>9, FreshType, EncodedType DEF SoftDelete, MarkDeleted
  <2>5. Parent \in Docs /\ \A k \in buf[Parent].links \cup row[Parent].links : Slots[k] \in Docs
    BY SlotTypes DEF TypeOK, Row, Docs
  <2>3. Write(d, v) /\ todo' = Rest /\ pc' = "get"
    BY <1>9 DEF SoftDelete
  <2>4. d # Parent => todo' # {}
    BY <2>1, <2>3, Turns DEF Shape, TypeOK
  <2> HIDE DEF v, d
  <2>. QED  BY <2>1, <2>2, <2>3, <2>4, <2>5, Writes DEF Rows, Linked, Deleting, Stored, TypeOK
<1>10. CASE SoftDeleteFails
  BY <1>10 DEF SoftDeleteFails, MarkDeleted, Failed, Rows, Stored
<1>11. CASE HardDelete
  <2> DEFINE d == Current
  <2>1. d \in Docs /\ todo # {} /\ pc = "delete"
    BY <1>11, Turns DEF HardDelete, Shape, TypeOK
  <2>2. Write(d, NoRow) /\ todo' = Rest /\ pc' = "get"
    BY <1>11 DEF HardDelete
  <2>3. d # Parent => todo' # {}
    BY <2>1, <2>2, Turns DEF Shape, TypeOK
  <2>4. Parent \in Docs /\ \A k \in buf[Parent].links \cup row[Parent].links : Slots[k] \in Docs
    BY SlotTypes DEF TypeOK, Row, Docs
  <2> HIDE DEF d
  <2>. QED  BY <2>1, <2>2, <2>3, <2>4, NoRowType, Writes, SMTT(40)
            DEF Rows, Linked, Deleting, Stored, TypeOK
<1>12. CASE Finish
  <2>1. CASE tx = "own"
    BY <1>12, <2>1, CommitRows DEF Finish
  <2>2. CASE tx # "own"
    BY <1>12, <2>2 DEF Finish, db, Rows, Stored
  <2>. QED  BY <2>1, <2>2
<1>13. CASE Fail
  BY <1>13 DEF Fail, Failed, Rows, Stored
<1>14. ASSUME NEW asked \in SUBSET Fields, FindByID(asked) PROVE Rows'
  BY <1>14 DEF FindByID, Start, db, Rows, Deleting, Stored, Shape
<1>15. CASE FetchAllLinks
  BY <1>15 DEF FetchAllLinks, Start, db, Rows, Deleting, Stored, Shape
<1>16. CASE Hydrate
  BY <1>16 DEF Hydrate, Return, db, Rows, Deleting, Stored
<1>17. ASSUME NEW k \in DOMAIN Slots, FetchLink(k) PROVE Rows'
  BY <1>17 DEF FetchLink, db, Rows, Deleting, Stored
<1>18. CASE BeginTx
  BY <1>18, SlotTypes DEF BeginTx, Rows, Linked, Stored, TypeOK, Row, Docs
<1>19. CASE EndTx
  <2>1. CASE CommitTx
    BY <1>19, <2>1, CommitRows DEF EndTx, Deleting
  <2>2. CASE tx' = "none" /\ UNCHANGED <<row, born>>
    BY <2>2 DEF Rows
  <2>. QED  BY <1>19, <2>1, <2>2 DEF EndTx
<1>20. ASSUME NEW d \in Docs, NEW del \in BOOLEAN, NEW links \in OtherLinks, OtherSaves(d, del, links)
      PROVE  Rows'
  <2>1. /\ tx = "none" /\ tx' = tx /\ born' = born /\ d \in born /\ Parent \in Docs
        /\ row' = [row EXCEPT ![d] = [ver |-> Version, del |-> del, links |-> links]]
        /\ d = Parent => \A k \in links : Slots[k] \in born
    BY <1>20 DEF OtherSaves, Docs
  <2>2. row'[d].links = links /\ \A e \in Docs \ {d} : row'[e] = row[e]
    BY <2>1 DEF TypeOK
  <2>. QED  BY <2>1, <2>2 DEF Rows, Linked
<1>21. ASSUME NEW d \in Docs, OtherDeletes(d) PROVE Rows'
  BY <1>21, NoRowType DEF OtherDeletes, Rows, Linked, Stored, TypeOK, Docs
<1>. QED  BY <1>1, <1>2, <1>3, <1>4, <1>5, <1>6, <1>7, <1>8, <1>9, <1>10, <1>11, <1>12,
   <1>13, <1>14, <1>15, <1>16, <1>17, <1>18, <1>19, <1>20, <1>21 DEF Next

LEMMA CoveredStep ==
    ASSUME TypeOK, Pointers, Shape, Rows, Covered, [Next]_vars
    PROVE  Covered'
<1>1. CASE UNCHANGED vars
  BY <1>1, SameTurn DEF vars, Covered, Saving, Stored, Recorded
<1>2. ASSUME NEW cascade \in BOOLEAN, NEW ignore \in {FALSE, useRevision}, Save(cascade, ignore)
        PROVE  Covered'
  <2>1. pc' = "check" /\ slot' = slot /\ born' = born
    BY <1>2 DEF Save
  <2>2. ASSUME NEW x \in Children, View[x] # NoRow
        PROVE  Stored(x)'
    <3>1. x \in Docs
      BY DEF Docs
    <3>2. CASE tx = "none"
      BY <2>1, <2>2, <3>1, <3>2 DEF Rows, Stored, View
    <3>3. CASE tx # "none"
      BY <1>2, <2>2, <3>3 DEF Save, AutoWrap, Stored, View
    <3>. QED  BY <3>2, <3>3
  <2>3. ASSUME NEW x \in Children, Recorded(x)
        PROVE  Stored(x)' \/ Queued(x)'
    <3>1. PICK k \in DOMAIN Slots : Slots[k] = x /\ slot[k].id
      BY <2>3 DEF Recorded
    <3>2. CASE cascade /\ slot[k].value # 0
      <4>1. k \in todo'
        BY <1>2, <3>2 DEF Save, WriteOrder
      <4>. QED  BY <3>1, <4>1 DEF Queued, Among
    <3>3. CASE ~(cascade /\ slot[k].value # 0)
      BY <1>2, <2>2, <3>1, <3>3 DEF Save
    <3>. QED  BY <3>2, <3>3
  <2>4. \A x \in Children : Recorded(x)' => Recorded(x)
    BY <2>1 DEF Recorded
  <2>. QED  BY <2>1, <2>3, <2>4 DEF Covered
<1>3. ASSUME NEW cascade \in BOOLEAN, NEW ignore \in {FALSE, useRevision}, NEW hard \in BOOLEAN,
             Delete(cascade, ignore, hard)
        PROVE  Covered'
  BY <1>3 DEF Delete, Start, Covered, Saving, Stored
<1>4. CASE Check
  BY <1>4, SameTurn DEF Check, db, Covered, Saving, Stored, Recorded
<1>5. CASE Put
  <2> DEFINE d == Current
             m == mem[Struct]
             v == Encoded(d, m.ver, m.del)
  <2>1. d \in Docs /\ Struct \in 1..AtParent /\ m.ver # 0 /\ todo # {}
    BY <1>5, Turns, StructAtTurn DEF Put, Shape, Saving, TypeOK
  <2>2. v \in Row /\ v # NoRow
    <3>1. m.ver \in 0..MaxVer /\ m.del \in BOOLEAN
      BY <2>1 DEF TypeOK
    <3>. QED  BY <2>1, <3>1, EncodedType
  <2>3. Write(d, v) /\ slot' = slot /\ pc' = "after" /\ todo' = todo /\ Saving
    BY <1>5 DEF Put, Saving
  <2>4. d' = d /\ \A x \in Children : Queued(x)' <=> Queued(x)
    BY <2>3, SameTurn
  <2> HIDE DEF v, d, m
  <2>5. \A x \in Docs : Stored(x) \/ x = d => Stored(x)'
    BY <2>1, <2>2, <2>3, WriteStores
  <2>6. \A x \in Children : Recorded(x)' => Stored(x)' \/ Queued(x)'
    BY <2>3, <2>4, <2>5 DEF Covered, Recorded, Docs
  <2>7. Stored(d)'
    BY <2>1, <2>4, <2>5
  <2>. QED  BY <2>3, <2>4, <2>6, <2>7 DEF Covered, d
<1>6. CASE After
  <2>1. /\ pc' = "check" /\ todo' = Rest /\ todo # {} /\ Stored(Current) /\ Saving
        /\ UNCHANGED <<row, born, tx, buf>>
    BY <1>6 DEF After, db, Shape, Covered, Saving
  <2>2. \A x \in Children : Queued(x) => Queued(x)' \/ x = Current
    BY <2>1, Turns, NextTurn DEF TypeOK
  <2>3. \A x \in Children : Stored(x) => Stored(x)'
    BY <2>1 DEF Stored
  <2>4. \A k \in DOMAIN Slots : slot'[k].id => slot[k].id \/ Slots[k] = Current
    BY <1>6, <2>1, StructAtTurn DEF After, TypeOK
  <2>5. ASSUME NEW x \in Children, Recorded(x)'
        PROVE  Stored(x)' \/ Queued(x)'
    <3>1. CASE x = Current
      BY <2>1, <2>3, <3>1
    <3>2. CASE x # Current
      BY <2>1, <2>2, <2>3, <2>4, <2>5, <3>2 DEF Covered, Recorded
    <3>. QED  BY <3>1, <3>2
  <2>. QED  BY <2>1, <2>5 DEF Covered
<1>7. CASE Get
  BY <1>7 DEF Get, Covered, Saving, Stored
<1>8. CASE AlreadyDeleted
  BY <1>8 DEF AlreadyDeleted, Covered, Saving, Stored
<1>9. CASE SoftDelete
  BY <1>9 DEF SoftDelete, MarkDeleted, Covered, Saving, Stored
<1>10. CASE SoftDeleteFails
  BY <1>10 DEF SoftDeleteFails, MarkDeleted, Failed, Return, Covered, Saving, Stored
<1>11. CASE HardDelete
  BY <1>11 DEF HardDelete, Covered, Saving, Stored
<1>12. CASE Finish
  BY <1>12 DEF Finish, Return, Covered, Saving, Stored, Shape
<1>13. CASE Fail
  BY <1>13 DEF Fail, Failed, Return, Covered, Saving, Stored
<1>14. ASSUME NEW asked \in SUBSET Fields, FindByID(asked) PROVE Covered'
  BY <1>14 DEF FindByID, Start, Covered, Saving, Stored
<1>15. CASE FetchAllLinks
  BY <1>15 DEF FetchAllLinks, Start, Covered, Saving, Stored
<1>16. CASE Hydrate
  BY <1>16 DEF Hydrate, Return, Covered, Saving
<1>17. ASSUME NEW k \in DOMAIN Slots, FetchLink(k) PROVE Covered'
  BY <1>17 DEF FetchLink, Return, Covered, Saving, Stored
<1>18. CASE BeginTx
  BY <1>18 DEF BeginTx, Covered, Saving, Stored, Shape
<1>19. CASE EndTx
  BY <1>19 DEF EndTx, Covered, Saving, Stored
<1>20. ASSUME NEW d \in Docs, NEW del \in BOOLEAN, NEW links \in OtherLinks, OtherSaves(d, del, links)
      PROVE  Covered'
  BY <1>20, SameTurn DEF OtherSaves, Covered, Saving, Stored, Recorded
<1>21. ASSUME NEW d \in Docs, OtherDeletes(d) PROVE Covered'
  BY <1>21, SameTurn DEF OtherDeletes, Covered, Saving, Stored, Recorded
<1>. QED  BY <1>1, <1>2, <1>3, <1>4, <1>5, <1>6, <1>7, <1>8, <1>9, <1>10, <1>11, <1>12,
   <1>13, <1>14, <1>15, <1>16, <1>17, <1>18, <1>19, <1>20, <1>21 DEF Next

LEMMA CheckHolds ==
    ASSUME TypeOK, Shape, CheckHoldsAtPut, [Next]_vars
    PROVE  CheckHoldsAtPut'
<1>1. CASE UNCHANGED vars
  BY <1>1, SameTurn DEF vars, CheckHoldsAtPut, StillCurrent, View
<1>2. ASSUME NEW cascade \in BOOLEAN, NEW ignore \in {FALSE, useRevision}, Save(cascade, ignore)
        PROVE  CheckHoldsAtPut'
  BY <1>2 DEF Save, Start, CheckHoldsAtPut, StillCurrent
<1>3. ASSUME NEW cascade \in BOOLEAN, NEW ignore \in {FALSE, useRevision}, NEW hard \in BOOLEAN,
             Delete(cascade, ignore, hard)
        PROVE  CheckHoldsAtPut'
  BY <1>3 DEF Delete, Start, CheckHoldsAtPut, StillCurrent
<1>4. CASE Check
  BY <1>4, SameTurn DEF Check, db, CheckHoldsAtPut, StillCurrent, View, TypeOK
<1>5. CASE Put
  BY <1>5 DEF Put, CheckHoldsAtPut, StillCurrent
<1>6. CASE After
  BY <1>6 DEF After, CheckHoldsAtPut, StillCurrent
<1>7. CASE Get
  BY <1>7 DEF Get, CheckHoldsAtPut, StillCurrent
<1>8. CASE AlreadyDeleted
  BY <1>8 DEF AlreadyDeleted, CheckHoldsAtPut, StillCurrent
<1>9. CASE SoftDelete
  BY <1>9 DEF SoftDelete, MarkDeleted, CheckHoldsAtPut, StillCurrent
<1>10. CASE SoftDeleteFails
  BY <1>10 DEF SoftDeleteFails, MarkDeleted, Failed, Return, CheckHoldsAtPut, StillCurrent
<1>11. CASE HardDelete
  BY <1>11 DEF HardDelete, CheckHoldsAtPut, StillCurrent
<1>12. CASE Finish
  BY <1>12 DEF Finish, Return, CheckHoldsAtPut, StillCurrent
<1>13. CASE Fail
  BY <1>13 DEF Fail, Failed, Return, CheckHoldsAtPut, StillCurrent
<1>14. ASSUME NEW asked \in SUBSET Fields, FindByID(asked) PROVE CheckHoldsAtPut'
  BY <1>14 DEF FindByID, Start, CheckHoldsAtPut, StillCurrent
<1>15. CASE FetchAllLinks
  BY <1>15 DEF FetchAllLinks, Start, CheckHoldsAtPut, StillCurrent
<1>16. CASE Hydrate
  BY <1>16 DEF Hydrate, Return, CheckHoldsAtPut, StillCurrent
<1>17. ASSUME NEW k \in DOMAIN Slots, FetchLink(k) PROVE CheckHoldsAtPut'
  BY <1>17 DEF FetchLink, Return, CheckHoldsAtPut, StillCurrent
<1>18. CASE BeginTx
  BY <1>18 DEF BeginTx, CheckHoldsAtPut, StillCurrent
<1>19. CASE EndTx
  BY <1>19 DEF EndTx, CheckHoldsAtPut, StillCurrent
<1>20. ASSUME NEW d \in Docs, NEW del \in BOOLEAN, NEW links \in OtherLinks, OtherSaves(d, del, links)
      PROVE  CheckHoldsAtPut'
  BY <1>20, SameTurn DEF OtherSaves, CheckHoldsAtPut, StillCurrent, Shape, Saving, View
<1>21. ASSUME NEW d \in Docs, OtherDeletes(d) PROVE CheckHoldsAtPut'
  BY <1>21, SameTurn DEF OtherDeletes, CheckHoldsAtPut, StillCurrent, Shape, Saving, View
<1>. QED  BY <1>1, <1>2, <1>3, <1>4, <1>5, <1>6, <1>7, <1>8, <1>9, <1>10, <1>11, <1>12,
   <1>13, <1>14, <1>15, <1>16, <1>17, <1>18, <1>19, <1>20, <1>21 DEF Next

LEMMA NumberedStep ==
    ASSUME TypeOK, Pointers, Shape, Numbered, [Next]_vars
    PROVE  Numbered'
<1>1. CASE UNCHANGED vars
  BY <1>1, SameTurn DEF vars, Numbered, Saving, Recorded
<1>2. ASSUME NEW cascade \in BOOLEAN, NEW ignore \in {FALSE, useRevision}, Save(cascade, ignore)
        PROVE  Numbered'
  <2>1. /\ pc = "idle" /\ pc' = "check" /\ UNCHANGED <<slot, mem, clean>>
        /\ call'.cascade = cascade
    BY <1>2 DEF Save, Start, NoCall
  <2>2. ASSUME NEW k \in DOMAIN Slots, cascade, slot[k].value # 0
        PROVE  Queued(Slots[k])'
    <3>1. k \in todo'
      BY <1>2, <2>2 DEF Save, WriteOrder
    <3>. QED  BY <3>1 DEF Queued, Among
  <2>. QED  BY <2>1, <2>2 DEF Numbered, Saving, Recorded
<1>3. ASSUME NEW cascade \in BOOLEAN, NEW ignore \in {FALSE, useRevision}, NEW hard \in BOOLEAN,
             Delete(cascade, ignore, hard)
        PROVE  Numbered'
  BY <1>3 DEF Delete, Start, Numbered, Saving, Recorded
<1>4. CASE Check
  <2>1. /\ Current' = Current /\ Struct \in 1..AtParent
        /\ \A x \in Children : Queued(x)' <=> Queued(x)
        /\ Current = Parent => Struct = AtParent
        /\ Current # Parent => Slots[Struct] = Current
    BY <1>4, StructAtTurn, SameTurn DEF Check, Saving
  <2>2. /\ pc = "check" /\ pc' = "put" /\ UNCHANGED <<slot, call, clean>>
        /\ \A k \in 1..AtParent : k # Struct => mem'[k] = mem[k]
        /\ cur'.insert = ~mem[Struct].id
    BY <1>4, <2>1 DEF Check, TypeOK
  <2>3. \A x : Recorded(x)' <=> Recorded(x)
    BY <2>2 DEF Recorded
  <2>4. ASSUME clean, NEW k \in DOMAIN Slots, slot[k].value # 0, mem'[slot[k].value].id
        PROVE  Recorded(Slots[k]) \/ (Current = Slots[k] /\ cur'.insert)
    <3>1. slot[k].value \in DOMAIN Slots /\ Slots[slot[k].value] = Slots[k]
      BY <2>4 DEF Pointers, TypeOK
    <3>2. CASE mem[slot[k].value].id
      BY <2>2, <2>4, <3>2 DEF Numbered
    <3>3. CASE ~mem[slot[k].value].id
      <4>1. slot[k].value = Struct
        BY <2>2, <2>4, <3>1, <3>3, SlotTypes
      <4>2. Current # Parent
        BY <2>1, <3>1, <4>1, SlotTypes
      <4>. QED  BY <2>1, <2>2, <3>1, <3>3, <4>1, <4>2
    <3>. QED  BY <3>2, <3>3
  <2>5. clean /\ call.cascade =>
          \A k \in DOMAIN Slots : slot[k].value # 0 => Recorded(Slots[k]) \/ Queued(Slots[k])
    BY <2>2 DEF Numbered, Saving
  <2>6. ASSUME NEW k \in DOMAIN Slots PROVE Slots[k] \in Children
    BY SlotTypes
  <2>. QED  BY <2>1, <2>2, <2>3, <2>4, <2>5, <2>6 DEF Numbered
<1>5. CASE Put
  BY <1>5, SameTurn, SlotTypes DEF Put, Numbered, Saving, Recorded
<1>6. CASE After
  <2>1. /\ pc = "after" /\ pc' = "check" /\ todo' = Rest /\ todo # {} /\ mem[Struct].id
        /\ UNCHANGED <<mem, call, clean>> /\ Saving
    BY <1>6 DEF After, Shape, Saving
  <2>2. \A x \in Children : Queued(x) => Queued(x)' \/ x = Current
    BY <2>1, Turns, NextTurn DEF TypeOK
  <2>3. \A k \in DOMAIN Slots : slot'[k].value = slot[k].value /\ (slot[k].id => slot'[k].id)
    BY <1>6 DEF After, TypeOK
  <2>4. \A x : Recorded(x) => Recorded(x)'
    BY <2>3 DEF Recorded
  <2>5. ASSUME clean, NEW x \in Children, x = Current
        PROVE  Recorded(x)'
    <3>1. /\ Min(todo) \in DOMAIN Slots /\ Slots[Min(todo)] = x
          /\ slot[Min(todo)].value = Struct /\ Struct # 0
      BY <2>1, <2>5, StructAtTurn, SlotTypes
    <3>2. CASE cur.insert
      <4>1. slot'[Min(todo)].id
        BY <1>6, <2>5, <3>1, <3>2, SlotTypes DEF After, TypeOK
      <4>. QED  BY <3>1, <4>1 DEF Recorded
    <3>3. CASE ~cur.insert
      <4>1. Recorded(Slots[Min(todo)])
        BY <2>1, <2>5, <3>1, <3>3 DEF Numbered
      <4>. QED  BY <2>4, <3>1, <4>1
    <3>. QED  BY <3>2, <3>3
  <2>6. \A k \in DOMAIN Slots : Slots[k] \in Children /\ Slots[k] # Parent
    BY SlotTypes
  <2>. QED  BY <2>1, <2>2, <2>3, <2>4, <2>5, <2>6 DEF Numbered
<1>7. CASE Get
  BY <1>7 DEF Get, Numbered, Saving, Recorded
<1>8. CASE AlreadyDeleted
  BY <1>8 DEF AlreadyDeleted, Numbered, Saving, Recorded
<1>9. CASE SoftDelete
  <2>1. /\ pc = "delete" /\ pc' = "get" /\ UNCHANGED <<slot, clean>>
        /\ \A k \in DOMAIN Slots : mem'[k] = mem[k]
    BY <1>9, SlotTypes DEF SoftDelete, MarkDeleted, TypeOK
  <2>2. \A k \in DOMAIN Slots : slot[k].value # 0 => slot[k].value \in DOMAIN Slots
    BY DEF TypeOK
  <2>3. \A x : Recorded(x) => Recorded(x)'
    BY <2>1 DEF Recorded
  <2>. QED  BY <2>1, <2>2, <2>3 DEF Numbered, Saving
<1>10. CASE SoftDeleteFails
  BY <1>10 DEF SoftDeleteFails, MarkDeleted, Failed, Numbered
<1>11. CASE HardDelete
  BY <1>11 DEF HardDelete, Numbered, Saving, Recorded
<1>12. CASE Finish
  BY <1>12 DEF Finish, Return, Numbered, Saving, Recorded
<1>13. CASE Fail
  BY <1>13 DEF Fail, Failed, Numbered
<1>14. ASSUME NEW asked \in SUBSET Fields, FindByID(asked) PROVE Numbered'
  BY <1>14 DEF FindByID, Start, Numbered, Saving
<1>15. CASE FetchAllLinks
  BY <1>15 DEF FetchAllLinks, Start, Numbered, Saving, Recorded
<1>16. CASE Hydrate
  <2> DEFINE field == {k \in todo : FieldOf[k] = FieldOf[Min(todo)]}
             found == {k \in field : View[Slots[k]] # NoRow}
  <2>1. /\ pc = "hydrate" /\ pc' \in {"idle", "hydrate"} /\ clean' = clean
        /\ mem' = [k \in 1..AtParent |->
                     IF k \in found /\ Sharing(found, k) = k THEN Decoded(Slots[k]) ELSE mem[k]]
        /\ slot' = [k \in DOMAIN Slots |->
                      IF k \in found
                        THEN [id |-> TRUE, value |-> Sharing(found, k), loaded |-> TRUE]
                        ELSE slot[k]]
    BY <1>16 DEF Hydrate, Return
  <2> HIDE DEF found
  <2>2. \A k \in DOMAIN Slots : slot[k].id \/ k \in found => slot'[k].id
    BY <2>1
  <2>3. \A x : Recorded(x) => Recorded(x)'
    BY <2>2 DEF Recorded
  <2>4. ASSUME NEW k \in DOMAIN Slots, slot'[k].value # 0, mem'[slot'[k].value].id, clean
        PROVE  Recorded(Slots[k])'
    <3>1. CASE k \in found
      BY <2>2, <3>1 DEF Recorded
    <3>2. CASE k \notin found
      <4>1. slot'[k] = slot[k] /\ slot[k].value \in DOMAIN Slots /\ Slots[slot[k].value] = Slots[k]
        BY <2>1, <2>4, <3>2 DEF Pointers, TypeOK
      <4>2. CASE slot[k].value \in found
        BY <2>2, <4>1, <4>2 DEF Recorded
      <4>3. CASE slot[k].value \notin found
        <5>1. mem'[slot[k].value] = mem[slot[k].value]
          BY <2>1, <4>1, <4>3, SlotTypes
        <5>2. Recorded(Slots[k])
          BY <2>1, <2>4, <4>1, <5>1, SlotTypes DEF Numbered
        <5>. QED  BY <2>3, <5>2
      <4>. QED  BY <4>2, <4>3
    <3>. QED  BY <3>1, <3>2
  <2>. QED  BY <2>1, <2>4 DEF Numbered, Saving
<1>17. ASSUME NEW k \in DOMAIN Slots, FetchLink(k) PROVE Numbered'
  <2>1. pc = "idle" /\ pc' = "idle" /\ clean' = clean /\ slot[k].id
    BY <1>17 DEF FetchLink, Return, Unresolved
  <2>2. /\ slot'[k].id
        /\ \A j \in DOMAIN Slots \ {k} : slot'[j] = slot[j] /\ mem'[j] = mem[j]
        /\ (slot'[k] = slot[k] /\ mem'[k] = mem[k]) \/ slot'[k].value = k
    <3>1. CASE View[Slots[k]] = NoRow
      BY <1>17, <2>1, <3>1 DEF FetchLink
    <3>2. CASE View[Slots[k]] # NoRow
      <4>1. /\ mem' = [mem EXCEPT ![k] = Decoded(Slots[k])]
            /\ slot' = [slot EXCEPT ![k].value = k, ![k].loaded = TRUE]
        BY <1>17, <3>2 DEF FetchLink
      <4>. QED  BY <2>1, <4>1, SlotTypes DEF TypeOK
    <3>. QED  BY <3>1, <3>2
  <2>3. \A x : Recorded(x) => Recorded(x)'
    BY <2>2 DEF Recorded
  <2>4. ASSUME NEW j \in DOMAIN Slots, slot'[j].value # 0, mem'[slot'[j].value].id, clean
        PROVE  Recorded(Slots[j])'
    <3>1. CASE Slots[j] = Slots[k]
      BY <2>2, <3>1 DEF Recorded
    <3>2. CASE Slots[j] # Slots[k]
      <4>1. slot'[j] = slot[j] /\ slot[j].value \in DOMAIN Slots \ {k}
        BY <2>2, <2>4, <3>2 DEF Pointers, TypeOK
      <4>2. Recorded(Slots[j])
        BY <2>1, <2>2, <2>4, <4>1 DEF Numbered
      <4>. QED  BY <2>3, <4>2
    <3>. QED  BY <3>1, <3>2
  <2>. QED  BY <2>1, <2>4 DEF Numbered, Saving
<1>18. CASE BeginTx
  BY <1>18 DEF BeginTx, Numbered, Saving, Recorded
<1>19. CASE EndTx
  BY <1>19 DEF EndTx, Numbered, Saving, Recorded
<1>20. ASSUME NEW d \in Docs, NEW del \in BOOLEAN, NEW links \in OtherLinks, OtherSaves(d, del, links)
      PROVE  Numbered'
  BY <1>20, SameTurn, SlotTypes DEF OtherSaves, Numbered, Saving, Recorded
<1>21. ASSUME NEW d \in Docs, OtherDeletes(d) PROVE Numbered'
  BY <1>21, SameTurn, SlotTypes DEF OtherDeletes, Numbered, Saving, Recorded
<1>. QED  BY <1>1, <1>2, <1>3, <1>4, <1>5, <1>6, <1>7, <1>8, <1>9, <1>10, <1>11, <1>12,
   <1>13, <1>14, <1>15, <1>16, <1>17, <1>18, <1>19, <1>20, <1>21 DEF Next

LEMMA UndoneStep ==
    ASSUME TypeOK, Shape, Undone, [Next]_vars
    PROVE  Undone'
<1>1. CASE UNCHANGED vars
  BY <1>1, SameTurn DEF vars, Undone, Deleting, Gone, View, Recorded
<1>2. ASSUME NEW cascade \in BOOLEAN, NEW ignore \in {FALSE, useRevision}, Save(cascade, ignore)
        PROVE  Undone'
  BY <1>2 DEF Save, Start, Undone, Deleting
<1>3. ASSUME NEW cascade \in BOOLEAN, NEW ignore \in {FALSE, useRevision}, NEW hard \in BOOLEAN,
             Delete(cascade, ignore, hard)
        PROVE  Undone'
  <2>1. pc' = "get" /\ slot' = slot /\ call'.cascade = cascade /\ AtParent \in todo'
    BY <1>3 DEF Delete, Start, NoCall
  <2>2. ASSUME NEW x \in Children, cascade, Recorded(x)
        PROVE  Queued(x)'
    <3>1. PICK k \in DOMAIN Slots : Slots[k] = x /\ slot[k].id
      BY <2>2 DEF Recorded
    <3>2. k \in todo'
      BY <1>3, <2>2, <3>1 DEF Delete
    <3>. QED  BY <3>1, <3>2 DEF Queued, Among
  <2>. QED  BY <2>1, <2>2 DEF Undone, Recorded
<1>4. CASE Check
  BY <1>4 DEF Check, Undone, Deleting
<1>5. CASE Put
  BY <1>5 DEF Put, Undone, Deleting
<1>6. CASE After
  BY <1>6 DEF After, Undone, Deleting
<1>7. CASE Get
  BY <1>7, SameTurn DEF Get, db, Undone, Deleting, Gone, View, Recorded
<1>8. CASE AlreadyDeleted
  <2>1. /\ todo # {} /\ todo' = Rest /\ Current # Parent /\ View[Current] = NoRow
        /\ Deleting /\ UNCHANGED <<pc, call, slot, row, tx, buf>>
        /\ revived' = revived \ {Current}
    BY <1>8 DEF AlreadyDeleted, db, Deleting
  <2>2. AtParent \in todo' /\ \A x \in Children : Queued(x) => Queued(x)' \/ x = Current
    BY <2>1, Turns, NextTurn DEF TypeOK, Shape
  <2>3. \A x \in Children : Gone(x) \/ x = Current => Gone(x)'
    BY <2>1 DEF Gone, View
  <2>. QED  BY <2>1, <2>2, <2>3 DEF Undone, Recorded
<1>9. CASE SoftDelete
  <2> DEFINE v == Encoded(Current, Version, TRUE)
  <2>1. /\ pc = "delete" /\ pc' = "get" /\ todo # {} /\ todo' = Rest /\ Write(Current, v)
        /\ ~call.hard /\ UNCHANGED <<call, slot>> /\ revived' = revived \ {Current}
    BY <1>9 DEF SoftDelete, MarkDeleted, SoftPath, Shape
  <2>2. /\ Current \in Docs
        /\ Current # Parent => AtParent \in todo'
        /\ \A x \in Children : Queued(x) => Queued(x)' \/ x = Current
    BY <2>1, Turns, NextTurn DEF TypeOK, Shape
  <2>3. v \in Row /\ v.del
    BY <1>9, FreshType, EncodedType DEF SoftDelete, MarkDeleted
  <2> HIDE DEF v
  <2>4. View'[Current] = v /\ \A e \in Docs \ {Current} : View'[e] = View[e]
    BY <2>1, <2>2, <2>3, Writes
  <2>5. \A x \in Docs : Gone(x) \/ x = Current => Gone(x)'
    BY <2>1, <2>3, <2>4 DEF Gone
  <2>. QED  BY <2>1, <2>2, <2>5 DEF Undone, Deleting, Recorded, Docs
<1>10. CASE SoftDeleteFails
  BY <1>10 DEF SoftDeleteFails, MarkDeleted, Failed, Return, Undone, Deleting
<1>11. CASE HardDelete
  <2>1. /\ pc = "delete" /\ pc' = "get" /\ todo # {} /\ todo' = Rest /\ Write(Current, NoRow)
        /\ UNCHANGED <<call, slot>> /\ revived' = revived \ {Current}
    BY <1>11 DEF HardDelete, Shape
  <2>2. /\ Current \in Docs
        /\ Current # Parent => AtParent \in todo'
        /\ \A x \in Children : Queued(x) => Queued(x)' \/ x = Current
    BY <2>1, Turns, NextTurn DEF TypeOK, Shape
  <2>3. View'[Current] = NoRow /\ \A e \in Docs \ {Current} : View'[e] = View[e]
    BY <2>1, <2>2, NoRowType, Writes
  <2>4. \A x \in Docs : Gone(x) \/ x = Current => Gone(x)'
    BY <2>1, <2>3 DEF Gone
  <2>. QED  BY <2>1, <2>2, <2>4 DEF Undone, Deleting, Recorded, Docs
<1>12. CASE Finish
  BY <1>12 DEF Finish, Return, Undone, Deleting
<1>13. CASE Fail
  BY <1>13 DEF Fail, Failed, Return, Undone, Deleting
<1>14. ASSUME NEW asked \in SUBSET Fields, FindByID(asked) PROVE Undone'
  BY <1>14 DEF FindByID, Start, Undone, Deleting
<1>15. CASE FetchAllLinks
  BY <1>15 DEF FetchAllLinks, Start, Undone, Deleting
<1>16. CASE Hydrate
  BY <1>16 DEF Hydrate, Return, Undone, Deleting
<1>17. ASSUME NEW k \in DOMAIN Slots, FetchLink(k) PROVE Undone'
  BY <1>17 DEF FetchLink, Return, Undone, Deleting
<1>18. CASE BeginTx
  BY <1>18 DEF BeginTx, Undone, Deleting
<1>19. CASE EndTx
  BY <1>19 DEF EndTx, Undone, Deleting
<1>20. ASSUME NEW d \in Docs, NEW del \in BOOLEAN, NEW links \in OtherLinks, OtherSaves(d, del, links)
      PROVE  Undone'
  <2>1. /\ tx = "none" /\ UNCHANGED <<tx, slot, pc, call, todo>>
        /\ \A x \in Docs \ {d} : row'[x] = row[x]
        /\ Deleting => revived' = revived \cup {d}
    BY <1>20 DEF OtherSaves, Deleting, TypeOK
  <2>2. Deleting => \A x \in Docs : Gone(x) => Gone(x)'
    BY <2>1 DEF Gone, View
  <2>. QED  BY <2>1, <2>2, SameTurn DEF Undone, Deleting, Recorded, Docs
<1>21. ASSUME NEW d \in Docs, OtherDeletes(d) PROVE Undone'
  <2>1. /\ tx = "none" /\ UNCHANGED <<tx, slot, pc, call, todo, revived>>
        /\ row'[d] = NoRow /\ \A x \in Docs \ {d} : row'[x] = row[x]
    BY <1>21 DEF OtherDeletes, TypeOK
  <2>2. \A x \in Docs : Gone(x) => Gone(x)'
    BY <2>1 DEF Gone, View
  <2>. QED  BY <2>1, <2>2, SameTurn DEF Undone, Deleting, Recorded, Docs
<1>. QED  BY <1>1, <1>2, <1>3, <1>4, <1>5, <1>6, <1>7, <1>8, <1>9, <1>10, <1>11, <1>12,
   <1>13, <1>14, <1>15, <1>16, <1>17, <1>18, <1>19, <1>20, <1>21 DEF Next

LEMMA ResolvingStep ==
    ASSUME TypeOK, Shape, Resolving, [Next]_vars
    PROVE  Resolving'
<1>1. ASSUME NEW asked \in SUBSET Fields, FindByID(asked) PROVE Resolving'
  BY <1>1 DEF FindByID, Start, NoCall, Resolving
<1>2. CASE FetchAllLinks
  BY <1>2 DEF FetchAllLinks, Start, Unresolved, Resolving
<1>3. CASE Hydrate
  <2> DEFINE field == {k \in todo : FieldOf[k] = FieldOf[Min(todo)]}
             found == {k \in field : View[Slots[k]] # NoRow}
  <2>1. /\ pc = "hydrate"
        /\ slot' = [k \in DOMAIN Slots |->
                      IF k \in found
                        THEN [id |-> TRUE, value |-> Sharing(found, k), loaded |-> TRUE]
                        ELSE slot[k]]
    BY <1>3 DEF Hydrate
  <2>2. pc' = "hydrate" => call' = call /\ todo' = todo \ field /\ Dangling(field) = {}
    BY <1>3 DEF Hydrate, Return
  <2>3. Dangling(field) = {} => field \subseteq found
    BY DEF Dangling
  <2> HIDE DEF field, found
  <2>. QED  BY <2>1, <2>2, <2>3 DEF Resolving
<1>4. CASE UNCHANGED <<slot, pc, call, todo>>
  BY <1>4 DEF Resolving
<1>5. CASE pc' # "hydrate"
  BY <1>5 DEF Resolving
<1>. QED
  BY <1>1, <1>2, <1>3, <1>4, <1>5
     DEF Next, vars, Save, Delete, Start, Check, Put, After, Get, AlreadyDeleted, SoftDelete,
         SoftDeleteFails, MarkDeleted, HardDelete, Finish, Fail, Failed, Return, FetchLink,
         BeginTx, EndTx, OtherSaves, OtherDeletes

-----------------------------------------------------------------------------
LEMMA LinkInit == Init => LinkInv
<1> SUFFICES ASSUME Init PROVE LinkInv
  OBVIOUS
<1>1. PICK old \in SUBSET Children, linked \in NewLinks :
        /\ row = [d \in Docs |-> IF d \in old THEN [NoRow EXCEPT !.ver = 1] ELSE NoRow]
        /\ born = old
        /\ mem = [k \in 1..AtParent |->
                    IF k \in linked /\ Slots[k] \in old /\ Sharing(linked, k) = k
                      THEN [NoStruct EXCEPT !.id = TRUE, !.ver = 1]
                      ELSE NoStruct]
        /\ slot = [k \in DOMAIN Slots |->
                    IF k \in linked
                      THEN [id |-> Slots[k] \in old, value |-> Sharing(linked, k), loaded |-> TRUE]
                      ELSE NoLink]
  BY DEF Init
<1>2. 1 \in 0..MaxVer /\ 2 \in 1..(MaxVer + 1)
  OBVIOUS
<1>3. row \in [Docs -> Row]
  <2>1. [NoRow EXCEPT !.ver = 1] \in Row
    BY <1>2, NoRowType DEF Row
  <2>. QED  BY <1>1, <2>1, NoRowType
<1>4. mem \in [1..AtParent -> [id: BOOLEAN, ver: 0..MaxVer, del: BOOLEAN]]
  <2>1. [NoStruct EXCEPT !.id = TRUE, !.ver = 1] \in [id: BOOLEAN, ver: 0..MaxVer, del: BOOLEAN]
    BY <1>2 DEF NoStruct
  <2>. QED  BY <1>1, <2>1, NoRowType
<1>5. \A k \in linked : Sharing(linked, k) \in linked /\ Slots[Sharing(linked, k)] = Slots[k]
  BY NewLinksAssumption, Shares
<1>6. slot \in [DOMAIN Slots -> LinkType] /\ Pointers
  BY <1>1, <1>5, NewLinksAssumption, SlotTypes DEF Init, LinkType, NoLink, Pointers, Saving
<1>7. TypeOK
  <2>1. DbOK
    BY <1>1, <1>2, <1>3, NoRowType DEF Init, DbOK, Docs
  <2>2. CallOK
    BY NoRowType DEF Init, CallOK
  <2>. QED  BY <1>4, <1>6, <2>1, <2>2, TypeParts DEF StructOK
<1>8. Shape /\ Covered /\ CheckHoldsAtPut /\ Undone /\ Resolving
  BY DEF Init, Shape, Covered, CheckHoldsAtPut, Undone, Resolving, Saving, Deleting
<1>9. Rows
  BY <1>1, NoRowType DEF Init, Rows, Linked, Docs
<1>10. Numbered
  <2>1. ASSUME NEW k \in DOMAIN Slots, slot[k].value # 0, mem[slot[k].value].id PROVE slot[k].id
    <3>1. k \in linked
      BY <1>1, <2>1 DEF NoLink
    <3>2. slot[k].value \in linked /\ Slots[slot[k].value] = Slots[k]
      BY <1>1, <1>5, <3>1
    <3>3. Slots[slot[k].value] \in old
      BY <1>1, <2>1, <3>2, NewLinksAssumption, NoRowType, SlotTypes
    <3>. QED  BY <1>1, <3>1, <3>2, <3>3
  <2>. QED  BY <2>1 DEF Init, Numbered, Saving, Recorded
<1>. QED  BY <1>6, <1>7, <1>8, <1>9, <1>10 DEF LinkInv

LEMMA LinkStep == LinkInv /\ [Next]_vars => LinkInv'
BY TypeStep, PointersStep, ShapeStep, RowsStep, CoveredStep, CheckHolds, NumberedStep,
   UndoneStep, ResolvingStep DEF LinkInv

LEMMA LinkAlways == Spec => []LinkInv
BY LinkInit, LinkStep, PTL DEF Spec

(* A stored, live parent refers only to children that were stored: a cascade
   writes them first, and one that fails or is rolled back, in whatever state
   it leaves the structs a retry starts from, stores no parent without them. *)
THEOREM NoLinkIsPhantom == Spec => []NoPhantomLink
<1>1. LinkInv => NoPhantomLink
  BY DEF LinkInv, Rows, NoPhantomLink
<1>. QED  BY <1>1, LinkAlways, PTL

(* In a transaction, and in an update that opens its own, the Put replaces the
   version the check has compared, for the parent and for every child.      *)
THEOREM ChecksHoldAtPut == Spec => []CheckHoldsAtPut
<1>1. LinkInv => CheckHoldsAtPut
  BY DEF LinkInv
<1>. QED  BY <1>1, LinkAlways, PTL

(* A revision-checked update that fails at any step, for the parent or for a
   child, has stored nothing of either.                                     *)
THEOREM UpdateIsAllOrNothing == Spec => FailedUpdateStoresNothing
<1>1. ASSUME LinkInv, [Next]_vars, pc # "idle", outcome' = "err",
             call.op = "save", call.update, useRevision, ~call.ignore
      PROVE  wrote = {} /\ row' = row
  <2>1. Saving /\ tx # "none" /\ wrote = {} /\ outcome = "nil"
    <3>1. Saving
      BY <1>1 DEF LinkInv, TypeOK, Shape, Saving, Deleting
    <3>. QED  BY <1>1, <3>1 DEF LinkInv, Shape
  <2>2. Fail
    BY <1>1, <2>1 DEF Saving, Next, vars, Save, Delete, Start, Check, Put, After, Get,
                      AlreadyDeleted, SoftDelete, SoftDeleteFails, MarkDeleted, HardDelete,
                      Finish, Return, FindByID, FetchAllLinks, Hydrate, FetchLink, BeginTx,
                      EndTx, OtherSaves, OtherDeletes
  <2>. QED  BY <2>1, <2>2 DEF Fail
<1>. QED  BY <1>1, LinkAlways, PTL DEF Spec, FailedUpdateStoresNothing

(* LinkWrite stores a reference to every linked document, in a struct no call
   has failed with, whether it is reached by one link or by several.        *)
THEOREM LinksAreRecorded == Spec => LinksRecorded
<1>1. ASSUME LinkInv, [Next]_vars, pc = "put", pc' = "after", Current = Parent,
             call.cascade, clean
      PROVE  {Slots[k] : k \in {j \in DOMAIN Slots : slot[j].value # 0}}
                \subseteq Linked(View'[Parent])
  <2>1. Put
    BY <1>1 DEF Next, vars, Save, Delete, Start, Check, After, Get, AlreadyDeleted,
                SoftDelete, SoftDeleteFails, MarkDeleted, Failed, HardDelete, Finish, Fail,
                Return, FindByID, FetchAllLinks, Hydrate, FetchLink, BeginTx, EndTx,
                OtherSaves, OtherDeletes
  <2> DEFINE v == Encoded(Parent, mem[AtParent].ver, mem[AtParent].del)
  <2>0. todo # {} /\ todo \subseteq 1..AtParent /\ Saving
    BY <1>1 DEF LinkInv, Shape, TypeOK, Saving
  <2>2. Write(Parent, v) /\ Parent \in Docs
    BY <1>1, <2>0, <2>1, StructAtTurn DEF Put, Docs, LinkInv
  <2>3. mem[AtParent].ver \in 0..MaxVer /\ mem[AtParent].del \in BOOLEAN
    BY <1>1, SlotTypes DEF LinkInv, TypeOK
  <2>4. v \in Row /\ v.links = {k \in DOMAIN Slots : slot[k].id}
    BY <2>3, EncodedType
  <2>5. View'[Parent] = v
    <3> HIDE DEF v
    <3>. QED  BY <1>1, <2>2, <2>4, Writes DEF LinkInv
  <2>6. \A x \in Children : ~Queued(x)
    BY <1>1, <2>0, Turns, SlotTypes DEF Among
  <2>7. \A k \in DOMAIN Slots : slot[k].value # 0 => Recorded(Slots[k])
    BY <1>1, <2>0, <2>6, SlotTypes DEF LinkInv, Numbered
  <2>. QED  BY <2>4, <2>5, <2>7 DEF Linked, Recorded
<1>. QED  BY <1>1, LinkAlways, PTL DEF Spec, LinksRecorded

(* When a cascading delete returns nil, the parent and its linked children
   are gone, but for those another client saved behind it.                  *)
THEOREM DeleteAlwaysCascades == Spec => DeleteCascades
<1>1. ASSUME LinkInv, [Next]_vars, pc = "get", pc' = "idle", outcome' = "nil",
             call.op = "delete", call.cascade
      PROVE  \A d \in {Parent} \cup {Slots[k] : k \in {j \in DOMAIN Slots : slot[j].id}} :
                d \in revived \/ View[d] = NoRow \/ (View[d].del /\ ~call.hard)
  <2>1. Finish
    BY <1>1 DEF Next, vars, Save, Delete, Start, Check, Put, After, Get, AlreadyDeleted,
                SoftDelete, SoftDeleteFails, MarkDeleted, HardDelete, Fail, Failed, Return,
                FindByID, FetchAllLinks, Hydrate, FetchLink, BeginTx, EndTx, OtherSaves,
                OtherDeletes
  <2>2. todo = {}
    BY <2>1 DEF Finish
  <2>3. Gone(Parent) /\ \A x \in Children : Recorded(x) => Gone(x)
    BY <1>1, <2>2 DEF LinkInv, Undone, Deleting, Queued, Among
  <2>4. \A k \in DOMAIN Slots : slot[k].id => Gone(Slots[k])
    BY <2>3, SlotTypes DEF Recorded
  <2>. QED  BY <2>3, <2>4 DEF Gone
<1>. QED  BY <1>1, LinkAlways, PTL DEF Spec, DeleteCascades

(* A read that returns nil has resolved every link of the fields it was asked
   for, whatever other clients wrote between its queries.                   *)
THEOREM FetchAlwaysResolves == Spec => FetchResolves
<1>1. ASSUME LinkInv, [Next]_vars, pc = "hydrate", pc' = "idle", outcome' = "nil"
      PROVE  \A k \in DOMAIN Slots : FieldOf[k] \in call.asked /\ slot'[k].id => slot'[k].loaded
  <2>1. Finish
    BY <1>1 DEF Next, vars, Save, Delete, Start, Check, Put, After, Get, AlreadyDeleted,
                SoftDelete, SoftDeleteFails, MarkDeleted, HardDelete, Fail, Failed, Return,
                FindByID, FetchAllLinks, Hydrate, FetchLink, BeginTx, EndTx, OtherSaves,
                OtherDeletes
  <2>2. todo = {} /\ slot' = slot
    BY <2>1 DEF Finish
  <2>. QED  BY <1>1, <2>2 DEF LinkInv, Resolving
<1>. QED  BY <1>1, LinkAlways, PTL DEF Spec, FetchResolves
=============================================================================
