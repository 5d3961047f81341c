-------------------------- MODULE AttachmentProofs --------------------------
(***************************************************************************)
(* Proofs about Attachments, for all sessions, documents and contents: no  *)
(* half-written file, no file orphaned silently, and no broken reference   *)
(* where documents share no content, have no AfterInsert hook and are      *)
(* deleted on the *DB.                                                     *)
(***************************************************************************)
EXTENDS Attachments, TLAPS

(* A file is linked only when its copy is complete.                         *)
TempFull == \A s \in Sessions : pc[s] = "link" => temp[s] = "full"

(* A session between calls has no bytes in hand; a loaded document's id has
   been used, so that nobody saves it again, and its row is what was loaded
   or gone.                                                                 *)
IdleEmpty    == \A s \in Sessions : pc[s] \in {"idle", "tx"} => hand[s] = {}
LoadedSaved  == \A s \in Sessions : pc[s] \in {"loaded", "txcleanup", "tx"} => doc[s] \in saved
LoadedHasRow == \A s \in Sessions : pc[s] = "loaded" => row[doc[s]] \subseteq hand[s]
RowsSaved    == \A d \in Docs : row[d] # {} => d \in saved

(* A transaction that has deleted document d has seen to the bytes at p.    *)
Passed(s, d, p) == pc[s] \in {"txcleanup", "tx"} /\ doc[s] = d /\ p \notin hand[s]

(* Why the bytes at p may stay: a reader does not count, nor a row that is
   about to go whose cleanup has been here.                                 *)
Kept(p) == \/ p \in excused
           \/ \E d \in Docs : p \in row[d] /\ \A s \in Sessions : ~Passed(s, d, p)
           \/ \E s \in Sessions : pc[s] # "loaded" /\ p \in hand[s]

FilesKept == \A p \in Paths \ setup.inSlice : files[p] # "absent" => Kept(p)

(* The application that uploads no content twice, has no AfterInsert hook and
   deletes on the *DB.                                                      *)
Alone == ~setup.sharing /\ ~setup.inTx /\ ~setup.hooks

Storing(s) == pc[s] \in {"copy", "link"}
Owns(s)    == pc[s] \in {"copy", "link", "stored"}

NoTx      == \A s \in Sessions : pc[s] \notin {"txcleanup", "tx"}
Known     == /\ \A d \in Docs : row[d] \subseteq uploaded
             /\ \A s \in Sessions : /\ hand[s] \subseteq uploaded
                                    /\ Storing(s) => path[s] \in uploaded
RowsApart == \A d, e \in Docs : d # e => row[d] \cap row[e] = {}
OwnApart  == \A s \in Sessions : Owns(s) =>
                /\ \A d \in Docs : hand[s] \cap row[d] = {}
                /\ \A t \in Sessions \ {s} : hand[s] \cap hand[t] = {}
PathApart == \A s \in Sessions : Storing(s) =>
                /\ \A d \in Docs : path[s] \notin row[d]
                /\ \A t \in Sessions : path[s] \notin hand[t]
                /\ \A t \in Sessions \ {s} : Storing(t) => path[s] # path[t]
LoadApart == \A s \in Sessions, d \in Docs :
                pc[s] = "cleanup" \/ (pc[s] = "loaded" /\ d # doc[s]) => hand[s] \cap row[d] = {}
OwnFull   == \A s \in Sessions : Owns(s) => \A p \in hand[s] : files[p] = "full"
RowFull   == \A d \in Docs : \A p \in row[d] : files[p] = "full"

AloneInv == /\ NoTx /\ Known /\ RowsApart /\ OwnApart /\ PathApart /\ LoadApart
            /\ OwnFull /\ RowFull

FileInv   == TempFull /\ NoPartialFile
OrphanInv == IdleEmpty /\ LoadedSaved /\ LoadedHasRow /\ RowsSaved /\ FilesKept

AttachInv == TypeOK /\ FileInv /\ OrphanInv /\ (Alone => AloneInv)

USE NonEmptyAssumption

LEMMA AttachInit == Init => AttachInv
<1> SUFFICES ASSUME Init PROVE AttachInv
  OBVIOUS
<1>1. TypeOK
  BY DEF Init, TypeOK, Bytes
<1>2. FileInv /\ OrphanInv
  BY DEF Init, FileInv, TempFull, NoPartialFile, OrphanInv, IdleEmpty, LoadedSaved,
         LoadedHasRow, RowsSaved, FilesKept
<1>3. AloneInv
  BY DEF Init, AloneInv, NoTx, Known, RowsApart, OwnApart, PathApart, LoadApart, OwnFull,
         RowFull, Storing, Owns
<1> QED
  BY <1>1, <1>2, <1>3 DEF AttachInv

LEMMA AttachType == TypeOK /\ [Next]_vars => TypeOK'
<1> SUFFICES ASSUME TypeOK, [Next]_vars PROVE TypeOK'
  OBVIOUS
<1> USE DEF TypeOK, GoTo
<1>1. ASSUME NEW s \in Sessions, NEW p \in Paths, Store(s, p) PROVE TypeOK'
  BY <1>1 DEF Store, Bytes
<1>2. ASSUME NEW s \in Sessions, NEW p \in Paths, RemoveBytes(s, p) PROVE TypeOK'
  BY <1>2 DEF RemoveBytes, Bytes
<1>3. ASSUME NEW s \in Sessions, NEW d \in Docs, Save(s, d) PROVE TypeOK'
  BY <1>3 DEF Save
<1>4. ASSUME NEW s \in Sessions, NEW d \in Docs, FindByID(s, d) PROVE TypeOK'
  BY <1>4 DEF FindByID
<1>5. ASSUME NEW s \in Sessions, Copied(s) PROVE TypeOK'
  BY <1>5 DEF Copied, Bytes
<1>6. ASSUME NEW s \in Sessions, StoreFails(s) PROVE TypeOK'
  BY <1>6 DEF StoreFails, Bytes
<1>7. ASSUME NEW s \in Sessions, Link(s) PROVE TypeOK'
  BY <1>7 DEF Link, Linked, Bytes
<1>8. ASSUME NEW s \in Sessions, SaveFails(s) PROVE TypeOK'
  BY <1>8 DEF SaveFails
<1>9. ASSUME NEW s \in Sessions, DeleteRefused(s) PROVE TypeOK'
  BY <1>9 DEF DeleteRefused
<1>10. ASSUME NEW s \in Sessions, DeleteOnDB(s) PROVE TypeOK'
  BY <1>10 DEF DeleteOnDB, RowAfterDelete, CollectAttachments
<1>18. ASSUME NEW s \in Sessions, NEW d \in Docs, AfterInsertFails(s, d) PROVE TypeOK'
  BY <1>18 DEF AfterInsertFails
<1>11. ASSUME NEW s \in Sessions, DeleteInTx(s) PROVE TypeOK'
  BY <1>11 DEF DeleteInTx, CollectAttachments
<1>12. ASSUME NEW s \in Sessions, DeleteFails(s) PROVE TypeOK'
  BY <1>12 DEF DeleteFails
<1>13. ASSUME NEW s \in Sessions, CleanupDone(s) PROVE TypeOK'
  BY <1>13 DEF CleanupDone
<1>14. ASSUME NEW s \in Sessions, Commit(s) PROVE TypeOK'
  BY <1>14 DEF Commit, RowAfterDelete
<1>15. ASSUME NEW s \in Sessions, Rollback(s) PROVE TypeOK'
  BY <1>15 DEF Rollback
<1>16. ASSUME NEW s \in Sessions, Crash(s) PROVE TypeOK'
  BY <1>16 DEF Crash, Bytes
<1>17. CASE UNCHANGED vars
  BY <1>17 DEF vars
<1> QED
  BY <1>1, <1>2, <1>3, <1>4, <1>5, <1>6, <1>7, <1>8, <1>9, <1>10, <1>11, <1>12, <1>13,
     <1>14, <1>15, <1>16, <1>17, <1>18 DEF Next

(* Only Link fills a storage path, with a complete copy.                    *)
LEMMA AttachFiles == TypeOK /\ FileInv /\ [Next]_vars => FileInv'
<1> SUFFICES ASSUME TypeOK, FileInv, [Next]_vars PROVE FileInv'
  OBVIOUS
<1> USE DEF TypeOK, FileInv, TempFull, NoPartialFile, GoTo
<1>1. ASSUME NEW s \in Sessions, NEW p \in Paths, Store(s, p) PROVE FileInv'
  BY <1>1 DEF Store
<1>2. ASSUME NEW s \in Sessions, NEW p \in Paths, RemoveBytes(s, p) PROVE FileInv'
  BY <1>2 DEF RemoveBytes
<1>3. ASSUME NEW s \in Sessions, Copied(s) PROVE FileInv'
  BY <1>3 DEF Copied
<1>4. ASSUME NEW s \in Sessions, StoreFails(s) PROVE FileInv'
  BY <1>4 DEF StoreFails
<1>5. ASSUME NEW s \in Sessions, Link(s) PROVE FileInv'
  BY <1>5 DEF Link, Linked
<1>6. ASSUME NEW s \in Sessions, Crash(s) PROVE FileInv'
  BY <1>6 DEF Crash
<1>7. ASSUME NEW s \in Sessions, NEW at, at # "link", GoTo(s, at), UNCHANGED <<files, temp>>
      PROVE  FileInv'
  BY <1>7
<1>8. ASSUME NEW s \in Sessions,
             \/ \E d \in Docs : Save(s, d) \/ AfterInsertFails(s, d) \/ FindByID(s, d)
             \/ SaveFails(s) \/ DeleteRefused(s) \/ DeleteOnDB(s) \/ DeleteInTx(s)
             \/ DeleteFails(s) \/ CleanupDone(s) \/ Commit(s) \/ Rollback(s)
      PROVE  FileInv'
  BY <1>7, <1>8 DEF Save, AfterInsertFails, FindByID, SaveFails, DeleteRefused, DeleteOnDB,
                    DeleteInTx, DeleteFails, CleanupDone, Commit, Rollback
<1>9. CASE UNCHANGED vars
  BY <1>9 DEF vars
<1> QED
  BY <1>1, <1>2, <1>3, <1>4, <1>5, <1>6, <1>8, <1>9 DEF Next

(* A step of s that leaves the bytes, the rows and the ids alone, gives nothing
   up that it held, and is not about a deleted row.                          *)
LEMMA KeptByQuietStep ==
    ASSUME TypeOK, OrphanInv, NEW s \in Sessions, NEW at, GoTo(s, at),
           at \notin {"loaded", "txcleanup", "tx"},
           hand[s] \subseteq hand'[s] \/ pc[s] = "loaded",
           at = "idle" => hand'[s] = {},
           \A t \in Sessions \ {s} : hand'[t] = hand[t],
           UNCHANGED <<setup, row, files, saved, doc, excused>>
    PROVE  OrphanInv'
<1> USE DEF TypeOK, OrphanInv, GoTo
<1>1. pc'[s] = at /\ \A t \in Sessions \ {s} : pc'[t] = pc[t]
  OBVIOUS
<1>2. IdleEmpty' /\ LoadedSaved' /\ LoadedHasRow' /\ RowsSaved'
  BY <1>1 DEF IdleEmpty, LoadedSaved, LoadedHasRow, RowsSaved
<1>3. FilesKept'
  <2> SUFFICES ASSUME NEW p \in Paths, Kept(p) PROVE Kept(p)'
    BY DEF FilesKept
  <2>1. \A t \in Sessions, d \in Docs : Passed(t, d, p)' => Passed(t, d, p)
    BY <1>1 DEF Passed
  <2>2. ASSUME NEW t \in Sessions, pc[t] # "loaded", p \in hand[t]
        PROVE  pc'[t] # "loaded" /\ p \in hand'[t]
    BY <1>1, <2>2
  <2> QED
    BY <2>1, <2>2 DEF Kept
<1> QED
  BY <1>2, <1>3

(* Whatever still has bytes is kept: the file system's part of a delete runs
   over everything that the removed row referred to.                        *)
LEMMA AttachOrphans == TypeOK /\ OrphanInv /\ [Next]_vars => OrphanInv'
<1> SUFFICES ASSUME TypeOK, OrphanInv, [Next]_vars PROVE OrphanInv'
  OBVIOUS
<1>1. ASSUME NEW s \in Sessions, NEW p \in Paths, Store(s, p) PROVE OrphanInv'
  BY <1>1, KeptByQuietStep DEF Store
<1>2. ASSUME NEW s \in Sessions, Copied(s) PROVE OrphanInv'
  BY <1>2, KeptByQuietStep DEF Copied
<1>3. ASSUME NEW s \in Sessions, StoreFails(s) PROVE OrphanInv'
  BY <1>3, KeptByQuietStep DEF StoreFails
<1>4. ASSUME NEW s \in Sessions, SaveFails(s) PROVE OrphanInv'
  BY <1>4, KeptByQuietStep DEF SaveFails
<1>5. ASSUME NEW s \in Sessions, DeleteRefused(s) \/ DeleteFails(s) PROVE OrphanInv'
  BY <1>5, KeptByQuietStep DEF DeleteRefused, DeleteFails, TypeOK
<1> USE DEF TypeOK, OrphanInv, GoTo, IdleEmpty, LoadedSaved, LoadedHasRow, RowsSaved
<1>6. ASSUME NEW s \in Sessions, NEW p \in Paths, RemoveBytes(s, p) PROVE OrphanInv'
  <2>1. IdleEmpty' /\ LoadedSaved' /\ LoadedHasRow' /\ RowsSaved'
    BY <1>6 DEF RemoveBytes
  <2>2. ASSUME NEW q \in Paths \ setup.inSlice, files'[q] # "absent" PROVE Kept(q)'
    <3>1. CASE q = p
      BY <1>6, <2>2, <3>1 DEF RemoveBytes, Kept
    <3>2. CASE q # p
      <4>1. Kept(q)
        BY <1>6, <2>2, <3>2 DEF RemoveBytes, FilesKept
      <4>2. \A t \in Sessions : q \in hand'[t] <=> q \in hand[t]
        BY <1>6, <3>2 DEF RemoveBytes
      <4>3. \A t \in Sessions, d \in Docs : Passed(t, d, q)' <=> Passed(t, d, q)
        BY <1>6, <4>2 DEF RemoveBytes, Passed
      <4> QED
        BY <1>6, <4>1, <4>2, <4>3 DEF RemoveBytes, Kept
    <3> QED
      BY <3>1, <3>2
  <2> QED
    BY <1>6, <2>1, <2>2 DEF FilesKept, RemoveBytes
<1>7. ASSUME NEW s \in Sessions, NEW d \in Docs, Save(s, d) PROVE OrphanInv'
  <2>1. IdleEmpty' /\ LoadedSaved' /\ LoadedHasRow' /\ RowsSaved'
    BY <1>7 DEF Save
  <2>2. ASSUME NEW p \in Paths, Kept(p) PROVE Kept(p)'
    <3>1. \A t \in Sessions, e \in Docs : Passed(t, e, p)' => Passed(t, e, p) /\ e # d
      BY <1>7 DEF Save, Passed
    <3>2. CASE p \in hand[s]
      BY <1>7, <3>1, <3>2 DEF Save, Kept
    <3>3. CASE p \notin hand[s]
      <4>1. row[d] = {}
        BY <1>7 DEF Save
      <4> QED
        BY <1>7, <2>2, <3>1, <3>3, <4>1 DEF Save, Kept
    <3> QED
      BY <3>2, <3>3
  <2> QED
    BY <1>7, <2>1, <2>2 DEF FilesKept, Save
<1>8. ASSUME NEW s \in Sessions, NEW d \in Docs, FindByID(s, d) PROVE OrphanInv'
  <2>1. IdleEmpty' /\ LoadedSaved' /\ LoadedHasRow' /\ RowsSaved'
    BY <1>8 DEF FindByID
  <2>2. ASSUME NEW p \in Paths, Kept(p) PROVE Kept(p)'
    <3>1. \A t \in Sessions, e \in Docs : Passed(t, e, p)' => Passed(t, e, p)
      BY <1>8 DEF FindByID, Passed
    <3> QED
      BY <1>8, <2>2, <3>1 DEF FindByID, Kept
  <2> QED
    BY <1>8, <2>1, <2>2 DEF FilesKept, FindByID
<1>9. ASSUME NEW s \in Sessions, Link(s) PROVE OrphanInv'
  <2>1. IdleEmpty' /\ LoadedSaved' /\ LoadedHasRow' /\ RowsSaved'
    BY <1>9 DEF Link
  <2>2. ASSUME NEW p \in Paths \ setup.inSlice, files'[p] # "absent" PROVE Kept(p)'
    <3>1. CASE p = path[s]
      BY <1>9, <3>1 DEF Link, Kept
    <3>2. CASE p # path[s]
      <4>1. Kept(p)
        BY <1>9, <2>2, <3>2 DEF Link, Linked, FilesKept
      <4>2. \A t \in Sessions, e \in Docs : Passed(t, e, p)' => Passed(t, e, p)
        BY <1>9 DEF Link, Passed
      <4> QED
        BY <1>9, <4>1, <4>2 DEF Link, Kept
    <3> QED
      BY <3>1, <3>2
  <2> QED
    BY <1>9, <2>1, <2>2 DEF FilesKept, Link
<1>17. ASSUME NEW s \in Sessions, NEW d \in Docs, AfterInsertFails(s, d) PROVE OrphanInv'
  <2>1. IdleEmpty' /\ LoadedSaved' /\ LoadedHasRow' /\ RowsSaved'
    BY <1>17 DEF AfterInsertFails
  <2>2. ASSUME NEW p \in Paths, Kept(p) PROVE Kept(p)'
    <3>1. \A t \in Sessions, e \in Docs : Passed(t, e, p)' => Passed(t, e, p) /\ e # d
      BY <1>17 DEF AfterInsertFails, Passed
    <3>2. row[d] = {}
      BY <1>17 DEF AfterInsertFails
    <3> QED
      BY <1>17, <2>2, <3>1, <3>2 DEF AfterInsertFails, Kept
  <2> QED
    BY <1>17, <2>1, <2>2 DEF FilesKept, AfterInsertFails
<1>10. ASSUME NEW s \in Sessions, DeleteOnDB(s) PROVE OrphanInv'
  <2>1. IdleEmpty' /\ LoadedSaved' /\ LoadedHasRow' /\ RowsSaved'
    BY <1>10 DEF DeleteOnDB, RowAfterDelete, CollectAttachments
  <2>2. ASSUME NEW p \in Paths \ setup.inSlice, Kept(p) PROVE Kept(p)'
    <3>1. \A t \in Sessions, e \in Docs : Passed(t, e, p)' => Passed(t, e, p)
      BY <1>10 DEF DeleteOnDB, CollectAttachments, Passed
    <3>2. CASE p \in hand[s]
      BY <1>10, <3>2 DEF DeleteOnDB, CollectAttachments, Kept
    <3>3. CASE p \notin hand[s]
      <4>1. p \notin row[doc[s]]
        BY <1>10, <3>3 DEF DeleteOnDB
      <4> QED
        BY <1>10, <2>2, <3>1, <3>3, <4>1
           DEF DeleteOnDB, RowAfterDelete, CollectAttachments, Kept
    <3> QED
      BY <3>2, <3>3
  <2> QED
    BY <1>10, <2>1, <2>2 DEF FilesKept, DeleteOnDB
<1>11. ASSUME NEW s \in Sessions, DeleteInTx(s) PROVE OrphanInv'
  <2>1. IdleEmpty' /\ LoadedSaved' /\ LoadedHasRow' /\ RowsSaved'
    BY <1>11 DEF DeleteInTx, CollectAttachments
  <2>2. ASSUME NEW p \in Paths \ setup.inSlice, Kept(p) PROVE Kept(p)'
    <3>1. CASE p \in hand[s]
      BY <1>11, <3>1 DEF DeleteInTx, CollectAttachments, Kept
    <3>2. CASE p \notin hand[s]
      <4>1. p \notin row[doc[s]]
        BY <1>11, <3>2 DEF DeleteInTx
      <4>2. \A t \in Sessions, e \in Docs :
                Passed(t, e, p)' => Passed(t, e, p) \/ e = doc[s]
        BY <1>11 DEF DeleteInTx, CollectAttachments, Passed
      <4> QED
        BY <1>11, <2>2, <3>2, <4>1, <4>2 DEF DeleteInTx, CollectAttachments, Kept
    <3> QED
      BY <3>1, <3>2
  <2> QED
    BY <1>11, <2>1, <2>2 DEF FilesKept, DeleteInTx
<1>12. ASSUME NEW s \in Sessions, CleanupDone(s) PROVE OrphanInv'
  <2>1. IdleEmpty' /\ LoadedSaved' /\ LoadedHasRow' /\ RowsSaved'
    BY <1>12 DEF CleanupDone
  <2>2. ASSUME NEW p \in Paths, Kept(p) PROVE Kept(p)'
    <3>1. \A t \in Sessions, e \in Docs : Passed(t, e, p)' => Passed(t, e, p)
      BY <1>12 DEF CleanupDone, Passed
    <3> QED
      BY <1>12, <2>2, <3>1 DEF CleanupDone, Kept
  <2> QED
    BY <1>12, <2>1, <2>2 DEF FilesKept, CleanupDone
<1>13. ASSUME NEW s \in Sessions, Commit(s) PROVE OrphanInv'
  <2>1. IdleEmpty' /\ LoadedSaved' /\ LoadedHasRow' /\ RowsSaved'
    BY <1>13 DEF Commit, RowAfterDelete
  <2>2. ASSUME NEW p \in Paths, Kept(p) PROVE Kept(p)'
    <3>1. \A t \in Sessions, e \in Docs : Passed(t, e, p)' => Passed(t, e, p)
      BY <1>13 DEF Commit, Passed
    <3>2. Passed(s, doc[s], p)
      BY <1>13 DEF Commit, Passed
    <3> QED
      BY <1>13, <2>2, <3>1, <3>2 DEF Commit, RowAfterDelete, Kept
  <2> QED
    BY <1>13, <2>1, <2>2 DEF FilesKept, Commit
<1>14. ASSUME NEW s \in Sessions, Rollback(s) PROVE OrphanInv'
  <2>1. IdleEmpty' /\ LoadedSaved' /\ LoadedHasRow' /\ RowsSaved'
    BY <1>14 DEF Rollback
  <2>2. ASSUME NEW p \in Paths, Kept(p) PROVE Kept(p)'
    <3>1. \A t \in Sessions, e \in Docs : Passed(t, e, p)' => Passed(t, e, p)
      BY <1>14 DEF Rollback, Passed
    <3> QED
      BY <1>14, <2>2, <3>1 DEF Rollback, Kept
  <2> QED
    BY <1>14, <2>1, <2>2 DEF FilesKept, Rollback
<1>15. ASSUME NEW s \in Sessions, Crash(s) PROVE OrphanInv'
  <2>1. IdleEmpty' /\ LoadedSaved' /\ LoadedHasRow' /\ RowsSaved'
    BY <1>15 DEF Crash
  <2>2. ASSUME NEW p \in Paths, Kept(p) PROVE Kept(p)'
    <3>1. \A t \in Sessions, e \in Docs : Passed(t, e, p)' => Passed(t, e, p)
      BY <1>15 DEF Crash, Passed
    <3>2. CASE p \in hand[s]
      BY <1>15, <3>2 DEF Crash, Kept
    <3>3. CASE p \notin hand[s]
      BY <1>15, <2>2, <3>1, <3>3 DEF Crash, Kept
    <3> QED
      BY <3>2, <3>3
  <2> QED
    BY <1>15, <2>1, <2>2 DEF FilesKept, Crash
<1>16. CASE UNCHANGED vars
  BY <1>16 DEF vars, FilesKept, Kept, Passed
<1> QED
  BY <1>1, <1>2, <1>3, <1>4, <1>5, <1>6, <1>7, <1>8, <1>9, <1>10, <1>11, <1>12, <1>13,
     <1>14, <1>15, <1>16, <1>17 DEF Next

(* Where no content is uploaded twice, no hook fails once the row is stored and
   documents are deleted on the *DB, every path has one owner: the session that
   stores it, the row it was saved in, or, when that is gone, whoever cleans
   up.                                                                      *)
LEMMA AttachAlone ==
    TypeOK /\ FileInv /\ OrphanInv /\ Alone /\ AloneInv /\ [Next]_vars => AloneInv'
<1> SUFFICES ASSUME TypeOK, FileInv, OrphanInv, Alone, AloneInv, [Next]_vars PROVE AloneInv'
  OBVIOUS
<1> USE DEF TypeOK, AloneInv, GoTo, NoTx, Known, RowsApart, OwnApart, PathApart, LoadApart,
            OwnFull, RowFull, Storing, Owns
<1>1. ASSUME NEW s \in Sessions, NEW p \in Paths, Store(s, p) PROVE AloneInv'
  <2>1. p \notin uploaded /\ uploaded' = uploaded \cup {p}
    BY <1>1 DEF Store, Alone
  <2>2. /\ pc'[s] = "copy" /\ path'[s] = p /\ UNCHANGED <<row, hand, files, doc>>
        /\ \A t \in Sessions \ {s} : pc'[t] = pc[t] /\ path'[t] = path[t]
    BY <1>1 DEF Store
  <2>3. pc[s] = "stored" \/ hand[s] = {}
    BY <1>1 DEF Store, OrphanInv, IdleEmpty
  <2>4. NoTx' /\ Known' /\ RowsApart' /\ LoadApart' /\ OwnFull' /\ RowFull'
    BY <2>1, <2>2, <2>3
  <2>5. OwnApart'
    BY <2>2, <2>3
  <2>6. PathApart'
    BY <2>1, <2>2
  <2> QED
    BY <2>4, <2>5, <2>6
<1>2. ASSUME NEW s \in Sessions, NEW p \in Paths, RemoveBytes(s, p) PROVE AloneInv'
  <2>1. pc[s] = "cleanup" /\ p \in hand[s]
    BY <1>2 DEF RemoveBytes
  <2>2. /\ \A t \in Sessions : hand'[t] \subseteq hand[t]
        /\ \A q \in Paths \ {p} : files'[q] = files[q]
        /\ UNCHANGED <<row, uploaded, pc, doc, path>>
    BY <1>2 DEF RemoveBytes
  <2>3. NoTx' /\ Known' /\ RowsApart' /\ OwnApart' /\ PathApart' /\ LoadApart'
    BY <2>2
  <2>4. OwnFull' /\ RowFull'
    BY <2>1, <2>2
  <2> QED
    BY <2>3, <2>4
<1>3. ASSUME NEW s \in Sessions, NEW d \in Docs, Save(s, d) PROVE AloneInv'
  <2>1. /\ pc[s] = "stored" /\ pc'[s] = "idle" /\ hand'[s] = {} /\ row'[d] = hand[s]
        /\ \A t \in Sessions \ {s} : pc'[t] = pc[t] /\ hand'[t] = hand[t]
        /\ \A e \in Docs \ {d} : row'[e] = row[e]
        /\ UNCHANGED <<files, uploaded, doc, path>>
    BY <1>3 DEF Save
  <2>2. NoTx' /\ Known' /\ OwnFull' /\ RowFull'
    BY <2>1
  <2>3. RowsApart'
    BY <2>1
  <2>4. OwnApart'
    <3> SUFFICES ASSUME NEW t \in Sessions \ {s}, Owns(t)
                 PROVE  /\ \A e \in Docs : hand[t] \cap row'[e] = {}
                        /\ \A u \in Sessions \ {t} : hand[t] \cap hand'[u] = {}
      BY <2>1, SMTT(40)
    <3>1. hand[t] \cap row'[d] = {} /\ hand[t] \cap hand'[s] = {}
      BY <2>1
    <3>2. \A e \in Docs : hand[t] \cap row'[e] = {}
      BY <2>1, <3>1
    <3>3. ASSUME NEW u \in Sessions \ {t} PROVE hand[t] \cap hand'[u] = {}
      BY <2>1, <3>1
    <3> QED
      BY <3>2, <3>3
  <2>6. PathApart'
    <3> SUFFICES ASSUME NEW t \in Sessions \ {s}, Storing(t)
                 PROVE  /\ \A e \in Docs : path[t] \notin row'[e]
                        /\ \A u \in Sessions : path[t] \notin hand'[u]
                        /\ \A u \in Sessions \ {t} : Storing(u)' => path[t] # path[u]
      BY <2>1
    <3>1. path[t] \notin row'[d] /\ path[t] \notin hand'[s] /\ ~Storing(s)'
      BY <2>1
    <3> QED
      BY <2>1, <3>1
  <2>5. LoadApart'
    BY <2>1
  <2> QED
    BY <2>2, <2>3, <2>4, <2>5, <2>6
<1>4. ASSUME NEW s \in Sessions, NEW d \in Docs, FindByID(s, d) PROVE AloneInv'
  <2>1. /\ pc'[s] = "loaded" /\ hand'[s] = row[d] /\ doc'[s] = d
        /\ \A t \in Sessions \ {s} : pc'[t] = pc[t] /\ hand'[t] = hand[t] /\ doc'[t] = doc[t]
        /\ UNCHANGED <<row, files, uploaded, path>>
    BY <1>4 DEF FindByID
  <2>2. NoTx' /\ Known' /\ RowsApart' /\ OwnFull' /\ RowFull'
    BY <2>1
  <2>3. OwnApart' /\ PathApart'
    BY <2>1, SMTT(60)
  <2>4. LoadApart'
    BY <2>1
  <2> QED
    BY <2>2, <2>3, <2>4
<1>5. ASSUME NEW s \in Sessions, Link(s) PROVE AloneInv'
  <2>1. /\ pc[s] = "link" /\ pc'[s] = "stored" /\ hand'[s] = hand[s] \cup {path[s]}
        /\ \A t \in Sessions \ {s} : pc'[t] = pc[t] /\ hand'[t] = hand[t]
        /\ UNCHANGED <<row, uploaded, doc, path>>
    BY <1>5 DEF Link
  <2>2. /\ files'[path[s]] = "full"
        /\ \A q \in Paths \ {path[s]} : files'[q] = files[q]
    BY <1>5 DEF Link, Linked, FileInv, TempFull, NoPartialFile, Bytes
  <2>3. NoTx' /\ RowsApart' /\ LoadApart'
    BY <2>1
  <2>4. Known'
    <3>1. hand'[s] \subseteq uploaded
      BY <2>1
    <3> QED
      BY <2>1, <3>1
  <2>6. OwnApart'
    <3>1. \A d \in Docs : hand'[s] \cap row[d] = {}
      BY <2>1
    <3>2. \A t \in Sessions \ {s} : hand'[s] \cap hand[t] = {}
      BY <2>1
    <3>3. ASSUME NEW t \in Sessions \ {s}, Owns(t)
          PROVE  hand[t] \cap hand'[s] = {}
      BY <2>1, <3>3
    <3> QED
      BY <2>1, <3>1, <3>2, <3>3
  <2>7. PathApart'
    BY <2>1
  <2>5. OwnFull' /\ RowFull'
    BY <2>1, <2>2
  <2> QED
    BY <2>3, <2>4, <2>5, <2>6, <2>7
<1>6. ASSUME NEW s \in Sessions, DeleteOnDB(s) PROVE AloneInv'
  <2>1. /\ pc[s] = "loaded" /\ pc'[s] = "cleanup" /\ row'[doc[s]] = {}
        /\ \A t \in Sessions : hand'[t] \subseteq hand[t]
        /\ \A t \in Sessions \ {s} : pc'[t] = pc[t]
        /\ \A d \in Docs \ {doc[s]} : row'[d] = row[d]
        /\ UNCHANGED <<files, uploaded, doc, path>>
    BY <1>6 DEF DeleteOnDB, RowAfterDelete, CollectAttachments
  <2>2. \A d \in Docs : row'[d] \subseteq row[d]
    BY <2>1
  <2>3. NoTx' /\ Known' /\ RowsApart' /\ OwnFull' /\ RowFull'
    BY <2>1, <2>2
  <2>4. OwnApart' /\ PathApart'
    BY <2>1, <2>2
  <2>5. LoadApart'
    BY <2>1, <2>2
  <2> QED
    BY <2>3, <2>4, <2>5
<1>7. ASSUME NEW s \in Sessions, NEW at, GoTo(s, at), at \notin {"loaded", "txcleanup", "tx"},
             UNCHANGED <<row, files, uploaded, doc, path>>,
             at = "idle" => hand'[s] = {},
             hand'[s] \subseteq hand[s] /\ \A t \in Sessions \ {s} : hand'[t] = hand[t],
             at \in {"copy", "link"} => Storing(s),
             at = "stored" => Owns(s),
             at = "cleanup" => Owns(s) \/ pc[s] = "cleanup"
      PROVE  AloneInv'
  <2>1. pc'[s] = at /\ \A t \in Sessions \ {s} : pc'[t] = pc[t]
    BY <1>7
  <2>2. \A t \in Sessions : hand'[t] \subseteq hand[t]
    BY <1>7
  <2>3. NoTx' /\ Known' /\ RowsApart' /\ OwnFull' /\ RowFull'
    BY <1>7, <2>1, <2>2
  <2>4. OwnApart' /\ PathApart'
    BY <1>7, <2>1, <2>2
  <2>5. LoadApart'
    BY <1>7, <2>1, <2>2
  <2> QED
    BY <2>3, <2>4, <2>5
<1>8. ASSUME NEW s \in Sessions, Copied(s) PROVE AloneInv'
  BY <1>7, <1>8 DEF Copied
<1>9. ASSUME NEW s \in Sessions, StoreFails(s) PROVE AloneInv'
  BY <1>7, <1>9 DEF StoreFails
<1>10. ASSUME NEW s \in Sessions, SaveFails(s) PROVE AloneInv'
  BY <1>7, <1>10 DEF SaveFails
<1>11. ASSUME NEW s \in Sessions, DeleteRefused(s) \/ DeleteFails(s) PROVE AloneInv'
  <2>1. hand' = [hand EXCEPT ![s] = {}] /\ UNCHANGED <<row, files, uploaded, doc, path>>
        /\ GoTo(s, "idle")
    BY <1>11 DEF DeleteRefused, DeleteFails
  <2> QED
    BY <1>7, <2>1
<1>12. ASSUME NEW s \in Sessions, CleanupDone(s) PROVE AloneInv'
  BY <1>7, <1>12 DEF CleanupDone
<1>13. ASSUME NEW s \in Sessions, Crash(s) PROVE AloneInv'
  BY <1>7, <1>13 DEF Crash
<1>14. ASSUME NEW s \in Sessions,
              DeleteInTx(s) \/ Commit(s) \/ Rollback(s) \/ \E d \in Docs : AfterInsertFails(s, d)
       PROVE  FALSE
  BY <1>14 DEF DeleteInTx, Commit, Rollback, AfterInsertFails, Alone
<1>15. CASE UNCHANGED vars
  BY <1>15 DEF vars
<1> QED
  BY <1>1, <1>2, <1>3, <1>4, <1>5, <1>6, <1>8, <1>9, <1>10, <1>11, <1>12, <1>13, <1>14,
     <1>15 DEF Next

LEMMA AttachAlways == Spec => []AttachInv
<1>1. AttachInv /\ [Next]_vars => AttachInv'
  <2> SUFFICES ASSUME AttachInv, [Next]_vars PROVE AttachInv'
    OBVIOUS
  <2>1. setup' = setup
    BY DEF Next, vars, Store, RemoveBytes, Save, AfterInsertFails, FindByID, Copied, StoreFails,
           Link, SaveFails, DeleteRefused, DeleteOnDB, DeleteInTx, DeleteFails, CleanupDone, Commit, Rollback,
           Crash
  <2>2. Alone' => Alone
    BY <2>1 DEF Alone
  <2> QED
    BY <2>2, AttachType, AttachFiles, AttachOrphans, AttachAlone DEF AttachInv
<1> QED
  BY <1>1, AttachInit, PTL DEF Spec

-----------------------------------------------------------------------------
(* In every behaviour a storage path has all of its content or none: Store
   links a finished temporary file, whatever crashes meanwhile.             *)
THEOREM FilesAreWhole == Spec => []NoPartialFile
<1>1. AttachInv => NoPartialFile
  BY DEF AttachInv, FileInv
<1> QED
  BY <1>1, AttachAlways, PTL

(* In every behaviour a stored file that documents do not hold in slices or
   maps belongs to a document or to a session at work on it, unless a crash or
   a logged failure orphaned it: hard delete, on the *DB or in a transaction,
   sees to every attachment in a field of the row it removes, also where
   contents are shared or an AfterInsert hook fails.                        *)
THEOREM OrphansAreExcused == Spec => []NoSilentOrphan
<1>1. AttachInv => NoSilentOrphan
  BY DEF AttachInv, OrphanInv, FilesKept, Kept, NoSilentOrphan
<1> QED
  BY <1>1, AttachAlways, PTL

(* In every behaviour of an application whose documents share no content, have
   no AfterInsert hook and are hard-deleted by Delete on the *DB, whatever a
   committed document refers to can be opened: cleanupAttachments runs after
   the row is gone.                                                         *)
THEOREM ReferencesAreWhole == Spec => []NoBrokenReferenceAlone
<1>1. AttachInv => NoBrokenReferenceAlone
  BY DEF AttachInv, Alone, AloneInv, RowFull, NoBrokenReferenceAlone
<1> QED
  BY <1>1, AttachAlways, PTL
=============================================================================
