---------------------------- MODULE Attachments ----------------------------
(***************************************************************************)
(* Documents that carry attachments, and the file storage that holds the   *)
(* bytes.  A storage path stands for the content it is the hash of (within *)
(* one month): storing the same bytes twice gives the same path.  Sessions *)
(* upload bytes with Store, save a document that refers to them, load it,  *)
(* and hard-delete it on the *DB or inside a transaction of their own.     *)
(* The attachments of a saved document do not change.                      *)
(***************************************************************************)
EXTENDS Naturals, FiniteSets

CONSTANTS
    Sessions,
    Docs,         \* ids of documents
    Paths,        \* storage paths (content hashes)
    Setups        \* the applications explored

(* storage: the sessions whose DB was opened WithStorage; unique: there is a
   unique index on StoragePath; sharing: the same bytes are uploaded more than
   once; inTx: documents are also hard-deleted inside a transaction, the
   caller's (RunInTransaction) or the one that DeleteAll and QuerySet.Delete
   open; inSlice: the attachments that documents hold in slices or maps; hooks:
   documents have an AfterInsert hook, which may fail.                        *)
ASSUME SetupsAssumption ==
    Setups \subseteq [storage: SUBSET Sessions, unique: BOOLEAN, sharing: BOOLEAN,
                     inTx: BOOLEAN, inSlice: SUBSET Paths, hooks: BOOLEAN]

ASSUME NonEmptyAssumption == Docs # {} /\ Paths # {}

VARIABLES
    setup,    \* the application at hand
    row,      \* row[d]: the attachments of the committed document ({}: no row)
    files,    \* files[p]: the bytes at the storage path
    saved,    \* ids used so far
    uploaded, \* contents uploaded so far
    pc,       \* where each session is
    doc,      \* doc[s]: the document in hand
    hand,     \* hand[s]: its attachments
    temp,     \* temp[s]: Store's temporary file
    path,     \* path[s]: the content being stored
    excused   \* history variable: bytes orphaned by a crash or a logged failure

vars == <<setup, row, files, saved, uploaded, pc, doc, hand, temp, path, excused>>

Bytes == {"absent", "partial", "full"}

TypeOK ==
    /\ setup \in Setups
    /\ row \in [Docs -> SUBSET Paths]
    /\ files \in [Paths -> Bytes]
    /\ saved \subseteq Docs /\ uploaded \subseteq Paths
    /\ pc \in [Sessions -> {"idle", "copy", "link", "stored", "loaded",
                            "cleanup", "txcleanup", "tx"}]
    /\ doc \in [Sessions -> Docs]
    /\ hand \in [Sessions -> SUBSET Paths]
    /\ temp \in [Sessions -> Bytes]
    /\ path \in [Sessions -> Paths]
    /\ excused \subseteq Paths

Init ==
    /\ setup \in Setups
    /\ row = [d \in Docs |-> {}]
    /\ files = [p \in Paths |-> "absent"]
    /\ saved = {} /\ uploaded = {}
    /\ pc = [s \in Sessions |-> "idle"]
    /\ doc = [s \in Sessions |-> CHOOSE d \in Docs : TRUE]
    /\ hand = [s \in Sessions |-> {}]
    /\ temp = [s \in Sessions |-> "absent"]
    /\ path = [s \in Sessions |-> CHOOSE p \in Paths : TRUE]
    /\ excused = {}

GoTo(s, at) == pc' = [pc EXCEPT ![s] = at]

-----------------------------------------------------------------------------
(* Store: a temporary file is filled, then linked to its final path.        *)

Store(s, p) ==
    /\ pc[s] \in {"idle", "stored"}
    /\ p \notin hand[s]
    /\ setup.sharing \/ p \notin uploaded
    /\ uploaded' = uploaded \cup {p}
    /\ path' = [path EXCEPT ![s] = p]
    /\ temp' = [temp EXCEPT ![s] = "partial"]
    /\ GoTo(s, "copy")
    /\ UNCHANGED <<setup, row, files, saved, doc, hand, excused>>

Copied(s) ==
    /\ pc[s] = "copy"
    /\ temp' = [temp EXCEPT ![s] = "full"]
    /\ GoTo(s, "link")
    /\ UNCHANGED <<setup, row, files, saved, uploaded, doc, hand, path, excused>>

(* The reader, the disk, or an empty content: the deferred Remove takes the
   temporary file away.                                                     *)
StoreFails(s) ==
    /\ pc[s] \in {"copy", "link"}
    /\ temp' = [temp EXCEPT ![s] = "absent"]
    /\ GoTo(s, IF hand[s] = {} THEN "idle" ELSE "stored")
    /\ UNCHANGED <<setup, row, files, saved, uploaded, doc, hand, path, excused>>

(* Mutant: the copy is made at the final path, and may be cut short.        *)
LinkedInPlace(s) == [files EXCEPT ![path[s]] = "partial"]

(* os.Link; ErrExist is a dedup hit.                                        *)
Linked(s) == [files EXCEPT ![path[s]] = IF @ = "absent" THEN temp[s] ELSE @]

Link(s) ==
    /\ pc[s] = "link"
    /\ files' = Linked(s)
    /\ temp' = [temp EXCEPT ![s] = "absent"]
    /\ hand' = [hand EXCEPT ![s] = @ \cup {path[s]}]
    /\ GoTo(s, "stored")
    /\ UNCHANGED <<setup, row, saved, uploaded, doc, path, excused>>

-----------------------------------------------------------------------------
(* Save of the document with the stored attachments, on the *DB.            *)

Taken(s) == setup.unique /\ \E d \in Docs : row[d] \cap hand[s] # {}

Save(s, d) ==
    /\ pc[s] = "stored"
    /\ d \notin saved /\ ~Taken(s)
    /\ row' = [row EXCEPT ![d] = hand[s]]
    /\ saved' = saved \cup {d}
    /\ hand' = [hand EXCEPT ![s] = {}]
    /\ GoTo(s, "idle")
    /\ UNCHANGED <<setup, files, uploaded, doc, temp, path, excused>>

(* The Save stores nothing (ErrDuplicate, validation, the backend); the
   application deletes the bytes it has stored, as the guide tells it to.   *)
SaveFails(s) ==
    /\ pc[s] = "stored"
    /\ GoTo(s, "cleanup")
    /\ UNCHANGED <<setup, row, files, saved, uploaded, doc, hand, temp, path, excused>>

(* The Put has committed when an AfterInsert hook fails: the Save returns an
   error of which the application cannot tell that the row is stored.       *)
AfterInsertFails(s, d) ==
    /\ setup.hooks
    /\ pc[s] = "stored"
    /\ d \notin saved /\ ~Taken(s)
    /\ row' = [row EXCEPT ![d] = hand[s]]
    /\ saved' = saved \cup {d}
    /\ GoTo(s, "cleanup")
    /\ UNCHANGED <<setup, files, uploaded, doc, hand, temp, path, excused>>

FindByID(s, d) ==
    /\ pc[s] = "idle"
    /\ row[d] # {}
    /\ doc' = [doc EXCEPT ![s] = d]
    /\ hand' = [hand EXCEPT ![s] = row[d]]
    /\ GoTo(s, "loaded")
    /\ UNCHANGED <<setup, row, files, saved, uploaded, temp, path, excused>>

-----------------------------------------------------------------------------
(* Delete with HardDelete of the loaded document.                           *)

(* Mutant: the walk stops at the first attachment.                          *)
CollectOne(s) ==
    IF hand[s] \subseteq setup.inSlice THEN {} ELSE {CHOOSE p \in hand[s] : p \notin setup.inSlice}

(* The walk goes into struct fields and pointers to structs alone.          *)
CollectAttachments(s) == hand[s] \ setup.inSlice

(* preflightAttachments: without a Storage, refused if there are any.       *)
PreflightAttachments(s) == s \in setup.storage \/ CollectAttachments(s) = {}

DeleteRefused(s) ==
    /\ pc[s] = "loaded" /\ ~PreflightAttachments(s)
    /\ hand' = [hand EXCEPT ![s] = {}]
    /\ GoTo(s, "idle")
    /\ UNCHANGED <<setup, row, files, saved, uploaded, doc, temp, path, excused>>

(* Another session's open transaction has the row.                          *)
Locked(s) == \E t \in Sessions \ {s} : pc[t] \in {"tx", "txcleanup"} /\ doc[t] = doc[s]

(* Mutant: the bytes go before the row, whose delete may then fail.         *)
RowAfterDeleteFails(s) == row

(* The row is removed, if it is still there, before any byte is.            *)
RowAfterDelete(s) == [row EXCEPT ![doc[s]] = {}]

(* b.Delete on the *DB commits by itself.                                   *)
DeleteOnDB(s) ==
    /\ pc[s] = "loaded" /\ PreflightAttachments(s) /\ ~Locked(s)
    /\ row' = RowAfterDelete(s)
    /\ hand' = [hand EXCEPT ![s] = CollectAttachments(s)]
    /\ GoTo(s, "cleanup")
    /\ UNCHANGED <<setup, files, saved, uploaded, doc, temp, path, excused>>

(* Inside a transaction the committed row is still there.                   *)
DeleteInTx(s) ==
    /\ setup.inTx
    /\ pc[s] = "loaded" /\ PreflightAttachments(s) /\ ~Locked(s)
    /\ hand' = [hand EXCEPT ![s] = CollectAttachments(s)]
    /\ GoTo(s, "txcleanup")
    /\ UNCHANGED <<setup, row, files, saved, uploaded, doc, temp, path, excused>>

(* b.Delete fails: nothing has happened.                                    *)
DeleteFails(s) ==
    /\ pc[s] = "loaded"
    /\ hand' = [hand EXCEPT ![s] = {}]
    /\ GoTo(s, "idle")
    /\ UNCHANGED <<setup, row, files, saved, uploaded, doc, temp, path, excused>>

(* cleanupAttachments, one attachment after the other and before any commit.
   A missing file is a success; another failure is logged and swallowed.    *)
RemoveBytes(s, p) ==
    /\ pc[s] \in {"cleanup", "txcleanup"} /\ p \in hand[s]
    /\ \/ files' = [files EXCEPT ![p] = "absent"] /\ UNCHANGED excused
       \/ excused' = excused \cup {p} /\ UNCHANGED files
    /\ hand' = [hand EXCEPT ![s] = @ \ {p}]
    /\ UNCHANGED <<setup, row, saved, uploaded, pc, doc, temp, path>>

CleanupDone(s) ==
    /\ pc[s] \in {"cleanup", "txcleanup"} /\ hand[s] = {}
    /\ GoTo(s, IF pc[s] = "cleanup" THEN "idle" ELSE "tx")
    /\ UNCHANGED <<setup, row, files, saved, uploaded, doc, hand, temp, path, excused>>

(* The application's transaction ends, one way or the other.                *)
Commit(s) ==
    /\ pc[s] = "tx"
    /\ row' = RowAfterDelete(s)
    /\ GoTo(s, "idle")
    /\ UNCHANGED <<setup, files, saved, uploaded, doc, hand, temp, path, excused>>

Rollback(s) ==
    /\ pc[s] = "tx"
    /\ GoTo(s, "idle")
    /\ UNCHANGED <<setup, row, files, saved, uploaded, doc, hand, temp, path, excused>>

(* The process dies; bytes it had in hand may be left without a row.        *)
Crash(s) ==
    /\ excused' = excused \cup hand[s]
    /\ hand' = [hand EXCEPT ![s] = {}]
    /\ temp' = [temp EXCEPT ![s] = "absent"]
    /\ GoTo(s, "idle")
    /\ UNCHANGED <<setup, row, files, saved, uploaded, doc, path>>

Next == \E s \in Sessions :
    \/ \E p \in Paths : Store(s, p) \/ RemoveBytes(s, p)
    \/ \E d \in Docs : Save(s, d) \/ AfterInsertFails(s, d) \/ FindByID(s, d)
    \/ Copied(s) \/ StoreFails(s) \/ Link(s) \/ SaveFails(s)
    \/ DeleteRefused(s) \/ DeleteOnDB(s) \/ DeleteInTx(s) \/ DeleteFails(s)
    \/ CleanupDone(s) \/ Commit(s) \/ Rollback(s) \/ Crash(s)

Spec == Init /\ [][Next]_vars

-----------------------------------------------------------------------------
(* Bytes are never served half-written: a storage path has all of its content
   or none, whatever crashes during an upload and whoever stores the same.  *)
NoPartialFile == \A p \in Paths : files[p] # "partial"

(* A document whose row an open transaction has deleted.                    *)
BeingDeleted(d) == \E s \in Sessions : doc[s] = d /\ pc[s] \in {"txcleanup", "tx"}

(* "A broken reference (DB pointing at missing bytes) is worse than orphan
   bytes": every attachment of a committed document can be opened.  It holds of
   Delete called on the *DB, of documents that share no content and have no
   AfterInsert hook: cleanupAttachments then runs after the row is gone for
   good.  In a transaction, which DeleteAll and QuerySet.Delete open themselves,
   it runs before the COMMIT; it never looks for another document with the same
   bytes; and the clean-up after a Save whose hook failed takes the bytes of a
   document that is stored.                                                 *)
NoBrokenReferenceAlone ==
    ~setup.sharing /\ ~setup.inTx /\ ~setup.hooks =>
        \A d \in Docs : ~BeingDeleted(d) => \A p \in row[d] : files[p] = "full"

(* Every stored file that documents do not hold in slices or maps belongs to a
   document, or to a session still at work on it, unless a crash or a failure
   that was logged orphaned it.  (Bytes in slices are the application's: "Slices
   and maps are not followed".)                                             *)
NoSilentOrphan ==
    \A p \in Paths \ setup.inSlice : files[p] # "absent" =>
        p \in excused \/ (\E d \in Docs : p \in row[d]) \/ (\E s \in Sessions : p \in hand[s])
=============================================================================
