---------------------------- MODULE SerialWrites ----------------------------
(***************************************************************************)
(* What the document writes promise to callers who share a database: each  *)
(* call happens at one moment or not at all, application transactions run  *)
(* one after the other, and nothing is written while another's is open.    *)
(* A checked write happens to the very version its caller holds.           *)
(***************************************************************************)
EXTENDS Integers

CONSTANTS
    Clients,
    Keys,      \* the documents
    Versions,  \* what a document may be: a revision and a soft-delete mark
    Missing,   \* the document that is not there
    Free       \* the owner when no transaction is open

VARIABLES
    rows,   \* the committed documents
    owner,  \* whose transaction is open
    view,   \* the documents as it sees them; the committed ones when none is
    hand,   \* hand[c][k]: the struct c holds, as it passed it to the last call
    asked,  \* asked[c]: the call c is waiting for
    failed  \* failed[c]: its last call returned an error

svars == <<rows, owner, view, hand, asked, failed>>

NoRequest == [op |-> "none"]
Requests  == [op: {"insert", "save", "restore", "soft", "replace", "hard"}, id: Keys, force: BOOLEAN]

InitSerial ==
    /\ rows \in [Keys -> Versions]
    /\ owner = Free
    /\ view = rows
    /\ hand = [c \in Clients |-> [k \in Keys |-> Missing]]
    /\ asked = [c \in Clients |-> NoRequest]
    /\ failed = [c \in Clients |-> FALSE]

(* What c sees: its own transaction, else what is committed.                *)
Seen(c) == IF owner = c THEN view ELSE rows

Idle(c) == asked[c] = NoRequest

Returns(c, e) == failed' = [failed EXCEPT ![c] = e]

(* FindByID and LockByID.                                                   *)
Load(c, k) ==
    /\ Idle(c)
    /\ Seen(c)[k] # Missing
    /\ hand' = [hand EXCEPT ![c][k] = Seen(c)[k]]
    /\ Returns(c, FALSE)
    /\ UNCHANGED <<rows, owner, view, asked>>

Ask(c) ==
    /\ Idle(c)
    /\ \E q \in Requests : asked' = [asked EXCEPT ![c] = q]
    /\ Returns(c, FALSE)
    /\ UNCHANGED <<rows, owner, view, hand>>

(* v is a version of k that nobody holds and that is not stored.            *)
New(k, v) ==
    /\ v.rev # Missing.rev
    /\ v.rev # rows[k].rev /\ v.rev # view[k].rev
    /\ \A c \in Clients : v.rev # hand[c][k].rev

(* What a call may put in the place of old, given the struct it was passed.
   Put is an upsert: what keeps an insert from overwriting is its new id.   *)
Allowed(q, old, given, v) ==
    CASE q.op = "insert"  -> ~v.del
      [] q.op = "save"    -> (q.force \/ (old # Missing /\ old = given)) /\ v.del = given.del
      [] q.op = "restore" -> (q.force \/ (old # Missing /\ old = given)) /\ ~v.del
      [] q.op = "soft"    -> (q.force \/ (old # Missing /\ old = given)) /\ v.del
      [] q.op = "replace" -> old # Missing /\ v.del = old.del
      [] OTHER            -> v = Missing

Done(c) == asked' = [asked EXCEPT ![c] = NoRequest]

(* The calls whose last hooks run behind the write, with nothing of Den's to
   take it back: all but the checked Save and Replace on the *DB.  They may
   happen and return an error.                                              *)
MayFailDone(c) ==
    \/ owner = c
    \/ asked[c].op \in {"insert", "soft", "hard"}
    \/ asked[c].op # "replace" /\ asked[c].force

(* The call happens, in the transaction its caller has open or, when nobody
   has one, by itself.                                                      *)
Perform(c) ==
    LET k == asked[c].id IN
    /\ ~Idle(c)
    /\ owner \in {c, Free}
    /\ \E v \in Versions :
        /\ Allowed(asked[c], view[k], hand[c][k], v)
        /\ view' = [view EXCEPT ![k] = v]
        /\ IF asked[c].op = "hard" THEN hand' = hand
                                   ELSE New(k, v) /\ hand' = [hand EXCEPT ![c][k] = v]
    /\ rows' = IF owner = c THEN rows ELSE view'
    /\ \E e \in BOOLEAN : Returns(c, e) /\ (e => MayFailDone(c))
    /\ Done(c)
    /\ UNCHANGED owner

(* The call returns an error and has written nothing, as every checked Save
   and Replace on the *DB that returns an error has.  It may leave the struct
   with a revision that is nobody's, which the next checked write will not
   match; Replace with the version it read.                                 *)
Refuse(c) ==
    LET k == asked[c].id IN
    /\ ~Idle(c)
    /\ \/ hand' = hand
       \/ \E v \in Versions : New(k, v) /\ hand' = [hand EXCEPT ![c][k] = v]
       \/ asked[c].op = "replace" /\ hand' = [hand EXCEPT ![c][k] = Seen(c)[k]]
    /\ Done(c)
    /\ Returns(c, TRUE)
    /\ UNCHANGED <<rows, owner, view>>

Open(c) ==
    /\ Idle(c)
    /\ owner = Free
    /\ owner' = c
    /\ Returns(c, FALSE)
    /\ UNCHANGED <<rows, view, hand, asked>>

Commit(c) ==
    /\ Idle(c)
    /\ owner = c
    /\ owner' = Free
    /\ rows' = view
    /\ Returns(c, FALSE)
    /\ UNCHANGED <<view, hand, asked>>

Abort(c) ==
    /\ Idle(c)
    /\ owner = c
    /\ owner' = Free
    /\ view' = rows
    /\ Returns(c, FALSE)
    /\ UNCHANGED <<rows, hand, asked>>

(* The process of c ends, whatever it was at.                               *)
Crash(c) ==
    /\ owner' = IF owner = c THEN Free ELSE owner
    /\ view' = IF owner = c THEN rows ELSE view
    /\ hand' = [hand EXCEPT ![c] = [k \in Keys |-> Missing]]
    /\ Done(c)
    /\ Returns(c, FALSE)
    /\ UNCHANGED rows

NextSerial == \E c \in Clients :
    \/ \E k \in Keys : Load(c, k)
    \/ Ask(c) \/ Perform(c) \/ Refuse(c)
    \/ Open(c) \/ Commit(c) \/ Abort(c) \/ Crash(c)

SpecSerial == InitSerial /\ [][NextSerial]_svars
=============================================================================
