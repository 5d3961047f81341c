------------------------------- MODULE MCCrud -------------------------------
(* The instances of Crud that TLC explores.  Sessions and document ids are
   interchangeable, which the safety runs exploit.                          *)
EXTENDS Crud, TLC

CONSTANTS s1, s2, d1, d2

TwoSessions == {s1, s2}
OneId       == {d1}
TwoIds      == {d1, d2}

(* The behaviours in which the application only loads documents and Saves
   them under revision control.                                             *)
UpdatesOnly ==
    Init /\ [][\E s \in Sessions :
                \/ \E i \in Ids : FindByID(s, i) \/ Save(s, i, FALSE)
                \/ Running(s)]_vars

(* Every document of the instance is stored from the start.                 *)
LockingInit == Init /\ fresh = {}

(* The behaviours in which the application locks documents, several in a
   transaction and in any order, and Saves them, among Saves that lock
   nothing.                                                                 *)
LockingCalls ==
    /\ LockingInit
    /\ [][\E s \in Sessions :
            \/ RunInTransaction(s)
            \/ \E i \in Ids :
                \/ LockByID(s, i) \/ Save(s, i, FALSE)
                \/ \E m \in Modes : LockByIDBlocked(s, i, m)
            \/ Running(s)]_vars
    /\ Fairness

(* No property of these behaviours asks what a call has returned, and no step
   depends on it.                                                           *)
AllButErr == <<row, lock, fresh, nextRev, mem, pc, call, txn, buf, how, base, guard>>

Symmetric == Permutations(TwoSessions)
=============================================================================
