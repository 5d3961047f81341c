------------------------------ MODULE Selection ------------------------------
(***************************************************************************)
(* The rows of one collection and what a QuerySet selects of them.  A row  *)
(* is its state and the one field that conditions, unique indexes and      *)
(* SetFields are about (its key).  Ids are numbers in the default order of *)
(* a query; the conditions of a query are the set of keys they match.      *)
(***************************************************************************)
EXTENDS Ordering, SequencesExt

CONSTANTS
    Ids,    \* the ids of the collection, existing and yet to be drawn
    Keys    \* values of the key field

ASSUME IdsAssumption  == Ids \subseteq Nat /\ IsFiniteSet(Ids)

(* The zero value of the key field, and of an argument that is not given.   *)
NoKey == ""

ASSUME KeysAssumption == NoKey \notin Keys

Gone == [st |-> "gone", key |-> NoKey]
Row  == [st: {"live", "deleted"}, key: Keys] \cup {Gone}

(* A terminal with its QuerySet and arguments.  limit and skip are 0 for
   unset; all is IncludeDeleted, hard HardDelete; soft says that the type
   embeds SoftDelete; desc sorts by descending id; set is the key SetFields
   assigns, NoKey for none; new is the key of the defaults of an upsert.    *)
Call == [op: {"none", "update", "delete", "updateOne", "upsertOne"},
         match: SUBSET Keys, limit: Nat, skip: Nat, desc: BOOLEAN,
         all: BOOLEAN, soft: BOOLEAN, hard: BOOLEAN,
         set: Keys \cup {NoKey}, new: Keys \cup {NoKey}]

NoCall == [op |-> "none", match |-> {}, limit |-> 0, skip |-> 0, desc |-> FALSE,
           all |-> FALSE, soft |-> FALSE, hard |-> FALSE, set |-> NoKey, new |-> NoKey]

(* allConditions: soft-deleted rows match only with IncludeDeleted.         *)
Matches(r, q) ==
    /\ r.st # "gone"
    /\ r.key \in q.match
    /\ q.soft /\ ~q.all => r.st = "live"

Found(now, q) == {i \in Ids : Matches(now[i], q)}

(* SELECT ... ORDER BY ... LIMIT n OFFSET m.                                *)
Select(now, q, n, m) ==
    LET sorted == Ascending(Found(now, q))
        found == IF q.desc THEN Reverse(sorted) ELSE sorted
        last  == IF n = 0 \/ m + n > Len(found) THEN Len(found) ELSE m + n
    IN  [k \in 1..(IF last > m THEN last - m ELSE 0) |-> found[m + k]]

(* What All returns.                                                        *)
Window(now, q) == Select(now, q, q.limit, q.skip)

(* applySetFields.                                                          *)
Applied(r, q) == IF q.set = NoKey THEN r ELSE [r EXCEPT !.key = q.set]

(* The defaults of an upsert with the fields applied on top.                *)
Created(q) == Applied([st |-> "live", key |-> q.new], q)

(* What Delete makes of a document.                                         *)
Deleted(r, q) == IF q.soft /\ ~q.hard THEN [r EXCEPT !.st = "deleted"] ELSE Gone
=============================================================================
