---------------------------- MODULE AtomicWrites ----------------------------
(***************************************************************************)
(* What the write terminals of a QuerySet promise, whatever they do inside:*)
(* a call happens at one moment or not at all.  Update and Delete act on   *)
(* the rows that All would return at that moment, and say how many they    *)
(* were; UpdateOne and UpsertOne on the one row that matches then, or on a *)
(* new one if none does.                                                   *)
(***************************************************************************)
EXTENDS Selection

CONSTANTS
    Clients,
    Requests   \* the calls they make

VARIABLES
    rows,    \* the stored rows
    asked,   \* asked[c]: the call c is waiting for, NoCall if none
    answer   \* answer[c]: what its last call returned

avars == <<rows, asked, answer>>

NoAnswer     == [what |-> "none", n |-> 0]
Refusal      == [what |-> "error", n |-> 0]
Affected(n)  == [what |-> "affected", n |-> n]
Inserted     == [what |-> "inserted", n |-> 1]

InitAtomic ==
    /\ rows \in [Ids -> Row]
    /\ asked = [c \in Clients |-> NoCall]
    /\ answer = [c \in Clients |-> NoAnswer]

Ask(c) ==
    /\ asked[c] = NoCall
    /\ \E q \in Requests : asked' = [asked EXCEPT ![c] = q]
    /\ answer' = [answer EXCEPT ![c] = NoAnswer]
    /\ UNCHANGED rows

Return(c, a) ==
    /\ asked' = [asked EXCEPT ![c] = NoCall]
    /\ answer' = [answer EXCEPT ![c] = a]

(* Every row of the window becomes what F makes of it; the others stay.     *)
OnWindow(c, F(_, _)) ==
    LET q == asked[c]
        w == Window(rows, q) IN
    /\ rows' = [i \in Ids |-> IF Contains(w, i) THEN F(rows[i], q) ELSE rows[i]]
    /\ Return(c, Affected(Len(w)))

Update(c) == asked[c].op = "update" /\ OnWindow(c, Applied)
Delete(c) == asked[c].op = "delete" /\ OnWindow(c, Deleted)

(* UpdateOne and the hit of an upsert.                                      *)
Modify(c) ==
    /\ asked[c].op \in {"updateOne", "upsertOne"}
    /\ \E i \in Ids :
        /\ Found(rows, asked[c]) = {i}
        /\ rows' = [rows EXCEPT ![i] = Applied(@, asked[c])]
    /\ Return(c, Affected(1))

(* The miss of an upsert: a document that was not there.                    *)
Create(c) ==
    /\ asked[c].op = "upsertOne"
    /\ Found(rows, asked[c]) = {}
    /\ \E i \in Ids :
        /\ rows[i] = Gone
        /\ rows' = [rows EXCEPT ![i] = Created(asked[c])]
    /\ Return(c, Inserted)

(* Any error: nothing has happened.                                         *)
Refuse(c) ==
    /\ asked[c] # NoCall
    /\ Return(c, Refusal)
    /\ UNCHANGED rows

NextAtomic == \E c \in Clients :
    Ask(c) \/ Update(c) \/ Delete(c) \/ Modify(c) \/ Create(c) \/ Refuse(c)

SpecAtomic == InitAtomic /\ [][NextAtomic]_avars
=============================================================================
