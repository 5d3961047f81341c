------------------------------- MODULE IdGen -------------------------------
(***************************************************************************)
(* The generator behind NewID: ULIDs of a millisecond timestamp and 80     *)
(* random bits.  The mutex makes each call one step, so the order of the   *)
(* calls is the order in which goroutines get it.  Bytes have their real   *)
(* width; an id is the sequence of its 26 Crockford digits, each a number  *)
(* below 32, and the alphabet is in ASCII order, so that ids compare as    *)
(* these sequences do.                                                     *)
(***************************************************************************)
EXTENDS Integers, Sequences

CONSTANTS
    Times,     \* what the wall clock may read, in any order
    Seeds,     \* what seed may draw
    Draws,     \* what addRandStep80 may draw
    MaxIssued  \* bound: ids handed out in one behaviour

(* Milliseconds have 48 bits until the year 10889.                          *)
ASSUME TimesAssumption == \A t \in Times : t \in Nat \ {0} /\ t \div 2^24 < 2^24
ASSUME SeedsAssumption == Seeds \subseteq [1..10 -> 0..255]
ASSUME DrawsAssumption == Draws \subseteq Nat /\ MaxIssued \in Nat

VARIABLES
    lastMs,    \* generator.lastMs
    lastRand,  \* generator.lastRand, most significant byte first
    id,        \* the id handed out last
    issued,    \* how many have been
    way        \* history variable: how the last one was made

vars == <<lastMs, lastRand, id, issued, way>>

Zero == [k \in 1..10 |-> 0]

TypeOK ==
    /\ lastMs \in Nat
    /\ lastRand \in [1..10 -> 0..255]
    /\ id \in Seq(0..31)
    /\ issued \in 0..MaxIssued
    /\ way \in {"none", "seed", "step", "reseed"}

Init ==
    /\ lastMs = 0 /\ lastRand = Zero
    /\ id = <<>>
    /\ issued = 0
    /\ way = "none"

-----------------------------------------------------------------------------
Step(draw) == IF draw = 0 THEN 1 ELSE draw

(* addRandStep80, from the last byte up: Carry[n] is the carry out of the n
   lowest bytes.                                                            *)
Carry(b, draw) ==
    LET carry[n \in 0..10] ==
            IF n = 0 THEN Step(draw) ELSE (b[11 - n] + carry[n - 1]) \div 256
    IN  carry

Overflows(b, draw) == Carry(b, draw)[10] # 0

Added(b, draw) == [k \in 1..10 |-> (b[k] + Carry(b, draw)[10 - k]) % 256]

(* v >> n, in two halves that stay within TLC's integers.                   *)
Shift(v, n) == (v \div 2^(n \div 2)) \div 2^(n - n \div 2)

(* The ten digits of the timestamp.                                         *)
EncodeMs(ms) == [k \in 1..10 |-> Shift(ms, 50 - 5 * k) % 32]

(* Mutant: the second digit takes the low bits of its second byte.          *)
EncodeFiveLow(r) ==
    << r[1] \div 8, (r[1] % 8) * 4 + (r[2] % 4), (r[2] % 64) \div 2,
       (r[2] % 2) * 16 + r[3] \div 16, (r[3] % 16) * 2 + r[4] \div 128,
       (r[4] % 128) \div 4, (r[4] % 4) * 8 + r[5] \div 32, r[5] % 32 >>

(* Five bytes are eight digits.                                             *)
EncodeFive(r) ==
    << r[1] \div 8, (r[1] % 8) * 4 + r[2] \div 64, (r[2] % 64) \div 2,
       (r[2] % 2) * 16 + r[3] \div 16, (r[3] % 16) * 2 + r[4] \div 128,
       (r[4] % 128) \div 4, (r[4] % 4) * 8 + r[5] \div 32, r[5] % 32 >>

Encode(ms, r) ==
    EncodeMs(ms) \o EncodeFive(SubSeq(r, 1, 5)) \o EncodeFive(SubSeq(r, 6, 10))

-----------------------------------------------------------------------------
Issue(ms, r, how) ==
    /\ issued < MaxIssued
    /\ lastMs' = ms /\ lastRand' = r
    /\ id' = Encode(ms, r)
    /\ issued' = issued + 1
    /\ way' = how

(* Mutant: any other millisecond than the last seeds afresh.                *)
LaterOrEarlier(now) == now # lastMs

Later(now) == now > lastMs

(* A new millisecond.                                                       *)
NewSeeded(now, r) ==
    /\ Later(now)
    /\ Issue(now, r, "seed")

(* The same millisecond, or a clock that went back.                         *)
NewStepped(now, draw) ==
    /\ ~Later(now)
    /\ ~Overflows(lastRand, draw)
    /\ Issue(lastMs, Added(lastRand, draw), "step")

(* The 80 bits overflow: seeded afresh under the same timestamp.            *)
NewReseeded(now, draw, r) ==
    /\ ~Later(now)
    /\ Overflows(lastRand, draw)
    /\ Issue(lastMs, r, "reseed")

Next ==
    \E now \in Times :
        \/ \E r \in Seeds : NewSeeded(now, r)
        \/ \E draw \in Draws : \/ NewStepped(now, draw)
                               \/ \E r \in Seeds : NewReseeded(now, draw, r)

Spec == Init /\ [][Next]_vars

-----------------------------------------------------------------------------
(* The string order of ids.                                                 *)
Less(x, y) ==
    \E k \in DOMAIN y : (k \notin DOMAIN x \/ x[k] < y[k]) /\ \A j \in 1..(k - 1) : x[j] = y[j]

(* Every id sorts after the one before it, over new milliseconds, clock
   rewinds and carries through all ten bytes, unless the 80 bits overflow.  *)
IdsIncrease == [][way' # "reseed" => Less(id, id')]_vars

(* Bit n, from the top, of the 130 bits the ULID format lays out: two zero
   bits, 48 of timestamp, 80 of randomness.                                 *)
UlidBit(n) ==
    IF n < 2 THEN 0
    ELSE IF n < 50 THEN Shift(lastMs, 49 - n) % 2
    ELSE Shift(lastRand[(n - 50) \div 8 + 1], 7 - ((n - 50) % 8)) % 2

(* "The wire format matches the ULID spec": the masks and shifts of encode
   spell the digits of that bit string, five bits each.                     *)
WireFormat ==
    id # <<>> =>
        /\ Len(id) = 26
        /\ \A n \in 0..129 : Shift(id[n \div 5 + 1], 4 - (n % 5)) % 2 = UlidBit(n)
=============================================================================
