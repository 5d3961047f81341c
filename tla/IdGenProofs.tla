----------------------------- MODULE IdGenProofs -----------------------------
(***************************************************************************)
(* Proofs about IdGen, for any clock readings of 48 bits, any seeds, any   *)
(* draws and any number of ids: ids increase, and each is the spelling of  *)
(* its 128 bits.  The widths are fixed, so nothing here is an induction:   *)
(* the ten carries and the 26 digits are written out.                      *)
(***************************************************************************)
EXTENDS IdGen, SequenceTheorems, TLAPS

(* x comes before y in the first n places.                                  *)
Before(x, y, n) == \E k \in 1..n : x[k] < y[k] /\ \A j \in 1..(k - 1) : x[j] = y[j]

(* The loop of addRandStep80 runs at most ten times, so its carries can be
   written out: that gives the recursive definition of Carry a value.       *)
LEMMA CarryUnrolled ==
    ASSUME NEW b \in [1..10 -> 0..255], NEW draw \in Nat
    PROVE  LET c == Carry(b, draw) IN
           /\ c \in [0..10 -> Nat]
           /\ c[0] = Step(draw)
           /\ \A n \in 1..10 : c[n] = (b[11 - n] + c[n - 1]) \div 256
<1> DEFINE F(f) == [n \in 0..10 |-> IF n = 0 THEN Step(draw) ELSE (b[11 - n] + f[n - 1]) \div 256]
           c == Carry(b, draw)
<1>1. c = CHOOSE f : f = F(f)
  BY DEF Carry
<1>0. Step(draw) \in Nat \ {0}
  BY DEF Step
<1>b. \A k \in 1..10 : b[k] \in Nat
  BY SMTT(40)
<1>c0. PICK c0 \in Nat : c0 = Step(draw)
  BY <1>0
<1>c1. PICK c1 \in Nat : c1 = (b[10] + c0) \div 256
  BY <1>b
<1>c2. PICK c2 \in Nat : c2 = (b[9] + c1) \div 256
  BY <1>b
<1>c3. PICK c3 \in Nat : c3 = (b[8] + c2) \div 256
  BY <1>b
<1>c4. PICK c4 \in Nat : c4 = (b[7] + c3) \div 256
  BY <1>b
<1>c5. PICK c5 \in Nat : c5 = (b[6] + c4) \div 256
  BY <1>b
<1>c6. PICK c6 \in Nat : c6 = (b[5] + c5) \div 256
  BY <1>b
<1>c7. PICK c7 \in Nat : c7 = (b[4] + c6) \div 256
  BY <1>b
<1>c8. PICK c8 \in Nat : c8 = (b[3] + c7) \div 256
  BY <1>b
<1>c9. PICK c9 \in Nat : c9 = (b[2] + c8) \div 256
  BY <1>b
<1>c10. PICK c10 \in Nat : c10 = (b[1] + c9) \div 256
  BY <1>b
<1> DEFINE w == [n \in 0..10 |-> CASE n = 0 -> c0 [] n = 1 -> c1 [] n = 2 -> c2 [] n = 3 -> c3 [] n = 4 -> c4 [] n = 5 -> c5 [] n = 6 -> c6 [] n = 7 -> c7 [] n = 8 -> c8 [] n = 9 -> c9 [] n = 10 -> c10]
<1>2. w = F(w)
  <2>1. ASSUME NEW n \in 0..10
        PROVE  w[n] = IF n = 0 THEN Step(draw) ELSE (b[11 - n] + w[n - 1]) \div 256
    <3>0. CASE n = 0
      BY <3>0, <1>c0
    <3>1. CASE n = 1
      BY <3>1, <1>c1
    <3>2. CASE n = 2
      BY <3>2, <1>c2
    <3>3. CASE n = 3
      BY <3>3, <1>c3
    <3>4. CASE n = 4
      BY <3>4, <1>c4
    <3>5. CASE n = 5
      BY <3>5, <1>c5
    <3>6. CASE n = 6
      BY <3>6, <1>c6
    <3>7. CASE n = 7
      BY <3>7, <1>c7
    <3>8. CASE n = 8
      BY <3>8, <1>c8
    <3>9. CASE n = 9
      BY <3>9, <1>c9
    <3>10. CASE n = 10
      BY <3>10, <1>c10
    <3>11. n \in {0, 1, 2, 3, 4, 5, 6, 7, 8, 9, 10}
      OBVIOUS
    <3> HIDE DEF w
    <3>. QED  BY <3>11, <3>0, <3>1, <3>2, <3>3, <3>4, <3>5, <3>6, <3>7, <3>8, <3>9, <3>10
  <2>2. w = [n \in 0..10 |-> w[n]]
    OBVIOUS
  <2>3. F(w) = [n \in 0..10 |-> IF n = 0 THEN Step(draw) ELSE (b[11 - n] + w[n - 1]) \div 256]
    OBVIOUS
  <2> HIDE DEF w, F
  <2>4. [n \in 0..10 |-> w[n]]
            = [n \in 0..10 |-> IF n = 0 THEN Step(draw) ELSE (b[11 - n] + w[n - 1]) \div 256]
    BY <2>1, SMTT(40)
  <2>. QED  BY <2>2, <2>3, <2>4, Zenon
<1>3. c = F(c)
  <2> HIDE DEF w, F, c
  <2>. QED  BY <1>1, <1>2, Zenon
<1> HIDE DEF c
<1>4. c[0] = Step(draw) /\ \A n \in 1..10 : c[n] = (b[11 - n] + c[n - 1]) \div 256
  BY <1>3
<1>5. c = [n \in 0..10 |-> c[n]]
  BY <1>3
<1>6. c[0] \in Nat
  BY <1>0, <1>4
<1>7. ASSUME NEW n \in 1..10, c[n - 1] \in Nat PROVE c[n] \in Nat
  BY <1>4, <1>7, <1>b
<1>8. \A n \in 0..10 : c[n] \in Nat
  <2>0. c[0] \in Nat
    BY <1>6
  <2>1. c[1] \in Nat
    BY <1>7, <2>0
  <2>2. c[2] \in Nat
    BY <1>7, <2>1
  <2>3. c[3] \in Nat
    BY <1>7, <2>2
  <2>4. c[4] \in Nat
    BY <1>7, <2>3
  <2>5. c[5] \in Nat
    BY <1>7, <2>4
  <2>6. c[6] \in Nat
    BY <1>7, <2>5
  <2>7. c[7] \in Nat
    BY <1>7, <2>6
  <2>8. c[8] \in Nat
    BY <1>7, <2>7
  <2>9. c[9] \in Nat
    BY <1>7, <2>8
  <2>10. c[10] \in Nat
    BY <1>7, <2>9
  <2>. QED  BY <2>0, <2>1, <2>2, <2>3, <2>4, <2>5, <2>6, <2>7, <2>8, <2>9, <2>10
<1>. QED  BY <1>4, <1>5, <1>8 DEF c

(* The carry that goes in is not 0 and the one that comes out is: somewhere
   between it dies.                                                         *)
LEMMA CarryDies ==
    ASSUME NEW c \in [0..10 -> Nat], c[0] # 0, c[10] = 0
    PROVE  \E n \in 1..10 : c[n - 1] # 0 /\ \A m \in n..10 : c[m] = 0
<1> DEFINE P(n) == c[n - 1] # 0 /\ \A m \in n..10 : c[m] = 0
<1>10. CASE c[10] = 0 /\ c[9] # 0
  <2>1. 10 - 1 = 9 /\ \A m \in 10..10 : m \in {10}
    OBVIOUS
  <2>2. P(10)
    BY <1>10, <2>1
  <2>. QED  BY <2>2
<1>9. CASE c[9] = 0 /\ c[10] = 0 /\ c[8] # 0
  <2>1. 9 - 1 = 8 /\ \A m \in 9..10 : m \in {9, 10}
    OBVIOUS
  <2>2. P(9)
    BY <1>9, <2>1
  <2>. QED  BY <2>2
<1>8. CASE c[8] = 0 /\ c[9] = 0 /\ c[10] = 0 /\ c[7] # 0
  <2>1. 8 - 1 = 7 /\ \A m \in 8..10 : m \in {8, 9, 10}
    OBVIOUS
  <2>2. P(8)
    BY <1>8, <2>1
  <2>. QED  BY <2>2
<1>7. CASE c[7] = 0 /\ c[8] = 0 /\ c[9] = 0 /\ c[10] = 0 /\ c[6] # 0
  <2>1. 7 - 1 = 6 /\ \A m \in 7..10 : m \in {7, 8, 9, 10}
    OBVIOUS
  <2>2. P(7)
    BY <1>7, <2>1
  <2>. QED  BY <2>2
<1>6. CASE c[6] = 0 /\ c[7] = 0 /\ c[8] = 0 /\ c[9] = 0 /\ c[10] = 0 /\ c[5] # 0
  <2>1. 6 - 1 = 5 /\ \A m \in 6..10 : m \in {6, 7, 8, 9, 10}
    OBVIOUS
  <2>2. P(6)
    BY <1>6, <2>1
  <2>. QED  BY <2>2
<1>5. CASE c[5] = 0 /\ c[6] = 0 /\ c[7] = 0 /\ c[8] = 0 /\ c[9] = 0 /\ c[10] = 0 /\ c[4] # 0
  <2>1. 5 - 1 = 4 /\ \A m \in 5..10 : m \in {5, 6, 7, 8, 9, 10}
    OBVIOUS
  <2>2. P(5)
    BY <1>5, <2>1
  <2>. QED  BY <2>2
<1>4. CASE c[4] = 0 /\ c[5] = 0 /\ c[6] = 0 /\ c[7] = 0 /\ c[8] = 0 /\ c[9] = 0 /\ c[10] = 0 /\ c[3] # 0
  <2>1. 4 - 1 = 3 /\ \A m \in 4..10 : m \in {4, 5, 6, 7, 8, 9, 10}
    OBVIOUS
  <2>2. P(4)
    BY <1>4, <2>1
  <2>. QED  BY <2>2
<1>3. CASE c[3] = 0 /\ c[4] = 0 /\ c[5] = 0 /\ c[6] = 0 /\ c[7] = 0 /\ c[8] = 0 /\ c[9] = 0 /\ c[10] = 0 /\ c[2] # 0
  <2>1. 3 - 1 = 2 /\ \A m \in 3..10 : m \in {3, 4, 5, 6, 7, 8, 9, 10}
    OBVIOUS
  <2>2. P(3)
    BY <1>3, <2>1
  <2>. QED  BY <2>2
<1>2. CASE c[2] = 0 /\ c[3] = 0 /\ c[4] = 0 /\ c[5] = 0 /\ c[6] = 0 /\ c[7] = 0 /\ c[8] = 0 /\ c[9] = 0 /\ c[10] = 0 /\ c[1] # 0
  <2>1. 2 - 1 = 1 /\ \A m \in 2..10 : m \in {2, 3, 4, 5, 6, 7, 8, 9, 10}
    OBVIOUS
  <2>2. P(2)
    BY <1>2, <2>1
  <2>. QED  BY <2>2
<1>1. CASE c[1] = 0 /\ c[2] = 0 /\ c[3] = 0 /\ c[4] = 0 /\ c[5] = 0 /\ c[6] = 0 /\ c[7] = 0 /\ c[8] = 0 /\ c[9] = 0 /\ c[10] = 0 /\ c[0] # 0
  <2>1. 1 - 1 = 0 /\ \A m \in 1..10 : m \in {1, 2, 3, 4, 5, 6, 7, 8, 9, 10}
    OBVIOUS
  <2>2. P(1)
    BY <1>1, <2>1
  <2>. QED  BY <2>2
<1>. QED  BY <1>1, <1>2, <1>3, <1>4, <1>5, <1>6, <1>7, <1>8, <1>9, <1>10

LEMMA ByteGrows ==
    ASSUME NEW u \in 0..255, NEW v \in Nat, (u + v) \div 256 = 0, v # 0
    PROVE  u < (u + v) % 256
OBVIOUS

LEMMA ByteStays == \A u \in 0..255 : (u + 0) % 256 = u
OBVIOUS

LEMMA ByteType == \A v \in Nat : v % 256 \in 0..255
OBVIOUS

(* Adding a step without overflow: the carry dies in some byte, which grows;
   the bytes above it stay.                                                 *)
LEMMA AddedGrows ==
    ASSUME NEW b \in [1..10 -> 0..255], NEW draw \in Nat, ~Overflows(b, draw)
    PROVE  Added(b, draw) \in [1..10 -> 0..255] /\ Before(b, Added(b, draw), 10)
<1> DEFINE c == Carry(b, draw)
           r == Added(b, draw)
<1>1. /\ c \in [0..10 -> Nat]
      /\ c[0] = Step(draw)
      /\ \A n \in 1..10 : c[n] = (b[11 - n] + c[n - 1]) \div 256
  BY CarryUnrolled, ZenonT(60)
<1>2. c[0] # 0 /\ c[10] = 0
  BY <1>1 DEF Step, Overflows
<1>3. r = [k \in 1..10 |-> (b[k] + c[10 - k]) % 256]
  BY DEF Added
<1>4. \A k \in 1..10 : b[k] \in 0..255
  OBVIOUS
<1> HIDE DEF c, r
<1>5. PICK n \in 1..10 : c[n - 1] # 0 /\ \A m \in n..10 : c[m] = 0
  BY <1>1, <1>2, CarryDies
<1>6. \A k \in 1..10 : r[k] \in 0..255
  <2>1. ASSUME NEW k \in 1..10 PROVE b[k] + c[10 - k] \in Nat
    <3>1. 10 - k \in 0..10 /\ b[k] \in Nat
      BY <1>4, SMTT(40)
    <3>2. c[10 - k] \in Nat
      BY <1>1, <3>1
    <3>. QED  BY <3>1, <3>2
  <2>. QED  BY <1>3, <2>1, ByteType
<1>7. r \in [1..10 -> 0..255]
  BY <1>3, <1>6
<1>8. b[11 - n] < r[11 - n]
  <2>1. 11 - n \in 1..10 /\ 10 - (11 - n) = n - 1 /\ c[n - 1] \in Nat /\ c[n] = 0
    BY <1>1, <1>5
  <2>2. c[n] = (b[11 - n] + c[n - 1]) \div 256
    BY <1>1
  <2>3. r[11 - n] = (b[11 - n] + c[n - 1]) % 256
    BY <1>3, <2>1
  <2>4. b[11 - n] \in 0..255
    BY <1>4, <2>1
  <2>5. (b[11 - n] + c[n - 1]) \div 256 = 0 /\ c[n - 1] # 0
    BY <1>5, <2>1, <2>2
  <2>6. PICK u \in 0..255, v \in Nat : u = b[11 - n] /\ v = c[n - 1]
    BY <2>1, <2>4, Zenon
  <2>7. (u + v) \div 256 = 0 /\ v # 0 /\ r[11 - n] = (u + v) % 256
    BY <2>3, <2>5, <2>6, Zenon
  <2>8. u < r[11 - n]
    BY <2>7, ByteGrows
  <2>. QED  BY <2>6, <2>8, Zenon
<1>9. \A j \in 1..(10 - n) : b[j] = r[j]
  <2> SUFFICES ASSUME NEW j \in 1..(10 - n) PROVE b[j] = r[j]
    OBVIOUS
  <2>1. j \in 1..10 /\ 10 - j \in n..10
    OBVIOUS
  <2>2. c[10 - j] = 0
    BY <1>5, <2>1
  <2>3. r[j] = (b[j] + 0) % 256 /\ b[j] \in 0..255
    BY <1>3, <1>4, <2>1, <2>2
  <2>. QED  BY <2>3, ByteStays, Zenon
<1>10. 11 - n \in 1..10 /\ (11 - n) - 1 = 10 - n
  OBVIOUS
<1>11. \A j \in 1..((11 - n) - 1) : b[j] = r[j]
  BY <1>9, <1>10, Zenon
<1>12. Before(b, r, 10)
  BY <1>8, <1>10, <1>11, Zenon DEF Before
<1>. QED  BY <1>7, <1>12, Zenon DEF r

(* Where the k-th of five bytes is the first that differs, the first digit
   that takes bits of it and differs is greater too; h is what the digit
   takes of the byte before, p and q are the bytes after.                   *)
LEMMA Digits1 ==
    ASSUME NEW x \in 0..255, NEW y \in 0..255, NEW p \in 0..255, NEW q \in 0..255,
           NEW h \in Nat, x < y
    PROVE  \/ x \div 8 < y \div 8
           \/ x \div 8 = y \div 8 /\ (x % 8) * 4 + p \div 64 < (y % 8) * 4 + q \div 64
OBVIOUS

LEMMA Digits2 ==
    ASSUME NEW x \in 0..255, NEW y \in 0..255, NEW p \in 0..255, NEW q \in 0..255,
           NEW h \in Nat, x < y
    PROVE  \/ h * 4 + x \div 64 < h * 4 + y \div 64
           \/ h * 4 + x \div 64 = h * 4 + y \div 64 /\ (x % 64) \div 2 < (y % 64) \div 2
           \/ h * 4 + x \div 64 = h * 4 + y \div 64 /\ (x % 64) \div 2 = (y % 64) \div 2 /\ (x % 2) * 16 + p \div 16 < (y % 2) * 16 + q \div 16
OBVIOUS

LEMMA Digits3 ==
    ASSUME NEW x \in 0..255, NEW y \in 0..255, NEW p \in 0..255, NEW q \in 0..255,
           NEW h \in Nat, x < y
    PROVE  \/ h * 16 + x \div 16 < h * 16 + y \div 16
           \/ h * 16 + x \div 16 = h * 16 + y \div 16 /\ (x % 16) * 2 + p \div 128 < (y % 16) * 2 + q \div 128
OBVIOUS

LEMMA Digits4 ==
    ASSUME NEW x \in 0..255, NEW y \in 0..255, NEW p \in 0..255, NEW q \in 0..255,
           NEW h \in Nat, x < y
    PROVE  \/ h * 2 + x \div 128 < h * 2 + y \div 128
           \/ h * 2 + x \div 128 = h * 2 + y \div 128 /\ (x % 128) \div 4 < (y % 128) \div 4
           \/ h * 2 + x \div 128 = h * 2 + y \div 128 /\ (x % 128) \div 4 = (y % 128) \div 4 /\ (x % 4) * 8 + p \div 32 < (y % 4) * 8 + q \div 32
OBVIOUS

LEMMA Digits5 ==
    ASSUME NEW x \in 0..255, NEW y \in 0..255, NEW p \in 0..255, NEW q \in 0..255,
           NEW h \in Nat, x < y
    PROVE  \/ h * 8 + x \div 32 < h * 8 + y \div 32
           \/ h * 8 + x \div 32 = h * 8 + y \div 32 /\ x % 32 < y % 32
OBVIOUS

(* Five bytes that come before five others are eight digits that do.        *)
LEMMA FiveGrows ==
    ASSUME NEW x \in [1..5 -> 0..255], NEW y \in [1..5 -> 0..255], Before(x, y, 5)
    PROVE  Before(EncodeFive(x), EncodeFive(y), 8)
<1> DEFINE u == EncodeFive(x)
           v == EncodeFive(y)
<1>1. PICK k \in 1..5 : x[k] < y[k] /\ \A j \in 1..(k - 1) : x[j] = y[j]
  BY DEF Before
<1>2. /\ x[1] \in 0..255 /\ x[2] \in 0..255 /\ x[3] \in 0..255 /\ x[4] \in 0..255 /\ x[5] \in 0..255
      /\ y[1] \in 0..255 /\ y[2] \in 0..255 /\ y[3] \in 0..255 /\ y[4] \in 0..255 /\ y[5] \in 0..255
  OBVIOUS
<1>5. x[1] % 8 \in Nat /\ x[2] % 2 \in Nat /\ x[3] % 16 \in Nat /\ x[4] % 4 \in Nat
  BY <1>2
<1>3. /\ u[1] = x[1] \div 8
      /\ u[2] = (x[1] % 8) * 4 + x[2] \div 64
      /\ u[3] = (x[2] % 64) \div 2
      /\ u[4] = (x[2] % 2) * 16 + x[3] \div 16
      /\ u[5] = (x[3] % 16) * 2 + x[4] \div 128
      /\ u[6] = (x[4] % 128) \div 4
      /\ u[7] = (x[4] % 4) * 8 + x[5] \div 32
      /\ u[8] = x[5] % 32
  BY DEF EncodeFive
<1>4. /\ v[1] = y[1] \div 8
      /\ v[2] = (y[1] % 8) * 4 + y[2] \div 64
      /\ v[3] = (y[2] % 64) \div 2
      /\ v[4] = (y[2] % 2) * 16 + y[3] \div 16
      /\ v[5] = (y[3] % 16) * 2 + y[4] \div 128
      /\ v[6] = (y[4] % 128) \div 4
      /\ v[7] = (y[4] % 4) * 8 + y[5] \div 32
      /\ v[8] = y[5] % 32
  BY DEF EncodeFive
<1> HIDE DEF u, v
<1> DEFINE At(d) == u[d] < v[d] /\ \A j \in 1..(d - 1) : u[j] = v[j]
<1>11. CASE k = 1
  <2>1. x[1] < y[1]
    BY <1>1, <1>11
  <2>5. \/ x[1] \div 8 < y[1] \div 8
        \/ x[1] \div 8 = y[1] \div 8 /\ (x[1] % 8) * 4 + x[2] \div 64 < (y[1] % 8) * 4 + y[2] \div 64
    BY <1>2, <1>5, <2>1, Digits1, ZenonT(60)
  <2>3. (u[1] < v[1]) \/ (u[1] = v[1] /\ u[2] < v[2])
    BY <1>3, <1>4, <2>1, <2>5, Zenon
  <2>4. At(1) \/ At(2)
    BY <2>3
  <2>. QED  BY <2>4 DEF Before, u, v
<1>12. CASE k = 2
  <2>1. x[1] = y[1] /\ x[2] < y[2]
    BY <1>1, <1>12
  <2>2. u[1] = v[1]
    BY <1>3, <1>4, <2>1
  <2>5. \/ (x[1] % 8) * 4 + x[2] \div 64 < (x[1] % 8) * 4 + y[2] \div 64
        \/ (x[1] % 8) * 4 + x[2] \div 64 = (x[1] % 8) * 4 + y[2] \div 64 /\ (x[2] % 64) \div 2 < (y[2] % 64) \div 2
        \/ (x[1] % 8) * 4 + x[2] \div 64 = (x[1] % 8) * 4 + y[2] \div 64 /\ (x[2] % 64) \div 2 = (y[2] % 64) \div 2 /\ (x[2] % 2) * 16 + x[3] \div 16 < (y[2] % 2) * 16 + y[3] \div 16
    BY <1>2, <1>5, <2>1, Digits2, ZenonT(60)
  <2>6. v[2] = (x[1] % 8) * 4 + y[2] \div 64
    BY <1>4, <2>1, Zenon
  <2>3. (u[2] < v[2]) \/ (u[2] = v[2] /\ u[3] < v[3]) \/ (u[2] = v[2] /\ u[3] = v[3] /\ u[4] < v[4])
    BY <1>3, <1>4, <2>5, <2>6, ZenonT(60)
  <2>4. At(2) \/ At(3) \/ At(4)
    BY <2>2, <2>3
  <2>. QED  BY <2>4 DEF Before, u, v
<1>13. CASE k = 3
  <2>1. x[1] = y[1] /\ x[2] = y[2] /\ x[3] < y[3]
    BY <1>1, <1>13
  <2>2. u[1] = v[1] /\ u[2] = v[2] /\ u[3] = v[3]
    BY <1>3, <1>4, <2>1
  <2>5. \/ (x[2] % 2) * 16 + x[3] \div 16 < (x[2] % 2) * 16 + y[3] \div 16
        \/ (x[2] % 2) * 16 + x[3] \div 16 = (x[2] % 2) * 16 + y[3] \div 16 /\ (x[3] % 16) * 2 + x[4] \div 128 < (y[3] % 16) * 2 + y[4] \div 128
    BY <1>2, <1>5, <2>1, Digits3, ZenonT(60)
  <2>6. v[4] = (x[2] % 2) * 16 + y[3] \div 16
    BY <1>4, <2>1, Zenon
  <2>3. (u[4] < v[4]) \/ (u[4] = v[4] /\ u[5] < v[5])
    BY <1>3, <1>4, <2>5, <2>6, ZenonT(60)
  <2>4. At(4) \/ At(5)
    BY <2>2, <2>3
  <2>. QED  BY <2>4 DEF Before, u, v
<1>14. CASE k = 4
  <2>1. x[1] = y[1] /\ x[2] = y[2] /\ x[3] = y[3] /\ x[4] < y[4]
    BY <1>1, <1>14
  <2>2. u[1] = v[1] /\ u[2] = v[2] /\ u[3] = v[3] /\ u[4] = v[4]
    BY <1>3, <1>4, <2>1
  <2>5. \/ (x[3] % 16) * 2 + x[4] \div 128 < (x[3] % 16) * 2 + y[4] \div 128
        \/ (x[3] % 16) * 2 + x[4] \div 128 = (x[3] % 16) * 2 + y[4] \div 128 /\ (x[4] % 128) \div 4 < (y[4] % 128) \div 4
        \/ (x[3] % 16) * 2 + x[4] \div 128 = (x[3] % 16) * 2 + y[4] \div 128 /\ (x[4] % 128) \div 4 = (y[4] % 128) \div 4 /\ (x[4] % 4) * 8 + x[5] \div 32 < (y[4] % 4) * 8 + y[5] \div 32
    BY <1>2, <1>5, <2>1, Digits4, ZenonT(60)
  <2>6. v[5] = (x[3] % 16) * 2 + y[4] \div 128
    BY <1>4, <2>1, Zenon
  <2>7. /\ u[5] = (x[3] % 16) * 2 + x[4] \div 128
        /\ u[6] = (x[4] % 128) \div 4 /\ v[6] = (y[4] % 128) \div 4
        /\ u[7] = (x[4] % 4) * 8 + x[5] \div 32 /\ v[7] = (y[4] % 4) * 8 + y[5] \div 32
    BY <1>3, <1>4, Zenon
  <2>3. (u[5] < v[5]) \/ (u[5] = v[5] /\ u[6] < v[6]) \/ (u[5] = v[5] /\ u[6] = v[6] /\ u[7] < v[7])
    BY <2>5, <2>6, <2>7, ZenonT(60)
  <2>4. At(5) \/ At(6) \/ At(7)
    BY <2>2, <2>3
  <2>. QED  BY <2>4 DEF Before, u, v
<1>15. CASE k = 5
  <2>1. x[1] = y[1] /\ x[2] = y[2] /\ x[3] = y[3] /\ x[4] = y[4] /\ x[5] < y[5]
    BY <1>1, <1>15
  <2>2. u[1] = v[1] /\ u[2] = v[2] /\ u[3] = v[3] /\ u[4] = v[4] /\ u[5] = v[5] /\ u[6] = v[6]
    BY <1>3, <1>4, <2>1
  <2>5. \/ (x[4] % 4) * 8 + x[5] \div 32 < (x[4] % 4) * 8 + y[5] \div 32
        \/ (x[4] % 4) * 8 + x[5] \div 32 = (x[4] % 4) * 8 + y[5] \div 32 /\ x[5] % 32 < y[5] % 32
    BY <1>2, <1>5, <2>1, Digits5, ZenonT(60)
  <2>6. v[7] = (x[4] % 4) * 8 + y[5] \div 32
    BY <1>4, <2>1, Zenon
  <2>3. (u[7] < v[7]) \/ (u[7] = v[7] /\ u[8] < v[8])
    BY <1>3, <1>4, <2>5, <2>6, ZenonT(60)
  <2>4. At(7) \/ At(8)
    BY <2>2, <2>3
  <2>. QED  BY <2>4 DEF Before, u, v
<1>. QED  BY <1>11, <1>12, <1>13, <1>14, <1>15

(* The shifts of encode's timestamp digits, each one digit on from the one
   before it; 48 bits leave the top digit alone.                            *)
LEMMA ShiftTypes ==
    ASSUME NEW v \in Nat
    PROVE  /\ Shift(v, 0) \in Nat
           /\ Shift(v, 5) \in Nat
           /\ Shift(v, 10) \in Nat
           /\ Shift(v, 15) \in Nat
           /\ Shift(v, 20) \in Nat
           /\ Shift(v, 25) \in Nat
           /\ Shift(v, 30) \in Nat
           /\ Shift(v, 35) \in Nat
           /\ Shift(v, 40) \in Nat
           /\ Shift(v, 45) \in Nat
BY DEF Shift

LEMMA ShiftSteps ==
    ASSUME NEW v \in Nat, v \div 2^24 < 2^24
    PROVE  /\ Shift(v, 0) = v
           /\ Shift(v, 5) = Shift(v, 0) \div 32
           /\ Shift(v, 10) = Shift(v, 5) \div 32
           /\ Shift(v, 15) = Shift(v, 10) \div 32
           /\ Shift(v, 20) = Shift(v, 15) \div 32
           /\ Shift(v, 25) = Shift(v, 20) \div 32
           /\ Shift(v, 30) = Shift(v, 25) \div 32
           /\ Shift(v, 35) = Shift(v, 30) \div 32
           /\ Shift(v, 40) = Shift(v, 35) \div 32
           /\ Shift(v, 45) = Shift(v, 40) \div 32
           /\ Shift(v, 45) % 32 = Shift(v, 45)
<1>0. Shift(v, 0) = v
  BY DEF Shift
<1>1. Shift(v, 5) = Shift(v, 0) \div 32
  BY DEF Shift
<1>2. Shift(v, 10) = Shift(v, 5) \div 32
  BY DEF Shift
<1>3. Shift(v, 15) = Shift(v, 10) \div 32
  BY DEF Shift
<1>4. Shift(v, 20) = Shift(v, 15) \div 32
  BY DEF Shift
<1>5. Shift(v, 25) = Shift(v, 20) \div 32
  BY DEF Shift
<1>6. Shift(v, 30) = Shift(v, 25) \div 32
  BY DEF Shift
<1>7. Shift(v, 35) = Shift(v, 30) \div 32
  BY DEF Shift
<1>8. Shift(v, 40) = Shift(v, 35) \div 32
  BY DEF Shift
<1>9. Shift(v, 45) = Shift(v, 40) \div 32
  BY DEF Shift
<1>10. Shift(v, 45) % 32 = Shift(v, 45)
  BY DEF Shift
<1>. QED  BY <1>0, <1>1, <1>2, <1>3, <1>4, <1>5, <1>6, <1>7, <1>8, <1>9, <1>10

(* The timestamp and its ten shifts, by digit.                              *)
Shifts(v) == [k \in 0..9 |-> Shift(v, 5 * k)]

LEMMA ShiftChain ==
    ASSUME NEW v \in Nat, v \div 2^24 < 2^24
    PROVE  /\ Shifts(v) \in [0..9 -> Nat]
           /\ Shifts(v)[0] = v
           /\ \A k \in 1..9 : Shifts(v)[k] = Shifts(v)[k - 1] \div 32
           /\ Shifts(v)[9] % 32 = Shifts(v)[9]
<1>1. \A k \in 0..9 : k \in {0, 1, 2, 3, 4, 5, 6, 7, 8, 9}
  OBVIOUS
<1>2. ASSUME NEW k \in 0..9 PROVE Shift(v, 5 * k) \in Nat
  <2>0. CASE k = 0
    BY <2>0, ShiftTypes
  <2>1. CASE k = 1
    BY <2>1, ShiftTypes
  <2>2. CASE k = 2
    BY <2>2, ShiftTypes
  <2>3. CASE k = 3
    BY <2>3, ShiftTypes
  <2>4. CASE k = 4
    BY <2>4, ShiftTypes
  <2>5. CASE k = 5
    BY <2>5, ShiftTypes
  <2>6. CASE k = 6
    BY <2>6, ShiftTypes
  <2>7. CASE k = 7
    BY <2>7, ShiftTypes
  <2>8. CASE k = 8
    BY <2>8, ShiftTypes
  <2>9. CASE k = 9
    BY <2>9, ShiftTypes
  <2>. QED  BY <1>1, <2>0, <2>1, <2>2, <2>3, <2>4, <2>5, <2>6, <2>7, <2>8, <2>9
<1>3. ASSUME NEW k \in 1..9 PROVE Shift(v, 5 * k) = Shift(v, 5 * (k - 1)) \div 32
  <2>0. k \in {1, 2, 3, 4, 5, 6, 7, 8, 9}
    OBVIOUS
  <2>1. CASE k = 1
    BY <2>1, ShiftSteps
  <2>2. CASE k = 2
    BY <2>2, ShiftSteps
  <2>3. CASE k = 3
    BY <2>3, ShiftSteps
  <2>4. CASE k = 4
    BY <2>4, ShiftSteps
  <2>5. CASE k = 5
    BY <2>5, ShiftSteps
  <2>6. CASE k = 6
    BY <2>6, ShiftSteps
  <2>7. CASE k = 7
    BY <2>7, ShiftSteps
  <2>8. CASE k = 8
    BY <2>8, ShiftSteps
  <2>9. CASE k = 9
    BY <2>9, ShiftSteps
  <2>. QED  BY <2>0, <2>1, <2>2, <2>3, <2>4, <2>5, <2>6, <2>7, <2>8, <2>9
<1>4. Shift(v, 5 * 0) = v /\ Shift(v, 5 * 9) % 32 = Shift(v, 5 * 9)
  BY ShiftSteps
<1>5. \A k \in 1..9 : k \in 0..9 /\ k - 1 \in 0..9
  OBVIOUS
<1>. QED  BY <1>2, <1>3, <1>4, <1>5 DEF Shifts

LEMMA MsDigits ==
    ASSUME NEW v
    PROVE  /\ EncodeMs(v) = [k \in 1..10 |-> EncodeMs(v)[k]]
           /\ \A k \in 1..10 : EncodeMs(v)[k] = Shifts(v)[10 - k] % 32
<1>1. \A k \in 1..10 : 10 - k \in 0..9 /\ 50 - 5 * k = 5 * (10 - k)
  OBVIOUS
<1>. QED  BY <1>1 DEF EncodeMs, Shifts

LEMMA DivGrows ==
    ASSUME NEW x \in Nat, NEW y \in Nat, x <= y
    PROVE  /\ x \div 32 <= y \div 32
           /\ x # y /\ x \div 32 = y \div 32 => x % 32 < y % 32
OBVIOUS

(* A later timestamp has later digits: in the highest that differs.         *)
LEMMA MsGrows ==
    ASSUME NEW a \in Nat, a \div 2^24 < 2^24, NEW b \in Nat, b \div 2^24 < 2^24, a < b
    PROVE  Before(EncodeMs(a), EncodeMs(b), 10)
<1> DEFINE s == Shifts(a)
           t == Shifts(b)
           c == [n \in 0..10 |-> IF n < 10 /\ s[n] # t[n] THEN 1 ELSE 0]
<1>1. /\ s \in [0..9 -> Nat] /\ s[0] = a /\ s[9] % 32 = s[9]
      /\ \A k \in 1..9 : s[k] = s[k - 1] \div 32
  BY ShiftChain
<1>2. /\ t \in [0..9 -> Nat] /\ t[0] = b /\ t[9] % 32 = t[9]
      /\ \A k \in 1..9 : t[k] = t[k - 1] \div 32
  BY ShiftChain
<1> HIDE DEF s, t
<1>3. ASSUME NEW k \in 1..9, s[k - 1] <= t[k - 1] PROVE s[k] <= t[k]
  <2>1. k - 1 \in 0..9
    OBVIOUS
  <2>2. PICK x \in Nat, y \in Nat : x = s[k - 1] /\ y = t[k - 1]
    BY <1>1, <1>2, <2>1
  <2>3. s[k] = x \div 32 /\ t[k] = y \div 32
    BY <1>1, <1>2, <2>2, Zenon
  <2>4. x <= y
    BY <1>3, <2>2, Zenon
  <2>. QED  BY <2>3, <2>4, DivGrows
<1>4. \A k \in 0..9 : s[k] <= t[k]
  <2>0. s[0] <= t[0]
    BY <1>1, <1>2
  <2>1. s[1] <= t[1]
    BY <1>3, <2>0
  <2>2. s[2] <= t[2]
    BY <1>3, <2>1
  <2>3. s[3] <= t[3]
    BY <1>3, <2>2
  <2>4. s[4] <= t[4]
    BY <1>3, <2>3
  <2>5. s[5] <= t[5]
    BY <1>3, <2>4
  <2>6. s[6] <= t[6]
    BY <1>3, <2>5
  <2>7. s[7] <= t[7]
    BY <1>3, <2>6
  <2>8. s[8] <= t[8]
    BY <1>3, <2>7
  <2>9. s[9] <= t[9]
    BY <1>3, <2>8
  <2>10. \A k \in 0..9 : k \in {0, 1, 2, 3, 4, 5, 6, 7, 8, 9}
    OBVIOUS
  <2>. QED  BY <2>0, <2>1, <2>2, <2>3, <2>4, <2>5, <2>6, <2>7, <2>8, <2>9, <2>10
<1>5. c \in [0..10 -> Nat] /\ c[0] # 0 /\ c[10] = 0
  BY <1>1, <1>2
<1> HIDE DEF c
<1>6. PICK n \in 1..10 : c[n - 1] # 0 /\ \A m \in n..10 : c[m] = 0
  BY <1>5, CarryDies
<1>7. s[n - 1] # t[n - 1] /\ \A m \in n..9 : s[m] = t[m]
  BY <1>6 DEF c
<1>8. n - 1 \in 0..9 /\ 11 - n \in 1..10 /\ 10 - (11 - n) = n - 1 /\ (11 - n) - 1 = 10 - n
  OBVIOUS
<1>9. PICK x \in Nat, y \in Nat : x = s[n - 1] /\ y = t[n - 1]
  BY <1>1, <1>2, <1>8
<1>10. x <= y /\ x # y
  BY <1>4, <1>7, <1>8, <1>9, Zenon
<1>11. x % 32 < y % 32
  <2>1. CASE n = 10
    <3>1. x % 32 = x /\ y % 32 = y
      BY <1>1, <1>2, <1>9, <2>1
    <3>. QED  BY <1>10, <3>1
  <2>2. CASE n # 10
    <3>1. n \in 1..9 /\ n \in n..9
      BY <2>2
    <3>2. x \div 32 = y \div 32
      BY <1>1, <1>2, <1>7, <1>9, <3>1, Zenon
    <3>. QED  BY <1>10, <3>2, DivGrows
  <2>. QED  BY <2>1, <2>2
<1>12. EncodeMs(a)[11 - n] < EncodeMs(b)[11 - n]
  <2>1. EncodeMs(a)[11 - n] = x % 32 /\ EncodeMs(b)[11 - n] = y % 32
    BY <1>8, <1>9, MsDigits, ZenonT(60) DEF s, t
  <2>. QED  BY <1>11, <2>1
<1>13. \A j \in 1..((11 - n) - 1) : EncodeMs(a)[j] = EncodeMs(b)[j]
  <2> SUFFICES ASSUME NEW j \in 1..((11 - n) - 1) PROVE EncodeMs(a)[j] = EncodeMs(b)[j]
    OBVIOUS
  <2>1. j \in 1..10 /\ 10 - j \in n..9
    OBVIOUS
  <2>2. s[10 - j] = t[10 - j]
    BY <1>7, <2>1, Zenon
  <2>. QED  BY <2>1, <2>2, MsDigits, ZenonT(60) DEF s, t
<1>. QED  BY <1>8, <1>12, <1>13 DEF Before

-----------------------------------------------------------------------------
(* The id as a whole: ten digits of timestamp, eight of the first five bytes,
   eight of the others.                                                     *)
High(r) == [k \in 1..5 |-> r[k]]
Low(r)  == [k \in 1..5 |-> r[k + 5]]

LEMMA TenIsSequence == \A S : \A f \in [1..10 -> S] : f \in Seq(S) /\ Len(f) = 10
<1> SUFFICES ASSUME NEW S, NEW f \in [1..10 -> S] PROVE f \in Seq(S) /\ Len(f) = 10
  OBVIOUS
<1>1. PICK n \in Nat : n = 10
  OBVIOUS
<1>2. f \in [1..n -> S]
  BY <1>1, Zenon
<1>3. f \in Seq(S) /\ Len(f) = n
  BY <1>2
<1>. QED  BY <1>1, <1>3, Zenon

LEMMA Halves ==
    ASSUME NEW r \in [1..10 -> 0..255]
    PROVE  /\ SubSeq(r, 1, 5) = High(r) /\ High(r) \in [1..5 -> 0..255]
           /\ SubSeq(r, 6, 10) = Low(r) /\ Low(r) \in [1..5 -> 0..255]
<1>1. r \in Seq(0..255) /\ Len(r) = 10
  BY TenIsSequence, Zenon
<1>2. SubSeq(r, 1, 5) = High(r)
  BY <1>1 DEF High
<1>3. SubSeq(r, 6, 10) = Low(r)
  BY <1>1 DEF Low
<1>4. High(r) \in [1..5 -> 0..255]
  BY DEF High
<1>5. Low(r) \in [1..5 -> 0..255]
  BY DEF Low
<1>. QED  BY <1>2, <1>3, <1>4, <1>5

LEMMA FiveType ==
    ASSUME NEW x \in [1..5 -> 0..255]
    PROVE  EncodeFive(x) \in Seq(0..31) /\ Len(EncodeFive(x)) = 8
<1>1. /\ x[1] \in 0..255 /\ x[2] \in 0..255 /\ x[3] \in 0..255 /\ x[4] \in 0..255 /\ x[5] \in 0..255
  OBVIOUS
<1>2. PICK y1 \in 0..255, y2 \in 0..255, y3 \in 0..255, y4 \in 0..255, y5 \in 0..255 :
        y1 = x[1] /\ y2 = x[2] /\ y3 = x[3] /\ y4 = x[4] /\ y5 = x[5]
  BY <1>1
<1>3. /\ y1 \div 8 \in 0..31 /\ (y1 % 8) * 4 + y2 \div 64 \in 0..31
      /\ (y2 % 64) \div 2 \in 0..31 /\ (y2 % 2) * 16 + y3 \div 16 \in 0..31
      /\ (y3 % 16) * 2 + y4 \div 128 \in 0..31 /\ (y4 % 128) \div 4 \in 0..31
      /\ (y4 % 4) * 8 + y5 \div 32 \in 0..31 /\ y5 % 32 \in 0..31
  OBVIOUS
<1>. QED  BY <1>2, <1>3 DEF EncodeFive

LEMMA MsType ==
    ASSUME NEW v \in Nat, v \div 2^24 < 2^24
    PROVE  EncodeMs(v) \in Seq(0..31) /\ Len(EncodeMs(v)) = 10
<1>1. \A k \in 1..10 : EncodeMs(v)[k] \in 0..31
  <2>1. \A k \in 1..10 : 10 - k \in 0..9
    OBVIOUS
  <2>2. \A n \in Nat : n % 32 \in 0..31
    OBVIOUS
  <2>. QED  BY <2>1, <2>2, MsDigits, ShiftChain
<1>2. EncodeMs(v) \in [1..10 -> 0..31]
  BY <1>1, MsDigits
<1>. QED  BY <1>2, TenIsSequence, Zenon

LEMMA EncodeParts ==
    ASSUME NEW v \in Nat, v \div 2^24 < 2^24, NEW r \in [1..10 -> 0..255]
    PROVE  /\ Encode(v, r) \in Seq(0..31) /\ Len(Encode(v, r)) = 26
           /\ \A k \in 1..10 : Encode(v, r)[k] = EncodeMs(v)[k]
           /\ \A k \in 1..8 : Encode(v, r)[k + 10] = EncodeFive(High(r))[k]
           /\ \A k \in 1..8 : Encode(v, r)[k + 18] = EncodeFive(Low(r))[k]
<1> DEFINE m == EncodeMs(v)
           h == EncodeFive(High(r))
           l == EncodeFive(Low(r))
<1>1. /\ m \in Seq(0..31) /\ Len(m) = 10
      /\ h \in Seq(0..31) /\ Len(h) = 8
      /\ l \in Seq(0..31) /\ Len(l) = 8
  BY Halves, MsType, FiveType
<1>2. Encode(v, r) = m \o h \o l
  BY Halves DEF Encode
<1> HIDE DEF m, h, l
<1>3. /\ m \o h \in Seq(0..31) /\ Len(m \o h) = 18
      /\ \A k \in 1..10 : (m \o h)[k] = m[k]
      /\ \A k \in 1..8 : (m \o h)[k + 10] = h[k]
  <2>1. /\ m \o h \in Seq(0..31) /\ Len(m \o h) = 10 + 8
        /\ \A i \in 1..(10 + 8) : (m \o h)[i] = IF i <= 10 THEN m[i] ELSE h[i - 10]
    <3>1. /\ m \o h \in Seq(0..31) /\ Len(m \o h) = Len(m) + Len(h)
          /\ \A i \in 1..(Len(m) + Len(h)) :
                (m \o h)[i] = IF i <= Len(m) THEN m[i] ELSE h[i - Len(m)]
      BY <1>1, ConcatProperties, ZenonT(60)
    <3>2. Len(m) = 10 /\ Len(h) = 8
      BY <1>1, Zenon
    <3>. QED  BY <3>1, <3>2, Zenon
  <2>2. \A k \in 1..8 : k + 10 \in 1..(10 + 8) /\ ~(k + 10 <= 10) /\ (k + 10) - 10 = k
    OBVIOUS
  <2>3. \A k \in 1..10 : k \in 1..(10 + 8) /\ k <= 10
    OBVIOUS
  <2>4. \A k \in 1..8 : (m \o h)[k + 10] = h[k]
    BY <2>1, <2>2
  <2>5. \A k \in 1..10 : (m \o h)[k] = m[k]
    BY <2>1, <2>3, Zenon
  <2>6. 10 + 8 = 18
    OBVIOUS
  <2>. QED  BY <2>1, <2>4, <2>5, <2>6, Zenon
<1>4. PICK p \in Seq(0..31) : p = m \o h
  BY <1>3
<1>5. /\ p \o l \in Seq(0..31) /\ Len(p \o l) = 26
      /\ \A k \in 1..18 : (p \o l)[k] = p[k]
      /\ \A k \in 1..8 : (p \o l)[k + 18] = l[k]
  <2>1. /\ p \o l \in Seq(0..31) /\ Len(p \o l) = 18 + 8
        /\ \A i \in 1..(18 + 8) : (p \o l)[i] = IF i <= 18 THEN p[i] ELSE l[i - 18]
    <3>1. /\ p \o l \in Seq(0..31) /\ Len(p \o l) = Len(p) + Len(l)
          /\ \A i \in 1..(Len(p) + Len(l)) :
                (p \o l)[i] = IF i <= Len(p) THEN p[i] ELSE l[i - Len(p)]
      BY <1>1, <1>4, ConcatProperties, ZenonT(60)
    <3>2. Len(p) = 18 /\ Len(l) = 8
      BY <1>1, <1>3, <1>4, Zenon
    <3>. QED  BY <3>1, <3>2, Zenon
  <2>2. \A k \in 1..8 : k + 18 \in 1..(18 + 8) /\ ~(k + 18 <= 18) /\ (k + 18) - 18 = k
    OBVIOUS
  <2>3. \A k \in 1..18 : k \in 1..(18 + 8) /\ k <= 18
    OBVIOUS
  <2>4. \A k \in 1..8 : (p \o l)[k + 18] = l[k]
    BY <2>1, <2>2
  <2>5. \A k \in 1..18 : (p \o l)[k] = p[k]
    BY <2>1, <2>3, Zenon
  <2>6. 18 + 8 = 26
    OBVIOUS
  <2>. QED  BY <2>1, <2>4, <2>5, <2>6, Zenon
<1>6. \A k \in 1..10 : (p \o l)[k] = m[k]
  <2>1. \A k \in 1..10 : k \in 1..18
    OBVIOUS
  <2>. QED  BY <1>3, <1>4, <1>5, <2>1, Zenon
<1>7. \A k \in 1..8 : (p \o l)[k + 10] = h[k]
  <2>1. \A k \in 1..8 : k + 10 \in 1..18
    OBVIOUS
  <2>. QED  BY <1>3, <1>4, <1>5, <2>1, Zenon
<1>8. Encode(v, r) = p \o l
  BY <1>2, <1>4
<1>. QED  BY <1>5, <1>6, <1>7, <1>8, Zenon DEF m, h, l

LEMMA EncodeDomain ==
    ASSUME NEW v \in Nat, v \div 2^24 < 2^24, NEW r \in [1..10 -> 0..255]
    PROVE  DOMAIN Encode(v, r) = 1..26
<1>1. Encode(v, r) \in Seq(0..31) /\ Len(Encode(v, r)) = 26
  BY EncodeParts, ZenonT(60)
<1>. QED  BY <1>1, LenProperties

(* A later millisecond, whatever the seed.                                  *)
LEMMA EncodeLater ==
    ASSUME NEW a \in Nat, a \div 2^24 < 2^24, NEW q \in [1..10 -> 0..255],
           NEW b \in Nat, b \div 2^24 < 2^24, NEW r \in [1..10 -> 0..255], a < b
    PROVE  Less(Encode(a, q), Encode(b, r))
<1>1. PICK k \in 1..10 : EncodeMs(a)[k] < EncodeMs(b)[k] /\ \A j \in 1..(k - 1) : EncodeMs(a)[j] = EncodeMs(b)[j]
  BY MsGrows DEF Before
<1>2. k \in DOMAIN Encode(b, r)
  BY EncodeDomain
<1>3. \A j \in 1..(k - 1) : j \in 1..10
  OBVIOUS
<1>4. \A j \in 1..10 : Encode(a, q)[j] = EncodeMs(a)[j] /\ Encode(b, r)[j] = EncodeMs(b)[j]
  <2>1. \A j \in 1..10 : Encode(a, q)[j] = EncodeMs(a)[j]
    BY EncodeParts, Zenon
  <2>2. \A j \in 1..10 : Encode(b, r)[j] = EncodeMs(b)[j]
    BY EncodeParts, Zenon
  <2>. QED  BY <2>1, <2>2, Zenon
<1>. QED  BY <1>1, <1>2, <1>3, <1>4, ZenonT(60) DEF Less

(* The same millisecond and later bytes.                                    *)
LEMMA EncodeGrown ==
    ASSUME NEW a \in Nat, a \div 2^24 < 2^24, NEW q \in [1..10 -> 0..255],
           NEW r \in [1..10 -> 0..255], Before(q, r, 10)
    PROVE  Less(Encode(a, q), Encode(a, r))
<1>1. PICK k \in 1..10 : q[k] < r[k] /\ \A j \in 1..(k - 1) : q[j] = r[j]
  BY DEF Before
<1> DEFINE x == Encode(a, q)
           y == Encode(a, r)
<1>2. /\ \A j \in 1..10 : x[j] = EncodeMs(a)[j]
      /\ \A j \in 1..8 : x[j + 10] = EncodeFive(High(q))[j]
      /\ \A j \in 1..8 : x[j + 18] = EncodeFive(Low(q))[j]
  BY EncodeParts, ZenonT(60)
<1>3. /\ \A j \in 1..10 : y[j] = EncodeMs(a)[j]
      /\ \A j \in 1..8 : y[j + 10] = EncodeFive(High(r))[j]
      /\ \A j \in 1..8 : y[j + 18] = EncodeFive(Low(r))[j]
  BY EncodeParts, ZenonT(60)
<1>6. DOMAIN y = 1..26
  BY EncodeDomain
<1> HIDE DEF x, y
<1>4. CASE k <= 5
  <2>1. k \in 1..5 /\ \A j \in 1..(k - 1) : j \in 1..5
    BY <1>4
  <2>2. Before(High(q), High(r), 5)
    BY <1>1, <2>1 DEF Before, High
  <2>3. Before(EncodeFive(High(q)), EncodeFive(High(r)), 8)
    BY <2>2, Halves, FiveGrows
  <2>4. PICK d \in 1..8 : /\ EncodeFive(High(q))[d] < EncodeFive(High(r))[d]
                         /\ \A j \in 1..(d - 1) : EncodeFive(High(q))[j] = EncodeFive(High(r))[j]
    BY <2>3 DEF Before
  <2>5. x[d + 10] < y[d + 10]
    BY <1>2, <1>3, <2>4, Zenon
  <2>6. ASSUME NEW j \in 1..((d + 10) - 1) PROVE x[j] = y[j]
    <3>1. CASE j <= 10
      <4>1. j \in 1..10
        BY <3>1
      <4>. QED  BY <1>2, <1>3, <4>1, Zenon
    <3>2. CASE j > 10
      <4>1. j - 10 \in 1..(d - 1) /\ j - 10 \in 1..8 /\ (j - 10) + 10 = j
        BY <3>2
      <4>2. EncodeFive(High(q))[j - 10] = EncodeFive(High(r))[j - 10]
        BY <2>4, <4>1
      <4>3. x[(j - 10) + 10] = y[(j - 10) + 10]
        BY <1>2, <1>3, <4>1, <4>2, Zenon
      <4>. QED  BY <4>1, <4>3, Zenon
    <3>. QED  BY <3>1, <3>2
  <2>7. d + 10 \in DOMAIN y
    BY <1>6
  <2>. QED  BY <2>5, <2>6, <2>7, Zenon DEF Less, x, y
<1>5. CASE k > 5
  <2>1. k - 5 \in 1..5 /\ (k - 5) + 5 = k
    BY <1>5
  <2>2. High(q) = High(r)
    BY <1>1, <1>5 DEF High
  <2>3. Before(Low(q), Low(r), 5)
    <3>1. Low(q)[k - 5] < Low(r)[k - 5]
      BY <1>1, <2>1 DEF Low
    <3>2. ASSUME NEW j \in 1..((k - 5) - 1) PROVE Low(q)[j] = Low(r)[j]
      <4>1. j \in 1..5 /\ j + 5 \in 1..(k - 1)
        BY <1>5
      <4>. QED  BY <1>1, <4>1 DEF Low
    <3>. QED  BY <2>1, <3>1, <3>2 DEF Before
  <2>4. Before(EncodeFive(Low(q)), EncodeFive(Low(r)), 8)
    BY <2>3, Halves, FiveGrows
  <2>5. PICK d \in 1..8 : /\ EncodeFive(Low(q))[d] < EncodeFive(Low(r))[d]
                         /\ \A j \in 1..(d - 1) : EncodeFive(Low(q))[j] = EncodeFive(Low(r))[j]
    BY <2>4 DEF Before
  <2>6. x[d + 18] < y[d + 18]
    BY <1>2, <1>3, <2>5, Zenon
  <2>7. ASSUME NEW j \in 1..((d + 18) - 1) PROVE x[j] = y[j]
    <3>1. CASE j <= 10
      <4>1. j \in 1..10
        BY <3>1
      <4>. QED  BY <1>2, <1>3, <4>1, Zenon
    <3>2. CASE j \in 11..18
      <4>1. j - 10 \in 1..8 /\ (j - 10) + 10 = j
        BY <3>2
      <4>2. EncodeFive(High(q))[j - 10] = EncodeFive(High(r))[j - 10]
        BY <2>2, Zenon
      <4>3. x[(j - 10) + 10] = y[(j - 10) + 10]
        BY <1>2, <1>3, <4>1, <4>2, Zenon
      <4>. QED  BY <4>1, <4>3, Zenon
    <3>3. CASE j > 18
      <4>1. j - 18 \in 1..(d - 1) /\ j - 18 \in 1..8 /\ (j - 18) + 18 = j
        BY <3>3
      <4>2. EncodeFive(Low(q))[j - 18] = EncodeFive(Low(r))[j - 18]
        BY <2>5, <4>1
      <4>3. x[(j - 18) + 18] = y[(j - 18) + 18]
        BY <1>2, <1>3, <4>1, <4>2, Zenon
      <4>. QED  BY <4>1, <4>3, Zenon
    <3>. QED  BY <3>1, <3>2, <3>3
  <2>8. d + 18 \in DOMAIN y
    BY <1>6
  <2>. QED  BY <2>6, <2>7, <2>8, Zenon DEF Less, x, y
<1>. QED  BY <1>4, <1>5

-----------------------------------------------------------------------------
(* The generator's state is within its types, and the id is the encoding of
   that state.                                                              *)
IdInv ==
    /\ lastMs \in Nat /\ lastMs \div 2^24 < 2^24
    /\ lastRand \in [1..10 -> 0..255]
    /\ id # <<>> => id = Encode(lastMs, lastRand)

LEMMA IdInvInit == Init => IdInv
BY DEF Init, IdInv, Zero

LEMMA IssueKeeps ==
    ASSUME NEW ms \in Nat, ms \div 2^24 < 2^24, NEW r \in [1..10 -> 0..255], NEW how,
           Issue(ms, r, how)
    PROVE  IdInv'
BY DEF Issue, IdInv

LEMMA IdInvStep == IdInv /\ [Next]_vars => IdInv'
<1> SUFFICES ASSUME IdInv, [Next]_vars PROVE IdInv'
  OBVIOUS
<1>1. lastMs \in Nat /\ lastMs \div 2^24 < 2^24 /\ lastRand \in [1..10 -> 0..255]
  BY DEF IdInv
<1>2. ASSUME NEW now \in Times, NEW r \in Seeds, NewSeeded(now, r) PROVE IdInv'
  <2>1. now \in Nat /\ now \div 2^24 < 2^24 /\ r \in [1..10 -> 0..255]
    BY TimesAssumption, SeedsAssumption
  <2>. QED  BY <1>2, <2>1, IssueKeeps DEF NewSeeded
<1>3. ASSUME NEW now \in Times, NEW draw \in Draws, NewStepped(now, draw) PROVE IdInv'
  <2>1. draw \in Nat
    BY DrawsAssumption
  <2>2. ~Overflows(lastRand, draw) /\ Issue(lastMs, Added(lastRand, draw), "step")
    BY <1>3 DEF NewStepped
  <2>3. Added(lastRand, draw) \in [1..10 -> 0..255]
    BY <1>1, <2>1, <2>2, AddedGrows
  <2>. QED  BY <1>1, <2>2, <2>3, IssueKeeps
<1>4. ASSUME NEW now \in Times, NEW draw \in Draws, NEW r \in Seeds, NewReseeded(now, draw, r)
      PROVE  IdInv'
  <2>1. r \in [1..10 -> 0..255]
    BY SeedsAssumption
  <2>. QED  BY <1>1, <1>4, <2>1, IssueKeeps DEF NewReseeded
<1>5. CASE UNCHANGED vars
  BY <1>5 DEF vars, IdInv
<1>. QED  BY <1>2, <1>3, <1>4, <1>5 DEF Next

LEMMA IdInvAlways == Spec => []IdInv
BY IdInvInit, IdInvStep, PTL DEF Spec

(* Every id sorts after the one before it, for every sequence of clock
   readings, every seed and every draw, unless the 80 bits overflow.        *)
THEOREM IdsAlwaysIncrease == Spec => IdsIncrease
<1>1. ASSUME IdInv, [Next]_vars PROVE [way' # "reseed" => Less(id, id')]_vars
  <2> SUFFICES ASSUME Next, way' # "reseed" PROVE Less(id, id')
    BY <1>1
  <2>0. lastMs \in Nat /\ lastMs \div 2^24 < 2^24 /\ lastRand \in [1..10 -> 0..255]
    BY <1>1 DEF IdInv
  <2>1. ASSUME NEW ms \in Nat, ms \div 2^24 < 2^24, NEW r \in [1..10 -> 0..255], NEW how,
               Issue(ms, r, how), id = <<>>
        PROVE  Less(id, id')
    <3>1. id' = Encode(ms, r) /\ DOMAIN Encode(ms, r) = 1..26
      BY <2>1, EncodeDomain DEF Issue
    <3>2. 1 \in DOMAIN id' /\ 1 \notin DOMAIN id /\ 1..(1 - 1) = {}
      BY <2>1, <3>1
    <3>. QED  BY <3>2 DEF Less
  <2>2. ASSUME NEW now \in Times, NEW r \in Seeds, NewSeeded(now, r) PROVE Less(id, id')
    <3>1. now \in Nat /\ now \div 2^24 < 2^24 /\ r \in [1..10 -> 0..255]
      BY TimesAssumption, SeedsAssumption
    <3>2. lastMs < now /\ Issue(now, r, "seed") /\ id' = Encode(now, r)
      BY <2>0, <2>2, <3>1 DEF NewSeeded, Later, Issue
    <3>3. CASE id # <<>>
      BY <1>1, <2>0, <3>1, <3>2, <3>3, EncodeLater, ZenonT(60) DEF IdInv
    <3>. QED  BY <2>1, <3>1, <3>2, <3>3
  <2>3. ASSUME NEW now \in Times, NEW draw \in Draws, NewStepped(now, draw) PROVE Less(id, id')
    <3>1. draw \in Nat
      BY DrawsAssumption
    <3>2. /\ ~Overflows(lastRand, draw) /\ Issue(lastMs, Added(lastRand, draw), "step")
          /\ id' = Encode(lastMs, Added(lastRand, draw))
      BY <2>3 DEF NewStepped, Issue
    <3>3. Added(lastRand, draw) \in [1..10 -> 0..255] /\ Before(lastRand, Added(lastRand, draw), 10)
      BY <2>0, <3>1, <3>2, AddedGrows
    <3>4. CASE id # <<>>
      BY <1>1, <2>0, <3>2, <3>3, <3>4, EncodeGrown DEF IdInv
    <3>. QED  BY <2>0, <2>1, <3>2, <3>3, <3>4
  <2>4. ASSUME NEW now \in Times, NEW draw \in Draws, NEW r \in Seeds, NewReseeded(now, draw, r)
        PROVE  FALSE
    BY <2>4 DEF NewReseeded, Issue
  <2>. QED  BY <2>2, <2>3, <2>4 DEF Next
<1>. QED  BY <1>1, IdInvAlways, PTL DEF Spec, IdsIncrease

-----------------------------------------------------------------------------
(* The bits of each of the eight digits that five bytes y1 to y5 give.      *)
LEMMA DigitBits1 ==
    ASSUME NEW y1 \in 0..255
    PROVE  /\ Shift(y1 \div 8, 4) % 2 = Shift(y1, 7) % 2
           /\ Shift(y1 \div 8, 3) % 2 = Shift(y1, 6) % 2
           /\ Shift(y1 \div 8, 2) % 2 = Shift(y1, 5) % 2
           /\ Shift(y1 \div 8, 1) % 2 = Shift(y1, 4) % 2
           /\ Shift(y1 \div 8, 0) % 2 = Shift(y1, 3) % 2
<1>1. Shift(y1 \div 8, 4) % 2 = Shift(y1, 7) % 2
  BY DEF Shift
<1>2. Shift(y1 \div 8, 3) % 2 = Shift(y1, 6) % 2
  BY DEF Shift
<1>3. Shift(y1 \div 8, 2) % 2 = Shift(y1, 5) % 2
  BY DEF Shift
<1>4. Shift(y1 \div 8, 1) % 2 = Shift(y1, 4) % 2
  BY DEF Shift
<1>5. Shift(y1 \div 8, 0) % 2 = Shift(y1, 3) % 2
  BY DEF Shift
<1>. QED  BY <1>1, <1>2, <1>3, <1>4, <1>5

LEMMA DigitBits2 ==
    ASSUME NEW y1 \in 0..255, NEW y2 \in 0..255
    PROVE  /\ Shift((y1 % 8) * 4 + y2 \div 64, 4) % 2 = Shift(y1, 2) % 2
           /\ Shift((y1 % 8) * 4 + y2 \div 64, 3) % 2 = Shift(y1, 1) % 2
           /\ Shift((y1 % 8) * 4 + y2 \div 64, 2) % 2 = Shift(y1, 0) % 2
           /\ Shift((y1 % 8) * 4 + y2 \div 64, 1) % 2 = Shift(y2, 7) % 2
           /\ Shift((y1 % 8) * 4 + y2 \div 64, 0) % 2 = Shift(y2, 6) % 2
<1>1. Shift((y1 % 8) * 4 + y2 \div 64, 4) % 2 = Shift(y1, 2) % 2
  BY DEF Shift
<1>2. Shift((y1 % 8) * 4 + y2 \div 64, 3) % 2 = Shift(y1, 1) % 2
  BY DEF Shift
<1>3. Shift((y1 % 8) * 4 + y2 \div 64, 2) % 2 = Shift(y1, 0) % 2
  BY DEF Shift
<1>4. Shift((y1 % 8) * 4 + y2 \div 64, 1) % 2 = Shift(y2, 7) % 2
  BY DEF Shift
<1>5. Shift((y1 % 8) * 4 + y2 \div 64, 0) % 2 = Shift(y2, 6) % 2
  BY DEF Shift
<1>. QED  BY <1>1, <1>2, <1>3, <1>4, <1>5

LEMMA DigitBits3 ==
    ASSUME NEW y2 \in 0..255
    PROVE  /\ Shift((y2 % 64) \div 2, 4) % 2 = Shift(y2, 5) % 2
           /\ Shift((y2 % 64) \div 2, 3) % 2 = Shift(y2, 4) % 2
           /\ Shift((y2 % 64) \div 2, 2) % 2 = Shift(y2, 3) % 2
           /\ Shift((y2 % 64) \div 2, 1) % 2 = Shift(y2, 2) % 2
           /\ Shift((y2 % 64) \div 2, 0) % 2 = Shift(y2, 1) % 2
<1>1. Shift((y2 % 64) \div 2, 4) % 2 = Shift(y2, 5) % 2
  BY DEF Shift
<1>2. Shift((y2 % 64) \div 2, 3) % 2 = Shift(y2, 4) % 2
  BY DEF Shift
<1>3. Shift((y2 % 64) \div 2, 2) % 2 = Shift(y2, 3) % 2
  BY DEF Shift
<1>4. Shift((y2 % 64) \div 2, 1) % 2 = Shift(y2, 2) % 2
  BY DEF Shift
<1>5. Shift((y2 % 64) \div 2, 0) % 2 = Shift(y2, 1) % 2
  BY DEF Shift
<1>. QED  BY <1>1, <1>2, <1>3, <1>4, <1>5

LEMMA DigitBits4 ==
    ASSUME NEW y2 \in 0..255, NEW y3 \in 0..255
    PROVE  /\ Shift((y2 % 2) * 16 + y3 \div 16, 4) % 2 = Shift(y2, 0) % 2
           /\ Shift((y2 % 2) * 16 + y3 \div 16, 3) % 2 = Shift(y3, 7) % 2
           /\ Shift((y2 % 2) * 16 + y3 \div 16, 2) % 2 = Shift(y3, 6) % 2
           /\ Shift((y2 % 2) * 16 + y3 \div 16, 1) % 2 = Shift(y3, 5) % 2
           /\ Shift((y2 % 2) * 16 + y3 \div 16, 0) % 2 = Shift(y3, 4) % 2
<1>1. Shift((y2 % 2) * 16 + y3 \div 16, 4) % 2 = Shift(y2, 0) % 2
  BY DEF Shift
<1>2. Shift((y2 % 2) * 16 + y3 \div 16, 3) % 2 = Shift(y3, 7) % 2
  BY DEF Shift
<1>3. Shift((y2 % 2) * 16 + y3 \div 16, 2) % 2 = Shift(y3, 6) % 2
  BY DEF Shift
<1>4. Shift((y2 % 2) * 16 + y3 \div 16, 1) % 2 = Shift(y3, 5) % 2
  BY DEF Shift
<1>5. Shift((y2 % 2) * 16 + y3 \div 16, 0) % 2 = Shift(y3, 4) % 2
  BY DEF Shift
<1>. QED  BY <1>1, <1>2, <1>3, <1>4, <1>5

LEMMA DigitBits5 ==
    ASSUME NEW y3 \in 0..255, NEW y4 \in 0..255
    PROVE  /\ Shift((y3 % 16) * 2 + y4 \div 128, 4) % 2 = Shift(y3, 3) % 2
           /\ Shift((y3 % 16) * 2 + y4 \div 128, 3) % 2 = Shift(y3, 2) % 2
           /\ Shift((y3 % 16) * 2 + y4 \div 128, 2) % 2 = Shift(y3, 1) % 2
           /\ Shift((y3 % 16) * 2 + y4 \div 128, 1) % 2 = Shift(y3, 0) % 2
           /\ Shift((y3 % 16) * 2 + y4 \div 128, 0) % 2 = Shift(y4, 7) % 2
<1>1. Shift((y3 % 16) * 2 + y4 \div 128, 4) % 2 = Shift(y3, 3) % 2
  BY DEF Shift
<1>2. Shift((y3 % 16) * 2 + y4 \div 128, 3) % 2 = Shift(y3, 2) % 2
  BY DEF Shift
<1>3. Shift((y3 % 16) * 2 + y4 \div 128, 2) % 2 = Shift(y3, 1) % 2
  BY DEF Shift
<1>4. Shift((y3 % 16) * 2 + y4 \div 128, 1) % 2 = Shift(y3, 0) % 2
  BY DEF Shift
<1>5. Shift((y3 % 16) * 2 + y4 \div 128, 0) % 2 = Shift(y4, 7) % 2
  BY DEF Shift
<1>. QED  BY <1>1, <1>2, <1>3, <1>4, <1>5

LEMMA DigitBits6 ==
    ASSUME NEW y4 \in 0..255
    PROVE  /\ Shift((y4 % 128) \div 4, 4) % 2 = Shift(y4, 6) % 2
           /\ Shift((y4 % 128) \div 4, 3) % 2 = Shift(y4, 5) % 2
           /\ Shift((y4 % 128) \div 4, 2) % 2 = Shift(y4, 4) % 2
           /\ Shift((y4 % 128) \div 4, 1) % 2 = Shift(y4, 3) % 2
           /\ Shift((y4 % 128) \div 4, 0) % 2 = Shift(y4, 2) % 2
<1>1. Shift((y4 % 128) \div 4, 4) % 2 = Shift(y4, 6) % 2
  BY DEF Shift
<1>2. Shift((y4 % 128) \div 4, 3) % 2 = Shift(y4, 5) % 2
  BY DEF Shift
<1>3. Shift((y4 % 128) \div 4, 2) % 2 = Shift(y4, 4) % 2
  BY DEF Shift
<1>4. Shift((y4 % 128) \div 4, 1) % 2 = Shift(y4, 3) % 2
  BY DEF Shift
<1>5. Shift((y4 % 128) \div 4, 0) % 2 = Shift(y4, 2) % 2
  BY DEF Shift
<1>. QED  BY <1>1, <1>2, <1>3, <1>4, <1>5

LEMMA DigitBits7 ==
    ASSUME NEW y4 \in 0..255, NEW y5 \in 0..255
    PROVE  /\ Shift((y4 % 4) * 8 + y5 \div 32, 4) % 2 = Shift(y4, 1) % 2
           /\ Shift((y4 % 4) * 8 + y5 \div 32, 3) % 2 = Shift(y4, 0) % 2
           /\ Shift((y4 % 4) * 8 + y5 \div 32, 2) % 2 = Shift(y5, 7) % 2
           /\ Shift((y4 % 4) * 8 + y5 \div 32, 1) % 2 = Shift(y5, 6) % 2
           /\ Shift((y4 % 4) * 8 + y5 \div 32, 0) % 2 = Shift(y5, 5) % 2
<1>1. Shift((y4 % 4) * 8 + y5 \div 32, 4) % 2 = Shift(y4, 1) % 2
  BY DEF Shift
<1>2. Shift((y4 % 4) * 8 + y5 \div 32, 3) % 2 = Shift(y4, 0) % 2
  BY DEF Shift
<1>3. Shift((y4 % 4) * 8 + y5 \div 32, 2) % 2 = Shift(y5, 7) % 2
  BY DEF Shift
<1>4. Shift((y4 % 4) * 8 + y5 \div 32, 1) % 2 = Shift(y5, 6) % 2
  BY DEF Shift
<1>5. Shift((y4 % 4) * 8 + y5 \div 32, 0) % 2 = Shift(y5, 5) % 2
  BY DEF Shift
<1>. QED  BY <1>1, <1>2, <1>3, <1>4, <1>5

LEMMA DigitBits8 ==
    ASSUME NEW y5 \in 0..255
    PROVE  /\ Shift(y5 % 32, 4) % 2 = Shift(y5, 4) % 2
           /\ Shift(y5 % 32, 3) % 2 = Shift(y5, 3) % 2
           /\ Shift(y5 % 32, 2) % 2 = Shift(y5, 2) % 2
           /\ Shift(y5 % 32, 1) % 2 = Shift(y5, 1) % 2
           /\ Shift(y5 % 32, 0) % 2 = Shift(y5, 0) % 2
<1>1. Shift(y5 % 32, 4) % 2 = Shift(y5, 4) % 2
  BY DEF Shift
<1>2. Shift(y5 % 32, 3) % 2 = Shift(y5, 3) % 2
  BY DEF Shift
<1>3. Shift(y5 % 32, 2) % 2 = Shift(y5, 2) % 2
  BY DEF Shift
<1>4. Shift(y5 % 32, 1) % 2 = Shift(y5, 1) % 2
  BY DEF Shift
<1>5. Shift(y5 % 32, 0) % 2 = Shift(y5, 0) % 2
  BY DEF Shift
<1>. QED  BY <1>1, <1>2, <1>3, <1>4, <1>5

(* Bit m of the 40 of five bytes is bit m of the eight digits.              *)
LEMMA FiveBits ==
    ASSUME NEW x \in [1..5 -> 0..255], NEW m \in 0..39
    PROVE  Shift(EncodeFive(x)[m \div 5 + 1], 4 - (m % 5)) % 2 = Shift(x[m \div 8 + 1], 7 - (m % 8)) % 2
<1> DEFINE e == EncodeFive(x)
<1>1. /\ x[1] \in 0..255 /\ x[2] \in 0..255 /\ x[3] \in 0..255 /\ x[4] \in 0..255 /\ x[5] \in 0..255
  OBVIOUS
<1>2. /\ e[1] = x[1] \div 8
      /\ e[2] = (x[1] % 8) * 4 + x[2] \div 64
      /\ e[3] = (x[2] % 64) \div 2
      /\ e[4] = (x[2] % 2) * 16 + x[3] \div 16
      /\ e[5] = (x[3] % 16) * 2 + x[4] \div 128
      /\ e[6] = (x[4] % 128) \div 4
      /\ e[7] = (x[4] % 4) * 8 + x[5] \div 32
      /\ e[8] = x[5] % 32
  BY DEF EncodeFive
<1> HIDE DEF e
<1>11. /\ Shift(e[1], 4) % 2 = Shift(x[1], 7) % 2
       /\ Shift(e[1], 3) % 2 = Shift(x[1], 6) % 2
       /\ Shift(e[1], 2) % 2 = Shift(x[1], 5) % 2
       /\ Shift(e[1], 1) % 2 = Shift(x[1], 4) % 2
       /\ Shift(e[1], 0) % 2 = Shift(x[1], 3) % 2
  <2>0. x[1] \in 0..255
    BY <1>1
  <2>1. /\ Shift(x[1] \div 8, 4) % 2 = Shift(x[1], 7) % 2
        /\ Shift(x[1] \div 8, 3) % 2 = Shift(x[1], 6) % 2
        /\ Shift(x[1] \div 8, 2) % 2 = Shift(x[1], 5) % 2
        /\ Shift(x[1] \div 8, 1) % 2 = Shift(x[1], 4) % 2
        /\ Shift(x[1] \div 8, 0) % 2 = Shift(x[1], 3) % 2
    BY <2>0, DigitBits1, Zenon
  <2>. QED  BY <1>2, <2>1, Zenon
<1>12. /\ Shift(e[2], 4) % 2 = Shift(x[1], 2) % 2
       /\ Shift(e[2], 3) % 2 = Shift(x[1], 1) % 2
       /\ Shift(e[2], 2) % 2 = Shift(x[1], 0) % 2
       /\ Shift(e[2], 1) % 2 = Shift(x[2], 7) % 2
       /\ Shift(e[2], 0) % 2 = Shift(x[2], 6) % 2
  <2>0. x[1] \in 0..255 /\ x[2] \in 0..255
    BY <1>1
  <2>1. /\ Shift((x[1] % 8) * 4 + x[2] \div 64, 4) % 2 = Shift(x[1], 2) % 2
        /\ Shift((x[1] % 8) * 4 + x[2] \div 64, 3) % 2 = Shift(x[1], 1) % 2
        /\ Shift((x[1] % 8) * 4 + x[2] \div 64, 2) % 2 = Shift(x[1], 0) % 2
        /\ Shift((x[1] % 8) * 4 + x[2] \div 64, 1) % 2 = Shift(x[2], 7) % 2
        /\ Shift((x[1] % 8) * 4 + x[2] \div 64, 0) % 2 = Shift(x[2], 6) % 2
    BY <2>0, DigitBits2, Zenon
  <2>. QED  BY <1>2, <2>1, Zenon
<1>13. /\ Shift(e[3], 4) % 2 = Shift(x[2], 5) % 2
       /\ Shift(e[3], 3) % 2 = Shift(x[2], 4) % 2
       /\ Shift(e[3], 2) % 2 = Shift(x[2], 3) % 2
       /\ Shift(e[3], 1) % 2 = Shift(x[2], 2) % 2
       /\ Shift(e[3], 0) % 2 = Shift(x[2], 1) % 2
  <2>0. x[2] \in 0..255
    BY <1>1
  <2>1. /\ Shift((x[2] % 64) \div 2, 4) % 2 = Shift(x[2], 5) % 2
        /\ Shift((x[2] % 64) \div 2, 3) % 2 = Shift(x[2], 4) % 2
        /\ Shift((x[2] % 64) \div 2, 2) % 2 = Shift(x[2], 3) % 2
        /\ Shift((x[2] % 64) \div 2, 1) % 2 = Shift(x[2], 2) % 2
        /\ Shift((x[2] % 64) \div 2, 0) % 2 = Shift(x[2], 1) % 2
    BY <2>0, DigitBits3, Zenon
  <2>. QED  BY <1>2, <2>1, Zenon
<1>14. /\ Shift(e[4], 4) % 2 = Shift(x[2], 0) % 2
       /\ Shift(e[4], 3) % 2 = Shift(x[3], 7) % 2
       /\ Shift(e[4], 2) % 2 = Shift(x[3], 6) % 2
       /\ Shift(e[4], 1) % 2 = Shift(x[3], 5) % 2
       /\ Shift(e[4], 0) % 2 = Shift(x[3], 4) % 2
  <2>0. x[2] \in 0..255 /\ x[3] \in 0..255
    BY <1>1
  <2>1. /\ Shift((x[2] % 2) * 16 + x[3] \div 16, 4) % 2 = Shift(x[2], 0) % 2
        /\ Shift((x[2] % 2) * 16 + x[3] \div 16, 3) % 2 = Shift(x[3], 7) % 2
        /\ Shift((x[2] % 2) * 16 + x[3] \div 16, 2) % 2 = Shift(x[3], 6) % 2
        /\ Shift((x[2] % 2) * 16 + x[3] \div 16, 1) % 2 = Shift(x[3], 5) % 2
        /\ Shift((x[2] % 2) * 16 + x[3] \div 16, 0) % 2 = Shift(x[3], 4) % 2
    BY <2>0, DigitBits4, Zenon
  <2>. QED  BY <1>2, <2>1, Zenon
<1>15. /\ Shift(e[5], 4) % 2 = Shift(x[3], 3) % 2
       /\ Shift(e[5], 3) % 2 = Shift(x[3], 2) % 2
       /\ Shift(e[5], 2) % 2 = Shift(x[3], 1) % 2
       /\ Shift(e[5], 1) % 2 = Shift(x[3], 0) % 2
       /\ Shift(e[5], 0) % 2 = Shift(x[4], 7) % 2
  <2>0. x[3] \in 0..255 /\ x[4] \in 0..255
    BY <1>1
  <2>1. /\ Shift((x[3] % 16) * 2 + x[4] \div 128, 4) % 2 = Shift(x[3], 3) % 2
        /\ Shift((x[3] % 16) * 2 + x[4] \div 128, 3) % 2 = Shift(x[3], 2) % 2
        /\ Shift((x[3] % 16) * 2 + x[4] \div 128, 2) % 2 = Shift(x[3], 1) % 2
        /\ Shift((x[3] % 16) * 2 + x[4] \div 128, 1) % 2 = Shift(x[3], 0) % 2
        /\ Shift((x[3] % 16) * 2 + x[4] \div 128, 0) % 2 = Shift(x[4], 7) % 2
    BY <2>0, DigitBits5, ZenonT(60)
  <2>. QED  BY <1>2, <2>1, Zenon
<1>16. /\ Shift(e[6], 4) % 2 = Shift(x[4], 6) % 2
       /\ Shift(e[6], 3) % 2 = Shift(x[4], 5) % 2
       /\ Shift(e[6], 2) % 2 = Shift(x[4], 4) % 2
       /\ Shift(e[6], 1) % 2 = Shift(x[4], 3) % 2
       /\ Shift(e[6], 0) % 2 = Shift(x[4], 2) % 2
  <2>0. x[4] \in 0..255
    BY <1>1
  <2>1. /\ Shift((x[4] % 128) \div 4, 4) % 2 = Shift(x[4], 6) % 2
        /\ Shift((x[4] % 128) \div 4, 3) % 2 = Shift(x[4], 5) % 2
        /\ Shift((x[4] % 128) \div 4, 2) % 2 = Shift(x[4], 4) % 2
        /\ Shift((x[4] % 128) \div 4, 1) % 2 = Shift(x[4], 3) % 2
        /\ Shift((x[4] % 128) \div 4, 0) % 2 = Shift(x[4], 2) % 2
    BY <2>0, DigitBits6, Zenon
  <2>. QED  BY <1>2, <2>1, Zenon
<1>17. /\ Shift(e[7], 4) % 2 = Shift(x[4], 1) % 2
       /\ Shift(e[7], 3) % 2 = Shift(x[4], 0) % 2
       /\ Shift(e[7], 2) % 2 = Shift(x[5], 7) % 2
       /\ Shift(e[7], 1) % 2 = Shift(x[5], 6) % 2
       /\ Shift(e[7], 0) % 2 = Shift(x[5], 5) % 2
  <2>0. x[4] \in 0..255 /\ x[5] \in 0..255
    BY <1>1
  <2>1. /\ Shift((x[4] % 4) * 8 + x[5] \div 32, 4) % 2 = Shift(x[4], 1) % 2
        /\ Shift((x[4] % 4) * 8 + x[5] \div 32, 3) % 2 = Shift(x[4], 0) % 2
        /\ Shift((x[4] % 4) * 8 + x[5] \div 32, 2) % 2 = Shift(x[5], 7) % 2
        /\ Shift((x[4] % 4) * 8 + x[5] \div 32, 1) % 2 = Shift(x[5], 6) % 2
        /\ Shift((x[4] % 4) * 8 + x[5] \div 32, 0) % 2 = Shift(x[5], 5) % 2
    BY <2>0, DigitBits7, Zenon
  <2>. QED  BY <1>2, <2>1, Zenon
<1>18. /\ Shift(e[8], 4) % 2 = Shift(x[5], 4) % 2
       /\ Shift(e[8], 3) % 2 = Shift(x[5], 3) % 2
       /\ Shift(e[8], 2) % 2 = Shift(x[5], 2) % 2
       /\ Shift(e[8], 1) % 2 = Shift(x[5], 1) % 2
       /\ Shift(e[8], 0) % 2 = Shift(x[5], 0) % 2
  <2>0. x[5] \in 0..255
    BY <1>1
  <2>1. /\ Shift(x[5] % 32, 4) % 2 = Shift(x[5], 4) % 2
        /\ Shift(x[5] % 32, 3) % 2 = Shift(x[5], 3) % 2
        /\ Shift(x[5] % 32, 2) % 2 = Shift(x[5], 2) % 2
        /\ Shift(x[5] % 32, 1) % 2 = Shift(x[5], 1) % 2
        /\ Shift(x[5] % 32, 0) % 2 = Shift(x[5], 0) % 2
    BY <2>0, DigitBits8, Zenon
  <2>. QED  BY <1>2, <2>1, Zenon
<1>21. CASE m \in 0..4
  <2>1. CASE m = 0
    <3>1. m \div 5 + 1 = 1 /\ 4 - (m % 5) = 4 /\ m \div 8 + 1 = 1 /\ 7 - (m % 8) = 7
      BY <2>1
    <3>. QED  BY <1>11, <3>1, Zenon DEF e
  <2>2. CASE m = 1
    <3>1. m \div 5 + 1 = 1 /\ 4 - (m % 5) = 3 /\ m \div 8 + 1 = 1 /\ 7 - (m % 8) = 6
      BY <2>2
    <3>. QED  BY <1>11, <3>1, Zenon DEF e
  <2>3. CASE m = 2
    <3>1. m \div 5 + 1 = 1 /\ 4 - (m % 5) = 2 /\ m \div 8 + 1 = 1 /\ 7 - (m % 8) = 5
      BY <2>3
    <3>. QED  BY <1>11, <3>1, Zenon DEF e
  <2>4. CASE m = 3
    <3>1. m \div 5 + 1 = 1 /\ 4 - (m % 5) = 1 /\ m \div 8 + 1 = 1 /\ 7 - (m % 8) = 4
      BY <2>4
    <3>. QED  BY <1>11, <3>1, Zenon DEF e
  <2>5. CASE m = 4
    <3>1. m \div 5 + 1 = 1 /\ 4 - (m % 5) = 0 /\ m \div 8 + 1 = 1 /\ 7 - (m % 8) = 3
      BY <2>5
    <3>. QED  BY <1>11, <3>1, Zenon DEF e
  <2>. QED  BY <1>21, <2>1, <2>2, <2>3, <2>4, <2>5
<1>22. CASE m \in 5..9
  <2>1. CASE m = 5
    <3>1. m \div 5 + 1 = 2 /\ 4 - (m % 5) = 4 /\ m \div 8 + 1 = 1 /\ 7 - (m % 8) = 2
      BY <2>1
    <3>. QED  BY <1>12, <3>1, Zenon DEF e
  <2>2. CASE m = 6
    <3>1. m \div 5 + 1 = 2 /\ 4 - (m % 5) = 3 /\ m \div 8 + 1 = 1 /\ 7 - (m % 8) = 1
      BY <2>2
    <3>. QED  BY <1>12, <3>1, Zenon DEF e
  <2>3. CASE m = 7
    <3>1. m \div 5 + 1 = 2 /\ 4 - (m % 5) = 2 /\ m \div 8 + 1 = 1 /\ 7 - (m % 8) = 0
      BY <2>3
    <3>. QED  BY <1>12, <3>1, Zenon DEF e
  <2>4. CASE m = 8
    <3>1. m \div 5 + 1 = 2 /\ 4 - (m % 5) = 1 /\ m \div 8 + 1 = 2 /\ 7 - (m % 8) = 7
      BY <2>4
    <3>. QED  BY <1>12, <3>1, Zenon DEF e
  <2>5. CASE m = 9
    <3>1. m \div 5 + 1 = 2 /\ 4 - (m % 5) = 0 /\ m \div 8 + 1 = 2 /\ 7 - (m % 8) = 6
      BY <2>5
    <3>. QED  BY <1>12, <3>1, Zenon DEF e
  <2>. QED  BY <1>22, <2>1, <2>2, <2>3, <2>4, <2>5
<1>23. CASE m \in 10..14
  <2>1. CASE m = 10
    <3>1. m \div 5 + 1 = 3 /\ 4 - (m % 5) = 4 /\ m \div 8 + 1 = 2 /\ 7 - (m % 8) = 5
      BY <2>1
    <3>. QED  BY <1>13, <3>1, Zenon DEF e
  <2>2. CASE m = 11
    <3>1. m \div 5 + 1 = 3 /\ 4 - (m % 5) = 3 /\ m \div 8 + 1 = 2 /\ 7 - (m % 8) = 4
      BY <2>2
    <3>. QED  BY <1>13, <3>1, Zenon DEF e
  <2>3. CASE m = 12
    <3>1. m \div 5 + 1 = 3 /\ 4 - (m % 5) = 2 /\ m \div 8 + 1 = 2 /\ 7 - (m % 8) = 3
      BY <2>3
    <3>. QED  BY <1>13, <3>1, Zenon DEF e
  <2>4. CASE m = 13
    <3>1. m \div 5 + 1 = 3 /\ 4 - (m % 5) = 1 /\ m \div 8 + 1 = 2 /\ 7 - (m % 8) = 2
      BY <2>4
    <3>. QED  BY <1>13, <3>1, Zenon DEF e
  <2>5. CASE m = 14
    <3>1. m \div 5 + 1 = 3 /\ 4 - (m % 5) = 0 /\ m \div 8 + 1 = 2 /\ 7 - (m % 8) = 1
      BY <2>5
    <3>. QED  BY <1>13, <3>1, Zenon DEF e
  <2>. QED  BY <1>23, <2>1, <2>2, <2>3, <2>4, <2>5
<1>24. CASE m \in 15..19
  <2>1. CASE m = 15
    <3>1. m \div 5 + 1 = 4 /\ 4 - (m % 5) = 4 /\ m \div 8 + 1 = 2 /\ 7 - (m % 8) = 0
      BY <2>1
    <3>. QED  BY <1>14, <3>1, Zenon DEF e
  <2>2. CASE m = 16
    <3>1. m \div 5 + 1 = 4 /\ 4 - (m % 5) = 3 /\ m \div 8 + 1 = 3 /\ 7 - (m % 8) = 7
      BY <2>2
    <3>. QED  BY <1>14, <3>1, Zenon DEF e
  <2>3. CASE m = 17
    <3>1. m \div 5 + 1 = 4 /\ 4 - (m % 5) = 2 /\ m \div 8 + 1 = 3 /\ 7 - (m % 8) = 6
      BY <2>3
    <3>. QED  BY <1>14, <3>1, Zenon DEF e
  <2>4. CASE m = 18
    <3>1. m \div 5 + 1 = 4 /\ 4 - (m % 5) = 1 /\ m \div 8 + 1 = 3 /\ 7 - (m % 8) = 5
      BY <2>4
    <3>. QED  BY <1>14, <3>1, Zenon DEF e
  <2>5. CASE m = 19
    <3>1. m \div 5 + 1 = 4 /\ 4 - (m % 5) = 0 /\ m \div 8 + 1 = 3 /\ 7 - (m % 8) = 4
      BY <2>5
    <3>. QED  BY <1>14, <3>1, Zenon DEF e
  <2>. QED  BY <1>24, <2>1, <2>2, <2>3, <2>4, <2>5
<1>25. CASE m \in 20..24
  <2>1. CASE m = 20
    <3>1. m \div 5 + 1 = 5 /\ 4 - (m % 5) = 4 /\ m \div 8 + 1 = 3 /\ 7 - (m % 8) = 3
      BY <2>1
    <3>. QED  BY <1>15, <3>1, Zenon DEF e
  <2>2. CASE m = 21
    <3>1. m \div 5 + 1 = 5 /\ 4 - (m % 5) = 3 /\ m \div 8 + 1 = 3 /\ 7 - (m % 8) = 2
      BY <2>2
    <3>. QED  BY <1>15, <3>1, Zenon DEF e
  <2>3. CASE m = 22
    <3>1. m \div 5 + 1 = 5 /\ 4 - (m % 5) = 2 /\ m \div 8 + 1 = 3 /\ 7 - (m % 8) = 1
      BY <2>3
    <3>. QED  BY <1>15, <3>1, Zenon DEF e
  <2>4. CASE m = 23
    <3>1. m \div 5 + 1 = 5 /\ 4 - (m % 5) = 1 /\ m \div 8 + 1 = 3 /\ 7 - (m % 8) = 0
      BY <2>4
    <3>. QED  BY <1>15, <3>1, Zenon DEF e
  <2>5. CASE m = 24
    <3>1. m \div 5 + 1 = 5 /\ 4 - (m % 5) = 0 /\ m \div 8 + 1 = 4 /\ 7 - (m % 8) = 7
      BY <2>5
    <3>. QED  BY <1>15, <3>1, Zenon DEF e
  <2>. QED  BY <1>25, <2>1, <2>2, <2>3, <2>4, <2>5
<1>26. CASE m \in 25..29
  <2>1. CASE m = 25
    <3>1. m \div 5 + 1 = 6 /\ 4 - (m % 5) = 4 /\ m \div 8 + 1 = 4 /\ 7 - (m % 8) = 6
      BY <2>1
    <3>. QED  BY <1>16, <3>1, Zenon DEF e
  <2>2. CASE m = 26
    <3>1. m \div 5 + 1 = 6 /\ 4 - (m % 5) = 3 /\ m \div 8 + 1 = 4 /\ 7 - (m % 8) = 5
      BY <2>2
    <3>. QED  BY <1>16, <3>1, Zenon DEF e
  <2>3. CASE m = 27
    <3>1. m \div 5 + 1 = 6 /\ 4 - (m % 5) = 2 /\ m \div 8 + 1 = 4 /\ 7 - (m % 8) = 4
      BY <2>3
    <3>. QED  BY <1>16, <3>1, Zenon DEF e
  <2>4. CASE m = 28
    <3>1. m \div 5 + 1 = 6 /\ 4 - (m % 5) = 1 /\ m \div 8 + 1 = 4 /\ 7 - (m % 8) = 3
      BY <2>4
    <3>. QED  BY <1>16, <3>1, Zenon DEF e
  <2>5. CASE m = 29
    <3>1. m \div 5 + 1 = 6 /\ 4 - (m % 5) = 0 /\ m \div 8 + 1 = 4 /\ 7 - (m % 8) = 2
      BY <2>5
    <3>. QED  BY <1>16, <3>1, Zenon DEF e
  <2>. QED  BY <1>26, <2>1, <2>2, <2>3, <2>4, <2>5
<1>27. CASE m \in 30..34
  <2>1. CASE m = 30
    <3>1. m \div 5 + 1 = 7 /\ 4 - (m % 5) = 4 /\ m \div 8 + 1 = 4 /\ 7 - (m % 8) = 1
      BY <2>1
    <3>. QED  BY <1>17, <3>1, Zenon DEF e
  <2>2. CASE m = 31
    <3>1. m \div 5 + 1 = 7 /\ 4 - (m % 5) = 3 /\ m \div 8 + 1 = 4 /\ 7 - (m % 8) = 0
      BY <2>2
    <3>. QED  BY <1>17, <3>1, Zenon DEF e
  <2>3. CASE m = 32
    <3>1. m \div 5 + 1 = 7 /\ 4 - (m % 5) = 2 /\ m \div 8 + 1 = 5 /\ 7 - (m % 8) = 7
      BY <2>3
    <3>. QED  BY <1>17, <3>1, Zenon DEF e
  <2>4. CASE m = 33
    <3>1. m \div 5 + 1 = 7 /\ 4 - (m % 5) = 1 /\ m \div 8 + 1 = 5 /\ 7 - (m % 8) = 6
      BY <2>4
    <3>. QED  BY <1>17, <3>1, Zenon DEF e
  <2>5. CASE m = 34
    <3>1. m \div 5 + 1 = 7 /\ 4 - (m % 5) = 0 /\ m \div 8 + 1 = 5 /\ 7 - (m % 8) = 5
      BY <2>5
    <3>. QED  BY <1>17, <3>1, Zenon DEF e
  <2>. QED  BY <1>27, <2>1, <2>2, <2>3, <2>4, <2>5
<1>28. CASE m \in 35..39
  <2>1. CASE m = 35
    <3>1. m \div 5 + 1 = 8 /\ 4 - (m % 5) = 4 /\ m \div 8 + 1 = 5 /\ 7 - (m % 8) = 4
      BY <2>1
    <3>. QED  BY <1>18, <3>1, Zenon DEF e
  <2>2. CASE m = 36
    <3>1. m \div 5 + 1 = 8 /\ 4 - (m % 5) = 3 /\ m \div 8 + 1 = 5 /\ 7 - (m % 8) = 3
      BY <2>2
    <3>. QED  BY <1>18, <3>1, Zenon DEF e
  <2>3. CASE m = 37
    <3>1. m \div 5 + 1 = 8 /\ 4 - (m % 5) = 2 /\ m \div 8 + 1 = 5 /\ 7 - (m % 8) = 2
      BY <2>3
    <3>. QED  BY <1>18, <3>1, Zenon DEF e
  <2>4. CASE m = 38
    <3>1. m \div 5 + 1 = 8 /\ 4 - (m % 5) = 1 /\ m \div 8 + 1 = 5 /\ 7 - (m % 8) = 1
      BY <2>4
    <3>. QED  BY <1>18, <3>1, Zenon DEF e
  <2>5. CASE m = 39
    <3>1. m \div 5 + 1 = 8 /\ 4 - (m % 5) = 0 /\ m \div 8 + 1 = 5 /\ 7 - (m % 8) = 0
      BY <2>5
    <3>. QED  BY <1>18, <3>1, Zenon DEF e
  <2>. QED  BY <1>28, <2>1, <2>2, <2>3, <2>4, <2>5
<1>. QED  BY <1>21, <1>22, <1>23, <1>24, <1>25, <1>26, <1>27, <1>28

(* One bit further.                                                         *)
LEMMA ShiftNext ==
    ASSUME NEW v \in Nat, NEW n \in 0..48
    PROVE  Shift(v, n + 1) = Shift(v, n) \div 2
<1>0. Shift(v, 1) = Shift(v, 0) \div 2
  BY DEF Shift
<1>1. Shift(v, 2) = Shift(v, 1) \div 2
  BY DEF Shift
<1>2. Shift(v, 3) = Shift(v, 2) \div 2
  BY DEF Shift
<1>3. Shift(v, 4) = Shift(v, 3) \div 2
  BY DEF Shift
<1>4. Shift(v, 5) = Shift(v, 4) \div 2
  BY DEF Shift
<1>5. Shift(v, 6) = Shift(v, 5) \div 2
  BY DEF Shift
<1>6. Shift(v, 7) = Shift(v, 6) \div 2
  BY DEF Shift
<1>7. Shift(v, 8) = Shift(v, 7) \div 2
  BY DEF Shift
<1>8. Shift(v, 9) = Shift(v, 8) \div 2
  BY DEF Shift
<1>9. Shift(v, 10) = Shift(v, 9) \div 2
  BY DEF Shift
<1>10. Shift(v, 11) = Shift(v, 10) \div 2
  BY DEF Shift
<1>11. Shift(v, 12) = Shift(v, 11) \div 2
  BY DEF Shift
<1>12. Shift(v, 13) = Shift(v, 12) \div 2
  BY DEF Shift
<1>13. Shift(v, 14) = Shift(v, 13) \div 2
  BY DEF Shift
<1>14. Shift(v, 15) = Shift(v, 14) \div 2
  BY DEF Shift
<1>15. Shift(v, 16) = Shift(v, 15) \div 2
  BY DEF Shift
<1>16. Shift(v, 17) = Shift(v, 16) \div 2
  BY DEF Shift
<1>17. Shift(v, 18) = Shift(v, 17) \div 2
  BY DEF Shift
<1>18. Shift(v, 19) = Shift(v, 18) \div 2
  BY DEF Shift
<1>19. Shift(v, 20) = Shift(v, 19) \div 2
  BY DEF Shift
<1>20. Shift(v, 21) = Shift(v, 20) \div 2
  BY DEF Shift
<1>21. Shift(v, 22) = Shift(v, 21) \div 2
  BY DEF Shift
<1>22. Shift(v, 23) = Shift(v, 22) \div 2
  BY DEF Shift
<1>23. Shift(v, 24) = Shift(v, 23) \div 2
  BY DEF Shift
<1>24. Shift(v, 25) = Shift(v, 24) \div 2
  BY DEF Shift
<1>25. Shift(v, 26) = Shift(v, 25) \div 2
  BY DEF Shift
<1>26. Shift(v, 27) = Shift(v, 26) \div 2
  BY DEF Shift
<1>27. Shift(v, 28) = Shift(v, 27) \div 2
  BY DEF Shift
<1>28. Shift(v, 29) = Shift(v, 28) \div 2
  BY DEF Shift
<1>29. Shift(v, 30) = Shift(v, 29) \div 2
  BY DEF Shift
<1>30. Shift(v, 31) = Shift(v, 30) \div 2
  BY DEF Shift
<1>31. Shift(v, 32) = Shift(v, 31) \div 2
  BY DEF Shift
<1>32. Shift(v, 33) = Shift(v, 32) \div 2
  BY DEF Shift
<1>33. Shift(v, 34) = Shift(v, 33) \div 2
  BY DEF Shift
<1>34. Shift(v, 35) = Shift(v, 34) \div 2
  BY DEF Shift
<1>35. Shift(v, 36) = Shift(v, 35) \div 2
  BY DEF Shift
<1>36. Shift(v, 37) = Shift(v, 36) \div 2
  BY DEF Shift
<1>37. Shift(v, 38) = Shift(v, 37) \div 2
  BY DEF Shift
<1>38. Shift(v, 39) = Shift(v, 38) \div 2
  BY DEF Shift
<1>39. Shift(v, 40) = Shift(v, 39) \div 2
  BY DEF Shift
<1>40. Shift(v, 41) = Shift(v, 40) \div 2
  BY DEF Shift
<1>41. Shift(v, 42) = Shift(v, 41) \div 2
  BY DEF Shift
<1>42. Shift(v, 43) = Shift(v, 42) \div 2
  BY DEF Shift
<1>43. Shift(v, 44) = Shift(v, 43) \div 2
  BY DEF Shift
<1>44. Shift(v, 45) = Shift(v, 44) \div 2
  BY DEF Shift
<1>45. Shift(v, 46) = Shift(v, 45) \div 2
  BY DEF Shift
<1>46. Shift(v, 47) = Shift(v, 46) \div 2
  BY DEF Shift
<1>47. Shift(v, 48) = Shift(v, 47) \div 2
  BY DEF Shift
<1>48. Shift(v, 49) = Shift(v, 48) \div 2
  BY DEF Shift
<1>100. CASE n \in 0..9
  <2>1. n \in {0, 1, 2, 3, 4, 5, 6, 7, 8, 9}
    BY <1>100
  <2>2. CASE n = 0
    <3>1. n + 1 = 1
      BY <2>2
    <3>. QED  BY <1>0, <2>2, <3>1, Zenon
  <2>3. CASE n = 1
    <3>1. n + 1 = 2
      BY <2>3
    <3>. QED  BY <1>1, <2>3, <3>1, Zenon
  <2>4. CASE n = 2
    <3>1. n + 1 = 3
      BY <2>4
    <3>. QED  BY <1>2, <2>4, <3>1, Zenon
  <2>5. CASE n = 3
    <3>1. n + 1 = 4
      BY <2>5
    <3>. QED  BY <1>3, <2>5, <3>1, Zenon
  <2>6. CASE n = 4
    <3>1. n + 1 = 5
      BY <2>6
    <3>. QED  BY <1>4, <2>6, <3>1, Zenon
  <2>7. CASE n = 5
    <3>1. n + 1 = 6
      BY <2>7
    <3>. QED  BY <1>5, <2>7, <3>1, Zenon
  <2>8. CASE n = 6
    <3>1. n + 1 = 7
      BY <2>8
    <3>. QED  BY <1>6, <2>8, <3>1, Zenon
  <2>9. CASE n = 7
    <3>1. n + 1 = 8
      BY <2>9
    <3>. QED  BY <1>7, <2>9, <3>1, Zenon
  <2>10. CASE n = 8
    <3>1. n + 1 = 9
      BY <2>10
    <3>. QED  BY <1>8, <2>10, <3>1, Zenon
  <2>11. CASE n = 9
    <3>1. n + 1 = 10
      BY <2>11
    <3>. QED  BY <1>9, <2>11, <3>1, Zenon
  <2>. QED  BY <2>1, <2>2, <2>3, <2>4, <2>5, <2>6, <2>7, <2>8, <2>9, <2>10, <2>11, Zenon
<1>101. CASE n \in 10..19
  <2>1. n \in {10, 11, 12, 13, 14, 15, 16, 17, 18, 19}
    BY <1>101
  <2>2. CASE n = 10
    <3>1. n + 1 = 11
      BY <2>2
    <3>. QED  BY <1>10, <2>2, <3>1, Zenon
  <2>3. CASE n = 11
    <3>1. n + 1 = 12
      BY <2>3
    <3>. QED  BY <1>11, <2>3, <3>1, Zenon
  <2>4. CASE n = 12
    <3>1. n + 1 = 13
      BY <2>4
    <3>. QED  BY <1>12, <2>4, <3>1, Zenon
  <2>5. CASE n = 13
    <3>1. n + 1 = 14
      BY <2>5
    <3>. QED  BY <1>13, <2>5, <3>1, Zenon
  <2>6. CASE n = 14
    <3>1. n + 1 = 15
      BY <2>6
    <3>. QED  BY <1>14, <2>6, <3>1, Zenon
  <2>7. CASE n = 15
    <3>1. n + 1 = 16
      BY <2>7
    <3>. QED  BY <1>15, <2>7, <3>1, Zenon
  <2>8. CASE n = 16
    <3>1. n + 1 = 17
      BY <2>8
    <3>. QED  BY <1>16, <2>8, <3>1, Zenon
  <2>9. CASE n = 17
    <3>1. n + 1 = 18
      BY <2>9
    <3>. QED  BY <1>17, <2>9, <3>1, Zenon
  <2>10. CASE n = 18
    <3>1. n + 1 = 19
      BY <2>10
    <3>. QED  BY <1>18, <2>10, <3>1, Zenon
  <2>11. CASE n = 19
    <3>1. n + 1 = 20
      BY <2>11
    <3>. QED  BY <1>19, <2>11, <3>1, Zenon
  <2>. QED  BY <2>1, <2>2, <2>3, <2>4, <2>5, <2>6, <2>7, <2>8, <2>9, <2>10, <2>11, Zenon
<1>102. CASE n \in 20..29
  <2>1. n \in {20, 21, 22, 23, 24, 25, 26, 27, 28, 29}
    BY <1>102
  <2>2. CASE n = 20
    <3>1. n + 1 = 21
      BY <2>2
    <3>. QED  BY <1>20, <2>2, <3>1, Zenon
  <2>3. CASE n = 21
    <3>1. n + 1 = 22
      BY <2>3
    <3>. QED  BY <1>21, <2>3, <3>1, Zenon
  <2>4. CASE n = 22
    <3>1. n + 1 = 23
      BY <2>4
    <3>. QED  BY <1>22, <2>4, <3>1, Zenon
  <2>5. CASE n = 23
    <3>1. n + 1 = 24
      BY <2>5
    <3>. QED  BY <1>23, <2>5, <3>1, Zenon
  <2>6. CASE n = 24
    <3>1. n + 1 = 25
      BY <2>6
    <3>. QED  BY <1>24, <2>6, <3>1, Zenon
  <2>7. CASE n = 25
    <3>1. n + 1 = 26
      BY <2>7
    <3>. QED  BY <1>25, <2>7, <3>1, Zenon
  <2>8. CASE n = 26
    <3>1. n + 1 = 27
      BY <2>8
    <3>. QED  BY <1>26, <2>8, <3>1, Zenon
  <2>9. CASE n = 27
    <3>1. n + 1 = 28
      BY <2>9
    <3>. QED  BY <1>27, <2>9, <3>1, Zenon
  <2>10. CASE n = 28
    <3>1. n + 1 = 29
      BY <2>10
    <3>. QED  BY <1>28, <2>10, <3>1, Zenon
  <2>11. CASE n = 29
    <3>1. n + 1 = 30
      BY <2>11
    <3>. QED  BY <1>29, <2>11, <3>1, Zenon
  <2>. QED  BY <2>1, <2>2, <2>3, <2>4, <2>5, <2>6, <2>7, <2>8, <2>9, <2>10, <2>11, Zenon
<1>103. CASE n \in 30..39
  <2>1. n \in {30, 31, 32, 33, 34, 35, 36, 37, 38, 39}
    BY <1>103
  <2>2. CASE n = 30
    <3>1. n + 1 = 31
      BY <2>2
    <3>. QED  BY <1>30, <2>2, <3>1, Zenon
  <2>3. CASE n = 31
    <3>1. n + 1 = 32
      BY <2>3
    <3>. QED  BY <1>31, <2>3, <3>1, Zenon
  <2>4. CASE n = 32
    <3>1. n + 1 = 33
      BY <2>4
    <3>. QED  BY <1>32, <2>4, <3>1, Zenon
  <2>5. CASE n = 33
    <3>1. n + 1 = 34
      BY <2>5
    <3>. QED  BY <1>33, <2>5, <3>1, Zenon
  <2>6. CASE n = 34
    <3>1. n + 1 = 35
      BY <2>6
    <3>. QED  BY <1>34, <2>6, <3>1, Zenon
  <2>7. CASE n = 35
    <3>1. n + 1 = 36
      BY <2>7
    <3>. QED  BY <1>35, <2>7, <3>1, Zenon
  <2>8. CASE n = 36
    <3>1. n + 1 = 37
      BY <2>8
    <3>. QED  BY <1>36, <2>8, <3>1, Zenon
  <2>9. CASE n = 37
    <3>1. n + 1 = 38
      BY <2>9
    <3>. QED  BY <1>37, <2>9, <3>1, Zenon
  <2>10. CASE n = 38
    <3>1. n + 1 = 39
      BY <2>10
    <3>. QED  BY <1>38, <2>10, <3>1, Zenon
  <2>11. CASE n = 39
    <3>1. n + 1 = 40
      BY <2>11
    <3>. QED  BY <1>39, <2>11, <3>1, Zenon
  <2>. QED  BY <2>1, <2>2, <2>3, <2>4, <2>5, <2>6, <2>7, <2>8, <2>9, <2>10, <2>11, Zenon
<1>104. CASE n \in 40..48
  <2>1. n \in {40, 41, 42, 43, 44, 45, 46, 47, 48}
    BY <1>104
  <2>2. CASE n = 40
    <3>1. n + 1 = 41
      BY <2>2
    <3>. QED  BY <1>40, <2>2, <3>1, Zenon
  <2>3. CASE n = 41
    <3>1. n + 1 = 42
      BY <2>3
    <3>. QED  BY <1>41, <2>3, <3>1, Zenon
  <2>4. CASE n = 42
    <3>1. n + 1 = 43
      BY <2>4
    <3>. QED  BY <1>42, <2>4, <3>1, Zenon
  <2>5. CASE n = 43
    <3>1. n + 1 = 44
      BY <2>5
    <3>. QED  BY <1>43, <2>5, <3>1, Zenon
  <2>6. CASE n = 44
    <3>1. n + 1 = 45
      BY <2>6
    <3>. QED  BY <1>44, <2>6, <3>1, Zenon
  <2>7. CASE n = 45
    <3>1. n + 1 = 46
      BY <2>7
    <3>. QED  BY <1>45, <2>7, <3>1, Zenon
  <2>8. CASE n = 46
    <3>1. n + 1 = 47
      BY <2>8
    <3>. QED  BY <1>46, <2>8, <3>1, Zenon
  <2>9. CASE n = 47
    <3>1. n + 1 = 48
      BY <2>9
    <3>. QED  BY <1>47, <2>9, <3>1, Zenon
  <2>10. CASE n = 48
    <3>1. n + 1 = 49
      BY <2>10
    <3>. QED  BY <1>48, <2>10, <3>1, Zenon
  <2>. QED  BY <2>1, <2>2, <2>3, <2>4, <2>5, <2>6, <2>7, <2>8, <2>9, <2>10, Zenon
<1>. QED  BY <1>100, <1>101, <1>102, <1>103, <1>104

LEMMA LowBits ==
    ASSUME NEW w \in Nat
    PROVE  /\ Shift(w % 32, 0) % 2 = w % 2
           /\ Shift(w % 32, 1) % 2 = (w \div 2) % 2
           /\ Shift(w % 32, 2) % 2 = ((w \div 2) \div 2) % 2
           /\ Shift(w % 32, 3) % 2 = (((w \div 2) \div 2) \div 2) % 2
           /\ Shift(w % 32, 4) % 2 = ((((w \div 2) \div 2) \div 2) \div 2) % 2
BY DEF Shift

(* The bits of the timestamp digits.                                        *)
LEMMA MsBits ==
    ASSUME NEW v \in Nat, v \div 2^24 < 2^24, NEW k \in 0..9, NEW i \in 0..4
    PROVE  Shift(Shift(v, 5 * k) % 32, i) % 2 = Shift(v, 5 * k + i) % 2
<1>1. PICK n \in 0..45 : n = 5 * k
  OBVIOUS
<1>2. Shift(v, n) \in Nat
  BY <1>1, ShiftChain DEF Shifts
<1>3. /\ Shift(v, n + 1) = Shift(v, n) \div 2
      /\ Shift(v, n + 2) = Shift(v, n + 1) \div 2
      /\ Shift(v, n + 3) = Shift(v, n + 2) \div 2
      /\ Shift(v, n + 4) = Shift(v, n + 3) \div 2
  <2>1. n \in 0..48 /\ n + 1 \in 0..48 /\ n + 2 \in 0..48 /\ n + 3 \in 0..48
    OBVIOUS
  <2>2. (n + 1) + 1 = n + 2 /\ (n + 2) + 1 = n + 3 /\ (n + 3) + 1 = n + 4
    OBVIOUS
  <2>3. Shift(v, n + 1) = Shift(v, n) \div 2
    BY <2>1, ShiftNext
  <2>4. Shift(v, (n + 1) + 1) = Shift(v, n + 1) \div 2
    BY <2>1, ShiftNext
  <2>5. Shift(v, (n + 2) + 1) = Shift(v, n + 2) \div 2
    BY <2>1, ShiftNext
  <2>6. Shift(v, (n + 3) + 1) = Shift(v, n + 3) \div 2
    BY <2>1, ShiftNext
  <2>. QED  BY <2>2, <2>3, <2>4, <2>5, <2>6, Zenon
<1>4. n + 0 = n /\ i \in {0, 1, 2, 3, 4}
  OBVIOUS
<1>5. PICK w \in Nat : w = Shift(v, n)
  BY <1>2
<1>6. /\ Shift(v, n + 0) = w
      /\ Shift(v, n + 1) = w \div 2
      /\ Shift(v, n + 2) = (w \div 2) \div 2
      /\ Shift(v, n + 3) = ((w \div 2) \div 2) \div 2
      /\ Shift(v, n + 4) = (((w \div 2) \div 2) \div 2) \div 2
  BY <1>3, <1>4, <1>5, Zenon
<1>7. Shift(w % 32, i) % 2 = Shift(v, n + i) % 2
  <2>0. CASE i = 0
    <3>1. Shift(w % 32, 0) % 2 = w % 2
      BY LowBits, Zenon
    <3>. QED  BY <1>6, <2>0, <3>1, Zenon
  <2>1. CASE i = 1
    <3>1. Shift(w % 32, 1) % 2 = (w \div 2) % 2
      BY LowBits, Zenon
    <3>. QED  BY <1>6, <2>1, <3>1, Zenon
  <2>2. CASE i = 2
    <3>1. Shift(w % 32, 2) % 2 = ((w \div 2) \div 2) % 2
      BY LowBits, Zenon
    <3>. QED  BY <1>6, <2>2, <3>1, Zenon
  <2>3. CASE i = 3
    <3>1. Shift(w % 32, 3) % 2 = (((w \div 2) \div 2) \div 2) % 2
      BY LowBits, Zenon
    <3>. QED  BY <1>6, <2>3, <3>1, Zenon
  <2>4. CASE i = 4
    <3>1. Shift(w % 32, 4) % 2 = ((((w \div 2) \div 2) \div 2) \div 2) % 2
      BY LowBits, Zenon
    <3>. QED  BY <1>6, <2>4, <3>1, Zenon
  <2>. QED  BY <1>4, <2>0, <2>1, <2>2, <2>3, <2>4, Zenon
<1>. QED  BY <1>1, <1>5, <1>7, Zenon

(* 48 bits of timestamp leave the two highest bits of the digits 0.         *)
LEMMA TopBits ==
    ASSUME NEW v \in Nat, v \div 2^24 < 2^24
    PROVE  Shift(Shift(v, 45) % 32, 4) % 2 = 0 /\ Shift(Shift(v, 45) % 32, 3) % 2 = 0
<1>1. PICK w \in Nat : w = Shift(v, 45)
  BY ShiftTypes
<1>2. w < 8
  BY <1>1 DEF Shift
<1>3. Shift(w % 32, 4) % 2 = 0 /\ Shift(w % 32, 3) % 2 = 0
  BY <1>2 DEF Shift
<1>. QED  BY <1>1, <1>3, Zenon

(* "The wire format matches the ULID spec": the id is the Crockford spelling
   of two zero bits, the 48 of the timestamp and the 80 of randomness, for
   every clock reading of 48 bits and all ten bytes of randomness.          *)
THEOREM WireFormatAlways == Spec => []WireFormat
<1>1. ASSUME IdInv PROVE WireFormat
  <2> SUFFICES ASSUME id # <<>>
               PROVE  /\ Len(id) = 26
                      /\ \A n \in 0..129 : Shift(id[n \div 5 + 1], 4 - (n % 5)) % 2 = UlidBit(n)
    BY DEF WireFormat
  <2>1. PICK v \in Nat : v = lastMs /\ v \div 2^24 < 2^24
    BY <1>1 DEF IdInv
  <2>2. PICK r \in [1..10 -> 0..255] : r = lastRand
    BY <1>1 DEF IdInv
  <2>3. PICK x \in Seq(0..31) :
            /\ x = id /\ Len(x) = 26
            /\ \A k \in 1..10 : x[k] = EncodeMs(v)[k]
            /\ \A k \in 1..8 : x[k + 10] = EncodeFive(High(r))[k]
            /\ \A k \in 1..8 : x[k + 18] = EncodeFive(Low(r))[k]
    <3>1. id = Encode(v, r)
      BY <1>1, <2>1, <2>2 DEF IdInv
    <3>. QED  BY <2>1, <3>1, EncodeParts, ZenonT(60)
  <2>4. ASSUME NEW n \in 0..129
        PROVE  Shift(x[n \div 5 + 1], 4 - (n % 5)) % 2 = UlidBit(n)
    <3>1. CASE n \in 0..49
      <4>1. PICK k \in 0..9, i \in 0..4 : k = 9 - n \div 5 /\ i = 4 - (n % 5)
        BY <3>1
      <4>2. n \div 5 + 1 \in 1..10 /\ 10 - (n \div 5 + 1) = k /\ 5 * k + i = 49 - n
        BY <3>1, <4>1
      <4>3. x[n \div 5 + 1] = Shift(v, 5 * k) % 32
        BY <2>3, <4>2, MsDigits, Zenon DEF Shifts
      <4>4. CASE n \in 2..49
        <5>1. UlidBit(n) = Shift(v, 49 - n) % 2
          <6>1. ~(n < 2) /\ n < 50
            BY <4>4
          <6>. QED  BY <2>1, <6>1, Zenon DEF UlidBit
        <5>2. Shift(Shift(v, 5 * k) % 32, i) % 2 = Shift(v, 5 * k + i) % 2
          BY <2>1, MsBits
        <5>. QED  BY <4>1, <4>2, <4>3, <5>1, <5>2, Zenon
      <4>5. CASE n < 2
        <5>1. UlidBit(n) = 0
          BY <4>5, Zenon DEF UlidBit
        <5>2. 5 * k = 45 /\ i \in {3, 4}
          BY <4>1, <4>5
        <5>3. Shift(Shift(v, 45) % 32, 4) % 2 = 0 /\ Shift(Shift(v, 45) % 32, 3) % 2 = 0
          BY <2>1, TopBits, Zenon
        <5>4. Shift(x[n \div 5 + 1], i) % 2 = 0
          BY <4>3, <5>2, <5>3, Zenon
        <5>. QED  BY <4>1, <5>1, <5>4, Zenon
      <4>. QED  BY <3>1, <4>4, <4>5
    <3>2. CASE n \in 50..89
      <4>1. PICK m \in 0..39 : m = n - 50
        BY <3>2
      <4>2. /\ n \div 5 + 1 = (m \div 5 + 1) + 10 /\ m \div 5 + 1 \in 1..8 /\ n % 5 = m % 5
            /\ m \div 8 + 1 \in 1..5
        BY <3>2, <4>1
      <4>3. UlidBit(n) = Shift(r[m \div 8 + 1], 7 - (m % 8)) % 2
        <5>1. ~(n < 2) /\ ~(n < 50) /\ (n - 50) = m
          BY <3>2, <4>1
        <5>. QED  BY <2>2, <5>1, Zenon DEF UlidBit
      <4>4. High(r)[m \div 8 + 1] = r[m \div 8 + 1]
        BY <4>2, Zenon DEF High
      <4>5. x[n \div 5 + 1] = EncodeFive(High(r))[m \div 5 + 1]
        BY <2>3, <4>2, Zenon
      <4>6. Shift(EncodeFive(High(r))[m \div 5 + 1], 4 - (m % 5)) % 2
              = Shift(High(r)[m \div 8 + 1], 7 - (m % 8)) % 2
        BY Halves, FiveBits
      <4>. QED  BY <4>2, <4>3, <4>4, <4>5, <4>6, Zenon
    <3>3. CASE n \in 90..129
      <4>1. PICK m \in 0..39 : m = n - 90
        BY <3>3
      <4>2. /\ n \div 5 + 1 = (m \div 5 + 1) + 18 /\ m \div 5 + 1 \in 1..8 /\ n % 5 = m % 5
            /\ m \div 8 + 1 \in 1..5 /\ (n - 50) \div 8 + 1 = (m \div 8 + 1) + 5
            /\ (n - 50) % 8 = m % 8
        BY <3>3, <4>1
      <4>3. UlidBit(n) = Shift(r[(m \div 8 + 1) + 5], 7 - (m % 8)) % 2
        <5>1. ~(n < 2) /\ ~(n < 50)
          BY <3>3
        <5>. QED  BY <2>2, <4>2, <5>1, Zenon DEF UlidBit
      <4>4. Low(r)[m \div 8 + 1] = r[(m \div 8 + 1) + 5]
        BY <4>2, Zenon DEF Low
      <4>5. x[n \div 5 + 1] = EncodeFive(Low(r))[m \div 5 + 1]
        BY <2>3, <4>2, Zenon
      <4>6. Shift(EncodeFive(Low(r))[m \div 5 + 1], 4 - (m % 5)) % 2
              = Shift(Low(r)[m \div 8 + 1], 7 - (m % 8)) % 2
        BY Halves, FiveBits
      <4>. QED  BY <4>2, <4>3, <4>4, <4>5, <4>6, Zenon
    <3>. QED  BY <3>1, <3>2, <3>3
  <2>. QED  BY <2>3, <2>4, Zenon
<1>. QED  BY <1>1, IdInvAlways, PTL
=============================================================================
