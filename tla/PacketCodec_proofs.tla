-------------------------- MODULE PacketCodec_proofs --------------------------
(***************************************************************************)
(* What the bytes of a packet promise, for every size of a payload and of  *)
(* a signature, all items, headers and noise.                              *)
(***************************************************************************)
EXTENDS PacketCodec, SequenceTheorems, WellFoundedInduction, TLAPS

(* A set of natural numbers has a least one: what induction rests on here. *)
LEMMA LeastNumber ==
    ASSUME NEW T \in SUBSET Nat, T # {}
    PROVE  \E n \in T : \A m \in T : ~(m < n)
<1>1. PICK n \in T : \A m \in T : <<m, n>> \notin OpToRel(<, Nat)
  BY NatLessThanWellFounded, WFMin
<1>2. \A m \in T : m < n => <<m, n>> \in OpToRel(<, Nat)
  BY DEF OpToRel
<1> QED
  BY <1>1, <1>2

-----------------------------------------------------------------------------
(* The register of the CRC.                                                *)

Bit == {0, 1}

(* Membership of Byte and of Word as inequalities, which the provers need. *)
LEMMA ByteRange ==
    ASSUME NEW n
    PROVE  n \in Byte <=> n \in Int /\ 0 <= n /\ n < 256
BY SMT DEF Byte

LEMMA WordRange ==
    ASSUME NEW n
    PROVE  n \in Word <=> n \in Int /\ 0 <= n /\ n < 65536
<1>1. WordModulus \in Int /\ WordModulus = 65536
  BY SMT DEF WordModulus
<1>2. n \in Word <=> n \in Int /\ 0 <= n /\ n < WordModulus
  <2>1. WordModulus - 1 \in Int
    BY <1>1, SMT
  <2>2. n \in Word <=> n \in Int /\ 0 <= n /\ n <= WordModulus - 1
    BY <2>1, SMT DEF Word
  <2>3. n \in Int => (n <= WordModulus - 1 <=> n < WordModulus)
    BY <1>1, SMT
  <2> QED
    BY <2>2, <2>3
<1> QED
  BY <1>1, <1>2

(* The bits of a byte, the first the most significant.                     *)
LEMMA BitsOf ==
    ASSUME NEW a \in Byte
    PROVE  /\ Bits[a][1] = a \div 128       /\ Bits[a][2] = (a \div 64) % 2
           /\ Bits[a][3] = (a \div 32) % 2  /\ Bits[a][4] = (a \div 16) % 2
           /\ Bits[a][5] = (a \div 8) % 2   /\ Bits[a][6] = (a \div 4) % 2
           /\ Bits[a][7] = (a \div 2) % 2   /\ Bits[a][8] = a % 2
BY SMT DEF Bits

LEMMA BitsType ==
    ASSUME NEW a \in Byte
    PROVE  \A k \in 1 .. 8 : Bits[a][k] \in Bit
<1>1. a \in Int /\ 0 <= a /\ a < 256
  BY ByteRange
<1>2. a \div 128 \in Bit
  BY <1>1, SMT DEF Bit
<1>3. \A n \in Int : n % 2 \in Bit
  BY SMT DEF Bit
<1>4. /\ a \div 64 \in Int /\ a \div 32 \in Int /\ a \div 16 \in Int
      /\ a \div 8 \in Int /\ a \div 4 \in Int /\ a \div 2 \in Int
  BY <1>1, SMT
<1>5. \A k \in 1 .. 8 : k \in {1, 2, 3, 4, 5, 6, 7, 8}
  BY SMT
<1> QED
  BY <1>1, <1>2, <1>3, <1>4, <1>5, BitsOf, SMT

(* A byte is its bits.                                                     *)
LEMMA BitsTell ==
    ASSUME NEW a \in Byte, NEW b \in Byte, \A k \in 1 .. 8 : Bits[a][k] = Bits[b][k]
    PROVE  a = b
<1>1. /\ a \div 128 = b \div 128
      /\ (a \div 64) % 2 = (b \div 64) % 2
      /\ (a \div 32) % 2 = (b \div 32) % 2
      /\ (a \div 16) % 2 = (b \div 16) % 2
      /\ (a \div 8) % 2 = (b \div 8) % 2
      /\ (a \div 4) % 2 = (b \div 4) % 2
      /\ (a \div 2) % 2 = (b \div 2) % 2
      /\ a % 2 = b % 2
  BY BitsOf, SMT
<1>2. a \in Int /\ b \in Int
  BY ByteRange
<1>3. a \div 64 = b \div 64
  BY <1>1, <1>2, SMT
<1>4. a \div 32 = b \div 32
  BY <1>1, <1>2, <1>3, SMT
<1>5. a \div 16 = b \div 16
  BY <1>1, <1>2, <1>4, SMT
<1>6. a \div 8 = b \div 8
  BY <1>1, <1>2, <1>5, SMT
<1>7. a \div 4 = b \div 4
  BY <1>1, <1>2, <1>6, SMT
<1>8. a \div 2 = b \div 2
  BY <1>1, <1>2, <1>7, SMT
<1> QED
  BY <1>1, <1>2, <1>8, SMT

(* The bits of a word, the lowest first.                                   *)
Registers == [1 .. 16 -> Bit]

Horner(a, b, c, d, e, f, g, h, i, j, k, l, m, n, o, p) ==
    a + 2 * (b + 2 * (c + 2 * (d + 2 * (e + 2 * (f + 2 * (g + 2 * (h
      + 2 * (i + 2 * (j + 2 * (k + 2 * (l + 2 * (m + 2 * (n
      + 2 * (o + 2 * p))))))))))))))

WordOf(r) ==
    Horner(r[1], r[2], r[3], r[4], r[5], r[6], r[7], r[8],
           r[9], r[10], r[11], r[12], r[13], r[14], r[15], r[16])

Differ(a, b) == IF a = b THEN 0 ELSE 1

(* What one turn does to the bits: each moves up, and the 6th and the 13th *)
(* change on the way when a one is fed back at the bottom.                 *)
Turn(r, bit) ==
    LET out == Differ(r[16], bit) IN
    [k \in 1 .. 16 |-> IF k = 1 THEN out
                       ELSE IF k \in {6, 13} THEN Differ(r[k - 1], out)
                       ELSE r[k - 1]]

(* The bits of a register, before and after a turn.                        *)
LEMMA RegisterBits ==
    ASSUME NEW r \in Registers
    PROVE  /\ r[1] \in Bit /\ r[2] \in Bit /\ r[3] \in Bit /\ r[4] \in Bit
           /\ r[5] \in Bit /\ r[6] \in Bit /\ r[7] \in Bit /\ r[8] \in Bit
           /\ r[9] \in Bit /\ r[10] \in Bit /\ r[11] \in Bit /\ r[12] \in Bit
           /\ r[13] \in Bit /\ r[14] \in Bit /\ r[15] \in Bit /\ r[16] \in Bit
BY SMT DEF Registers

LEMMA TurnType ==
    ASSUME NEW r \in Registers, NEW bit \in Bit
    PROVE  Turn(r, bit) \in Registers
BY SMT DEF Registers, Turn, Differ, Bit

(* Toggling a bit changes it and no other.                                 *)
LEMMA Toggled4096 ==
    ASSUME NEW q \in Int, NEW b \in Bit,
           NEW rest \in Int, 0 <= rest, rest < 4096
    PROVE  Toggled(8192 * q + 4096 * b + rest, 4096)
             = 8192 * q + 4096 * (1 - b) + rest
<1>1. b \in Int /\ 0 <= b /\ b < 2
  BY SMT DEF Bit
<1>2. (8192 * q + 4096 * b + rest) \div 4096 = 2 * q + b
  BY <1>1, SMT
<1>3. (2 * q + b) % 2 = b
  BY <1>1, SMT
<1> QED
  BY <1>1, <1>2, <1>3, SMT DEF Toggled

LEMMA Toggled32 ==
    ASSUME NEW q \in Int, NEW b \in Bit,
           NEW rest \in Int, 0 <= rest, rest < 32
    PROVE  Toggled(64 * q + 32 * b + rest, 32) = 64 * q + 32 * (1 - b) + rest
<1>1. b \in Int /\ 0 <= b /\ b < 2
  BY SMT DEF Bit
<1>2. (64 * q + 32 * b + rest) \div 32 = 2 * q + b
  BY <1>1, SMT
<1>3. (2 * q + b) % 2 = b
  BY <1>1, SMT
<1> QED
  BY <1>1, <1>2, <1>3, SMT DEF Toggled

LEMMA Toggled1 ==
    ASSUME NEW q \in Int
    PROVE  Toggled(2 * q, 1) = 2 * q + 1
<1>1. (2 * q) \div 1 = 2 * q /\ (2 * q) % 2 = 0
  BY SMT
<1> QED
  BY <1>1, SMT DEF Toggled

LEMMA Doubled ==
    ASSUME NEW top \in Bit, NEW rest \in Int, 0 <= rest, rest < 32768
    PROVE  /\ 32768 * top + rest \in Word
           /\ (32768 * top + rest) \div 32768 = top
           /\ (2 * (32768 * top + rest)) % WordModulus = 2 * rest
<1>1. top \in Int /\ 0 <= top /\ top < 2
  BY SMT DEF Bit
<1>2. (32768 * top + rest) \div 32768 = top
  BY <1>1, SMT
<1>3. 32768 * top + rest \in Word
  BY <1>1, WordRange, SMT
<1>4. (2 * (32768 * top + rest)) % 65536 = 2 * rest
  BY <1>1, SMT
<1> QED
  BY <1>2, <1>3, <1>4 DEF WordModulus

(* A turn moves every bit up, and two of them change on the way.           *)
LEMMA TurnOfWord ==
    ASSUME NEW r \in Registers, NEW bit \in Bit
    PROVE  /\ WordOf(r) \in Word
           /\ Shifted[bit][WordOf(r)] = WordOf(Turn(r, bit))
<1> DEFINE a == r[1]  b == r[2]  c == r[3]  d == r[4]
           e == r[5]  f == r[6]  g == r[7]  h == r[8]
           i == r[9]  j == r[10]  k == r[11]  l == r[12]
           m == r[13]  n == r[14]  o == r[15]  p == r[16]
<1>a. /\ a \in Bit /\ b \in Bit /\ c \in Bit /\ d \in Bit
      /\ e \in Bit /\ f \in Bit /\ g \in Bit /\ h \in Bit
      /\ i \in Bit /\ j \in Bit /\ k \in Bit /\ l \in Bit
      /\ m \in Bit /\ n \in Bit /\ o \in Bit /\ p \in Bit
  BY RegisterBits
<1>b. WordOf(r) = Horner(a, b, c, d, e, f, g, h, i, j, k, l, m, n, o, p)
  BY DEF WordOf
<1>c. PICK t \in Registers : t = Turn(r, bit)
  BY TurnType
<1>d. PICK out \in Bit : out = Differ(p, bit)
  BY SMT DEF Differ, Bit
<1>e. /\ t[1] = out /\ t[2] = a /\ t[3] = b /\ t[4] = c /\ t[5] = d
      /\ t[6] = Differ(e, out) /\ t[7] = f /\ t[8] = g /\ t[9] = h
      /\ t[10] = i /\ t[11] = j /\ t[12] = k
      /\ t[13] = Differ(l, out) /\ t[14] = m /\ t[15] = n
      /\ t[16] = o
  BY <1>c, <1>d, SMT DEF Turn
<1>f. WordOf(t) = Horner(out, a, b, c, d, Differ(e, out), f, g, h, i, j, k,
                         Differ(l, out), m, n, o)
  BY <1>e DEF WordOf
<1> HIDE DEF a, b, c, d, e, f, g, h, i, j, k, l, m, n, o, p
<1>0. /\ a \in Int /\ b \in Int /\ c \in Int /\ d \in Int
      /\ e \in Int /\ f \in Int /\ g \in Int /\ h \in Int
      /\ i \in Int /\ j \in Int /\ k \in Int /\ l \in Int
      /\ m \in Int /\ n \in Int /\ o \in Int /\ p \in Int
      /\ 0 <= a /\ a < 2 /\ 0 <= b /\ b < 2 /\ 0 <= c /\ c < 2
      /\ 0 <= d /\ d < 2 /\ 0 <= e /\ e < 2 /\ 0 <= f /\ f < 2
      /\ 0 <= g /\ g < 2 /\ 0 <= h /\ h < 2 /\ 0 <= i /\ i < 2
      /\ 0 <= j /\ j < 2 /\ 0 <= k /\ k < 2 /\ 0 <= l /\ l < 2
      /\ 0 <= m /\ m < 2 /\ 0 <= n /\ n < 2 /\ 0 <= o /\ o < 2
      /\ 0 <= p /\ p < 2
  BY <1>a, SMT DEF Bit
<1> DEFINE crc == WordOf(r)
<1>1. PICK hi \in Int : hi = m + 2 * n + 4 * o
  BY <1>0, SMT
<1>2. PICK mid \in Int : mid = f + 2 * g + 4 * h + 8 * i + 16 * j + 32 * k
  BY <1>0, SMT
<1>3. PICK low \in Int : low = a + 2 * b + 4 * c + 8 * d
  BY <1>0, SMT
<1>4. /\ 0 <= hi /\ hi < 8 /\ 0 <= mid /\ mid < 64 /\ 0 <= low /\ low < 16
  BY <1>0, <1>1, <1>2, <1>3, SMT
<1>5. PICK rest \in Int : rest = 4096 * hi + 2048 * l + 32 * mid + 16 * e + low
  BY <1>0, SMT
<1>6. 0 <= rest /\ rest < 32768
  BY <1>0, <1>4, <1>5, SMT
<1>7. crc = 32768 * p + rest
  BY <1>0, <1>1, <1>2, <1>3, <1>5, <1>b, SMT DEF Horner
<1>8. crc \in Word /\ crc \div 32768 = p /\ (2 * crc) % WordModulus = 2 * rest
  BY <1>a, <1>6, <1>7, Doubled
<1>9. Shifted[bit][crc] =
        IF p = bit THEN 2 * rest
        ELSE Toggled(Toggled(Toggled(2 * rest, 4096), 32), 1)
  <2>1. crc \in Nat
    BY <1>8, WordRange
  <2> HIDE DEF crc
  <2> QED
    BY <1>8, <2>1, SMT DEF Shifted, Bit
<1>10. PICK tail \in Int : tail = 64 * mid + 32 * e + 2 * low
  BY <1>0, SMT
<1>11. 0 <= tail /\ tail < 4096
  BY <1>0, <1>4, <1>10, SMT
<1>12. 2 * rest = 8192 * hi + 4096 * l + tail
  BY <1>0, <1>5, <1>10, SMT
<1>13. Toggled(2 * rest, 4096) = 8192 * hi + 4096 * (1 - l) + tail
  BY <1>11, <1>12, Toggled4096, <1>a
<1>14. PICK up \in Int : up = 128 * hi + 64 * (1 - l) + mid
  BY <1>0, SMT
<1>15. PICK least \in Int : least = 2 * low
  BY SMT
<1>16. 0 <= least /\ least < 32
  BY <1>4, <1>15, SMT
<1>17. 8192 * hi + 4096 * (1 - l) + tail = 64 * up + 32 * e + least
  BY <1>0, <1>10, <1>14, <1>15, SMT
<1>18. Toggled(Toggled(2 * rest, 4096), 32) = 64 * up + 32 * (1 - e) + least
  BY <1>13, <1>16, <1>17, Toggled32, <1>a
<1>19. PICK half \in Int : half = 32 * up + 16 * (1 - e) + low
  BY <1>0, SMT
<1>20. 64 * up + 32 * (1 - e) + least = 2 * half
  BY <1>0, <1>15, <1>19, SMT
<1>21. Toggled(Toggled(Toggled(2 * rest, 4096), 32), 1) = 2 * half + 1
  BY <1>18, <1>20, Toggled1
<1>22. CASE p = bit
  <2>1. out = 0 /\ Differ(e, 0) = e /\ Differ(l, 0) = l
    BY <1>a, <1>d, <1>22, SMT DEF Differ, Bit
  <2>2. Horner(0, a, b, c, d, e, f, g, h, i, j, k, l, m, n, o) = 2 * rest
    BY <1>0, <1>1, <1>2, <1>3, <1>5, SMT DEF Horner
  <2> QED
    BY <1>c, <1>f, <1>8, <1>9, <1>22, <2>1, <2>2
<1>23. CASE p # bit
  <2>1. out = 1 /\ Differ(e, 1) = 1 - e /\ Differ(l, 1) = 1 - l
    BY <1>a, <1>d, <1>23, SMT DEF Differ, Bit
  <2>2. Horner(1, a, b, c, d, 1 - e, f, g, h, i, j, k, 1 - l, m, n, o)
          = 2 * half + 1
    BY <1>0, <1>1, <1>2, <1>3, <1>14, <1>19, SMT DEF Horner
  <2> QED
    BY <1>c, <1>f, <1>8, <1>9, <1>21, <1>23, <2>1, <2>2
<1> QED
  BY <1>8, <1>22, <1>23

LEMMA HalfOf ==
    ASSUME NEW n \in Int, 0 <= n
    PROVE  \E h \in Int : n = (n % 2) + 2 * h /\ 0 <= h /\ n % 2 \in Bit
<1>1. n % 2 \in Bit
  BY SMT DEF Bit
<1>2. /\ n \div 2 \in Int /\ 0 <= n \div 2 /\ n = (n % 2) + 2 * (n \div 2)
  BY SMT
<1> QED
  BY <1>1, <1>2

(* Every word is its bits.                                                 *)
LEMMA RegisterOf ==
    ASSUME NEW w \in Word
    PROVE  \E r \in Registers : w = WordOf(r)
<1>0. w \in Int /\ 0 <= w /\ w < 65536
  BY WordRange
<1>1. PICK h1 \in Int :
        w = (w % 2) + 2 * h1 /\ 0 <= h1 /\ w % 2 \in Bit
  BY <1>0, HalfOf
<1>2. PICK h2 \in Int :
        h1 = (h1 % 2) + 2 * h2 /\ 0 <= h2 /\ h1 % 2 \in Bit
  BY <1>1, HalfOf
<1>3. PICK h3 \in Int :
        h2 = (h2 % 2) + 2 * h3 /\ 0 <= h3 /\ h2 % 2 \in Bit
  BY <1>2, HalfOf
<1>4. PICK h4 \in Int :
        h3 = (h3 % 2) + 2 * h4 /\ 0 <= h4 /\ h3 % 2 \in Bit
  BY <1>3, HalfOf
<1>5. PICK h5 \in Int :
        h4 = (h4 % 2) + 2 * h5 /\ 0 <= h5 /\ h4 % 2 \in Bit
  BY <1>4, HalfOf
<1>6. PICK h6 \in Int :
        h5 = (h5 % 2) + 2 * h6 /\ 0 <= h6 /\ h5 % 2 \in Bit
  BY <1>5, HalfOf
<1>7. PICK h7 \in Int :
        h6 = (h6 % 2) + 2 * h7 /\ 0 <= h7 /\ h6 % 2 \in Bit
  BY <1>6, HalfOf
<1>8. PICK h8 \in Int :
        h7 = (h7 % 2) + 2 * h8 /\ 0 <= h8 /\ h7 % 2 \in Bit
  BY <1>7, HalfOf
<1>9. PICK h9 \in Int :
        h8 = (h8 % 2) + 2 * h9 /\ 0 <= h9 /\ h8 % 2 \in Bit
  BY <1>8, HalfOf
<1>10. PICK h10 \in Int :
        h9 = (h9 % 2) + 2 * h10 /\ 0 <= h10 /\ h9 % 2 \in Bit
  BY <1>9, HalfOf
<1>11. PICK h11 \in Int :
        h10 = (h10 % 2) + 2 * h11 /\ 0 <= h11 /\ h10 % 2 \in Bit
  BY <1>10, HalfOf
<1>12. PICK h12 \in Int :
        h11 = (h11 % 2) + 2 * h12 /\ 0 <= h12 /\ h11 % 2 \in Bit
  BY <1>11, HalfOf
<1>13. PICK h13 \in Int :
        h12 = (h12 % 2) + 2 * h13 /\ 0 <= h13 /\ h12 % 2 \in Bit
  BY <1>12, HalfOf
<1>14. PICK h14 \in Int :
        h13 = (h13 % 2) + 2 * h14 /\ 0 <= h14 /\ h13 % 2 \in Bit
  BY <1>13, HalfOf
<1>15. PICK h15 \in Int :
        h14 = (h14 % 2) + 2 * h15 /\ 0 <= h15 /\ h14 % 2 \in Bit
  BY <1>14, HalfOf
<1>16. /\ w >= 2 * h1 /\ h1 >= 2 * h2 /\ h2 >= 2 * h3 /\ h3 >= 2 * h4
       /\ h4 >= 2 * h5 /\ h5 >= 2 * h6 /\ h6 >= 2 * h7 /\ h7 >= 2 * h8
       /\ h8 >= 2 * h9 /\ h9 >= 2 * h10 /\ h10 >= 2 * h11 /\ h11 >= 2 * h12
       /\ h12 >= 2 * h13 /\ h13 >= 2 * h14 /\ h14 >= 2 * h15
  BY <1>0, <1>1, <1>2, <1>3, <1>4, <1>5, <1>6, <1>7, <1>8, <1>9, <1>10, <1>11,
     <1>12, <1>13, <1>14, <1>15, SMT
<1>17. h15 \in Bit
  BY <1>0, <1>15, <1>16, SMT DEF Bit
<1> DEFINE r == <<w % 2, h1 % 2, h2 % 2, h3 % 2, h4 % 2, h5 % 2, h6 % 2, h7 %
             2, h8 % 2, h9 % 2, h10 % 2, h11 % 2, h12 % 2,
             h13 % 2, h14 % 2, h15>>
<1>18. r \in Registers
  BY <1>1, <1>2, <1>3, <1>4, <1>5, <1>6, <1>7, <1>8, <1>9, <1>10, <1>11,
     <1>12, <1>13, <1>14, <1>15, <1>17, SMT DEF Registers
<1>19. w = WordOf(r)
  BY <1>0, <1>1, <1>2, <1>3, <1>4, <1>5, <1>6, <1>7, <1>8, <1>9, <1>10, <1>11,
     <1>12, <1>13, <1>14, <1>15, <1>17, SMT DEF WordOf, Horner
<1> QED
  BY <1>18, <1>19

Agree(f, g, j) == \A k \in 1 .. j : f[k] = g[k]

(* A turn of two registers that come out alike up to a bit fed back the    *)
(* same, and were alike up to the bit below it.                            *)
LEMMA TurnBack ==
    ASSUME NEW f \in Registers, NEW g \in Registers, NEW u \in Bit, NEW v \in Bit,
           NEW j \in 0 .. 15, Agree(Turn(f, u), Turn(g, v), j + 1)
    PROVE  /\ Agree(f, g, j)
           /\ Differ(f[16], u) = Differ(g[16], v)
<1>1. Turn(f, u)[1] = Differ(f[16], u) /\ Turn(g, v)[1] = Differ(g[16], v)
  BY SMT DEF Turn
<1>2. PICK out \in Bit : out = Differ(f[16], u)
  BY SMT DEF Differ, Bit
<1>3. Differ(g[16], v) = out
  <2>1. 1 \in 1 .. j + 1
    BY SMT
  <2> QED
    BY <1>1, <1>2, <2>1 DEF Agree
<1>4. ASSUME NEW k \in 1 .. j
      PROVE  f[k] = g[k]
  <2>1. k + 1 \in 1 .. j + 1 /\ k + 1 \in 1 .. 16 /\ k + 1 # 1 /\ (k + 1) - 1 = k
        /\ k \in 1 .. 16
    BY SMT
  <2>2. Turn(f, u)[k + 1] = Turn(g, v)[k + 1]
    BY <2>1 DEF Agree
  <2>3. /\ Turn(f, u)[k + 1] = IF k + 1 \in {6, 13} THEN Differ(f[k], out) ELSE f[k]
        /\ Turn(g, v)[k + 1] = IF k + 1 \in {6, 13} THEN Differ(g[k], out) ELSE g[k]
    BY <1>2, <1>3, <2>1, SMT DEF Turn
  <2>4. f[k] \in Bit /\ g[k] \in Bit
    BY <2>1 DEF Registers
  <2>5. Differ(f[k], out) = Differ(g[k], out) => f[k] = g[k]
    BY <2>4, SMT DEF Differ, Bit
  <2> QED
    BY <2>2, <2>3, <2>5
<1> QED
  BY <1>2, <1>3, <1>4 DEF Agree

(* Eight of the bits of a register, as a number.                           *)
Octet(r, z) ==
    r[z + 1] + 2 * (r[z + 2] + 2 * (r[z + 3] + 2 * (r[z + 4] + 2 * (r[z + 5]
      + 2 * (r[z + 6] + 2 * (r[z + 7] + 2 * r[z + 8]))))))

LEMMA Peeled ==
    ASSUME NEW a \in Bit, NEW b \in Bit, NEW x \in Int, NEW y \in Int,
           a + 2 * x = b + 2 * y
    PROVE  a = b /\ x = y
BY SMT DEF Bit

(* The eight bits above z, as a number, tell each of them.                 *)
LEMMA OctetTells ==
    ASSUME NEW r \in Registers, NEW s \in Registers, NEW z \in {0, 8},
           Octet(r, z) = Octet(s, z)
    PROVE  \A k \in 1 .. 8 : r[z + k] = s[z + k]
<1> DEFINE T(f, k) == f[z + k]
           X7(f) == T(f, 7) + 2 * T(f, 8)
           X6(f) == T(f, 6) + 2 * X7(f)
           X5(f) == T(f, 5) + 2 * X6(f)
           X4(f) == T(f, 4) + 2 * X5(f)
           X3(f) == T(f, 3) + 2 * X4(f)
           X2(f) == T(f, 2) + 2 * X3(f)
           X1(f) == T(f, 1) + 2 * X2(f)
<1>1. X1(r) = X1(s)
  BY DEF Octet
<1>2. ASSUME NEW f \in Registers, NEW k \in 1 .. 8
      PROVE  T(f, k) \in Bit
  BY SMT DEF Registers
<1>3. \A k : k \in 1 .. 8 <=> k \in {1, 2, 3, 4, 5, 6, 7, 8}
  BY SMT
<1> HIDE DEF T
<1>4. ASSUME NEW f \in Registers
      PROVE  /\ T(f, 8) \in Int /\ X7(f) \in Int /\ X6(f) \in Int
             /\ X5(f) \in Int /\ X4(f) \in Int /\ X3(f) \in Int /\ X2(f) \in Int
  <2>1. \A k \in 1 .. 8 : T(f, k) \in Int
    BY <1>2, SMT DEF Bit
  <2>2. /\ T(f, 1) \in Int /\ T(f, 2) \in Int /\ T(f, 3) \in Int /\ T(f, 4) \in Int
        /\ T(f, 5) \in Int /\ T(f, 6) \in Int /\ T(f, 7) \in Int /\ T(f, 8) \in Int
    BY <1>3, <2>1
  <2> QED
    BY <2>2, SMT
<1>5. /\ T(r, 1) \in Bit /\ T(r, 2) \in Bit /\ T(r, 3) \in Bit /\ T(r, 4) \in Bit
      /\ T(r, 5) \in Bit /\ T(r, 6) \in Bit /\ T(r, 7) \in Bit /\ T(r, 8) \in Bit
      /\ T(s, 1) \in Bit /\ T(s, 2) \in Bit /\ T(s, 3) \in Bit /\ T(s, 4) \in Bit
      /\ T(s, 5) \in Bit /\ T(s, 6) \in Bit /\ T(s, 7) \in Bit /\ T(s, 8) \in Bit
  BY <1>2, <1>3
<1> HIDE DEF X7, X6, X5, X4, X3, X2, X1
<1>11. T(r, 1) = T(s, 1) /\ X2(r) = X2(s)
  BY <1>1, <1>4, <1>5, Peeled DEF X1
<1>12. T(r, 2) = T(s, 2) /\ X3(r) = X3(s)
  BY <1>11, <1>4, <1>5, Peeled DEF X2
<1>13. T(r, 3) = T(s, 3) /\ X4(r) = X4(s)
  BY <1>12, <1>4, <1>5, Peeled DEF X3
<1>14. T(r, 4) = T(s, 4) /\ X5(r) = X5(s)
  BY <1>13, <1>4, <1>5, Peeled DEF X4
<1>15. T(r, 5) = T(s, 5) /\ X6(r) = X6(s)
  BY <1>14, <1>4, <1>5, Peeled DEF X5
<1>16. T(r, 6) = T(s, 6) /\ X7(r) = X7(s)
  BY <1>15, <1>4, <1>5, Peeled DEF X6
<1>17. T(r, 7) = T(s, 7) /\ T(r, 8) = T(s, 8)
  BY <1>16, <1>4, <1>5, Peeled DEF X7
<1> QED
  BY <1>3, <1>11, <1>12, <1>13, <1>14, <1>15, <1>16, <1>17 DEF T

LEMMA OctetRange ==
    ASSUME NEW r \in Registers, NEW z \in {0, 8}
    PROVE  Octet(r, z) \in Int /\ 0 <= Octet(r, z) /\ Octet(r, z) < 256
<1> DEFINE a == r[z + 1]  b == r[z + 2]  c == r[z + 3]  d == r[z + 4]
           e == r[z + 5]  f == r[z + 6]  g == r[z + 7]  h == r[z + 8]
<1>1. /\ a \in Bit /\ b \in Bit /\ c \in Bit /\ d \in Bit
      /\ e \in Bit /\ f \in Bit /\ g \in Bit /\ h \in Bit
  <2>1. \A k \in {1, 2, 3, 4, 5, 6, 7, 8} : z + k \in 1 .. 16
    BY SMT
  <2> QED
    BY <2>1 DEF Registers
<1>2. Octet(r, z) = a + 2 * (b + 2 * (c + 2 * (d + 2 * (e + 2 * (f
                      + 2 * (g + 2 * h))))))
  BY DEF Octet
<1> HIDE DEF a, b, c, d, e, f, g, h
<1>3. /\ a \in Int /\ 0 <= a /\ a < 2 /\ b \in Int /\ 0 <= b /\ b < 2
      /\ c \in Int /\ 0 <= c /\ c < 2 /\ d \in Int /\ 0 <= d /\ d < 2
      /\ e \in Int /\ 0 <= e /\ e < 2 /\ f \in Int /\ 0 <= f /\ f < 2
      /\ g \in Int /\ 0 <= g /\ g < 2 /\ h \in Int /\ 0 <= h /\ h < 2
  BY <1>1, SMT DEF Bit
<1> QED
  BY <1>2, <1>3, SMT

(* A word is its high byte and its low byte.                               *)
LEMMA TwoOctets ==
    ASSUME NEW r \in Registers
    PROVE  /\ WordOf(r) = Octet(r, 0) + 256 * Octet(r, 8)
           /\ WordOf(r) % 256 = Octet(r, 0)
           /\ WordOf(r) \div 256 = Octet(r, 8)
<1>2. WordOf(r) = Octet(r, 0) + 256 * Octet(r, 8)
  <2> DEFINE a == r[1]  b == r[2]  c == r[3]  d == r[4]
           e == r[5]  f == r[6]  g == r[7]  h == r[8]
           i == r[9]  j == r[10]  k == r[11]  l == r[12]
           m == r[13]  n == r[14]  o == r[15]  p == r[16]
  <2>1. \A z \in Bit : z \in Int
    BY SMT DEF Bit
  <2>2. /\ a \in Int /\ b \in Int /\ c \in Int /\ d \in Int
        /\ e \in Int /\ f \in Int /\ g \in Int /\ h \in Int
        /\ i \in Int /\ j \in Int /\ k \in Int /\ l \in Int
        /\ m \in Int /\ n \in Int /\ o \in Int /\ p \in Int
    BY <2>1, RegisterBits
  <2>3. WordOf(r) = Horner(a, b, c, d, e, f, g, h, i, j, k, l, m, n, o, p)
    BY DEF WordOf
  <2>4. /\ Octet(r, 0) = a + 2 * (b + 2 * (c + 2 * (d + 2 * (e + 2 * (f
                           + 2 * (g + 2 * h))))))
        /\ Octet(r, 8) = i + 2 * (j + 2 * (k + 2 * (l + 2 * (m + 2 * (n
                           + 2 * (o + 2 * p))))))
    <3>1. /\ 0 + 1 = 1 /\ 0 + 2 = 2 /\ 0 + 3 = 3 /\ 0 + 4 = 4
          /\ 0 + 5 = 5 /\ 0 + 6 = 6 /\ 0 + 7 = 7 /\ 0 + 8 = 8
          /\ 8 + 1 = 9 /\ 8 + 2 = 10 /\ 8 + 3 = 11 /\ 8 + 4 = 12
          /\ 8 + 5 = 13 /\ 8 + 6 = 14 /\ 8 + 7 = 15 /\ 8 + 8 = 16
      BY SMT
    <3> QED
      BY <3>1 DEF Octet
  <2> HIDE DEF a, b, c, d, e, f, g, h, i, j, k, l, m, n, o, p
  <2> QED
    BY <2>2, <2>3, <2>4, SMT DEF Horner
<1>3. PICK lo \in Int : lo = Octet(r, 0) /\ 0 <= lo /\ lo < 256
  BY OctetRange
<1>4. PICK hi \in Int : hi = Octet(r, 8)
  BY OctetRange
<1>5. (lo + 256 * hi) % 256 = lo /\ (lo + 256 * hi) \div 256 = hi
  BY <1>3, SMT
<1> QED
  BY <1>2, <1>3, <1>4, <1>5

(* The low byte of a word is its first eight bits, and the word all.       *)
LEMMA LowByteOf ==
    ASSUME NEW r \in Registers, NEW s \in Registers
    PROVE  /\ WordOf(r) % 256 = WordOf(s) % 256 <=> Agree(r, s, 8)
           /\ WordOf(r) = WordOf(s) => r = s
<1>1. ASSUME WordOf(r) % 256 = WordOf(s) % 256
      PROVE  Agree(r, s, 8)
  <2>1. \A k \in 1 .. 8 : r[0 + k] = s[0 + k]
    BY <1>1, TwoOctets, OctetTells
  <2>2. \A k \in 1 .. 8 : 0 + k = k
    BY SMT
  <2> QED
    BY <2>1, <2>2 DEF Agree
<1>2. ASSUME Agree(r, s, 8)
      PROVE  WordOf(r) % 256 = WordOf(s) % 256
  <2>1. Octet(r, 0) = Octet(s, 0)
    BY <1>2, SMT DEF Agree, Octet
  <2> QED
    BY <2>1, TwoOctets
<1>3. ASSUME WordOf(r) = WordOf(s)
      PROVE  r = s
  <2>1. Agree(r, s, 8)
    BY <1>1, <1>3
  <2>2. \A k \in 1 .. 8 : r[8 + k] = s[8 + k]
    BY <1>3, TwoOctets, OctetTells
  <2>3. ASSUME NEW k \in 1 .. 16
        PROVE  r[k] = s[k]
    <3>1. CASE k <= 8
      BY <2>1, <3>1, SMT DEF Agree
    <3>2. CASE k > 8
      <4>1. k - 8 \in 1 .. 8 /\ 8 + (k - 8) = k
        BY <3>2, SMT
      <4> QED
        BY <2>2, <4>1
    <3> QED
      BY <3>1, <3>2, SMT
  <2> QED
    BY <2>3, SMT DEF Registers
<1> QED
  BY <1>1, <1>2, <1>3

(* Through a byte a register makes eight turns.                            *)
LEMMA EightTurns ==
    ASSUME NEW x \in Word, NEW a \in Byte
    PROVE  \E r \in [0 .. 8 -> Registers] :
             /\ x = WordOf(r[0])
             /\ \A k \in 1 .. 8 : r[k] = Turn(r[k - 1], Bits[a][k])
             /\ CrcByte(x, a) = WordOf(r[8])
<1>1. /\ Bits[a][1] \in Bit /\ Bits[a][2] \in Bit /\ Bits[a][3] \in Bit
      /\ Bits[a][4] \in Bit /\ Bits[a][5] \in Bit /\ Bits[a][6] \in Bit
      /\ Bits[a][7] \in Bit /\ Bits[a][8] \in Bit
  <2>1. \A k \in {1, 2, 3, 4, 5, 6, 7, 8} : k \in 1 .. 8
    BY SMT
  <2> QED
    BY <2>1, BitsType
<1>2. PICK r0 \in Registers : x = WordOf(r0)
  BY RegisterOf
<1>3. PICK r1 \in Registers :
        r1 = Turn(r0, Bits[a][1]) /\ WordOf(r1) = Shifted[Bits[a][1]][WordOf(r0)]
  BY <1>1, TurnType, TurnOfWord
<1>4. PICK r2 \in Registers :
        r2 = Turn(r1, Bits[a][2]) /\ WordOf(r2) = Shifted[Bits[a][2]][WordOf(r1)]
  BY <1>1, TurnType, TurnOfWord
<1>5. PICK r3 \in Registers :
        r3 = Turn(r2, Bits[a][3]) /\ WordOf(r3) = Shifted[Bits[a][3]][WordOf(r2)]
  BY <1>1, TurnType, TurnOfWord
<1>6. PICK r4 \in Registers :
        r4 = Turn(r3, Bits[a][4]) /\ WordOf(r4) = Shifted[Bits[a][4]][WordOf(r3)]
  BY <1>1, TurnType, TurnOfWord
<1>7. PICK r5 \in Registers :
        r5 = Turn(r4, Bits[a][5]) /\ WordOf(r5) = Shifted[Bits[a][5]][WordOf(r4)]
  BY <1>1, TurnType, TurnOfWord
<1>8. PICK r6 \in Registers :
        r6 = Turn(r5, Bits[a][6]) /\ WordOf(r6) = Shifted[Bits[a][6]][WordOf(r5)]
  BY <1>1, TurnType, TurnOfWord
<1>9. PICK r7 \in Registers :
        r7 = Turn(r6, Bits[a][7]) /\ WordOf(r7) = Shifted[Bits[a][7]][WordOf(r6)]
  BY <1>1, TurnType, TurnOfWord
<1>10. PICK r8 \in Registers :
        r8 = Turn(r7, Bits[a][8]) /\ WordOf(r8) = Shifted[Bits[a][8]][WordOf(r7)]
  BY <1>1, TurnType, TurnOfWord
<1>11. CrcByte(x, a) = WordOf(r8)
  BY <1>2, <1>3, <1>4, <1>5, <1>6, <1>7, <1>8, <1>9, <1>10, ZenonT(60) DEF CrcByte
<1> DEFINE r == [k \in 0 .. 8 |->
                   IF k = 0 THEN r0 ELSE IF k = 1 THEN r1 ELSE IF k = 2 THEN r2
                   ELSE IF k = 3 THEN r3 ELSE IF k = 4 THEN r4
                   ELSE IF k = 5 THEN r5 ELSE IF k = 6 THEN r6
                   ELSE IF k = 7 THEN r7 ELSE r8]
<1>12. r \in [0 .. 8 -> Registers]
  BY SMT
<1>13. /\ r[0] = r0 /\ r[1] = r1 /\ r[2] = r2 /\ r[3] = r3 /\ r[4] = r4
       /\ r[5] = r5 /\ r[6] = r6 /\ r[7] = r7 /\ r[8] = r8
  BY SMT
<1> HIDE DEF r
<1>14. ASSUME NEW k \in 1 .. 8
       PROVE  r[k] = Turn(r[k - 1], Bits[a][k])
  <2>1. /\ 8 - 1 = 7 /\ 7 - 1 = 6 /\ 6 - 1 = 5 /\ 5 - 1 = 4 /\ 4 - 1 = 3
        /\ 3 - 1 = 2 /\ 2 - 1 = 1 /\ 1 - 1 = 0
        /\ k \in {1, 2, 3, 4, 5, 6, 7, 8}
    BY SMT
  <2> QED
    BY <1>3, <1>4, <1>5, <1>6, <1>7, <1>8, <1>9, <1>10, <1>13, <2>1, ZenonT(60)
<1> QED
  BY <1>2, <1>11, <1>12, <1>13, <1>14

LEMMA CrcByteType ==
    ASSUME NEW x \in Word, NEW a \in Byte
    PROVE  CrcByte(x, a) \in Word
<1>1. PICK r \in [0 .. 8 -> Registers] : CrcByte(x, a) = WordOf(r[8])
  BY EightTurns
<1>2. r[8] \in Registers /\ 0 \in Bit
  BY SMT DEF Bit
<1> QED
  BY <1>1, <1>2, TurnOfWord

(* Backwards through eight turns.                                          *)
LEMMA ByteBack ==
    ASSUME NEW a \in Byte, NEW b \in Byte,
           NEW r \in [0 .. 8 -> Registers], NEW s \in [0 .. 8 -> Registers],
           \A k \in 1 .. 8 : r[k] = Turn(r[k - 1], Bits[a][k]),
           \A k \in 1 .. 8 : s[k] = Turn(s[k - 1], Bits[b][k]),
           NEW j \in {0, 8}, Agree(r[8], s[8], j + 8)
    PROVE  /\ Agree(r[0], s[0], j)
           /\ \A k \in 1 .. 8 : Differ(r[k - 1][16], Bits[a][k])
                                   = Differ(s[k - 1][16], Bits[b][k])
<1>1. ASSUME NEW k \in 1 .. 8, Agree(r[k], s[k], j + k)
      PROVE  /\ Agree(r[k - 1], s[k - 1], j + (k - 1))
             /\ Differ(r[k - 1][16], Bits[a][k]) = Differ(s[k - 1][16], Bits[b][k])
  <2>1. /\ k - 1 \in 0 .. 8 /\ j + (k - 1) \in 0 .. 15
        /\ j + k = (j + (k - 1)) + 1
    BY SMT
  <2>2. /\ r[k - 1] \in Registers /\ s[k - 1] \in Registers
        /\ Bits[a][k] \in Bit /\ Bits[b][k] \in Bit
    BY <2>1, BitsType
  <2>3. Agree(Turn(r[k - 1], Bits[a][k]), Turn(s[k - 1], Bits[b][k]),
              (j + (k - 1)) + 1)
    BY <1>1, <2>1
  <2>4. PICK f \in Registers, g \in Registers, u \in Bit, v \in Bit, i \in 0 .. 15 :
            /\ f = r[k - 1] /\ g = s[k - 1] /\ u = Bits[a][k] /\ v = Bits[b][k]
            /\ i = j + (k - 1)
    BY <2>1, <2>2
  <2>5. Agree(Turn(f, u), Turn(g, v), i + 1)
    BY <2>3, <2>4
  <2>6. Agree(f, g, i) /\ Differ(f[16], u) = Differ(g[16], v)
    BY <2>5, TurnBack
  <2> QED
    BY <2>4, <2>6
<1>2. /\ 8 - 1 = 7 /\ 7 - 1 = 6 /\ 6 - 1 = 5 /\ 5 - 1 = 4 /\ 4 - 1 = 3 /\ 3 - 1 = 2
      /\ 2 - 1 = 1 /\ 1 - 1 = 0 /\ j + 0 = j
      /\ \A k : k \in 1 .. 8 <=> k \in {1, 2, 3, 4, 5, 6, 7, 8}
  BY SMT
<1>3. Agree(r[7], s[7], j + 7)
  BY <1>1, <1>2
<1>4. Agree(r[6], s[6], j + 6)
  BY <1>1, <1>2, <1>3
<1>5. Agree(r[5], s[5], j + 5)
  BY <1>1, <1>2, <1>4
<1>6. Agree(r[4], s[4], j + 4)
  BY <1>1, <1>2, <1>5
<1>7. Agree(r[3], s[3], j + 3)
  BY <1>1, <1>2, <1>6
<1>8. Agree(r[2], s[2], j + 2)
  BY <1>1, <1>2, <1>7
<1>9. Agree(r[1], s[1], j + 1)
  BY <1>1, <1>2, <1>8
<1>10. Agree(r[0], s[0], j)
  BY <1>1, <1>2, <1>9
<1> QED
  BY <1>1, <1>2, <1>3, <1>4, <1>5, <1>6, <1>7, <1>8, <1>9, <1>10

(* The register after a byte gives away the low byte of the one before.    *)
LEMMA BeforeTheByte ==
    ASSUME NEW x \in Word, NEW y \in Word, NEW a \in Byte, NEW b \in Byte,
           CrcByte(x, a) = CrcByte(y, b)
    PROVE  x % 256 = y % 256
<1>1. PICK r \in [0 .. 8 -> Registers] :
             /\ x = WordOf(r[0])
             /\ \A k \in 1 .. 8 : r[k] = Turn(r[k - 1], Bits[a][k])
             /\ CrcByte(x, a) = WordOf(r[8])
  BY EightTurns
<1>2. PICK s \in [0 .. 8 -> Registers] :
             /\ y = WordOf(s[0])
             /\ \A k \in 1 .. 8 : s[k] = Turn(s[k - 1], Bits[b][k])
             /\ CrcByte(y, b) = WordOf(s[8])
  BY EightTurns
<1>3. /\ r[0] \in Registers /\ r[8] \in Registers
      /\ s[0] \in Registers /\ s[8] \in Registers
  BY SMT
<1>4. Agree(r[8], s[8], 8 + 8)
  BY <1>1, <1>2, <1>3, LowByteOf DEF Agree
<1>5. Agree(r[0], s[0], 8)
  BY <1>1, <1>2, <1>4, ByteBack
<1> QED
  BY <1>1, <1>2, <1>3, <1>5, LowByteOf

(* After the same register another byte leaves another low byte.           *)
LEMMA ByteTells ==
    ASSUME NEW x \in Word, NEW a \in Byte, NEW b \in Byte,
           CrcByte(x, a) % 256 = CrcByte(x, b) % 256
    PROVE  a = b
<1>1. PICK r \in [0 .. 8 -> Registers] :
             /\ x = WordOf(r[0])
             /\ \A k \in 1 .. 8 : r[k] = Turn(r[k - 1], Bits[a][k])
             /\ CrcByte(x, a) = WordOf(r[8])
  BY EightTurns
<1>2. PICK s \in [0 .. 8 -> Registers] :
             /\ x = WordOf(s[0])
             /\ \A k \in 1 .. 8 : s[k] = Turn(s[k - 1], Bits[b][k])
             /\ CrcByte(x, b) = WordOf(s[8])
  BY EightTurns
<1>3. /\ r[0] \in Registers /\ r[8] \in Registers
      /\ s[0] \in Registers /\ s[8] \in Registers
  BY SMT
<1>4. Agree(r[8], s[8], 0 + 8)
  <2>1. 0 + 8 = 8
    BY SMT
  <2> QED
    BY <1>1, <1>2, <1>3, <2>1, LowByteOf
<1>5. \A k \in 1 .. 8 : Differ(r[k - 1][16], Bits[a][k])
                           = Differ(s[k - 1][16], Bits[b][k])
  BY <1>1, <1>2, <1>4, ByteBack
<1>6. r[0] = s[0]
  BY <1>1, <1>2, <1>3, LowByteOf, ZenonT(60)
<1>7. ASSUME NEW k \in 1 .. 8, r[k - 1] = s[k - 1]
      PROVE  Bits[a][k] = Bits[b][k] /\ r[k] = s[k]
  <2>1. k - 1 \in 0 .. 8
    BY SMT
  <2>2. PICK top \in Bit : top = r[k - 1][16] /\ top = s[k - 1][16]
    BY <1>7, <2>1, RegisterBits
  <2>3. Differ(top, Bits[a][k]) = Differ(top, Bits[b][k])
    BY <1>5, <2>2
  <2>4. Bits[a][k] \in Bit /\ Bits[b][k] \in Bit
    BY BitsType
  <2>5. Bits[a][k] = Bits[b][k]
    BY <2>3, <2>4, SMT DEF Differ, Bit
  <2> QED
    BY <1>1, <1>2, <1>7, <2>5
<1>8. /\ 8 - 1 = 7 /\ 7 - 1 = 6 /\ 6 - 1 = 5 /\ 5 - 1 = 4 /\ 4 - 1 = 3 /\ 3 - 1 = 2
      /\ 2 - 1 = 1 /\ 1 - 1 = 0
      /\ \A k : k \in 1 .. 8 <=> k \in {1, 2, 3, 4, 5, 6, 7, 8}
  BY SMT
<1>9. r[1] = s[1] /\ r[2] = s[2] /\ r[3] = s[3] /\ r[4] = s[4]
  BY <1>6, <1>7, <1>8
<1>10. r[5] = s[5] /\ r[6] = s[6] /\ r[7] = s[7]
  BY <1>7, <1>8, <1>9
<1>11. \A k \in 1 .. 8 : Bits[a][k] = Bits[b][k]
  BY <1>6, <1>7, <1>8, <1>9, <1>10
<1> QED
  BY <1>11, BitsTell

(* The same byte takes different registers to different ones.              *)
LEMMA CrcByteInjective ==
    ASSUME NEW x \in Word, NEW y \in Word, NEW a \in Byte,
           CrcByte(x, a) = CrcByte(y, a)
    PROVE  x = y
<1>1. PICK r \in [0 .. 8 -> Registers] :
             /\ x = WordOf(r[0])
             /\ \A k \in 1 .. 8 : r[k] = Turn(r[k - 1], Bits[a][k])
             /\ CrcByte(x, a) = WordOf(r[8])
  BY EightTurns
<1>2. PICK s \in [0 .. 8 -> Registers] :
             /\ y = WordOf(s[0])
             /\ \A k \in 1 .. 8 : s[k] = Turn(s[k - 1], Bits[a][k])
             /\ CrcByte(y, a) = WordOf(s[8])
  BY EightTurns
<1>3. r[8] = s[8]
  <2>1. r[8] \in Registers /\ s[8] \in Registers
    BY SMT
  <2> QED
    BY <1>1, <1>2, <2>1, LowByteOf
<1>4. ASSUME NEW k \in 1 .. 8, r[k] = s[k]
      PROVE  r[k - 1] = s[k - 1]
  <2>1. k - 1 \in 0 .. 8 /\ 15 \in 0 .. 15
    BY SMT
  <2>2. PICK f \in Registers, g \in Registers : f = r[k - 1] /\ g = s[k - 1]
    BY <2>1
  <2>3. PICK u \in Bit : u = Bits[a][k]
    BY BitsType
  <2>4. Agree(Turn(f, u), Turn(g, u), 15 + 1)
    BY <1>1, <1>2, <1>4, <2>2, <2>3 DEF Agree
  <2>5. Agree(f, g, 15) /\ Differ(f[16], u) = Differ(g[16], u)
    BY <2>1, <2>4, TurnBack
  <2>6. f[16] = g[16]
    BY <2>5, RegisterBits, SMT DEF Differ, Bit
  <2>7. f = g
    BY <2>5, <2>6, SMT DEF Agree, Registers
  <2> QED
    BY <2>2, <2>7
<1>5. /\ 8 - 1 = 7 /\ 7 - 1 = 6 /\ 6 - 1 = 5 /\ 5 - 1 = 4 /\ 4 - 1 = 3 /\ 3 - 1 = 2
      /\ 2 - 1 = 1 /\ 1 - 1 = 0
      /\ \A k : k \in 1 .. 8 <=> k \in {1, 2, 3, 4, 5, 6, 7, 8}
  BY SMT
<1>6. r[7] = s[7]
  <2>1. 8 \in 1 .. 8
    BY SMT
  <2>2. r[8 - 1] = s[8 - 1]
    BY <1>3, <1>4, <2>1
  <2> QED
    BY <1>5, <2>2
<1>7. r[6] = s[6]
  BY <1>4, <1>5, <1>6
<1>8. r[5] = s[5]
  BY <1>4, <1>5, <1>7
<1>9. r[4] = s[4]
  BY <1>4, <1>5, <1>8
<1>10. r[3] = s[3]
  BY <1>4, <1>5, <1>9
<1>11. r[2] = s[2]
  BY <1>4, <1>5, <1>10
<1>12. r[1] = s[1]
  BY <1>4, <1>5, <1>11
<1>13. r[0] = s[0]
  BY <1>4, <1>5, <1>12
<1> QED
  BY <1>1, <1>2, <1>13

(* Two bytes after the same register are told apart by it.                 *)
LEMMA TwoBytesTell ==
    ASSUME NEW x \in Word, NEW a1 \in Byte, NEW a2 \in Byte,
           NEW b1 \in Byte, NEW b2 \in Byte,
           CrcByte(CrcByte(x, a1), a2) = CrcByte(CrcByte(x, b1), b2)
    PROVE  a1 = b1 /\ a2 = b2
<1>1. PICK y \in Word, z \in Word : y = CrcByte(x, a1) /\ z = CrcByte(x, b1)
  BY CrcByteType
<1>2. y % 256 = z % 256
  BY <1>1, BeforeTheByte
<1>3. a1 = b1
  BY <1>1, <1>2, ByteTells
<1>4. CrcByte(y, a2) % 256 = CrcByte(y, b2) % 256
  BY <1>1, <1>3
<1> QED
  BY <1>3, <1>4, ByteTells

-----------------------------------------------------------------------------
(* Functions defined by recursion on 0 .. n.                               *)

(* Induction up to n, and with it that a fold of n steps exists.           *)
LEMMA UpTo ==
    ASSUME NEW n \in Nat, NEW S, 0 \in S, \A i \in 1 .. n : i - 1 \in S => i \in S
    PROVE  \A i \in 0 .. n : i \in S
<1> DEFINE Bad == {i \in 0 .. n : i \notin S}
<1>1. SUFFICES ASSUME Bad # {}
               PROVE  FALSE
  OBVIOUS
<1>2. Bad \in SUBSET Nat
  BY SMT
<1>3. PICK m \in Bad : \A k \in Bad : ~(k < m)
  BY <1>1, <1>2, LeastNumber
<1>4. m \in 1 .. n /\ m - 1 \in 0 .. n /\ m - 1 < m
  BY <1>3, SMT
<1> QED
  BY <1>3, <1>4

Foldable(n, X, x0, g) ==
    \E f \in [0 .. n -> X] :
        f[0] = x0 /\ \A i \in 1 .. n : f[i] = g[i][f[i - 1]]

LEMMA FoldExists ==
    ASSUME NEW n \in Nat, NEW X, NEW x0 \in X, NEW g \in [1 .. n -> [X -> X]]
    PROVE  Foldable(n, X, x0, g)
<1> DEFINE Good(f, m) == /\ f \in [0 .. m -> X]
                         /\ f[0] = x0
                         /\ \A i \in 1 .. m : f[i] = g[i][f[i - 1]]
           Bad == {m \in 0 .. n : ~ \E f : Good(f, m)}
<1>1. SUFFICES Bad = {}
  <2>1. n \in 0 .. n
    BY SMT
  <2> QED
    BY <1>1, <2>1 DEF Foldable
<1>2. SUFFICES ASSUME Bad # {}
               PROVE  FALSE
  OBVIOUS
<1>3. Bad \in SUBSET Nat
  BY SMT
<1>4. PICK m \in Bad : \A k \in Bad : ~(k < m)
  BY <1>2, <1>3, LeastNumber
<1>5. m \in 0 .. n /\ m \in Nat
  BY <1>4, SMT
<1>6. CASE m = 0
  <2> DEFINE f == [i \in 0 .. 0 |-> x0]
  <2>1. Good(f, 0)
    BY SMT
  <2> QED
    BY <1>4, <1>6, <2>1
<1>7. CASE m # 0
  <2>1. m - 1 \in 0 .. n /\ m - 1 < m /\ m \in 1 .. n
    BY <1>5, <1>7, SMT
  <2>2. PICK f : Good(f, m - 1)
    BY <1>4, <2>1
  <2> DEFINE h == [i \in 0 .. m |-> IF i = m THEN g[m][f[m - 1]] ELSE f[i]]
  <2>3. g[m] \in [X -> X] /\ f[m - 1] \in X
    BY <2>1, <2>2, SMT
  <2>4. h \in [0 .. m -> X]
    BY <2>1, <2>2, <2>3, SMT
  <2>5. h[0] = x0
    BY <1>5, <1>7, <2>2, SMT
  <2>6. ASSUME NEW i \in 1 .. m
        PROVE  h[i] = g[i][h[i - 1]]
    <3>1. i - 1 \in 0 .. m /\ i \in 0 .. m /\ i - 1 # m
      BY <1>5, SMT
    <3>2. h[i - 1] = f[i - 1]
      BY <3>1
    <3>3. CASE i = m
      BY <3>1, <3>2, <3>3
    <3>4. CASE i # m
      <4>1. i \in 1 .. m - 1
        BY <1>5, <3>4, SMT
      <4> QED
        BY <2>2, <3>1, <3>2, <3>4, <4>1
    <3> QED
      BY <3>3, <3>4
  <2>7. Good(h, m)
    BY <2>4, <2>5, <2>6
  <2> QED
    BY <1>4, <2>7
<1> QED
  BY <1>6, <1>7

(* The register after each byte.                                           *)
LEMMA CrcSteps ==
    ASSUME NEW bytes \in Seq(Byte)
    PROVE  \E f \in [0 .. Len(bytes) -> Word] :
             /\ f[0] = WordModulus - 1
             /\ \A i \in 1 .. Len(bytes) : f[i] = CrcByte(f[i - 1], bytes[i])
             /\ Crc16(bytes) = f[Len(bytes)]
<1> DEFINE n == Len(bytes)
           F(f) == [i \in 0 .. n |->
                     IF i = 0 THEN WordModulus - 1 ELSE CrcByte(f[i - 1], bytes[i])]
           after == CHOOSE f : f = F(f)
           g == [i \in 1 .. n |-> [x \in Word |-> CrcByte(x, bytes[i])]]
<1>1. Crc16(bytes) = after[n]
  BY DEF Crc16
<1>2. n \in Nat /\ \A i \in 1 .. n : bytes[i] \in Byte
  BY SMT
<1>3. g \in [1 .. n -> [Word -> Word]]
  BY <1>2, CrcByteType
<1>4. WordModulus - 1 \in Word
  BY WordRange, SMT DEF WordModulus
<1>5. PICK f \in [0 .. n -> Word] :
        f[0] = WordModulus - 1 /\ \A i \in 1 .. n : f[i] = g[i][f[i - 1]]
  <2>1. n \in Nat
    BY <1>2
  <2>2. PICK x0 \in Word : x0 = WordModulus - 1
    BY <1>4
  <2> HIDE DEF n, g
  <2>3. Foldable(n, Word, x0, g)
    BY <1>3, <2>1, FoldExists
  <2> QED
    BY <2>2, <2>3 DEF Foldable
<1>6. ASSUME NEW i \in 1 .. n
      PROVE  f[i] = CrcByte(f[i - 1], bytes[i])
  <2>1. f[i - 1] \in Word
    BY <1>2, SMT
  <2> QED
    BY <1>5, <2>1
<1>7. f = F(f)
  <2>1. ASSUME NEW i \in 0 .. n
        PROVE  f[i] = F(f)[i]
    <3>1. CASE i = 0
      BY <1>5, <3>1
    <3>2. CASE i # 0
      <4>1. i \in 1 .. n
        BY <1>2, <3>2, SMT
      <4> QED
        BY <1>6, <3>2, <4>1
    <3> QED
      BY <3>1, <3>2
  <2> QED
    BY <2>1
<1>8. after = F(after)
  BY <1>7
<1> HIDE DEF after
<1>9. after[0] = WordModulus - 1
  BY <1>2, <1>8, SMT
<1>10. ASSUME NEW i \in 1 .. n
       PROVE  after[i] = CrcByte(after[i - 1], bytes[i])
  BY <1>8, SMT
<1> DEFINE S == {i \in 0 .. n : after[i] = f[i]}
<1>11. 0 \in S /\ \A i \in 1 .. n : i - 1 \in S => i \in S
  BY <1>2, <1>5, <1>6, <1>9, <1>10, SMT
<1>12. \A i \in 0 .. n : i \in S
  <2> HIDE DEF S, n
  <2> QED
    BY <1>2, <1>11, UpTo
<1>13. after[n] = f[n]
  BY <1>2, <1>12, SMT
<1> QED
  BY <1>1, <1>5, <1>6, <1>13

(* The number that is read after each byte.                                *)
LEMMA UnsignedSteps ==
    ASSUME NEW bytes \in Seq(Byte)
    PROVE  \E f \in [0 .. Len(bytes) -> Nat] :
             /\ f[0] = 0
             /\ \A i \in 1 .. Len(bytes) : f[i] = 256 * f[i - 1] + bytes[i]
             /\ Unsigned(bytes) = f[Len(bytes)]
<1> DEFINE n == Len(bytes)
           F(f) == [i \in 0 .. n |-> IF i = 0 THEN 0 ELSE 256 * f[i - 1] + bytes[i]]
           upTo == CHOOSE f : f = F(f)
           g == [i \in 1 .. n |-> [x \in Nat |-> 256 * x + bytes[i]]]
<1>1. Unsigned(bytes) = upTo[n]
  BY DEF Unsigned
<1>2. n \in Nat /\ \A i \in 1 .. n : bytes[i] \in Byte
  BY SMT
<1>3. g \in [1 .. n -> [Nat -> Nat]]
  <2>1. ASSUME NEW i \in 1 .. n, NEW x \in Nat
        PROVE  256 * x + bytes[i] \in Nat
    <3>1. PICK b \in Int : b = bytes[i] /\ 0 <= b
      BY <1>2, ByteRange
    <3>2. 256 * x + b \in Nat
      BY <3>1, SMT
    <3> QED
      BY <3>1, <3>2
  <2> QED
    BY <2>1
<1>5. PICK f \in [0 .. n -> Nat] :
        f[0] = 0 /\ \A i \in 1 .. n : f[i] = g[i][f[i - 1]]
  <2>1. n \in Nat /\ 0 \in Nat
    BY <1>2
  <2> HIDE DEF n, g
  <2>3. Foldable(n, Nat, 0, g)
    BY <1>3, <2>1, FoldExists
  <2> QED
    BY <2>3 DEF Foldable
<1>6. ASSUME NEW i \in 1 .. n
      PROVE  f[i] = 256 * f[i - 1] + bytes[i]
  <2>1. f[i - 1] \in Nat
    BY <1>2, SMT
  <2> QED
    BY <1>5, <2>1
<1>7. f = F(f)
  <2>1. ASSUME NEW i \in 0 .. n
        PROVE  f[i] = F(f)[i]
    <3>1. CASE i = 0
      BY <1>5, <3>1
    <3>2. CASE i # 0
      <4>1. i \in 1 .. n
        BY <1>2, <3>2, SMT
      <4> QED
        BY <1>6, <3>2, <4>1
    <3> QED
      BY <3>1, <3>2
  <2> QED
    BY <2>1
<1>8. upTo = F(upTo)
  BY <1>7, ZenonT(60)
<1> HIDE DEF upTo
<1>9. upTo[0] = 0
  BY <1>2, <1>8, SMT
<1>10. ASSUME NEW i \in 1 .. n
       PROVE  upTo[i] = 256 * upTo[i - 1] + bytes[i]
  BY <1>8, SMT
<1> DEFINE S == {i \in 0 .. n : upTo[i] = f[i]}
<1>11. 0 \in S /\ \A i \in 1 .. n : i - 1 \in S => i \in S
  BY <1>2, <1>5, <1>6, <1>9, <1>10, SMT
<1>12. \A i \in 0 .. n : i \in S
  <2> HIDE DEF S, n
  <2> QED
    BY <1>2, <1>11, UpTo
<1>13. upTo[n] = f[n]
  BY <1>2, <1>12, SMT
<1> QED
  BY <1>1, <1>5, <1>6, <1>13

-----------------------------------------------------------------------------
(* Sequences of bytes.                                                     *)

(* Sequences of bytes: as functions, joined, and cut out of another.       *)
LEMMA FunctionSeq ==
    ASSUME NEW S, NEW n \in Nat, NEW b \in [1 .. n -> S]
    PROVE  b \in Seq(S) /\ Len(b) = n
<1>1. b \in Seq(S)
  BY SeqDef, Zenon
<1>2. 1 .. Len(b) = 1 .. n /\ Len(b) \in Nat
  BY <1>1, LenProperties
<1>3. Len(b) = n
  BY <1>2, SMT
<1> QED
  BY <1>1, <1>3

LEMMA Joined ==
    ASSUME NEW S, NEW s \in Seq(S), NEW t \in Seq(S)
    PROVE  /\ s \o t \in Seq(S)
           /\ Len(s \o t) = Len(s) + Len(t)
           /\ Len(s) \in Nat /\ Len(t) \in Nat
           /\ \A k \in 1 .. Len(s) : (s \o t)[k] = s[k]
           /\ \A k \in 1 .. Len(t) : (s \o t)[Len(s) + k] = t[k]
<1> DEFINE u == s \o t
<1>1. /\ u \in Seq(S) /\ Len(u) = Len(s) + Len(t)
      /\ \A i \in 1 .. Len(s) + Len(t) : u[i] =
                     IF i <= Len(s) THEN s[i] ELSE t[i - Len(s)]
  BY ConcatProperties
<1>2. Len(s) \in Nat /\ Len(t) \in Nat
  BY LenProperties
<1> HIDE DEF u
<1>3. ASSUME NEW k \in 1 .. Len(s)
      PROVE  u[k] = s[k]
  BY <1>1, <1>2, SMT
<1>4. ASSUME NEW k \in 1 .. Len(t)
      PROVE  u[Len(s) + k] = t[k]
  <2>1. /\ Len(s) + k \in 1 .. Len(s) + Len(t)
        /\ ~(Len(s) + k <= Len(s)) /\ (Len(s) + k) - Len(s) = k
    BY <1>2, SMT
  <2> QED
    BY <1>1, <2>1
<1> QED
  BY <1>1, <1>2, <1>3, <1>4 DEF u

LEMMA CutOut ==
    ASSUME NEW S, NEW s \in Seq(S), NEW m \in Nat, NEW n \in Nat,
           m # 0, n <= Len(s), m <= n + 1
    PROVE  /\ SubSeq(s, m, n) \in Seq(S)
           /\ Len(SubSeq(s, m, n)) = n - m + 1
           /\ \A k \in 1 .. n - m + 1 : SubSeq(s, m, n)[k] = s[m + k - 1]
<1>1. Len(s) \in Nat
  BY LenProperties
<1>2. \A i \in m .. n : s[i] \in S
  <2>1. \A i \in m .. n : i \in 1 .. Len(s)
    BY <1>1, SMT
  <2> QED
    BY <2>1, ElementOfSeq
<1>3. m \in Int /\ n \in Int /\ (~(m <= n) => n - m + 1 = 0)
  BY SMT
<1>4. /\ SubSeq(s,m,n) \in Seq(S)
      /\ Len(SubSeq(s,m,n)) = IF m <= n THEN n - m + 1 ELSE 0
      /\ \A i \in 1 .. n - m + 1 : SubSeq(s, m, n)[i] = s[m + i - 1]
  BY <1>2, <1>3, SubSeqProperties
<1> QED
  BY <1>3, <1>4

-----------------------------------------------------------------------------
(* What the CRC notices.                                                   *)

LEMMA CrcType ==
    ASSUME NEW bytes \in Seq(Byte)
    PROVE  Crc16(bytes) \in Word
<1>1. Len(bytes) \in 0 .. Len(bytes)
  BY SMT
<1> QED
  BY <1>1, CrcSteps

(* A change of two neighbouring bytes, or of one of them.                  *)
LEMMA CrcDiffers ==
    ASSUME NEW c \in Seq(Byte), NEW d \in Seq(Byte), Len(c) = Len(d),
           NEW i \in 1 .. Len(c) - 1,
           \A k \in 1 .. Len(c) : k \notin {i, i + 1} => c[k] = d[k],
           c[i] # d[i] \/ c[i + 1] # d[i + 1]
    PROVE  Crc16(c) # Crc16(d)
<1> DEFINE n == Len(c)
<1>0. n \in Nat /\ n = Len(d) /\ i \in Nat /\ 1 <= i /\ i <= n - 1
  BY SMT
<1>1. PICK f \in [0 .. n -> Word] :
             /\ f[0] = WordModulus - 1
             /\ \A k \in 1 .. n : f[k] = CrcByte(f[k - 1], c[k])
             /\ Crc16(c) = f[n]
  BY CrcSteps
<1>2. PICK g \in [0 .. n -> Word] :
             /\ g[0] = WordModulus - 1
             /\ \A k \in 1 .. n : g[k] = CrcByte(g[k - 1], d[k])
             /\ Crc16(d) = g[n]
  BY <1>0, CrcSteps
<1>3. \A k \in 1 .. n : c[k] \in Byte /\ d[k] \in Byte
  BY <1>0, SMT
<1>4. \A k \in 1 .. n : k - 1 \in 0 .. n /\ k \in 0 .. n
  BY <1>0, SMT
<1> HIDE DEF n
<1>5. f[i - 1] = g[i - 1]
  <2> DEFINE S == {k \in 0 .. n : k <= i - 1 => f[k] = g[k]}
  <2>1. 0 \in S
    BY <1>0, <1>1, <1>2, SMT
  <2>2. ASSUME NEW k \in 1 .. n, k - 1 \in S
        PROVE  k \in S
    <3>1. CASE k <= i - 1
      <4>1. k - 1 <= i - 1 /\ k \notin {i, i + 1}
        BY <1>0, <3>1, SMT
      <4> QED
        BY <1>1, <1>2, <1>4, <2>2, <4>1 DEF n
    <3>2. CASE ~(k <= i - 1)
      BY <1>4, <3>2
    <3> QED
      BY <3>1, <3>2
  <2> HIDE DEF S
  <2>3. \A k \in 0 .. n : k \in S
    BY <1>0, <2>1, <2>2, UpTo
  <2>4. i - 1 \in 0 .. n /\ i - 1 <= i - 1
    BY <1>0, SMT
  <2> QED
    BY <2>3, <2>4 DEF S
<1>6. f[i + 1] # g[i + 1]
  <2>1. /\ i \in 1 .. n /\ i + 1 \in 1 .. n /\ (i + 1) - 1 = i
    BY <1>0, SMT
  <2>2. /\ f[i + 1] = CrcByte(CrcByte(f[i - 1], c[i]), c[i + 1])
        /\ g[i + 1] = CrcByte(CrcByte(f[i - 1], d[i]), d[i + 1])
    BY <1>1, <1>2, <1>5, <2>1
  <2>3. f[i - 1] \in Word
    BY <1>4, <2>1
  <2> QED
    BY <1>3, <2>1, <2>2, <2>3, TwoBytesTell
<1>7. f[n] # g[n]
  <2> DEFINE S == {k \in 0 .. n : k >= i + 1 => f[k] # g[k]}
  <2>1. 0 \in S
    BY <1>0, SMT
  <2>2. ASSUME NEW k \in 1 .. n, k - 1 \in S
        PROVE  k \in S
    <3>1. CASE k > i + 1
      <4>1. k - 1 >= i + 1 /\ k \notin {i, i + 1}
        BY <1>0, <3>1, SMT
      <4>2. f[k - 1] # g[k - 1] /\ f[k - 1] \in Word /\ g[k - 1] \in Word
        BY <1>4, <2>2, <4>1
      <4>3. c[k] = d[k]
        BY <4>1 DEF n
      <4>4. f[k] = CrcByte(f[k - 1], c[k]) /\ g[k] = CrcByte(g[k - 1], c[k])
        BY <1>1, <1>2, <4>3
      <4>5. f[k] # g[k]
        BY <1>3, <4>2, <4>4, CrcByteInjective
      <4> QED
        BY <1>4, <4>5
    <3>2. CASE k = i + 1
      BY <1>4, <1>6, <3>2
    <3>3. CASE k < i + 1
      <4>1. ~(k >= i + 1)
        BY <1>0, <3>3, SMT
      <4> QED
        BY <1>4, <4>1
    <3> QED
      BY <1>0, <3>1, <3>2, <3>3, SMT
  <2> HIDE DEF S
  <2>3. \A k \in 0 .. n : k \in S
    BY <1>0, <2>1, <2>2, UpTo
  <2>4. n \in 0 .. n /\ n >= i + 1
    BY <1>0, SMT
  <2> QED
    BY <2>3, <2>4 DEF S
<1> QED
  BY <1>1, <1>2, <1>7

(* A change of the last byte shows in the low byte.                        *)
LEMMA CrcLastDiffers ==
    ASSUME NEW c \in Seq(Byte), NEW d \in Seq(Byte), Len(c) = Len(d), Len(c) # 0,
           \A k \in 1 .. Len(c) - 1 : c[k] = d[k], c[Len(c)] # d[Len(c)]
    PROVE  Crc16(c) % 256 # Crc16(d) % 256
<1> DEFINE n == Len(c)
<1>0. n \in Nat /\ n = Len(d) /\ n # 0
  BY SMT
<1>1. PICK f \in [0 .. n -> Word] :
             /\ f[0] = WordModulus - 1
             /\ \A k \in 1 .. n : f[k] = CrcByte(f[k - 1], c[k])
             /\ Crc16(c) = f[n]
  BY CrcSteps
<1>2. PICK g \in [0 .. n -> Word] :
             /\ g[0] = WordModulus - 1
             /\ \A k \in 1 .. n : g[k] = CrcByte(g[k - 1], d[k])
             /\ Crc16(d) = g[n]
  BY <1>0, CrcSteps
<1>3. \A k \in 1 .. n : c[k] \in Byte /\ d[k] \in Byte
  BY <1>0, SMT
<1>4. \A k \in 1 .. n : k - 1 \in 0 .. n /\ k \in 0 .. n
  BY <1>0, SMT
<1>5. \A k \in 1 .. n - 1 : c[k] = d[k]
  OBVIOUS
<1>6. c[n] # d[n]
  OBVIOUS
<1> HIDE DEF n
<1>7. f[n - 1] = g[n - 1]
  <2> DEFINE S == {k \in 0 .. n : k <= n - 1 => f[k] = g[k]}
  <2>1. 0 \in S
    BY <1>0, <1>1, <1>2, SMT
  <2>2. ASSUME NEW k \in 1 .. n, k - 1 \in S
        PROVE  k \in S
    <3>1. CASE k <= n - 1
      <4>1. k - 1 <= n - 1 /\ k \in 1 .. n - 1
        BY <1>0, <3>1, SMT
      <4> QED
        BY <1>1, <1>2, <1>4, <1>5, <2>2, <4>1
    <3>2. CASE ~(k <= n - 1)
      BY <1>4, <3>2
    <3> QED
      BY <3>1, <3>2
  <2> HIDE DEF S
  <2>3. \A k \in 0 .. n : k \in S
    BY <1>0, <2>1, <2>2, UpTo
  <2>4. n - 1 \in 0 .. n /\ n - 1 <= n - 1
    BY <1>0, SMT
  <2> QED
    BY <2>3, <2>4 DEF S
<1>8. n \in 1 .. n
  BY <1>0, SMT
<1>9. f[n - 1] \in Word
  BY <1>4, <1>8
<1>10. f[n] = CrcByte(f[n - 1], c[n]) /\ g[n] = CrcByte(f[n - 1], d[n])
  BY <1>1, <1>2, <1>7, <1>8
<1>11. f[n] % 256 # g[n] % 256
  BY <1>3, <1>6, <1>8, <1>9, <1>10, ByteTells
<1> QED
  BY <1>1, <1>2, <1>11

LEMMA ByteWeights ==
    /\ ByteWeight[1] = 1 /\ ByteWeight[2] = 256
    /\ ByteWeight[3] = 65536 /\ ByteWeight[4] = 16777216
BY SMT DEF ByteWeight

(* A word as two bytes, and back.                                          *)
LEMMA TwoBytesOf ==
    ASSUME NEW w \in Word
    PROVE  /\ BigEndian(w, 2) \in Seq(Byte)
           /\ Len(BigEndian(w, 2)) = 2
           /\ BigEndian(w, 2)[1] = w \div 256
           /\ BigEndian(w, 2)[2] = w % 256
           /\ w = 256 * (w \div 256) + (w % 256)
<1>1. w \in Int /\ 0 <= w /\ w < 65536
  BY WordRange
<1>2. /\ w \div 256 \in Int /\ 0 <= w \div 256 /\ w \div 256 < 256
      /\ w % 256 \in Int /\ 0 <= w % 256 /\ w % 256 < 256
      /\ (w \div 256) % 256 = w \div 256 /\ w \div 1 = w
      /\ w = 256 * (w \div 256) + (w % 256)
  BY <1>1, SMT
<1> DEFINE b == BigEndian(w, 2)
<1>3. b = [i \in 1 .. 2 |-> (w \div ByteWeight[2 - i + 1]) % 256]
  BY DEF BigEndian
<1>4. b[1] = w \div 256 /\ b[2] = w % 256
  <2>1. 2 - 1 + 1 = 2 /\ 2 - 2 + 1 = 1 /\ 1 \in 1 .. 2 /\ 2 \in 1 .. 2
    BY SMT
  <2> QED
    BY <1>2, <1>3, <2>1, ByteWeights
<1>5. w \div 256 \in Byte /\ w % 256 \in Byte
  BY <1>2, ByteRange
<1>6. \A i \in 1 .. 2 : b[i] \in Byte
  <2>1. \A i \in 1 .. 2 : i = 1 \/ i = 2
    BY SMT
  <2> QED
    BY <1>4, <1>5, <2>1
<1>7. b \in [1 .. 2 -> Byte]
  BY <1>3, <1>6
<1> HIDE DEF b
<1>8. b \in Seq(Byte) /\ Len(b) = 2
  BY <1>7, FunctionSeq
<1> QED
  BY <1>2, <1>4, <1>8 DEF b

LEMMA UnsignedOfTwo ==
    ASSUME NEW b \in Seq(Byte), Len(b) = 2
    PROVE  Unsigned(b) = 256 * b[1] + b[2]
<1>1. PICK f \in [0 .. 2 -> Nat] :
             /\ f[0] = 0
             /\ \A i \in 1 .. 2 : f[i] = 256 * f[i - 1] + b[i]
             /\ Unsigned(b) = f[2]
  BY UnsignedSteps
<1>2. /\ 1 \in 1 .. 2 /\ 2 \in 1 .. 2 /\ 1 - 1 = 0 /\ 2 - 1 = 1
  BY SMT
<1>3. f[1] = 256 * f[0] + b[1] /\ f[2] = 256 * f[1] + b[2]
  BY <1>1, <1>2
<1>4. PICK x \in Int, y \in Int : x = b[1] /\ y = b[2]
  <2>1. 1 \in 1 .. Len(b) /\ 2 \in 1 .. Len(b)
    BY SMT
  <2>2. b[1] \in Byte /\ b[2] \in Byte
    BY <2>1, ElementOfSeq
  <2> QED
    BY <2>2, ByteRange
<1>5. 256 * (256 * 0 + x) + y = 256 * x + y
  BY SMT
<1> QED
  BY <1>1, <1>3, <1>4, <1>5

(* A number of two bytes tells them.                                       *)
LEMMA SameDigits ==
    ASSUME NEW a \in Byte, NEW b \in Byte, NEW x \in Byte, NEW y \in Byte,
           256 * a + b = 256 * x + y
    PROVE  a = x /\ b = y
<1>1. /\ a \in Int /\ b \in Int /\ x \in Int /\ y \in Int
      /\ 0 <= b /\ b < 256 /\ 0 <= y /\ y < 256
  BY ByteRange
<1> QED
  BY <1>1, SMT

LEMMA CrcBytes ==
    ASSUME NEW bytes \in Seq(Byte)
    PROVE  Crc16(bytes) \div 256 \in Byte /\ Crc16(bytes) % 256 \in Byte
<1>1. PICK b \in Seq(Byte) : /\ Len(b) = 2 /\ b[1] = Crc16(bytes) \div 256
                             /\ b[2] = Crc16(bytes) % 256
  BY CrcType, TwoBytesOf
<1>2. 1 \in 1 .. Len(b) /\ 2 \in 1 .. Len(b)
  BY <1>1, SMT
<1> QED
  BY <1>1, <1>2, ElementOfSeq, ZenonT(60)

(* The frame with its CRC, and when a frame is good.                       *)
LEMMA WithCrcOf ==
    ASSUME NEW m \in Seq(Byte)
    PROVE  /\ WithCrc(m) \in Seq(Byte)
           /\ Len(WithCrc(m)) = Len(m) + 2
           /\ \A k \in 1 .. Len(m) : WithCrc(m)[k] = m[k]
           /\ WithCrc(m)[Len(m) + 1] = Crc16(m) \div 256
           /\ WithCrc(m)[Len(m) + 2] = Crc16(m) % 256
<1>1. PICK w \in Word : w = Crc16(m)
  BY CrcType
<1>2. PICK b \in Seq(Byte) : b = BigEndian(w, 2) /\ Len(b) = 2
                              /\ b[1] = w \div 256 /\ b[2] = w % 256
  BY TwoBytesOf
<1>3. WithCrc(m) = m \o b
  BY <1>1, <1>2 DEF WithCrc, CrcSize
<1>4. /\ m \o b \in Seq(Byte) /\ Len(m \o b) = Len(m) + 2
      /\ \A k \in 1 .. Len(m) : (m \o b)[k] = m[k]
      /\ (m \o b)[Len(m) + 1] = b[1] /\ (m \o b)[Len(m) + 2] = b[2]
  <2>1. 1 \in 1 .. Len(b) /\ 2 \in 1 .. Len(b)
    BY <1>2, SMT
  <2> QED
    BY <1>2, <2>1, Joined
<1> QED
  BY <1>1, <1>2, <1>3, <1>4

LEMMA GoodCrcOf ==
    ASSUME NEW f \in Seq(Byte), NEW n \in Nat, Len(f) = n + 2
    PROVE  HasGoodCrc(f) <=> 256 * f[n + 1] + f[n + 2] = Crc16(SubSeq(f, 1, n))
<1>1. /\ SubSeq(f, n + 1, Len(f)) \in Seq(Byte) /\ Len(SubSeq(f, n + 1, Len(f))) = 2
      /\ SubSeq(f, n + 1, Len(f))[1] = f[n + 1]
      /\ SubSeq(f, n + 1, Len(f))[2] = f[n + 2]
      /\ Len(f) - 2 = n
  <2>1. /\ n + 1 \in Nat /\ n + 2 \in Nat /\ n + 1 # 0 /\ Len(f) \in Nat
        /\ Len(f) <= Len(f) /\ n + 1 <= Len(f) + 1
        /\ Len(f) - (n + 1) + 1 = 2 /\ 1 \in 1 .. 2 /\ 2 \in 1 .. 2
        /\ (n + 1) + 1 - 1 = n + 1 /\ (n + 1) + 2 - 1 = n + 2 /\ Len(f) - 2 = n
    BY SMT
  <2> QED
    BY <2>1, CutOut
<1>2. Unsigned(SubSeq(f, n + 1, Len(f))) = 256 * f[n + 1] + f[n + 2]
  BY <1>1, UnsignedOfTwo
<1> QED
  BY <1>1, <1>2 DEF HasGoodCrc, CrcSize

LEMMA WrittenIsGood ==
    ASSUME NEW m \in Seq(Byte)
    PROVE  HasGoodCrc(WithCrc(m))
<1> DEFINE w == WithCrc(m)
<1>1. /\ w \in Seq(Byte) /\ Len(w) = Len(m) + 2 /\ \A k \in 1 .. Len(m) : w[k] = m[k]
      /\ w[Len(m) + 1] = Crc16(m) \div 256 /\ w[Len(m) + 2] = Crc16(m) % 256
  BY WithCrcOf
<1> HIDE DEF w
<1>2. SubSeq(w, 1, Len(m)) = m
  BY <1>1, SMT
<1>3. Crc16(m) = 256 * (Crc16(m) \div 256) + (Crc16(m) % 256)
  BY CrcType, TwoBytesOf
<1>4. Len(m) \in Nat
  BY SMT
<1>5. HasGoodCrc(w)
  BY <1>1, <1>2, <1>3, <1>4, GoodCrcOf, ZenonT(60)
<1> QED
  BY <1>5 DEF w

(* A frame is not good any more when two neighbours, or one byte, changed. *)
LEMMA NoiseIsNoticed ==
    ASSUME NEW m \in Seq(Byte), NEW g \in Seq(Byte), Len(m) # 0,
           Len(g) = Len(m) + 2, NEW i \in 1 .. Len(m) + 1,
           \A k \in 1 .. Len(g) : k \notin {i, i + 1} => g[k] = WithCrc(m)[k],
           g[i] # WithCrc(m)[i] \/ g[i + 1] # WithCrc(m)[i + 1]
    PROVE  ~HasGoodCrc(g)
<1> DEFINE n == Len(m)
           w == WithCrc(m)
           d == SubSeq(g, 1, n)
<1>1. /\ w \in Seq(Byte) /\ Len(w) = n + 2 /\ \A k \in 1 .. n : w[k] = m[k]
      /\ w[n + 1] = Crc16(m) \div 256 /\ w[n + 2] = Crc16(m) % 256
  BY WithCrcOf
<1>2. /\ n \in Nat /\ n # 0 /\ Len(g) = n + 2
      /\ d \in Seq(Byte) /\ Len(d) = n /\ \A k \in 1 .. n : d[k] = g[k]
      /\ i \in 1 .. n + 1
  BY SMT
<1>3. \A k \in 1 .. n + 2 : k \notin {i, i + 1} => g[k] = w[k]
  OBVIOUS
<1>4. g[i] # w[i] \/ g[i + 1] # w[i + 1]
  OBVIOUS
<1>5. Crc16(m) = 256 * (Crc16(m) \div 256) + (Crc16(m) % 256)
  BY CrcType, TwoBytesOf
<1>6. SUFFICES ASSUME 256 * g[n + 1] + g[n + 2] = Crc16(d)
               PROVE  FALSE
  BY <1>2, GoodCrcOf
<1>a. n = Len(m)
  OBVIOUS
<1>b. /\ g[n + 1] \in Byte /\ g[n + 2] \in Byte
      /\ Crc16(m) \div 256 \in Byte /\ Crc16(m) % 256 \in Byte
  <2>1. n + 1 \in 1 .. Len(g) /\ n + 2 \in 1 .. Len(g)
    BY <1>2, SMT
  <2> QED
    BY <2>1, ElementOfSeq, CrcBytes
<1> HIDE DEF n, w, d
<1>7. CASE i <= n - 1
  <2>1. /\ i \in 1 .. n - 1 /\ n + 1 \in 1 .. n + 2 /\ n + 2 \in 1 .. n + 2
        /\ n + 1 \notin {i, i + 1} /\ n + 2 \notin {i, i + 1}
        /\ i \in 1 .. n /\ i + 1 \in 1 .. n
        /\ \A k \in 1 .. n : k \in 1 .. n + 2
    BY <1>2, <1>7, SMT
  <2>2. Crc16(d) = Crc16(m)
    BY <1>1, <1>3, <1>5, <1>6, <2>1
  <2>3. /\ \A k \in 1 .. n : k \notin {i, i + 1} => m[k] = d[k]
        /\ m[i] # d[i] \/ m[i + 1] # d[i + 1]
    BY <1>1, <1>2, <1>3, <1>4, <2>1
  <2> QED
    BY <1>2, <1>a, <2>1, <2>2, <2>3, CrcDiffers
<1>8. CASE i = n
  <2>1. /\ n + 2 \in 1 .. n + 2 /\ n + 2 \notin {n, n + 1} /\ n \in 1 .. n
        /\ \A k \in 1 .. n - 1 : k \in 1 .. n + 2 /\ k \in 1 .. n /\ k \notin {n, n + 1}
    BY <1>2, SMT
  <2>2. \A k \in 1 .. n - 1 : m[k] = d[k]
    BY <1>1, <1>2, <1>3, <1>8, <2>1
  <2>3. g[n + 2] = Crc16(m) % 256
    BY <1>1, <1>3, <1>8, <2>1
  <2>4. CASE m[n] = d[n]
    <3>1. m = d
      <4>1. \A k \in 1 .. n : m[k] = d[k]
        BY <1>2, <2>2, <2>4, SMT
      <4> QED
        BY <1>2, <1>a, <4>1, SMT
    <3>2. g[n + 1] # Crc16(m) \div 256
      BY <1>1, <1>2, <1>4, <1>8, <2>1, <2>4
    <3>3. 256 * g[n + 1] + (Crc16(m) % 256) = 256 * (Crc16(m) \div 256) + (Crc16(m) % 256)
      BY <1>5, <1>6, <2>3, <3>1
    <3> QED
      BY <1>b, <3>2, <3>3, SameDigits
  <2>5. CASE m[n] # d[n]
    <3>1. Crc16(m) % 256 # Crc16(d) % 256
      BY <1>2, <1>a, <2>2, <2>5, CrcLastDiffers
    <3>2. 256 * g[n + 1] + g[n + 2]
            = 256 * (Crc16(d) \div 256) + (Crc16(d) % 256)
      BY <1>2, <1>6, CrcType, TwoBytesOf
    <3>3. g[n + 2] = Crc16(d) % 256
      BY <1>2, <1>b, <3>2, CrcBytes, SameDigits
    <3> QED
      BY <2>3, <3>1, <3>3
  <2> QED
    BY <2>4, <2>5
<1>9. CASE i = n + 1
  <2>1. /\ n + 1 \in 1 .. n + 2 /\ n + 2 \in 1 .. n + 2 /\ (n + 1) + 1 = n + 2
        /\ \A k \in 1 .. n : k \in 1 .. n + 2 /\ k \notin {n + 1, n + 2}
    BY <1>2, SMT
  <2>2. \A k \in 1 .. n : m[k] = d[k]
    BY <1>1, <1>2, <1>3, <1>9, <2>1
  <2>3. m = d
    BY <1>2, <1>a, <2>2, SMT
  <2>4. g[n + 1] # Crc16(m) \div 256 \/ g[n + 2] # Crc16(m) % 256
    BY <1>1, <1>4, <1>9, <2>1
  <2>5. 256 * g[n + 1] + g[n + 2] = 256 * (Crc16(m) \div 256) + (Crc16(m) % 256)
    BY <1>5, <1>6, <2>3
  <2> QED
    BY <1>b, <2>4, <2>5, SameDigits
<1> QED
  BY <1>2, <1>7, <1>8, <1>9, SMT

(* The sequence u is the m bytes of s followed by the n of t.              *)
IsJoin(u, s, m, t, n) ==
    /\ u \in Seq(Byte) /\ Len(u) = m + n
    /\ \A k \in 1 .. m : u[k] = s[k]
    /\ \A k \in 1 .. n : u[m + k] = t[k]

LEMMA JoinedBytes ==
    ASSUME NEW s \in Seq(Byte), NEW t \in Seq(Byte)
    PROVE  IsJoin(s \o t, s, Len(s), t, Len(t))
BY Joined DEF IsJoin

-----------------------------------------------------------------------------
(* Packets and frames.                                                     *)

(* The HMAC gives the bytes its constant promises, whatever it is of.      *)
HmacIsBytes == \A bytes \in Seq(Byte) : Hmac(bytes) \in [1 .. HmacSize -> Byte]

HeaderSet ==
    [version : Byte, type : Byte, src : Byte, dst : Byte,
     bootId : Word, seq : Nat, flags : Byte]

PacketSet ==
    [header : HeaderSet, payload : [1 .. MaxPayload -> Byte],
     payloadLen : 0 .. MaxPayload]

LEMMA ConstantTypes ==
    /\ MaxPayload \in Nat /\ 1 <= MaxPayload /\ MaxPayload <= 255
    /\ HmacSize \in Nat /\ 1 <= HmacSize /\ HmacSize <= 255
BY CodecAssumption, SMT DEF CodecAssumption

(* A number of any width is as many bytes.                                 *)
LEMMA BigEndianOf ==
    ASSUME NEW n \in Int, NEW width \in {1, 2, 4}
    PROVE  /\ BigEndian(n, width) \in [1 .. width -> Byte]
           /\ BigEndian(n, width) \in Seq(Byte)
           /\ Len(BigEndian(n, width)) = width
<1>1. /\ n \div 1 \in Int /\ n \div 256 \in Int /\ n \div 65536 \in Int
      /\ n \div 16777216 \in Int
  BY SMT
<1>2. ASSUME NEW x \in Int
      PROVE  x % 256 \in Byte
  <2>1. x % 256 \in Int /\ 0 <= x % 256 /\ x % 256 < 256
    BY SMT
  <2> QED
    BY <2>1, ByteRange
<1>3. ASSUME NEW i \in 1 .. width
      PROVE  (n \div ByteWeight[width - i + 1]) % 256 \in Byte
  <2>1. \/ width - i + 1 = 1 \/ width - i + 1 = 2
        \/ width - i + 1 = 3 \/ width - i + 1 = 4
    BY SMT
  <2> QED
    BY <1>1, <1>2, <2>1, ByteWeights
<1>4. BigEndian(n, width) \in [1 .. width -> Byte]
  BY <1>3 DEF BigEndian
<1>5. width \in Nat
  BY SMT
<1> QED
  BY <1>4, <1>5, FunctionSeq

LEMMA FourBytes ==
    ASSUME NEW a \in Byte, NEW b \in Byte, NEW c \in Byte, NEW d \in Byte
    PROVE  /\ <<a, b, c, d>> \in Seq(Byte) /\ Len(<<a, b, c, d>>) = 4
           /\ <<a, b>> \in Seq(Byte) /\ Len(<<a, b>>) = 2
           /\ <<a>> \in Seq(Byte) /\ Len(<<a>>) = 1
OBVIOUS

LEMMA HeaderBytesOf ==
    ASSUME NEW h \in HeaderSet, NEW flags \in Byte
    PROVE  LET b == HeaderBytes(h, flags) IN
           /\ b \in Seq(Byte) /\ Len(b) = 11
           /\ b[1] = h.version /\ b[2] = h.type /\ b[3] = h.src /\ b[4] = h.dst
           /\ b[5] = BigEndian(h.bootId, 2)[1] /\ b[6] = BigEndian(h.bootId, 2)[2]
           /\ b[7] = BigEndian(h.seq, 4)[1] /\ b[8] = BigEndian(h.seq, 4)[2]
           /\ b[9] = BigEndian(h.seq, 4)[3] /\ b[10] = BigEndian(h.seq, 4)[4]
           /\ b[11] = flags
<1>1. /\ h.version \in Byte /\ h.type \in Byte /\ h.src \in Byte /\ h.dst \in Byte
      /\ h.bootId \in Int /\ h.seq \in Int
  BY WordRange, SMT DEF HeaderSet
<1> DEFINE v == <<h.version, h.type, h.src, h.dst>>
           w == BigEndian(h.bootId, 2)
           x == BigEndian(h.seq, 4)
           y == <<flags>>
<1>2. /\ v \in Seq(Byte) /\ Len(v) = 4 /\ y \in Seq(Byte) /\ Len(y) = 1
  BY <1>1, FourBytes
<1>3. /\ w \in Seq(Byte) /\ Len(w) = 2 /\ x \in Seq(Byte) /\ Len(x) = 4
  BY <1>1, BigEndianOf
<1>4. /\ v[1] = h.version /\ v[2] = h.type /\ v[3] = h.src /\ v[4] = h.dst
      /\ y[1] = flags
  OBVIOUS
<1>5. HeaderBytes(h, flags) = ((v \o w) \o x) \o y
  BY DEF HeaderBytes
<1> HIDE DEF v, w, x, y
<1>6. IsJoin(v \o w, v, 4, w, 2)
  BY <1>2, <1>3, JoinedBytes
<1> DEFINE vw == v \o w
<1>7. /\ vw \in Seq(Byte) /\ Len(vw) = 6
      /\ vw[1] = v[1] /\ vw[2] = v[2] /\ vw[3] = v[3] /\ vw[4] = v[4]
      /\ vw[5] = w[1] /\ vw[6] = w[2]
  <2>1. /\ 4 + 2 = 6 /\ 4 + 1 = 5 /\ 1 \in 1 .. 2 /\ 2 \in 1 .. 2
        /\ 1 \in 1 .. 4 /\ 2 \in 1 .. 4 /\ 3 \in 1 .. 4 /\ 4 \in 1 .. 4
    BY SMT
  <2> QED
    BY <1>6, <2>1 DEF IsJoin
<1> HIDE DEF vw
<1>8. IsJoin(vw \o x, vw, 6, x, 4)
  BY <1>3, <1>7, JoinedBytes
<1> DEFINE vwx == vw \o x
<1>9. /\ vwx \in Seq(Byte) /\ Len(vwx) = 10
      /\ vwx[1] = v[1] /\ vwx[2] = v[2] /\ vwx[3] = v[3] /\ vwx[4] = v[4]
      /\ vwx[5] = w[1] /\ vwx[6] = w[2]
      /\ vwx[7] = x[1] /\ vwx[8] = x[2] /\ vwx[9] = x[3] /\ vwx[10] = x[4]
  <2>1. /\ 6 + 4 = 10 /\ 6 + 1 = 7 /\ 6 + 2 = 8 /\ 6 + 3 = 9
        /\ 1 \in 1 .. 4 /\ 2 \in 1 .. 4 /\ 3 \in 1 .. 4 /\ 4 \in 1 .. 4
        /\ 1 \in 1 .. 6 /\ 2 \in 1 .. 6 /\ 3 \in 1 .. 6 /\ 4 \in 1 .. 6
        /\ 5 \in 1 .. 6 /\ 6 \in 1 .. 6
    BY SMT
  <2> QED
    BY <1>7, <1>8, <2>1 DEF IsJoin
<1> HIDE DEF vwx
<1>10. IsJoin(vwx \o y, vwx, 10, y, 1)
  BY <1>2, <1>9, JoinedBytes
<1>11. LET b == vwx \o y IN
       /\ b \in Seq(Byte) /\ Len(b) = 11
       /\ b[1] = v[1] /\ b[2] = v[2] /\ b[3] = v[3] /\ b[4] = v[4]
       /\ b[5] = w[1] /\ b[6] = w[2]
       /\ b[7] = x[1] /\ b[8] = x[2] /\ b[9] = x[3] /\ b[10] = x[4]
       /\ b[11] = y[1]
  <2>1. /\ 10 + 1 = 11 /\ 1 \in 1 .. 1
        /\ \A k \in {1, 2, 3, 4, 5, 6, 7, 8, 9, 10} : k \in 1 .. 10
    BY SMT
  <2> QED
    BY <1>9, <1>10, <2>1 DEF IsJoin
<1> QED
  BY <1>4, <1>5, <1>11 DEF vwx, vw, w, x

(* The frame of a packet, byte by byte.                                    *)
LEMMA FrameOf ==
    ASSUME NEW p \in PacketSet
    PROVE  \E m \in Seq(Byte) :
             /\ Serialized(p) = WithCrc(m)
             /\ Len(m) = 14 + p.payloadLen
             /\ m[1] = 165 /\ m[2] = 90
             /\ \A k \in 1 .. 11 : m[2 + k] = HeaderBytes(p.header, p.header.flags)[k]
             /\ m[14] = p.payloadLen
             /\ \A k \in 1 .. p.payloadLen : m[14 + k] = p.payload[k]
<1>1. /\ p.header \in HeaderSet /\ p.payload \in [1 .. MaxPayload -> Byte]
      /\ p.payloadLen \in 0 .. MaxPayload
  BY DEF PacketSet
<1>2. p.header.flags \in Byte
  BY <1>1 DEF HeaderSet
<1>3. p.payloadLen \in Byte /\ p.payloadLen \in Nat /\ p.payloadLen <= MaxPayload
  BY <1>1, ConstantTypes, ByteRange, SMT
<1> DEFINE v == Magic
           w == HeaderBytes(p.header, p.header.flags)
           x == <<p.payloadLen>>
           y == SubSeq(p.payload, 1, p.payloadLen)
<1>4. v \in Seq(Byte) /\ Len(v) = 2 /\ v[1] = 165 /\ v[2] = 90
  <2>1. 165 \in Byte /\ 90 \in Byte
    BY ByteRange, SMT
  <2>2. v[1] = 165 /\ v[2] = 90
    BY DEF Magic
  <2> QED
    BY <2>1, <2>2, FourBytes DEF Magic
<1>5. w \in Seq(Byte) /\ Len(w) = 11
  BY <1>1, <1>2, HeaderBytesOf
<1>6. x \in Seq(Byte) /\ Len(x) = 1 /\ x[1] = p.payloadLen
  <2>1. x \in Seq(Byte) /\ Len(x) = 1
    BY <1>3, FourBytes
  <2> QED
    BY <2>1
<1>7. y \in Seq(Byte) /\ Len(y) = p.payloadLen
      /\ \A k \in 1 .. p.payloadLen : y[k] = p.payload[k]
  <2>1. p.payload \in Seq(Byte) /\ Len(p.payload) = MaxPayload
    BY <1>1, ConstantTypes, FunctionSeq
  <2>2. /\ 1 \in Nat /\ 1 # 0 /\ 1 <= p.payloadLen + 1
        /\ p.payloadLen - 1 + 1 = p.payloadLen
        /\ \A k \in 1 .. p.payloadLen : 1 + k - 1 = k
    BY <1>3, SMT
  <2> HIDE DEF y
  <2>3. /\ SubSeq(p.payload, 1, p.payloadLen) \in Seq(Byte)
        /\ Len(SubSeq(p.payload, 1, p.payloadLen)) = p.payloadLen - 1 + 1
        /\ \A k \in 1 .. p.payloadLen - 1 + 1 :
               SubSeq(p.payload, 1, p.payloadLen)[k] = p.payload[1 + k - 1]
    BY <1>3, <2>1, <2>2, CutOut
  <2> QED
    BY <2>2, <2>3 DEF y
<1>8. Serialized(p) = WithCrc(((v \o w) \o x) \o y)
  BY DEF Serialized
<1>a. v \in Seq(Byte) /\ Len(v) = 2
  BY <1>4
<1>b. w \in Seq(Byte) /\ Len(w) = 11
  BY <1>5
<1>c. x \in Seq(Byte) /\ Len(x) = 1
  BY <1>6
<1>d. y \in Seq(Byte) /\ Len(y) = p.payloadLen
  BY <1>7
<1>9. v = Magic /\ w = HeaderBytes(p.header, p.header.flags)
  OBVIOUS
<1> HIDE DEF v, w, x, y
<1>10. IsJoin(v \o w, v, 2, w, 11)
  BY <1>a, <1>b, JoinedBytes
<1> DEFINE vw == v \o w
<1>11. vw \in Seq(Byte) /\ Len(vw) = 13
  <2>1. 2 + 11 = 13
    BY SMT
  <2> QED
    BY <1>10, <2>1 DEF IsJoin
<1>e. /\ vw[1] = 165 /\ vw[2] = 90
      /\ \A k \in 1 .. 11 : vw[2 + k] = w[k]
  <2>1. 1 \in 1 .. 2 /\ 2 \in 1 .. 2
    BY SMT
  <2> QED
    BY <1>4, <1>10, <2>1, ZenonT(60) DEF IsJoin
<1> HIDE DEF vw
<1>12. IsJoin(vw \o x, vw, 13, x, 1)
  BY <1>c, <1>11, JoinedBytes
<1> DEFINE vwx == vw \o x
<1>13. vwx \in Seq(Byte) /\ Len(vwx) = 14
  <2>1. 13 + 1 = 14
    BY SMT
  <2> QED
    BY <1>12, <2>1 DEF IsJoin
<1>f. /\ vwx[1] = 165 /\ vwx[2] = 90
      /\ \A k \in 1 .. 11 : vwx[2 + k] = w[k]
      /\ vwx[14] = p.payloadLen
  <2>1. /\ 13 + 1 = 14 /\ 1 \in 1 .. 1 /\ 1 \in 1 .. 13 /\ 2 \in 1 .. 13
        /\ \A k \in 1 .. 11 : 2 + k \in 1 .. 13
    BY SMT
  <2>2. /\ \A k \in 1 .. 13 : vwx[k] = vw[k]
        /\ \A k \in 1 .. 1 : vwx[13 + k] = x[k]
    BY <1>12 DEF IsJoin
  <2> HIDE DEF vwx
  <2>3. vwx[1] = 165 /\ vwx[2] = 90
    BY <1>e, <2>1, <2>2
  <2>4. vwx[13 + 1] = p.payloadLen
    BY <1>6, <2>1, <2>2
  <2>5. ASSUME NEW k \in 1 .. 11
        PROVE  vwx[2 + k] = w[k]
    BY <1>e, <2>1, <2>2
  <2> QED
    BY <2>1, <2>3, <2>4, <2>5
<1> HIDE DEF vwx
<1>14. IsJoin(vwx \o y, vwx, 14, y, p.payloadLen)
  BY <1>d, <1>13, JoinedBytes
<1> DEFINE m == vwx \o y
<1>15. /\ m[1] = 165 /\ m[2] = 90 /\ m[14] = p.payloadLen
       /\ \A k \in 1 .. 11 : m[2 + k] = w[k]
  <2>1. /\ 1 \in 1 .. 14 /\ 2 \in 1 .. 14 /\ 14 \in 1 .. 14
        /\ \A k \in 1 .. 11 : 2 + k \in 1 .. 14
    BY SMT
  <2>2. \A k \in 1 .. 14 : m[k] = vwx[k]
    BY <1>14 DEF IsJoin
  <2> HIDE DEF m
  <2>3. m[1] = 165 /\ m[2] = 90 /\ m[14] = p.payloadLen
    BY <1>f, <2>1, <2>2
  <2>4. ASSUME NEW k \in 1 .. 11
        PROVE  m[2 + k] = w[k]
    BY <1>f, <2>1, <2>2
  <2> QED
    BY <2>3, <2>4
<1>16. Serialized(p) = WithCrc(m)
  BY <1>8 DEF vwx, vw
<1>17. /\ m \in Seq(Byte) /\ Len(m) = 14 + p.payloadLen
       /\ \A k \in 1 .. p.payloadLen : m[14 + k] = p.payload[k]
  BY <1>7, <1>14 DEF IsJoin
<1> HIDE DEF m
<1> QED
  BY <1>9, <1>15, <1>16, <1>17, SMTT(60)

(* The parts of a packet have their types, and those of a new one.         *)
LEMMA PacketParts ==
    ASSUME NEW p \in PacketSet
    PROVE  /\ p.header \in HeaderSet /\ p.header.flags \in Byte
           /\ p.header.flags \in Int
           /\ 0 <= p.header.flags /\ p.header.flags < 256
           /\ p.payload \in [1 .. MaxPayload -> Byte]
           /\ p.payload \in Seq(Byte) /\ Len(p.payload) = MaxPayload
           /\ p.payloadLen \in Nat /\ p.payloadLen <= MaxPayload
           /\ p = [header |-> p.header, payload |-> p.payload, payloadLen |-> p.payloadLen]
<1>1. /\ p.header \in HeaderSet /\ p.payload \in [1 .. MaxPayload -> Byte]
      /\ p.payloadLen \in 0 .. MaxPayload
      /\ p = [header |-> p.header, payload |-> p.payload, payloadLen |-> p.payloadLen]
  BY DEF PacketSet
<1>2. p.header.flags \in Byte
  BY <1>1 DEF HeaderSet
<1>3. p.payloadLen \in Nat /\ p.payloadLen <= MaxPayload
  BY <1>1, ConstantTypes, SMT
<1>4. p.payload \in Seq(Byte) /\ Len(p.payload) = MaxPayload
  BY <1>1, ConstantTypes, FunctionSeq
<1> QED
  BY <1>1, <1>2, <1>3, <1>4, ByteRange

LEMMA EmptyOf ==
    ASSUME NEW h \in Headers
    PROVE  /\ Empty(h) \in PacketSet /\ Empty(h).header = h
           /\ Empty(h).payloadLen = 0 /\ h \in HeaderSet
           /\ (h.flags \div AuthFlag) % 2 = 0
<1>1. h \in HeaderSet /\ (h.flags \div AuthFlag) % 2 = 0
  BY CodecAssumption DEF CodecAssumption, HeaderSet
<1>2. 0 \in Byte /\ 0 \in 0 .. MaxPayload
  BY ByteRange, ConstantTypes, SMT
<1>3. [i \in 1 .. MaxPayload |-> 0] \in [1 .. MaxPayload -> Byte]
  BY <1>2
<1> QED
  BY <1>1, <1>2, <1>3 DEF Empty, PacketSet

(* A packet with another payload, length or flags.                         *)
Refilled(p, a, b) == [p EXCEPT !.payload = a, !.payloadLen = b]

Rewritten(p, a) == [p EXCEPT !.payload = a]

Reflagged(p, f) == [p EXCEPT !.header.flags = f]

(* What a packet keeps when its payload, its length or its flags change.   *)
LEMMA RefilledOf ==
    ASSUME NEW p \in PacketSet, NEW a \in [1 .. MaxPayload -> Byte],
           NEW b \in 0 .. MaxPayload
    PROVE  /\ Refilled(p, a, b) \in PacketSet
           /\ Refilled(p, a, b).header = p.header
           /\ Refilled(p, a, b).payload = a
           /\ Refilled(p, a, b).payloadLen = b
           /\ Rewritten(p, a) \in PacketSet
           /\ Rewritten(p, a).header = p.header
           /\ Rewritten(p, a).payload = a
           /\ Rewritten(p, a).payloadLen = p.payloadLen
<1> DEFINE Y == [1 .. MaxPayload -> Byte]
           N == 0 .. MaxPayload
<1>1. a \in Y /\ b \in N /\ p \in [header : HeaderSet, payload : Y, payloadLen : N]
  BY DEF PacketSet
<1> HIDE DEF Y, N
<1>2. /\ [p EXCEPT !.payload = a, !.payloadLen = b]
            \in [header : HeaderSet, payload : Y, payloadLen : N]
      /\ [p EXCEPT !.payload = a, !.payloadLen = b].header = p.header
      /\ [p EXCEPT !.payload = a, !.payloadLen = b].payload = a
      /\ [p EXCEPT !.payload = a, !.payloadLen = b].payloadLen = b
  BY <1>1
<1>3. /\ [p EXCEPT !.payload = a]
            \in [header : HeaderSet, payload : Y, payloadLen : N]
      /\ [p EXCEPT !.payload = a].header = p.header
      /\ [p EXCEPT !.payload = a].payload = a
      /\ [p EXCEPT !.payload = a].payloadLen = p.payloadLen
  BY <1>1
<1> QED
  BY <1>2, <1>3 DEF PacketSet, Y, N, Refilled, Rewritten

LEMMA ReflaggedOf ==
    ASSUME NEW p \in PacketSet, NEW f \in Byte
    PROVE  /\ Reflagged(p, f) \in PacketSet
           /\ Reflagged(p, f).payload = p.payload
           /\ Reflagged(p, f).payloadLen = p.payloadLen
           /\ Reflagged(p, f).header.flags = f
           /\ Reflagged(p, f).header.version = p.header.version
           /\ Reflagged(p, f).header.seq = p.header.seq
           /\ \A g : HeaderBytes(Reflagged(p, f).header, g)
                      = HeaderBytes(p.header, g)
<1>1. /\ [p EXCEPT !.header.flags = f] \in PacketSet
      /\ [p EXCEPT !.header.flags = f].header = [p.header EXCEPT !.flags = f]
      /\ [p EXCEPT !.header.flags = f].payload = p.payload
      /\ [p EXCEPT !.header.flags = f].payloadLen = p.payloadLen
  BY DEF PacketSet, HeaderSet
<1>2. p.header \in HeaderSet
  BY DEF PacketSet
<1>3. /\ [p.header EXCEPT !.flags = f] \in HeaderSet
      /\ [p.header EXCEPT !.flags = f].flags = f
      /\ [p.header EXCEPT !.flags = f].version = p.header.version
      /\ [p.header EXCEPT !.flags = f].type = p.header.type
      /\ [p.header EXCEPT !.flags = f].src = p.header.src
      /\ [p.header EXCEPT !.flags = f].dst = p.header.dst
      /\ [p.header EXCEPT !.flags = f].bootId = p.header.bootId
      /\ [p.header EXCEPT !.flags = f].seq = p.header.seq
  BY <1>2 DEF HeaderSet
<1>4. \A g : HeaderBytes([p.header EXCEPT !.flags = f], g) = HeaderBytes(p.header, g)
  BY <1>3 DEF HeaderBytes
<1> QED
  BY <1>1, <1>3, <1>4 DEF Reflagged

(* What addTLV_raw writes, and what it leaves alone.                       *)
LEMMA AppendedOf ==
    ASSUME NEW p \in PacketSet, NEW tag \in Byte, NEW data \in Seq(Byte),
           Len(data) <= 255, Fits(p, Len(data))
    PROVE  LET q == Appended(p, tag, data)
               L == p.payloadLen
           IN  /\ q \in PacketSet /\ q.header = p.header
               /\ q.payloadLen = L + 2 + Len(data)
               /\ \A k \in 1 .. L : q.payload[k] = p.payload[k]
               /\ q.payload[L + 1] = tag /\ q.payload[L + 2] = Len(data)
               /\ \A k \in 1 .. Len(data) : q.payload[L + 2 + k] = data[k]
<1> DEFINE q == Appended(p, tag, data)
           L == p.payloadLen
           n == Len(data)
           tlv == <<tag, n>> \o data
<1>1. /\ p.payload \in [1 .. MaxPayload -> Byte] /\ L \in Nat /\ n \in Nat
      /\ L + 2 + n <= MaxPayload /\ MaxPayload \in Nat /\ n \in Byte
      /\ p.header \in HeaderSet
      /\ p = [header |-> p.header, payload |-> p.payload, payloadLen |-> p.payloadLen]
  <2>1. n \in Nat
    BY LenProperties
  <2>2. n \in Int /\ 0 <= n /\ n < 256
    BY <2>1, SMT
  <2> QED
    BY <2>1, <2>2, PacketParts, ConstantTypes, ByteRange DEF Fits
<1>2. /\ <<tag, n>> \in Seq(Byte) /\ Len(<<tag, n>>) = 2
      /\ <<tag, n>>[1] = tag /\ <<tag, n>>[2] = n
  BY <1>1, FourBytes
<1>3. IsJoin(tlv, <<tag, n>>, 2, data, n)
  BY <1>2, JoinedBytes
<1>4. /\ tlv \in Seq(Byte) /\ Len(tlv) = 2 + n /\ tlv[1] = tag /\ tlv[2] = n
      /\ \A k \in 1 .. n : tlv[2 + k] = data[k]
  <2>1. 1 \in 1 .. 2 /\ 2 \in 1 .. 2
    BY SMT
  <2> QED
    BY <1>2, <1>3, <2>1 DEF IsJoin
<1> DEFINE y == [i \in 1 .. MaxPayload |->
                   IF i \in L + 1 .. L + Len(tlv) THEN tlv[i - L] ELSE p.payload[i]]
<1>5. q = [p EXCEPT !.payload = y, !.payloadLen = L + Len(tlv)]
  <2>1. DOMAIN p.payload = 1 .. MaxPayload
    BY <1>1
  <2> QED
    BY <2>1 DEF Appended
<1> HIDE DEF tlv, n, L
<1>6. L + Len(tlv) = L + 2 + n
  BY <1>1, <1>4, SMT
<1>7. \A i \in 1 .. MaxPayload :
        y[i] = IF i \in L + 1 .. L + 2 + n THEN tlv[i - L] ELSE p.payload[i]
  BY <1>6
<1>8. y \in [1 .. MaxPayload -> Byte]
  <2>1. ASSUME NEW i \in L + 1 .. L + 2 + n
        PROVE  tlv[i - L] \in Byte
    <3>1. i - L \in 1 .. Len(tlv)
      BY <1>1, <1>4, SMT
    <3> QED
      BY <1>4, <3>1, ElementOfSeq
  <2> QED
    BY <1>1, <1>6, <2>1
<1>9. /\ q \in PacketSet /\ q.header = p.header /\ q.payloadLen = L + 2 + n
      /\ q.payload = y
  <2>1. L + Len(tlv) \in 0 .. MaxPayload
    BY <1>1, <1>6, SMT
  <2>2. PICK b \in 0 .. MaxPayload : b = L + Len(tlv)
    BY <2>1
  <2>3. PICK z \in [1 .. MaxPayload -> Byte] : z = y
    BY <1>8
  <2> HIDE DEF q, y
  <2>4. q = Refilled(p, z, b)
    BY <1>5, <2>2, <2>3 DEF Refilled
  <2>5. q \in PacketSet /\ q.header = p.header /\ q.payloadLen = b /\ q.payload = z
    BY <2>4, RefilledOf
  <2> QED
    BY <1>6, <2>2, <2>3, <2>5
<1> HIDE DEF y
<1> HIDE DEF q
<1>10. ASSUME NEW k \in 1 .. L
       PROVE  q.payload[k] = p.payload[k]
  <2>1. k \in 1 .. MaxPayload /\ k \notin L + 1 .. L + 2 + n
    BY <1>1, SMT
  <2> QED
    BY <1>7, <1>9, <2>1
<1>11. q.payload[L + 1] = tag /\ q.payload[L + 2] = n
  <2>1. /\ L + 1 \in 1 .. MaxPayload /\ L + 2 \in 1 .. MaxPayload
        /\ L + 1 \in L + 1 .. L + 2 + n /\ L + 2 \in L + 1 .. L + 2 + n
        /\ (L + 1) - L = 1 /\ (L + 2) - L = 2
    BY <1>1, SMT
  <2> QED
    BY <1>4, <1>7, <1>9, <2>1
<1>12. ASSUME NEW k \in 1 .. n
       PROVE  q.payload[L + 2 + k] = data[k]
  <2>1. /\ L + 2 + k \in 1 .. MaxPayload /\ L + 2 + k \in L + 1 .. L + 2 + n
        /\ (L + 2 + k) - L = 2 + k
    BY <1>1, SMT
  <2> QED
    BY <1>4, <1>7, <1>9, <2>1
<1> QED
  BY <1>9, <1>10, <1>11, <1>12 DEF q, n, L

-----------------------------------------------------------------------------
(* The mark and the signature.                                             *)

(* Marking sets one flag, and unmarking gives the flags from before.       *)
LEMMA MarkedOf ==
    ASSUME NEW p \in PacketSet
    PROVE  /\ Marked(p) \in PacketSet /\ IsMarked(Marked(p))
           /\ Marked(p).payload = p.payload /\ Marked(p).payloadLen = p.payloadLen
           /\ Marked(p).header.version = p.header.version
           /\ Marked(p).header.seq = p.header.seq
           /\ FlagsUnmarked(Marked(p)) = FlagsUnmarked(p)
           /\ FlagsUnmarked(p) \in Byte
           /\ \A g : HeaderBytes(Marked(p).header, g) = HeaderBytes(p.header, g)
<1>1. PICK f \in Int : f = p.header.flags /\ 0 <= f /\ f < 256
  BY PacketParts
<1>2. CASE IsMarked(p)
  <2>1. Marked(p) = p
    BY <1>2 DEF Marked
  <2>2. (f \div 16) % 2 = 1
    BY <1>1, <1>2 DEF IsMarked, AuthFlag
  <2>3. f - 16 \in Int /\ 0 <= f - 16 /\ f - 16 < 256
    BY <1>1, <2>2, SMT
  <2>4. FlagsUnmarked(p) = f - 16
    BY <1>1, <1>2 DEF FlagsUnmarked, AuthFlag
  <2> QED
    BY <1>2, <2>1, <2>3, <2>4, ByteRange
<1>3. CASE ~IsMarked(p)
  <2>1. (f \div 16) % 2 # 1
    BY <1>1, <1>3 DEF IsMarked, AuthFlag
  <2>2. /\ f + 16 \in Int /\ 0 <= f + 16 /\ f + 16 < 256
        /\ ((f + 16) \div 16) % 2 = 1 /\ (f + 16) - 16 = f /\ f - 0 = f
    BY <1>1, <2>1, SMT
  <2>3. f + 16 \in Byte /\ f \in Byte
    BY <1>1, <2>2, ByteRange
  <2>4. Marked(p) = Reflagged(p, f + 16)
    BY <1>1, <1>3 DEF Marked, Reflagged, AuthFlag
  <2>5. PICK g \in Byte : g = f + 16
    BY <2>3
  <2>6. PICK q \in PacketSet : q = Reflagged(p, g)
    BY ReflaggedOf
  <2>7. /\ q.payload = p.payload /\ q.payloadLen = p.payloadLen
        /\ q.header.flags = f + 16 /\ q.header.version = p.header.version
        /\ q.header.seq = p.header.seq
        /\ \A h : HeaderBytes(q.header, h) = HeaderBytes(p.header, h)
    BY <2>5, <2>6, ReflaggedOf
  <2>8. Marked(p) = q
    BY <2>4, <2>5, <2>6
  <2>9. IsMarked(q)
    BY <2>2, <2>7 DEF IsMarked, AuthFlag
  <2>10. FlagsUnmarked(q) = f /\ FlagsUnmarked(p) = f
    BY <1>1, <1>3, <2>2, <2>7, <2>9 DEF FlagsUnmarked, AuthFlag
  <2> QED
    BY <2>3, <2>7, <2>8, <2>9, <2>10
<1> QED
  BY <1>2, <1>3

(* The first bytes of a payload; packets that agree on them sign alike.    *)
LEMMA PrefixOf ==
    ASSUME NEW p \in PacketSet, NEW n \in Nat, n <= MaxPayload
    PROVE  /\ SubSeq(p.payload, 1, n) \in Seq(Byte)
           /\ Len(SubSeq(p.payload, 1, n)) = n
           /\ \A k \in 1 .. n : SubSeq(p.payload, 1, n)[k] = p.payload[k]
<1>1. p.payload \in Seq(Byte) /\ Len(p.payload) = MaxPayload
  BY PacketParts
<1>2. /\ 1 \in Nat /\ 1 # 0 /\ 1 <= n + 1 /\ n - 1 + 1 = n
      /\ \A k \in 1 .. n : 1 + k - 1 = k
  BY SMT
<1>3. /\ SubSeq(p.payload, 1, n) \in Seq(Byte)
      /\ Len(SubSeq(p.payload, 1, n)) = n - 1 + 1
      /\ \A k \in 1 .. n - 1 + 1 : SubSeq(p.payload, 1, n)[k] = p.payload[1 + k - 1]
  BY <1>1, <1>2, CutOut
<1> QED
  BY <1>2, <1>3

LEMMA SamePrefix ==
    ASSUME NEW p \in PacketSet, NEW q \in PacketSet, NEW n \in Nat, n <= MaxPayload,
           \A k \in 1 .. n : q.payload[k] = p.payload[k]
    PROVE  SubSeq(q.payload, 1, n) = SubSeq(p.payload, 1, n)
<1>1. /\ SubSeq(p.payload, 1, n) \in Seq(Byte) /\ SubSeq(q.payload, 1, n) \in Seq(Byte)
      /\ Len(SubSeq(p.payload, 1, n)) = n /\ Len(SubSeq(q.payload, 1, n)) = n
      /\ \A k \in 1 .. n : SubSeq(q.payload, 1, n)[k] = SubSeq(p.payload, 1, n)[k]
  BY PrefixOf
<1> QED
  BY <1>1, SeqEqual

LEMMA HmacOfType ==
    ASSUME HmacIsBytes, NEW p \in PacketSet, NEW n \in Nat, n <= MaxPayload
    PROVE  /\ HmacOf(p, n) \in [1 .. HmacSize -> Byte]
           /\ HmacOf(p, n) \in Seq(Byte)
           /\ Len(HmacOf(p, n)) = HmacSize
<1>1. PICK s \in Seq(Byte) : s = SubSeq(p.payload, 1, n)
  BY PrefixOf
<1>2. PICK b \in Seq(Byte) : b = HeaderBytes(p.header, FlagsUnmarked(p))
  BY PacketParts, MarkedOf, HeaderBytesOf
<1>3. b \o s \in Seq(Byte)
  BY ConcatProperties
<1>4. HmacOf(p, n) \in [1 .. HmacSize -> Byte]
  BY <1>1, <1>2, <1>3 DEF HmacOf, HmacIsBytes
<1> QED
  BY <1>4, ConstantTypes, FunctionSeq

(* The HMAC sees the header without its mark and the bytes before it.      *)
LEMMA SameHmac ==
    ASSUME NEW p \in PacketSet, NEW q \in PacketSet, NEW n \in Nat, n <= MaxPayload,
           \A k \in 1 .. n : q.payload[k] = p.payload[k],
           FlagsUnmarked(q) = FlagsUnmarked(p),
           \A g : HeaderBytes(q.header, g) = HeaderBytes(p.header, g)
    PROVE  HmacOf(q, n) = HmacOf(p, n)
BY SamePrefix DEF HmacOf

(* Renewing a signature changes nothing before it.                         *)
LEMMA RenewedOf ==
    ASSUME HmacIsBytes, NEW p \in PacketSet, NEW o \in Nat, IsLast(p, o)
    PROVE  LET q == Renewed(p, o) IN
           /\ q \in PacketSet /\ q.header = Marked(p).header
           /\ q.payloadLen = p.payloadLen
           /\ \A k \in 1 .. o + 2 : q.payload[k] = p.payload[k]
           /\ \A k \in 1 .. HmacSize : q.payload[o + 2 + k] = HmacOf(p, o)[k]
           /\ o + 2 <= MaxPayload /\ o <= MaxPayload
<1> DEFINE q == Renewed(p, o)
           H == HmacOf(p, o)
           m == Marked(p)
           y == [i \in 1 .. MaxPayload |->
                   IF i \in o + 3 .. o + 2 + HmacSize THEN H[i - o - 2]
                   ELSE p.payload[i]]
<1>1. /\ o + 2 + HmacSize <= MaxPayload /\ o + 2 <= MaxPayload /\ o <= MaxPayload
      /\ HmacSize \in Nat /\ MaxPayload \in Nat
  <2>1. o + 2 + HmacSize = p.payloadLen
    BY DEF IsLast
  <2>2. o + 2 + HmacSize <= MaxPayload
    BY <2>1, PacketParts
  <2> QED
    BY <2>2, ConstantTypes, SMT
<1>2. H \in [1 .. HmacSize -> Byte]
  BY <1>1, HmacOfType
<1>3. m \in PacketSet /\ m.payload = p.payload /\ m.payloadLen = p.payloadLen
  BY MarkedOf
<1>4. p.payload \in [1 .. MaxPayload -> Byte] /\ DOMAIN p.payload = 1 .. MaxPayload
  BY PacketParts
<1>5. q = Rewritten(m, y)
  BY <1>3, <1>4 DEF Renewed, Rewritten
<1>6. ASSUME NEW i \in o + 3 .. o + 2 + HmacSize
      PROVE  H[i - o - 2] \in Byte
  <2>1. i - o - 2 \in 1 .. HmacSize
    BY <1>1, SMT
  <2> HIDE DEF H
  <2> QED
    BY <1>2, <2>1
<1>7. y \in [1 .. MaxPayload -> Byte]
  <2> HIDE DEF H
  <2> QED
    BY <1>4, <1>6
<1> HIDE DEF q, H, m
<1>8. ASSUME NEW k \in 1 .. o + 2
      PROVE  y[k] = p.payload[k]
  <2>1. k \in 1 .. MaxPayload /\ k \notin o + 3 .. o + 2 + HmacSize
    BY <1>1, SMT
  <2> QED
    BY <2>1
<1>9. ASSUME NEW k \in 1 .. HmacSize
      PROVE  y[o + 2 + k] = H[k]
  <2>1. /\ o + 2 + k \in 1 .. MaxPayload /\ o + 2 + k \in o + 3 .. o + 2 + HmacSize
        /\ (o + 2 + k) - o - 2 = k
    BY <1>1, SMT
  <2> QED
    BY <2>1
<1>10. PICK z \in [1 .. MaxPayload -> Byte] : z = y
  BY <1>7
<1> HIDE DEF y
<1>11. PICK l \in 0 .. MaxPayload : TRUE
  BY <1>1, SMT
<1>12. /\ q \in PacketSet /\ q.header = m.header /\ q.payloadLen = m.payloadLen
       /\ q.payload = z
  BY <1>3, <1>5, <1>10, <1>11, RefilledOf
<1>13. /\ \A k \in 1 .. o + 2 : q.payload[k] = p.payload[k]
       /\ \A k \in 1 .. HmacSize : q.payload[o + 2 + k] = H[k]
  BY <1>8, <1>9, <1>10, <1>12
<1> QED
  BY <1>1, <1>3, <1>12, <1>13 DEF q, m, H

-----------------------------------------------------------------------------
(* The offsets of a payload.                                               *)

(* Downward induction: offsets only grow, so they are known from the end.  *)
LEMMA DownFrom ==
    ASSUME NEW n \in Nat, NEW S,
           \A i \in 0 .. n : (\A k \in i + 1 .. n : k \in S) => i \in S
    PROVE  \A i \in 0 .. n : i \in S
<1> DEFINE Bad == {j \in 0 .. n : n - j \notin S}
<1>1. Bad = {}
  <2>1. SUFFICES ASSUME Bad # {}
                 PROVE  FALSE
    OBVIOUS
  <2>2. Bad \in SUBSET Nat
    BY SMT
  <2>3. PICK m \in Bad : \A k \in Bad : ~(k < m)
    BY <2>1, <2>2, LeastNumber
  <2>4. m \in 0 .. n /\ n - m \in 0 .. n /\ n - m \notin S
    BY <2>3, SMT
  <2>5. ASSUME NEW k \in (n - m) + 1 .. n
        PROVE  k \in S
    <3>1. n - k \in 0 .. n /\ n - k < m /\ n - (n - k) = k
      BY <2>4, SMT
    <3> QED
      BY <2>3, <3>1
  <2> QED
    BY <2>4, <2>5
<1>2. ASSUME NEW i \in 0 .. n
      PROVE  i \in S
  <2>1. n - i \in 0 .. n /\ n - (n - i) = i
    BY SMT
  <2> QED
    BY <1>1, <2>1
<1> QED
  BY <1>2

LEMMA NextTlvType ==
    ASSUME NEW p \in PacketSet, NEW o \in Nat, o + 2 <= p.payloadLen
    PROVE  NextTlv(p, o) \in Nat /\ o + 2 <= NextTlv(p, o)
<1>1. o + 2 \in 1 .. MaxPayload /\ o + 1 + 1 = o + 2
  BY PacketParts, ConstantTypes, SMT
<1>2. PICK b \in Int : b = At(p, o + 1) /\ 0 <= b
  <2>1. p.payload[o + 2] \in Byte
    BY <1>1, PacketParts
  <2>2. At(p, o + 1) = p.payload[o + 2]
    BY <1>1 DEF At
  <2> QED
    BY <2>1, <2>2, ByteRange
<1>3. o + 2 + b \in Nat /\ o + 2 <= o + 2 + b
  BY <1>2, SMT
<1> QED
  BY <1>2, <1>3 DEF NextTlv

(* A TLV lies within the length in use, and no other begins at its end.    *)
LEMMA TlvRange ==
    ASSUME NEW p \in PacketSet, NEW o \in Nat, IsTlv(p, o)
    PROVE  /\ o + 2 <= p.payloadLen /\ NextTlv(p, o) \in Nat
           /\ o + 2 <= NextTlv(p, o) /\ NextTlv(p, o) <= p.payloadLen
BY NextTlvType DEF IsTlv

LEMMA NoTlvAtEnd ==
    ASSUME NEW p \in PacketSet
    PROVE  ~IsTlv(p, p.payloadLen)
<1>1. PICK l \in Nat : l = p.payloadLen
  BY PacketParts
<1>2. ~(l + 2 <= l)
  BY SMT
<1> QED
  BY <1>1, <1>2 DEF IsTlv

(* The recursion of Offsets does define a function.                        *)
From(p, f) ==
    [o \in 0 .. p.payloadLen |->
        {o} \cup (IF IsTlv(p, o) THEN f[NextTlv(p, o)] ELSE {})]

(* The recursion of Offsets is defined: each TLV ends beyond its start.    *)
LEMMA FromExists ==
    ASSUME NEW p \in PacketSet
    PROVE  \E f : f = From(p, f)
<1>1. PICK l \in Nat : l = p.payloadLen
  BY PacketParts
<1> DEFINE Body(f, o) == {o} \cup (IF IsTlv(p, o) THEN f[NextTlv(p, o)] ELSE {})
           Good(f, n) == f = [o \in n .. l |-> Body(f, o)]
           S == {j \in 0 .. l : \E f : Good(f, l - j)}
<1>2. 0 \in S
  <2> DEFINE f == [o \in l .. l |-> {l}]
  <2>1. \A o \in l .. l : o = l
    BY SMT
  <2>2. ~IsTlv(p, l)
    BY <1>1, NoTlvAtEnd
  <2>3. Good(f, l)
    BY <2>1, <2>2
  <2>4. l - 0 = l /\ 0 \in 0 .. l
    BY SMT
  <2> QED
    BY <2>3, <2>4
<1>3. ASSUME NEW j \in 1 .. l, j - 1 \in S
      PROVE  j \in S
  <2>1. PICK n \in 0 .. l : n = l - j
    BY SMT
  <2>2. l - (j - 1) = n + 1 /\ n + 1 \in 0 .. l /\ n \in Nat /\ j \in 0 .. l
    BY <2>1, SMT
  <2>3. PICK f : Good(f, n + 1)
    BY <1>3, <2>2
  <2> DEFINE h == [o \in n .. l |-> IF o = n THEN Body(f, n) ELSE f[o]]
  <2>4. ASSUME NEW o \in n .. l, IsTlv(p, o)
        PROVE  NextTlv(p, o) \in n + 1 .. l
    <3>1. o \in Nat
      BY <2>2, SMT
    <3>2. PICK x \in Nat : x = NextTlv(p, o) /\ o + 2 <= x /\ x <= l
      BY <1>1, <2>4, <3>1, TlvRange
    <3>3. x \in n + 1 .. l
      BY <2>2, <3>1, <3>2, SMT
    <3> QED
      BY <3>2, <3>3
  <2>5. ASSUME NEW o \in n + 1 .. l
        PROVE  h[o] = f[o] /\ f[o] = Body(f, o) /\ o \in n .. l
    <3>1. o \in n .. l /\ o # n
      BY <2>2, SMT
    <3> HIDE DEF Body
    <3> QED
      BY <2>3, <3>1
  <2>6. ASSUME NEW o \in n .. l
        PROVE  Body(h, o) = Body(f, o)
    BY <2>4, <2>5
  <2>7. ASSUME NEW o \in n .. l
        PROVE  h[o] = Body(h, o)
    <3>1. CASE o = n
      BY <2>6, <3>1
    <3>2. CASE o # n
      <4>1. o \in n + 1 .. l
        BY <2>2, <3>2, SMT
      <4> HIDE DEF Body, h
      <4> QED
        BY <2>5, <2>6, <4>1
    <3> QED
      BY <3>1, <3>2
  <2>8. Good(h, n)
    <3> HIDE DEF Body
    <3> QED
      BY <2>7
  <2> HIDE DEF h, Good
  <2> QED
    BY <2>1, <2>2, <2>8
<1>4. \A j \in 0 .. l : j \in S
  <2> HIDE DEF S
  <2> QED
    BY <1>2, <1>3, UpTo
<1>5. l \in 0 .. l /\ l - l = 0
  BY SMT
<1>6. PICK f : Good(f, 0)
  BY <1>4, <1>5
<1> QED
  BY <1>1, <1>6 DEF From

(* The steps of a loop over the payload: where it starts, where it goes    *)
(* on, and that it passes over nothing.                                    *)
Chain(p, from, n, X) ==
    /\ from \in X
    /\ X \subseteq from .. n
    /\ \A x \in X : IsTlv(p, x) => NextTlv(p, x) \in X
    /\ \A x, y \in X : x < y => IsTlv(p, x) /\ NextTlv(p, x) <= y

Closed(p, T) == \A x \in 0 .. p.payloadLen : x \in T /\ IsTlv(p, x) => NextTlv(p, x) \in T

(* The offsets from 0 on, as the chain of the TLVs.                        *)
LEMMA OffsetsFrom ==
    ASSUME NEW p \in PacketSet
    PROVE  \E f : f = From(p, f) /\ Offsets(p) = f[0]
<1> DEFINE f == CHOOSE g : g = From(p, g)
<1>1. f = From(p, f)
  BY FromExists
<1>2. Offsets(p) = f[0]
  BY DEF Offsets, From
<1> QED
  BY <1>1, <1>2

LEMMA OffsetsOf ==
    ASSUME NEW p \in PacketSet
    PROVE  Chain(p, 0, p.payloadLen, Offsets(p))
<1>1. PICK l \in Nat : l = p.payloadLen
  BY PacketParts
<1>2. PICK f : f = From(p, f) /\ Offsets(p) = f[0]
  BY OffsetsFrom
<1>3. \A o \in 0 .. l :
        f[o] = {o} \cup (IF IsTlv(p, o) THEN f[NextTlv(p, o)] ELSE {})
  BY <1>1, <1>2 DEF From
<1> DEFINE S == {o \in 0 .. l : Chain(p, o, l, f[o])}
<1>4. ASSUME NEW o \in 0 .. l, \A k \in o + 1 .. l : k \in S
      PROVE  o \in S
  <2>1. o \in Nat /\ o \in o .. l
    BY SMT
  <2>2. CASE ~IsTlv(p, o)
    <3>1. f[o] = {o}
      BY <1>3, <2>2
    <3>2. ~(o < o)
      BY <2>1, SMT
    <3> QED
      BY <2>1, <2>2, <3>1, <3>2 DEF Chain
  <2>3. CASE IsTlv(p, o)
    <3>1. PICK n \in Nat : n = NextTlv(p, o) /\ o + 2 <= n /\ n <= l
      BY <1>1, <2>1, <2>3, TlvRange
    <3>2. n \in o + 1 .. l
      BY <2>1, <3>1, SMT
    <3>3. Chain(p, n, l, f[n]) /\ f[o] = {o} \cup f[n]
      BY <1>3, <1>4, <2>3, <3>1, <3>2
    <3>4. PICK X : X = f[n]
      OBVIOUS
    <3>5. /\ n \in X /\ X \subseteq n .. l
          /\ \A x \in X : IsTlv(p, x) => NextTlv(p, x) \in X
          /\ \A x, y \in X : x < y => IsTlv(p, x) /\ NextTlv(p, x) <= y
      BY <3>3, <3>4 DEF Chain
    <3>6. \A y \in X : y \in o .. l /\ ~(y < o) /\ n <= y /\ o < y
      BY <2>1, <3>1, <3>5, SMT
    <3>7. ~(o < o)
      BY <2>1, SMT
    <3>8. \A x \in f[o] : x = o \/ x \in X
      BY <3>3, <3>4
    <3>9. f[o] \subseteq o .. l /\ o \in f[o] /\ X \subseteq f[o]
      BY <2>1, <3>3, <3>4, <3>6
    <3>10. \A x \in f[o] : IsTlv(p, x) => NextTlv(p, x) \in f[o]
      BY <3>1, <3>5, <3>8, <3>9
    <3>11. \A x, y \in f[o] : x < y => IsTlv(p, x) /\ NextTlv(p, x) <= y
      BY <2>3, <3>1, <3>5, <3>6, <3>7, <3>8
    <3> QED
      BY <3>9, <3>10, <3>11 DEF Chain
  <2> QED
    BY <2>2, <2>3
<1>5. \A o \in 0 .. l : o \in S
  <2> HIDE DEF S
  <2> QED
    BY <1>4, DownFrom
<1>6. 0 \in 0 .. l
  BY SMT
<1> QED
  BY <1>1, <1>2, <1>5, <1>6

(* There are no other offsets than those.                                  *)
LEMMA OffsetsLeast ==
    ASSUME NEW p \in PacketSet, NEW T, 0 \in T, Closed(p, T)
    PROVE  Offsets(p) \subseteq T
<1>1. PICK l \in Nat : l = p.payloadLen
  BY PacketParts
<1>2. PICK f : f = From(p, f) /\ Offsets(p) = f[0]
  BY OffsetsFrom
<1>3. \A o \in 0 .. l :
        f[o] = {o} \cup (IF IsTlv(p, o) THEN f[NextTlv(p, o)] ELSE {})
  BY <1>1, <1>2 DEF From
<1> DEFINE S == {o \in 0 .. l : o \in T => f[o] \subseteq T}
<1>4. ASSUME NEW o \in 0 .. l, \A k \in o + 1 .. l : k \in S
      PROVE  o \in S
  <2>1. o \in Nat
    BY SMT
  <2>2. CASE ~IsTlv(p, o)
    BY <1>3, <2>2
  <2>3. CASE IsTlv(p, o)
    <3>1. PICK n \in Nat : n = NextTlv(p, o) /\ o + 2 <= n /\ n <= l
      BY <1>1, <2>1, <2>3, TlvRange
    <3>2. n \in o + 1 .. l
      BY <2>1, <3>1, SMT
    <3>3. f[o] = {o} \cup f[n]
      BY <1>3, <2>3, <3>1
    <3>4. o \in T => n \in T
      BY <1>1, <2>3, <3>1 DEF Closed
    <3> QED
      BY <1>4, <3>2, <3>3, <3>4
  <2> QED
    BY <2>2, <2>3
<1>5. \A o \in 0 .. l : o \in S
  <2> HIDE DEF S
  <2> QED
    BY <1>4, DownFrom
<1>6. 0 \in 0 .. l
  BY SMT
<1> QED
  BY <1>2, <1>5, <1>6

(* Offsets from which the loops stop only at the length in use.            *)
LEMMA ValidOffsets ==
    ASSUME NEW p \in PacketSet, iot_validate_tlv(p), NEW x \in Offsets(p)
    PROVE  /\ x \in Nat /\ x <= p.payloadLen
           /\ x # p.payloadLen => IsTlv(p, x)
<1>1. PICK l \in Nat : l = p.payloadLen
  BY PacketParts
<1>2. PICK X : X = Offsets(p)
  OBVIOUS
<1>3. /\ X \subseteq 0 .. l
      /\ \A u, v \in X : u < v => IsTlv(p, u) /\ NextTlv(p, u) <= v
  BY <1>1, <1>2, OffsetsOf DEF Chain
<1>4. l \in X /\ x \in X
  BY <1>1, <1>2 DEF iot_validate_tlv
<1>5. x \in Nat /\ x <= l
  BY <1>3, <1>4, SMT
<1>6. ASSUME x # l
      PROVE  x < l
  BY <1>5, <1>6, SMT
<1> QED
  BY <1>1, <1>3, <1>4, <1>5, <1>6

(* The next TLV is where the length byte says.                             *)
LEMMA NextTlvOf ==
    ASSUME NEW p \in PacketSet, NEW q \in PacketSet, NEW x \in Nat,
           q.payload[x + 2] = p.payload[x + 2]
    PROVE  NextTlv(q, x) = NextTlv(p, x)
<1>1. x + 1 + 1 = x + 2
  BY SMT
<1> QED
  BY <1>1 DEF NextTlv, At

(* A TLV written behind the others: q is p with n bytes of data more.      *)
LEMMA OffsetsAppended ==
    ASSUME NEW p \in PacketSet, NEW q \in PacketSet, NEW n \in Nat,
           iot_validate_tlv(p),
           q.payloadLen = p.payloadLen + 2 + n,
           q.payload[p.payloadLen + 2] = n,
           \A k \in 1 .. p.payloadLen : q.payload[k] = p.payload[k]
    PROVE  /\ Offsets(q) = Offsets(p) \cup {q.payloadLen}
           /\ iot_validate_tlv(q)
           /\ IsTlv(q, p.payloadLen) /\ NextTlv(q, p.payloadLen) = q.payloadLen
<1>1. PICK l \in Nat : l = p.payloadLen
  BY PacketParts
<1>2. PICK m \in Nat : m = q.payloadLen
  BY PacketParts
<1>3. m = l + 2 + n
  BY <1>1, <1>2
<1>4. IsTlv(q, l) /\ NextTlv(q, l) = m
  <2>1. l + 1 + 1 = l + 2 /\ l + 2 <= m /\ m <= m
    BY <1>3, SMT
  <2>2. At(q, l + 1) = n
    BY <1>1, <2>1 DEF At
  <2> QED
    BY <1>2, <1>3, <2>1, <2>2 DEF IsTlv, NextTlv
<1>5. Chain(p, 0, l, Offsets(p)) /\ Chain(q, 0, m, Offsets(q))
  BY <1>1, <1>2, OffsetsOf
<1>6. l \in Offsets(p)
  BY <1>1 DEF iot_validate_tlv
<1>7. ASSUME NEW x \in Nat, IsTlv(p, x)
      PROVE  IsTlv(q, x) /\ NextTlv(q, x) = NextTlv(p, x)
  <2>1. PICK z \in Nat : z = NextTlv(p, x) /\ x + 2 <= z /\ z <= l /\ x + 2 <= l
    BY <1>1, <1>7, TlvRange
  <2>2. x + 2 \in 1 .. l /\ x + 2 <= m /\ z <= m
    BY <1>3, <2>1, SMT
  <2>3. NextTlv(q, x) = z
    BY <1>1, <2>1, <2>2, NextTlvOf
  <2> QED
    BY <1>2, <2>1, <2>2, <2>3 DEF IsTlv
<1>8. Offsets(q) \subseteq Offsets(p) \cup {m}
  <2>1. PICK T : T = Offsets(p) \cup {m}
    OBVIOUS
  <2>2. 0 \in T
    BY <1>5, <2>1 DEF Chain
  <2>3. ASSUME NEW x \in 0 .. q.payloadLen, x \in T, IsTlv(q, x)
        PROVE  NextTlv(q, x) \in T
    <3>1. x # m
      BY <1>2, <2>3, NoTlvAtEnd
    <3>2. x \in Offsets(p)
      BY <2>1, <2>3, <3>1
    <3>3. CASE x = l
      BY <1>4, <2>1, <3>3
    <3>4. CASE x # l
      <4>1. x \in Nat /\ IsTlv(p, x)
        BY <1>1, <3>2, <3>4, ValidOffsets
      <4>2. NextTlv(p, x) \in Offsets(p)
        BY <1>5, <3>2, <4>1 DEF Chain
      <4> QED
        BY <1>7, <2>1, <4>1, <4>2
    <3> QED
      BY <3>3, <3>4
  <2>4. Closed(q, T)
    BY <2>3 DEF Closed
  <2> QED
    BY <2>1, <2>2, <2>4, OffsetsLeast
<1>9. Offsets(p) \subseteq Offsets(q)
  <2>1. PICK T : T = Offsets(q)
    OBVIOUS
  <2>2. 0 \in T
    BY <1>5, <2>1 DEF Chain
  <2>3. ASSUME NEW x \in 0 .. p.payloadLen, x \in T, IsTlv(p, x)
        PROVE  NextTlv(p, x) \in T
    <3>1. x \in Nat
      BY <1>1, SMT
    <3>2. IsTlv(q, x) /\ NextTlv(q, x) = NextTlv(p, x)
      BY <1>7, <2>3, <3>1
    <3> QED
      BY <1>5, <2>1, <2>3, <3>2 DEF Chain
  <2>4. Closed(p, T)
    BY <2>3 DEF Closed
  <2> QED
    BY <2>1, <2>2, <2>4, OffsetsLeast
<1>10. m \in Offsets(q)
  BY <1>4, <1>5, <1>6, <1>9 DEF Chain
<1> QED
  BY <1>1, <1>2, <1>4, <1>8, <1>9, <1>10 DEF iot_validate_tlv

(* Only the length bytes decide where the TLVs are.                        *)
LEMMA OffsetsSame ==
    ASSUME NEW p \in PacketSet, NEW q \in PacketSet,
           q.payloadLen = p.payloadLen,
           \A x \in Offsets(p) :
               x + 2 <= p.payloadLen => q.payload[x + 2] = p.payload[x + 2]
    PROVE  /\ Offsets(q) = Offsets(p)
           /\ \A x \in Offsets(p) : IsTlv(p, x) <=> IsTlv(q, x)
<1>1. PICK l \in Nat : l = p.payloadLen /\ l = q.payloadLen
  BY PacketParts
<1>2. Chain(p, 0, l, Offsets(p)) /\ Chain(q, 0, l, Offsets(q))
  BY <1>1, OffsetsOf
<1>3. \A x \in Offsets(p) : x \in Nat
  BY <1>2, SMT DEF Chain
<1>4. ASSUME NEW x \in Offsets(p), IsTlv(p, x) \/ IsTlv(q, x)
      PROVE  IsTlv(p, x) /\ IsTlv(q, x) /\ NextTlv(q, x) = NextTlv(p, x)
  <2>1. x + 2 <= l
    BY <1>1, <1>4 DEF IsTlv
  <2>2. NextTlv(q, x) = NextTlv(p, x)
    BY <1>1, <1>3, <2>1, NextTlvOf
  <2> QED
    BY <1>1, <1>4, <2>1, <2>2 DEF IsTlv
<1>5. Offsets(q) \subseteq Offsets(p)
  <2>1. PICK T : T = Offsets(p)
    OBVIOUS
  <2>2. 0 \in T
    BY <1>2, <2>1 DEF Chain
  <2>3. ASSUME NEW x \in 0 .. q.payloadLen, x \in T, IsTlv(q, x)
        PROVE  NextTlv(q, x) \in T
    BY <1>2, <1>4, <2>1, <2>3 DEF Chain
  <2>4. Closed(q, T)
    BY <2>3 DEF Closed
  <2> QED
    BY <2>1, <2>2, <2>4, OffsetsLeast
<1>6. Offsets(p) \subseteq Offsets(q)
  <2>1. PICK T : T = Offsets(q) \cap Offsets(p)
    OBVIOUS
  <2>2. 0 \in T
    BY <1>2, <2>1 DEF Chain
  <2>3. ASSUME NEW x \in 0 .. p.payloadLen, x \in T, IsTlv(p, x)
        PROVE  NextTlv(p, x) \in T
    BY <1>2, <1>4, <2>1, <2>3 DEF Chain
  <2>4. Closed(p, T)
    BY <2>3 DEF Closed
  <2> QED
    BY <2>1, <2>2, <2>4, OffsetsLeast
<1> QED
  BY <1>4, <1>5, <1>6

-----------------------------------------------------------------------------
(* What applications add.                                                  *)

(* An item is at most 255 bytes, so that its length is a byte.             *)
LEMMA EncodedOf ==
    ASSUME NEW item \in Items
    PROVE  /\ item.tag \in Byte /\ item.tag # AuthTag
           /\ Encoded(item) \in Seq(Byte)
           /\ Len(Encoded(item)) \in Nat /\ Len(Encoded(item)) <= 255
<1>1. /\ item \in Numbers \/ item \in Texts
      /\ item.tag # AuthTag
      /\ item.kind = "text" => Len(item.value) < 256
  BY CodecAssumption DEF CodecAssumption
<1>2. CASE item \in Numbers
  <2>1. /\ item.tag \in Byte /\ item.kind # "text" /\ item.width \in {1, 2, 4}
        /\ item.value \in Int
    BY <1>2 DEF Numbers
  <2>2. PICK w \in {1, 2, 4} : w = item.width
    BY <2>1
  <2>3. PICK v \in Int : v = item.value
    BY <2>1
  <2>4. BigEndian(v, w) \in Seq(Byte) /\ Len(BigEndian(v, w)) = w
    BY BigEndianOf
  <2>5. w \in Nat /\ w <= 255
    BY <2>2, SMT
  <2> QED
    BY <1>1, <2>1, <2>2, <2>3, <2>4, <2>5 DEF Encoded
<1>3. CASE item \in Texts
  <2>1. item.tag \in Byte /\ item.kind = "text" /\ item.value \in Seq(Byte)
    BY <1>3 DEF Texts
  <2>2. Len(item.value) \in Nat
    BY <2>1, LenProperties
  <2>3. Len(item.value) <= 255
    BY <1>1, <2>1, <2>2, SMT
  <2> QED
    BY <1>1, <2>1, <2>2, <2>3 DEF Encoded
<1> QED
  BY <1>1, <1>2, <1>3

-----------------------------------------------------------------------------
(* Writing a TLV of some data at an offset of p gives q, whose last it is. *)
Written(p, q, l, tag, data) ==
    /\ q \in PacketSet
    /\ l \in Nat /\ l \in Offsets(p) /\ l <= p.payloadLen
    /\ Offsets(q) = Offsets(p) \cup {q.payloadLen}
    /\ iot_validate_tlv(q)
    /\ IsTlv(q, l) /\ NextTlv(q, l) = q.payloadLen
    /\ \A x \in Offsets(p) : x <= l \/ (x = q.payloadLen /\ ~IsTlv(p, x))
    /\ \A k \in 1 .. l : q.payload[k] = p.payload[k]
    /\ At(q, l) = tag /\ At(q, l + 1) = Len(data)
    /\ q.payloadLen = l + 2 + Len(data)
    /\ SubSeq(q.payload, l + 3, q.payloadLen) = data

(* What is cut out of a payload where some data was written is the data.   *)
LEMMA DataOf ==
    ASSUME NEW q \in PacketSet, NEW l \in Nat, NEW data \in Seq(Byte),
           q.payloadLen = l + 2 + Len(data),
           \A k \in 1 .. Len(data) : q.payload[l + 2 + k] = data[k]
    PROVE  SubSeq(q.payload, l + 3, q.payloadLen) = data
<1>1. PICK n \in Nat : n = Len(data)
  BY LenProperties
<1>2. PICK m \in Nat : m = l + 3
  BY SMT
<1>3. PICK e \in Nat : e = q.payloadLen /\ e <= MaxPayload
  BY PacketParts
<1>4. e = l + 2 + n
  BY <1>1, <1>3
<1>5. /\ m # 0 /\ m <= e + 1 /\ e - m + 1 = n
      /\ \A k \in 1 .. n : m + k - 1 = l + 2 + k
  BY <1>2, <1>4, SMT
<1>6. q.payload \in Seq(Byte) /\ e <= Len(q.payload)
  BY <1>3, PacketParts
<1>7. /\ SubSeq(q.payload, m, e) \in Seq(Byte)
      /\ Len(SubSeq(q.payload, m, e)) = e - m + 1
      /\ \A k \in 1 .. e - m + 1 : SubSeq(q.payload, m, e)[k] = q.payload[m + k - 1]
  BY <1>5, <1>6, CutOut
<1>8. \A k \in 1 .. n : SubSeq(q.payload, m, e)[k] = data[k]
  BY <1>1, <1>5, <1>7
<1> QED
  BY <1>1, <1>2, <1>3, <1>5, <1>7, <1>8, SeqEqual

(* Adding an item writes a TLV at the end; so does signing, and renewing a *)
(* signature writes it over the last one.                                  *)
LEMMA AppendedWrites ==
    ASSUME NEW p \in PacketSet, iot_validate_tlv(p), NEW tag \in Byte,
           NEW data \in Seq(Byte), Len(data) <= 255, Fits(p, Len(data))
    PROVE  /\ Written(p, Appended(p, tag, data), p.payloadLen, tag, data)
           /\ Appended(p, tag, data).header = p.header
<1>1. PICK q : q = Appended(p, tag, data)
  OBVIOUS
<1>2. PICK l \in Nat : l = p.payloadLen
  BY PacketParts
<1>3. PICK n \in Nat : n = Len(data)
  BY LenProperties
<1>4. /\ q \in PacketSet /\ q.header = p.header
      /\ q.payloadLen = l + 2 + n
      /\ \A k \in 1 .. l : q.payload[k] = p.payload[k]
      /\ q.payload[l + 1] = tag /\ q.payload[l + 2] = n
      /\ \A k \in 1 .. n : q.payload[l + 2 + k] = data[k]
  BY <1>1, <1>2, <1>3, AppendedOf, SMTT(60)
<1>5. /\ Offsets(q) = Offsets(p) \cup {q.payloadLen}
      /\ iot_validate_tlv(q)
      /\ IsTlv(q, l) /\ NextTlv(q, l) = q.payloadLen
  BY <1>2, <1>4, OffsetsAppended
<1>6. SubSeq(q.payload, l + 3, q.payloadLen) = data
  BY <1>3, <1>4, DataOf
<1>7. l \in Offsets(p) /\ l <= l
  BY <1>2, SMT DEF iot_validate_tlv
<1>8. \A x \in Offsets(p) : x <= l
  BY <1>2, ValidOffsets
<1>9. At(q, l) = tag /\ At(q, l + 1) = n
  <2>1. l + 1 + 1 = l + 2
    BY SMT
  <2> QED
    BY <1>4, <2>1 DEF At
<1> QED
  BY <1>1, <1>2, <1>3, <1>4, <1>5, <1>6, <1>7, <1>8, <1>9 DEF Written

LEMMA MarkedWrites ==
    ASSUME NEW p \in PacketSet, NEW q, NEW l, NEW tag, NEW data,
           Written(p, q, l, tag, data)
    PROVE  Written(p, Marked(q), l, tag, data)
<1>1. q \in PacketSet /\ l \in Nat
  BY DEF Written
<1>2. PICK m : m = Marked(q)
  OBVIOUS
<1>3. m \in PacketSet /\ m.payload = q.payload /\ m.payloadLen = q.payloadLen
  BY <1>1, <1>2, MarkedOf
<1>4. Offsets(m) = Offsets(q)
  BY <1>1, <1>3, OffsetsSame
<1>5. IsTlv(m, l) <=> IsTlv(q, l)
  BY <1>3 DEF IsTlv, NextTlv, At
<1>6. NextTlv(m, l) = NextTlv(q, l) /\ At(m, l) = At(q, l) /\ At(m, l + 1) = At(q, l + 1)
  BY <1>3 DEF NextTlv, At
<1> QED
  BY <1>2, <1>3, <1>4, <1>5, <1>6 DEF Written, iot_validate_tlv


(* The signature that is renewed is written where it was.                  *)
LEMMA RenewedWrites ==
    ASSUME HmacIsBytes, NEW p \in PacketSet, iot_validate_tlv(p),
           NEW o \in Signatures(p), IsLast(p, o), At(p, o + 1) = HmacSize
    PROVE  Written(p, Renewed(p, o), o, AuthTag, HmacOf(p, o))
<1>1. o \in Nat /\ o \in Offsets(p) /\ IsTlv(p, o) /\ At(p, o) = AuthTag
  BY ValidOffsets DEF Signatures, TlvsUnder
<1>2. PICK q : q = Renewed(p, o)
  OBVIOUS
<1>3. /\ q \in PacketSet /\ q.payloadLen = p.payloadLen
      /\ \A k \in 1 .. o + 2 : q.payload[k] = p.payload[k]
      /\ \A k \in 1 .. HmacSize : q.payload[o + 2 + k] = HmacOf(p, o)[k]
      /\ o <= MaxPayload
  BY <1>1, <1>2, RenewedOf
<1>4. PICK l \in Nat : l = p.payloadLen /\ l = o + 2 + HmacSize
  BY PacketParts DEF IsLast
<1>5. HmacSize \in Nat /\ 1 <= HmacSize
  BY ConstantTypes
<1>6. NextTlv(p, o) = l
  BY <1>4 DEF NextTlv
<1>7. \A u, v \in Offsets(p) : u < v => IsTlv(p, u) /\ NextTlv(p, u) <= v
  BY OffsetsOf DEF Chain
<1>8. ASSUME NEW x \in Offsets(p)
      PROVE  x <= o \/ (x = l /\ ~IsTlv(p, x))
  <2>1. x \in Nat /\ x <= l
    BY <1>4, ValidOffsets
  <2>2. ~(x <= o) => o < x
    BY <1>1, <2>1, SMT
  <2>3. ~(x <= o) => l <= x
    BY <1>1, <1>6, <1>7, <2>2
  <2>4. ~(x <= o) => x = l
    BY <2>1, <2>3, SMT
  <2>5. ~IsTlv(p, l)
    BY <1>4, NoTlvAtEnd
  <2> QED
    BY <2>4, <2>5
<1>9. ASSUME NEW x \in Offsets(p), x + 2 <= l
      PROVE  q.payload[x + 2] = p.payload[x + 2]
  <2>1. x \in Nat
    BY ValidOffsets
  <2>2. ~(l + 2 <= l)
    BY SMT
  <2>3. x <= o
    BY <1>8, <1>9, <2>2
  <2>4. x + 2 \in 1 .. o + 2
    BY <1>1, <2>1, <2>3, SMT
  <2> QED
    BY <1>3, <2>4
<1>10. /\ Offsets(q) = Offsets(p)
       /\ IsTlv(q, o)
  BY <1>1, <1>3, <1>4, <1>9, OffsetsSame
<1>11. /\ o + 1 \in 1 .. o + 2 /\ o + 2 \in 1 .. o + 2 /\ o + 1 + 1 = o + 2
       /\ \A k \in 1 .. o : k \in 1 .. o + 2
       /\ o <= l
  BY <1>1, <1>4, <1>5, SMT
<1>12. At(q, o) = AuthTag /\ At(q, o + 1) = HmacSize
  BY <1>1, <1>3, <1>11 DEF At
<1>13. NextTlv(q, o) = l
  BY <1>4, <1>12 DEF NextTlv
<1>14. iot_validate_tlv(q) /\ l \in Offsets(p)
  BY <1>3, <1>4, <1>10 DEF iot_validate_tlv
<1>15. PICK h \in Seq(Byte) : h = HmacOf(p, o) /\ Len(h) = HmacSize
  BY <1>1, <1>3, HmacOfType
<1>16. SubSeq(q.payload, o + 3, q.payloadLen) = h
  BY <1>1, <1>3, <1>4, <1>15, DataOf, SMTT(60)
<1> QED
  BY <1>1, <1>2, <1>3, <1>4, <1>8, <1>10, <1>11, <1>12, <1>13, <1>14, <1>15, <1>16
     DEF Written

(* What signing makes of a packet, signed before or not.                   *)
LEMMA SignedOf ==
    ASSUME HmacIsBytes, NEW p \in PacketSet, CanSign(p)
    PROVE  LET q == SignedPacket(p) IN
           /\ q \in PacketSet /\ IsMarked(q)
           /\ q.header.version = p.header.version
           /\ q.header.seq = p.header.seq
           /\ FlagsUnmarked(q) = FlagsUnmarked(p)
           /\ \A g : HeaderBytes(q.header, g) = HeaderBytes(p.header, g)
           /\ \E l \in Nat :
                /\ Written(p, q, l, AuthTag, HmacOf(p, l))
                /\ \/ Signatures(p) = {} /\ l = p.payloadLen
                   \/ l \in Signatures(p) /\ IsLast(p, l)
<1> DEFINE q == SignedPacket(p)
           o == CHOOSE o \in Signatures(p) : TRUE
<1>1. /\ iot_validate_tlv(p)
      /\ \A x \in Signatures(p) : IsLast(p, x) /\ At(p, x + 1) = HmacSize
      /\ Signatures(p) = {} => Fits(p, HmacSize)
  BY DEF CanSign
<1>2. CASE Signatures(p) = {}
  <2>1. PICK l \in Nat : l = p.payloadLen /\ l <= MaxPayload
    BY PacketParts
  <2>2. PICK h \in Seq(Byte) : h = HmacOf(p, l) /\ Len(h) = HmacSize
    BY <2>1, HmacOfType
  <2>3. AuthTag \in Byte
    BY ByteRange, SMT DEF AuthTag
  <2>4. PICK t \in Byte : t = AuthTag
    BY <2>3
  <2>5. Len(h) <= 255 /\ Fits(p, Len(h))
    BY <1>1, <1>2, <2>2, ConstantTypes
  <2>6. PICK a : a = Appended(p, t, h)
    OBVIOUS
  <2>7. Written(p, a, l, t, h) /\ a.header = p.header
    BY <1>1, <2>1, <2>5, <2>6, AppendedWrites
  <2>8. a \in PacketSet
    BY <2>7 DEF Written
  <2>9. q = Marked(a)
    BY <1>2, <2>1, <2>2, <2>4, <2>6 DEF SignedPacket
  <2>10. Written(p, q, l, t, h)
    BY <2>7, <2>9, MarkedWrites
  <2>11. /\ q \in PacketSet /\ IsMarked(q)
         /\ q.header.version = a.header.version
         /\ q.header.seq = a.header.seq
         /\ FlagsUnmarked(q) = FlagsUnmarked(a)
         /\ \A g : HeaderBytes(q.header, g) = HeaderBytes(a.header, g)
    BY <2>8, <2>9, MarkedOf
  <2>12. FlagsUnmarked(a) = FlagsUnmarked(p)
    BY <2>7 DEF FlagsUnmarked, IsMarked
  <2> HIDE DEF q
  <2>13. \E x \in Nat :
           /\ Written(p, q, x, AuthTag, HmacOf(p, x))
           /\ \/ Signatures(p) = {} /\ x = p.payloadLen
              \/ x \in Signatures(p) /\ IsLast(p, x)
    BY <1>2, <2>1, <2>2, <2>4, <2>10
  <2> QED
    BY <2>7, <2>11, <2>12, <2>13 DEF q
<1>3. CASE Signatures(p) # {}
  <2>1. o \in Signatures(p)
    BY <1>3
  <2> HIDE DEF o
  <2>2. IsLast(p, o) /\ At(p, o + 1) = HmacSize
    BY <1>1, <2>1
  <2>3. q = Renewed(p, o)
    BY <1>3 DEF SignedPacket, o
  <2> HIDE DEF q
  <2>4. Written(p, q, o, AuthTag, HmacOf(p, o))
    BY <1>1, <2>1, <2>2, <2>3, RenewedWrites
  <2>5. o \in Nat /\ q \in PacketSet
    BY <2>4 DEF Written
  <2>6. q.header = Marked(p).header
    BY <2>2, <2>3, <2>5, RenewedOf
  <2>7. /\ IsMarked(Marked(p))
        /\ Marked(p).header.version = p.header.version
        /\ Marked(p).header.seq = p.header.seq
        /\ FlagsUnmarked(Marked(p)) = FlagsUnmarked(p)
        /\ \A g : HeaderBytes(Marked(p).header, g) = HeaderBytes(p.header, g)
    BY MarkedOf
  <2>8. IsMarked(q) <=> IsMarked(Marked(p))
    BY <2>6 DEF IsMarked
  <2>9. FlagsUnmarked(q) = FlagsUnmarked(Marked(p))
    BY <2>6 DEF FlagsUnmarked, IsMarked
  <2> QED
    BY <2>1, <2>2, <2>4, <2>5, <2>6, <2>7, <2>8, <2>9 DEF q
<1> QED
  BY <1>2, <1>3


-----------------------------------------------------------------------------
(* Numbers read back.                                                      *)

(* The number of four bytes, of one and of each width.                     *)
LEMMA UnsignedOfFour ==
    ASSUME NEW b \in Seq(Byte), Len(b) = 4
    PROVE  Unsigned(b) = 256 * (256 * (256 * b[1] + b[2]) + b[3]) + b[4]
<1>1. PICK f \in [0 .. 4 -> Nat] :
             /\ f[0] = 0
             /\ \A i \in 1 .. 4 : f[i] = 256 * f[i - 1] + b[i]
             /\ Unsigned(b) = f[4]
  BY UnsignedSteps
<1>2. /\ 1 \in 1 .. 4 /\ 2 \in 1 .. 4 /\ 3 \in 1 .. 4 /\ 4 \in 1 .. 4
      /\ 1 - 1 = 0 /\ 2 - 1 = 1 /\ 3 - 1 = 2 /\ 4 - 1 = 3
  BY SMT
<1>3. /\ f[1] = 256 * f[0] + b[1] /\ f[2] = 256 * f[1] + b[2]
      /\ f[3] = 256 * f[2] + b[3] /\ f[4] = 256 * f[3] + b[4]
  BY <1>1, <1>2
<1>4. PICK x \in Int : x = b[1]
  <2>1. 1 \in 1 .. Len(b)
    BY SMT
  <2> QED
    BY <2>1, ElementOfSeq, ByteRange
<1>5. 256 * 0 + x = x
  BY SMT
<1> QED
  BY <1>1, <1>3, <1>4, <1>5

LEMMA UnsignedOfOne ==
    ASSUME NEW b \in Seq(Byte), Len(b) = 1
    PROVE  Unsigned(b) = b[1]
<1>1. PICK f \in [0 .. 1 -> Nat] :
             /\ f[0] = 0
             /\ \A i \in 1 .. 1 : f[i] = 256 * f[i - 1] + b[i]
             /\ Unsigned(b) = f[1]
  BY UnsignedSteps
<1>2. 1 \in 1 .. 1 /\ 1 - 1 = 0
  BY SMT
<1>3. f[1] = 256 * f[0] + b[1]
  BY <1>1, <1>2
<1>4. PICK x \in Int : x = b[1]
  <2>1. 1 \in 1 .. Len(b)
    BY SMT
  <2> QED
    BY <2>1, ElementOfSeq, ByteRange
<1>5. 256 * 0 + x = x
  BY SMT
<1> QED
  BY <1>1, <1>3, <1>4, <1>5

(* All bytes but the first give the number below the weight of that one.   *)
Leads(b, v, weight) ==
    /\ v \div weight \in Int
    /\ b[1] = (v \div weight) % 256
    /\ Unsigned(b) = v + weight * (b[1] - (v \div weight))

LEMMA UnsignedOf ==
    ASSUME NEW v \in Int, NEW w \in {1, 2, 4}
    PROVE  Leads(BigEndian(v, w), v, ByteWeight[w])
<1> DEFINE b == BigEndian(v, w)
<1>1. b \in Seq(Byte) /\ Len(b) = w
  BY BigEndianOf
<1>2. \A i \in 1 .. w : b[i] = (v \div ByteWeight[w - i + 1]) % 256
  BY DEF BigEndian
<1> HIDE DEF b
<1>3. CASE w = 1
  <2>1. 1 \in 1 .. 1 /\ 1 - 1 + 1 = 1
    BY SMT
  <2>2. b[1] = (v \div 1) % 256
    BY <1>2, <1>3, <2>1, ByteWeights
  <2>3. v \div 1 \in Int /\ (v \div 1) % 256 = v + 1 * (((v \div 1) % 256) - (v \div 1))
    BY SMT
  <2>4. Unsigned(b) = b[1]
    BY <1>1, <1>3, UnsignedOfOne
  <2> QED
    BY <1>3, <2>2, <2>3, <2>4, ByteWeights DEF b, Leads
<1>4. CASE w = 2
  <2>1. 1 \in 1 .. 2 /\ 2 \in 1 .. 2 /\ 2 - 1 + 1 = 2 /\ 2 - 2 + 1 = 1
    BY SMT
  <2>2. b[1] = (v \div 256) % 256 /\ b[2] = (v \div 1) % 256
    BY <1>2, <1>4, <2>1, ByteWeights
  <2>3. /\ v \div 256 \in Int
        /\ 256 * ((v \div 256) % 256) + ((v \div 1) % 256)
             = v + 256 * (((v \div 256) % 256) - (v \div 256))
    BY SMT
  <2>4. Unsigned(b) = 256 * b[1] + b[2]
    BY <1>1, <1>4, UnsignedOfTwo
  <2> QED
    BY <1>4, <2>2, <2>3, <2>4, ByteWeights DEF b, Leads
<1>5. CASE w = 4
  <2>1. /\ 1 \in 1 .. 4 /\ 2 \in 1 .. 4 /\ 3 \in 1 .. 4 /\ 4 \in 1 .. 4
        /\ 4 - 1 + 1 = 4 /\ 4 - 2 + 1 = 3 /\ 4 - 3 + 1 = 2 /\ 4 - 4 + 1 = 1
    BY SMT
  <2>2. /\ b[1] = (v \div 16777216) % 256 /\ b[2] = (v \div 65536) % 256
        /\ b[3] = (v \div 256) % 256 /\ b[4] = (v \div 1) % 256
    BY <1>2, <1>5, <2>1, ByteWeights
  <2>3. PICK t \in Int, u \in Int, x \in Int, y \in Int, z \in Int :
          /\ t = v \div 16777216 /\ u = t % 256
          /\ x = (v \div 65536) % 256 /\ y = (v \div 256) % 256
          /\ z = (v \div 1) % 256
    BY SMT
  <2>4. PICK h \in Int, k \in Int :
          /\ h = v \div 256 /\ k = v \div 65536 /\ k = h \div 256 /\ t = k \div 256
    BY <2>3, SMT
  <2>5. v = 256 * h + z /\ h = 256 * k + y /\ k = 256 * t + x
    BY <2>3, <2>4, SMT
  <2>6. PICK e \in Int : e = 16777216
    BY SMT
  <2>7. 256 * (256 * (256 * u + x) + y) + z = v + e * (u - t)
    BY <2>5, <2>6, SMT
  <2>8. Unsigned(b) = 256 * (256 * (256 * b[1] + b[2]) + b[3]) + b[4]
    BY <1>1, <1>5, UnsignedOfFour
  <2>9. b[1] = u /\ b[2] = x /\ b[3] = y /\ b[4] = z
    BY <2>2, <2>3, SMT
  <2>10. ByteWeight[4] = e /\ t = v \div e
    BY <2>3, <2>6, ByteWeights, SMT
  <2>11. Unsigned(b) = v + e * (b[1] - t) /\ b[1] = t % 256
    BY <2>3, <2>7, <2>8, <2>9
  <2>12. Leads(b, v, e)
    <3>1. v \div e \in Int /\ b[1] = (v \div e) % 256
      BY <2>10, <2>11
    <3>2. Unsigned(b) = v + e * (b[1] - (v \div e))
      BY <2>10, <2>11
    <3> QED
      BY <3>1, <3>2 DEF Leads
  <2> HIDE DEF Leads
  <2> QED
    BY <1>5, <2>10, <2>12 DEF b
<1> QED
  BY <1>3, <1>4, <1>5

(* A number of a width comes out as it went in, with its sign or not.      *)
LEMMA NumberBack ==
    ASSUME NEW v \in Int, NEW w \in {1, 2, 4}
    PROVE  /\ v \div ByteWeight[w] \in Byte => Unsigned(BigEndian(v, w)) = v
           /\ v \div ByteWeight[w] \in -128 .. 127 => Signed(BigEndian(v, w)) = v
<1>1. PICK b : b = BigEndian(v, w)
  OBVIOUS
<1>2. PICK W \in Int : W = ByteWeight[w]
  <2>1. ByteWeight[w] \in Int
    BY ByteWeights, SMT
  <2> QED
    BY <2>1
<1>3. PICK t \in Int : t = v \div W /\ b[1] = t % 256 /\ Unsigned(b) = v + W * (b[1] - t)
  <2>1. Leads(b, v, W)
    BY <1>1, <1>2, UnsignedOf
  <2> QED
    BY <2>1 DEF Leads
<1>4. PICK c \in Int : c = t % 256
  BY SMT
<1>5. b[1] = c /\ Unsigned(b) = v + W * (c - t)
  BY <1>3, <1>4
<1>6. Len(b) = w
  BY <1>1, BigEndianOf
<1>7. ASSUME t \in Byte
      PROVE  Unsigned(b) = v
  <2>1. 0 <= t /\ t < 256
    BY <1>7, ByteRange
  <2>2. c = t
    BY <1>4, <2>1, SMT
  <2>3. v + W * (c - t) = v
    BY <2>2, SMT
  <2> QED
    BY <1>5, <2>3
<1>8. ASSUME t \in -128 .. 127
      PROVE  Signed(b) = v
  <2>1. -128 <= t /\ t < 128
    BY <1>8, SMT
  <2>2. CASE 0 <= t
    <3>1. c = t /\ c < 128
      BY <1>4, <2>1, <2>2, SMT
    <3>2. v + W * (c - t) = v
      BY <3>1, SMT
    <3> QED
      BY <1>5, <3>1, <3>2 DEF Signed
  <2>3. CASE ~(0 <= t)
    <3>1. c = t + 256 /\ ~(c < 128)
      BY <1>4, <2>1, <2>3, SMT
    <3>2. c - t = 256
      BY <3>1, SMT
    <3>3. (v + W * 256) - 256 * W = v
      BY <1>2, SMT
    <3>4. Signed(b) = Unsigned(b) - 256 * ByteWeight[Len(b)]
      BY <1>5, <3>1 DEF Signed
    <3> QED
      BY <1>2, <1>5, <1>6, <3>2, <3>3, <3>4
  <2> QED
    BY <2>2, <2>3
<1> QED
  BY <1>1, <1>2, <1>3, <1>7, <1>8


-----------------------------------------------------------------------------
(* Frames read.                                                            *)

(* The pieces of a frame are bytes, and so is what is parsed of it.        *)
LEMMA PieceOf ==
    ASSUME NEW f \in Seq(Byte), NEW m \in Nat, NEW n \in Nat, m # 0, m <= n,
           n <= Len(f)
    PROVE  /\ SubSeq(f, m, n) \in Seq(Byte) /\ Len(SubSeq(f, m, n)) = n - m + 1
           /\ Unsigned(SubSeq(f, m, n)) \in Nat
<1>1. m <= n + 1
  BY SMT
<1>2. SubSeq(f, m, n) \in Seq(Byte) /\ Len(SubSeq(f, m, n)) = n - m + 1
  BY <1>1, CutOut
<1>3. PICK s \in Seq(Byte) : s = SubSeq(f, m, n)
  BY <1>2
<1>4. Len(s) \in Nat
  BY LenProperties
<1>5. PICK g \in [0 .. Len(s) -> Nat] : Unsigned(s) = g[Len(s)]
  BY UnsignedSteps
<1>6. Len(s) \in 0 .. Len(s)
  BY <1>4, SMT
<1> QED
  BY <1>2, <1>3, <1>5, <1>6

LEMMA FrameBytes ==
    ASSUME NEW f \in Seq(Byte), IsFrame(f)
    PROVE  /\ Len(f) \in Nat /\ 16 <= Len(f)
           /\ \A k \in 1 .. 14 : f[k] \in Byte
           /\ f[14] \in Nat /\ f[14] <= MaxPayload
           /\ Len(f) = 16 + f[14]
           /\ \A k \in 1 .. f[14] : f[14 + k] \in Byte
<1>1. PICK n \in Nat : n = Len(f)
  BY LenProperties
<1>2. n >= 14 + 2 /\ f[14] <= MaxPayload /\ n = 14 + f[14] + 2
  BY <1>1 DEF IsFrame, HeaderSize, CrcSize
<1>3. \A k \in 1 .. n : f[k] \in Byte
  BY <1>1, ElementOfSeq
<1>4. \A k \in 1 .. 14 : k \in 1 .. n
  BY <1>2, SMT
<1>5. 14 \in 1 .. 14
  BY SMT
<1>6. PICK l \in Int : l = f[14] /\ 0 <= l
  BY <1>3, <1>4, <1>5, ByteRange
<1>7. /\ l \in Nat /\ 16 <= n /\ 14 + l + 2 = 16 + l
      /\ \A k \in 1 .. l : n = 14 + l + 2 => 14 + k \in 1 .. n
  BY <1>2, <1>6, SMT
<1> QED
  BY <1>1, <1>2, <1>3, <1>4, <1>6, <1>7

LEMMA ParsedOf ==
    ASSUME NEW f \in Seq(Byte), IsFrame(f), NEW leftover \in Leftovers
    PROVE  Parsed(f, leftover) \in PacketSet
<1>1. /\ Len(f) \in Nat /\ 16 <= Len(f)
      /\ \A k \in 1 .. 14 : f[k] \in Byte
      /\ f[14] \in Nat /\ f[14] <= MaxPayload
      /\ \A k \in 1 .. f[14] : f[14 + k] \in Byte
  BY FrameBytes
<1>2. leftover \in [1 .. MaxPayload -> Byte]
  BY CodecAssumption DEF CodecAssumption
<1>3. PICK l \in Nat : l = f[14] /\ l <= MaxPayload
  BY <1>1
<1>4. l \in 0 .. MaxPayload
  BY <1>3, ConstantTypes, SMT
<1>5. ASSUME NEW i \in 1 .. MaxPayload
      PROVE  (IF i <= f[14] THEN f[14 + i] ELSE leftover[i]) \in Byte
  <2>1. i <= l => i \in 1 .. l
    BY SMT
  <2> QED
    BY <1>1, <1>2, <1>3, <2>1
<1>6. /\ 7 \in Nat /\ 8 \in Nat /\ 7 # 0 /\ 7 <= 8 /\ 8 <= Len(f) /\ 8 - 7 + 1 = 2
      /\ 9 \in Nat /\ 12 \in Nat /\ 9 # 0 /\ 9 <= 12 /\ 12 <= Len(f)
  BY <1>1, SMT
<1>7. /\ SubSeq(f, 7, 8) \in Seq(Byte) /\ Len(SubSeq(f, 7, 8)) = 8 - 7 + 1
  BY <1>6, PieceOf
<1>8. Unsigned(SubSeq(f, 9, 12)) \in Nat
  BY <1>6, PieceOf
<1>9. Unsigned(SubSeq(f, 7, 8)) \in Word
  <2>1. PICK s \in Seq(Byte) : s = SubSeq(f, 7, 8) /\ Len(s) = 2
    BY <1>6, <1>7
  <2>2. 1 \in 1 .. Len(s) /\ 2 \in 1 .. Len(s)
    BY <2>1, SMT
  <2>3. s[1] \in Byte /\ s[2] \in Byte
    BY <2>2, ElementOfSeq
  <2>4. PICK a \in Int, b \in Int : /\ a = s[1] /\ b = s[2]
                                    /\ 0 <= a /\ a < 256 /\ 0 <= b /\ b < 256
    BY <2>3, ByteRange
  <2>5. 256 * a + b \in Int /\ 0 <= 256 * a + b /\ 256 * a + b < 65536
    BY <2>4, SMT
  <2>6. Unsigned(s) = 256 * a + b
    BY <2>1, <2>4, UnsignedOfTwo
  <2> QED
    BY <2>1, <2>5, <2>6, WordRange
<1>10. 3 \in 1 .. 14 /\ 4 \in 1 .. 14 /\ 5 \in 1 .. 14 /\ 6 \in 1 .. 14 /\ 13 \in 1 .. 14
  BY SMT
<1>11. Parsed(f, leftover).header \in HeaderSet
  BY <1>1, <1>8, <1>9, <1>10 DEF Parsed, HeaderSet
<1>12. Parsed(f, leftover).payload \in [1 .. MaxPayload -> Byte]
  BY <1>5 DEF Parsed, HeaderSize
<1>13. Parsed(f, leftover).payloadLen \in 0 .. MaxPayload
  BY <1>3, <1>4 DEF Parsed, HeaderSize
<1>14. Parsed(f, leftover) =
         [header |-> Parsed(f, leftover).header, payload |-> Parsed(f, leftover).payload,
          payloadLen |-> Parsed(f, leftover).payloadLen]
  BY DEF Parsed
<1> QED
  BY <1>11, <1>12, <1>13, <1>14 DEF PacketSet


(* The bytes iot_serialize writes, one by one.                             *)
LEMMA SentBytes ==
    ASSUME NEW p \in PacketSet
    PROVE  LET f == Serialized(p) IN
           /\ f \in Seq(Byte) /\ Len(f) = 16 + p.payloadLen
           /\ SubSeq(f, 1, 2) = Magic
           /\ \A k \in 1 .. 11 : f[2 + k] = HeaderBytes(p.header, p.header.flags)[k]
           /\ f[14] = p.payloadLen
           /\ \A k \in 1 .. p.payloadLen : f[14 + k] = p.payload[k]
           /\ HasGoodCrc(f)
<1>1. PICK f : f = Serialized(p)
  OBVIOUS
<1>2. PICK m \in Seq(Byte) :
             /\ f = WithCrc(m)
             /\ Len(m) = 14 + p.payloadLen
             /\ m[1] = 165 /\ m[2] = 90
             /\ \A k \in 1 .. 11 : m[2 + k] = HeaderBytes(p.header, p.header.flags)[k]
             /\ m[14] = p.payloadLen
             /\ \A k \in 1 .. p.payloadLen : m[14 + k] = p.payload[k]
  BY <1>1, FrameOf, SMTT(60)
<1>3. PICK l \in Nat : l = p.payloadLen
  BY PacketParts
<1>4. PICK n \in Nat : n = Len(m) /\ n = 14 + l
  BY <1>2, <1>3, LenProperties
<1>5. /\ f \in Seq(Byte) /\ Len(f) = n + 2 /\ \A k \in 1 .. n : f[k] = m[k]
      /\ HasGoodCrc(f)
  <2>1. PICK w : w = WithCrc(m)
    OBVIOUS
  <2>2. w \in Seq(Byte) /\ Len(w) = Len(m) + 2 /\ \A k \in 1 .. Len(m) : w[k] = m[k]
    BY <2>1, WithCrcOf
  <2>3. HasGoodCrc(w)
    BY <2>1, WrittenIsGood
  <2> QED
    BY <1>2, <1>4, <2>1, <2>2, <2>3
<1>6. /\ 1 \in 1 .. n /\ 2 \in 1 .. n /\ 14 \in 1 .. n /\ n + 2 = 16 + l
      /\ \A k \in 1 .. 11 : 2 + k \in 1 .. n
      /\ \A k \in 1 .. l : 14 + k \in 1 .. n
  BY <1>4, SMT
<1>7. f[1] = Magic[1] /\ f[2] = Magic[2]
  BY <1>2, <1>5, <1>6, SMT DEF Magic
<1>8. SubSeq(f, 1, 2) = Magic
  <2>1. /\ 1 \in Nat /\ 2 \in Nat /\ 1 # 0 /\ 2 <= Len(f) /\ 1 <= 2 + 1
        /\ 2 - 1 + 1 = 2 /\ 1 + 1 - 1 = 1 /\ 1 + 2 - 1 = 2
        /\ 1 \in 1 .. 2 /\ 2 \in 1 .. 2
    BY <1>4, <1>5, SMT
  <2>2. /\ SubSeq(f, 1, 2) \in Seq(Byte)
        /\ Len(SubSeq(f, 1, 2)) = 2 - 1 + 1
        /\ \A k \in 1 .. 2 - 1 + 1 : SubSeq(f, 1, 2)[k] = f[1 + k - 1]
    BY <1>5, <2>1, CutOut
  <2>3. PICK s : s = SubSeq(f, 1, 2)
    OBVIOUS
  <2>4. s \in Seq(Byte) /\ Len(s) = 2 /\ s[1] = Magic[1] /\ s[2] = Magic[2]
    BY <1>7, <2>1, <2>2, <2>3
  <2>5. s = <<s[1], s[2]>>
    BY <2>4, SMT
  <2>6. Magic = <<Magic[1], Magic[2]>>
    BY SMT DEF Magic
  <2> QED
    BY <2>3, <2>4, <2>5, <2>6
<1>9. \A k \in 1 .. 11 : f[2 + k] = HeaderBytes(p.header, p.header.flags)[k]
  BY <1>2, <1>5, <1>6, SMTT(60)
<1>10. /\ f[14] = l /\ \A k \in 1 .. l : f[14 + k] = p.payload[k]
  BY <1>2, <1>3, <1>5, <1>6
<1> QED
  BY <1>1, <1>3, <1>5, <1>6, <1>8, <1>9, <1>10

(* A receiver has what was sent: the header and the bytes in use.          *)
Copy(q, p) ==
    /\ q \in PacketSet
    /\ q.header = p.header /\ q.payloadLen = p.payloadLen
    /\ \A k \in 1 .. p.payloadLen : q.payload[k] = p.payload[k]

(* iot_deserialize takes what iot_serialize wrote, and gives the packet    *)
(* back.                                                                   *)
LEMMA SentIsRead ==
    ASSUME NEW p \in PacketSet, p.header.version \div 16 = ProtocolMajor,
           p.header.seq \div ByteWeight[4] \in Byte
    PROVE  /\ IsFrame(Serialized(p))
           /\ \A leftover \in Leftovers : Copy(Parsed(Serialized(p), leftover), p)
<1>1. PICK f : f = Serialized(p)
  OBVIOUS
<1>2. PICK h \in HeaderSet : h = p.header /\ h.flags \in Byte
  BY PacketParts
<1>3. PICK l \in Nat : l = p.payloadLen /\ l <= MaxPayload
  BY PacketParts
<1>4. /\ f \in Seq(Byte) /\ Len(f) = 16 + l
      /\ SubSeq(f, 1, 2) = Magic
      /\ \A k \in 1 .. 11 : f[2 + k] = HeaderBytes(h, h.flags)[k]
      /\ f[14] = l
      /\ \A k \in 1 .. l : f[14 + k] = p.payload[k]
      /\ HasGoodCrc(f)
  BY <1>1, <1>2, <1>3, SentBytes
<1>5. PICK b \in Seq(Byte) : b = HeaderBytes(h, h.flags)
  BY <1>2, HeaderBytesOf
<1>6. /\ b[1] = h.version /\ b[2] = h.type /\ b[3] = h.src /\ b[4] = h.dst
      /\ b[5] = BigEndian(h.bootId, 2)[1] /\ b[6] = BigEndian(h.bootId, 2)[2]
      /\ b[7] = BigEndian(h.seq, 4)[1] /\ b[8] = BigEndian(h.seq, 4)[2]
      /\ b[9] = BigEndian(h.seq, 4)[3] /\ b[10] = BigEndian(h.seq, 4)[4]
      /\ b[11] = h.flags
  BY <1>2, <1>5, HeaderBytesOf, ZenonT(60)
<1>7. /\ f[3] = b[1] /\ f[4] = b[2] /\ f[5] = b[3] /\ f[6] = b[4] /\ f[7] = b[5]
      /\ f[8] = b[6] /\ f[9] = b[7] /\ f[10] = b[8] /\ f[11] = b[9] /\ f[12] = b[10]
      /\ f[13] = b[11]
  <2>1. \A k \in 1 .. 11 : f[2 + k] = b[k]
    BY <1>4, <1>5
  <2>2. /\ 1 \in 1 .. 11 /\ 2 \in 1 .. 11 /\ 3 \in 1 .. 11 /\ 4 \in 1 .. 11
        /\ 5 \in 1 .. 11 /\ 6 \in 1 .. 11 /\ 7 \in 1 .. 11 /\ 8 \in 1 .. 11
        /\ 9 \in 1 .. 11 /\ 10 \in 1 .. 11 /\ 11 \in 1 .. 11
        /\ 2 + 1 = 3 /\ 2 + 2 = 4 /\ 2 + 3 = 5 /\ 2 + 4 = 6 /\ 2 + 5 = 7
        /\ 2 + 6 = 8 /\ 2 + 7 = 9 /\ 2 + 8 = 10 /\ 2 + 9 = 11 /\ 2 + 10 = 12
        /\ 2 + 11 = 13
    BY SMT
  <2> QED
    BY <2>1, <2>2
<1>8. IsFrame(f)
  <2>1. /\ 16 + l >= 14 + 2 /\ 16 + l = 14 + l + 2
    BY <1>3, SMT
  <2>2. f[3] \div 16 = ProtocolMajor
    BY <1>2, <1>6, <1>7
  <2> QED
    BY <1>3, <1>4, <2>1, <2>2 DEF IsFrame, HeaderSize, CrcSize
<1>9. SubSeq(f, 7, 8) = BigEndian(h.bootId, 2)
  <2>1. PICK c \in Seq(Byte) : c = BigEndian(h.bootId, 2) /\ Len(c) = 2
    <3>1. h.bootId \in Word
      BY DEF HeaderSet
    <3> QED
      BY <3>1, TwoBytesOf
  <2>2. /\ 7 \in Nat /\ 8 \in Nat /\ 7 # 0 /\ 8 <= Len(f) /\ 7 <= 8 + 1 /\ 8 - 7 + 1 = 2
        /\ 7 + 1 - 1 = 7 /\ 7 + 2 - 1 = 8
        /\ \A k \in 1 .. 2 : k = 1 \/ k = 2
    BY <1>3, <1>4, SMT, ZenonT(60)
  <2>3. PICK s : s = SubSeq(f, 7, 8)
    OBVIOUS
  <2>4. s \in Seq(Byte) /\ Len(s) = 2 /\ \A k \in 1 .. 2 : s[k] = f[7 + k - 1]
    BY <1>4, <2>2, <2>3, CutOut
  <2>5. \A k \in 1 .. 2 : s[k] = c[k]
    BY <1>6, <1>7, <2>1, <2>2, <2>4, ZenonT(60)
  <2> QED
    BY <2>1, <2>3, <2>4, <2>5, SeqEqual
<1>10. SubSeq(f, 9, 12) = BigEndian(h.seq, 4)
  <2>1. PICK c \in Seq(Byte) : c = BigEndian(h.seq, 4) /\ Len(c) = 4
    <3>1. h.seq \in Int /\ 4 \in {1, 2, 4}
      BY SMT DEF HeaderSet
    <3> QED
      BY <3>1, BigEndianOf
  <2>2. /\ 9 \in Nat /\ 12 \in Nat /\ 9 # 0 /\ 12 <= Len(f) /\ 9 <= 12 + 1
        /\ 12 - 9 + 1 = 4
        /\ 9 + 1 - 1 = 9 /\ 9 + 2 - 1 = 10 /\ 9 + 3 - 1 = 11 /\ 9 + 4 - 1 = 12
        /\ \A k \in 1 .. 4 : k = 1 \/ k = 2 \/ k = 3 \/ k = 4
    BY <1>3, <1>4, SMT, ZenonT(60)
  <2>3. PICK s : s = SubSeq(f, 9, 12)
    OBVIOUS
  <2>4. s \in Seq(Byte) /\ Len(s) = 4 /\ \A k \in 1 .. 4 : s[k] = f[9 + k - 1]
    BY <1>4, <2>2, <2>3, CutOut
  <2>5. \A k \in 1 .. 4 : s[k] = c[k]
    <3>1. /\ c[1] = f[9] /\ c[2] = f[10] /\ c[3] = f[11] /\ c[4] = f[12]
      BY <1>6, <1>7, <2>1
    <3>2. 1 \in 1 .. 4 /\ 2 \in 1 .. 4 /\ 3 \in 1 .. 4 /\ 4 \in 1 .. 4
      BY SMT
    <3>3. /\ s[1] = f[9] /\ s[2] = f[10] /\ s[3] = f[11] /\ s[4] = f[12]
      BY <2>2, <2>4, <3>2
    <3> QED
      BY <2>2, <3>1, <3>3
  <2> QED
    BY <2>1, <2>3, <2>4, <2>5, SeqEqual
<1>11. Unsigned(BigEndian(h.bootId, 2)) = h.bootId
  <2>1. PICK v \in Word : v = h.bootId
    BY DEF HeaderSet
  <2>2. v \in Int /\ 0 <= v /\ v < 65536
    BY WordRange
  <2>3. v \div 256 \in Int /\ 0 <= v \div 256 /\ v \div 256 < 256
    BY <2>2, SMT
  <2>4. v \div ByteWeight[2] \in Byte
    BY <2>3, ByteRange, ByteWeights
  <2>5. 2 \in {1, 2, 4}
    OBVIOUS
  <2> QED
    BY <2>1, <2>2, <2>4, <2>5, NumberBack
<1>12. Unsigned(BigEndian(h.seq, 4)) = h.seq
  <2>1. PICK v \in Int : v = h.seq
    BY SMT DEF HeaderSet
  <2>2. v \div ByteWeight[4] \in Byte
    BY <1>2, <2>1
  <2>3. 4 \in {1, 2, 4}
    OBVIOUS
  <2> QED
    BY <2>1, <2>2, <2>3, NumberBack
<1>13. ASSUME NEW leftover \in Leftovers
       PROVE  Copy(Parsed(f, leftover), p)
  <2>1. PICK q : q = Parsed(f, leftover)
    OBVIOUS
  <2>2. q \in PacketSet
    BY <1>4, <1>8, <2>1, ParsedOf
  <2>3. q.header = [version |-> h.version, type |-> h.type, src |-> h.src, dst |-> h.dst,
                    bootId |-> h.bootId, seq |-> h.seq, flags |-> h.flags]
    BY <1>6, <1>7, <1>9, <1>10, <1>11, <1>12, <2>1 DEF Parsed
  <2>4. h = [version |-> h.version, type |-> h.type, src |-> h.src, dst |-> h.dst,
             bootId |-> h.bootId, seq |-> h.seq, flags |-> h.flags]
    BY DEF HeaderSet
  <2>5. q.payloadLen = l
    BY <1>4, <2>1 DEF Parsed, HeaderSize
  <2>6. ASSUME NEW k \in 1 .. l
        PROVE  q.payload[k] = p.payload[k]
    <3>1. k \in 1 .. MaxPayload /\ k <= l
      BY <1>3, ConstantTypes, SMT
    <3>2. q.payload[k] = f[14 + k]
      BY <1>4, <2>1, <3>1 DEF Parsed, HeaderSize
    <3> QED
      BY <1>4, <3>2
  <2> QED
    BY <1>2, <1>3, <2>1, <2>2, <2>3, <2>4, <2>5, <2>6 DEF Copy
<1> QED
  BY <1>1, <1>8, <1>13


-----------------------------------------------------------------------------
(* Frames disturbed.                                                       *)

Noisy(f, i, n) ==
    [f EXCEPT ![i] = (@ + n[1]) % 256, ![i + 1] = (@ + n[2]) % 256]

LEMMA NoiseOf ==
    ASSUME NEW x \in Byte, NEW a \in Byte
    PROVE  /\ (x + a) % 256 \in Byte
           /\ a # 0 => (x + a) % 256 # x
<1>1. /\ x \in Int /\ 0 <= x /\ x < 256 /\ a \in Int /\ 0 <= a /\ a < 256
  BY ByteRange
<1>2. /\ (x + a) % 256 \in Int /\ 0 <= (x + a) % 256 /\ (x + a) % 256 < 256
      /\ a # 0 => (x + a) % 256 # x
  BY <1>1, SMT
<1> QED
  BY <1>2, ByteRange

(* No frame after noise on two neighbours, a cut, or growth by a byte.     *)
LEMMA NoisyIsNoFrame ==
    ASSUME NEW p \in PacketSet, NEW i \in 1 .. Len(Serialized(p)) - 1, NEW n \in Noise
    PROVE  /\ Noisy(Serialized(p), i, n) \in Seq(Byte)
           /\ Len(Noisy(Serialized(p), i, n)) = Len(Serialized(p))
           /\ ~IsFrame(Noisy(Serialized(p), i, n))
<1>1. PICK m \in Seq(Byte) : Serialized(p) = WithCrc(m) /\ Len(m) = 14 + p.payloadLen
  BY FrameOf
<1>2. PICK l \in Nat : l = Len(m) /\ 1 <= l
  <2>1. PICK k \in Nat : k = p.payloadLen
    BY PacketParts
  <2>2. 14 + k \in Nat /\ 1 <= 14 + k
    BY <2>1, SMT
  <2> QED
    BY <1>1, <2>1, <2>2
<1>3. PICK f \in Seq(Byte) : f = Serialized(p) /\ Len(f) = l + 2
  BY <1>1, <1>2, WithCrcOf
<1>4. /\ i \in 1 .. l + 1 /\ i \in 1 .. l + 2 /\ i + 1 \in 1 .. l + 2 /\ i # i + 1
      /\ l + 2 \in Nat /\ l # 0
  BY <1>2, <1>3, SMT
<1>5. n[1] \in Byte /\ n[2] \in Byte /\ (n[1] # 0 \/ n[2] # 0)
  BY CodecAssumption DEF CodecAssumption
<1>6. /\ DOMAIN f = 1 .. l + 2 /\ f \in [1 .. l + 2 -> Byte]
  BY <1>3, LenProperties
<1>7. f[i] \in Byte /\ f[i + 1] \in Byte
  BY <1>4, <1>6
<1>8. PICK a \in Byte : a = (f[i] + n[1]) % 256
  BY <1>5, <1>7, NoiseOf
<1>9. PICK b \in Byte : b = (f[i + 1] + n[2]) % 256
  BY <1>5, <1>7, NoiseOf
<1>10. a # f[i] \/ b # f[i + 1]
  BY <1>5, <1>7, <1>8, <1>9, NoiseOf, ZenonT(60)
<1> DEFINE g == [f EXCEPT ![i] = a, ![i + 1] = b]
<1>11. Noisy(f, i, n) = g
  BY <1>4, <1>6, <1>8, <1>9 DEF Noisy
<1>12. /\ g \in [1 .. l + 2 -> Byte] /\ g[i] = a /\ g[i + 1] = b
       /\ \A k \in 1 .. l + 2 : k \notin {i, i + 1} => g[k] = f[k]
  BY <1>4, <1>6
<1> HIDE DEF g
<1>13. g \in Seq(Byte) /\ Len(g) = l + 2
  BY <1>4, <1>12, FunctionSeq
<1>14. PICK c \in Seq(Byte) : c = WithCrc(m) /\ c = f
  BY <1>1, <1>3
<1>15. ~HasGoodCrc(g)
  <2>1. /\ \A k \in 1 .. Len(g) : k \notin {i, i + 1} => g[k] = WithCrc(m)[k]
        /\ g[i] # WithCrc(m)[i] \/ g[i + 1] # WithCrc(m)[i + 1]
    BY <1>10, <1>12, <1>13, <1>14
  <2>2. Len(m) # 0 /\ Len(g) = Len(m) + 2 /\ i \in 1 .. Len(m) + 1
    BY <1>2, <1>4, <1>13
  <2> QED
    BY <1>13, <2>1, <2>2, NoiseIsNoticed
<1> QED
  BY <1>3, <1>11, <1>13, <1>15 DEF IsFrame

LEMMA CutIsNoFrame ==
    ASSUME NEW p \in PacketSet
    PROVE  LET f == Serialized(p)
               g == SubSeq(f, 1, Len(f) - 1)
           IN  g \in Seq(Byte) /\ Len(g) = Len(f) - 1 /\ ~IsFrame(g)
<1>1. PICK l \in Nat : l = p.payloadLen
  BY PacketParts
<1>2. PICK f \in Seq(Byte) : f = Serialized(p) /\ Len(f) = 16 + l /\ f[14] = l
  BY <1>1, SentBytes
<1>3. PICK e \in Nat : e = Len(f) - 1 /\ e = 15 + l
  BY <1>2, SMT
<1>4. PICK g : g = SubSeq(f, 1, e)
  OBVIOUS
<1>5. /\ 1 \in Nat /\ 1 # 0 /\ 1 <= e + 1 /\ e <= Len(f) /\ e - 1 + 1 = e
      /\ 14 \in 1 .. e /\ 1 + 14 - 1 = 14
  BY <1>2, <1>3, SMT
<1>6. /\ g \in Seq(Byte) /\ Len(g) = e - 1 + 1
      /\ \A k \in 1 .. e - 1 + 1 : g[k] = f[1 + k - 1]
  BY <1>4, <1>5, CutOut
<1>7. g[14] = l /\ Len(g) = e
  BY <1>2, <1>5, <1>6
<1>8. e # 14 + l + 2
  BY <1>3, SMT
<1>9. ~IsFrame(g)
  BY <1>7, <1>8 DEF IsFrame, HeaderSize, CrcSize
<1> QED
  BY <1>2, <1>3, <1>4, <1>6, <1>7, <1>9

LEMMA GrownIsNoFrame ==
    ASSUME NEW p \in PacketSet
    PROVE  LET f == Serialized(p)
               g == Append(f, 0)
           IN  g \in Seq(Byte) /\ Len(g) = Len(f) + 1 /\ ~IsFrame(g)
<1>1. PICK l \in Nat : l = p.payloadLen
  BY PacketParts
<1>2. PICK f \in Seq(Byte) : f = Serialized(p) /\ Len(f) = 16 + l /\ f[14] = l
  BY <1>1, SentBytes
<1>3. PICK z \in Byte : z = 0
  BY ByteRange, SMT
<1>4. PICK g : g = Append(f, z)
  OBVIOUS
<1>5. g \in Seq(Byte) /\ Len(g) = Len(f) + 1 /\ \A k \in 1 .. Len(f) : g[k] = f[k]
  BY <1>4, AppendProperties
<1>6. 14 \in 1 .. 16 + l /\ 16 + l + 1 # 14 + l + 2
  BY SMT
<1>7. g[14] = l /\ Len(g) = 16 + l + 1
  BY <1>2, <1>5, <1>6
<1>8. ~IsFrame(g)
  BY <1>6, <1>7 DEF IsFrame, HeaderSize, CrcSize
<1> QED
  BY <1>2, <1>3, <1>4, <1>5, <1>8


-----------------------------------------------------------------------------
(* The invariant.  A packet of the sender is well-formed whatever is added *)
(* to it and whenever it is signed.                                        *)
Sound(p) ==
    /\ p \in PacketSet
    /\ p.header.version \div 16 = ProtocolMajor
    /\ p.header.seq \div ByteWeight[4] \in Byte
    /\ FlagsUnmarked(p) \in {h.flags : h \in Headers}
    /\ iot_validate_tlv(p)

Typed ==
    /\ pc \in {"build", "ready", "dropped", "sent", "received"}
    /\ Sound(packet)
    /\ mustSign \in BOOLEAN /\ policy \in Policies
    /\ frame \in Seq(Byte) /\ Len(frame) <= MaxPayload + 17
    /\ rx = NoPacket \/ rx \in PacketSet
    /\ verdict \in {"none", "refused", "rejected", "accepted"}
    /\ added \in Seq(Items)
    /\ altered \in BOOLEAN

(* What is on the wire is the packet or no frame at all, and what was read *)
(* from it is the packet.                                                  *)
OnTheWire ==
    /\ pc \in {"build", "ready"} => ~altered
    /\ pc # "received" => verdict = "none"
    /\ pc = "sent" /\ ~altered => frame = Serialized(packet)
    /\ pc = "sent" /\ altered => ~IsFrame(frame)
    /\ pc = "received" /\ altered => verdict = "refused"
    /\ pc = "received" /\ ~altered =>
         /\ Copy(rx, packet)
         /\ verdict = IF VerifyIncoming(rx, policy) THEN "accepted" ELSE "rejected"

(* Under each tag the packet has what was added first.                     *)
FirstOf(items, tag) ==
    LET under == {i \in DOMAIN items : items[i].tag = tag}
    IN  IF under = {} THEN NotFound
        ELSE [found |-> TRUE, data |-> Encoded(items[Min(under)])]

Holds(p, items) == \A tag \in Byte \ {AuthTag} : findTLV(p, tag) = FirstOf(items, tag)

(* Before its node signs it a packet is what was written, with at most one *)
(* signature; if that is at the end it is behind all that was written.     *)
NotYetSigned(p, written) ==
    \/ Signatures(p) = {} /\ SubSeq(p.payload, 1, p.payloadLen) = written
    \/ \E o \in 0 .. MaxPayload :
         /\ Signatures(p) = {o} /\ At(p, o + 1) = HmacSize
         /\ IsLast(p, o) => SubSeq(p.payload, 1, o) = written

SignedBehind(p, written) ==
    /\ IsMarked(p)
    /\ \E o \in 0 .. MaxPayload :
         /\ Signatures(p) = {o} /\ At(p, o + 1) = HmacSize /\ IsLast(p, o)
         /\ SubSeq(p.payload, 1, o) = written
         /\ SubSeq(p.payload, o + 3, p.payloadLen) = HmacOf(p, o)

Content ==
    /\ Holds(packet, added)
    /\ pc = "build" => NotYetSigned(packet, WrittenTlvs)
    /\ pc \in {"ready", "sent", "received"} /\ mustSign =>
         SignedBehind(packet, WrittenTlvs)

CodecInv == Typed /\ OnTheWire /\ Content


-----------------------------------------------------------------------------
(* What a search finds in a payload.                                       *)

(* The least of a set, and so the first TLV under a tag.                   *)
LEMMA MinIs ==
    ASSUME NEW S \in SUBSET Nat, NEW o \in S, \A y \in S : o <= y
    PROVE  Min(S) = o
<1>1. PICK m : m = Min(S)
  OBVIOUS
<1>2. m \in S /\ \A y \in S : m <= y
  BY <1>1 DEF Min
<1>3. m <= o /\ o <= m /\ m \in Nat /\ o \in Nat
  BY <1>2
<1>4. m = o
  BY <1>3, SMT
<1> QED
  BY <1>1, <1>4

LEMMA MinOf ==
    ASSUME NEW S \in SUBSET Nat, S # {}
    PROVE  Min(S) \in S /\ \A y \in S : Min(S) <= y
<1>1. PICK o \in S : \A y \in S : ~(y < o)
  BY LeastNumber
<1>2. \A y \in S : o <= y
  BY <1>1, SMT
<1>3. Min(S) = o
  BY <1>2, MinIs
<1> QED
  BY <1>2, <1>3

LEMMA UnderOf ==
    ASSUME NEW p \in PacketSet, iot_validate_tlv(p), NEW t
    PROVE  /\ TlvsUnder(p, t) \in SUBSET Nat
           /\ \A x \in TlvsUnder(p, t) :
                /\ x \in Offsets(p) /\ IsTlv(p, x) /\ At(p, x) = t
                /\ x # p.payloadLen
BY ValidOffsets, NoTlvAtEnd DEF TlvsUnder

LEMMA FoundAt ==
    ASSUME NEW p \in PacketSet, iot_validate_tlv(p), NEW t,
           NEW o \in TlvsUnder(p, t), \A y \in TlvsUnder(p, t) : o <= y
    PROVE  findTLV(p, t) =
             [found |-> TRUE, data |-> SubSeq(p.payload, o + 3, NextTlv(p, o))]
<1>1. PICK S \in SUBSET Nat : S = TlvsUnder(p, t)
  BY UnderOf
<1>2. Min(S) = o
  BY <1>1, MinIs
<1> QED
  BY <1>1, <1>2 DEF findTLV

(* findTLV finds the first TLV under the tag, if there is one.             *)
LEMMA FoundOrNot ==
    ASSUME NEW p \in PacketSet, iot_validate_tlv(p), NEW t
    PROVE  /\ TlvsUnder(p, t) = {} => findTLV(p, t) = NotFound
           /\ TlvsUnder(p, t) # {} =>
                \E o \in TlvsUnder(p, t) : \A y \in TlvsUnder(p, t) : o <= y
<1>1. PICK S \in SUBSET Nat : S = TlvsUnder(p, t)
  BY UnderOf
<1>2. S # {} => Min(S) \in S /\ \A y \in S : Min(S) <= y
  BY MinOf
<1> QED
  BY <1>1, <1>2 DEF findTLV

LEMMA SameCut ==
    ASSUME NEW p \in PacketSet, NEW q \in PacketSet, NEW n \in Nat, n <= MaxPayload,
           \A k \in 1 .. n : q.payload[k] = p.payload[k],
           NEW m \in Nat, m # 0, m <= n + 1
    PROVE  SubSeq(q.payload, m, n) = SubSeq(p.payload, m, n)
<1>1. /\ p.payload \in Seq(Byte) /\ n <= Len(p.payload)
      /\ q.payload \in Seq(Byte) /\ n <= Len(q.payload)
  BY PacketParts
<1>2. /\ SubSeq(p.payload, m, n) \in Seq(Byte)
      /\ Len(SubSeq(p.payload, m, n)) = n - m + 1
      /\ \A k \in 1 .. n - m + 1 : SubSeq(p.payload, m, n)[k] = p.payload[m + k - 1]
  BY <1>1, CutOut
<1>3. /\ SubSeq(q.payload, m, n) \in Seq(Byte)
      /\ Len(SubSeq(q.payload, m, n)) = n - m + 1
      /\ \A k \in 1 .. n - m + 1 : SubSeq(q.payload, m, n)[k] = q.payload[m + k - 1]
  BY <1>1, CutOut
<1>4. ASSUME NEW k \in 1 .. n - m + 1
      PROVE  q.payload[m + k - 1] = p.payload[m + k - 1]
  <2>1. m + k - 1 \in 1 .. n
    BY SMT
  <2> QED
    BY <2>1
<1>5. \A k \in 1 .. n - m + 1 : SubSeq(q.payload, m, n)[k] = SubSeq(p.payload, m, n)[k]
  BY <1>2, <1>3, <1>4
<1> QED
  BY <1>2, <1>3, <1>5, SeqEqual

(* The TLVs before the one that was written are as before.                 *)
LEMMA WrittenKeeps ==
    ASSUME NEW p \in PacketSet, iot_validate_tlv(p), NEW q, NEW l, NEW tag, NEW data,
           Written(p, q, l, tag, data), NEW x \in Offsets(p), x < l
    PROVE  /\ x \in Nat /\ IsTlv(p, x) /\ IsTlv(q, x) /\ At(q, x) = At(p, x)
           /\ NextTlv(q, x) = NextTlv(p, x) /\ NextTlv(p, x) \in Nat
           /\ x + 2 <= NextTlv(p, x) /\ NextTlv(p, x) <= l
<1>1. /\ q \in PacketSet /\ l \in Nat /\ l \in Offsets(p) /\ l <= p.payloadLen
      /\ q.payloadLen = l + 2 + Len(data)
      /\ \A k \in 1 .. l : q.payload[k] = p.payload[k]
      /\ IsTlv(q, l)
  BY DEF Written
<1>2. x \in Nat
  BY ValidOffsets
<1>3. IsTlv(p, x) /\ NextTlv(p, x) <= l
  BY <1>1, OffsetsOf DEF Chain
<1>4. PICK n \in Nat : n = NextTlv(p, x) /\ x + 2 <= n
  BY <1>2, <1>3, TlvRange
<1>5. PICK e \in Nat : e = q.payloadLen
  BY <1>1, PacketParts
<1>6. l + 2 <= e
  BY <1>1, <1>5 DEF IsTlv
<1>7. /\ x + 1 \in 1 .. l /\ x + 2 \in 1 .. l /\ n <= e /\ x + 2 <= e
  BY <1>1, <1>2, <1>3, <1>4, <1>6, SMT
<1>8. NextTlv(q, x) = n
  BY <1>1, <1>2, <1>4, <1>7, NextTlvOf
<1>9. IsTlv(q, x) /\ At(q, x) = At(p, x)
  BY <1>1, <1>5, <1>7, <1>8 DEF IsTlv, At
<1> QED
  BY <1>2, <1>3, <1>4, <1>8, <1>9

(* Writing a TLV at l leaves those before it, adds the one at l, and no    *)
(* other.                                                                  *)
LEMMA WrittenUnder ==
    ASSUME NEW p \in PacketSet, iot_validate_tlv(p), NEW q, NEW l, NEW tag, NEW data,
           Written(p, q, l, tag, data), NEW t
    PROVE  TlvsUnder(q, t) = {x \in TlvsUnder(p, t) : x < l}
                               \cup (IF t = tag THEN {l} ELSE {})
<1>1. /\ q \in PacketSet /\ l \in Nat /\ l \in Offsets(p)
      /\ Offsets(q) = Offsets(p) \cup {q.payloadLen}
      /\ IsTlv(q, l) /\ At(q, l) = tag
      /\ \A x \in Offsets(p) : x <= l \/ x = q.payloadLen
  BY DEF Written
<1>2. ~IsTlv(q, q.payloadLen)
  BY <1>1, NoTlvAtEnd
<1>3. \A x \in Offsets(p) : x <= l => x < l \/ x = l
  <2>1. \A x \in Offsets(p) : x \in Nat
    BY ValidOffsets
  <2> QED
    BY <1>1, <2>1, SMT
<1>4. \A x \in Offsets(q) : IsTlv(q, x) => x \in Offsets(p) /\ (x < l \/ x = l)
  BY <1>1, <1>2, <1>3
<1>5. \A x \in Offsets(p) : x < l => IsTlv(p, x) /\ IsTlv(q, x) /\ At(q, x) = At(p, x)
  BY WrittenKeeps
<1>6. ASSUME NEW x \in TlvsUnder(q, t)
      PROVE  (x \in TlvsUnder(p, t) /\ x < l) \/ (t = tag /\ x = l)
  BY <1>1, <1>4, <1>5 DEF TlvsUnder
<1>7. ASSUME NEW x \in TlvsUnder(p, t), x < l
      PROVE  x \in TlvsUnder(q, t)
  BY <1>1, <1>5, <1>7 DEF TlvsUnder
<1>8. t = tag => l \in TlvsUnder(q, t)
  BY <1>1 DEF TlvsUnder
<1> QED
  BY <1>6, <1>7, <1>8


(* A search finds what it found before, unless it ended there with nothing *)
(* and the TLV that was written is the one it looks for.                   *)
LEMMA FoundBefore ==
    ASSUME NEW p \in PacketSet, iot_validate_tlv(p), NEW q, NEW l, NEW tag, NEW data,
           Written(p, q, l, tag, data), NEW t,
           \A x \in TlvsUnder(p, t) : x < l,
           t # tag \/ TlvsUnder(p, t) # {}
    PROVE  findTLV(q, t) = findTLV(p, t)
<1>1. /\ q \in PacketSet /\ l \in Nat /\ iot_validate_tlv(q) /\ l <= p.payloadLen
      /\ \A k \in 1 .. l : q.payload[k] = p.payload[k]
  BY DEF Written
<1>2. PICK S : S = TlvsUnder(p, t)
  OBVIOUS
<1>3. TlvsUnder(q, t) = S \cup (IF t = tag THEN {l} ELSE {})
  BY <1>2, WrittenUnder
<1>4. CASE S = {}
  BY <1>1, <1>2, <1>3, <1>4, FoundOrNot
<1>5. CASE S # {}
  <2>1. PICK o \in S : \A y \in S : o <= y
    BY <1>2, <1>5, FoundOrNot
  <2>2. o < l /\ o \in Offsets(p)
    BY <1>2, <2>1, UnderOf
  <2>3. PICK n \in Nat : n = NextTlv(p, o) /\ n = NextTlv(q, o) /\ n <= l /\ o \in Nat /\ o + 2 <= n
    BY <2>2, WrittenKeeps
  <2>4. findTLV(p, t) = [found |-> TRUE, data |-> SubSeq(p.payload, o + 3, n)]
    BY <1>2, <2>1, <2>3, FoundAt
  <2>5. \A y \in TlvsUnder(q, t) : o <= y
    <3>1. o <= l
      BY <1>1, <2>2, <2>3, SMT
    <3> QED
      BY <1>3, <2>1, <3>1
  <2>6. o \in TlvsUnder(q, t)
    BY <1>3, <2>1
  <2>7. findTLV(q, t) = [found |-> TRUE, data |-> SubSeq(q.payload, o + 3, n)]
    BY <1>1, <2>3, <2>5, <2>6, FoundAt
  <2>8. SubSeq(q.payload, o + 3, n) = SubSeq(p.payload, o + 3, n)
    <3>1. PICK m \in Nat : m = o + 3
      BY <2>3, SMT
    <3>2. m # 0 /\ m <= n + 1 /\ \A k \in 1 .. n : k \in 1 .. l
      BY <1>1, <2>3, <3>1, SMT
    <3>3. n <= MaxPayload
      <4>1. PICK e \in Nat : e = p.payloadLen /\ e <= MaxPayload
        BY PacketParts
      <4> QED
        BY <1>1, <2>3, <4>1, ConstantTypes, SMT
    <3> QED
      BY <1>1, <3>1, <3>2, <3>3, SameCut, ZenonT(60)
  <2> QED
    BY <2>4, <2>7, <2>8
<1> QED
  BY <1>4, <1>5

(* The first TLV under a tag is found with the data that was written.      *)
LEMMA FoundNew ==
    ASSUME NEW p \in PacketSet, iot_validate_tlv(p), NEW q, NEW l, NEW tag, NEW data,
           Written(p, q, l, tag, data), TlvsUnder(p, tag) = {}
    PROVE  findTLV(q, tag) = [found |-> TRUE, data |-> data]
<1>1. /\ q \in PacketSet /\ l \in Nat /\ iot_validate_tlv(q)
      /\ NextTlv(q, l) = q.payloadLen
      /\ SubSeq(q.payload, l + 3, q.payloadLen) = data
  BY DEF Written
<1>2. TlvsUnder(q, tag) = {l}
  BY WrittenUnder
<1>3. l <= l
  BY <1>1, SMT
<1>4. findTLV(q, tag) = [found |-> TRUE, data |-> SubSeq(q.payload, l + 3, NextTlv(q, l))]
  BY <1>1, <1>2, <1>3, FoundAt
<1> QED
  BY <1>1, <1>4

LEMMA NotFoundIs ==
    ASSUME NEW p \in PacketSet, iot_validate_tlv(p), NEW t
    PROVE  TlvsUnder(p, t) = {} <=> findTLV(p, t) = NotFound
<1>1. CASE TlvsUnder(p, t) # {}
  <2>1. PICK o \in TlvsUnder(p, t) : \A y \in TlvsUnder(p, t) : o <= y
    BY <1>1, FoundOrNot
  <2>2. findTLV(p, t).found = TRUE
    BY <2>1, FoundAt
  <2> QED
    BY <1>1, <2>2 DEF NotFound
<1> QED
  BY <1>1, FoundOrNot

(* What is first under a tag stays so; under a new tag it is the new item. *)
LEMMA FirstOfAppend ==
    ASSUME NEW items \in Seq(Items), NEW item \in Items, NEW tag
    PROVE  /\ FirstOf(items, tag) # NotFound \/ item.tag # tag =>
                FirstOf(Append(items, item), tag) = FirstOf(items, tag)
           /\ FirstOf(items, tag) = NotFound /\ item.tag = tag =>
                FirstOf(Append(items, item), tag) = [found |-> TRUE, data |-> Encoded(item)]
<1>1. PICK n \in Nat : n = Len(items) /\ DOMAIN items = 1 .. n
  BY LenProperties
<1>2. PICK s \in Seq(Items) : s = Append(items, item) /\ Len(s) = n + 1
  BY <1>1, AppendProperties
<1>3. /\ s[n + 1] = item /\ \A i \in 1 .. n : s[i] = items[i]
      /\ DOMAIN s = 1 .. n + 1
  BY <1>1, <1>2, AppendProperties, LenProperties
<1> DEFINE A == {i \in 1 .. n : items[i].tag = tag}
           B == {i \in 1 .. n + 1 : s[i].tag = tag}
<1>4. A \in SUBSET Nat /\ B \in SUBSET Nat
  BY SMT
<1>5. /\ \A i \in 1 .. n : i \in 1 .. n + 1 /\ i # n + 1 /\ i <= n + 1
      /\ \A i \in 1 .. n + 1 : i = n + 1 \/ i \in 1 .. n
      /\ n + 1 \in 1 .. n + 1 /\ n + 1 <= n + 1
  BY SMT
<1>6. B = A \cup (IF item.tag = tag THEN {n + 1} ELSE {})
  BY <1>3, <1>5
<1>7. /\ FirstOf(items, tag) = IF A = {} THEN NotFound
                              ELSE [found |-> TRUE, data |-> Encoded(items[Min(A)])]
      /\ FirstOf(s, tag) = IF B = {} THEN NotFound
                          ELSE [found |-> TRUE, data |-> Encoded(s[Min(B)])]
  BY <1>1, <1>3 DEF FirstOf
<1>8. A \subseteq 1 .. n
  OBVIOUS
<1> HIDE DEF A, B
<1>9. CASE A # {}
  <2>1. PICK m \in A : m = Min(A) /\ \A y \in A : m <= y
    BY <1>4, <1>9, MinOf
  <2>2. m \in B /\ \A y \in B : m <= y
    BY <1>5, <1>6, <1>8, <2>1
  <2>3. Min(B) = m
    BY <1>4, <2>2, MinIs
  <2>4. s[m] = items[m]
    BY <1>3, <1>8, <2>1
  <2>5. FirstOf(s, tag) = FirstOf(items, tag)
    BY <1>7, <1>9, <2>1, <2>2, <2>3, <2>4
  <2>6. FirstOf(items, tag).found = TRUE
    BY <1>7, <1>9
  <2>7. FirstOf(items, tag) # NotFound
    BY <2>6 DEF NotFound
  <2> QED
    BY <1>2, <2>5, <2>7
<1>10. CASE A = {}
  <2>1. FirstOf(items, tag) = NotFound
    BY <1>7, <1>10
  <2>2. item.tag # tag => FirstOf(s, tag) = NotFound
    BY <1>6, <1>7, <1>10
  <2>3. ASSUME item.tag = tag
        PROVE  FirstOf(s, tag) = [found |-> TRUE, data |-> Encoded(item)]
    <3>1. B = {n + 1}
      BY <1>6, <1>10, <2>3
    <3>2. Min(B) = n + 1
      BY <1>4, <1>5, <3>1, MinIs
    <3> QED
      BY <1>3, <1>7, <3>1, <3>2
  <2> QED
    BY <1>2, <2>1, <2>2, <2>3
<1> QED
  BY <1>9, <1>10

(* Adding and signing keep what was added first under each tag.            *)
LEMMA HoldsAppended ==
    ASSUME NEW p \in PacketSet, iot_validate_tlv(p), NEW items \in Seq(Items),
           NEW item \in Items, Fits(p, Len(Encoded(item))), Holds(p, items)
    PROVE  Holds(Appended(p, item.tag, Encoded(item)), Append(items, item))
<1>1. PICK tag \in Byte : tag = item.tag /\ tag # AuthTag
  BY EncodedOf
<1>2. PICK data \in Seq(Byte) : data = Encoded(item) /\ Len(data) <= 255 /\ Fits(p, Len(data))
  BY EncodedOf
<1>3. PICK l : l = p.payloadLen
  OBVIOUS
<1>4. PICK q : q = Appended(p, tag, data)
  OBVIOUS
<1>5. Written(p, q, l, tag, data)
  BY <1>2, <1>3, <1>4, AppendedWrites
<1>6. PICK s : s = Append(items, item)
  OBVIOUS
<1>7. ASSUME NEW t \in Byte \ {AuthTag}
      PROVE  findTLV(q, t) = FirstOf(s, t)
  <2>1. ASSUME NEW x \in TlvsUnder(p, t)
        PROVE  x < l
    <3>1. x \in Nat /\ x <= l /\ x # l
      BY <1>3, UnderOf, ValidOffsets
    <3>2. l \in Nat
      BY <1>3, PacketParts
    <3> QED
      BY <3>1, <3>2, SMT
  <2>2. findTLV(p, t) = FirstOf(items, t)
    BY DEF Holds
  <2>3. CASE TlvsUnder(p, t) = {} /\ t = tag
    <3>1. findTLV(q, t) = [found |-> TRUE, data |-> data]
      BY <1>5, <2>3, FoundNew
    <3>2. FirstOf(items, t) = NotFound
      BY <2>2, <2>3, NotFoundIs
    <3>3. FirstOf(s, t) = [found |-> TRUE, data |-> Encoded(item)]
      BY <1>1, <1>6, <2>3, <3>2, FirstOfAppend
    <3> QED
      BY <1>2, <3>1, <3>3
  <2>4. CASE TlvsUnder(p, t) # {} \/ t # tag
    <3>1. findTLV(q, t) = findTLV(p, t)
      BY <1>5, <2>1, <2>4, FoundBefore
    <3>2. FirstOf(items, t) # NotFound \/ item.tag # t
      BY <1>1, <2>2, <2>4, NotFoundIs
    <3>3. FirstOf(s, t) = FirstOf(items, t)
      BY <1>6, <3>2, FirstOfAppend
    <3> QED
      BY <2>2, <3>1, <3>3
  <2> QED
    BY <2>3, <2>4
<1> QED
  BY <1>1, <1>2, <1>4, <1>6, <1>7 DEF Holds

LEMMA HoldsSigned ==
    ASSUME NEW p \in PacketSet, iot_validate_tlv(p), NEW items, Holds(p, items),
           NEW q, NEW l, NEW data, Written(p, q, l, AuthTag, data),
           l = p.payloadLen \/ l \in Signatures(p)
    PROVE  Holds(q, items)
<1>1. ASSUME NEW t \in Byte \ {AuthTag}
      PROVE  findTLV(q, t) = findTLV(p, t)
  <2>1. ASSUME NEW x \in TlvsUnder(p, t)
        PROVE  x < l
    <3>1. x \in Nat /\ l \in Nat
      BY UnderOf DEF Written
    <3>2. x \in Offsets(p) /\ IsTlv(p, x) /\ At(p, x) = t /\ x # p.payloadLen
      BY UnderOf
    <3>3. x <= l
      BY <3>2 DEF Written
    <3>4. x # l
      BY <3>2, UnderOf DEF Signatures
    <3> QED
      BY <3>1, <3>3, <3>4, SMT
  <2> QED
    BY <2>1, FoundBefore
<1> QED
  BY <1>1 DEF Holds


-----------------------------------------------------------------------------
(* What was written, one TLV behind the other.                             *)

Tlvs(items) == [i \in DOMAIN items |-> TlvOf(items[i])]

(* The recursion of FlattenSeq, and what it comes to after each part.      *)
Flat(parts, f) ==
    [i \in 1 .. Len(parts) |-> IF i = 1 THEN parts[i] ELSE f[i - 1] \o parts[i]]

(* The bytes of TLVs written one behind the other, by recursion on their   *)
(* number.                                                                 *)
LEMMA FlatExists ==
    ASSUME NEW parts \in Seq(Seq(Byte)), Len(parts) # 0
    PROVE  \E f : f = Flat(parts, f)
<1>1. PICK n \in Nat : n = Len(parts) /\ n # 0
  BY LenProperties
<1>2. \A i \in 1 .. n : parts[i] \in Seq(Byte)
  BY <1>1, ElementOfSeq
<1> DEFINE X == Seq(Byte)
           g == [i \in 1 .. n |-> [x \in X |-> IF i = 1 THEN parts[i] ELSE x \o parts[i]]]
<1>3. g \in [1 .. n -> [X -> X]]
  BY <1>2, ConcatProperties
<1>4. <<>> \in X
  BY EmptySeq
<1>5. Foldable(n, X, <<>>, g)
  <2> HIDE DEF g, X
  <2> QED
    BY <1>3, <1>4, FoldExists
<1>6. PICK f \in [0 .. n -> X] : \A i \in 1 .. n : f[i] = g[i][f[i - 1]]
  <2> HIDE DEF g, X
  <2> QED
    BY <1>5 DEF Foldable
<1>7. ASSUME NEW i \in 1 .. n
      PROVE  f[i] = IF i = 1 THEN parts[i] ELSE f[i - 1] \o parts[i]
  <2>1. i - 1 \in 0 .. n
    BY <1>1, SMT
  <2>2. f[i - 1] \in X
    BY <1>6, <2>1
  <2> QED
    BY <1>6, <2>2
<1> DEFINE h == [i \in 1 .. n |-> f[i]]
<1>8. ASSUME NEW i \in 1 .. n
      PROVE  h[i] = IF i = 1 THEN parts[i] ELSE h[i - 1] \o parts[i]
  <2>1. i # 1 => i - 1 \in 1 .. n
    BY <1>1, SMT
  <2> QED
    BY <1>7, <2>1
<1>9. h = Flat(parts, h)
  <2>1. h = [i \in 1 .. n |-> IF i = 1 THEN parts[i] ELSE h[i - 1] \o parts[i]]
    BY <1>8
  <2> HIDE DEF h
  <2> QED
    BY <1>1, <2>1 DEF Flat
<1> QED
  BY <1>9

LEMMA FlattenFrom ==
    ASSUME NEW parts \in Seq(Seq(Byte)), Len(parts) # 0
    PROVE  \E f : f = Flat(parts, f) /\ FlattenSeq(parts) = f[Len(parts)]
<1> DEFINE f == CHOOSE g : g = Flat(parts, g)
<1>1. f = Flat(parts, f)
  BY FlatExists
<1>2. FlattenSeq(parts) = f[Len(parts)]
  BY DEF FlattenSeq, Flat
<1> QED
  BY <1>1, <1>2

(* One TLV more is its bytes at the end.                                   *)
LEMMA FlattenAppend ==
    ASSUME NEW parts \in Seq(Seq(Byte)), NEW part \in Seq(Byte)
    PROVE  FlattenSeq(Append(parts, part)) = FlattenSeq(parts) \o part
<1>1. PICK n \in Nat : n = Len(parts)
  BY LenProperties
<1>2. PICK s \in Seq(Seq(Byte)) : s = Append(parts, part) /\ Len(s) = n + 1
  BY <1>1, AppendProperties
<1>3. s[n + 1] = part /\ \A i \in 1 .. n : s[i] = parts[i]
  BY <1>1, <1>2, AppendProperties
<1>4. n + 1 # 0 /\ n + 1 \in 1 .. n + 1 /\ (n + 1) - 1 = n
  BY SMT
<1>5. PICK f : f = Flat(s, f) /\ FlattenSeq(s) = f[n + 1]
  BY <1>2, <1>4, FlattenFrom
<1>6. \A i \in 1 .. n + 1 : f[i] = IF i = 1 THEN s[i] ELSE f[i - 1] \o s[i]
  BY <1>2, <1>5 DEF Flat
<1>7. CASE n = 0
  <2>1. n + 1 = 1
    BY <1>7, SMT
  <2>2. FlattenSeq(s) = part
    BY <1>3, <1>4, <1>5, <1>6, <2>1
  <2>3. FlattenSeq(parts) = <<>>
    <3>1. parts = <<>>
      BY <1>1, <1>7, EmptySeq
    <3> QED
      BY <1>1, <1>7, <3>1 DEF FlattenSeq
  <2>4. <<>> \o part = part
    BY ConcatEmptySeq
  <2> QED
    BY <1>2, <2>2, <2>3, <2>4
<1>8. CASE n # 0
  <2>1. PICK g : g = Flat(parts, g) /\ FlattenSeq(parts) = g[n]
    BY <1>1, <1>8, FlattenFrom
  <2>2. \A i \in 1 .. n : g[i] = IF i = 1 THEN parts[i] ELSE g[i - 1] \o parts[i]
    BY <1>1, <2>1 DEF Flat
  <2> DEFINE S == {0} \cup {i \in 1 .. n : f[i] = g[i]}
  <2>3. 0 \in S
    OBVIOUS
  <2>4. ASSUME NEW i \in 1 .. n, i - 1 \in S
        PROVE  i \in S
    <3>1. i \in 1 .. n + 1 /\ (i - 1 = 0 <=> i = 1)
      BY SMT
    <3>2. f[i] = g[i]
      BY <1>3, <1>6, <2>2, <2>4, <3>1
    <3> QED
      BY <3>2
  <2>5. \A i \in 0 .. n : i \in S
    <3> HIDE DEF S
    <3> QED
      BY <2>3, <2>4, UpTo
  <2>6. n \in 0 .. n /\ n + 1 # 1
    BY <1>8, SMT
  <2>7. f[n] = g[n]
    BY <1>8, <2>5, <2>6
  <2>8. f[n + 1] = f[n] \o part
    BY <1>3, <1>4, <1>6, <2>6
  <2> QED
    BY <1>2, <1>5, <2>1, <2>7, <2>8
<1> QED
  BY <1>7, <1>8

LEMMA TlvOfType ==
    ASSUME NEW item \in Items
    PROVE  TlvOf(item) \in Seq(Byte)
<1>1. PICK tag \in Byte : tag = item.tag
  BY EncodedOf
<1>2. PICK data \in Seq(Byte) : data = Encoded(item) /\ Len(data) \in Nat /\ Len(data) <= 255
  BY EncodedOf
<1>3. PICK n \in Byte : n = Len(data)
  <2>1. Len(data) \in Int /\ 0 <= Len(data) /\ Len(data) < 256
    BY <1>2, SMT
  <2> QED
    BY <2>1, ByteRange
<1>4. <<tag, n>> \in Seq(Byte)
  BY FourBytes
<1>5. <<tag, n>> \o data \in Seq(Byte)
  BY <1>4, ConcatProperties
<1> QED
  BY <1>1, <1>2, <1>3, <1>5 DEF TlvOf

LEMMA TlvsAppend ==
    ASSUME NEW items \in Seq(Items), NEW item \in Items
    PROVE  FlattenSeq(Tlvs(Append(items, item))) = FlattenSeq(Tlvs(items)) \o TlvOf(item)
<1>1. PICK n \in Nat : n = Len(items) /\ DOMAIN items = 1 .. n
  BY LenProperties
<1>2. PICK s \in Seq(Items) : s = Append(items, item) /\ Len(s) = n + 1
  BY <1>1, AppendProperties
<1>3. /\ s[n + 1] = item /\ \A i \in 1 .. n : s[i] = items[i]
      /\ DOMAIN s = 1 .. n + 1
  BY <1>1, <1>2, AppendProperties, LenProperties
<1>4. PICK part \in Seq(Byte) : part = TlvOf(item)
  BY TlvOfType
<1>5. \A i \in 1 .. n : items[i] \in Items
  BY <1>1, ElementOfSeq
<1>6. Tlvs(items) \in [1 .. n -> Seq(Byte)]
  BY <1>1, <1>5, TlvOfType DEF Tlvs
<1>7. PICK parts \in Seq(Seq(Byte)) : parts = Tlvs(items) /\ Len(parts) = n
  BY <1>6, FunctionSeq
<1>8. Tlvs(s) = [i \in 1 .. n + 1 |-> IF i = n + 1 THEN part ELSE parts[i]]
  <2>1. \A i \in 1 .. n + 1 : i = n + 1 \/ (i \in 1 .. n /\ i # n + 1)
    BY SMT
  <2>2. \A i \in 1 .. n : parts[i] = TlvOf(items[i])
    BY <1>1, <1>7 DEF Tlvs
  <2>3. \A i \in 1 .. n + 1 : TlvOf(s[i]) = IF i = n + 1 THEN part ELSE parts[i]
    BY <1>3, <1>4, <2>1, <2>2
  <2> QED
    BY <1>3, <2>3 DEF Tlvs
<1>9. PICK t \in Seq(Seq(Byte)) : t = Append(parts, part) /\ Len(t) = n + 1
  BY <1>7, AppendProperties
<1>10. t = [i \in 1 .. n + 1 |-> IF i = n + 1 THEN part ELSE parts[i]]
  <2>1. t[n + 1] = part /\ \A i \in 1 .. n : t[i] = parts[i]
    BY <1>7, <1>9, AppendProperties
  <2>2. \A i \in 1 .. n + 1 : i = n + 1 \/ (i \in 1 .. n /\ i # n + 1)
    BY SMT
  <2>3. \A i \in 1 .. n + 1 : t[i] = IF i = n + 1 THEN part ELSE parts[i]
    BY <2>1, <2>2
  <2>4. t = [i \in 1 .. n + 1 |-> t[i]]
    BY <1>9, LenProperties
  <2> QED
    BY <2>3, <2>4
<1>11. FlattenSeq(t) = FlattenSeq(parts) \o part
  BY <1>9, FlattenAppend
<1> QED
  BY <1>2, <1>4, <1>7, <1>8, <1>9, <1>10, <1>11


(* What is in use after an item was added: what was, and its TLV.          *)
LEMMA UsedAppended ==
    ASSUME NEW p \in PacketSet, NEW tag \in Byte, NEW data \in Seq(Byte),
           Len(data) <= 255, Fits(p, Len(data))
    PROVE  Used(Appended(p, tag, data)) = Used(p) \o (<<tag, Len(data)>> \o data)
<1>1. PICK q : q = Appended(p, tag, data)
  OBVIOUS
<1>2. PICK l \in Nat : l = p.payloadLen /\ l <= MaxPayload
  BY PacketParts
<1>3. PICK n \in Nat : n = Len(data)
  BY LenProperties
<1>4. /\ q \in PacketSet
      /\ q.payloadLen = l + 2 + n
      /\ \A k \in 1 .. l : q.payload[k] = p.payload[k]
      /\ q.payload[l + 1] = tag /\ q.payload[l + 2] = n
      /\ \A k \in 1 .. n : q.payload[l + 2 + k] = data[k]
  BY <1>1, <1>2, <1>3, AppendedOf
<1>5. PICK e \in Nat : e = q.payloadLen /\ e <= MaxPayload /\ e = l + 2 + n
  BY <1>4, PacketParts
<1>6. PICK s \in Seq(Byte) : /\ s = SubSeq(p.payload, 1, l) /\ Len(s) = l
                             /\ \A k \in 1 .. l : s[k] = p.payload[k]
  BY <1>2, PrefixOf
<1>7. PICK u \in Seq(Byte) : /\ u = SubSeq(q.payload, 1, e) /\ Len(u) = e
                             /\ \A k \in 1 .. e : u[k] = q.payload[k]
  BY <1>4, <1>5, PrefixOf
<1>8. PICK m \in Byte : m = n
  <2>1. n \in Int /\ 0 <= n /\ n < 256
    BY <1>3, SMT
  <2> QED
    BY <2>1, ByteRange
<1>9. PICK c \in Seq(Byte) : c = <<tag, m>> /\ Len(c) = 2 /\ c[1] = tag /\ c[2] = m
  BY FourBytes
<1>10. PICK t : t = c \o data
  OBVIOUS
<1>11. IsJoin(t, c, 2, data, n)
  BY <1>3, <1>9, <1>10, JoinedBytes
<1>12. /\ t \in Seq(Byte) /\ Len(t) = 2 + n
       /\ \A k \in 1 .. 2 : t[k] = c[k]
       /\ \A k \in 1 .. n : t[2 + k] = data[k]
  BY <1>11 DEF IsJoin
<1>13. PICK w : w = s \o t
  OBVIOUS
<1>14. IsJoin(w, s, l, t, 2 + n)
  BY <1>6, <1>12, <1>13, JoinedBytes
<1>15. /\ w \in Seq(Byte) /\ Len(w) = l + (2 + n)
       /\ \A k \in 1 .. l : w[k] = s[k]
       /\ \A k \in 1 .. 2 + n : w[l + k] = t[k]
  BY <1>14 DEF IsJoin
<1>16. l + (2 + n) = e
  BY <1>5, SMT
<1>17. w[l + 1] = tag /\ w[l + 2] = n
  <2>1. 1 \in 1 .. 2 + n /\ 2 \in 1 .. 2 + n /\ 1 \in 1 .. 2 /\ 2 \in 1 .. 2
    BY SMT
  <2> QED
    BY <1>8, <1>9, <1>12, <1>15, <2>1
<1>18. ASSUME NEW k \in 1 .. n
       PROVE  w[l + 2 + k] = data[k]
  <2>1. 2 + k \in 1 .. 2 + n /\ l + (2 + k) = l + 2 + k
    BY SMT
  <2> QED
    BY <1>12, <1>15, <2>1
<1>19. ASSUME NEW k \in 1 .. e
       PROVE  w[k] = u[k]
  <2>1. \/ k \in 1 .. l \/ k = l + 1 \/ k = l + 2
        \/ (k - l - 2 \in 1 .. n /\ k = l + 2 + (k - l - 2))
    <3>1. e = l + (2 + n)
      BY <1>16
    <3> QED
      BY <3>1, SMT
  <2>2. CASE k \in 1 .. l
    BY <1>4, <1>6, <1>7, <1>15, <2>2
  <2>3. CASE k = l + 1 \/ k = l + 2
    BY <1>4, <1>7, <1>17, <2>3
  <2>4. CASE k - l - 2 \in 1 .. n /\ k = l + 2 + (k - l - 2)
    <3>1. PICK j \in 1 .. n : k = l + 2 + j
      BY <2>4
    <3> QED
      BY <1>4, <1>7, <1>18, <3>1
  <2> QED
    BY <2>1, <2>2, <2>3, <2>4
<1>20. w = u
  BY <1>7, <1>15, <1>16, <1>19, SeqEqual
<1> QED
  BY <1>1, <1>2, <1>3, <1>5, <1>6, <1>7, <1>8, <1>9, <1>10, <1>13, <1>20 DEF Used

(* An item added behind a signature leaves it in the middle, for good.     *)
LEMMA NotYetSignedAppended ==
    ASSUME NEW p \in PacketSet, iot_validate_tlv(p), NEW items \in Seq(Items),
           NEW item \in Items, Fits(p, Len(Encoded(item))),
           NotYetSigned(p, FlattenSeq(Tlvs(items)))
    PROVE  NotYetSigned(Appended(p, item.tag, Encoded(item)),
                        FlattenSeq(Tlvs(Append(items, item))))
<1>1. PICK tag \in Byte : tag = item.tag /\ tag # AuthTag
  BY EncodedOf
<1>2. PICK data \in Seq(Byte) : data = Encoded(item) /\ Len(data) <= 255 /\ Fits(p, Len(data))
  BY EncodedOf
<1>3. PICK l \in Nat : l = p.payloadLen /\ l <= MaxPayload
  BY PacketParts
<1>4. PICK q : q = Appended(p, tag, data)
  OBVIOUS
<1>5. Written(p, q, l, tag, data)
  BY <1>2, <1>3, <1>4, AppendedWrites
<1>6. PICK s : s = FlattenSeq(Tlvs(items))
  OBVIOUS
<1>7. PICK t : t = FlattenSeq(Tlvs(Append(items, item)))
  OBVIOUS
<1>8. t = s \o TlvOf(item)
  BY <1>6, <1>7, TlvsAppend
<1>9. Signatures(q) = Signatures(p)
  <2>1. Signatures(q) = {x \in Signatures(p) : x < l} \cup (IF AuthTag = tag THEN {l} ELSE {})
    BY <1>5, WrittenUnder DEF Signatures
  <2>2. ASSUME NEW x \in Signatures(p)
        PROVE  x < l
    <3>1. x \in Nat /\ x <= l /\ x # l
      BY <1>3, UnderOf, ValidOffsets DEF Signatures
    <3> QED
      BY <1>3, <3>1, SMT
  <2> QED
    BY <1>1, <2>1, <2>2
<1>10. CASE Signatures(p) = {}
  <2>1. Used(p) = s
    BY <1>6, <1>10 DEF NotYetSigned, Used
  <2>2. Used(q) = Used(p) \o (<<tag, Len(data)>> \o data)
    BY <1>2, <1>4, UsedAppended
  <2>3. Used(q) = t
    BY <1>1, <1>2, <1>8, <2>1, <2>2 DEF TlvOf
  <2> QED
    BY <1>1, <1>2, <1>4, <1>7, <1>9, <1>10, <2>3 DEF NotYetSigned, Used
<1>11. CASE Signatures(p) # {}
  <2>1. PICK o \in 0 .. MaxPayload : Signatures(p) = {o} /\ At(p, o + 1) = HmacSize
    BY <1>11 DEF NotYetSigned
  <2>2. o \in Nat /\ o \in Offsets(p) /\ IsTlv(p, o)
    BY <2>1, UnderOf DEF Signatures
  <2>3. o < l
    <3>1. o <= l /\ o # l
      BY <1>3, <2>1, UnderOf, ValidOffsets DEF Signatures
    <3> QED
      BY <1>3, <2>2, <3>1, SMT
  <2>4. o + 2 + HmacSize <= l
    <3>1. NextTlv(p, o) <= l
      BY <1>5, <2>2, <2>3, WrittenKeeps
    <3> QED
      BY <2>1, <3>1 DEF NextTlv
  <2>5. PICK n \in Nat : q.payloadLen = l + 2 + n
    BY <1>2, <1>5, LenProperties DEF Written
  <2>6. ~IsLast(q, o)
    <3>1. HmacSize \in Nat
      BY ConstantTypes
    <3>2. o + 2 + HmacSize # l + 2 + n
      BY <1>3, <2>2, <2>4, <3>1, SMT
    <3> QED
      BY <2>5, <3>2 DEF IsLast
  <2>7. At(q, o + 1) = HmacSize
    <3>1. o + 1 + 1 \in 1 .. l
      BY <1>3, <2>2, <2>4, ConstantTypes, SMT
    <3>2. \A k \in 1 .. l : q.payload[k] = p.payload[k]
      BY <1>5 DEF Written
    <3> QED
      BY <2>1, <3>1, <3>2 DEF At
  <2>8. NotYetSigned(q, t)
    BY <1>9, <2>1, <2>6, <2>7 DEF NotYetSigned
  <2> QED
    BY <1>1, <1>2, <1>4, <1>7, <2>8
<1> QED
  BY <1>10, <1>11

(* After signing, the signature is last, the only one, and of all before   *)
(* it.                                                                     *)
LEMMA SignedBehindOf ==
    ASSUME HmacIsBytes, NEW p \in PacketSet, CanSign(p), NEW written,
           NotYetSigned(p, written)
    PROVE  SignedBehind(SignedPacket(p), written)
<1>1. iot_validate_tlv(p)
  BY DEF CanSign
<1>2. PICK q \in PacketSet :
        /\ q = SignedPacket(p) /\ IsMarked(q)
        /\ FlagsUnmarked(q) = FlagsUnmarked(p)
        /\ \A g : HeaderBytes(q.header, g) = HeaderBytes(p.header, g)
  BY SignedOf
<1>3. PICK l \in Nat :
        /\ Written(p, q, l, AuthTag, HmacOf(p, l))
        /\ \/ Signatures(p) = {} /\ l = p.payloadLen
           \/ l \in Signatures(p) /\ IsLast(p, l)
  BY <1>2, SignedOf
<1>4. l <= p.payloadLen /\ p.payloadLen <= MaxPayload /\ p.payloadLen \in Nat
  BY <1>3, PacketParts DEF Written
<1>5. l <= MaxPayload /\ l \in 0 .. MaxPayload
  BY <1>4, ConstantTypes, SMT
<1>6. PICK h : h = HmacOf(p, l)
  OBVIOUS
<1>7. Len(h) = HmacSize
  BY <1>5, <1>6, HmacOfType
<1>8. /\ \A k \in 1 .. l : q.payload[k] = p.payload[k]
      /\ At(q, l + 1) = Len(h) /\ q.payloadLen = l + 2 + Len(h)
      /\ SubSeq(q.payload, l + 3, q.payloadLen) = h
  BY <1>3, <1>6 DEF Written
<1>9. HmacOf(q, l) = h
  BY <1>2, <1>5, <1>6, <1>8, SameHmac
<1>10. SubSeq(q.payload, 1, l) = SubSeq(p.payload, 1, l)
  BY <1>5, <1>8, SamePrefix
<1>11. SubSeq(p.payload, 1, l) = written
  BY <1>3 DEF NotYetSigned
<1>12. Signatures(q) = {l}
  <2>1. PICK S : S = Signatures(p)
    OBVIOUS
  <2>2. Signatures(q) = {x \in S : x < l} \cup (IF AuthTag = AuthTag THEN {l} ELSE {})
    BY <1>1, <1>3, <2>1, WrittenUnder DEF Signatures
  <2>3. ~(l < l)
    BY SMT
  <2>4. S = {} \/ S = {l}
    BY <1>3, <2>1 DEF NotYetSigned
  <2> QED
    BY <2>2, <2>3, <2>4
<1>13. IsLast(q, l)
  BY <1>7, <1>8 DEF IsLast
<1> QED
  BY <1>2, <1>5, <1>7, <1>8, <1>9, <1>10, <1>11, <1>12, <1>13 DEF SignedBehind

(* A packet that is signed so may be signed again, and is still the same   *)
(* packet of what was written.                                             *)
LEMMA SignedIsNotYet ==
    ASSUME NEW p, NEW written, SignedBehind(p, written)
    PROVE  NotYetSigned(p, written)
BY DEF SignedBehind, NotYetSigned


-----------------------------------------------------------------------------
(* What a receiver makes of a packet that arrived as it was sent.          *)

(* A copy, whatever lies beyond its length, has the same TLVs.             *)
LEMMA CopyFinds ==
    ASSUME NEW p \in PacketSet, iot_validate_tlv(p), NEW q, Copy(q, p)
    PROVE  /\ iot_validate_tlv(q)
           /\ \A t : TlvsUnder(q, t) = TlvsUnder(p, t) /\ findTLV(q, t) = findTLV(p, t)
<1>1. PICK l \in Nat : l = p.payloadLen /\ l <= MaxPayload
  BY PacketParts
<1>2. /\ q \in PacketSet /\ q.payloadLen = l
      /\ \A k \in 1 .. l : q.payload[k] = p.payload[k]
  BY <1>1 DEF Copy
<1>3. \A x \in Offsets(p) : x \in Nat /\ (x # l => IsTlv(p, x))
  BY <1>1, ValidOffsets
<1>4. ASSUME NEW x \in Offsets(p), x + 2 <= l
      PROVE  q.payload[x + 2] = p.payload[x + 2]
  <2>1. x + 2 \in 1 .. l
    BY <1>3, <1>4, SMT
  <2> QED
    BY <1>2, <2>1
<1>5. /\ Offsets(q) = Offsets(p)
      /\ \A x \in Offsets(p) : IsTlv(p, x) <=> IsTlv(q, x)
  BY <1>1, <1>2, <1>4, OffsetsSame
<1>6. iot_validate_tlv(q)
  BY <1>1, <1>2, <1>5 DEF iot_validate_tlv
<1>7. ASSUME NEW x \in Offsets(p), IsTlv(p, x)
      PROVE  /\ At(q, x) = At(p, x) /\ NextTlv(q, x) = NextTlv(p, x)
             /\ NextTlv(p, x) \in Nat /\ x + 2 <= NextTlv(p, x) /\ NextTlv(p, x) <= l
  <2>1. x \in Nat /\ x + 2 <= l
    BY <1>1, <1>3, <1>7 DEF IsTlv
  <2>2. x + 1 \in 1 .. l
    BY <1>1, <2>1, SMT
  <2> QED
    BY <1>1, <1>2, <1>4, <1>7, <2>1, <2>2, NextTlvOf, TlvRange DEF At
<1>8. ASSUME NEW t
      PROVE  TlvsUnder(q, t) = TlvsUnder(p, t)
  BY <1>5, <1>7 DEF TlvsUnder
<1>9. ASSUME NEW t
      PROVE  findTLV(q, t) = findTLV(p, t)
  <2>1. CASE TlvsUnder(p, t) = {}
    BY <1>2, <1>6, <1>8, <2>1, FoundOrNot
  <2>2. CASE TlvsUnder(p, t) # {}
    <3>1. PICK o \in TlvsUnder(p, t) : \A y \in TlvsUnder(p, t) : o <= y
      BY <2>2, FoundOrNot
    <3>2. o \in Offsets(p) /\ IsTlv(p, o) /\ o \in Nat
      BY <3>1, UnderOf
    <3>3. PICK n \in Nat : n = NextTlv(p, o) /\ n = NextTlv(q, o) /\ n <= l /\ o + 2 <= n
      BY <1>7, <3>2
    <3>4. findTLV(p, t) = [found |-> TRUE, data |-> SubSeq(p.payload, o + 3, n)]
      BY <3>1, <3>3, FoundAt
    <3>5. findTLV(q, t) = [found |-> TRUE, data |-> SubSeq(q.payload, o + 3, n)]
      BY <1>2, <1>6, <1>8, <3>1, <3>3, FoundAt
    <3>6. PICK m \in Nat : m = o + 3 /\ m # 0 /\ m <= n + 1
      BY <3>2, <3>3, SMT
    <3>7. n <= MaxPayload /\ \A k \in 1 .. n : k \in 1 .. l
      BY <1>1, <3>3, ConstantTypes, SMT
    <3>8. SubSeq(q.payload, m, n) = SubSeq(p.payload, m, n)
      <4>1. \A k \in 1 .. n : q.payload[k] = p.payload[k]
        BY <1>2, <3>7
      <4> QED
        BY <1>2, <3>6, <3>7, <4>1, SameCut, ZenonT(60)
    <3> QED
      BY <3>4, <3>5, <3>6, <3>8
  <2> QED
    BY <2>1, <2>2
<1> QED
  BY <1>6, <1>8, <1>9

(* verifyPacket accepts a copy of a packet that was signed behind its      *)
(* items.                                                                  *)
LEMMA CopyVerified ==
    ASSUME HmacIsBytes, NEW p \in PacketSet, iot_validate_tlv(p), NEW q, Copy(q, p),
           NEW written, SignedBehind(p, written), NEW required
    PROVE  verifyPacket(q, required)
<1>1. PICK o \in 0 .. MaxPayload :
         /\ IsMarked(p)
         /\ Signatures(p) = {o} /\ At(p, o + 1) = HmacSize /\ IsLast(p, o)
         /\ SubSeq(p.payload, o + 3, p.payloadLen) = HmacOf(p, o)
  BY DEF SignedBehind
<1>2. PICK l \in Nat : l = p.payloadLen /\ l <= MaxPayload
  BY PacketParts
<1>3. /\ q \in PacketSet /\ q.payloadLen = l /\ q.header = p.header
      /\ \A k \in 1 .. l : q.payload[k] = p.payload[k]
  BY <1>2 DEF Copy
<1>4. iot_validate_tlv(q) /\ Signatures(q) = {o}
  BY <1>1, CopyFinds DEF Signatures
<1>5. IsMarked(q) /\ IsLast(q, o) /\ FlagsUnmarked(q) = FlagsUnmarked(p)
  BY <1>1, <1>2, <1>3 DEF IsMarked, IsLast, FlagsUnmarked
<1>6. o + 2 + HmacSize = l
  BY <1>1, <1>2 DEF IsLast
<1>7. HmacSize \in Nat /\ 1 <= HmacSize /\ o \in Nat
  BY ConstantTypes, SMT
<1>8. /\ o + 1 + 1 \in 1 .. l /\ \A k \in 1 .. o : k \in 1 .. l
      /\ o + 3 \in Nat /\ o + 3 # 0 /\ o + 3 <= l + 1 /\ o <= MaxPayload
  BY <1>2, <1>6, <1>7, SMT
<1>9. At(q, o + 1) = HmacSize
  BY <1>1, <1>3, <1>8 DEF At
<1>10. HmacOf(q, o) = HmacOf(p, o)
  <2>1. \A k \in 1 .. o : q.payload[k] = p.payload[k]
    BY <1>3, <1>8
  <2>2. \A g : HeaderBytes(q.header, g) = HeaderBytes(p.header, g)
    BY <1>3
  <2> QED
    BY <1>3, <1>5, <1>7, <1>8, <2>1, <2>2, SameHmac
<1>11. PICK m \in Nat : m = o + 3 /\ m # 0 /\ m <= l + 1
  BY <1>8
<1>12. SubSeq(q.payload, m, l) = SubSeq(p.payload, m, l)
  BY <1>2, <1>3, <1>11, SameCut
<1>13. SubSeq(q.payload, o + 3, q.payloadLen) = HmacOf(q, o)
  BY <1>1, <1>2, <1>3, <1>10, <1>11, <1>12
<1> QED
  BY <1>4, <1>5, <1>9, <1>13 DEF verifyPacket


-----------------------------------------------------------------------------
(* The invariant holds at the start, and every step keeps it.              *)

(* An empty packet is sound; adding and signing keep it so.                *)
LEMMA EmptyIsSound ==
    ASSUME NEW h \in Headers
    PROVE  /\ Sound(Empty(h))
           /\ Holds(Empty(h), <<>>)
           /\ NotYetSigned(Empty(h), FlattenSeq(Tlvs(<<>>)))
<1>1. PICK p \in PacketSet : p = Empty(h) /\ p.header = h /\ p.payloadLen = 0
  BY EmptyOf
<1>2. /\ h.version \div 16 = ProtocolMajor
      /\ h.seq \div ByteWeight[4] \in Byte
      /\ (h.flags \div AuthFlag) % 2 = 0
  BY CodecAssumption DEF CodecAssumption
<1>3. FlagsUnmarked(p) = h.flags
  <2>1. PICK f \in Int : f = h.flags
    BY <1>1, PacketParts
  <2>2. ~IsMarked(p)
    BY <1>1, <1>2, SMT DEF IsMarked
  <2>3. f - 0 = f
    BY SMT
  <2> QED
    BY <1>1, <2>1, <2>2, <2>3 DEF FlagsUnmarked
<1>4. 0 \in Offsets(p) /\ Offsets(p) \subseteq 0 .. 0
  BY <1>1, OffsetsOf DEF Chain
<1>5. iot_validate_tlv(p)
  BY <1>1, <1>4 DEF iot_validate_tlv
<1>6. Sound(p)
  BY <1>1, <1>2, <1>3, <1>5 DEF Sound
<1>7. ASSUME NEW t
      PROVE  TlvsUnder(p, t) = {}
  <2>1. \A x \in Offsets(p) : x = 0
    BY <1>4, SMT
  <2>2. ~IsTlv(p, 0)
    BY <1>1, NoTlvAtEnd
  <2> QED
    BY <2>1, <2>2 DEF TlvsUnder
<1>8. \A t : findTLV(p, t) = NotFound
  BY <1>5, <1>7, FoundOrNot
<1>9. DOMAIN <<>> = {}
  BY SMT
<1>10. \A t : FirstOf(<<>>, t) = NotFound
  BY <1>9 DEF FirstOf
<1>11. Holds(p, <<>>)
  BY <1>8, <1>10 DEF Holds
<1>12. Tlvs(<<>>) = <<>>
  BY <1>9, SMT DEF Tlvs
<1>13. FlattenSeq(<<>>) = <<>>
  BY EmptySeq DEF FlattenSeq
<1>14. SubSeq(p.payload, 1, 0) = <<>>
  <2>1. 0 \in Nat /\ 0 <= MaxPayload
    BY ConstantTypes, SMT
  <2>2. SubSeq(p.payload, 1, 0) \in Seq(Byte) /\ Len(SubSeq(p.payload, 1, 0)) = 0
    BY <2>1, PrefixOf
  <2> QED
    BY <2>2, EmptySeq
<1>15. NotYetSigned(p, <<>>)
  BY <1>1, <1>7, <1>14 DEF NotYetSigned, Signatures
<1> QED
  BY <1>1, <1>6, <1>11, <1>12, <1>13, <1>15

LEMMA SoundAppended ==
    ASSUME NEW p, Sound(p), NEW item \in Items, Fits(p, Len(Encoded(item)))
    PROVE  Sound(Appended(p, item.tag, Encoded(item)))
<1>1. p \in PacketSet /\ iot_validate_tlv(p)
  BY DEF Sound
<1>2. PICK tag \in Byte : tag = item.tag
  BY EncodedOf
<1>3. PICK data \in Seq(Byte) : data = Encoded(item) /\ Len(data) <= 255 /\ Fits(p, Len(data))
  BY EncodedOf
<1>4. PICK q : q = Appended(p, tag, data)
  OBVIOUS
<1>5. Written(p, q, p.payloadLen, tag, data) /\ q.header = p.header
  BY <1>1, <1>3, <1>4, AppendedWrites
<1>6. q \in PacketSet /\ iot_validate_tlv(q)
  BY <1>5 DEF Written
<1>7. FlagsUnmarked(q) = FlagsUnmarked(p)
  BY <1>5 DEF FlagsUnmarked, IsMarked
<1>8. Sound(q)
  BY <1>5, <1>6, <1>7 DEF Sound
<1> QED
  BY <1>2, <1>3, <1>4, <1>8

LEMMA SoundSigned ==
    ASSUME HmacIsBytes, NEW p, Sound(p), CanSign(p), NEW items, Holds(p, items)
    PROVE  Sound(SignedPacket(p)) /\ Holds(SignedPacket(p), items)
<1>1. p \in PacketSet /\ iot_validate_tlv(p)
  BY DEF Sound
<1>2. PICK q \in PacketSet :
        /\ q = SignedPacket(p)
        /\ q.header.version = p.header.version
        /\ q.header.seq = p.header.seq
        /\ FlagsUnmarked(q) = FlagsUnmarked(p)
  BY <1>1, SignedOf
<1>3. PICK l \in Nat :
        /\ Written(p, q, l, AuthTag, HmacOf(p, l))
        /\ l = p.payloadLen \/ l \in Signatures(p)
  BY <1>1, <1>2, SignedOf
<1>4. iot_validate_tlv(q)
  BY <1>3 DEF Written
<1>5. Sound(q)
  BY <1>2, <1>4 DEF Sound
<1>6. Holds(q, items)
  BY <1>1, <1>3, HoldsSigned
<1> QED
  BY <1>2, <1>5, <1>6

LEMMA FreshStart ==
    ASSUME NEW h \in Headers, Fresh(h), mustSign = FALSE,
           policy = [mode |-> "DISABLED", required |-> FALSE], rx = NoPacket
    PROVE  CodecInv
<1>1. /\ pc = "build" /\ packet = Empty(h) /\ frame = <<>> /\ verdict = "none"
      /\ added = <<>> /\ altered = FALSE
  BY DEF Fresh
<1>2. /\ Sound(packet) /\ Holds(packet, added)
      /\ NotYetSigned(packet, FlattenSeq(Tlvs(added)))
  BY <1>1, EmptyIsSound
<1>3. NotYetSigned(packet, WrittenTlvs)
  BY <1>2 DEF WrittenTlvs, Tlvs
<1>4. frame \in Seq(Byte) /\ Len(frame) <= MaxPayload + 17 /\ added \in Seq(Items)
  <2>1. Len(<<>>) = 0
    BY EmptySeq
  <2>2. 0 <= MaxPayload + 17
    BY ConstantTypes, SMT
  <2> QED
    BY <1>1, <2>1, <2>2, EmptySeq
<1>5. policy \in Policies
  BY DEF Policies, Modes
<1>6. Typed
  BY <1>1, <1>2, <1>4, <1>5 DEF Typed
<1>7. OnTheWire
  BY <1>1 DEF OnTheWire
<1>8. Content
  BY <1>1, <1>2, <1>3 DEF Content
<1> QED
  BY <1>6, <1>7, <1>8 DEF CodecInv

(* The initial states, and one lemma for each action.                      *)
LEMMA InitKept ==
    ASSUME Init
    PROVE  CodecInv
<1>1. PICK h \in Headers : Fresh(h)
  BY DEF Init
<1> QED
  BY <1>1, FreshStart DEF Init


LEMMA ClearPayloadKeeps ==
    ASSUME CodecInv, NEW h \in Headers, ClearPayload(h)
    PROVE  CodecInv'
<1>1. /\ pc' = "build" /\ packet' = Empty(h) /\ frame' = <<>> /\ verdict' = "none"
      /\ added' = <<>> /\ altered' = FALSE /\ rx' = NoPacket
      /\ mustSign' = mustSign /\ policy' = policy
  BY DEF ClearPayload
<1>2. /\ Sound(packet)' /\ Holds(packet, added)'
      /\ NotYetSigned(packet, FlattenSeq(Tlvs(added)))'
  BY <1>1, EmptyIsSound
<1>3. NotYetSigned(packet, WrittenTlvs)'
  BY <1>2 DEF WrittenTlvs, Tlvs
<1>4. frame' \in Seq(Byte) /\ Len(frame') <= MaxPayload + 17 /\ added' \in Seq(Items)
  <2>1. Len(<<>>) = 0
    BY EmptySeq
  <2>2. 0 <= MaxPayload + 17
    BY ConstantTypes, SMT
  <2> QED
    BY <1>1, <2>1, <2>2, EmptySeq
<1>5. Typed'
  BY <1>1, <1>2, <1>4 DEF CodecInv, Typed
<1>6. OnTheWire'
  BY <1>1 DEF OnTheWire
<1>7. Content'
  BY <1>1, <1>2, <1>3 DEF Content
<1> QED
  BY <1>5, <1>6, <1>7 DEF CodecInv

LEMMA AddTLVKeeps ==
    ASSUME CodecInv, NEW item \in Items, AddTLV(item)
    PROVE  CodecInv'
<1>1. /\ pc = "build" /\ Fits(packet, Len(Encoded(item)))
      /\ packet' = Appended(packet, item.tag, Encoded(item))
      /\ added' = Append(added, item)
      /\ pc' = pc /\ mustSign' = mustSign /\ policy' = policy /\ frame' = frame
      /\ rx' = rx /\ verdict' = verdict /\ altered' = altered
  BY DEF AddTLV
<1>2. Typed /\ OnTheWire /\ Content
  BY DEF CodecInv
<1>3. /\ Sound(packet) /\ added \in Seq(Items) /\ Holds(packet, added)
      /\ packet \in PacketSet /\ iot_validate_tlv(packet)
      /\ NotYetSigned(packet, FlattenSeq(Tlvs(added)))
  <2>1. NotYetSigned(packet, WrittenTlvs)
    BY <1>1, <1>2 DEF Content
  <2> QED
    BY <1>2, <2>1 DEF Typed, Sound, Content, WrittenTlvs, Tlvs
<1>4. Sound(packet)'
  BY <1>1, <1>3, SoundAppended
<1>5. Holds(packet, added)'
  BY <1>1, <1>3, HoldsAppended
<1>6. NotYetSigned(packet, FlattenSeq(Tlvs(added)))'
  BY <1>1, <1>3, NotYetSignedAppended
<1>7. NotYetSigned(packet, WrittenTlvs)'
  BY <1>6 DEF WrittenTlvs, Tlvs
<1>8. added' \in Seq(Items)
  BY <1>1, <1>3, AppendProperties
<1>9. Typed'
  BY <1>1, <1>2, <1>4, <1>8 DEF Typed
<1>10. OnTheWire'
  BY <1>1, <1>2 DEF OnTheWire
<1>11. Content'
  BY <1>1, <1>5, <1>7 DEF Content
<1> QED
  BY <1>9, <1>10, <1>11 DEF CodecInv

(* Signing a packet that is being built.                                   *)
LEMMA SigningKeeps ==
    ASSUME HmacIsBytes, CodecInv, pc = "build", CanSign(packet),
           packet' = SignedPacket(packet), added' = added
    PROVE  /\ Sound(packet)' /\ Holds(packet, added)'
           /\ SignedBehind(packet, WrittenTlvs)'
<1>1. Typed /\ OnTheWire /\ Content
  BY DEF CodecInv
<1>2. /\ Sound(packet) /\ packet \in PacketSet /\ Holds(packet, added)
      /\ NotYetSigned(packet, WrittenTlvs)
  BY <1>1 DEF Typed, Sound, Content
<1>3. Sound(packet)' /\ Holds(packet, added)'
  BY <1>2, SoundSigned
<1>4. WrittenTlvs' = WrittenTlvs
  BY DEF WrittenTlvs
<1>5. PICK w : w = WrittenTlvs
  OBVIOUS
<1>6. SignedBehind(SignedPacket(packet), w)
  BY <1>2, <1>5, SignedBehindOf
<1> QED
  BY <1>3, <1>4, <1>5, <1>6

LEMMA SignDirectlyKeeps ==
    ASSUME HmacIsBytes, CodecInv, SignDirectly
    PROVE  CodecInv'
<1>1. /\ pc = "build" /\ CanSign(packet)
      /\ packet' = SignedPacket(packet) /\ added' = added
      /\ pc' = pc /\ mustSign' = mustSign /\ policy' = policy /\ frame' = frame
      /\ rx' = rx /\ verdict' = verdict /\ altered' = altered
  BY DEF SignDirectly
<1>2. Typed /\ OnTheWire /\ Content
  BY DEF CodecInv
<1>3. /\ Sound(packet)' /\ Holds(packet, added)'
      /\ SignedBehind(packet, WrittenTlvs)'
  BY <1>1, SigningKeeps
<1>4. NotYetSigned(packet, WrittenTlvs)'
  BY <1>3, SignedIsNotYet
<1>5. Typed'
  BY <1>1, <1>2, <1>3 DEF Typed
<1>6. OnTheWire'
  BY <1>1, <1>2 DEF OnTheWire
<1>7. Content'
  BY <1>1, <1>3, <1>4 DEF Content
<1> QED
  BY <1>5, <1>6, <1>7 DEF CodecInv

LEMMA PrepareOutgoingKeeps ==
    ASSUME HmacIsBytes, CodecInv, NEW p \in Providers, PrepareOutgoing(p)
    PROVE  CodecInv'
<1>1. /\ pc = "build" /\ mustSign' = Signing(p) /\ added' = added
      /\ policy' = policy /\ frame' = frame
      /\ rx' = rx /\ verdict' = verdict /\ altered' = altered
  BY DEF PrepareOutgoing
<1>2. Typed /\ OnTheWire /\ Content
  BY DEF CodecInv
<1>3. mustSign' \in BOOLEAN
  BY <1>1 DEF Signing, Providers
<1>4. OnTheWire' /\ pc' \in {"ready", "dropped"}
  <2>1. pc' \in {"ready", "dropped"}
    BY DEF PrepareOutgoing
  <2> QED
    BY <1>1, <1>2, <2>1 DEF OnTheWire
<1>5. CASE Signing(p) /\ CanSign(packet) /\ pc' = "ready" /\ packet' = SignedPacket(packet)
  <2>1. /\ Sound(packet)' /\ Holds(packet, added)'
        /\ SignedBehind(packet, WrittenTlvs)'
    BY <1>1, <1>5, SigningKeeps
  <2>2. Typed'
    BY <1>1, <1>2, <1>3, <1>5, <2>1 DEF Typed
  <2>3. Content'
    BY <1>5, <2>1 DEF Content
  <2> QED
    BY <1>4, <2>2, <2>3 DEF CodecInv
<1>6. CASE packet' = packet /\ (~Signing(p) \/ pc' = "dropped")
  <2>1. Typed'
    BY <1>1, <1>2, <1>3, <1>4, <1>6 DEF Typed
  <2>2. Holds(packet, added)'
    BY <1>1, <1>2, <1>6 DEF Content
  <2>3. Content'
    BY <1>1, <1>4, <1>6, <2>2 DEF Content
  <2> QED
    BY <1>4, <2>1, <2>3 DEF CodecInv
<1> QED
  BY <1>5, <1>6 DEF PrepareOutgoing

LEMMA TransmitPacketKeeps ==
    ASSUME CodecInv, TransmitPacket
    PROVE  CodecInv'
<1>1. /\ pc = "ready" /\ frame' = Serialized(packet) /\ pc' = "sent"
      /\ packet' = packet /\ added' = added
      /\ mustSign' = mustSign /\ policy' = policy
      /\ rx' = rx /\ verdict' = verdict /\ altered' = altered
  BY DEF TransmitPacket
<1>2. Typed /\ OnTheWire /\ Content
  BY DEF CodecInv
<1>3. packet \in PacketSet
  BY <1>2 DEF Typed, Sound
<1>4. frame' \in Seq(Byte) /\ Len(frame') <= MaxPayload + 17
  <2>1. PICK l \in Nat : l = packet.payloadLen /\ l <= MaxPayload
    BY <1>3, PacketParts
  <2>2. frame' \in Seq(Byte) /\ Len(frame') = 16 + l
    BY <1>1, <1>3, <2>1, SentBytes
  <2>3. 16 + l <= MaxPayload + 17
    BY <2>1, ConstantTypes, SMT
  <2> QED
    BY <2>2, <2>3
<1>5. Typed'
  BY <1>1, <1>2, <1>4 DEF Typed
<1>6. OnTheWire'
  BY <1>1, <1>2 DEF OnTheWire
<1>7. WrittenTlvs' = WrittenTlvs
  BY <1>1 DEF WrittenTlvs
<1>8. Content'
  BY <1>1, <1>2, <1>7 DEF Content
<1> QED
  BY <1>5, <1>6, <1>8 DEF CodecInv


LEMMA DisturbKeeps ==
    ASSUME CodecInv, Disturb
    PROVE  CodecInv'
<1>1. /\ pc = "sent" /\ ~altered /\ altered' = TRUE
      /\ pc' = pc /\ packet' = packet /\ added' = added
      /\ mustSign' = mustSign /\ policy' = policy
      /\ rx' = rx /\ verdict' = verdict
  BY DEF Disturb
<1>2. Typed /\ OnTheWire /\ Content
  BY DEF CodecInv
<1>3. PICK p \in PacketSet : p = packet /\ frame = Serialized(p)
  BY <1>1, <1>2 DEF Typed, Sound, OnTheWire
<1>4. PICK e \in Nat : e = Len(frame) /\ e + 1 <= MaxPayload + 17
  <2>1. PICK l \in Nat : l = p.payloadLen /\ l <= MaxPayload
    BY PacketParts
  <2>2. Len(frame) = 16 + l
    BY <1>3, <2>1, SentBytes
  <2>3. 16 + l \in Nat /\ 16 + l + 1 <= MaxPayload + 17
    BY <2>1, ConstantTypes, SMT
  <2> QED
    BY <2>2, <2>3
<1>5. /\ e <= MaxPayload + 17 /\ e - 1 <= MaxPayload + 17
  BY <1>4, ConstantTypes, SMT
<1>6. /\ frame' \in Seq(Byte) /\ Len(frame') <= MaxPayload + 17
      /\ ~IsFrame(frame')
  <2>1. CASE \E i \in 1 .. Len(frame) - 1, n \in Noise : frame' = Noisy(frame, i, n)
    <3>1. PICK i \in 1 .. Len(frame) - 1, n \in Noise : frame' = Noisy(frame, i, n)
      BY <2>1
    <3>2. /\ frame' \in Seq(Byte) /\ Len(frame') = Len(frame) /\ ~IsFrame(frame')
      BY <1>3, <3>1, NoisyIsNoFrame
    <3> QED
      BY <1>4, <1>5, <3>2
  <2>2. CASE frame' = SubSeq(frame, 1, Len(frame) - 1)
    <3>1. frame' \in Seq(Byte) /\ Len(frame') = Len(frame) - 1 /\ ~IsFrame(frame')
      BY <1>3, <2>2, CutIsNoFrame
    <3> QED
      BY <1>4, <1>5, <3>1
  <2>3. CASE frame' = Append(frame, 0)
    <3>1. frame' \in Seq(Byte) /\ Len(frame') = Len(frame) + 1 /\ ~IsFrame(frame')
      BY <1>3, <2>3, GrownIsNoFrame
    <3> QED
      BY <1>4, <3>1
  <2> QED
    BY <2>1, <2>2, <2>3 DEF Disturb, Noisy
<1>7. Typed'
  BY <1>1, <1>2, <1>6 DEF Typed
<1>8. OnTheWire'
  BY <1>1, <1>2, <1>6 DEF OnTheWire
<1>9. WrittenTlvs' = WrittenTlvs
  BY <1>1 DEF WrittenTlvs
<1>10. Content'
  BY <1>1, <1>2, <1>9 DEF Content
<1> QED
  BY <1>7, <1>8, <1>10 DEF CodecInv

LEMMA ProcessIncomingKeeps ==
    ASSUME CodecInv, ProcessIncoming
    PROVE  CodecInv'
<1>1. /\ pc = "sent" /\ pc' = "received"
      /\ packet' = packet /\ added' = added /\ frame' = frame
      /\ mustSign' = mustSign /\ altered' = altered
  BY DEF ProcessIncoming
<1>2. Typed /\ OnTheWire /\ Content
  BY DEF CodecInv
<1>3. PICK p \in PacketSet :
        /\ p = packet /\ p.header.version \div 16 = ProtocolMajor
        /\ p.header.seq \div ByteWeight[4] \in Byte /\ iot_validate_tlv(p)
  BY <1>2 DEF Typed, Sound
<1>4. frame \in Seq(Byte)
  BY <1>2 DEF Typed
<1>5. ~altered => IsFrame(frame) /\ \A leftover \in Leftovers : Copy(Parsed(frame, leftover), p)
  BY <1>1, <1>2, <1>3, SentIsRead DEF OnTheWire
<1>6. altered => ~IsFrame(frame)
  BY <1>1, <1>2 DEF OnTheWire
<1>7. /\ policy' \in Policies /\ (rx' = NoPacket \/ rx' \in PacketSet)
      /\ verdict' \in {"refused", "rejected", "accepted"}
  <2>1. CASE ~IsFrame(frame) /\ verdict' = "refused" /\ policy' = policy /\ rx' = rx
    BY <1>2, <2>1 DEF Typed
  <2>2. CASE IsFrame(frame) /\ \E leftover \in Leftovers : rx' = Parsed(frame, leftover)
    <3>1. rx' \in PacketSet
      BY <1>4, <2>2, ParsedOf
    <3>2. policy' \in Policies /\ verdict' \in {"refused", "rejected", "accepted"}
      BY <2>2 DEF ProcessIncoming
    <3> QED
      BY <3>1, <3>2
  <2> QED
    BY <2>1, <2>2 DEF ProcessIncoming
<1>8. Typed'
  BY <1>1, <1>2, <1>7 DEF Typed
<1>9. ASSUME altered
      PROVE  OnTheWire'
  <2>1. verdict' = "refused"
    BY <1>6, <1>9 DEF ProcessIncoming
  <2> QED
    BY <1>1, <1>9, <2>1 DEF OnTheWire
<1>10. ASSUME ~altered
       PROVE  OnTheWire'
  <2>1. PICK leftover \in Leftovers : rx' = Parsed(frame, leftover)
    BY <1>5, <1>10 DEF ProcessIncoming
  <2>2. Copy(rx', p)
    BY <1>5, <1>10, <2>1
  <2>3. iot_validate_tlv(rx')
    BY <1>3, <2>2, CopyFinds
  <2>4. verdict' = IF VerifyIncoming(rx', policy') THEN "accepted" ELSE "rejected"
    BY <1>5, <1>10, <2>3 DEF ProcessIncoming
  <2>5. Copy(rx, packet)'
    BY <1>1, <1>3, <2>2
  <2>6. OnTheWire'
    BY <1>1, <1>10, <2>4, <2>5 DEF OnTheWire
  <2> QED
    BY <2>6
<1>11. OnTheWire'
  BY <1>9, <1>10
<1>12. WrittenTlvs' = WrittenTlvs
  BY <1>1 DEF WrittenTlvs
<1>13. Content'
  BY <1>1, <1>2, <1>12 DEF Content
<1> QED
  BY <1>8, <1>11, <1>13 DEF CodecInv

(* The invariant is inductive.                                             *)
LEMMA CodecInductive ==
    ASSUME HmacIsBytes
    PROVE  Spec => []CodecInv
<1>1. Init => CodecInv
  BY InitKept
<1>2. CodecInv /\ [Next]_vars => CodecInv'
  <2> SUFFICES ASSUME CodecInv, [Next]_vars
               PROVE  CodecInv'
    OBVIOUS
  <2>1. ASSUME NEW h \in Headers, ClearPayload(h)
        PROVE  CodecInv'
    BY <2>1, ClearPayloadKeeps
  <2>2. ASSUME NEW item \in Items, AddTLV(item)
        PROVE  CodecInv'
    BY <2>2, AddTLVKeeps
  <2>3. CASE SignDirectly
    BY <2>3, SignDirectlyKeeps
  <2>4. ASSUME NEW p \in Providers, PrepareOutgoing(p)
        PROVE  CodecInv'
    BY <2>4, PrepareOutgoingKeeps
  <2>5. CASE TransmitPacket
    BY <2>5, TransmitPacketKeeps
  <2>6. CASE Disturb
    BY <2>6, DisturbKeeps
  <2>7. CASE ProcessIncoming
    BY <2>7, ProcessIncomingKeeps
  <2>8. CASE UNCHANGED vars
    BY <2>8 DEF vars, CodecInv, Typed, OnTheWire, Content, WrittenTlvs
  <2> QED
    BY <2>1, <2>2, <2>3, <2>4, <2>5, <2>6, <2>7, <2>8 DEF Next
<1> QED
  BY <1>1, <1>2, PTL DEF Spec


-----------------------------------------------------------------------------
(* What the invariant says of the properties.                              *)

(* A payload is what is before its last TLV, the two bytes of its head,    *)
(* and data.                                                               *)
LEMMA ThreeParts ==
    ASSUME NEW p \in PacketSet, NEW o \in Nat, NEW n \in Nat,
           p.payloadLen = o + 2 + n
    PROVE  Used(p) = SubSeq(p.payload, 1, o) \o <<At(p, o), At(p, o + 1)>>
                       \o SubSeq(p.payload, o + 3, p.payloadLen)
<1>1. PICK l \in Nat : l = p.payloadLen /\ l <= MaxPayload
  BY PacketParts
<1>2. l = o + 2 + n
  BY <1>1
<1>3. /\ o <= MaxPayload /\ o + 1 \in 1 .. MaxPayload /\ o + 2 \in 1 .. MaxPayload
      /\ o + 1 + 1 = o + 2 /\ o + 1 \in 1 .. l /\ o + 2 \in 1 .. l
  <2>1. l <= MaxPayload
    BY <1>1
  <2> QED
    BY <1>2, <2>1, ConstantTypes, SMT
<1>4. PICK s \in Seq(Byte) : /\ s = SubSeq(p.payload, 1, o) /\ Len(s) = o
                             /\ \A k \in 1 .. o : s[k] = p.payload[k]
  BY <1>3, PrefixOf
<1>5. PICK u \in Seq(Byte) : /\ u = SubSeq(p.payload, 1, l) /\ Len(u) = l
                             /\ \A k \in 1 .. l : u[k] = p.payload[k]
  BY <1>1, PrefixOf
<1>6. PICK x \in Byte, y \in Byte : x = p.payload[o + 1] /\ y = p.payload[o + 2]
  BY <1>3, PacketParts
<1>7. PICK c \in Seq(Byte) : c = <<x, y>> /\ Len(c) = 2 /\ c[1] = x /\ c[2] = y
  BY FourBytes
<1>8. PICK d \in Seq(Byte) : /\ d = SubSeq(p.payload, o + 3, l) /\ Len(d) = n
                             /\ \A k \in 1 .. n : d[k] = p.payload[o + 2 + k]
  <2>1. PICK m \in Nat : m = o + 3
    BY SMT
  <2>2. /\ m # 0 /\ m <= l + 1 /\ l - m + 1 = n
        /\ \A k \in 1 .. n : m + k - 1 = o + 2 + k
    BY <1>2, <2>1, SMT
  <2>3. p.payload \in Seq(Byte) /\ l <= Len(p.payload)
    BY <1>1, PacketParts
  <2>4. /\ SubSeq(p.payload, m, l) \in Seq(Byte)
        /\ Len(SubSeq(p.payload, m, l)) = l - m + 1
        /\ \A k \in 1 .. l - m + 1 : SubSeq(p.payload, m, l)[k] = p.payload[m + k - 1]
    BY <2>2, <2>3, CutOut
  <2>5. PICK t : t = SubSeq(p.payload, m, l)
    OBVIOUS
  <2>6. PICK r : r = l - m + 1
    OBVIOUS
  <2>7. t \in Seq(Byte) /\ Len(t) = r /\ \A k \in 1 .. r : t[k] = p.payload[m + k - 1]
    BY <2>4, <2>5, <2>6
  <2>8. t \in Seq(Byte) /\ Len(t) = n /\ \A k \in 1 .. n : t[k] = p.payload[m + k - 1]
    <3>1. r = n
      BY <2>2, <2>6
    <3> QED
      BY <2>7, <3>1
  <2>9. \A k \in 1 .. n : t[k] = p.payload[o + 2 + k]
    BY <2>2, <2>8, Zenon
  <2>10. t = SubSeq(p.payload, o + 3, l)
    BY <2>1, <2>5
  <2> QED
    BY <2>8, <2>9, <2>10
<1>9. PICK v : v = s \o c
  OBVIOUS
<1>10. IsJoin(v, s, o, c, 2)
  BY <1>4, <1>7, <1>9, JoinedBytes
<1>11. /\ v \in Seq(Byte) /\ Len(v) = o + 2
       /\ \A k \in 1 .. o : v[k] = s[k]
       /\ \A k \in 1 .. 2 : v[o + k] = c[k]
  BY <1>10 DEF IsJoin
<1>12. PICK w : w = v \o d
  OBVIOUS
<1>13. IsJoin(w, v, o + 2, d, n)
  BY <1>8, <1>11, <1>12, JoinedBytes
<1>14. /\ w \in Seq(Byte) /\ Len(w) = o + 2 + n
       /\ \A k \in 1 .. o + 2 : w[k] = v[k]
       /\ \A k \in 1 .. n : w[o + 2 + k] = d[k]
  BY <1>13 DEF IsJoin
<1>15. ASSUME NEW k \in 1 .. l
       PROVE  w[k] = u[k]
  <2>1. \/ k \in 1 .. o \/ k = o + 1 \/ k = o + 2
        \/ (k - o - 2 \in 1 .. n /\ k = o + 2 + (k - o - 2))
    BY <1>2, SMT
  <2>2. CASE k \in 1 .. o
    <3>1. k \in 1 .. o + 2
      BY <2>2, SMT
    <3> QED
      BY <1>4, <1>5, <1>11, <1>14, <2>2, <3>1
  <2>3. CASE k = o + 1 \/ k = o + 2
    <3>1. /\ o + 1 \in 1 .. o + 2 /\ o + 2 \in 1 .. o + 2
          /\ 1 \in 1 .. 2 /\ 2 \in 1 .. 2
      BY SMT
    <3>2. w[o + 1] = x /\ w[o + 2] = y
      BY <1>7, <1>11, <1>14, <3>1
    <3> QED
      BY <1>5, <1>6, <2>3, <3>2
  <2>4. CASE k - o - 2 \in 1 .. n /\ k = o + 2 + (k - o - 2)
    <3>1. PICK j \in 1 .. n : k = o + 2 + j
      BY <2>4
    <3> QED
      BY <1>5, <1>8, <1>14, <3>1
  <2> QED
    BY <2>1, <2>2, <2>3, <2>4
<1>16. w = u
  BY <1>2, <1>5, <1>14, <1>15, SeqEqual
<1>17. At(p, o) = x /\ At(p, o + 1) = y
  BY <1>3, <1>6 DEF At
<1> QED
  BY <1>1, <1>4, <1>5, <1>7, <1>8, <1>9, <1>12, <1>16, <1>17 DEF Used

(* So the bytes of a signed packet are those SignedOnceAtTheEnd names.     *)
LEMMA SignedIsWritten ==
    ASSUME NEW p \in PacketSet, iot_validate_tlv(p), NEW written, SignedBehind(p, written)
    PROVE  Used(p) = written \o <<AuthTag, HmacSize>> \o HmacOf(p, Len(written))
<1>1. PICK o \in 0 .. MaxPayload :
         /\ Signatures(p) = {o} /\ At(p, o + 1) = HmacSize /\ IsLast(p, o)
         /\ SubSeq(p.payload, 1, o) = written
         /\ SubSeq(p.payload, o + 3, p.payloadLen) = HmacOf(p, o)
  BY DEF SignedBehind
<1>2. o \in Nat /\ o <= MaxPayload
  BY ConstantTypes, SMT
<1>3. At(p, o) = AuthTag
  BY <1>1, UnderOf DEF Signatures
<1>4. PICK n \in Nat : n = HmacSize /\ p.payloadLen = o + 2 + n
  BY <1>1, ConstantTypes DEF IsLast
<1>5. Used(p) = SubSeq(p.payload, 1, o) \o <<At(p, o), At(p, o + 1)>>
                  \o SubSeq(p.payload, o + 3, p.payloadLen)
  BY <1>2, <1>4, ThreeParts
<1>6. Len(written) = o
  BY <1>1, <1>2, PrefixOf
<1> QED
  BY <1>1, <1>3, <1>5, <1>6

(* What the strict readers give of a TLV that holds an item.               *)
LEMMA GotOf ==
    ASSUME NEW q, NEW item \in Items, NEW first \in Items, first.kind = item.kind,
           findTLV(q, item.tag) = [found |-> TRUE, data |-> Encoded(first)]
    PROVE  Got(q, item) = ReadBack(first, item)
<1>1. CASE item.kind = "text"
  <2>1. Encoded(first) = first.value
    BY <1>1 DEF Encoded
  <2> QED
    BY <1>1, <2>1 DEF Got, ReadBack
<1>2. CASE item.kind # "text"
  <2>1. /\ first \in Numbers /\ InRange(first) /\ item.kind \in {"unsigned", "signed"}
    BY <1>2, CodecAssumption DEF CodecAssumption, Numbers, Texts
  <2>2. PICK v \in Int : v = first.value
    BY <2>1 DEF Numbers
  <2>3. PICK w \in {1, 2, 4} : w = first.width
    BY <2>1 DEF Numbers
  <2>4. PICK d : d = BigEndian(v, w)
    OBVIOUS
  <2>5. Encoded(first) = d
    BY <1>2, <2>2, <2>3, <2>4 DEF Encoded
  <2>6. Len(d) = w
    BY <2>4, BigEndianOf
  <2>7. Got(q, item) = IF Len(d) # item.width THEN <<>>
                       ELSE IF item.kind = "signed" THEN <<Signed(d)>>
                       ELSE <<Unsigned(d)>>
    BY <1>2, <2>5 DEF Got
  <2>8. v \div ByteWeight[w] \in (IF item.kind = "signed" THEN -128 .. 127 ELSE Byte)
    BY <2>1, <2>2, <2>3 DEF InRange
  <2>9. IF item.kind = "signed" THEN Signed(d) = v ELSE Unsigned(d) = v
    BY <2>4, <2>8, NumberBack
  <2>10. ReadBack(first, item) = IF w = item.width THEN <<v>> ELSE <<>>
    BY <1>2, <2>2, <2>3 DEF ReadBack
  <2> QED
    BY <2>6, <2>7, <2>9, <2>10
<1> QED
  BY <1>1, <1>2

(* Neither adding nor signing, in any order, makes a packet that is not of *)
(* its type or longer than its payload, and every datagram fits the buffer *)
(* of _transmitPacket.                                                     *)
THEOREM PacketTypeCorrectness ==
    ASSUME HmacIsBytes
    PROVE  Spec => []TypeOK
<1>1. CodecInv => TypeOK
  <2> SUFFICES ASSUME CodecInv
               PROVE  TypeOK
    OBVIOUS
  <2>1. Typed
    BY DEF CodecInv
  <2>2. \A p \in PacketSet : IsPacket(p)
    BY PacketParts, ConstantTypes DEF IsPacket, PacketSet
  <2>3. HeaderSize + MaxPayload + CrcSize + 1 = MaxPayload + 17
    BY ConstantTypes, SMT DEF HeaderSize, CrcSize
  <2>4. IsPacket(packet) /\ (rx = NoPacket \/ IsPacket(rx))
    BY <2>1, <2>2 DEF Typed, Sound
  <2> QED
    BY <2>1, <2>3, <2>4 DEF Typed, TypeOK, Sound, FlagsUnmarked
<1> QED
  BY <1>1, CodecInductive, PTL

(* Whatever one or two neighbouring bytes noise changes, and of whatever   *)
(* packet, iot_deserialize does not take the datagram for a packet; nor    *)
(* one that was cut or grew by a byte.                                     *)
THEOREM NoNoiseGetsThrough ==
    ASSUME HmacIsBytes
    PROVE  Spec => []AlteredIsRefused
<1>1. CodecInv => AlteredIsRefused
  BY DEF CodecInv, OnTheWire, AlteredIsRefused
<1> QED
  BY <1>1, CodecInductive, PTL

(* A node that signs sends what was added and one signature after it, for  *)
(* every HMAC and however often the caller signed before.                  *)
THEOREM OneSignatureAtTheEnd ==
    ASSUME HmacIsBytes
    PROVE  Spec => []SignedOnceAtTheEnd
<1>1. CodecInv => SignedOnceAtTheEnd
  <2> SUFFICES ASSUME CodecInv, pc \in {"ready", "sent", "received"}, mustSign
               PROVE  Used(packet) = WrittenTlvs \o <<AuthTag, HmacSize>>
                                       \o HmacOf(packet, Len(WrittenTlvs))
    BY DEF SignedOnceAtTheEnd
  <2>1. packet \in PacketSet /\ iot_validate_tlv(packet)
    BY DEF CodecInv, Typed, Sound
  <2>2. SignedBehind(packet, WrittenTlvs)
    BY DEF CodecInv, Content
  <2> QED
    BY <2>1, <2>2, SignedIsWritten
<1> QED
  BY <1>1, CodecInductive, PTL

(* What noise left alone gets through whole, for every size of a payload.  *)
THEOREM PacketsArriveWhole ==
    ASSUME HmacIsBytes
    PROVE  Spec => []ArrivesWhole
<1>1. CodecInv => ArrivesWhole
  <2> SUFFICES ASSUME CodecInv, pc = "received", ~altered,
                      policy.mode = "DISABLED" \/ mustSign
               PROVE  /\ verdict = "accepted"
                      /\ rx.header = packet.header /\ Used(rx) = Used(packet)
    BY DEF ArrivesWhole
  <2>1. PICK p \in PacketSet : p = packet /\ iot_validate_tlv(p)
    BY DEF CodecInv, Typed, Sound
  <2>2. /\ Copy(rx, p)
        /\ verdict = IF VerifyIncoming(rx, policy) THEN "accepted" ELSE "rejected"
    BY <2>1 DEF CodecInv, OnTheWire
  <2>3. VerifyIncoming(rx, policy)
    <3>1. CASE policy.mode = "DISABLED"
      BY <3>1 DEF VerifyIncoming
    <3>2. CASE mustSign
      <4>1. SignedBehind(p, WrittenTlvs)
        BY <2>1, <3>2 DEF CodecInv, Content
      <4>2. verifyPacket(rx, policy.required)
        BY <2>1, <2>2, <4>1, CopyVerified
      <4> QED
        BY <4>2 DEF VerifyIncoming
    <3> QED
      BY <3>1, <3>2
  <2>4. PICK l \in Nat : l = p.payloadLen /\ l <= MaxPayload
    BY PacketParts
  <2>5. SubSeq(rx.payload, 1, l) = SubSeq(p.payload, 1, l)
    BY <2>2, <2>4, SamePrefix DEF Copy
  <2> QED
    BY <2>1, <2>2, <2>3, <2>4, <2>5 DEF Copy, Used
<1> QED
  BY <1>1, CodecInductive, PTL

(* The handlers read of an accepted packet, for each tag, exactly what was *)
(* added first under it, for all items and whatever the stack held.        *)
THEOREM FirstAddedIsRead ==
    ASSUME HmacIsBytes
    PROVE  Spec => []ReadsWhatWasAdded
<1>1. CodecInv => ReadsWhatWasAdded
  <2> SUFFICES ASSUME CodecInv, verdict = "accepted", ~altered, NEW item \in Items
               PROVE  LET under == AddedUnder(item.tag)
                          first == added[Min(under)]
                      IN  IF under = {} THEN Got(rx, item) = <<>>
                          ELSE first.kind = item.kind =>
                                  Got(rx, item) = ReadBack(first, item)
    BY DEF ReadsWhatWasAdded
  <2>1. PICK p \in PacketSet : p = packet /\ iot_validate_tlv(p)
    BY DEF CodecInv, Typed, Sound
  <2>2. Copy(rx, p)
    BY <2>1 DEF CodecInv, OnTheWire
  <2>3. PICK tag \in Byte \ {AuthTag} : tag = item.tag
    BY EncodedOf
  <2>4. findTLV(rx, tag) = FirstOf(added, tag)
    <3>1. findTLV(rx, tag) = findTLV(p, tag)
      BY <2>1, <2>2, CopyFinds
    <3> QED
      BY <2>1, <2>3, <3>1 DEF CodecInv, Content, Holds
  <2>5. PICK U : U = AddedUnder(item.tag)
    OBVIOUS
  <2>6. findTLV(rx, item.tag) =
          IF U = {} THEN NotFound
          ELSE [found |-> TRUE, data |-> Encoded(added[Min(U)])]
    BY <2>3, <2>4, <2>5 DEF FirstOf, AddedUnder
  <2>7. CASE U = {}
    <3>1. Got(rx, item) = <<>>
      BY <2>6, <2>7 DEF Got, NotFound
    <3> QED
      BY <2>5, <2>7, <3>1
  <2>8. CASE U # {}
    <3>1. added \in Seq(Items)
      BY DEF CodecInv, Typed
    <3>2. PICK n \in Nat : n = Len(added) /\ DOMAIN added = 1 .. n
      BY <3>1, LenProperties
    <3>3. U \subseteq 1 .. n /\ U \in SUBSET Nat
      BY <2>5, <3>2, SMT DEF AddedUnder
    <3>4. Min(U) \in U
      BY <2>8, <3>3, MinOf
    <3>5. PICK first \in Items : first = added[Min(U)]
      BY <3>1, <3>2, <3>3, <3>4, ElementOfSeq
    <3>6. first.kind = item.kind => Got(rx, item) = ReadBack(first, item)
      BY <2>6, <2>8, <3>5, GotOf
    <3> QED
      BY <2>5, <2>8, <3>5, <3>6
  <2> QED
    BY <2>7, <2>8
<1> QED
  BY <1>1, CodecInductive, PTL

=============================================================================
