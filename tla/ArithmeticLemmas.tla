------------------------- MODULE ArithmeticLemmas -------------------------
(***************************************************************************)
(* Division, remainder and the powers of two that fit into 32 bits: what   *)
(* shifts and masks do to the digits of a number.                          *)
(***************************************************************************)
EXTENDS Integers, WellFoundedInduction, TLAPS

\* Division with remainder is unique.
LEMMA DivisionIs ==
  ASSUME NEW p \in Nat \ {0}, NEW q \in Int, NEW r \in 0 .. p - 1
  PROVE  (r + p * q) \div p = q /\ (r + p * q) % p = r
OBVIOUS

\* A shift by two amounts is a shift by their sum.
LEMMA NestedDivision ==
  ASSUME NEW n \in Int, NEW p \in Nat \ {0}, NEW b \in Nat \ {0}
  PROVE  n \div (p * b) = (n \div b) \div p
<1> DEFINE q == n \div b
           r == n % b
<1>1. q \in Int /\ r \in 0 .. b - 1 /\ n = r + b * q
  OBVIOUS
<1> HIDE DEF q, r
<1> DEFINE q2 == q \div p
           s == q % p
<1>2. q2 \in Int /\ s \in 0 .. p - 1 /\ q = s + p * q2
  BY <1>1
<1> HIDE DEF q2, s
<1>3. n = (r + b * s) + (p * b) * q2
  BY <1>1, <1>2
<1>4. r + b * s \in 0 .. (p * b) - 1
  <2>1. b * s <= b * (p - 1)
    BY <1>2
  <2>2. b * s >= 0
    BY <1>2
  <2> QED  BY <2>1, <2>2, <1>1, <1>2
<1>5. p * b \in Nat \ {0}
  OBVIOUS
<1>6. n \div (p * b) = q2
  BY <1>3, <1>4, <1>5, <1>2, DivisionIs
<1> QED  BY <1>6 DEF q2, q

\* A mask keeps the bits below it.
LEMMA MaskKeepsBits ==
  ASSUME NEW n \in Int, NEW p \in Nat \ {0}, NEW m \in Nat \ {0}
  PROVE  ((n % (p * (2 * m))) \div p) % 2 = (n \div p) % 2
<1> DEFINE w == p * (2 * m)
           r == n % w
           q == n \div w
<1>1. w \in Nat \ {0}
  OBVIOUS
<1>2. r \in Int /\ q \in Int /\ n = r + w * q
  <2> HIDE DEF w
  <2> QED  BY <1>1
<1> HIDE DEF r, q
<1> DEFINE s == r % p
           t == r \div p
<1>3. s \in 0 .. p - 1 /\ t \in Int /\ r = s + p * t
  BY <1>2
<1> HIDE DEF s
<1>4. n = s + p * (t + (2 * m) * q)
  <2> HIDE DEF t
  <2>1. w * q = p * ((2 * m) * q)
    BY <1>2
  <2>2. (2 * m) * q \in Int
    BY <1>2
  <2> HIDE DEF w
  <2> DEFINE u == (2 * m) * q
  <2>3. n = s + p * t + p * u
    BY <1>2, <1>3, <2>1
  <2> HIDE DEF u
  <2> QED  BY <1>3, <2>2, <2>3 DEF u
<1>5. n \div p = t + 2 * (m * q)
  <2>1. t + (2 * m) * q \in Int /\ (2 * m) * q = 2 * (m * q)
    BY <1>2, <1>3
  <2> HIDE DEF t
  <2> QED  BY <1>3, <1>4, <2>1, DivisionIs
<1>6. m * q \in Int
  BY <1>2
<1> DEFINE v == m * q
<1>7. (t + 2 * v) % 2 = t % 2
  <2> HIDE DEF v, t
  <2> QED  BY <1>3, <1>6 DEF v
<1> QED  BY <1>5, <1>7 DEF t, r, w

-----------------------------------------------------------------------------
(***************************************************************************)
(* Powers of two.  The backends know those that are written as numbers; of *)
(* larger ones they do not know what PowersOfTwo says.                     *)
(***************************************************************************)
PowersOfTwo(N) ==
  /\ 2 ^ 0 = 1
  /\ \A k \in 0 .. N : 2 ^ k \in Nat \ {0}
  /\ \A k \in 0 .. N - 1 : 2 ^ (k + 1) = 2 * 2 ^ k

LEMMA PowersAre ==
  /\ \A k : k = 0 => 2 ^ k = 1
  /\ \A k : k = 1 => 2 ^ k = 2
  /\ \A k : k = 2 => 2 ^ k = 4
  /\ \A k : k = 3 => 2 ^ k = 8
  /\ \A k : k = 4 => 2 ^ k = 16
  /\ \A k : k = 5 => 2 ^ k = 32
  /\ \A k : k = 6 => 2 ^ k = 64
  /\ \A k : k = 7 => 2 ^ k = 128
  /\ \A k : k = 8 => 2 ^ k = 256
  /\ \A k : k = 9 => 2 ^ k = 512
  /\ \A k : k = 10 => 2 ^ k = 1024
  /\ \A k : k = 11 => 2 ^ k = 2048
  /\ \A k : k = 12 => 2 ^ k = 4096
  /\ \A k : k = 13 => 2 ^ k = 8192
  /\ \A k : k = 14 => 2 ^ k = 16384
  /\ \A k : k = 15 => 2 ^ k = 32768
  /\ \A k : k = 16 => 2 ^ k = 65536
  /\ \A k : k = 17 => 2 ^ k = 131072
  /\ \A k : k = 18 => 2 ^ k = 262144
  /\ \A k : k = 19 => 2 ^ k = 524288
  /\ \A k : k = 20 => 2 ^ k = 1048576
  /\ \A k : k = 21 => 2 ^ k = 2097152
  /\ \A k : k = 22 => 2 ^ k = 4194304
  /\ \A k : k = 23 => 2 ^ k = 8388608
  /\ \A k : k = 24 => 2 ^ k = 16777216
  /\ \A k : k = 25 => 2 ^ k = 33554432
  /\ \A k : k = 26 => 2 ^ k = 67108864
  /\ \A k : k = 27 => 2 ^ k = 134217728
  /\ \A k : k = 28 => 2 ^ k = 268435456
  /\ \A k : k = 29 => 2 ^ k = 536870912
  /\ \A k : k = 30 => 2 ^ k = 1073741824
  /\ \A k : k = 31 => 2 ^ k = 2147483648
<1>0. \A k : k = 0 => 2 ^ k = 1  BY SMT
<1>1. \A k : k = 1 => 2 ^ k = 2  BY SMT
<1>2. \A k : k = 2 => 2 ^ k = 4  BY SMT
<1>3. \A k : k = 3 => 2 ^ k = 8  BY SMT
<1>4. \A k : k = 4 => 2 ^ k = 16  BY SMT
<1>5. \A k : k = 5 => 2 ^ k = 32  BY SMT
<1>6. \A k : k = 6 => 2 ^ k = 64  BY SMT
<1>7. \A k : k = 7 => 2 ^ k = 128  BY SMT
<1>8. \A k : k = 8 => 2 ^ k = 256  BY SMT
<1>9. \A k : k = 9 => 2 ^ k = 512  BY SMT
<1>10. \A k : k = 10 => 2 ^ k = 1024  BY SMT
<1>11. \A k : k = 11 => 2 ^ k = 2048  BY SMT
<1>12. \A k : k = 12 => 2 ^ k = 4096  BY SMT
<1>13. \A k : k = 13 => 2 ^ k = 8192  BY SMT
<1>14. \A k : k = 14 => 2 ^ k = 16384  BY SMT
<1>15. \A k : k = 15 => 2 ^ k = 32768  BY SMT
<1>16. \A k : k = 16 => 2 ^ k = 65536  BY SMT
<1>17. \A k : k = 17 => 2 ^ k = 131072  BY SMT
<1>18. \A k : k = 18 => 2 ^ k = 262144  BY SMT
<1>19. \A k : k = 19 => 2 ^ k = 524288  BY SMT
<1>20. \A k : k = 20 => 2 ^ k = 1048576  BY SMT
<1>21. \A k : k = 21 => 2 ^ k = 2097152  BY SMT
<1>22. \A k : k = 22 => 2 ^ k = 4194304  BY SMT
<1>23. \A k : k = 23 => 2 ^ k = 8388608  BY SMT
<1>24. \A k : k = 24 => 2 ^ k = 16777216  BY SMT
<1>25. \A k : k = 25 => 2 ^ k = 33554432  BY SMT
<1>26. \A k : k = 26 => 2 ^ k = 67108864  BY SMT
<1>27. \A k : k = 27 => 2 ^ k = 134217728  BY SMT
<1>28. \A k : k = 28 => 2 ^ k = 268435456  BY SMT
<1>29. \A k : k = 29 => 2 ^ k = 536870912  BY SMT
<1>30. \A k : k = 30 => 2 ^ k = 1073741824  BY SMT
<1>31. \A k : k = 31 => 2 ^ k = 2147483648  BY SMT
<1> QED
  BY SMT, <1>0, <1>1, <1>2, <1>3, <1>4, <1>5, <1>6, <1>7, <1>8, <1>9, <1>10,
      <1>11, <1>12, <1>13, <1>14, <1>15, <1>16, <1>17, <1>18, <1>19,
      <1>20, <1>21, <1>22, <1>23, <1>24, <1>25, <1>26, <1>27, <1>28,
      <1>29, <1>30, <1>31

LEMMA Powers ==
  /\ PowersOfTwo(31)
  /\ \A k \in 0 .. 31 : 2 ^ k \in Nat \ {0}
  /\ \A k \in 0 .. 30 : 2 ^ (k + 1) = 2 * 2 ^ k
<1>1. \A k \in 0 .. 31 : 2 ^ k \in Nat \ {0}
  BY PowersAre, SMT
<1>2. \A k \in 0 .. 30 : 2 ^ (k + 1) = 2 * 2 ^ k
  BY PowersAre, SMT
<1>3. 2 ^ 0 = 1 /\ 31 - 1 = 30
  OBVIOUS
<1> QED  BY <1>1, <1>2, <1>3 DEF PowersOfTwo

\* Induction over the numbers up to N
LEMMA UpTo ==
  ASSUME NEW N \in Nat, NEW S, 0 \in S, \A k \in 0 .. N - 1 : k \in S => k + 1 \in S
  PROVE  \A k \in 0 .. N : k \in S
<1> DEFINE T == {k \in 0 .. N : k \notin S}
<1>1. SUFFICES ASSUME T # {} PROVE FALSE
  OBVIOUS
<1>2. T \in SUBSET Nat
  OBVIOUS
<1>3. PICK x \in T : \A y \in T : <<y, x>> \notin OpToRel(<, Nat)
  <2> HIDE DEF T
  <2> QED  BY <1>1, <1>2, NatLessThanWellFounded, WFMin
<1>4. x \in 1 .. N /\ x - 1 \in T
  <2>1. x \in 0 .. N /\ x \notin S /\ x # 0
    OBVIOUS
  <2>2. x - 1 \in 0 .. N - 1 /\ (x - 1) + 1 = x
    BY <2>1
  <2>3. x - 1 \notin S
    BY <2>1, <2>2
  <2> QED  BY <2>1, <2>2, <2>3
<1>5. <<x - 1, x>> \in OpToRel(<, Nat)
  BY <1>4 DEF OpToRel
<1> QED  BY <1>3, <1>4, <1>5

LEMMA PowerOfSum ==
  ASSUME NEW N \in Nat, PowersOfTwo(N), NEW j \in Nat, NEW k \in Nat, j + k <= N
  PROVE  2 ^ (j + k) = 2 ^ j * 2 ^ k
<1> DEFINE S == {i \in Nat : j + i <= N => 2 ^ (j + i) = 2 ^ j * 2 ^ i}
<1>1. 0 \in S
  BY DEF PowersOfTwo
<1>2. ASSUME NEW i \in 0 .. N - 1, i \in S PROVE i + 1 \in S
  <2>1. SUFFICES ASSUME j + (i + 1) <= N PROVE 2 ^ (j + (i + 1)) = 2 ^ j * 2 ^ (i + 1)
    OBVIOUS
  <2>2. 2 ^ (j + i) = 2 ^ j * 2 ^ i
    BY <1>2, <2>1
  <2>3. j + (i + 1) = (j + i) + 1 /\ j + i \in 0 .. N - 1 /\ j \in 0 .. N
    BY <2>1
  <2>4. 2 ^ ((j + i) + 1) = 2 * 2 ^ (j + i) /\ 2 ^ (i + 1) = 2 * 2 ^ i
    BY <2>3 DEF PowersOfTwo
  <2>5. 2 ^ j \in Nat /\ 2 ^ i \in Nat
    BY <2>3 DEF PowersOfTwo
  <2> DEFINE a == 2 ^ j
             b == 2 ^ i
  <2> HIDE DEF a, b
  <2>6. 2 * (a * b) = a * (2 * b)
    BY <2>5 DEF a, b
  <2> QED  BY <2>2, <2>3, <2>4, <2>6 DEF a, b
<1> HIDE DEF S
<1>3. \A i \in 0 .. N : i \in S
  BY <1>1, <1>2, UpTo
<1> QED  BY <1>3 DEF S

\* What a mask of k bits leaves of one of more
LEMMA PowerAbove ==
  ASSUME NEW N \in Nat, PowersOfTwo(N), NEW k \in Nat, NEW width \in Nat, k < width, width <= N
  PROVE  2 ^ width = 2 ^ k * (2 * 2 ^ (width - k - 1)) /\ 2 ^ (width - k - 1) \in Nat \ {0}
<1>1. 2 ^ (k + (width - k)) = 2 ^ k * 2 ^ (width - k) /\ k + (width - k) = width
  BY PowerOfSum
<1>2. 2 ^ ((width - k - 1) + 1) = 2 * 2 ^ (width - k - 1)
      /\ (width - k - 1) + 1 = width - k
  BY DEF PowersOfTwo
<1>3. 2 ^ (width - k - 1) \in Nat \ {0}
  BY DEF PowersOfTwo
<1> QED  BY <1>1, <1>2, <1>3

-----------------------------------------------------------------------------
(***************************************************************************)
(* Bit k of n is (n \div 2 ^ k) % 2.                                       *)
(***************************************************************************)

\* A field of a number has the bits of the number.
LEMMA BitsOfField ==
  ASSUME NEW N \in Nat, PowersOfTwo(N), NEW n \in Int,
         NEW low \in Nat, NEW width \in Nat, NEW k \in Nat,
         k < width, width <= N, low + k <= N
  PROVE  (((n \div 2 ^ low) % 2 ^ width) \div 2 ^ k) % 2 = (n \div 2 ^ (low + k)) % 2
<1> DEFINE m == 2 ^ (width - k - 1)
           p == 2 ^ k
           q == 2 ^ low
<1>1. m \in Nat \ {0} /\ p \in Nat \ {0} /\ q \in Nat \ {0}
  BY DEF PowersOfTwo
<1>2. 2 ^ width = p * (2 * m)
  BY PowerAbove
<1>3. 2 ^ (low + k) = p * q
  <2>1. 2 ^ (k + low) = 2 ^ k * 2 ^ low /\ k + low = low + k
    BY PowerOfSum
  <2> QED  BY <2>1
<1> HIDE DEF m, p, q
<1>4. n \div q \in Int
  BY <1>1
<1>5. (((n \div q) % (p * (2 * m))) \div p) % 2 = ((n \div q) \div p) % 2
  BY <1>1, <1>4, MaskKeepsBits
<1>6. n \div (p * q) = (n \div q) \div p
  BY <1>1, NestedDivision
<1> QED  BY <1>2, <1>3, <1>5, <1>6 DEF p, q

\* Shifting twice is shifting by the sum.
LEMMA NestedShift ==
  ASSUME NEW N \in Nat, PowersOfTwo(N), NEW n \in Int, NEW j \in Nat, NEW k \in Nat,
         j + k <= N
  PROVE  n \div 2 ^ (j + k) = (n \div 2 ^ j) \div 2 ^ k
<1> DEFINE p == 2 ^ j
           q == 2 ^ k
<1>1. p \in Nat \ {0} /\ q \in Nat \ {0}
  BY DEF PowersOfTwo
<1>2. 2 ^ (k + j) = q * p /\ k + j = j + k
  BY PowerOfSum
<1> HIDE DEF p, q
<1>3. n \div (q * p) = (n \div p) \div q
  BY <1>1, NestedDivision
<1> QED  BY <1>2, <1>3 DEF p, q

\* A number put together of a part of j bits and another above it has the
\* bits of both.
LEMMA BitsOfBoth ==
  ASSUME NEW N \in Nat, PowersOfTwo(N), NEW j \in 0 .. N,
         NEW high \in Int, NEW low \in 0 .. 2 ^ j - 1, NEW k \in 0 .. N
  PROVE  /\ k < j => ((high * 2 ^ j + low) \div 2 ^ k) % 2 = (low \div 2 ^ k) % 2
         /\ k >= j => ((high * 2 ^ j + low) \div 2 ^ k) % 2 = (high \div 2 ^ (k - j)) % 2
<1> DEFINE p == 2 ^ j
           n == high * p + low
<1>1. p \in Nat \ {0}
  BY DEF PowersOfTwo
<1>2. n \in Int /\ n = low + p * high
  <2> HIDE DEF p
  <2> QED  BY <1>1
<1>3. low \in 0 .. p - 1
  OBVIOUS
<1> HIDE DEF n
<1>4. n \div p = high /\ n % p = low
  <2> HIDE DEF p
  <2> QED  BY <1>1, <1>2, <1>3, DivisionIs
<1>5. CASE k < j
  <2> DEFINE q == 2 ^ k
             m == 2 ^ (j - k - 1)
  <2>1. p = q * (2 * m) /\ m \in Nat \ {0} /\ q \in Nat \ {0}
    BY <1>5, PowerAbove DEF PowersOfTwo
  <2> HIDE DEF p, q, m
  <2>2. ((n % p) \div q) % 2 = (n \div q) % 2
    BY <1>2, <2>1, MaskKeepsBits
  <2> QED  BY <1>4, <1>5, <2>2 DEF n, p, q
<1>6. CASE k >= j
  <2> DEFINE q == 2 ^ (k - j)
  <2>1. q \in Nat \ {0}
    BY <1>6 DEF PowersOfTwo
  <2>2. 2 ^ ((k - j) + j) = q * p /\ (k - j) + j = k
    BY <1>6, PowerOfSum
  <2> HIDE DEF p, q
  <2>3. n \div (q * p) = (n \div p) \div q
    BY <1>1, <1>2, <2>1, NestedDivision
  <2>4. n \div 2 ^ k = high \div 2 ^ (k - j)
    BY <1>4, <2>2, <2>3 DEF q
  <2>5. ((high * 2 ^ j + low) \div 2 ^ k) % 2 = (high \div 2 ^ (k - j)) % 2
    BY <2>4 DEF n, p
  <2>6. ~(k < j)
    BY <1>6
  <2> QED  BY <2>5, <2>6
<1> QED  BY <1>5, <1>6

=============================================================================
