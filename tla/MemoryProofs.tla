---------------------------- MODULE MemoryProofs -----------------------------
(***************************************************************************)
(* For memories and words of every size: every store writes its bytes and  *)
(* no other, every load returns the number it should, and fetch reads what *)
(* was stored.                                                             *)
(***************************************************************************)
EXTENDS MemorySpec, ArithmeticLemmas, TLAPS

-----------------------------------------------------------------------------
(***************************************************************************)
(* Bytes of numbers.                                                       *)
(***************************************************************************)
Byte == 0 .. BYTE - 1

LEMMA Places ==
  /\ Place[0] = 1 /\ Place[1] = BYTE /\ Place[2] = BYTE * BYTE
  /\ Place[3] = BYTE * BYTE * BYTE /\ Place[4] = BYTE * BYTE * BYTE * BYTE
  /\ \A k \in 0 .. 4 : Place[k] \in Nat \ {0}
  /\ \A k \in 0 .. 3 : Place[k + 1] = Place[k] * BYTE
<1>1. \A k \in 0 .. 4 : k = 0 \/ k = 1 \/ k = 2 \/ k = 3 \/ k = 4
  OBVIOUS
<1>2. /\ Place[0] = 1 /\ Place[1] = BYTE /\ Place[2] = BYTE * BYTE
      /\ Place[3] = BYTE * BYTE * BYTE /\ Place[4] = BYTE * BYTE * BYTE * BYTE
  BY DEF Place
<1>3. BYTE \in Nat \ {0}  BY MemoryAssumption
<1>4. BYTE * BYTE \in Nat \ {0}  BY <1>3
<1>5. BYTE * BYTE * BYTE \in Nat \ {0}  BY <1>3, <1>4
<1>6. BYTE * BYTE * BYTE * BYTE \in Nat \ {0}  BY <1>3, <1>5
<1>7. \A k \in 0 .. 4 : Place[k] \in Nat \ {0}
  BY <1>1, <1>2, <1>3, <1>4, <1>5, <1>6
<1>8. \A k \in 0 .. 3 : Place[k + 1] = Place[k] * BYTE
  <2> SUFFICES ASSUME NEW k \in 0 .. 3 PROVE Place[k + 1] = Place[k] * BYTE
    OBVIOUS
  <2>1. CASE k = 0  BY <2>1, <1>2, <1>3
  <2>2. CASE k = 1  BY <2>2, <1>2, <1>3
  <2>3. CASE k = 2  BY <2>3, <1>2, <1>3
  <2>4. CASE k = 3  BY <2>4, <1>2, <1>3
  <2> QED  BY <2>1, <2>2, <2>3, <2>4
<1> QED  BY <1>2, <1>7, <1>8

\* The shifts of write_data() take the bytes of the value.
LEMMA BytesAre ==
  ASSUME NEW n \in Int
  PROVE  /\ n \div Place[0] = n
         /\ n \div Place[1] = n \div BYTE
         /\ n \div Place[2] = (n \div BYTE) \div BYTE
         /\ n \div Place[3] = ((n \div BYTE) \div BYTE) \div BYTE
<1>1. BYTE \in Nat \ {0} /\ BYTE * BYTE \in Nat \ {0}
  BY MemoryAssumption, Places
<1>2. n \div BYTE \in Int
  BY <1>1
<1>3. n \div (BYTE * BYTE) = (n \div BYTE) \div BYTE
  BY <1>1, NestedDivision
<1>4. n \div ((BYTE * BYTE) * BYTE) = (n \div BYTE) \div (BYTE * BYTE)
  BY <1>1, NestedDivision
<1>5. (n \div BYTE) \div (BYTE * BYTE) = ((n \div BYTE) \div BYTE) \div BYTE
  BY <1>1, <1>2, NestedDivision
<1>6. n \div 1 = n
  OBVIOUS
<1> QED  BY <1>3, <1>4, <1>5, <1>6, Places

-----------------------------------------------------------------------------
(***************************************************************************)
(* The bounds of an access, as the code tests them.                        *)
(***************************************************************************)
LEMMA BoundsAreRight ==
  ASSUME NEW addr \in Word, NEW size \in {1, 2, 4}
  PROVE  OutOfBounds(addr, size) <=> ~Fits(addr, size)
<1>1. addr \in Nat
  BY TypesAssumption DEF Word
<1>2. addr \in Touched(addr, size) /\ addr + (size - 1) \in Touched(addr, size)
  BY <1>1 DEF Touched
<1>3. \A a \in Touched(addr, size) : a \in Nat /\ a <= addr + (size - 1)
  BY <1>1 DEF Touched
<1> QED  BY <1>1, <1>2, <1>3, MemoryAssumption DEF OutOfBounds, Fits, MemAddr

-----------------------------------------------------------------------------
(***************************************************************************)
(* The values an access reads: the number with the low bytes n0, n1, n2,   *)
(* and n3, whose highest part n3 may be any integer.                       *)
(***************************************************************************)
LEMMA DigitsOf ==
  ASSUME NEW n0 \in Byte, NEW q \in Int
  PROVE  (n0 + BYTE * q) % BYTE = n0 /\ (n0 + BYTE * q) \div BYTE = q
BY DivisionIs, MemoryAssumption DEF Byte

\* A number of one digit less, all but the highest of which are bytes
LEMMA DigitsOfWord ==
  ASSUME NEW n0 \in Byte, NEW n1 \in Byte, NEW n2 \in Byte, NEW n3 \in Int,
         NEW n \in Int, n = n0 + BYTE * (n1 + BYTE * (n2 + BYTE * n3))
  PROVE  /\ (n \div Place[0]) % BYTE = n0 /\ (n \div Place[1]) % BYTE = n1
         /\ (n \div Place[2]) % BYTE = n2 /\ (n \div Place[3]) % BYTE = n3 % BYTE
<1> DEFINE q2 == n2 + BYTE * n3
<1>1. q2 \in Int /\ q2 % BYTE = n2 /\ q2 \div BYTE = n3
  BY DigitsOf, MemoryAssumption DEF Byte
<1> HIDE DEF q2
<1> DEFINE q1 == n1 + BYTE * q2
<1>2. q1 \in Int /\ q1 % BYTE = n1 /\ q1 \div BYTE = q2
  BY <1>1, DigitsOf, MemoryAssumption DEF Byte
<1>3. n = n0 + BYTE * q1
  BY DEF q1, q2
<1> HIDE DEF q1
<1>4. n % BYTE = n0 /\ n \div BYTE = q1
  BY <1>2, <1>3, DigitsOf
<1> QED  BY <1>1, <1>2, <1>4, BytesAre

LEMMA DigitsOfHalf ==
  ASSUME NEW n0 \in Byte, NEW n1 \in Int, NEW n \in Int, n = n0 + BYTE * n1
  PROVE  (n \div Place[0]) % BYTE = n0 /\ (n \div Place[1]) % BYTE = n1 % BYTE
BY DigitsOf, BytesAre

\* A number of one digit, of which the sign takes a multiple of the digit's
\* weight away
LEMMA DigitWithoutSign ==
  ASSUME NEW d \in Byte
  PROVE  d % BYTE = d /\ (d - BYTE) % BYTE = d
<1>1. BYTE \in Nat \ {0} /\ d \in 0 .. BYTE - 1
  BY MemoryAssumption DEF Byte
<1>2. (d + BYTE * 0) % BYTE = d /\ (d + BYTE * (-1)) % BYTE = d
  BY <1>1, DivisionIs
<1>3. d + BYTE * 0 = d /\ d + BYTE * (-1) = d - BYTE
  BY <1>1
<1> QED  BY <1>2, <1>3

\* What a word of bytes is worth
LEMMA WordBounds ==
  ASSUME NEW n0 \in Byte, NEW n1 \in Byte, NEW n2 \in Byte, NEW n3 \in Byte
  PROVE  /\ n0 + BYTE * n1 \in 0 .. Place[2] - 1
         /\ n0 + BYTE * (n1 + BYTE * (n2 + BYTE * n3)) \in 0 .. Place[4] - 1
<1>1. \A p \in Nat \ {0} : \A d \in Byte, q \in 0 .. p - 1 : d + BYTE * q \in 0 .. p * BYTE - 1
  <2> SUFFICES ASSUME NEW p \in Nat \ {0}, NEW d \in Byte, NEW q \in 0 .. p - 1
               PROVE  d + BYTE * q \in 0 .. p * BYTE - 1
    OBVIOUS
  <2>1. d \in 0 .. BYTE - 1 /\ BYTE \in Nat \ {0}
    BY MemoryAssumption DEF Byte
  <2>2. BYTE * q <= BYTE * (p - 1) /\ BYTE * q >= 0
    BY <2>1
  <2> QED  BY <2>1, <2>2
<1>2. Place[1] \in Nat \ {0} /\ Place[2] \in Nat \ {0} /\ Place[3] \in Nat \ {0}
  BY Places
<1>3. n3 \in 0 .. Place[1] - 1 /\ n1 \in 0 .. Place[1] - 1
  BY Places DEF Byte
<1>4. n2 + BYTE * n3 \in 0 .. Place[2] - 1 /\ n0 + BYTE * n1 \in 0 .. Place[2] - 1
  BY <1>1, <1>2, <1>3, Places
<1>5. n1 + BYTE * (n2 + BYTE * n3) \in 0 .. Place[3] - 1
  BY <1>1, <1>2, <1>4, Places
<1> QED  BY <1>1, <1>2, <1>4, <1>5, Places

-----------------------------------------------------------------------------
(***************************************************************************)
(* Stores and instruction reads.                                           *)
(***************************************************************************)
LEMMA ByteIs ==
  ASSUME NEW data \in Nat, NEW k \in 0 .. 3
  PROVE  ByteOf(data, k) = (data \div Place[k]) % BYTE
<1>1. CASE k = 0  BY <1>1, BytesAre DEF ByteOf
<1>2. CASE k = 1  BY <1>2, BytesAre DEF ByteOf
<1>3. CASE k = 2  BY <1>3, BytesAre DEF ByteOf
<1>4. CASE k = 3  BY <1>4, BytesAre DEF ByteOf
<1> QED  BY <1>1, <1>2, <1>3, <1>4

LEMMA StoreIsExact ==
  ASSUME memory \in Memory, NEW addr \in Word, NEW data \in Word, NEW size \in {1, 2, 4}
  PROVE  WriteData(memory, addr, data, size) = Written(addr, data, size)
<1>1. addr \in Nat /\ data \in Nat
  BY TypesAssumption DEF Word
<1>2. memory = [a \in MemAddr |-> memory[a]]
  BY DEF Memory
<1>3. CASE ~Fits(addr, size)
  BY <1>2, <1>3, BoundsAreRight DEF WriteData, Written
<1>4. CASE Fits(addr, size)
  <2>1. \A a \in MemAddr : a \in addr .. addr + size - 1 <=> a \in Touched(addr, size)
    <3> SUFFICES ASSUME NEW a \in MemAddr
                 PROVE  a \in addr .. addr + size - 1 <=> a \in Touched(addr, size)
      OBVIOUS
    <3>1. a \in Int
      BY MemoryAssumption DEF MemAddr
    <3>2. ASSUME a \in addr .. addr + size - 1 PROVE a \in Touched(addr, size)
      <4>1. a - addr \in 0 .. size - 1 /\ a = addr + (a - addr)
        BY <3>1, <3>2, <1>1
      <4> QED  BY <4>1 DEF Touched
    <3>3. ASSUME a \in Touched(addr, size) PROVE a \in addr .. addr + size - 1
      BY <3>3, <1>1 DEF Touched
    <3> QED  BY <3>2, <3>3
  <2>2. \A a \in MemAddr : a \in Touched(addr, size) =>
          ByteOf(data, a - addr) = (data \div Place[a - addr]) % BYTE
    <3> SUFFICES ASSUME NEW a \in MemAddr, a \in Touched(addr, size)
                 PROVE  a - addr \in 0 .. 3
      BY <1>1, ByteIs
    <3> QED  BY <1>1 DEF Touched
  <2> QED
    BY <1>4, <2>1, <2>2, BoundsAreRight DEF WriteData, Written
<1> QED  BY <1>3, <1>4

LEMMA BytesOfAccess ==
  ASSUME memory \in Memory, NEW addr \in Word, NEW size \in {1, 2, 4}, Fits(addr, size)
  PROVE  /\ memory[addr] \in Byte
         /\ \A k \in Nat : k < size => memory[addr + k] \in Byte
<1>1. addr \in Nat
  BY TypesAssumption DEF Word
<1>2. ASSUME NEW k \in Nat, k < size PROVE memory[addr + k] \in Byte
  <2>1. k \in 0 .. size - 1
    BY <1>2
  <2>2. addr + k \in MemAddr
    BY <2>1 DEF Fits, Touched
  <2> QED  BY <2>2 DEF Memory, Byte
<1>3. memory[addr + 0] \in Byte
  BY <1>2
<1> QED  BY <1>1, <1>2, <1>3

LEMMA FetchIsExact ==
  ASSUME memory \in Memory, NEW addr \in Word
  PROVE  ReadInstruction(memory, addr) =
           IF ~Fits(addr, 4) THEN 0
           ELSE memory[addr] + Place[1] * memory[addr + 1] + Place[2] * memory[addr + 2]
                  + Place[3] * memory[addr + 3]
<1>1. addr >= MEMORY_SIZE - 3 <=> ~Fits(addr, 4)
  BY BoundsAreRight, MemoryAssumption, TypesAssumption DEF OutOfBounds, Word
<1>2. CASE ~Fits(addr, 4)
  BY <1>1, <1>2 DEF ReadInstruction
<1>3. CASE Fits(addr, 4)
  <2> DEFINE n0 == memory[addr]      n1 == memory[addr + 1]
             n2 == memory[addr + 2]  n3 == memory[addr + 3]
  <2>1. n0 \in Int /\ n1 \in Int /\ n2 \in Int /\ n3 \in Int
    <3>1. n0 \in Byte /\ n1 \in Byte /\ n2 \in Byte /\ n3 \in Byte
      BY <1>3, BytesOfAccess
    <3> QED  BY <3>1, MemoryAssumption DEF Byte
  <2>2. ReadInstruction(memory, addr) = n0 + BYTE * (n1 + BYTE * (n2 + BYTE * n3))
    BY <1>1, <1>3 DEF ReadInstruction
  <2> HIDE DEF n0, n1, n2, n3
  <2>3. n0 + BYTE * (n1 + BYTE * (n2 + BYTE * n3))
          = n0 + BYTE * n1 + (BYTE * BYTE) * n2 + (BYTE * BYTE * BYTE) * n3
    BY <2>1, MemoryAssumption
  <2>4. ReadInstruction(memory, addr) = n0 + Place[1] * n1 + Place[2] * n2 + Place[3] * n3
    BY <2>2, <2>3, Places
  <2> QED  BY <1>3, <2>4 DEF n0, n1, n2, n3
<1> QED  BY <1>2, <1>3

-----------------------------------------------------------------------------
(***************************************************************************)
(* Loads.                                                                  *)
(***************************************************************************)
\* Reinterpreting a number below p as one of both signs
Signed(n, p) == IF 2 * n >= p THEN n - p ELSE n

\* What LoadedValue makes of the number it reads: the cast to a signed type,
\* extended to the width of a register
Extend(n, p) == IF 2 * n >= p THEN (n - p) % WORD ELSE n

LEMMA ExtensionIs ==
  ASSUME NEW p \in Nat \ {0}, p % 2 = 0, p <= WORD, NEW n \in 0 .. p - 1
  PROVE  /\ SignedValue(Extend(n, p)) = Signed(n, p)
         /\ -(p \div 2) <= Signed(n, p) /\ Signed(n, p) < p \div 2
<1>1. p = 2 * (p \div 2) /\ p \div 2 \in Nat /\ WORD \in Nat
  BY TypesAssumption
<1>2. CASE 2 * n >= p
  <2>1. n - p \in Int /\ n - p + WORD \in 0 .. WORD - 1
    BY <1>1
  <2>2. (n - p) % WORD = n - p + WORD
    BY <2>1, <1>1
  <2> QED  BY <1>1, <1>2, <2>2 DEF Extend, Signed, SignedValue
<1>3. CASE 2 * n < p
  BY <1>1, <1>3 DEF Extend, Signed, SignedValue
<1> QED  BY <1>2, <1>3

LEMMA PlacesAreEven ==
  ASSUME RegistersHoldWords
  PROVE  \A size \in {1, 2, 4} : /\ Place[size] % 2 = 0 /\ Place[size] <= WORD
                                 /\ Place[size] = 2 * (Place[size] \div 2)
<1> DEFINE c == BYTE \div 2
<1>1. BYTE = 2 * c /\ c \in Nat \ {0} /\ BYTE \in Nat \ {0}
  BY MemoryAssumption DEF RegistersHoldWords
<1> HIDE DEF c
<1>2. \A x \in Nat : (BYTE * x) % 2 = 0
  <2> SUFFICES ASSUME NEW x \in Nat PROVE (BYTE * x) % 2 = 0
    OBVIOUS
  <2>1. c * x \in Int /\ BYTE * x = 0 + 2 * (c * x)
    BY <1>1
  <2> QED  BY <2>1, DivisionIs
<1>3. \A x \in Nat \ {0} : x <= BYTE * x
  <2> SUFFICES ASSUME NEW x \in Nat \ {0} PROVE x <= BYTE * x
    OBVIOUS
  <2>1. (BYTE - 1) * x >= 0
    BY <1>1
  <2> QED  BY <2>1, <1>1
<1>4. /\ Place[1] = BYTE * Place[0] /\ Place[2] = BYTE * Place[1]
      /\ Place[3] = BYTE * Place[2] /\ Place[4] = BYTE * Place[3]
  BY Places, <1>1
<1>5. \A k \in 0 .. 4 : Place[k] \in Nat \ {0}
  BY Places
<1>6. Place[1] % 2 = 0 /\ Place[2] % 2 = 0 /\ Place[4] % 2 = 0
  BY <1>2, <1>4, <1>5
<1>7. Place[1] <= Place[2] /\ Place[2] <= Place[3] /\ Place[3] <= Place[4]
  BY <1>3, <1>4, <1>5
<1>8. Place[1] <= WORD /\ Place[2] <= WORD /\ Place[4] <= WORD
  BY <1>5, <1>7, TypesAssumption DEF RegistersHoldWords
<1> QED  BY <1>5, <1>6, <1>8

\* The number an access reads has the bytes of the memory, and still has
\* them when the bit above is taken away.
HasTheBytes(n, addr, size) ==
  \A k \in 0 .. size - 1 : (n \div Place[k]) % BYTE = memory[addr + k]

ReadsTheBytes(addr, size) ==
  LET n == ReadData(memory, addr, size) IN
  /\ n \in 0 .. Place[size] - 1
  /\ HasTheBytes(n, addr, size) /\ HasTheBytes(n - Place[size], addr, size)

LEMMA ByteRead ==
  ASSUME memory \in Memory, NEW addr \in Word, Fits(addr, 1), RegistersHoldWords
  PROVE  ReadsTheBytes(addr, 1)
<1> DEFINE n0 == memory[addr]
<1>1. n0 \in Byte
  BY BytesOfAccess
<1>2. ReadData(memory, addr, 1) = n0 % WORD
  BY BoundsAreRight DEF ReadData
<1> HIDE DEF n0
<1>3. n0 \in 0 .. Place[1] - 1 /\ Place[1] <= WORD /\ Place[1] = BYTE
  BY <1>1, Places, PlacesAreEven DEF Byte
<1>4. ReadData(memory, addr, 1) = n0
  <2>1. n0 % WORD = n0
    BY <1>3, MemoryAssumption, TypesAssumption
  <2> QED  BY <1>2, <2>1
<1>5. \A k \in 0 .. 1 - 1 : k = 0 /\ memory[addr + k] = n0
  BY TypesAssumption DEF Word, n0
<1>6. (n0 \div Place[0]) % BYTE = n0 /\ ((n0 - Place[1]) \div Place[0]) % BYTE = n0
  <2>1. n0 \in Int /\ n0 - Place[1] \in Int
    BY <1>3, Places
  <2> QED  BY <2>1, <1>1, <1>3, BytesAre, DigitWithoutSign
<1>7. HasTheBytes(n0, addr, 1) /\ HasTheBytes(n0 - Place[1], addr, 1)
  BY <1>5, <1>6 DEF HasTheBytes
<1> QED  BY <1>3, <1>4, <1>7 DEF ReadsTheBytes

LEMMA HalfRead ==
  ASSUME memory \in Memory, NEW addr \in Word, Fits(addr, 2), RegistersHoldWords
  PROVE  ReadsTheBytes(addr, 2)
<1> DEFINE n0 == memory[addr]
           n1 == memory[addr + 1]
<1>1. n0 \in Byte /\ n1 \in Byte
  BY BytesOfAccess
<1>2. ReadData(memory, addr, 2) = (n0 + BYTE * n1) % WORD
  BY BoundsAreRight DEF ReadData
<1>3. \A k \in 0 .. 2 - 1 : \/ k = 0 /\ memory[addr + k] = n0
                            \/ k = 1 /\ memory[addr + k] = n1
  <2>1. \A k \in 0 .. 2 - 1 : k = 0 \/ k = 1
    OBVIOUS
  <2>2. addr + 0 = addr
    BY TypesAssumption DEF Word
  <2> QED  BY <2>1, <2>2
<1> HIDE DEF n0, n1
<1> DEFINE n == n0 + BYTE * n1
<1>4. n \in 0 .. Place[2] - 1 /\ Place[2] <= WORD /\ Place[2] = BYTE * BYTE
  BY <1>1, WordBounds, Places, PlacesAreEven
<1>5. ReadData(memory, addr, 2) = n
  <2> HIDE DEF n
  <2>1. n % WORD = n
    BY <1>4, Places, TypesAssumption
  <2> QED  BY <1>2, <2>1 DEF n
<1>6. (n \div Place[0]) % BYTE = n0 /\ (n \div Place[1]) % BYTE = n1
  <2>1. n \in Int /\ n1 \in Int
    BY <1>1, <1>4, Places DEF Byte
  <2> QED  BY <2>1, <1>1, DigitsOfHalf, DigitWithoutSign
<1>7. ((n - Place[2]) \div Place[0]) % BYTE = n0 /\ ((n - Place[2]) \div Place[1]) % BYTE = n1
  <2>1. n0 \in Int /\ n1 \in Int /\ BYTE \in Int
    BY <1>1, MemoryAssumption DEF Byte
  <2>2. n - Place[2] = n0 + BYTE * (n1 - BYTE) /\ n - Place[2] \in Int
    BY <2>1, <1>4
  <2>3. n1 - BYTE \in Int
    BY <2>1
  <2> QED  BY <2>2, <2>3, <1>1, DigitsOfHalf, DigitWithoutSign
<1> HIDE DEF n
<1>8. HasTheBytes(n, addr, 2) /\ HasTheBytes(n - Place[2], addr, 2)
  BY <1>3, <1>6, <1>7 DEF HasTheBytes
<1> QED  BY <1>4, <1>5, <1>8 DEF ReadsTheBytes

LEMMA WordRead ==
  ASSUME memory \in Memory, NEW addr \in Word, Fits(addr, 4), RegistersHoldWords
  PROVE  ReadsTheBytes(addr, 4)
<1> DEFINE n0 == memory[addr]
           n1 == memory[addr + 1]
           n2 == memory[addr + 2]
           n3 == memory[addr + 3]
<1>1. n0 \in Byte /\ n1 \in Byte /\ n2 \in Byte /\ n3 \in Byte
  BY BytesOfAccess
<1>2. ReadData(memory, addr, 4) = (n0 + BYTE * (n1 + BYTE * (n2 + BYTE * n3))) % WORD
  BY BoundsAreRight DEF ReadData
<1>3. \A k \in 0 .. 4 - 1 : \/ k = 0 /\ memory[addr + k] = n0
                            \/ k = 1 /\ memory[addr + k] = n1
                            \/ k = 2 /\ memory[addr + k] = n2
                            \/ k = 3 /\ memory[addr + k] = n3
  <2>1. \A k \in 0 .. 4 - 1 : k = 0 \/ k = 1 \/ k = 2 \/ k = 3
    OBVIOUS
  <2>2. addr + 0 = addr
    BY TypesAssumption DEF Word
  <2> QED  BY <2>1, <2>2
<1> HIDE DEF n0, n1, n2, n3
<1> DEFINE n == n0 + BYTE * (n1 + BYTE * (n2 + BYTE * n3))
<1>4. n \in 0 .. Place[4] - 1 /\ Place[4] <= WORD /\ Place[4] = BYTE * BYTE * BYTE * BYTE
  BY <1>1, WordBounds, Places, PlacesAreEven
<1>5. ReadData(memory, addr, 4) = n
  <2> HIDE DEF n
  <2>1. n % WORD = n
    BY <1>4, Places, TypesAssumption
  <2> QED  BY <1>2, <2>1 DEF n
<1>6. /\ (n \div Place[0]) % BYTE = n0 /\ (n \div Place[1]) % BYTE = n1
      /\ (n \div Place[2]) % BYTE = n2 /\ (n \div Place[3]) % BYTE = n3
  <2>1. n \in Int /\ n3 \in Int
    BY <1>1, <1>4, Places DEF Byte
  <2> QED  BY <2>1, <1>1, DigitsOfWord, DigitWithoutSign
<1>7. /\ ((n - Place[4]) \div Place[0]) % BYTE = n0
      /\ ((n - Place[4]) \div Place[1]) % BYTE = n1
      /\ ((n - Place[4]) \div Place[2]) % BYTE = n2
      /\ ((n - Place[4]) \div Place[3]) % BYTE = n3
  <2>1. n0 \in Int /\ n1 \in Int /\ n2 \in Int /\ n3 \in Int /\ BYTE \in Int
    BY <1>1, MemoryAssumption DEF Byte
  <2>2. /\ n - Place[4] = n0 + BYTE * (n1 + BYTE * (n2 + BYTE * (n3 - BYTE)))
        /\ n - Place[4] \in Int
    BY <2>1, <1>4
  <2>3. n3 - BYTE \in Int
    BY <2>1
  <2> QED  BY <2>2, <2>3, <1>1, DigitsOfWord, DigitWithoutSign
<1> HIDE DEF n
<1>8. HasTheBytes(n, addr, 4) /\ HasTheBytes(n - Place[4], addr, 4)
  BY <1>3, <1>6, <1>7 DEF HasTheBytes
<1> QED  BY <1>4, <1>5, <1>8 DEF ReadsTheBytes

\* What LoadsExtend says of a load of this address
Extends(addr, f, result) ==
  LET size == LoadSize(f)
      number == IF f \in {LB, LH, LW} THEN SignedValue(result) ELSE result
  IN
  IF ~Fits(addr, size) THEN result = 0
  ELSE /\ HasTheBytes(number, addr, size)
       /\ IF f \in {LB, LH, LW}
          THEN -(Place[size] \div 2) <= number /\ number < Place[size] \div 2
          ELSE 0 <= number /\ number < 2 * (Place[size] \div 2)

LEMMA LoadedIs ==
  ASSUME NEW m, NEW addr, NEW f \in {LB, LH, LW, LBU, LHU}
  PROVE  LET size == LoadSize(f)  data == ReadData(m, addr, size) IN
         /\ size \in {1, 2, 4}
         /\ LoadedValue(m, addr, f) = IF f \in {LB, LH, LW} THEN Extend(data, Place[size])
                                      ELSE data
BY Places DEF LoadedValue, LoadSize, Extend, LB, LH, LW, LBU, LHU

LEMMA LoadIsExact ==
  ASSUME memory \in Memory, NEW addr \in Word, NEW f \in {LB, LH, LW, LBU, LHU},
         RegistersHoldWords
  PROVE  Extends(addr, f, LoadedValue(memory, addr, f))
<1> DEFINE size == LoadSize(f)
           data == ReadData(memory, addr, size)
<1>1. size \in {1, 2, 4}
  BY LoadedIs
<1>2. LoadedValue(memory, addr, f) =
        IF f \in {LB, LH, LW} THEN Extend(data, Place[size]) ELSE data
  BY LoadedIs
<1> HIDE DEF size, data
<1>3. /\ Place[size] \in Nat \ {0} /\ Place[size] % 2 = 0 /\ Place[size] <= WORD
      /\ Place[size] = 2 * (Place[size] \div 2)
  BY <1>1, Places, PlacesAreEven
<1>4. CASE ~Fits(addr, size)
  <2>1. data = 0
    BY <1>1, <1>4, BoundsAreRight DEF ReadData, data
  <2>2. Extend(data, Place[size]) = 0
    BY <2>1, <1>3 DEF Extend
  <2> QED  BY <1>2, <1>4, <2>1, <2>2 DEF Extends, size
<1>5. CASE Fits(addr, size)
  <2>1. ReadsTheBytes(addr, size)
    BY <1>1, <1>5, ByteRead, HalfRead, WordRead
  <2>2. /\ data \in 0 .. Place[size] - 1
        /\ HasTheBytes(data, addr, size) /\ HasTheBytes(data - Place[size], addr, size)
    BY <2>1 DEF ReadsTheBytes, data
  <2>3. HasTheBytes(Signed(data, Place[size]), addr, size)
    BY <2>2 DEF Signed
  <2>4. CASE f \in {LB, LH, LW}
    BY <1>2, <1>3, <1>5, <2>2, <2>3, <2>4, ExtensionIs DEF Extends, size
  <2>5. CASE f \notin {LB, LH, LW}
    <3>1. 0 <= data /\ data < 2 * (Place[size] \div 2)
      BY <1>3, <2>2
    <3> QED  BY <1>2, <1>5, <2>2, <2>5, <3>1 DEF Extends, size
  <2> QED  BY <2>4, <2>5
<1> QED  BY <1>4, <1>5

-----------------------------------------------------------------------------
(***************************************************************************)
(* The invariant: the memory holds bytes, and a load that was not followed *)
(* by a store returned what is still there.                                *)
(***************************************************************************)
LoadOK ==
  /\ load.addr \in Word /\ load.funct3 \in {LB, LH, LW, LBU, LHU}
  /\ load.result = LoadedValue(memory, load.addr, load.funct3)

Inv == memory \in Memory /\ LoadOK

LEMMA NoLoadOK == LET l == NoLoad IN
  /\ l.addr \in Word /\ l.funct3 \in {LB, LH, LW, LBU, LHU}
  /\ l.result = LoadedValue(memory, l.addr, l.funct3)
BY TypesAssumption DEF NoLoad, Word

LEMMA BytesAreStored ==
  ASSUME NEW data \in Nat, NEW k \in 0 .. 3
  PROVE  ByteOf(data, k) \in Byte
<1>1. data \div Place[k] \in Int
  BY Places
<1> QED  BY <1>1, ByteIs, MemoryAssumption DEF Byte

LEMMA StoreKeepsMemory ==
  ASSUME NEW m \in Memory, NEW addr \in Word, NEW data \in Word, NEW size \in {1, 2, 4}
  PROVE  WriteData(m, addr, data, size) \in Memory
<1>1. addr \in Nat /\ data \in Nat
  BY TypesAssumption DEF Word
<1>2. \A a \in MemAddr : a \in addr .. addr + size - 1 => ByteOf(data, a - addr) \in Byte
  <2> SUFFICES ASSUME NEW a \in MemAddr, a \in addr .. addr + size - 1
               PROVE  a - addr \in 0 .. 3
    BY <1>1, BytesAreStored
  <2> QED  BY <1>1
<1> QED  BY <1>2 DEF WriteData, Memory, Byte

LEMMA Invariance == Spec => []Inv
<1>1. Init => Inv
  <2> SUFFICES ASSUME Init PROVE Inv
    OBVIOUS
  <2>1. memory \in Memory
    BY MemoryAssumption DEF Init, Memory
  <2> QED  BY <2>1, NoLoadOK DEF Init, Inv, LoadOK
<1>2. Inv /\ [Next]_vars => Inv'
  <2> SUFFICES ASSUME Inv, [Next]_vars PROVE Inv'
    OBVIOUS
  <2>1. CASE Store
    <3>1. PICK addr \in Addresses, data \in Stored, funct3 \in {SB, SH, SW} :
            memory' = WriteData(memory, addr, data, StoreSize(funct3)) /\ load' = NoLoad'
      BY <2>1 DEF Store
    <3>2. StoreSize(funct3) \in {1, 2, 4}
      BY DEF StoreSize
    <3>3. memory' \in Memory
      BY <3>1, <3>2, StoreKeepsMemory, AccessAssumption DEF Inv
    <3>4. LoadOK'
      BY <3>1, TypesAssumption DEF LoadOK, NoLoad, Word
    <3> QED  BY <3>3, <3>4 DEF Inv
  <2>2. CASE Load
    BY <2>2, AccessAssumption DEF Load, Inv, LoadOK
  <2>3. CASE UNCHANGED vars
    BY <2>3 DEF Inv, LoadOK, vars
  <2> QED  BY <2>1, <2>2, <2>3 DEF Next
<1> QED  BY <1>1, <1>2, PTL DEF Spec

-----------------------------------------------------------------------------
\* write_data() puts the bytes of every store where it should and nothing
\* anywhere else, at every address up to the last and with every value.
THEOREM StoresCorrect == Spec => []StoresAreExact
<1>1. Inv => StoresAreExact
  BY StoreIsExact, AccessAssumption DEF Inv, StoresAreExact
<1> QED  BY <1>1, Invariance, PTL

\* read_instruction() returns the word whose bytes are at the address, or 0
\* where the memory ends earlier.
THEOREM FetchCorrect == Spec => []FetchSeesTheMemory
<1>1. Inv => FetchSeesTheMemory
  BY FetchIsExact, AccessAssumption DEF Inv, FetchSeesTheMemory
<1> QED  BY <1>1, Invariance, PTL

\* execute_mem_op's casts return the number of the right width and sign.
THEOREM LoadsCorrect == ASSUME RegistersHoldWords PROVE Spec => []LoadsExtend
<1>1. Inv => LoadsExtend
  <2> SUFFICES ASSUME Inv PROVE LoadsExtend
    OBVIOUS
  <2>1. Extends(load.addr, load.funct3, load.result)
    BY LoadIsExact DEF Inv, LoadOK
  <2> QED  BY <2>1 DEF LoadsExtend, Extends, HasTheBytes, LoadSize
<1> QED  BY <1>1, Invariance, PTL

=============================================================================
