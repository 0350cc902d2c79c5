----------------------------- MODULE WordProofs -----------------------------
(***************************************************************************)
(* The two parts that work on the bits of words.  Part 1: the decoder      *)
(* inverts the instruction formats, and the offsets that fetch and the     *)
(* static predictor pick for themselves are the decoder's, for every       *)
(* instruction word.  Part 2: every ALU instruction computes what its name *)
(* says, for every width of the registers.                                 *)
(***************************************************************************)
EXTENDS DecodeUnitSpec, AluSpec, ArithmeticLemmas

-----------------------------------------------------------------------------
(***************************************************************************)
(* Bits of words, of fields and of immediates                              *)
(***************************************************************************)
LEMMA WordIs ==
  ASSUME NEW word \in InstructionWord
  PROVE  word \in Int /\ -(2 ^ 31) <= word /\ word < 2 ^ 31
BY SMT DEF InstructionWord

LEMMA BitIs ==
  ASSUME NEW v \in Int, NEW k \in 0 .. 30
  PROVE  BitOf(v, k) = (v \div 2 ^ k) % 2
BY DEF BitOf

LEMMA WordBitIs ==
  ASSUME NEW word \in InstructionWord, NEW k \in 0 .. 31
  PROVE  BitOf(word, k) = (word \div 2 ^ k) % 2
<1>1. CASE k = 31
  <2>1. BitOf(word, 31) = (word \div 2 ^ 31) % 2
    BY WordIs, SMT DEF BitOf, SignBit
  <2> QED  BY <1>1, <2>1
<1>2. CASE k \in 0 .. 30
  BY <1>2, WordIs, BitIs
<1> QED  BY <1>1, <1>2

LEMMA FieldRange ==
  ASSUME NEW word \in InstructionWord, NEW low \in 0 .. 31, NEW width \in 0 .. 31
  PROVE  Bits(word, low, width) \in 0 .. 2 ^ width - 1
<1>1. 2 ^ low \in Nat \ {0} /\ 2 ^ width \in Nat \ {0} /\ word \in Int
  BY Powers, WordIs
<1> QED  BY <1>1 DEF Bits

\* A field has the bits of the word.
LEMMA FieldBits ==
  ASSUME NEW word \in InstructionWord, NEW low \in 0 .. 31, NEW width \in 0 .. 31,
         NEW k \in 0 .. width - 1, low + width <= 32
  PROVE  BitOf(Bits(word, low, width), k) = BitOf(word, low + k)
<1>1. Bits(word, low, width) \in Int /\ word \in Int
  BY FieldRange, Powers, WordIs
<1>2. BitOf(Bits(word, low, width), k) = (Bits(word, low, width) \div 2 ^ k) % 2
  BY <1>1, k \in 0 .. 30, BitIs
<1>3. low + k \in 0 .. 31 /\ low + k <= 31
  OBVIOUS
<1>4. BitOf(word, low + k) = (word \div 2 ^ (low + k)) % 2
  BY <1>3, WordBitIs
<1>5. (((word \div 2 ^ low) % 2 ^ width) \div 2 ^ k) % 2 = (word \div 2 ^ (low + k)) % 2
  BY <1>1, <1>3, Powers, BitsOfField
<1> QED  BY <1>2, <1>4, <1>5 DEF Bits

\* Two parts put together
LEMMA PartsBits ==
  ASSUME NEW j \in 0 .. 30, NEW high \in Int, NEW low \in 0 .. 2 ^ j - 1, NEW k \in 0 .. 30
  PROVE  /\ k < j => BitOf(high * 2 ^ j + low, k) = BitOf(low, k)
         /\ k >= j => BitOf(high * 2 ^ j + low, k) = BitOf(high, k - j)
<1> DEFINE n == high * 2 ^ j + low
<1>1. 2 ^ j \in Nat
  BY Powers
<1>2. low \in Int /\ n \in Int
  BY <1>1
<1>3. j \in 0 .. 31 /\ k \in 0 .. 31
  OBVIOUS
<1>4. /\ k < j => (n \div 2 ^ k) % 2 = (low \div 2 ^ k) % 2
      /\ k >= j => (n \div 2 ^ k) % 2 = (high \div 2 ^ (k - j)) % 2
  <2>1. /\ k < j => ((high * 2 ^ j + low) \div 2 ^ k) % 2 = (low \div 2 ^ k) % 2
        /\ k >= j => ((high * 2 ^ j + low) \div 2 ^ k) % 2 = (high \div 2 ^ (k - j)) % 2
    <3> HIDE DEF n
    <3>1. PowersOfTwo(31)
      BY Powers
    <3> QED  BY <1>3, <3>1, 31 \in Nat, BitsOfBoth
  <2> QED  BY <2>1 DEF n
<1> HIDE DEF n
<1>5. BitOf(n, k) = (n \div 2 ^ k) % 2 /\ BitOf(low, k) = (low \div 2 ^ k) % 2
  BY <1>2, BitIs
<1>6. k >= j => BitOf(high, k - j) = (high \div 2 ^ (k - j)) % 2
  <2> SUFFICES ASSUME k >= j PROVE BitOf(high, k - j) = (high \div 2 ^ (k - j)) % 2
    OBVIOUS
  <2> QED  BY k - j \in 0 .. 30, BitIs
<1> QED  BY <1>4, <1>5, <1>6 DEF n

\* Sign extension keeps the bits and brings the number into its range.
LEMMA SignedIs ==
  ASSUME NEW width \in 1 .. 30, NEW v \in 0 .. 2 ^ width - 1
  PROVE  /\ SignExtended(v, width) \in Int
         /\ InRange(SignExtended(v, width), width)
         /\ \A k \in 0 .. width - 1 : BitOf(SignExtended(v, width), k) = BitOf(v, k)
         /\ SignExtended(v, width) < 0 <=> v >= 2 ^ (width - 1)
<1>1. /\ 2 ^ width \in Nat \ {0} /\ 2 ^ (width - 1) \in Nat \ {0}
      /\ 2 ^ width = 2 * 2 ^ (width - 1)
  <2>1. width - 1 \in 0 .. 30 /\ (width - 1) + 1 = width /\ width \in 0 .. 31
    OBVIOUS
  <2>2. \A k \in 0 .. 30 : 2 ^ (k + 1) = 2 * 2 ^ k
    BY Powers
  <2>3. 2 ^ ((width - 1) + 1) = 2 * 2 ^ (width - 1)
    BY <2>1, <2>2
  <2>4. \A k \in 0 .. 31 : 2 ^ k \in Nat \ {0}
    BY Powers
  <2> QED  BY <2>1, <2>3, <2>4
<1>2. ASSUME NEW k \in 0 .. width - 1
      PROVE  BitOf((-1) * 2 ^ width + v, k) = BitOf(v, k)
  BY -1 \in Int, width \in 0 .. 30, k \in 0 .. 30, k < width, PartsBits
<1>3. (-1) * 2 ^ width + v = v - 2 ^ width
  BY <1>1
<1> QED  BY <1>1, <1>2, <1>3 DEF SignExtended, InRange

-----------------------------------------------------------------------------
(***************************************************************************)
(* The fields of the word                                                  *)
(***************************************************************************)
LEMMA FieldEncodes ==
  ASSUME inst \in InstructionWord, NEW low \in 0 .. 31, NEW width \in 0 .. 31,
         low + width <= 32
  PROVE  Encodes(Bits(inst, low, width), 0, low, width)
<1> SUFFICES ASSUME NEW k \in 0 .. width - 1
             PROVE  BitOf(inst, low + k) = BitOf(Bits(inst, low, width), 0 + k)
  BY DEF Encodes
<1>1. 0 + k = k
  OBVIOUS
<1>2. BitOf(Bits(inst, low, width), k) = BitOf(inst, low + k)
  BY FieldBits
<1> QED  BY <1>1, <1>2

LEMMA SignEncodes ==
  ASSUME inst \in InstructionWord
  PROVE  /\ SignBit(inst) \in 0 .. 1 /\ (SignBit(inst) = 1 <=> inst < 0)
         /\ Encodes(SignBit(inst), 0, 31, 1)
<1>1. SignBit(inst) \in 0 .. 1 /\ (SignBit(inst) = 1 <=> inst < 0)
  BY WordIs, SMT DEF SignBit
<1>2. BitOf(SignBit(inst), 0) = (SignBit(inst) \div 2 ^ 0) % 2
  BY <1>1, 0 \in 0 .. 30, BitIs
<1>3. BitOf(SignBit(inst), 0) = SignBit(inst)
  <2> DEFINE s == SignBit(inst)
  <2>1. s \in 0 .. 1
    BY <1>1
  <2> HIDE DEF s
  <2>2. (s \div 2 ^ 0) % 2 = s
    BY <2>1, SMT
  <2> QED  BY <1>2, <2>2 DEF s
<1>4. BitOf(inst, 31) = SignBit(inst)
  BY DEF BitOf
<1> QED  BY <1>1, <1>3, <1>4 DEF Encodes

\* What is put together of two parts encodes what each part does.
Joined(high, j, part) == high * 2 ^ j + part

LEMMA LowPart ==
  ASSUME NEW j \in 0 .. 30, NEW high \in Int, NEW part \in 0 .. 2 ^ j - 1,
         NEW from \in Nat, NEW low \in Nat, NEW width \in Nat, from + width <= j,
         Encodes(part, from, low, width)
  PROVE  Encodes(Joined(high, j, part), from, low, width)
<1> SUFFICES ASSUME NEW k \in 0 .. width - 1
             PROVE  BitOf(inst, low + k) = BitOf(high * 2 ^ j + part, from + k)
  BY DEF Encodes, Joined
<1>1. from + k \in 0 .. 30 /\ from + k < j
  OBVIOUS
<1>2. BitOf(high * 2 ^ j + part, from + k) = BitOf(part, from + k)
  BY <1>1, PartsBits
<1> QED  BY <1>2 DEF Encodes

LEMMA HighPart ==
  ASSUME NEW j \in 0 .. 30, NEW high \in Int, NEW part \in 0 .. 2 ^ j - 1,
         NEW from \in Nat, NEW low \in Nat, NEW width \in Nat,
         from + j + width <= 31, Encodes(high, from, low, width)
  PROVE  Encodes(Joined(high, j, part), from + j, low, width)
<1> SUFFICES ASSUME NEW k \in 0 .. width - 1
             PROVE  BitOf(inst, low + k) = BitOf(high * 2 ^ j + part, from + j + k)
  BY DEF Encodes, Joined
<1>1. from + j + k \in 0 .. 30 /\ from + j + k >= j
  OBVIOUS
<1>2. BitOf(high * 2 ^ j + part, from + j + k) = BitOf(high, from + j + k - j)
  <2>1. ASSUME NEW i \in 0 .. 30, i >= j
        PROVE  BitOf(high * 2 ^ j + part, i) = BitOf(high, i - j)
    BY <2>1, PartsBits
  <2> QED  BY <1>1, <2>1
<1>3. from + j + k - j = from + k
  OBVIOUS
<1> QED  BY <1>2, <1>3 DEF Encodes

LEMMA SignedPart ==
  ASSUME NEW bits \in 1 .. 30, NEW v \in 0 .. 2 ^ bits - 1,
         NEW from \in Nat, NEW low \in Nat, NEW width \in Nat, from + width <= bits,
         Encodes(v, from, low, width)
  PROVE  Encodes(SignExtended(v, bits), from, low, width)
<1> SUFFICES ASSUME NEW k \in 0 .. width - 1
             PROVE  BitOf(inst, low + k) = BitOf(SignExtended(v, bits), from + k)
  BY DEF Encodes
<1>1. from + k \in 0 .. bits - 1
  OBVIOUS
<1>2. BitOf(SignExtended(v, bits), from + k) = BitOf(v, from + k)
  BY <1>1, SignedIs
<1> QED  BY <1>2 DEF Encodes

-----------------------------------------------------------------------------
(***************************************************************************)
(* The opcode                                                              *)
(***************************************************************************)
\* Numbers of seven bits with the same bits are the same.
LEMMA SevenBits ==
  ASSUME NEW v \in 0 .. 127, NEW w \in 0 .. 127,
         \A k \in 0 .. 6 : BitOf(v, k) = BitOf(w, k)
  PROVE  v = w
<1> DEFINE B(n, k) == (n \div 2 ^ k) % 2
<1>1. ASSUME NEW k \in 0 .. 6 PROVE B(v, k) = B(w, k)
  BY v \in Int, w \in Int, k \in 0 .. 30, BitIs
<1>2. /\ B(v, 0) = B(w, 0) /\ B(v, 1) = B(w, 1) /\ B(v, 2) = B(w, 2)
      /\ B(v, 3) = B(w, 3) /\ B(v, 4) = B(w, 4) /\ B(v, 5) = B(w, 5)
      /\ B(v, 6) = B(w, 6)
  <2> HIDE DEF B
  <2> QED  BY <1>1
<1>3. ASSUME NEW n \in 0 .. 127
      PROVE  n = B(n, 0) + 2 * B(n, 1) + 4 * B(n, 2) + 8 * B(n, 3) + 16 * B(n, 4)
                   + 32 * B(n, 5) + 64 * B(n, 6)
  BY SMTT(30)
<1>4. \A n \in 0 .. 127 :
        n = B(n, 0) + 2 * B(n, 1) + 4 * B(n, 2) + 8 * B(n, 3) + 16 * B(n, 4)
              + 32 * B(n, 5) + 64 * B(n, 6)
  <2> HIDE DEF B
  <2> QED  BY <1>3
<1> HIDE DEF B
<1> QED  BY <1>2, <1>4

LEMMA OpcodeIs ==
  ASSUME NEW word \in InstructionWord, NEW o \in DOMAIN OpcodeBits
  PROVE  GetOpcode(word) = o <=> OpcodeBits[o] = Bits(word, 0, 7)
<1> DEFINE low == Bits(word, 0, 7)
<1>1. \A a, b \in DOMAIN OpcodeBits : OpcodeBits[a] = OpcodeBits[b] => a = b
  BY SMT DEF OpcodeBits
<1>2. "UNKNOWN" \notin DOMAIN OpcodeBits
  BY DEF OpcodeBits
<1>3. GetOpcode(word) = IF \E a \in DOMAIN OpcodeBits : OpcodeBits[a] = low
                        THEN CHOOSE a \in DOMAIN OpcodeBits : OpcodeBits[a] = low
                        ELSE "UNKNOWN"
  BY DEF GetOpcode
<1> HIDE DEF low
<1>4. CASE \E a \in DOMAIN OpcodeBits : OpcodeBits[a] = low
  <2> DEFINE c == CHOOSE a \in DOMAIN OpcodeBits : OpcodeBits[a] = low
  <2>1. c \in DOMAIN OpcodeBits /\ OpcodeBits[c] = low
    BY <1>4
  <2>2. GetOpcode(word) = c
    BY <1>3, <1>4
  <2> HIDE DEF c
  <2>3. c = o <=> OpcodeBits[o] = low
    BY <1>1, <2>1
  <2> QED  BY <2>2, <2>3 DEF low
<1>5. CASE ~(\E a \in DOMAIN OpcodeBits : OpcodeBits[a] = low)
  <2>1. GetOpcode(word) = "UNKNOWN"
    BY <1>3, <1>5
  <2>2. OpcodeBits[o] # low
    BY <1>5
  <2>3. "UNKNOWN" # o
    BY <1>2
  <2> QED  BY <2>1, <2>2, <2>3 DEF low
<1> QED  BY <1>4, <1>5

LEMMA OpcodeEncodes ==
  ASSUME NEW word \in InstructionWord, NEW o \in DOMAIN OpcodeBits
  PROVE  GetOpcode(word) = o <=> \A k \in 0 .. 6 : BitOf(word, k) = BitOf(OpcodeBits[o], k)
<1>1. OpcodeBits[o] \in 0 .. 127
  BY SMT DEF OpcodeBits
<1>2. Bits(word, 0, 7) \in 0 .. 127
  <2>1. Bits(word, 0, 7) \in 0 .. 2 ^ 7 - 1
    BY 0 \in 0 .. 31, 7 \in 0 .. 31, FieldRange
  <2> QED  BY <2>1
<1>3. \A k \in 0 .. 6 : BitOf(Bits(word, 0, 7), k) = BitOf(word, k)
  <2> TAKE k \in 0 .. 6
  <2>1. BitOf(Bits(word, 0, 7), k) = BitOf(word, 0 + k)
    BY 0 \in 0 .. 31, 7 \in 0 .. 31, k \in 0 .. 7 - 1, 0 + 7 <= 32, FieldBits
  <2>2. 0 + k = k
    OBVIOUS
  <2> QED  BY <2>1, <2>2
<1>4. (\A k \in 0 .. 6 : BitOf(word, k) = BitOf(OpcodeBits[o], k))
        => OpcodeBits[o] = Bits(word, 0, 7)
  <2> SUFFICES ASSUME \A k \in 0 .. 6 : BitOf(word, k) = BitOf(OpcodeBits[o], k)
               PROVE  OpcodeBits[o] = Bits(word, 0, 7)
    OBVIOUS
  <2>1. \A k \in 0 .. 6 : BitOf(OpcodeBits[o], k) = BitOf(Bits(word, 0, 7), k)
    BY <1>3
  <2> QED  BY <1>1, <1>2, <2>1, SevenBits
<1>5. OpcodeBits[o] = Bits(word, 0, 7)
        => \A k \in 0 .. 6 : BitOf(word, k) = BitOf(OpcodeBits[o], k)
  BY <1>3
<1> QED  BY <1>4, <1>5, OpcodeIs

-----------------------------------------------------------------------------
(***************************************************************************)
(* The immediates                                                          *)
(***************************************************************************)
LEMMA ImmediateI ==
  ASSUME inst \in InstructionWord
  PROVE  LET imm == SignExtended(Bits(inst, 20, 12), 12) IN
         /\ InRange(imm, 12) /\ Encodes(imm, 0, 20, 12)
         /\ imm < 0 <=> inst < 0
<1> DEFINE v == Bits(inst, 20, 12)
<1>1. v \in 0 .. 2 ^ 12 - 1
  BY 20 \in 0 .. 31, 12 \in 0 .. 31, FieldRange
<1>2. Encodes(v, 0, 20, 12)
  BY 20 \in 0 .. 31, 12 \in 0 .. 31, 20 + 12 <= 32, FieldEncodes
<1>3. v >= 2 ^ (12 - 1) <=> inst < 0
  BY WordIs, SMT DEF Bits
<1> HIDE DEF v
<1>4. /\ InRange(SignExtended(v, 12), 12)
      /\ SignExtended(v, 12) < 0 <=> v >= 2 ^ (12 - 1)
  BY 12 \in 1 .. 30, <1>1, SignedIs
<1>5. Encodes(SignExtended(v, 12), 0, 20, 12)
  BY 12 \in 1 .. 30, 0 \in Nat, 20 \in Nat, 12 \in Nat, 0 + 12 <= 12, <1>1, <1>2, SignedPart
<1> QED  BY <1>3, <1>4, <1>5 DEF v

LEMMA ImmediateS ==
  ASSUME inst \in InstructionWord
  PROVE  LET imm == SignExtended(Bits(inst, 25, 7) * 2 ^ 5 + Bits(inst, 7, 5), 12) IN
         InRange(imm, 12) /\ Encodes(imm, 5, 25, 7) /\ Encodes(imm, 0, 7, 5)
<1> DEFINE b7 == Bits(inst, 25, 7)
           b5 == Bits(inst, 7, 5)
           v == Joined(b7, 5, b5)
<1>1. b7 \in 0 .. 2 ^ 7 - 1 /\ b5 \in 0 .. 2 ^ 5 - 1
  BY 25 \in 0 .. 31, 7 \in 0 .. 31, 5 \in 0 .. 31, FieldRange
<1>2. Encodes(b7, 0, 25, 7)
  BY 25 \in 0 .. 31, 7 \in 0 .. 31, 25 + 7 <= 32, FieldEncodes
<1>3. Encodes(b5, 0, 7, 5)
  BY 7 \in 0 .. 31, 5 \in 0 .. 31, 7 + 5 <= 32, FieldEncodes
<1> HIDE DEF b7, b5
<1>. b7 \in Int /\ b5 \in Int
  BY <1>1
<1>4. Encodes(v, 0, 7, 5)
  BY 5 \in 0 .. 30, 0 \in Nat, 7 \in Nat, 5 \in Nat, 0 + 5 <= 5, <1>1, <1>3,
     LowPart
<1>5. Encodes(v, 5, 25, 7)
  <2>1. Encodes(v, 0 + 5, 25, 7)
    BY 5 \in 0 .. 30, 0 \in Nat, 25 \in Nat, 7 \in Nat, 0 + 5 + 7 <= 31, <1>1,
       <1>2, HighPart
  <2> QED  BY <2>1
<1>6. v \in 0 .. 2 ^ 12 - 1
  BY <1>1 DEF Joined
<1> HIDE DEF v
<1>7. InRange(SignExtended(v, 12), 12)
  BY 12 \in 1 .. 30, <1>6, SignedIs
<1>8. Encodes(SignExtended(v, 12), 0, 7, 5)
  BY 12 \in 1 .. 30, 0 \in Nat, 7 \in Nat, 5 \in Nat, 0 + 5 <= 12, <1>4, <1>6, SignedPart
<1>9. Encodes(SignExtended(v, 12), 5, 25, 7)
  BY 12 \in 1 .. 30, 5 \in Nat, 25 \in Nat, 7 \in Nat, 5 + 7 <= 12, <1>5, <1>6, SignedPart
<1> QED  BY <1>7, <1>8, <1>9 DEF v, b7, b5, Joined

\* The number that a branch's bits make before its sign is extended
LEMMA BranchBits ==
  ASSUME inst \in InstructionWord
  PROVE  /\ BImmediate(inst) \in 0 .. 2 ^ 13 - 1 /\ BImmediate(inst) % 2 = 0
         /\ BImmediate(inst) >= 2 ^ (13 - 1) <=> inst < 0
         /\ Encodes(BImmediate(inst), 12, 31, 1) /\ Encodes(BImmediate(inst), 5, 25, 6)
         /\ Encodes(BImmediate(inst), 1, 8, 4) /\ Encodes(BImmediate(inst), 11, 7, 1)
<1> DEFINE s  == SignBit(inst)
           b1 == Bits(inst, 7, 1)
           b6 == Bits(inst, 25, 6)
           b4 == Bits(inst, 8, 4)
           low == Joined(b4, 1, 0)
           top == Joined(s, 1, b1)
           upper == Joined(top, 6, b6)
           v == Joined(upper, 5, low)
<1>1. /\ s \in 0 .. 2 ^ 1 - 1 /\ b1 \in 0 .. 2 ^ 1 - 1
      /\ b6 \in 0 .. 2 ^ 6 - 1 /\ b4 \in 0 .. 2 ^ 4 - 1
  <2>1. s \in 0 .. 2 ^ 1 - 1
    BY SignEncodes
  <2>2. b1 \in 0 .. 2 ^ 1 - 1
    BY 7 \in 0 .. 31, 1 \in 0 .. 31, FieldRange
  <2>3. b6 \in 0 .. 2 ^ 6 - 1
    BY 25 \in 0 .. 31, 6 \in 0 .. 31, FieldRange
  <2>4. b4 \in 0 .. 2 ^ 4 - 1
    BY 8 \in 0 .. 31, 4 \in 0 .. 31, FieldRange
  <2> QED  BY <2>1, <2>2, <2>3, <2>4
<1>2. Encodes(s, 0, 31, 1) /\ (s = 1 <=> inst < 0)
  BY SignEncodes
<1>3. Encodes(b1, 0, 7, 1)
  BY 7 \in 0 .. 31, 1 \in 0 .. 31, 7 + 1 <= 32, FieldEncodes
<1>4. Encodes(b6, 0, 25, 6)
  BY 25 \in 0 .. 31, 6 \in 0 .. 31, 25 + 6 <= 32, FieldEncodes
<1>5. Encodes(b4, 0, 8, 4)
  BY 8 \in 0 .. 31, 4 \in 0 .. 31, 8 + 4 <= 32, FieldEncodes
<1>6. BImmediate(inst) = s * 2 ^ 12 + b1 * 2 ^ 11 + b6 * 2 ^ 5 + b4 * 2
  BY DEF BImmediate
<1> HIDE DEF s, b1, b6, b4
<1>. s \in Int /\ b1 \in Int /\ b6 \in Int /\ b4 \in Int
  BY <1>1
<1>7. /\ low \in 0 .. 2 ^ 5 - 1 /\ top \in 0 .. 3 /\ upper \in 0 .. 255
      /\ v \in 0 .. 2 ^ 13 - 1 /\ v % 2 = 0 /\ (v >= 2 ^ (13 - 1) <=> s = 1)
      /\ BImmediate(inst) = v
  BY <1>1, <1>6 DEF Joined
<1>. low \in 0 .. 2 ^ 5 - 1 /\ top \in Int /\ upper \in Int
  BY <1>7
<1>8. Encodes(low, 1, 8, 4)
  <2>1. Encodes(Joined(b4, 1, 0), 0 + 1, 8, 4)
    BY 1 \in 0 .. 30, 0 \in 0 .. 2 ^ 1 - 1, 0 \in Nat, 8 \in Nat, 4 \in Nat,
       0 + 1 + 4 <= 31, <1>1, <1>5, HighPart
  <2> QED  BY <2>1
<1>9. Encodes(top, 0, 7, 1)
  BY 1 \in 0 .. 30, 0 \in Nat, 7 \in Nat, 1 \in Nat, 0 + 1 <= 1, <1>1, <1>3,
     LowPart
<1>10. Encodes(top, 1, 31, 1)
  <2>1. Encodes(Joined(s, 1, b1), 0 + 1, 31, 1)
    BY 1 \in 0 .. 30, 0 \in Nat, 31 \in Nat, 1 \in Nat, 0 + 1 + 1 <= 31, <1>1,
       <1>2, HighPart
  <2> QED  BY <2>1
<1> HIDE DEF low, top
<1>11. Encodes(upper, 0, 25, 6)
  BY 6 \in 0 .. 30, 0 \in Nat, 25 \in Nat, 6 \in Nat, 0 + 6 <= 6, <1>1, <1>4,
     LowPart
<1>12. Encodes(upper, 6, 7, 1)
  <2>1. Encodes(Joined(top, 6, b6), 0 + 6, 7, 1)
    BY 6 \in 0 .. 30, 0 \in Nat, 7 \in Nat, 1 \in Nat, 0 + 6 + 1 <= 31, <1>1,
       <1>9, HighPart
  <2> QED  BY <2>1
<1>13. Encodes(upper, 7, 31, 1)
  <2>1. Encodes(Joined(top, 6, b6), 1 + 6, 31, 1)
    BY 6 \in 0 .. 30, 1 \in Nat, 31 \in Nat, 1 + 6 + 1 <= 31, <1>1,
       <1>10, HighPart
  <2> QED  BY <2>1
<1> HIDE DEF upper
<1>14. Encodes(v, 1, 8, 4)
  BY 5 \in 0 .. 30, 1 \in Nat, 8 \in Nat, 4 \in Nat, 1 + 4 <= 5, <1>8,
     LowPart
<1>15. Encodes(v, 5, 25, 6)
  <2>1. Encodes(Joined(upper, 5, low), 0 + 5, 25, 6)
    BY 5 \in 0 .. 30, 0 \in Nat, 25 \in Nat, 6 \in Nat, 0 + 5 + 6 <= 31,
       <1>11, HighPart
  <2> QED  BY <2>1
<1>16. Encodes(v, 11, 7, 1)
  <2>1. Encodes(Joined(upper, 5, low), 6 + 5, 7, 1)
    BY 5 \in 0 .. 30, 6 \in Nat, 7 \in Nat, 1 \in Nat, 6 + 5 + 1 <= 31,
       <1>12, HighPart
  <2> QED  BY <2>1
<1>17. Encodes(v, 12, 31, 1)
  <2>1. Encodes(Joined(upper, 5, low), 7 + 5, 31, 1)
    BY 5 \in 0 .. 30, 7 \in Nat, 31 \in Nat, 1 \in Nat, 7 + 5 + 1 <= 31,
       <1>13, HighPart
  <2> QED  BY <2>1
<1> HIDE DEF v
<1> QED  BY <1>2, <1>7, <1>14, <1>15, <1>16, <1>17

LEMMA ImmediateB ==
  ASSUME inst \in InstructionWord
  PROVE  LET imm == SignExtended(BImmediate(inst), 13) IN
         /\ InRange(imm, 13) /\ BitOf(imm, 0) = 0
         /\ Encodes(imm, 12, 31, 1) /\ Encodes(imm, 5, 25, 6)
         /\ Encodes(imm, 1, 8, 4) /\ Encodes(imm, 11, 7, 1)
         /\ imm < 0 <=> inst < 0
<1> DEFINE v == BImmediate(inst)
<1>1. /\ v \in 0 .. 2 ^ 13 - 1 /\ v % 2 = 0
      /\ v >= 2 ^ (13 - 1) <=> inst < 0
      /\ Encodes(v, 12, 31, 1) /\ Encodes(v, 5, 25, 6)
      /\ Encodes(v, 1, 8, 4) /\ Encodes(v, 11, 7, 1)
  BY BranchBits
<1> HIDE DEF v
<1>2. /\ InRange(SignExtended(v, 13), 13) /\ BitOf(SignExtended(v, 13), 0) = BitOf(v, 0)
      /\ SignExtended(v, 13) < 0 <=> v >= 2 ^ (13 - 1)
  <2>1. 13 \in 1 .. 30 /\ 0 \in 0 .. 13 - 1
    OBVIOUS
  <2> QED  BY <1>1, <2>1, SignedIs
<1>3. BitOf(v, 0) = 0
  <2>1. BitOf(v, 0) = (v \div 2 ^ 0) % 2
    BY <1>1, v \in Int, 0 \in 0 .. 30, BitIs
  <2>2. v \div 2 ^ 0 = v
    BY <1>1
  <2> QED  BY <1>1, <2>1, <2>2
<1>4. Encodes(SignExtended(v, 13), 12, 31, 1)
  BY 13 \in 1 .. 30, 12 \in Nat, 31 \in Nat, 1 \in Nat, 12 + 1 <= 13, <1>1, SignedPart
<1>5. Encodes(SignExtended(v, 13), 5, 25, 6)
  BY 13 \in 1 .. 30, 5 \in Nat, 25 \in Nat, 6 \in Nat, 5 + 6 <= 13, <1>1, SignedPart
<1>6. Encodes(SignExtended(v, 13), 1, 8, 4)
  BY 13 \in 1 .. 30, 1 \in Nat, 8 \in Nat, 4 \in Nat, 1 + 4 <= 13, <1>1, SignedPart
<1>7. Encodes(SignExtended(v, 13), 11, 7, 1)
  BY 13 \in 1 .. 30, 11 \in Nat, 7 \in Nat, 1 \in Nat, 11 + 1 <= 13, <1>1, SignedPart
<1> QED  BY <1>1, <1>2, <1>3, <1>4, <1>5, <1>6, <1>7 DEF v

\* The number that a jump's bits make before its sign is extended
LEMMA JumpBits ==
  ASSUME inst \in InstructionWord
  PROVE  /\ JImmediate(inst) \in 0 .. 2 ^ 21 - 1 /\ JImmediate(inst) % 2 = 0
         /\ JImmediate(inst) >= 2 ^ (21 - 1) <=> inst < 0
         /\ Encodes(JImmediate(inst), 20, 31, 1) /\ Encodes(JImmediate(inst), 1, 21, 10)
         /\ Encodes(JImmediate(inst), 11, 20, 1) /\ Encodes(JImmediate(inst), 12, 12, 8)
<1> DEFINE s   == SignBit(inst)
           b8  == Bits(inst, 12, 8)
           b1  == Bits(inst, 20, 1)
           b10 == Bits(inst, 21, 10)
           low == Joined(b10, 1, 0)
           top == Joined(s, 8, b8)
           upper == Joined(top, 1, b1)
           v == Joined(upper, 11, low)
<1>1. /\ s \in 0 .. 2 ^ 1 - 1 /\ b8 \in 0 .. 2 ^ 8 - 1
      /\ b1 \in 0 .. 2 ^ 1 - 1 /\ b10 \in 0 .. 2 ^ 10 - 1
  <2>1. s \in 0 .. 2 ^ 1 - 1
    BY SignEncodes
  <2>2. b8 \in 0 .. 2 ^ 8 - 1
    BY 12 \in 0 .. 31, 8 \in 0 .. 31, FieldRange
  <2>3. b1 \in 0 .. 2 ^ 1 - 1
    BY 20 \in 0 .. 31, 1 \in 0 .. 31, FieldRange
  <2>4. b10 \in 0 .. 2 ^ 10 - 1
    BY 21 \in 0 .. 31, 10 \in 0 .. 31, FieldRange
  <2> QED  BY <2>1, <2>2, <2>3, <2>4
<1>2. Encodes(s, 0, 31, 1) /\ (s = 1 <=> inst < 0)
  BY SignEncodes
<1>3. Encodes(b8, 0, 12, 8)
  BY 12 \in 0 .. 31, 8 \in 0 .. 31, 12 + 8 <= 32, FieldEncodes
<1>4. Encodes(b1, 0, 20, 1)
  BY 20 \in 0 .. 31, 1 \in 0 .. 31, 20 + 1 <= 32, FieldEncodes
<1>5. Encodes(b10, 0, 21, 10)
  BY 21 \in 0 .. 31, 10 \in 0 .. 31, 21 + 10 <= 32, FieldEncodes
<1>6. JImmediate(inst) = s * 2 ^ 20 + b8 * 2 ^ 12 + b1 * 2 ^ 11 + b10 * 2
  BY DEF JImmediate
<1> HIDE DEF s, b8, b1, b10
<1>. s \in Int /\ b8 \in Int /\ b1 \in Int /\ b10 \in Int
  BY <1>1
<1>7. /\ low \in 0 .. 2 ^ 11 - 1 /\ top \in 0 .. 511 /\ upper \in 0 .. 1023
      /\ v \in 0 .. 2 ^ 21 - 1 /\ v % 2 = 0 /\ (v >= 2 ^ (21 - 1) <=> s = 1)
      /\ JImmediate(inst) = v
  BY <1>1, <1>6 DEF Joined
<1>. low \in 0 .. 2 ^ 11 - 1 /\ top \in Int /\ upper \in Int
  BY <1>7
<1>8. Encodes(low, 1, 21, 10)
  <2>1. Encodes(Joined(b10, 1, 0), 0 + 1, 21, 10)
    BY 1 \in 0 .. 30, 0 \in 0 .. 2 ^ 1 - 1, 0 \in Nat, 21 \in Nat, 10 \in Nat,
       0 + 1 + 10 <= 31, <1>1, <1>5, HighPart
  <2> QED  BY <2>1
<1>9. Encodes(top, 0, 12, 8)
  BY 8 \in 0 .. 30, 0 \in Nat, 12 \in Nat, 8 \in Nat, 0 + 8 <= 8, <1>1, <1>3, LowPart
<1>10. Encodes(top, 8, 31, 1)
  <2>1. Encodes(Joined(s, 8, b8), 0 + 8, 31, 1)
    BY 8 \in 0 .. 30, 0 \in Nat, 31 \in Nat, 1 \in Nat, 0 + 8 + 1 <= 31, <1>1, <1>2,
       HighPart
  <2> QED  BY <2>1
<1> HIDE DEF low, top
<1>11. Encodes(upper, 0, 20, 1)
  BY 1 \in 0 .. 30, 0 \in Nat, 20 \in Nat, 1 \in Nat, 0 + 1 <= 1, <1>1, <1>4, LowPart
<1>12. Encodes(upper, 1, 12, 8)
  <2>1. Encodes(Joined(top, 1, b1), 0 + 1, 12, 8)
    BY 1 \in 0 .. 30, 0 \in Nat, 12 \in Nat, 8 \in Nat, 0 + 1 + 8 <= 31, <1>1, <1>9,
       HighPart
  <2> QED  BY <2>1
<1>13. Encodes(upper, 9, 31, 1)
  <2>1. Encodes(Joined(top, 1, b1), 8 + 1, 31, 1)
    BY 1 \in 0 .. 30, 8 \in Nat, 31 \in Nat, 1 \in Nat, 8 + 1 + 1 <= 31, <1>1, <1>10,
       HighPart
  <2> QED  BY <2>1
<1> HIDE DEF upper
<1>14. Encodes(v, 1, 21, 10)
  BY 11 \in 0 .. 30, 1 \in Nat, 21 \in Nat, 10 \in Nat, 1 + 10 <= 11, <1>8, LowPart
<1>15. Encodes(v, 11, 20, 1)
  <2>1. Encodes(Joined(upper, 11, low), 0 + 11, 20, 1)
    BY 11 \in 0 .. 30, 0 \in Nat, 20 \in Nat, 1 \in Nat, 0 + 11 + 1 <= 31, <1>11,
       HighPart
  <2> QED  BY <2>1
<1>16. Encodes(v, 12, 12, 8)
  <2>1. Encodes(Joined(upper, 11, low), 1 + 11, 12, 8)
    BY 11 \in 0 .. 30, 1 \in Nat, 12 \in Nat, 8 \in Nat, 1 + 11 + 8 <= 31, <1>12,
       HighPart
  <2> QED  BY <2>1
<1>17. Encodes(v, 20, 31, 1)
  <2>1. Encodes(Joined(upper, 11, low), 9 + 11, 31, 1)
    BY 11 \in 0 .. 30, 9 \in Nat, 31 \in Nat, 1 \in Nat, 9 + 11 + 1 <= 31, <1>13,
       HighPart
  <2> QED  BY <2>1
<1> HIDE DEF v
<1> QED  BY <1>2, <1>7, <1>14, <1>15, <1>16, <1>17

LEMMA ImmediateJ ==
  ASSUME inst \in InstructionWord
  PROVE  LET imm == SignExtended(JImmediate(inst), 21) IN
         /\ InRange(imm, 21) /\ BitOf(imm, 0) = 0
         /\ Encodes(imm, 20, 31, 1) /\ Encodes(imm, 1, 21, 10)
         /\ Encodes(imm, 11, 20, 1) /\ Encodes(imm, 12, 12, 8)
         /\ imm < 0 <=> inst < 0
<1> DEFINE v == JImmediate(inst)
<1>1. /\ v \in 0 .. 2 ^ 21 - 1 /\ v % 2 = 0
      /\ v >= 2 ^ (21 - 1) <=> inst < 0
      /\ Encodes(v, 20, 31, 1) /\ Encodes(v, 1, 21, 10)
      /\ Encodes(v, 11, 20, 1) /\ Encodes(v, 12, 12, 8)
  BY JumpBits
<1> HIDE DEF v
<1>2. /\ InRange(SignExtended(v, 21), 21) /\ BitOf(SignExtended(v, 21), 0) = BitOf(v, 0)
      /\ SignExtended(v, 21) < 0 <=> v >= 2 ^ (21 - 1)
  <2>1. 21 \in 1 .. 30 /\ 0 \in 0 .. 21 - 1
    OBVIOUS
  <2> QED  BY <1>1, <2>1, SignedIs
<1>3. BitOf(v, 0) = 0
  <2>1. v \in Int /\ v \div 2 ^ 0 = v
    BY <1>1
  <2>2. BitOf(v, 0) = (v \div 2 ^ 0) % 2
    BY <2>1, 0 \in 0 .. 30, BitIs
  <2> QED  BY <1>1, <2>1, <2>2
<1>4. Encodes(SignExtended(v, 21), 20, 31, 1)
  BY 21 \in 1 .. 30, 20 \in Nat, 31 \in Nat, 1 \in Nat, 20 + 1 <= 21, <1>1, SignedPart
<1>5. Encodes(SignExtended(v, 21), 1, 21, 10)
  BY 21 \in 1 .. 30, 1 \in Nat, 21 \in Nat, 10 \in Nat, 1 + 10 <= 21, <1>1, SignedPart
<1>6. Encodes(SignExtended(v, 21), 11, 20, 1)
  BY 21 \in 1 .. 30, 11 \in Nat, 20 \in Nat, 1 \in Nat, 11 + 1 <= 21, <1>1, SignedPart
<1>7. Encodes(SignExtended(v, 21), 12, 12, 8)
  BY 21 \in 1 .. 30, 12 \in Nat, 8 \in Nat, 12 + 8 <= 21, <1>1, SignedPart
<1> QED  BY <1>1, <1>2, <1>3, <1>4, <1>5, <1>6, <1>7 DEF v

LEMMA ImmediateU ==
  ASSUME inst \in InstructionWord
  PROVE  LET imm == inst - (inst % 2 ^ 12) IN
         /\ imm % 2 ^ 12 = 0 /\ InRange(imm \div 2 ^ 12, 20)
         /\ Encodes(imm \div 2 ^ 12, 0, 12, 20)
<1> DEFINE imm == inst - (inst % 2 ^ 12)
<1>1. /\ inst \in Int /\ imm % 2 ^ 12 = 0 /\ imm \div 2 ^ 12 = inst \div 2 ^ 12
      /\ -(2 ^ 19) <= inst \div 2 ^ 12 /\ inst \div 2 ^ 12 < 2 ^ 19
  BY WordIs, SMT
<1>2. InRange(inst \div 2 ^ 12, 20)
  <2>1. 20 - 1 = 19
    OBVIOUS
  <2> QED  BY <1>1, <2>1 DEF InRange
<1>3. Encodes(inst \div 2 ^ 12, 0, 12, 20)
  <2> SUFFICES ASSUME NEW k \in 0 .. 19
               PROVE  BitOf(inst, 12 + k) = BitOf(inst \div 2 ^ 12, 0 + k)
    BY 20 - 1 = 19 DEF Encodes
  <2>1. 0 + k = k /\ k \in 0 .. 30 /\ 12 + k \in 0 .. 31 /\ k + 12 = 12 + k
    OBVIOUS
  <2>2. BitOf(inst \div 2 ^ 12, k) = ((inst \div 2 ^ 12) \div 2 ^ k) % 2
    BY <1>1, <2>1, inst \div 2 ^ 12 \in Int, BitIs
  <2>3. BitOf(inst, 12 + k) = (inst \div 2 ^ (12 + k)) % 2
    BY <2>1, WordBitIs
  <2>4. inst \div 2 ^ (12 + k) = (inst \div 2 ^ 12) \div 2 ^ k
    <3>1. PowersOfTwo(31) /\ 31 \in Nat
      BY Powers
    <3>2. inst \in Int
      BY <1>1
    <3>3. ASSUME NEW j \in Nat, j + k <= 31
          PROVE  inst \div 2 ^ (j + k) = (inst \div 2 ^ j) \div 2 ^ k
      BY <3>1, <3>2, <3>3, k \in Nat, NestedShift
    <3> QED  BY <3>3, 12 \in Nat, 12 + k <= 31
  <2> QED  BY <2>1, <2>2, <2>3, <2>4
<1> QED  BY <1>1, <1>2, <1>3

-----------------------------------------------------------------------------
(***************************************************************************)
(* The decoded packet                                                      *)
(***************************************************************************)
Decoded == inst \in InstructionWord /\ packet = DecodedFields(inst)

LEMMA DecodedInvariant == Spec => []Decoded
<1>1. Init => Decoded
  BY DecodeAssumption DEF Init, Decoded
<1>2. Decoded /\ [Next]_vars => Decoded'
  BY DecodeAssumption DEF Decoded, Next, vars
<1> QED  BY <1>1, <1>2, PTL DEF Spec

LEMMA PacketIs ==
  ASSUME Decoded
  PROVE  /\ packet.opcode = GetOpcode(inst) /\ packet.imm = GetImmediate(inst)
         /\ packet.rd = Bits(inst, 7, 5) /\ packet.rs1 = Bits(inst, 15, 5)
         /\ packet.rs2 = Bits(inst, 20, 5)
         /\ packet.funct3 = Bits(inst, 12, 3) /\ packet.funct7 = Bits(inst, 25, 7)
BY DEF Decoded, DecodedFields

LEMMA ImmediateIs ==
  ASSUME NEW word
  PROVE  /\ GetOpcode(word) \in {"OP_IMM", "LOAD", "JALR"}
              => GetImmediate(word) = SignExtended(Bits(word, 20, 12), 12)
         /\ GetOpcode(word) = "STORE"
              => GetImmediate(word)
                   = SignExtended(Bits(word, 25, 7) * 2 ^ 5 + Bits(word, 7, 5), 12)
         /\ GetOpcode(word) = "BRANCH"
              => GetImmediate(word) = SignExtended(BImmediate(word), 13)
         /\ GetOpcode(word) \in {"LUI", "AUIPC"}
              => GetImmediate(word) = word - (word % 2 ^ 12)
         /\ GetOpcode(word) = "JAL"
              => GetImmediate(word) = SignExtended(JImmediate(word), 21)
<1> DEFINE opcode == GetOpcode(word)
           immI == SignExtended(Bits(word, 20, 12), 12)
           immS == SignExtended(Bits(word, 25, 7) * 2 ^ 5 + Bits(word, 7, 5), 12)
           immB == SignExtended(BImmediate(word), 13)
           immU == word - (word % 2 ^ 12)
           immJ == SignExtended(JImmediate(word), 21)
<1>1. GetImmediate(word) =
        CASE opcode \in {"OP_IMM", "LOAD", "JALR"} -> immI
          [] opcode = "STORE" -> immS
          [] opcode = "BRANCH" -> immB
          [] opcode \in {"LUI", "AUIPC"} -> immU
          [] opcode = "JAL" -> immJ
          [] OTHER -> 0
  BY DEF GetImmediate
<1> HIDE DEF opcode, immI, immS, immB, immU, immJ
<1>2. /\ opcode \in {"OP_IMM", "LOAD", "JALR"} => GetImmediate(word) = immI
      /\ opcode = "STORE" => GetImmediate(word) = immS
      /\ opcode = "BRANCH" => GetImmediate(word) = immB
      /\ opcode \in {"LUI", "AUIPC"} => GetImmediate(word) = immU
      /\ opcode = "JAL" => GetImmediate(word) = immJ
  BY <1>1
<1> QED  BY <1>2 DEF opcode, immI, immS, immB, immU, immJ

LEMMA FormatsDecoded ==
  ASSUME Decoded
  PROVE  DecodesTheFormats
<1> DEFINE imm == packet.imm
           Is(opcodes) == packet.opcode \in opcodes
<1>1. inst \in InstructionWord
  BY DEF Decoded
<1>2. \A o \in DOMAIN OpcodeBits :
        Is({o}) <=> \A k \in 0 .. 6 : BitOf(inst, k) = BitOf(OpcodeBits[o], k)
  <2> TAKE o \in DOMAIN OpcodeBits
  <2>1. Is({o}) <=> GetOpcode(inst) = o
    BY PacketIs
  <2>2. GetOpcode(inst) = o <=> \A k \in 0 .. 6 : BitOf(inst, k) = BitOf(OpcodeBits[o], k)
    BY <1>1, OpcodeEncodes
  <2> QED  BY <2>1, <2>2
<1>3. /\ Encodes(packet.rd, 0, 7, 5) /\ Encodes(packet.rs1, 0, 15, 5)
      /\ Encodes(packet.rs2, 0, 20, 5)
      /\ Encodes(packet.funct3, 0, 12, 3) /\ Encodes(packet.funct7, 0, 25, 7)
  <2>1. Encodes(Bits(inst, 7, 5), 0, 7, 5)
    BY <1>1, 7 \in 0 .. 31, 5 \in 0 .. 31, 7 + 5 <= 32, FieldEncodes
  <2>2. Encodes(Bits(inst, 15, 5), 0, 15, 5)
    BY <1>1, 15 \in 0 .. 31, 5 \in 0 .. 31, 15 + 5 <= 32, FieldEncodes
  <2>3. Encodes(Bits(inst, 20, 5), 0, 20, 5)
    BY <1>1, 20 \in 0 .. 31, 5 \in 0 .. 31, 20 + 5 <= 32, FieldEncodes
  <2>4. Encodes(Bits(inst, 12, 3), 0, 12, 3)
    BY <1>1, 12 \in 0 .. 31, 3 \in 0 .. 31, 12 + 3 <= 32, FieldEncodes
  <2>5. Encodes(Bits(inst, 25, 7), 0, 25, 7)
    BY <1>1, 25 \in 0 .. 31, 7 \in 0 .. 31, 25 + 7 <= 32, FieldEncodes
  <2> QED  BY <2>1, <2>2, <2>3, <2>4, <2>5, PacketIs
<1>4. Is({"OP_IMM", "LOAD", "JALR"}) => InRange(imm, 12) /\ Encodes(imm, 0, 20, 12)
  BY <1>1, PacketIs, ImmediateIs, ImmediateI
<1>5. Is({"STORE"}) =>
        InRange(imm, 12) /\ Encodes(imm, 5, 25, 7) /\ Encodes(imm, 0, 7, 5)
  BY <1>1, PacketIs, ImmediateIs, ImmediateS
<1>6. Is({"BRANCH"}) =>
        /\ InRange(imm, 13) /\ BitOf(imm, 0) = 0
        /\ Encodes(imm, 12, 31, 1) /\ Encodes(imm, 5, 25, 6)
        /\ Encodes(imm, 1, 8, 4) /\ Encodes(imm, 11, 7, 1)
  BY <1>1, PacketIs, ImmediateIs, ImmediateB
<1>7. Is({"LUI", "AUIPC"}) =>
        /\ imm % 2 ^ 12 = 0 /\ InRange(imm \div 2 ^ 12, 20)
        /\ Encodes(imm \div 2 ^ 12, 0, 12, 20)
  BY <1>1, PacketIs, ImmediateIs, ImmediateU
<1>8. Is({"JAL"}) =>
        /\ InRange(imm, 21) /\ BitOf(imm, 0) = 0
        /\ Encodes(imm, 20, 31, 1) /\ Encodes(imm, 1, 21, 10)
        /\ Encodes(imm, 11, 20, 1) /\ Encodes(imm, 12, 12, 8)
  BY <1>1, PacketIs, ImmediateIs, ImmediateJ
<1> QED  BY <1>2, <1>3, <1>4, <1>5, <1>6, <1>7, <1>8 DEF DecodesTheFormats

\* The decoder inverts the formats: of every word, whatever its bits.
THEOREM DecoderCorrect == Spec => []DecodesTheFormats
BY DecodedInvariant, FormatsDecoded, PTL

-----------------------------------------------------------------------------
(***************************************************************************)
(* What fetch extracts for itself                                          *)
(***************************************************************************)
\* With the sign in front instead of an extension
LEMMA OffsetBranch ==
  ASSUME inst \in InstructionWord
  PROVE  -SignBit(inst) * 2 ^ 12 + Bits(inst, 7, 1) * 2 ^ 11 + Bits(inst, 25, 6) * 2 ^ 5
           + Bits(inst, 8, 4) * 2 = SignExtended(BImmediate(inst), 13)
<1> DEFINE s  == SignBit(inst)
           b1 == Bits(inst, 7, 1)
           b6 == Bits(inst, 25, 6)
           b4 == Bits(inst, 8, 4)
           v  == BImmediate(inst)
<1>1. v \in 0 .. 2 ^ 13 - 1 /\ (v >= 2 ^ (13 - 1) <=> s = 1) /\ s \in 0 .. 1
  BY BranchBits, SignEncodes
<1>2. v = s * 2 ^ 12 + b1 * 2 ^ 11 + b6 * 2 ^ 5 + b4 * 2
  BY DEF BImmediate
<1>3. b1 \in Int /\ b6 \in Int /\ b4 \in Int
  <2>1. b1 \in 0 .. 2 ^ 1 - 1
    BY 7 \in 0 .. 31, 1 \in 0 .. 31, FieldRange
  <2>2. b6 \in 0 .. 2 ^ 6 - 1
    BY 25 \in 0 .. 31, 6 \in 0 .. 31, FieldRange
  <2>3. b4 \in 0 .. 2 ^ 4 - 1
    BY 8 \in 0 .. 31, 4 \in 0 .. 31, FieldRange
  <2> QED  BY <2>1, <2>2, <2>3
<1> HIDE DEF s, b1, b6, b4, v
<1>4. SignExtended(v, 13) = -s * 2 ^ 12 + b1 * 2 ^ 11 + b6 * 2 ^ 5 + b4 * 2
  BY <1>1, <1>2, <1>3 DEF SignExtended
<1> QED  BY <1>4 DEF s, b1, b6, b4, v

LEMMA OffsetJump ==
  ASSUME inst \in InstructionWord
  PROVE  -SignBit(inst) * 2 ^ 20 + Bits(inst, 12, 8) * 2 ^ 12 + Bits(inst, 20, 1) * 2 ^ 11
           + Bits(inst, 21, 10) * 2 = SignExtended(JImmediate(inst), 21)
<1> DEFINE s   == SignBit(inst)
           b8  == Bits(inst, 12, 8)
           b1  == Bits(inst, 20, 1)
           b10 == Bits(inst, 21, 10)
           v   == JImmediate(inst)
<1>1. v \in 0 .. 2 ^ 21 - 1 /\ (v >= 2 ^ (21 - 1) <=> s = 1) /\ s \in 0 .. 1
  BY JumpBits, SignEncodes
<1>2. v = s * 2 ^ 20 + b8 * 2 ^ 12 + b1 * 2 ^ 11 + b10 * 2
  BY DEF JImmediate
<1>3. b8 \in Int /\ b1 \in Int /\ b10 \in Int
  <2>1. b8 \in 0 .. 2 ^ 8 - 1
    BY 12 \in 0 .. 31, 8 \in 0 .. 31, FieldRange
  <2>2. b1 \in 0 .. 2 ^ 1 - 1
    BY 20 \in 0 .. 31, 1 \in 0 .. 31, FieldRange
  <2>3. b10 \in 0 .. 2 ^ 10 - 1
    BY 21 \in 0 .. 31, 10 \in 0 .. 31, FieldRange
  <2> QED  BY <2>1, <2>2, <2>3
<1> HIDE DEF s, b8, b1, b10, v
<1>4. SignExtended(v, 21) = -s * 2 ^ 20 + b8 * 2 ^ 12 + b1 * 2 ^ 11 + b10 * 2
  BY <1>1, <1>2, <1>3 DEF SignExtended
<1> QED  BY <1>4 DEF s, b8, b1, b10, v

LEMMA OffsetDecoded ==
  ASSUME Decoded
  PROVE  FetchAgreesWithDecode
<1>1. inst \in InstructionWord
  BY DEF Decoded
<1>2. GetOpcode(inst) = "JAL" => FetchOffset(inst) = GetImmediate(inst)
  BY <1>1, ImmediateIs, OffsetJump DEF FetchOffset
<1>3. GetOpcode(inst) = "BRANCH" => FetchOffset(inst) = GetImmediate(inst)
  BY <1>1, ImmediateIs, OffsetBranch DEF FetchOffset
<1> QED  BY <1>2, <1>3, PacketIs DEF FetchAgreesWithDecode

\* Fetch adds the offset that execution will add, for every word.
THEOREM FetchOffsetCorrect == Spec => []FetchAgreesWithDecode
BY DecodedInvariant, OffsetDecoded, PTL

\* The static predictor's number has the sign of the word, read as a branch or not.
LEMMA StaticIs ==
  ASSUME inst \in InstructionWord
  PROVE  StaticPredict(inst) <=> inst < 0
<1>1. StaticPredict(inst) <=> SignExtended(BImmediate(inst), 13) < 0
  BY OffsetBranch DEF StaticPredict
<1> QED  BY <1>1, ImmediateB

LEMMA DirectionDecoded ==
  ASSUME Decoded
  PROVE  StaticPredictsBackward
<1>1. inst \in InstructionWord
  BY DEF Decoded
<1>2. GetOpcode(inst) = "JAL" => (GetImmediate(inst) < 0 <=> inst < 0)
  BY <1>1, ImmediateIs, ImmediateJ
<1>3. GetOpcode(inst) = "JALR" => (GetImmediate(inst) < 0 <=> inst < 0)
  BY <1>1, ImmediateIs, ImmediateI
<1>4. GetOpcode(inst) = "BRANCH" => (GetImmediate(inst) < 0 <=> inst < 0)
  BY <1>1, ImmediateIs, ImmediateB
<1> QED  BY <1>1, <1>2, <1>3, <1>4, PacketIs, StaticIs DEF StaticPredictsBackward

\* Backward taken, forward not taken, for every word and all three formats.
THEOREM StaticPredictionCorrect == Spec => []StaticPredictsBackward
BY DecodedInvariant, DirectionDecoded, PTL

-----------------------------------------------------------------------------
(***************************************************************************)
(* The bits of registers of XLEN bits                                      *)
(***************************************************************************)
HALF == 2 ^ (XLEN - 1)

LEMMA RegisterSize ==
  ASSUME PowersOfTwo(XLEN)
  PROVE  /\ XLEN \in Nat \ {0} /\ WORD = 2 ^ XLEN /\ WORD \in Nat \ {0}
         /\ HALF \in Nat \ {0} /\ WORD = 2 * HALF
         /\ \A i \in 0 .. XLEN : 2 ^ i \in Nat \ {0}
<1>1. XLEN \in Nat \ {0} /\ WORD = 2 ^ XLEN /\ WORD \in Nat \ {0}
  BY AluAssumption, TypesAssumption
<1>2. \A i \in 0 .. XLEN : 2 ^ i \in Nat \ {0}
  BY DEF PowersOfTwo
<1>3. XLEN - 1 \in 0 .. XLEN - 1 /\ XLEN - 1 \in 0 .. XLEN /\ (XLEN - 1) + 1 = XLEN
  BY <1>1
<1>4. 2 ^ ((XLEN - 1) + 1) = 2 * 2 ^ (XLEN - 1)
  BY <1>3 DEF PowersOfTwo
<1> QED  BY <1>1, <1>2, <1>3, <1>4 DEF HALF

\* Results wrap around by at most one register size.
LEMMA WrapIs ==
  ASSUME NEW v \in Int
  PROVE  /\ v % WORD \in Word
         /\ v \in 0 .. WORD - 1 => v % WORD = v
         /\ v - WORD \in 0 .. WORD - 1 => v % WORD = v - WORD
         /\ v + WORD \in 0 .. WORD - 1 => v % WORD = v + WORD
<1>1. WORD \in Nat \ {0}
  BY TypesAssumption
<1>2. ASSUME NEW q \in Int, NEW r \in 0 .. WORD - 1, v = r + WORD * q PROVE v % WORD = r
  BY <1>1, <1>2, DivisionIs
<1>3. v = v + WORD * 0 /\ v = (v - WORD) + WORD * 1 /\ v = (v + WORD) + WORD * (-1)
  BY <1>1
<1>4. v % WORD \in Word
  BY <1>1 DEF Word
<1>5. v \in 0 .. WORD - 1 => v % WORD = v
  BY <1>2, <1>3, 0 \in Int
<1>6. v - WORD \in 0 .. WORD - 1 => v % WORD = v - WORD
  BY <1>2, <1>3, 1 \in Int
<1>7. v + WORD \in 0 .. WORD - 1 => v % WORD = v + WORD
  BY <1>2, <1>3, -1 \in Int
<1> QED  BY <1>4, <1>5, <1>6, <1>7

LEMMA BitIsOneOrZero ==
  ASSUME PowersOfTwo(XLEN), NEW v \in Int, NEW i \in BitIndex
  PROVE  BitAt(v, i) \in 0 .. 1 /\ i \in 0 .. XLEN /\ 2 ^ i \in Nat \ {0}
<1>1. i \in 0 .. XLEN /\ 2 ^ i \in Nat \ {0}
  BY RegisterSize DEF BitIndex
<1> DEFINE p == 2 ^ i
<1> HIDE DEF p
<1>2. p \in Nat \ {0}
  BY <1>1 DEF p
<1>3. v \div p \in Int
  BY <1>2
<1>4. (v \div p) % 2 \in 0 .. 1
  BY <1>3
<1> QED  BY <1>1, <1>4 DEF BitAt, p

\* The highest bit is the sign.
LEMMA SignIs ==
  ASSUME PowersOfTwo(XLEN), NEW v \in Word
  PROVE  /\ TopBit(v) \in 0 .. 1 /\ (TopBit(v) = 1 <=> v >= HALF)
         /\ v >= HALF => SignedValue(v) = v - WORD
         /\ v < HALF => SignedValue(v) = v
<1>1. HALF \in Nat \ {0} /\ WORD = 2 * HALF /\ v \in 0 .. WORD - 1
  BY RegisterSize DEF Word
<1>2. TopBit(v) = (v \div HALF) % 2
  BY DEF TopBit, BitAt, HALF
<1>3. v >= HALF => v \div HALF = 1
  <2>1. v >= HALF => v - HALF \in 0 .. HALF - 1
    BY <1>1
  <2>2. v = (v - HALF) + HALF * 1
    BY <1>1
  <2> QED  BY <1>1, <2>1, <2>2, DivisionIs
<1>4. v < HALF => v \div HALF = 0
  <2>1. v < HALF => v \in 0 .. HALF - 1
    BY <1>1
  <2>2. v = v + HALF * 0
    BY <1>1
  <2> QED  BY <1>1, <2>1, <2>2, DivisionIs
<1>5. v >= HALF \/ v < HALF
  BY <1>1
<1>6. 1 % 2 = 1 /\ 0 % 2 = 0
  OBVIOUS
<1>7. TopBit(v) \in 0 .. 1 /\ (TopBit(v) = 1 <=> v >= HALF)
  BY <1>1, <1>2, <1>3, <1>4, <1>5, <1>6
<1>8. /\ v >= HALF => SignedValue(v) = v - WORD
      /\ v < HALF => SignedValue(v) = v
  BY <1>1 DEF SignedValue
<1> QED  BY <1>7, <1>8

\* A result keeps the bits of the number it is the remainder of.
LEMMA RemainderBits ==
  ASSUME PowersOfTwo(XLEN), NEW v \in Int, NEW i \in BitIndex
  PROVE  BitAt(v % WORD, i) = BitAt(v, i)
<1> DEFINE p == 2 ^ i
           m == 2 ^ (XLEN - i - 1)
<1>1. XLEN \in Nat /\ i \in Nat /\ i < XLEN /\ XLEN <= XLEN /\ WORD = 2 ^ XLEN
  BY RegisterSize DEF BitIndex
<1>2. WORD = p * (2 * m) /\ m \in Nat \ {0}
  BY <1>1, PowerAbove
<1>3. p \in Nat \ {0}
  BY BitIsOneOrZero
<1> HIDE DEF p, m
<1>4. ((v % (p * (2 * m))) \div p) % 2 = (v \div p) % 2
  BY <1>2, <1>3, MaskKeepsBits
<1> QED  BY <1>2, <1>4 DEF BitAt, p

-----------------------------------------------------------------------------
(***************************************************************************)
(* Shifts                                                                  *)
(***************************************************************************)
LEMMA ShiftedLeftBits ==
  ASSUME PowersOfTwo(XLEN), NEW a \in Word, NEW n \in BitIndex, NEW i \in BitIndex
  PROVE  BitAt(ShiftLeft(a, n), i) = IF i >= n THEN BitAt(a, i - n) ELSE 0
<1>1. XLEN \in Nat /\ n \in 0 .. XLEN /\ i \in 0 .. XLEN /\ a \in Int
  BY RegisterSize DEF BitIndex, Word
<1>2. 2 ^ n \in Nat \ {0} /\ 2 ^ i \in Nat \ {0} /\ 0 \in 0 .. 2 ^ n - 1
  BY BitIsOneOrZero, 0 \in Int
<1>3. /\ i < n => ((a * 2 ^ n + 0) \div 2 ^ i) % 2 = (0 \div 2 ^ i) % 2
      /\ i >= n => ((a * 2 ^ n + 0) \div 2 ^ i) % 2 = (a \div 2 ^ (i - n)) % 2
  BY <1>1, <1>2, BitsOfBoth
<1> DEFINE p == 2 ^ n
           q == 2 ^ i
<1> HIDE DEF p, q
<1>4. p \in Nat \ {0} /\ q \in Nat \ {0}
  BY <1>2 DEF p, q
<1>5. (0 \div q) % 2 = 0 /\ a * p \in Int /\ a * p + 0 = a * p
  <2>1. 0 \div q = 0
    BY <1>4
  <2>2. a * p \in Int
    BY <1>1, <1>4
  <2> QED  BY <2>1, <2>2
<1>6. BitAt(ShiftLeft(a, n), i) = BitAt(a * 2 ^ n, i)
  BY <1>5, RemainderBits DEF ShiftLeft, p
<1>7. i < n => BitAt(a * 2 ^ n, i) = 0
  BY <1>3, <1>5 DEF BitAt, p, q
<1>8. i >= n => BitAt(a * 2 ^ n, i) = BitAt(a, i - n)
  BY <1>3, <1>5 DEF BitAt, p
<1> QED  BY <1>1, <1>6, <1>7, <1>8

\* A number of a register, or its complement, shifted right: what is shifted
\* in is 0, or 1.
LEMMA ShiftedBits ==
  ASSUME PowersOfTwo(XLEN), NEW v \in Int, NEW n \in BitIndex, NEW i \in BitIndex
  PROVE  /\ i + n < XLEN => BitAt(v \div 2 ^ n, i) = BitAt(v, i + n)
         /\ i + n >= XLEN /\ v \in 0 .. WORD - 1 => BitAt(v \div 2 ^ n, i) = 0
         /\ i + n >= XLEN /\ v \in -WORD .. -1 => BitAt(v \div 2 ^ n, i) = 1
<1>1. /\ XLEN \in Nat /\ n \in Nat /\ i \in Nat /\ n < XLEN /\ WORD = 2 ^ XLEN
      /\ n \in 0 .. XLEN /\ i \in 0 .. XLEN
  BY RegisterSize DEF BitIndex
<1>2. 2 ^ n \in Nat \ {0} /\ 2 ^ i \in Nat \ {0}
  BY BitIsOneOrZero, 0 \in Int
<1>3. i + n < XLEN => BitAt(v \div 2 ^ n, i) = BitAt(v, i + n)
  <2> SUFFICES ASSUME i + n < XLEN
               PROVE  BitAt(v \div 2 ^ n, i) = BitAt(v, i + n)
    OBVIOUS
  <2>1. n + i <= XLEN /\ n + i = i + n
    BY <1>1
  <2>2. v \div 2 ^ (n + i) = (v \div 2 ^ n) \div 2 ^ i
    BY <1>1, <2>1, NestedShift
  <2> QED  BY <2>1, <2>2 DEF BitAt
<1>4. ASSUME i + n >= XLEN
      PROVE  /\ v \in 0 .. WORD - 1 => BitAt(v \div 2 ^ n, i) = 0
             /\ v \in -WORD .. -1 => BitAt(v \div 2 ^ n, i) = 1
  <2> DEFINE p == 2 ^ n
             q == 2 ^ i
             r == 2 ^ (XLEN - n)
             t == 2 ^ (i - (XLEN - n))
             d == v \div p
  <2>1. XLEN - n \in Nat /\ i - (XLEN - n) \in Nat
    BY <1>1, <1>4
  <2>2. WORD = p * r
    <3>1. n + (XLEN - n) = XLEN /\ n + (XLEN - n) <= XLEN
      BY <1>1
    <3>2. 2 ^ (n + (XLEN - n)) = 2 ^ n * 2 ^ (XLEN - n)
      BY <1>1, <2>1, <3>1, PowerOfSum
    <3> QED  BY <1>1, <3>1, <3>2
  <2>3. q = r * t
    <3>1. (XLEN - n) + (i - (XLEN - n)) = i /\ i <= XLEN
      BY <1>1
    <3>2. 2 ^ ((XLEN - n) + (i - (XLEN - n))) = 2 ^ (XLEN - n) * 2 ^ (i - (XLEN - n))
      BY <1>1, <2>1, <3>1, PowerOfSum
    <3> QED  BY <3>1, <3>2
  <2>4. p \in Nat \ {0} /\ q \in Nat \ {0} /\ r \in Nat \ {0} /\ t \in Nat \ {0}
    <3>1. XLEN - n \in 0 .. XLEN /\ i - (XLEN - n) \in 0 .. XLEN
      BY <1>1, <2>1
    <3> QED  BY <1>2, <3>1, RegisterSize
  <2>5. BitAt(v \div 2 ^ n, i) = (d \div q) % 2
    BY DEF BitAt
  <2> HIDE DEF p, q, r, t
  <2>6. d \in Int /\ p * d <= v /\ v < p * d + p /\ WORD \in Nat /\ p * d \in Int
    BY <2>4, RegisterSize
  <2> HIDE DEF d
  <2>7. r <= q
    <3>1. r * 1 <= r * t
      BY <2>4
    <3> QED  BY <2>3, <2>4, <3>1
  <2>8. v \in 0 .. WORD - 1 => d \in 0 .. r - 1
    <3> SUFFICES ASSUME v \in 0 .. WORD - 1 PROVE d \in 0 .. r - 1
      OBVIOUS
    <3>1. d >= 0
      <4> SUFFICES ASSUME d <= -1 PROVE FALSE
        BY <2>6
      <4>1. p * d <= p * (-1)
        BY <2>4, <2>6
      <4> QED  BY <2>4, <2>6, <4>1
    <3>2. d < r
      <4> SUFFICES ASSUME d >= r PROVE FALSE
        BY <2>4, <2>6
      <4>1. p * d >= p * r
        BY <2>4, <2>6
      <4> QED  BY <2>2, <2>6, <4>1
    <3> QED  BY <2>4, <2>6, <3>1, <3>2
  <2>9. v \in -WORD .. -1 => d \in -r .. -1
    <3> SUFFICES ASSUME v \in -WORD .. -1 PROVE d \in -r .. -1
      OBVIOUS
    <3>1. d >= -r
      <4> SUFFICES ASSUME d <= -r - 1 PROVE FALSE
        BY <2>4, <2>6
      <4>1. p * d <= p * (-r - 1)
        BY <2>4, <2>6
      <4>2. p * (-r - 1) = -(p * r) - p
        BY <2>4
      <4> QED  BY <2>2, <2>4, <2>6, <4>1, <4>2
    <3>2. d <= -1
      <4> SUFFICES ASSUME d >= 0 PROVE FALSE
        BY <2>6
      <4>1. p * d >= 0
        BY <2>4, <2>6
      <4> QED  BY <2>6, <4>1
    <3> QED  BY <2>4, <2>6, <3>1, <3>2
  <2>10. v \in 0 .. WORD - 1 => d \div q = 0
    <3>1. v \in 0 .. WORD - 1 => d \in 0 .. q - 1
      BY <2>4, <2>7, <2>8
    <3>2. d = d + q * 0
      BY <2>4, <2>6
    <3> QED  BY <2>4, <3>1, <3>2, 0 \in Int, DivisionIs
  <2>11. v \in -WORD .. -1 => d \div q = -1
    <3>1. v \in -WORD .. -1 => d + q \in 0 .. q - 1
      BY <2>4, <2>7, <2>9
    <3>2. d = (d + q) + q * (-1)
      BY <2>4, <2>6
    <3> QED  BY <2>4, <3>1, <3>2, -1 \in Int, DivisionIs
  <2>12. 0 % 2 = 0 /\ (-1) % 2 = 1
    <3>1. -1 = 1 + 2 * (-1)
      OBVIOUS
    <3>2. (1 + 2 * (-1)) % 2 = 1
      BY 2 \in Nat \ {0}, -1 \in Int, 1 \in 0 .. 2 - 1, DivisionIs
    <3> QED  BY <3>1, <3>2
  <2> QED  BY <2>5, <2>10, <2>11, <2>12
<1> QED  BY <1>3, <1>4

LEMMA ShiftedRightSignedBits ==
  ASSUME PowersOfTwo(XLEN), NEW a \in Word, NEW n \in BitIndex, NEW i \in BitIndex
  PROVE  BitAt(ShiftRightSigned(a, n), i)
           = IF i + n < XLEN THEN BitAt(a, i + n) ELSE TopBit(a)
<1> DEFINE s == SignedValue(a)
<1>1. /\ WORD \in Nat \ {0} /\ HALF \in Nat \ {0} /\ WORD = 2 * HALF
      /\ a \in 0 .. WORD - 1 /\ XLEN \in Nat /\ WORD = 2 ^ XLEN
  BY RegisterSize DEF Word
<1>2. /\ TopBit(a) \in 0 .. 1 /\ (TopBit(a) = 1 <=> a >= HALF)
      /\ a >= HALF => s = a - WORD
      /\ a < HALF => s = a
  BY SignIs
<1>3. BitAt(ShiftRightSigned(a, n), i) = BitAt(s \div 2 ^ n, i)
  <2> DEFINE p == 2 ^ n
  <2>1. p \in Nat \ {0}
    BY BitIsOneOrZero, 0 \in Int
  <2> HIDE DEF p, s
  <2>2. s \in Int
    BY <1>1, <1>2
  <2>3. s \div p \in Int
    BY <2>1, <2>2
  <2>4. BitAt((s \div p) % WORD, i) = BitAt(s \div p, i)
    BY <2>3, RemainderBits
  <2> QED  BY <2>4 DEF ShiftRightSigned, p, s
<1> HIDE DEF s
<1>4. /\ s \in Int /\ (a < HALF => s \in 0 .. WORD - 1)
      /\ (a >= HALF => s \in -WORD .. -1) /\ (a < HALF \/ a >= HALF)
  BY <1>1, <1>2
<1>5. CASE i + n < XLEN
  <2>1. BitAt(s \div 2 ^ n, i) = BitAt(s, i + n)
    BY <1>4, <1>5, ShiftedBits
  <2>2. i + n \in BitIndex /\ i + n \in 0 .. XLEN /\ XLEN \in 0 .. XLEN
    BY <1>1, <1>5 DEF BitIndex
  <2>3. a >= HALF => BitAt(s, i + n) = BitAt(a, i + n)
    <3> SUFFICES ASSUME a >= HALF PROVE BitAt(s, i + n) = BitAt(a, i + n)
      OBVIOUS
    <3>1. s % WORD = a
      BY <1>1, <1>2, <1>4, WrapIs
    <3>2. BitAt(s % WORD, i + n) = BitAt(s, i + n)
      BY <1>4, <2>2, RemainderBits
    <3> QED  BY <3>1, <3>2
  <2>4. BitAt(s, i + n) = BitAt(a, i + n)
    BY <1>2, <1>4, <2>3
  <2> QED  BY <1>3, <1>5, <2>1, <2>4
<1>6. CASE ~(i + n < XLEN)
  <2>1. i + n >= XLEN
    BY <1>1, <1>6 DEF BitIndex
  <2>2. /\ s \in 0 .. WORD - 1 => BitAt(s \div 2 ^ n, i) = 0
        /\ s \in -WORD .. -1 => BitAt(s \div 2 ^ n, i) = 1
    BY <1>4, <2>1, ShiftedBits
  <2>3. BitAt(s \div 2 ^ n, i) = TopBit(a)
    BY <1>1, <1>2, <1>4, <2>2
  <2> QED  BY <1>3, <1>6, <2>3
<1> QED  BY <1>5, <1>6

LEMMA ShiftedRightBits ==
  ASSUME PowersOfTwo(XLEN), NEW a \in Word, NEW n \in BitIndex, NEW i \in BitIndex
  PROVE  BitAt(ShiftRight(a, n), i) = IF i + n < XLEN THEN BitAt(a, i + n) ELSE 0
<1>1. a \in Int /\ a \in 0 .. WORD - 1 /\ XLEN \in Nat
  BY RegisterSize DEF Word
<1>2. i + n < XLEN \/ i + n >= XLEN
  BY <1>1 DEF BitIndex
<1>3. i + n < XLEN => BitAt(a \div 2 ^ n, i) = BitAt(a, i + n)
  BY <1>1, ShiftedBits
<1>4. i + n >= XLEN => BitAt(a \div 2 ^ n, i) = 0
  BY <1>1, ShiftedBits
<1>5. i + n >= XLEN => ~(i + n < XLEN)
  BY <1>1 DEF BitIndex
<1> QED  BY <1>2, <1>3, <1>4, <1>5 DEF ShiftRight

-----------------------------------------------------------------------------
(***************************************************************************)
(* The result of an instruction                                            *)
(***************************************************************************)
Computed == entry \in AluEntry /\ result = AluOp(entry.op, entry.Vj, entry.Vk)

LEMMA ComputedInvariant == AluCalls => []Computed
<1>1. AluInit => Computed
  <2>1. 0 \in Word
    BY TypesAssumption DEF Word
  <2> QED  BY <2>1 DEF AluInit, Computed, AluEntry
<1>2. Computed /\ [AluNext]_aluVars => Computed'
  BY DEF Computed, AluEntry, AluNext, aluVars
<1> QED  BY <1>1, <1>2, PTL DEF AluCalls

LEMMA OperandsAre ==
  ASSUME Computed
  PROVE  /\ entry.Vj \in Word /\ Second \in Word
         /\ entry.op \in Packets /\ entry.op.imm \in Int /\ entry.op.pc \in Word
<1>1. /\ entry.Vj \in Word /\ entry.Vk \in Word /\ entry.op \in Packets
      /\ entry.op.imm \in Int /\ entry.op.pc \in Word
  BY TypesAssumption DEF Computed, AluEntry, DecodePacket
<1>2. entry.op.imm % WORD \in Word
  BY <1>1, WrapIs
<1> QED  BY <1>1, <1>2 DEF Second

LEMMA ResultIs ==
  ASSUME Computed
  PROVE  /\ entry.op.opcode \in Both
              => result = ArithmeticResult(entry.op, entry.Vj, Second)
         /\ entry.op.opcode = "LUI" => result = entry.op.imm % WORD
         /\ entry.op.opcode = "AUIPC"
              => result = (entry.op.pc + (entry.op.imm % WORD)) % WORD
         /\ entry.op.opcode \notin Both \cup {"LUI", "AUIPC"} => result = 0
<1> DEFINE imm == entry.op.imm % WORD
           opcode == entry.op.opcode
           upper == (entry.op.pc + imm) % WORD
           immediate == ArithmeticResult(entry.op, entry.Vj, imm)
           register == ArithmeticResult(entry.op, entry.Vj, entry.Vk)
<1>1. result = CASE opcode = "LUI" -> imm
                 [] opcode = "AUIPC" -> upper
                 [] opcode = "OP_IMM" -> immediate
                 [] opcode = "OP" -> register
                 [] OTHER -> 0
  BY DEF Computed, AluOp
<1>2. /\ opcode = "OP_IMM" => ArithmeticResult(entry.op, entry.Vj, Second) = immediate
      /\ opcode = "OP" => ArithmeticResult(entry.op, entry.Vj, Second) = register
  BY DEF Second
<1> HIDE DEF imm, opcode, upper, immediate, register
<1>3. /\ opcode = "LUI" => result = imm
      /\ opcode = "AUIPC" => result = upper
      /\ opcode = "OP_IMM" => result = immediate
      /\ opcode = "OP" => result = register
      /\ opcode \notin {"LUI", "AUIPC", "OP_IMM", "OP"} => result = 0
  BY <1>1
<1>4. opcode \in Both => result = ArithmeticResult(entry.op, entry.Vj, Second)
  <2>1. opcode \in Both => opcode = "OP" \/ opcode = "OP_IMM"
    BY DEF Both
  <2> QED  BY <1>2, <1>3, <2>1
<1>5. opcode \notin Both \cup {"LUI", "AUIPC"}
        => opcode \notin {"LUI", "AUIPC", "OP_IMM", "OP"}
  BY DEF Both
<1>6. opcode \notin Both \cup {"LUI", "AUIPC"} => result = 0
  BY <1>3, <1>5
<1>7. /\ opcode = "LUI" => result = imm
      /\ opcode = "AUIPC" => result = upper
  BY <1>3
<1> QED  BY <1>4, <1>6, <1>7 DEF imm, opcode, upper

\* One equation for each value of funct3
LEMMA ArithmeticIs ==
  ASSUME NEW op, NEW a, NEW b
  PROVE  LET value == ArithmeticResult(op, a, b)  shamt == b % XLEN IN
         /\ op.funct3 = 0 /\ Alternate(op) => value = (a - b) % WORD
         /\ op.funct3 = 0 /\ ~Alternate(op) => value = (a + b) % WORD
         /\ op.funct3 = 1 => value = ShiftLeft(a, shamt)
         /\ op.funct3 = 2 => value = IF SignedValue(a) < SignedValue(b) THEN 1 ELSE 0
         /\ op.funct3 = 3 => value = IF a < b THEN 1 ELSE 0
         /\ op.funct3 = 4 => value = WordXor(a, b)
         /\ op.funct3 = 5 /\ Alternate(op) => value = ShiftRightSigned(a, shamt)
         /\ op.funct3 = 5 /\ ~Alternate(op) => value = ShiftRight(a, shamt)
         /\ op.funct3 = 6 => value = WordOr(a, b)
         /\ op.funct3 = 7 => value = WordAnd(a, b)
<1> DEFINE value == ArithmeticResult(op, a, b)
           sum == (a + b) % WORD
           difference == (a - b) % WORD
           left == ShiftLeft(a, b % XLEN)
           signed == ShiftRightSigned(a, b % XLEN)
           right == ShiftRight(a, b % XLEN)
           less == IF SignedValue(a) < SignedValue(b) THEN 1 ELSE 0
           below == IF a < b THEN 1 ELSE 0
           alternate == Alternate(op)
           funct3 == op.funct3
<1>1. value = CASE funct3 = 0 -> IF alternate THEN difference ELSE sum
                [] funct3 = 1 -> left
                [] funct3 = 2 -> less
                [] funct3 = 3 -> below
                [] funct3 = 4 -> WordXor(a, b)
                [] funct3 = 5 -> IF alternate THEN signed ELSE right
                [] funct3 = 6 -> WordOr(a, b)
                [] funct3 = 7 -> WordAnd(a, b)
  BY DEF ArithmeticResult
<1> HIDE DEF value, sum, difference, left, signed, right, less, below, alternate, funct3
<1>2. /\ funct3 = 0 /\ alternate => value = difference
      /\ funct3 = 0 /\ ~alternate => value = sum
      /\ funct3 = 1 => value = left
      /\ funct3 = 2 => value = less
      /\ funct3 = 3 => value = below
      /\ funct3 = 4 => value = WordXor(a, b)
      /\ funct3 = 5 /\ alternate => value = signed
      /\ funct3 = 5 /\ ~alternate => value = right
      /\ funct3 = 6 => value = WordOr(a, b)
      /\ funct3 = 7 => value = WordAnd(a, b)
  BY <1>1
<1> QED
  BY <1>2 DEF value, sum, difference, left, signed, right, less, below, alternate, funct3

-----------------------------------------------------------------------------
(***************************************************************************)
(* Each instruction                                                        *)
(***************************************************************************)
LEMMA ResultIsWord ==
  ASSUME PowersOfTwo(XLEN), Computed
  PROVE  result \in Word
<1>1. 0 \in Word /\ 1 \in Word
  BY RegisterSize DEF Word
<1>2. CASE entry.op.opcode \in Both
  <2> DEFINE op == entry.op
             a == entry.Vj
             b == Second
             shamt == b % XLEN
  <2>1. a \in Word /\ b \in Word /\ op \in Packets
    BY OperandsAre
  <2>2. op.funct3 \in 0 .. 7
    BY <2>1, TypesAssumption DEF DecodePacket
  <2>3. result = ArithmeticResult(op, a, b)
    BY <1>2, ResultIs
  <2> HIDE DEF op, a, b
  <2>4. (a - b) % WORD \in Word /\ (a + b) % WORD \in Word
    <3>1. a - b \in Int /\ a + b \in Int
      BY <2>1 DEF Word
    <3> QED  BY <3>1, WrapIs
  <2>5. shamt \in BitIndex
    BY <2>1, AluAssumption DEF Word, BitIndex
  <2> HIDE DEF shamt
  <2>6. /\ ShiftLeft(a, shamt) \in Word /\ ShiftRightSigned(a, shamt) \in Word
        /\ ShiftRight(a, shamt) \in Word
    <3> DEFINE p == 2 ^ shamt
    <3>1. p \in Nat \ {0}
      BY <2>5, BitIsOneOrZero, 0 \in Int
    <3>2. SignedValue(a) \in Int
      BY <2>1, TypesAssumption DEF SignedValue, Word
    <3> HIDE DEF p
    <3>3. a * p \in Int /\ SignedValue(a) \div p \in Int
      BY <2>1, <3>1, <3>2 DEF Word
    <3>4. a \div p \in Word
      <4>1. a \in Nat /\ a < WORD /\ WORD \in Nat
        BY <2>1, TypesAssumption DEF Word
      <4>2. a \div p \in Nat /\ a \div p <= a
        <5> DEFINE q == a \div p
        <5>1. q \in Int /\ p * q <= a /\ a < p * q + p
          BY <3>1, <4>1
        <5> HIDE DEF q
        <5>2. q >= 0
          <6> SUFFICES ASSUME q <= -1 PROVE FALSE
            BY <5>1
          <6>1. p * q <= p * (-1)
            BY <3>1, <5>1
          <6> QED  BY <3>1, <4>1, <5>1, <6>1
        <5>3. q <= p * q
          BY <3>1, <5>1, <5>2
        <5>4. q <= a
          BY <3>1, <4>1, <5>1, <5>3
        <5> QED  BY <5>1, <5>2, <5>4 DEF q
      <4> QED  BY <4>1, <4>2 DEF Word
    <3> QED  BY <3>3, <3>4, WrapIs DEF ShiftLeft, ShiftRightSigned, ShiftRight, p
  <2>7. WordXor(a, b) \in Word /\ WordOr(a, b) \in Word /\ WordAnd(a, b) \in Word
    BY <2>1, BitwiseAssumption
  <2>8. CASE op.funct3 \in {0, 5}
    BY <2>3, <2>4, <2>6, <2>8, ArithmeticIs DEF shamt
  <2>9. CASE op.funct3 = 1
    BY <2>3, <2>6, <2>9, ArithmeticIs DEF shamt
  <2>10. CASE op.funct3 \in {2, 3}
    BY <1>1, <2>3, <2>10, ArithmeticIs
  <2>11. CASE op.funct3 \in {4, 6, 7}
    BY <2>3, <2>7, <2>11, ArithmeticIs
  <2> QED  BY <2>2, <2>8, <2>9, <2>10, <2>11
<1>3. CASE entry.op.opcode \notin Both
  <2>1. entry.op.imm % WORD \in Word /\ entry.op.pc + (entry.op.imm % WORD) \in Int
    <3> DEFINE imm == entry.op.imm % WORD
    <3>1. imm \in Word
      BY OperandsAre, WrapIs
    <3> HIDE DEF imm
    <3>2. entry.op.pc + imm \in Int
      BY <3>1, OperandsAre DEF Word
    <3> QED  BY <3>1, <3>2 DEF imm
  <2>2. (entry.op.pc + (entry.op.imm % WORD)) % WORD \in Word
    BY <2>1, WrapIs
  <2> QED  BY <1>1, <1>3, <2>1, <2>2, ResultIs
<1> QED  BY <1>2, <1>3

LEMMA DistanceIs ==
  ASSUME Computed
  PROVE  Distance \in BitIndex
<1>1. Second \in Nat
  BY OperandsAre DEF Word
<1>2. XLEN \in Nat \ {0}
  BY AluAssumption
<1> DEFINE b == Second
<1> HIDE DEF b
<1>3. b % XLEN \in 0 .. XLEN - 1
  BY <1>1, <1>2 DEF b
<1> QED  BY <1>3 DEF Distance, BitIndex, b

\* Sums and differences wrap around, in either reading of the numbers.
LEMMA SumsWrap ==
  ASSUME PowersOfTwo(XLEN), NEW a \in Word, NEW b \in Word
  PROVE  /\ ((a - b) % WORD) + b \in {a, a + WORD}
         /\ (a + b) % WORD \in {a + b, a + b - WORD}
         /\ \E k \in -1 .. 1 :
              SignedValue((a + b) % WORD) = SignedValue(a) + SignedValue(b) + k * WORD
<1>1. /\ HALF \in Nat \ {0} /\ WORD = 2 * HALF
      /\ a \in 0 .. WORD - 1 /\ b \in 0 .. WORD - 1
  BY RegisterSize DEF Word
<1>2. (a - b) % WORD = a - b \/ (a - b) % WORD = a - b + WORD
  <2> DEFINE v == a - b
  <2>1. v \in Int /\ (v \in 0 .. WORD - 1 \/ v + WORD \in 0 .. WORD - 1)
    BY <1>1
  <2> HIDE DEF v
  <2>2. v % WORD = v \/ v % WORD = v + WORD
    BY <2>1, WrapIs
  <2> QED  BY <2>2 DEF v
<1>3. /\ (a + b) % WORD = a + b \/ (a + b) % WORD = a + b - WORD
      /\ (a + b) % WORD \in Word
  <2> DEFINE v == a + b
  <2>1. v \in Int /\ (v \in 0 .. WORD - 1 \/ v - WORD \in 0 .. WORD - 1)
    BY <1>1
  <2> HIDE DEF v
  <2>2. (v % WORD = v \/ v % WORD = v - WORD) /\ v % WORD \in Word
    BY <2>1, WrapIs
  <2>3. v - WORD = a + b - WORD
    BY <1>1 DEF v
  <2> QED  BY <2>2, <2>3 DEF v
<1> DEFINE r == (a + b) % WORD
           d == (a - b) % WORD
<1>4. /\ r \in 0 .. WORD - 1 /\ (r = a + b \/ r = a + b - WORD)
      /\ (d = a - b \/ d = a - b + WORD)
  BY <1>2, <1>3 DEF Word
<1> HIDE DEF r, d
<1>5. d + b \in {a, a + WORD} /\ r \in {a + b, a + b - WORD}
  BY <1>1, <1>4
<1>6. \E k \in -1 .. 1 : SignedValue(r) = SignedValue(a) + SignedValue(b) + k * WORD
  <2> DEFINE e == SignedValue(r) - (SignedValue(a) + SignedValue(b))
  <2>1. /\ SignedValue(r) \in -HALF .. HALF - 1 /\ SignedValue(a) \in -HALF .. HALF - 1
        /\ SignedValue(b) \in -HALF .. HALF - 1
        /\ SignedValue(r) \in {r, r - WORD} /\ SignedValue(a) \in {a, a - WORD}
        /\ SignedValue(b) \in {b, b - WORD}
    BY <1>1, <1>4 DEF SignedValue
  <2>2. e = 0 \/ e = WORD \/ e = -WORD
    BY <1>1, <1>4, <2>1
  <2>3. e = 0 * WORD \/ e = 1 * WORD \/ e = (-1) * WORD
    BY <1>1, <2>2
  <2>4. \E k \in -1 .. 1 : e = k * WORD
    BY <2>3
  <2> QED  BY <1>1, <2>1, <2>4
<1> QED  BY <1>5, <1>6 DEF r, d

LEMMA SignedLess ==
  ASSUME PowersOfTwo(XLEN), Computed
  PROVE  LessSigned <=> SignedValue(entry.Vj) < SignedValue(Second)
<1> DEFINE a == entry.Vj
           b == Second
<1>1. a \in Word /\ b \in Word
  BY OperandsAre
<1>2. LessSigned <=> TopBit(a) > TopBit(b) \/ (TopBit(a) = TopBit(b) /\ a < b)
  BY DEF LessSigned
<1> HIDE DEF a, b
<1>3. /\ HALF \in Nat \ {0} /\ WORD = 2 * HALF
      /\ a \in 0 .. WORD - 1 /\ b \in 0 .. WORD - 1
  BY <1>1, RegisterSize DEF Word
<1>4. /\ TopBit(a) \in 0 .. 1 /\ (TopBit(a) = 1 <=> a >= HALF)
      /\ a >= HALF => SignedValue(a) = a - WORD
      /\ a < HALF => SignedValue(a) = a
  BY <1>1, SignIs
<1>5. /\ TopBit(b) \in 0 .. 1 /\ (TopBit(b) = 1 <=> b >= HALF)
      /\ b >= HALF => SignedValue(b) = b - WORD
      /\ b < HALF => SignedValue(b) = b
  BY <1>1, SignIs
<1>6. LessSigned <=> SignedValue(a) < SignedValue(b)
  <2>1. CASE a >= HALF /\ b >= HALF
    BY <1>2, <1>3, <1>4, <1>5, <2>1
  <2>2. CASE a >= HALF /\ b < HALF
    BY <1>2, <1>3, <1>4, <1>5, <2>2
  <2>3. CASE a < HALF /\ b >= HALF
    BY <1>2, <1>3, <1>4, <1>5, <2>3
  <2>4. CASE a < HALF /\ b < HALF
    BY <1>2, <1>3, <1>4, <1>5, <2>4
  <2> QED  BY <1>3, <2>1, <2>2, <2>3, <2>4
<1> QED  BY <1>6 DEF a, b

LEMMA OperatorBits ==
  ASSUME PowersOfTwo(XLEN), NEW a \in Word, NEW b \in Word, NEW i \in BitIndex
  PROVE  /\ BitAt(WordXor(a, b), i) = (BitAt(a, i) + BitAt(b, i)) % 2
         /\ BitAt(WordOr(a, b), i) = IF BitAt(a, i) + BitAt(b, i) > 0 THEN 1 ELSE 0
         /\ BitAt(WordAnd(a, b), i) = BitAt(a, i) * BitAt(b, i)
<1>1. /\ WordXor(a, b) \in Int /\ WordOr(a, b) \in Int /\ WordAnd(a, b) \in Int
      /\ a \in Int /\ b \in Int
  BY BitwiseAssumption DEF Word
<1> DEFINE x == BitAt(a, i)
           y == BitAt(b, i)
           xor == BitAt(WordXor(a, b), i)
           or  == BitAt(WordOr(a, b), i)
           and == BitAt(WordAnd(a, b), i)
<1>2. x \in 0 .. 1 /\ y \in 0 .. 1 /\ xor \in 0 .. 1 /\ or \in 0 .. 1 /\ and \in 0 .. 1
  BY <1>1, BitIsOneOrZero
<1>3. (xor = 1 <=> x # y) /\ (or = 1 <=> x = 1 \/ y = 1) /\ (and = 1 <=> x = 1 /\ y = 1)
  BY BitwiseAssumption
<1> HIDE DEF x, y, xor, or, and
<1>4. /\ xor = (x + y) % 2
      /\ or = IF x + y > 0 THEN 1 ELSE 0
      /\ and = x * y
  <2>1. x = 0 \/ x = 1
    BY <1>2
  <2>2. y = 0 \/ y = 1
    BY <1>2
  <2>3. xor = 0 \/ xor = 1
    BY <1>2
  <2>4. or = 0 \/ or = 1
    BY <1>2
  <2>5. and = 0 \/ and = 1
    BY <1>2
  <2>6. (0 + 0) % 2 = 0 /\ (0 + 1) % 2 = 1 /\ (1 + 0) % 2 = 1 /\ (1 + 1) % 2 = 0
    OBVIOUS
  <2> QED  BY <1>3, <2>1, <2>2, <2>3, <2>4, <2>5, <2>6
<1> QED  BY <1>4 DEF x, y, xor, or, and

LEMMA UpperImmediates ==
  ASSUME PowersOfTwo(XLEN), UpperImmediatesFit, Computed
  PROVE  /\ entry.op.opcode = "LUI" => SignedValue(result) = entry.op.imm
         /\ entry.op.opcode = "AUIPC" => \E k \in -1 .. 1 :
              result = entry.op.pc + entry.op.imm + k * WORD
<1> SUFFICES ASSUME entry.op.opcode \in {"LUI", "AUIPC"}
             PROVE  /\ entry.op.opcode = "LUI" => SignedValue(result) = entry.op.imm
                    /\ entry.op.opcode = "AUIPC" => \E k \in -1 .. 1 :
                         result = entry.op.pc + entry.op.imm + k * WORD
  OBVIOUS
<1> DEFINE imm == entry.op.imm
           pc == entry.op.pc
           low == imm % WORD
           sum == pc + low
<1>1. /\ HALF \in Nat \ {0} /\ WORD = 2 * HALF
      /\ imm \in Int /\ pc \in 0 .. WORD - 1
  BY OperandsAre, RegisterSize DEF Word
<1>2. -WORD <= 2 * imm /\ 2 * imm < WORD
  BY OperandsAre DEF UpperImmediatesFit
<1>3. /\ entry.op.opcode = "LUI" => result = low
      /\ entry.op.opcode = "AUIPC" => result = sum % WORD
  BY ResultIs
<1> HIDE DEF imm, pc
<1>4. (low = imm \/ low = imm + WORD) /\ low \in 0 .. WORD - 1
  <2>1. imm \in 0 .. WORD - 1 \/ imm + WORD \in 0 .. WORD - 1
    BY <1>1, <1>2
  <2> QED  BY <1>1, <2>1, WrapIs DEF Word
<1> HIDE DEF low
<1>5. SignedValue(low) = imm
  BY <1>1, <1>2, <1>4 DEF SignedValue
<1>6. sum \in Int /\ (sum \in 0 .. WORD - 1 \/ sum - WORD \in 0 .. WORD - 1)
  BY <1>1, <1>4
<1>7. sum = pc + low
  OBVIOUS
<1> HIDE DEF sum
<1>8. sum % WORD = sum \/ sum % WORD = sum - WORD
  BY <1>6, WrapIs
<1> DEFINE r == sum % WORD
<1> HIDE DEF r
<1>9. r = sum \/ r = sum - WORD
  BY <1>8 DEF r
<1>10. \E k \in -1 .. 1 : r = pc + imm + k * WORD
  <2>1. \/ r = pc + imm + (-1) * WORD
        \/ r = pc + imm + 0 * WORD
        \/ r = pc + imm + 1 * WORD
    BY <1>1, <1>4, <1>6, <1>7, <1>9
  <2> QED  BY <2>1
<1> QED  BY <1>3, <1>5, <1>10 DEF imm, pc, r

LEMMA InstructionComputed ==
  ASSUME PowersOfTwo(XLEN), UpperImmediatesFit, Computed
  PROVE  AluComputesItsInstruction
<1> DEFINE a == entry.Vj
           b == Second
           op == entry.op
<1>1. a \in Word /\ b \in Word
  BY OperandsAre
<1>2. \A opcodes, f : opcodes \subseteq Both /\ Operation(opcodes, f) =>
        op.funct3 = f /\ op.opcode \in opcodes /\ result = ArithmeticResult(op, a, b)
  BY ResultIs DEF Operation
<1>3. {"OP"} \subseteq Both /\ {"OP_IMM"} \subseteq Both /\ Both \subseteq Both
  BY DEF Both
<1>4. Distance \in BitIndex /\ Distance = b % XLEN
  BY DistanceIs DEF Distance
<1>5. Alternate(op) <=> op.opcode = "OP" /\ FunctionBit
  BY DEF Alternate, FunctionBit
<1>6. result \in Word
  BY ResultIsWord
<1>7. Operation({"OP"}, 0) /\ FunctionBit => result + b \in {a, a + WORD}
  <2> SUFFICES ASSUME Operation({"OP"}, 0), FunctionBit PROVE result + b \in {a, a + WORD}
    OBVIOUS
  <2>1. op.funct3 = 0 /\ Alternate(op) /\ result = ArithmeticResult(op, a, b)
    BY <1>2, <1>3, <1>5
  <2> HIDE DEF a, b, op
  <2>2. result = (a - b) % WORD
    BY <2>1, ArithmeticIs
  <2> QED  BY <1>1, <2>2, SumsWrap
<1>8. Operation({"OP"}, 0) /\ ~FunctionBit => result \in {a + b, a + b - WORD}
  <2> SUFFICES ASSUME Operation({"OP"}, 0), ~FunctionBit
               PROVE  result \in {a + b, a + b - WORD}
    OBVIOUS
  <2>1. op.funct3 = 0 /\ ~Alternate(op) /\ result = ArithmeticResult(op, a, b)
    BY <1>2, <1>3, <1>5
  <2> HIDE DEF a, b, op
  <2>2. result = (a + b) % WORD
    BY <2>1, ArithmeticIs
  <2> QED  BY <1>1, <2>2, SumsWrap
<1>9. Operation({"OP_IMM"}, 0) => \E k \in -1 .. 1 :
        SignedValue(result) = SignedValue(a) + SignedValue(b) + k * WORD
  <2> SUFFICES ASSUME Operation({"OP_IMM"}, 0)
               PROVE  \E k \in -1 .. 1 :
                        SignedValue(result) = SignedValue(a) + SignedValue(b) + k * WORD
    OBVIOUS
  <2>1. op.funct3 = 0 /\ ~Alternate(op) /\ result = ArithmeticResult(op, a, b)
    BY <1>2, <1>3, <1>5
  <2> HIDE DEF a, b, op
  <2>2. result = (a + b) % WORD
    BY <2>1, ArithmeticIs
  <2> QED  BY <1>1, <2>2, SumsWrap
<1>10. Operation(Both, 1) => \A i \in BitIndex :
         BitAt(result, i) = IF i >= Distance THEN BitAt(a, i - Distance) ELSE 0
  <2> SUFFICES ASSUME Operation(Both, 1), NEW i \in BitIndex
               PROVE  BitAt(result, i) = IF i >= Distance THEN BitAt(a, i - Distance) ELSE 0
    OBVIOUS
  <2>1. op.funct3 = 1 /\ result = ArithmeticResult(op, a, b)
    BY <1>2, <1>3
  <2> HIDE DEF a, b, op
  <2>2. result = ShiftLeft(a, Distance)
    BY <1>4, <2>1, ArithmeticIs
  <2> QED  BY <1>1, <1>4, <2>2, ShiftedLeftBits
<1>11. Operation(Both, 2) => result = IF LessSigned THEN 1 ELSE 0
  <2> SUFFICES ASSUME Operation(Both, 2) PROVE result = IF LessSigned THEN 1 ELSE 0
    OBVIOUS
  <2>1. op.funct3 = 2 /\ result = ArithmeticResult(op, a, b)
    BY <1>2, <1>3
  <2>2. LessSigned <=> SignedValue(a) < SignedValue(b)
    BY SignedLess
  <2> HIDE DEF a, b, op
  <2>3. result = IF SignedValue(a) < SignedValue(b) THEN 1 ELSE 0
    BY <2>1, ArithmeticIs
  <2> QED  BY <2>2, <2>3
<1>12. Operation(Both, 3) => result = IF a < b THEN 1 ELSE 0
  <2> SUFFICES ASSUME Operation(Both, 3) PROVE result = IF a < b THEN 1 ELSE 0
    OBVIOUS
  <2>1. op.funct3 = 3 /\ result = ArithmeticResult(op, a, b)
    BY <1>2, <1>3
  <2> HIDE DEF a, b, op
  <2> QED  BY <2>1, ArithmeticIs
<1>13. ASSUME NEW f \in {4, 6, 7}, Operation(Both, f)
       PROVE  result = IF f = 4 THEN WordXor(a, b)
                       ELSE IF f = 6 THEN WordOr(a, b) ELSE WordAnd(a, b)
  <2>1. op.funct3 = f /\ result = ArithmeticResult(op, a, b)
    BY <1>2, <1>3, <1>13
  <2> HIDE DEF a, b, op
  <2> QED  BY <1>13, <2>1, ArithmeticIs
<1>14. Operation(Both, 4) => BitwiseResult(LAMBDA x, y : (x + y) % 2)
  <2> SUFFICES ASSUME Operation(Both, 4), NEW i \in BitIndex
               PROVE  BitAt(result, i) = (BitAt(a, i) + BitAt(b, i)) % 2
    BY DEF BitwiseResult
  <2>1. result = WordXor(a, b)
    BY <1>13
  <2> HIDE DEF a, b, op
  <2> QED  BY <1>1, <2>1, OperatorBits
<1>15. Operation(Both, 6) => BitwiseResult(LAMBDA x, y : IF x + y > 0 THEN 1 ELSE 0)
  <2> SUFFICES ASSUME Operation(Both, 6), NEW i \in BitIndex
               PROVE  BitAt(result, i) = IF BitAt(a, i) + BitAt(b, i) > 0 THEN 1 ELSE 0
    BY DEF BitwiseResult
  <2>1. result = WordOr(a, b)
    BY <1>13
  <2> HIDE DEF a, b, op
  <2> QED  BY <1>1, <2>1, OperatorBits
<1>16. Operation(Both, 7) => BitwiseResult(LAMBDA x, y : x * y)
  <2> SUFFICES ASSUME Operation(Both, 7), NEW i \in BitIndex
               PROVE  BitAt(result, i) = BitAt(a, i) * BitAt(b, i)
    BY DEF BitwiseResult
  <2>1. result = WordAnd(a, b)
    BY <1>13
  <2> HIDE DEF a, b, op
  <2> QED  BY <1>1, <2>1, OperatorBits
<1>17. Operation({"OP_IMM"}, 5) /\ ~FunctionBit => ShiftedRight(0)
  <2> SUFFICES ASSUME Operation({"OP_IMM"}, 5), NEW i \in BitIndex
               PROVE  BitAt(result, i)
                        = IF i + Distance < XLEN THEN BitAt(a, i + Distance) ELSE 0
    BY DEF ShiftedRight
  <2>1. op.funct3 = 5 /\ ~Alternate(op) /\ result = ArithmeticResult(op, a, b)
    BY <1>2, <1>3, <1>5
  <2> HIDE DEF a, b, op
  <2>2. result = ShiftRight(a, Distance)
    BY <1>4, <2>1, ArithmeticIs
  <2> QED  BY <1>1, <1>4, <2>2, ShiftedRightBits
<1>18. Operation({"OP"}, 5) => ShiftedRight(IF FunctionBit THEN TopBit(a) ELSE 0)
  <2> SUFFICES ASSUME Operation({"OP"}, 5), NEW i \in BitIndex
               PROVE  BitAt(result, i)
                        = IF i + Distance < XLEN THEN BitAt(a, i + Distance)
                          ELSE IF FunctionBit THEN TopBit(a) ELSE 0
    BY DEF ShiftedRight
  <2>1. /\ op.funct3 = 5 /\ (Alternate(op) <=> FunctionBit)
        /\ result = ArithmeticResult(op, a, b)
    BY <1>2, <1>3, <1>5
  <2> HIDE DEF a, b, op
  <2>2. FunctionBit => result = ShiftRightSigned(a, Distance)
    BY <1>4, <2>1, ArithmeticIs
  <2>3. ~FunctionBit => result = ShiftRight(a, Distance)
    BY <1>4, <2>1, ArithmeticIs
  <2>4. BitAt(ShiftRightSigned(a, Distance), i)
          = IF i + Distance < XLEN THEN BitAt(a, i + Distance) ELSE TopBit(a)
    BY <1>1, <1>4, ShiftedRightSignedBits
  <2>5. BitAt(ShiftRight(a, Distance), i)
          = IF i + Distance < XLEN THEN BitAt(a, i + Distance) ELSE 0
    BY <1>1, <1>4, ShiftedRightBits
  <2> QED  BY <2>2, <2>3, <2>4, <2>5
<1> QED
  BY <1>6, <1>7, <1>8, <1>9, <1>10, <1>11, <1>12, <1>14, <1>15, <1>16, <1>17, <1>18,
     UpperImmediates
  DEF AluComputesItsInstruction

\* Every ALU instruction but SRAI on registers of every width, given the recurrence of
\* the powers of two and upper immediates that fit.
THEOREM AluCorrect ==
  ASSUME PowersOfTwo(XLEN), UpperImmediatesFit
  PROVE  AluCalls => []AluComputesItsInstruction
<1>1. Computed => AluComputesItsInstruction
  BY InstructionComputed
<1> QED  BY <1>1, ComputedInvariant, PTL

=============================================================================
