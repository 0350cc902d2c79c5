-------------------------------- MODULE Alu ---------------------------------
(***************************************************************************)
(* ExecutionUnit::execute_alu_op: the result of an ALU instruction as a    *)
(* function of its operands.  XLEN is the width of a register (64); the    *)
(* mask 0x3F of a shift amount keeps its log2(XLEN) low bits.  The         *)
(* operators of C++ on the bits of two registers are constants, of which   *)
(* the bits are assumed.                                                   *)
(***************************************************************************)
EXTENDS ProcessorTypes

CONSTANTS
  XLEN,
  WordXor(_, _),   \* ^
  WordOr(_, _),    \* |
  WordAnd(_, _)    \* &

BitIndex == 0 .. XLEN - 1
BitAt(v, i) == (v \div 2 ^ i) % 2

ASSUME AluAssumption == XLEN \in Nat \ {0} /\ WORD = 2 ^ XLEN

ASSUME BitwiseAssumption == \A a, b \in Word :
  /\ {WordXor(a, b), WordOr(a, b), WordAnd(a, b)} \subseteq Word
  /\ \A i \in BitIndex :
       /\ BitAt(WordXor(a, b), i) = 1 <=> BitAt(a, i) # BitAt(b, i)
       /\ BitAt(WordOr(a, b), i) = 1 <=> BitAt(a, i) = 1 \/ BitAt(b, i) = 1
       /\ BitAt(WordAnd(a, b), i) = 1 <=> BitAt(a, i) = 1 /\ BitAt(b, i) = 1

\* Mutant: the bit is looked at in an immediate, too.
AlternateInImmediates(op) == (op.funct7 \div 32) % 2 = 1

\* The bit funct7 & 0x20, which the code looks at only for opcode OP
Alternate(op) == op.opcode = "OP" /\ (op.funct7 \div 32) % 2 = 1

ShiftLeft(a, n)      == (a * 2 ^ n) % WORD
ShiftRight(a, n)     == a \div 2 ^ n
ShiftRightSigned(a, n) == (SignedValue(a) \div 2 ^ n) % WORD

ArithmeticResult(op, a, b) ==
  LET shamt == b % XLEN
      Bit(holds) == IF holds THEN 1 ELSE 0
  IN
  CASE op.funct3 = 0 -> IF Alternate(op) THEN (a - b) % WORD ELSE (a + b) % WORD
    [] op.funct3 = 1 -> ShiftLeft(a, shamt)
    [] op.funct3 = 2 -> Bit(SignedValue(a) < SignedValue(b))
    [] op.funct3 = 3 -> Bit(a < b)
    [] op.funct3 = 4 -> WordXor(a, b)
    [] op.funct3 = 5 -> IF Alternate(op) THEN ShiftRightSigned(a, shamt)
                                         ELSE ShiftRight(a, shamt)
    [] op.funct3 = 6 -> WordOr(a, b)
    [] op.funct3 = 7 -> WordAnd(a, b)

\* The opcodes SYSTEM and UNKNOWN, which also come here, give 0.
AluOp(op, Vj, Vk) ==
  LET imm == op.imm % WORD IN
  CASE op.opcode = "LUI"    -> imm
    [] op.opcode = "AUIPC"  -> (op.pc + imm) % WORD
    [] op.opcode = "OP_IMM" -> ArithmeticResult(op, Vj, imm)
    [] op.opcode = "OP"     -> ArithmeticResult(op, Vj, Vk)
    [] OTHER                -> 0

=============================================================================
