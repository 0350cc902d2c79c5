----------------------------- MODULE DecodeUnit ------------------------------
(***************************************************************************)
(* class DecodeUnit (decode_unit.h, decode_unit.cpp): what decode_proc     *)
(* extracts from an instruction word.  A word is the number of its 32 bits *)
(* in two's complement: the same bits as in the code's unsigned word, in a *)
(* number that fits into TLC's integers.  Also here is what fetch and its  *)
(* static predictor extract from the word for themselves.                  *)
(*                                                                         *)
(* Module Processor takes the result as its constant Fields.               *)
(***************************************************************************)
EXTENDS Integers

InstructionWord == {n \in Int : n \div 2 \in -(2 ^ 30) .. 2 ^ 30 - 1}

\* (inst >> low) & (2^width - 1)
Bits(inst, low, width) == (inst \div 2 ^ low) % 2 ^ width

\* (inst >> 31) & 0x1
SignBit(inst) == IF inst < 0 THEN 1 ELSE 0

\* The bits above bit `width - 1' are set to the value of that bit.
SignExtended(v, width) == IF v >= 2 ^ (width - 1) THEN v - 2 ^ width ELSE v

\* enum class Opcode
OpcodeBits ==
  [LUI |-> 55, AUIPC |-> 23, JAL |-> 111, JALR |-> 103, BRANCH |-> 99, LOAD |-> 3,
   STORE |-> 35, OP_IMM |-> 19, OP |-> 51, SYSTEM |-> 115]

GetOpcode(inst) ==
  IF \E o \in DOMAIN OpcodeBits : OpcodeBits[o] = Bits(inst, 0, 7)
  THEN CHOOSE o \in DOMAIN OpcodeBits : OpcodeBits[o] = Bits(inst, 0, 7)
  ELSE "UNKNOWN"

\* Mutant: bit 7 of a branch ends up one place too low.
BImmediateMisplaced(inst) ==
  SignBit(inst) * 2 ^ 12 + Bits(inst, 7, 1) * 2 ^ 10
    + Bits(inst, 25, 6) * 2 ^ 5 + Bits(inst, 8, 4) * 2

BImmediate(inst) ==
  SignBit(inst) * 2 ^ 12 + Bits(inst, 7, 1) * 2 ^ 11
    + Bits(inst, 25, 6) * 2 ^ 5 + Bits(inst, 8, 4) * 2

JImmediate(inst) ==
  SignBit(inst) * 2 ^ 20 + Bits(inst, 12, 8) * 2 ^ 12
    + Bits(inst, 20, 1) * 2 ^ 11 + Bits(inst, 21, 10) * 2

\* get_immediate() with the type of get_instruction_type()
GetImmediate(inst) ==
  LET opcode == GetOpcode(inst) IN
  CASE opcode \in {"OP_IMM", "LOAD", "JALR"} -> SignExtended(Bits(inst, 20, 12), 12)
    [] opcode = "STORE" ->
         SignExtended(Bits(inst, 25, 7) * 2 ^ 5 + Bits(inst, 7, 5), 12)
    [] opcode = "BRANCH" -> SignExtended(BImmediate(inst), 13)
    [] opcode \in {"LUI", "AUIPC"} -> inst - (inst % 2 ^ 12)
    [] opcode = "JAL" -> SignExtended(JImmediate(inst), 21)
    [] OTHER -> 0

\* The packet of decode_proc, but for the address, which it passes on
DecodedFields(inst) ==
  [opcode |-> GetOpcode(inst), funct3 |-> Bits(inst, 12, 3),
   funct7 |-> Bits(inst, 25, 7), rs1 |-> Bits(inst, 15, 5),
   rs2 |-> Bits(inst, 20, 5), rd |-> Bits(inst, 7, 5), imm |-> GetImmediate(inst)]

\* Mutant: the mask of a jump's offset is that of a branch's.
FetchOffsetMasked(inst) ==
  LET sign == -SignBit(inst) * 2 ^ 12 IN
  IF GetOpcode(inst) = "JAL"
  THEN sign + Bits(inst, 12, 8) * 2 ^ 12 + Bits(inst, 20, 1) * 2 ^ 11
            + Bits(inst, 21, 10) * 2
  ELSE sign + Bits(inst, 7, 1) * 2 ^ 11 + Bits(inst, 25, 6) * 2 ^ 5
            + Bits(inst, 8, 4) * 2

(***************************************************************************)
(* The offset predict_next_pc() adds for a JAL or a BRANCH: bit 31 fills   *)
(* the bits from 20, or from 12, upwards.                                  *)
(***************************************************************************)
FetchOffset(inst) ==
  IF GetOpcode(inst) = "JAL"
  THEN -SignBit(inst) * 2 ^ 20 + Bits(inst, 12, 8) * 2 ^ 12
         + Bits(inst, 20, 1) * 2 ^ 11 + Bits(inst, 21, 10) * 2
  ELSE -SignBit(inst) * 2 ^ 12 + Bits(inst, 7, 1) * 2 ^ 11
         + Bits(inst, 25, 6) * 2 ^ 5 + Bits(inst, 8, 4) * 2

\* Mutant: the sign is taken from the offset's lowest encoded bit, bit 7.
StaticPredictUnsigned(inst) == Bits(inst, 7, 1) = 1

\* static_predict() reads every branch as a B-type one.
StaticPredict(inst) ==
  -SignBit(inst) * 2 ^ 12 + Bits(inst, 7, 1) * 2 ^ 11
    + Bits(inst, 25, 6) * 2 ^ 5 + Bits(inst, 8, 4) * 2 < 0

=============================================================================
