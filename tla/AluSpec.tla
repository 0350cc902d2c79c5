------------------------------- MODULE AluSpec -------------------------------
(***************************************************************************)
(* The ALU under every instruction of Packets and every pair of operands:  *)
(* execute_proc calls execute_alu_op with whatever a station entry holds.  *)
(* One step changes the instruction or one operand; the result is compared *)
(* with the definition of each instruction by the bits of its operands.    *)
(***************************************************************************)
EXTENDS Alu

VARIABLES entry, result

aluVars == <<entry, result>>

\* The fields of the RSEntry that execute_alu_op reads
AluEntry == [op : Packets, Vj : Word, Vk : Word]

AluInit ==
  /\ entry \in [op : Packets, Vj : {0}, Vk : {0}]
  /\ result = AluOp(entry.op, entry.Vj, entry.Vk)

AluNext ==
  /\ \/ \E v \in Word : entry' = [entry EXCEPT !.Vj = v]
     \/ \E v \in Word : entry' = [entry EXCEPT !.Vk = v]
  /\ result' = AluOp(entry'.op, entry'.Vj, entry'.Vk)

AluCalls == AluInit /\ [][AluNext]_aluVars

\* The immediates of LUI and AUIPC are registers' numbers.
UpperImmediatesFit == \A p \in Packets :
  p.opcode \in {"LUI", "AUIPC"} => -WORD <= 2 * p.imm /\ 2 * p.imm < WORD

-----------------------------------------------------------------------------
TopBit(v) == BitAt(v, XLEN - 1)

\* Operand 2, as the RISC-V instruction formats have it
Second == IF entry.op.opcode = "OP" THEN entry.Vk ELSE entry.op.imm % WORD

\* Of a shift by register the low log2(XLEN) bits count, and of one by an
\* immediate the same bits: the rest of the field is the function code.
Distance == Second % XLEN

BitwiseResult(Combine(_, _)) == \A i \in BitIndex :
  BitAt(result, i) = Combine(BitAt(entry.Vj, i), BitAt(Second, i))

ShiftedRight(fill) == \A i \in BitIndex :
  BitAt(result, i) = IF i + Distance < XLEN THEN BitAt(entry.Vj, i + Distance) ELSE fill

LessSigned ==
  \/ TopBit(entry.Vj) > TopBit(Second)
  \/ TopBit(entry.Vj) = TopBit(Second) /\ entry.Vj < Second

Operation(opcodes, funct3) == entry.op.opcode \in opcodes /\ entry.op.funct3 = funct3
Both == {"OP", "OP_IMM"}
FunctionBit == (entry.op.funct7 \div 32) % 2 = 1

(***************************************************************************)
(* Every ALU instruction but SRAI computes what its name in Funct3         *)
(* (types.h) says: addition and subtraction wrap at register width, bit 30 *)
(* turns only a register-register addition into a subtraction (in an       *)
(* immediate it is part of the number), comparisons and shifts take the    *)
(* sign from the top bit, and a shift amount is reduced to the width.      *)
(* SRAI, the immediate right shift with the function bit, is left out:     *)
(* execute_alu_op does not tell it from SRLI and shifts in zeros.          *)
(***************************************************************************)
AluComputesItsInstruction ==
  LET a == entry.Vj  b == Second IN
  /\ result \in Word
  /\ Operation({"OP"}, 0) /\ FunctionBit => result + b \in {a, a + WORD}
  /\ Operation({"OP"}, 0) /\ ~FunctionBit => result \in {a + b, a + b - WORD}
  /\ Operation({"OP_IMM"}, 0) => \E k \in -1 .. 1 :
       SignedValue(result) = SignedValue(a) + SignedValue(b) + k * WORD
  /\ Operation(Both, 1) => \A i \in BitIndex :
       BitAt(result, i) = IF i >= Distance THEN BitAt(a, i - Distance) ELSE 0
  /\ Operation(Both, 2) => result = IF LessSigned THEN 1 ELSE 0
  /\ Operation(Both, 3) => result = IF a < b THEN 1 ELSE 0
  /\ Operation(Both, 4) => BitwiseResult(LAMBDA x, y : (x + y) % 2)
  /\ Operation(Both, 6) => BitwiseResult(LAMBDA x, y : IF x + y > 0 THEN 1 ELSE 0)
  /\ Operation(Both, 7) => BitwiseResult(LAMBDA x, y : x * y)
  /\ Operation({"OP_IMM"}, 5) /\ ~FunctionBit => ShiftedRight(0)
  /\ Operation({"OP"}, 5) => ShiftedRight(IF FunctionBit THEN TopBit(a) ELSE 0)
  /\ entry.op.opcode = "LUI" => SignedValue(result) = entry.op.imm
  /\ entry.op.opcode = "AUIPC" => \E k \in -1 .. 1 :
       result = entry.op.pc + entry.op.imm + k * WORD

=============================================================================
