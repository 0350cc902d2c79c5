---------------------------- MODULE InstructionSet ---------------------------
(***************************************************************************)
(* What one instruction does to the registers x and the memory `bytes', as *)
(* the programs the simulator runs may expect it: there are no stations,   *)
(* no tags, no renaming and no results in flight here.                     *)
(*                                                                         *)
(* How many bytes a store may write is left to whoever instantiates the    *)
(* module, because the code and the instruction set disagree on it.        *)
(***************************************************************************)
EXTENDS MemorySystem

CONSTANTS
  AluResult(_, _, _),   \* what an ALU instruction computes of its operands
  StoreSizes(_)         \* the set of widths a store may write

Effective(op, x) == (x[op.rs1] + op.imm) % WORD

Value(op, x, bytes) ==
  CASE op.opcode = "LOAD"            -> LoadedValue(bytes, Effective(op, x), op.funct3)
    [] op.opcode \in {"JAL", "JALR"} -> (op.pc + 4) % WORD
    [] OTHER                         -> AluResult(op, x[op.rs1], x[op.rs2])

RegistersAfter(op, x, bytes) ==
  IF op.rd = 0 \/ op.opcode \in {"STORE", "BRANCH"} THEN x
  ELSE [x EXCEPT ![op.rd] = Value(op, x, bytes)]

\* What the memory may hold after op
MemoriesAfter(op, x, bytes) ==
  IF op.opcode # "STORE" THEN {bytes}
  ELSE {WriteData(bytes, Effective(op, x), x[op.rs2], size) : size \in StoreSizes(op)}

=============================================================================
