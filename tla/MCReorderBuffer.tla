-------------------------- MODULE MCReorderBuffer ---------------------------
(***************************************************************************)
(* Model-checking instance of ReorderBufferSpec: a store and an ALU        *)
(* instruction, one-bit values.                                            *)
(***************************************************************************)
EXTENDS ReorderBufferSpec, TLC

Instruction(opcode, rd) ==
  [opcode |-> opcode, funct3 |-> 0, funct7 |-> 0,
   rs1 |-> 0, rs2 |-> 0, rd |-> rd, imm |-> 0, pc |-> 0]

MCPackets == {Instruction("STORE", 0), Instruction("OP", 1)}
MCFunct3 == {SW}

=============================================================================
