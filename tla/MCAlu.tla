-------------------------------- MODULE MCAlu --------------------------------
(***************************************************************************)
(* Instances of AluSpec for TLC: registers of four bits.  An I-type packet *)
(* has the bits of its immediate in funct7 too, as the decoder fills it;   *)
(* immediates with bit 10 set have bit 30 of the instruction set.          *)
(***************************************************************************)
EXTENDS AluSpec, WordOperators

Packet(opcode, funct3, funct7, imm) ==
  [opcode |-> opcode, funct3 |-> funct3, funct7 |-> funct7,
   rs1 |-> 1, rs2 |-> 1, rd |-> 1, imm |-> imm, pc |-> 12]

Immediate(funct3, imm) == Packet("OP_IMM", funct3, (imm % 4096) \div 32, imm)

RegisterOps == {Packet("OP", f, 0, 0) : f \in 0 .. 7}
                 \cup {Packet("OP", f, 32, 0) : f \in {0, 5}}

ImmediateOps == {Immediate(f, i) : f \in {0, 2, 3, 4, 6, 7}, i \in {-3, 5, 1030}}
UpperOps == {Packet(o, 0, 0, i) : o \in {"LUI", "AUIPC"}, i \in {-8, 0, 7}}
ShiftImmediates == {Immediate(f, i) : f \in {1, 5}, i \in {0, 1, 3}}
Srai == {Immediate(5, 1024 + i) : i \in 0 .. 3}

MCPackets ==
  RegisterOps \cup ImmediateOps \cup UpperOps \cup ShiftImmediates \cup Srai

\* The hypothesis of AluCorrect about the instructions holds of the instance.
ASSUME AluInstance == UpperImmediatesFit

=============================================================================
