--------------------------- MODULE ProcessorTypes ---------------------------
(***************************************************************************)
(* The data types the pipeline stages share: include/common/types.h, and   *)
(* the classification of opcodes by the decoder.                           *)
(*                                                                         *)
(* A register holds one of WORD values (2^64 in the simulator) and an      *)
(* address is a register value.  Instructions are drawn from the constant  *)
(* set Packets: an instruction here is the DecodePacket the decoder makes  *)
(* of it.  A packet whose `valid' flag is false carries nothing else that  *)
(* is ever read, so it is the single value NoPacket.                       *)
(***************************************************************************)
EXTENDS Integers

CONSTANTS
  WORD,      \* number of values of a RegisterValue or Address (2^64)
  NREGS,     \* number of architectural registers (32)
  Packets,   \* the decoded instructions the environment may send
  NoPacket   \* a DecodePacket with valid = false

Word == 0 .. WORD - 1
Reg  == 0 .. NREGS - 1

\* static_cast<int64_t>: the two's-complement reading of a register
SignedValue(v) == IF 2 * v >= WORD THEN v - WORD ELSE v

Opcode == {"LUI", "AUIPC", "JAL", "JALR", "BRANCH", "LOAD", "STORE",
           "OP_IMM", "OP", "SYSTEM", "UNKNOWN"}

\* The encodings of funct3 that the memory operations distinguish.
LB == 0
LH == 1
LW == 2
LBU == 4
LHU == 5
SB == 0
SH == 1
SW == 2

(***************************************************************************)
(* struct DecodePacket.  The field `type' is a function of the opcode (see *)
(* InstructionType), and the raw instruction word is not read after decode *)
(* except by the statistics.                                               *)
(***************************************************************************)
DecodePacket ==
  [opcode : Opcode, funct3 : 0 .. 7, funct7 : 0 .. 127,
   rs1 : Reg, rs2 : Reg, rd : Reg, imm : Int, pc : Word]

\* DecodeUnit::get_instruction_type
InstructionType(opcode) ==
  CASE opcode = "OP"                           -> "R_TYPE"
    [] opcode \in {"OP_IMM", "LOAD", "JALR"}   -> "I_TYPE"
    [] opcode = "STORE"                        -> "S_TYPE"
    [] opcode = "BRANCH"                       -> "B_TYPE"
    [] opcode \in {"LUI", "AUIPC"}             -> "U_TYPE"
    [] opcode = "JAL"                          -> "J_TYPE"
    [] OTHER                                   -> "UNKNOWN"

ASSUME TypesAssumption ==
  /\ WORD \in Nat \ {0}
  /\ NREGS \in Nat \ {0}
  /\ Packets \subseteq DecodePacket
  /\ NoPacket \notin Packets

=============================================================================
