--------------------------- MODULE DecodeUnitSpec ----------------------------
(***************************************************************************)
(* decode_proc under every sequence of instruction words that fetch may    *)
(* hand to it, legal instructions or not.                                  *)
(***************************************************************************)
EXTENDS DecodeUnit

CONSTANT Words   \* the instruction words under consideration

ASSUME DecodeAssumption == Words \subseteq InstructionWord

VARIABLES inst, packet

vars == <<inst, packet>>

Init == inst \in Words /\ packet = DecodedFields(inst)

Next == inst' \in Words /\ packet' = DecodedFields(inst')

Spec == Init /\ [][Next]_vars

-----------------------------------------------------------------------------
\* Bit k of the two's complement of a number of at most 32 bits
BitOf(v, k) == IF k = 31 THEN SignBit(v) ELSE (v \div 2 ^ k) % 2

\* The bits from `low' on of the word are those from `from' on of v.
Encodes(v, from, low, width) ==
  \A k \in 0 .. width - 1 : BitOf(inst, low + k) = BitOf(v, from + k)

InRange(v, width) == -(2 ^ (width - 1)) <= v /\ v < 2 ^ (width - 1)

(***************************************************************************)
(* The decoder inverts the encoding of the RISC-V formats, as the comments *)
(* of get_immediate (decode_unit.cpp) give it: the immediate is the number *)
(* of the format's width and step whose bits are where the format puts     *)
(* them, and it has the sign of bit 31.                                    *)
(***************************************************************************)
DecodesTheFormats ==
  LET imm == packet.imm  Is(opcodes) == packet.opcode \in opcodes IN
  /\ \A o \in DOMAIN OpcodeBits :
       Is({o}) <=> \A k \in 0 .. 6 : BitOf(inst, k) = BitOf(OpcodeBits[o], k)
  /\ Encodes(packet.rd, 0, 7, 5) /\ Encodes(packet.rs1, 0, 15, 5)
  /\ Encodes(packet.rs2, 0, 20, 5)
  /\ Encodes(packet.funct3, 0, 12, 3) /\ Encodes(packet.funct7, 0, 25, 7)
  /\ Is({"OP_IMM", "LOAD", "JALR"}) => InRange(imm, 12) /\ Encodes(imm, 0, 20, 12)
  /\ Is({"STORE"}) =>
       InRange(imm, 12) /\ Encodes(imm, 5, 25, 7) /\ Encodes(imm, 0, 7, 5)
  /\ Is({"BRANCH"}) =>
       /\ InRange(imm, 13) /\ BitOf(imm, 0) = 0
       /\ Encodes(imm, 12, 31, 1) /\ Encodes(imm, 5, 25, 6)
       /\ Encodes(imm, 1, 8, 4) /\ Encodes(imm, 11, 7, 1)
  /\ Is({"LUI", "AUIPC"}) =>
       /\ imm % 2 ^ 12 = 0 /\ InRange(imm \div 2 ^ 12, 20)
       /\ Encodes(imm \div 2 ^ 12, 0, 12, 20)
  /\ Is({"JAL"}) =>
       /\ InRange(imm, 21) /\ BitOf(imm, 0) = 0
       /\ Encodes(imm, 20, 31, 1) /\ Encodes(imm, 1, 21, 10)
       /\ Encodes(imm, 11, 20, 1) /\ Encodes(imm, 12, 12, 8)

(***************************************************************************)
(* Fetch follows a predicted branch to the address the execution unit will *)
(* compute from the decoder's immediate, although it extracts the offset   *)
(* by other masks and shifts of its own (predict_next_pc, fetch_unit.cpp). *)
(***************************************************************************)
FetchAgreesWithDecode ==
  packet.opcode \in {"JAL", "BRANCH"} => FetchOffset(inst) = packet.imm

(***************************************************************************)
(* Backward taken, forward not taken: the static predictor, which reads    *)
(* the word as a B-type one, finds the sign of the decoder's immediate in  *)
(* all three formats.  For BRANCH and JAL that is the direction of the     *)
(* branch; the offset of JALR is one from a register, and its sign says    *)
(* nothing of where the jump goes.                                         *)
(***************************************************************************)
StaticPredictsBackward ==
  packet.opcode \in {"JAL", "JALR", "BRANCH"} =>
    (StaticPredict(inst) <=> packet.imm < 0)

=============================================================================
