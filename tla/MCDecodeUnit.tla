---------------------------- MODULE MCDecodeUnit -----------------------------
(***************************************************************************)
(* The instance of DecodeUnitSpec for TLC: words of all ten opcodes, of no *)
(* opcode at all, and of the number (116) that the enumerator UNKNOWN      *)
(* happens to have, whose operand bits are all 0 or all 1 but for one, or  *)
(* for two neighbours.                                                     *)
(***************************************************************************)
EXTENDS DecodeUnitSpec

AllOpcodes == {OpcodeBits[o] : o \in DOMAIN OpcodeBits} \union {0, 116}

\* What bit b contributes to the number
Weight(b) == IF b = 31 THEN -(2 ^ 30) - 2 ^ 30 ELSE 2 ^ b

Patterns ==
  {0} \union {Weight(b) : b \in 7 .. 31} \union {Weight(b) + Weight(b + 1) : b \in 7 .. 30}

MCWords ==
  {opcode + pattern : opcode \in AllOpcodes, pattern \in Patterns}
    \union {opcode - 128 - pattern : opcode \in AllOpcodes, pattern \in Patterns}

=============================================================================
