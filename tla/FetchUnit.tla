------------------------------ MODULE FetchUnit ------------------------------
(***************************************************************************)
(* class FetchUnit (fetch_unit.h, fetch_unit.cpp): what it computes of its *)
(* predictor and of the memory.  Its process is part of module Processor.  *)
(*                                                                         *)
(* An instruction word is a number, and Fields(inst) is what the decoder   *)
(* extracts from it: opcode, funct3, funct7, rs1, rs2, rd and imm (module  *)
(* DecodeUnit).  Fetch looks at the opcode and extracts the offsets of JAL *)
(* and BRANCH by itself; it finds the decoder's imm                        *)
(* (DecodeUnitSpec!FetchAgreesWithDecode).                                 *)
(***************************************************************************)
EXTENDS BranchPredictor, MemorySystem

CONSTANT Fields(_)

\* What predict() looks at, of an instruction word
Predictable(inst) ==
  [opcode |-> Fields(inst).opcode, negative |-> Fields(inst).imm < 0]

\* Mutant: the offset is added whatever the predictor says.
NextPcByOffset(bp, from, inst) ==
  IF Fields(inst).opcode \in {"JAL", "BRANCH"}
  THEN (from + Fields(inst).imm) % WORD ELSE (from + 4) % WORD

\* Mutant: the address does not wrap around.
NextPcUnwrapped(bp, from, inst) ==
  IF BpPrediction(bp, from, Predictable(inst)) /\ Fields(inst).opcode # "JALR"
  THEN from + Fields(inst).imm ELSE from + 4

(***************************************************************************)
(* predict_next_pc(): a JALR predicted taken has no target yet, so fetch   *)
(* goes on behind it.                                                      *)
(***************************************************************************)
PredictNextPc(bp, from, inst) ==
  IF BpPrediction(bp, from, Predictable(inst)) /\ Fields(inst).opcode # "JALR"
  THEN (from + Fields(inst).imm) % WORD
  ELSE (from + 4) % WORD

=============================================================================
