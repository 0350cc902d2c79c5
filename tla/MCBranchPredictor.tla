------------------------- MODULE MCBranchPredictor --------------------------
(***************************************************************************)
(* Model-checking instances of BranchPredictorSpec: addresses that share a *)
(* table entry, that do not, and that differ in the bit 0x100 by which the *)
(* tournament predictor chooses.                                           *)
(***************************************************************************)
EXTENDS BranchPredictorSpec, WordOperators

MCPCs == {0, 4, 256}
TableTypes == PredictorType

=============================================================================
