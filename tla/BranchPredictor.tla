-------------------------- MODULE BranchPredictor ---------------------------
(***************************************************************************)
(* class BranchPredictor (branch_predictor.h, branch_predictor.cpp): seven *)
(* schemes behind predict() and update().  The object's fields are the     *)
(* fields of a record `bp'; bht stands for bht_one_bit or bht_two_bit,     *)
(* whichever the scheme has, and a table the scheme has not keeps its      *)
(* initial contents.                                                       *)
(*                                                                         *)
(* Of an instruction, predict() looks at the opcode and, through the sign  *)
(* of the offset, at bit 31: `negative'.                                   *)
(***************************************************************************)
EXTENDS Integers

CONSTANTS
  BHT_SIZE,    \* entries of each table, a power of two (1024)
  GHR_SIZE,    \* values of the global history register, 1 << ghr_bits (2^8)
  HashXor(_, _)    \* the operator ^ on unsigned integers

TableIndex == 0 .. BHT_SIZE - 1

ASSUME PredictorAssumption ==
  /\ BHT_SIZE \in Nat \ {0}
  /\ GHR_SIZE \in Nat \ {0}

PredictorType ==
  {"ALWAYS_NOT_TAKEN", "ALWAYS_TAKEN", "STATIC_BTFN", "ONE_BIT", "TWO_BIT",
   "GSHARE", "TOURNAMENT"}

\* TwoBitState
STRONGLY_NOT_TAKEN == 0
WEAKLY_NOT_TAKEN == 1
WEAKLY_TAKEN == 2
STRONGLY_TAKEN == 3

\* init_predictor(), which the constructor ends with
BpInit(type) ==
  [predictor_type |-> type,
   bht |-> [i \in TableIndex |-> IF type = "ONE_BIT" THEN 0 ELSE WEAKLY_NOT_TAKEN],
   pht |-> [i \in TableIndex |-> WEAKLY_NOT_TAKEN],
   ghr |-> 0, total_predictions |-> 0, correct_predictions |-> 0]

BhtIndex(bp, pc) == (pc \div 4) % BHT_SIZE
PhtIndex(bp, pc) == HashXor(pc \div 4, bp.ghr) % BHT_SIZE

BhtTaken(bp, pc) == bp.bht[BhtIndex(bp, pc)] >= WEAKLY_TAKEN
PhtTaken(bp, pc) == bp.pht[PhtIndex(bp, pc)] >= WEAKLY_TAKEN

IsBranchOpcode(opcode) == opcode \in {"BRANCH", "JAL", "JALR"}

\* The value predict() returns
BpPrediction(bp, pc, inst) ==
  /\ IsBranchOpcode(inst.opcode)
  /\ CASE bp.predictor_type = "ALWAYS_NOT_TAKEN" -> FALSE
       [] bp.predictor_type = "ALWAYS_TAKEN"     -> TRUE
       [] bp.predictor_type = "STATIC_BTFN"      -> inst.negative
       [] bp.predictor_type = "ONE_BIT"          -> bp.bht[BhtIndex(bp, pc)] = 1
       [] bp.predictor_type = "TWO_BIT"          -> BhtTaken(bp, pc)
       [] bp.predictor_type = "GSHARE"           -> PhtTaken(bp, pc)
       [] bp.predictor_type = "TOURNAMENT"       ->
            IF (pc \div 256) % 2 = 1 THEN PhtTaken(bp, pc) ELSE BhtTaken(bp, pc)

\* Mutant: the call is counted before the instruction is looked at.
BpAfterAnyPredict(bp, inst) == [bp EXCEPT !.total_predictions = @ + 1]

\* What predict() does to the object
BpAfterPredict(bp, inst) ==
  IF IsBranchOpcode(inst.opcode) THEN [bp EXCEPT !.total_predictions = @ + 1] ELSE bp

\* Mutant: the counter does not saturate.
CountedWithoutLimit(counter, taken) == IF taken THEN counter + 1 ELSE counter - 1

\* Mutant: the counter jumps between the two weak states, as one bit would.
CountedToWeak(counter, taken) ==
  IF taken THEN WEAKLY_TAKEN ELSE WEAKLY_NOT_TAKEN

\* Two-bit saturating counter
Counted(counter, taken) ==
  IF taken THEN IF counter # STRONGLY_TAKEN THEN counter + 1 ELSE counter
           ELSE IF counter # STRONGLY_NOT_TAKEN THEN counter - 1 ELSE counter

\* Mutant: the history keeps one bit too many.
ShiftedUnmasked(ghr, taken) == (2 * ghr + IF taken THEN 1 ELSE 0) % (2 * GHR_SIZE)

\* Mutant: the outcomes enter at the wrong end.
ShiftedFromTheTop(ghr, taken) ==
  ghr \div 2 + IF taken THEN GHR_SIZE \div 2 ELSE 0

ShiftedHistory(ghr, taken) == (2 * ghr + IF taken THEN 1 ELSE 0) % GHR_SIZE

\* Mutant: the counters are tested after they were updated.
CountsAsUpdated(bp, pc, taken) ==
  CASE bp.predictor_type = "TWO_BIT" ->
         (Counted(bp.bht[BhtIndex(bp, pc)], taken) >= WEAKLY_TAKEN) = taken
    [] bp.predictor_type = "GSHARE" ->
         (Counted(bp.pht[PhtIndex(bp, pc)], taken) >= WEAKLY_TAKEN) = taken
    [] OTHER -> TRUE

(***************************************************************************)
(* Whether update() counts the outcome as predicted correctly.  For        *)
(* ONE_BIT the test comes after the entry was set to the outcome, so it    *)
(* always succeeds; for STATIC_BTFN it asks for the prediction of          *)
(* instruction 0, whose bit 31 is 0.                                       *)
(***************************************************************************)
CountsAsCorrect(bp, pc, taken) ==
  CASE bp.predictor_type = "ALWAYS_NOT_TAKEN" -> ~taken
    [] bp.predictor_type = "ALWAYS_TAKEN"     -> taken
    [] bp.predictor_type = "STATIC_BTFN"      -> taken = FALSE
    [] bp.predictor_type = "ONE_BIT"          -> TRUE
    [] bp.predictor_type = "TWO_BIT"          -> BhtTaken(bp, pc) = taken
    [] bp.predictor_type = "GSHARE"           -> PhtTaken(bp, pc) = taken
    [] bp.predictor_type = "TOURNAMENT"       ->
         BhtTaken(bp, pc) = taken \/ PhtTaken(bp, pc) = taken

BpUpdate(bp, pc, taken) ==
  LET type == bp.predictor_type IN
  [bp EXCEPT
     !.bht[BhtIndex(bp, pc)] =
        IF type = "ONE_BIT" THEN IF taken THEN 1 ELSE 0
        ELSE IF type \in {"TWO_BIT", "TOURNAMENT"} THEN Counted(@, taken) ELSE @,
     !.pht[PhtIndex(bp, pc)] =
        IF type \in {"GSHARE", "TOURNAMENT"} THEN Counted(@, taken) ELSE @,
     !.ghr =
        IF type \in {"GSHARE", "TOURNAMENT"} THEN ShiftedHistory(@, taken) ELSE @,
     !.correct_predictions =
        IF CountsAsCorrect(bp, pc, taken) THEN @ + 1 ELSE @]

BpResetStats(bp) == [bp EXCEPT !.total_predictions = 0, !.correct_predictions = 0]

=============================================================================
