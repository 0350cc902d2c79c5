------------------------ MODULE BranchPredictorSpec -------------------------
(***************************************************************************)
(* The branch predictor under every sequence of calls: predict() from the  *)
(* fetch process, update() from the processor's clock process, with any    *)
(* branch and any outcome, since the two are not paired: a branch resolves *)
(* edges after it was fetched, or was fetched on a wrong path.  (Today     *)
(* clock_proc reports taken branches only, and nothing calls               *)
(* reset_stats(); the class is checked for its whole interface.)           *)
(*                                                                         *)
(* Two history variables remember what the object does not: for each       *)
(* table entry, how often in a row it was last updated with the same       *)
(* outcome, and the last GHR_BITS outcomes of all.                         *)
(***************************************************************************)
EXTENDS BranchPredictor, Sequences

CONSTANTS
  GHR_BITS,   \* the width of the global history register (8): `1 << ghr_bits' is an int
  Types,      \* the schemes under consideration
  PCs,        \* the addresses of branches
  MaxCount    \* bound on the two statistics counters

ASSUME SpecAssumption ==
  /\ GHR_BITS \in 0 .. 30 /\ GHR_SIZE = 2 ^ GHR_BITS
  /\ Types \subseteq PredictorType
  /\ PCs \subseteq Nat
  /\ MaxCount \in Nat
  /\ \A pc \in PCs, h \in 0 .. GHR_SIZE - 1 : HashXor(pc \div 4, h) \in Nat

VARIABLES
  bp,
  runs,       \* [table -> [entry -> its last run of equal outcomes]]
  outcomes    \* the last GHR_BITS outcomes

vars == <<bp, runs, outcomes>>

Instructions == [opcode : {"BRANCH", "OP"}, negative : BOOLEAN]

Init ==
  /\ \E type \in Types : bp = BpInit(type)
  /\ runs = [t \in {"bht", "pht"} |->
               [i \in TableIndex |-> [taken |-> FALSE, length |-> 0]]]
  /\ outcomes = <<>>

Predict == \E inst \in Instructions :
  /\ bp.total_predictions < MaxCount
  /\ bp' = BpAfterPredict(bp, inst)
  /\ UNCHANGED <<runs, outcomes>>

\* The last n elements of s with e appended
LastOf(s, e, n) ==
  LET t == Append(s, e) IN IF Len(t) <= n THEN t ELSE Tail(t)

\* A run with one more outcome; its length is counted up to three.
Extended(run, taken) ==
  [taken |-> taken,
   length |-> IF run.taken # taken THEN 1
              ELSE IF run.length = 3 THEN 3 ELSE run.length + 1]

Update(pc, taken) ==
  /\ bp.correct_predictions < MaxCount
  /\ bp' = BpUpdate(bp, pc, taken)
  /\ runs' = [runs EXCEPT !.bht[BhtIndex(bp, pc)] = Extended(@, taken),
                          !.pht[PhtIndex(bp, pc)] = Extended(@, taken)]
  /\ outcomes' = LastOf(outcomes, taken, GHR_BITS)

ResetStats == bp' = BpResetStats(bp) /\ UNCHANGED <<runs, outcomes>>

Next ==
  \/ Predict
  \/ \E pc \in PCs, taken \in BOOLEAN : Update(pc, taken)
  \/ ResetStats

Spec == Init /\ [][Next]_vars

-----------------------------------------------------------------------------
\* Type invariant: the counters saturate and the history keeps its width, so
\* every index computed from them is inside its table.
BpTypeOK == bp \in
  [predictor_type : PredictorType,
   bht : [TableIndex -> STRONGLY_NOT_TAKEN .. STRONGLY_TAKEN],
   pht : [TableIndex -> STRONGLY_NOT_TAKEN .. STRONGLY_TAKEN],
   ghr : 0 .. GHR_SIZE - 1,
   total_predictions : 0 .. MaxCount, correct_predictions : 0 .. MaxCount]

PredictedAt(pc, state) == BpPrediction(state, pc, [opcode |-> "BRANCH", negative |-> FALSE])

\* The run of outcomes behind the prediction for the branch at pc
RunBehind(pc) ==
  IF \/ bp.predictor_type = "GSHARE"
     \/ bp.predictor_type = "TOURNAMENT" /\ (pc \div 256) % 2 = 1
  THEN runs.pht[PhtIndex(bp, pc)] ELSE runs.bht[BhtIndex(bp, pc)]

HasTwoBitCounters == bp.predictor_type \in {"TWO_BIT", "GSHARE", "TOURNAMENT"}

(***************************************************************************)
(* Learning: whatever branches share its entry, a one-bit prediction is    *)
(* the entry's last outcome, and a two-bit one is an outcome the entry has *)
(* just seen twice, from every state its history may have left it in.      *)
(***************************************************************************)
EntriesFollowOutcomes == \A pc \in PCs :
  /\ bp.predictor_type = "ONE_BIT" /\ RunBehind(pc).length > 0
       => PredictedAt(pc, bp) = RunBehind(pc).taken
  /\ HasTwoBitCounters /\ RunBehind(pc).length >= 2
       => PredictedAt(pc, bp) = RunBehind(pc).taken

(***************************************************************************)
(* Hysteresis: an entry that has seen an outcome three times in a row      *)
(* keeps predicting it through one deviating outcome, such as the exit of  *)
(* a loop, as long as the global history leads to the same entry.  (Twice  *)
(* is not enough: from the opposite strong state the second outcome leads  *)
(* to a weak one.)                                                         *)
(***************************************************************************)
EntriesAreSlowToTurn ==
  [][\A pc \in PCs :
       HasTwoBitCounters /\ RunBehind(pc).length = 3 /\ bp'.ghr = bp.ghr
         => PredictedAt(pc, bp') = RunBehind(pc).taken]_vars

(***************************************************************************)
(* The global history register, a number of GHR_BITS bits, holds exactly   *)
(* the last GHR_BITS outcomes: bit k tells whether the branch k updates    *)
(* before the latest was taken, and is 0 while there was none.  Gshare and *)
(* tournament index with it.                                               *)
(***************************************************************************)
HistoryIsTheLastOutcomes ==
  bp.predictor_type \in {"GSHARE", "TOURNAMENT"} =>
    \A k \in 0 .. GHR_BITS - 1 :
      (bp.ghr \div 2 ^ k) % 2 = 1 <=> k < Len(outcomes) /\ outcomes[Len(outcomes) - k]

\* The tournament predictor's answer comes from one of its two components;
\* this is whether the other one was right.
OtherComponentRight(pc, taken) ==
  /\ bp.predictor_type = "TOURNAMENT"
  /\ IF (pc \div 256) % 2 = 1 THEN BhtTaken(bp, pc) = taken ELSE PhtTaken(bp, pc) = taken

KnowsTheInstruction == bp.predictor_type # "STATIC_BTFN"

(***************************************************************************)
(* "Check if prediction was correct before updating" (update() of          *)
(* branch_predictor.cpp): an outcome that predict() would have answered    *)
(* until now is counted, by every scheme but the static one, whose         *)
(* update() does not know the instruction.  What is counted was a hit, but *)
(* for two schemes that count too much: one-bit, which compares after the  *)
(* entry has been set to the outcome, and tournament, which also counts a  *)
(* hit of the component that it did not follow.                            *)
(***************************************************************************)
CountsHits ==
  [][\A pc \in PCs, taken \in BOOLEAN :
       LET counted == bp'.correct_predictions - bp.correct_predictions
           hit == PredictedAt(pc, bp) = taken
       IN  KnowsTheInstruction /\ Update(pc, taken) =>
             /\ counted \in {0, 1}
             /\ hit => counted = 1
             /\ counted = 1 /\ bp.predictor_type # "ONE_BIT"
                  => hit \/ OtherComponentRight(pc, taken)]_vars

=============================================================================
