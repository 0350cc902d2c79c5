----------------------- MODULE BranchPredictorProofs ------------------------
(***************************************************************************)
(* For tables of every size, and histories as wide as the code can shift:  *)
(* the two-bit counters saturate, the history keeps its width and holds    *)
(* the last outcomes, and every index computed from them stays inside its  *)
(* table, under every sequence of the predictor's calls; what the counters *)
(* have learned, and which outcomes are counted as predicted.              *)
(***************************************************************************)
EXTENDS BranchPredictorSpec, ArithmeticLemmas, TLAPS

Counter == STRONGLY_NOT_TAKEN .. STRONGLY_TAKEN

\* A two-bit counter stays one whatever the outcome.
LEMMA CountedBounds ==
  ASSUME NEW counter \in Counter, NEW taken \in BOOLEAN
  PROVE  Counted(counter, taken) \in Counter
BY DEF Counter, Counted, STRONGLY_NOT_TAKEN, STRONGLY_TAKEN

\* The shifted history is masked to its width.
LEMMA HistoryBounds ==
  ASSUME NEW ghr \in Nat, NEW taken \in BOOLEAN
  PROVE  ShiftedHistory(ghr, taken) \in 0 .. GHR_SIZE - 1
<1>1. GHR_SIZE \in Nat \ {0}  BY PredictorAssumption
<1>2. 2 * ghr + (IF taken THEN 1 ELSE 0) \in Int  BY SMT
<1> QED  BY <1>1, <1>2, SMT DEF ShiftedHistory

\* Both hash functions index their tables.
LEMMA IndexBounds ==
  ASSUME BpTypeOK, NEW pc \in PCs
  PROVE  BhtIndex(bp, pc) \in TableIndex /\ PhtIndex(bp, pc) \in TableIndex
<1>1. BHT_SIZE \in Nat \ {0}  BY PredictorAssumption
<1>2. BhtIndex(bp, pc) \in TableIndex
  <2>1. pc \in Nat  BY SpecAssumption
  <2>2. pc \div 4 \in Int  BY <2>1, SMT
  <2> QED  BY <1>1, <2>2, SMT DEF BhtIndex, TableIndex
<1>3. PhtIndex(bp, pc) \in TableIndex
  <2>1. bp.ghr \in 0 .. GHR_SIZE - 1  BY DEF BpTypeOK
  <2>2. HashXor(pc \div 4, bp.ghr) \in Nat  BY <2>1, SpecAssumption
  <2> QED  BY <1>1, <2>2, SMT DEF PhtIndex, TableIndex
<1> QED  BY <1>2, <1>3

\* init_predictor() makes an object of the type, for every scheme.
LEMMA InitialType == Init => BpTypeOK
<1> SUFFICES ASSUME Init PROVE BpTypeOK  OBVIOUS
<1>1. PICK type \in Types : bp = BpInit(type)  BY DEF Init
<1>2. type \in PredictorType  BY SpecAssumption
<1>3. GHR_SIZE \in Nat \ {0} /\ MaxCount \in Nat
  BY PredictorAssumption, SpecAssumption
<1> QED
  BY <1>1, <1>2, <1>3
  DEF BpTypeOK, BpInit, STRONGLY_NOT_TAKEN, STRONGLY_TAKEN, WEAKLY_NOT_TAKEN

\* predict() only counts.
LEMMA PredictKeepsType == BpTypeOK /\ Predict => BpTypeOK'
<1> SUFFICES ASSUME BpTypeOK, Predict PROVE BpTypeOK'  OBVIOUS
<1>1. PICK inst \in Instructions :
        bp.total_predictions < MaxCount /\ bp' = BpAfterPredict(bp, inst)
  BY DEF Predict
<1>2. bp.total_predictions + 1 \in 0 .. MaxCount
  BY <1>1, SpecAssumption DEF BpTypeOK
<1>3. CASE IsBranchOpcode(inst.opcode)
  <2>1. bp' = [bp EXCEPT !.total_predictions = @ + 1]
    BY <1>1, <1>3 DEF BpAfterPredict
  <2> QED  BY <1>2, <2>1 DEF BpTypeOK
<1>4. CASE ~IsBranchOpcode(inst.opcode)
  BY <1>1, <1>4 DEF BpAfterPredict, BpTypeOK
<1> QED  BY <1>3, <1>4

\* reset_stats() only clears the counts.
LEMMA ResetStatsKeepsType == BpTypeOK /\ ResetStats => BpTypeOK'
<1>1. 0 \in 0 .. MaxCount  BY SpecAssumption
<1> QED  BY <1>1 DEF BpTypeOK, ResetStats, BpResetStats

\* What update() does, field by field
NewBht(pc, taken) ==
  [bp.bht EXCEPT ![BhtIndex(bp, pc)] =
     IF bp.predictor_type = "ONE_BIT" THEN IF taken THEN 1 ELSE 0
     ELSE IF bp.predictor_type \in {"TWO_BIT", "TOURNAMENT"} THEN Counted(@, taken) ELSE @]

NewPht(pc, taken) ==
  [bp.pht EXCEPT ![PhtIndex(bp, pc)] =
     IF bp.predictor_type \in {"GSHARE", "TOURNAMENT"} THEN Counted(@, taken) ELSE @]

LEMMA UpdateIs ==
  ASSUME BpTypeOK, NEW pc, NEW taken, Update(pc, taken)
  PROVE  bp' = [predictor_type |-> bp.predictor_type,
                bht |-> NewBht(pc, taken), pht |-> NewPht(pc, taken),
                ghr |-> IF bp.predictor_type \in {"GSHARE", "TOURNAMENT"}
                        THEN ShiftedHistory(bp.ghr, taken) ELSE bp.ghr,
                total_predictions |-> bp.total_predictions,
                correct_predictions |-> IF CountsAsCorrect(bp, pc, taken)
                                        THEN bp.correct_predictions + 1
                                        ELSE bp.correct_predictions]
<1>1. bp' = BpUpdate(bp, pc, taken)  BY DEF Update
<1> QED  BY <1>1 DEF BpUpdate, BpTypeOK, NewBht, NewPht

\* update() changes one counter, the history and the count of correct
\* predictions, which the specification bounds.
LEMMA UpdateKeepsType ==
  ASSUME BpTypeOK, NEW pc \in PCs, NEW taken \in BOOLEAN, Update(pc, taken)
  PROVE  BpTypeOK'
<1>1. BhtIndex(bp, pc) \in TableIndex /\ PhtIndex(bp, pc) \in TableIndex
  BY IndexBounds
<1>2. bp.bht \in [TableIndex -> Counter] /\ bp.pht \in [TableIndex -> Counter]
  BY DEF BpTypeOK, Counter
<1>3. /\ Counted(bp.bht[BhtIndex(bp, pc)], taken) \in Counter
      /\ Counted(bp.pht[PhtIndex(bp, pc)], taken) \in Counter
  BY <1>1, <1>2, CountedBounds
<1>4. 0 \in Counter /\ 1 \in Counter
  BY DEF Counter, STRONGLY_NOT_TAKEN, STRONGLY_TAKEN
<1>5. NewBht(pc, taken) \in [TableIndex -> Counter]
  BY <1>1, <1>2, <1>3, <1>4 DEF NewBht
<1>6. NewPht(pc, taken) \in [TableIndex -> Counter]
  BY <1>1, <1>2, <1>3 DEF NewPht
<1>7. bp.ghr \in Nat /\ bp.ghr \in 0 .. GHR_SIZE - 1  BY PredictorAssumption DEF BpTypeOK
<1>8. ShiftedHistory(bp.ghr, taken) \in 0 .. GHR_SIZE - 1  BY <1>7, HistoryBounds
<1>9. /\ bp.correct_predictions \in 0 .. MaxCount
      /\ bp.correct_predictions + 1 \in 0 .. MaxCount
  BY SpecAssumption DEF BpTypeOK, Update
<1> QED
  BY <1>5, <1>6, <1>7, <1>8, <1>9, UpdateIs DEF BpTypeOK, Counter

\* Every step keeps the type.
LEMMA NextKeepsType == BpTypeOK /\ [Next]_vars => BpTypeOK'
<1> SUFFICES ASSUME BpTypeOK, [Next]_vars PROVE BpTypeOK'  OBVIOUS
<1>1. CASE Predict  BY <1>1, PredictKeepsType
<1>2. CASE \E pc \in PCs, taken \in BOOLEAN : Update(pc, taken)
  BY <1>2, UpdateKeepsType
<1>3. CASE ResetStats  BY <1>3, ResetStatsKeepsType
<1>4. CASE UNCHANGED vars  BY <1>4 DEF vars, BpTypeOK
<1> QED  BY <1>1, <1>2, <1>3, <1>4 DEF Next

\* For tables of every size and every hash function: the counters saturate
\* and every index stays inside its table (predict() and update()).
THEOREM PredictorTypeCorrect == Spec => []BpTypeOK
<1> QED  BY InitialType, NextKeepsType, PTL DEF Spec

-----------------------------------------------------------------------------
(***************************************************************************)
(* Learning.  That a counter predicts an outcome it has seen twice in a    *)
(* row is not inductive: after the second outcome it is known to be on the *)
(* right side only if after the first one it was not at the opposite end,  *)
(* and after the third it is at the near end, from where one deviating     *)
(* outcome does not turn it.                                               *)
(***************************************************************************)
Run == [taken : BOOLEAN, length : 0 .. 3]

RunsTypeOK == runs \in [{"bht", "pht"} -> [TableIndex -> Run]]

Learned(counter, run) ==
  /\ run.length >= 1 => IF run.taken THEN counter >= 1 ELSE counter <= 2
  /\ run.length >= 2 => IF run.taken THEN counter >= 2 ELSE counter <= 1
  /\ run.length >= 3 => IF run.taken THEN counter = 3 ELSE counter = 0

EntriesLearned == \A i \in TableIndex :
  /\ bp.predictor_type = "ONE_BIT" /\ runs.bht[i].length > 0
       => bp.bht[i] = IF runs.bht[i].taken THEN 1 ELSE 0
  /\ bp.predictor_type \in {"TWO_BIT", "TOURNAMENT"} => Learned(bp.bht[i], runs.bht[i])
  /\ bp.predictor_type \in {"GSHARE", "TOURNAMENT"} => Learned(bp.pht[i], runs.pht[i])

LearningInv == BpTypeOK /\ RunsTypeOK /\ EntriesLearned

\* A run grows by one or starts again.
LEMMA ExtendedType ==
  ASSUME NEW run \in Run, NEW taken \in BOOLEAN
  PROVE  Extended(run, taken) \in Run
BY DEF Run, Extended

\* One outcome more keeps counter and run in step.
LEMMA CountedLearns ==
  ASSUME NEW counter \in Counter, NEW run \in Run, NEW taken \in BOOLEAN,
         Learned(counter, run)
  PROVE  Learned(Counted(counter, taken), Extended(run, taken))
<1>1. CASE run.taken = taken
  BY <1>1 DEF Learned, Counted, Extended, Run, Counter, STRONGLY_NOT_TAKEN, STRONGLY_TAKEN
<1>2. CASE run.taken # taken
  BY <1>2 DEF Learned, Counted, Extended, Run, Counter, STRONGLY_NOT_TAKEN, STRONGLY_TAKEN
<1> QED  BY <1>1, <1>2

\* At the start no entry has seen an outcome.
LEMMA InitialLearning == Init => LearningInv
<1> SUFFICES ASSUME Init PROVE RunsTypeOK /\ EntriesLearned
  BY InitialType DEF LearningInv
<1>1. RunsTypeOK  BY DEF Init, RunsTypeOK, Run
<1>2. \A i \in TableIndex : runs.bht[i].length = 0 /\ runs.pht[i].length = 0
  BY DEF Init
<1> QED  BY <1>1, <1>2 DEF EntriesLearned, Learned

\* What update() leaves at entry i, and the run that is remembered of it
LEMMA UpdateEntries ==
  ASSUME LearningInv, NEW pc \in PCs, NEW taken \in BOOLEAN, Update(pc, taken),
         NEW i \in TableIndex
  PROVE  /\ bp'.predictor_type = bp.predictor_type
         /\ bp'.bht[i] = NewBht(pc, taken)[i]
         /\ bp'.pht[i] = NewPht(pc, taken)[i]
         /\ runs'.bht[i] = IF i = BhtIndex(bp, pc) THEN Extended(runs.bht[i], taken)
                           ELSE runs.bht[i]
         /\ runs'.pht[i] = IF i = PhtIndex(bp, pc) THEN Extended(runs.pht[i], taken)
                           ELSE runs.pht[i]
<1>1. BpTypeOK /\ RunsTypeOK  BY DEF LearningInv
<1>2. BhtIndex(bp, pc) \in TableIndex /\ PhtIndex(bp, pc) \in TableIndex
  BY <1>1, IndexBounds
<1>3. runs' = [runs EXCEPT !.bht[BhtIndex(bp, pc)] = Extended(@, taken),
                           !.pht[PhtIndex(bp, pc)] = Extended(@, taken)]
  BY DEF Update
<1> QED  BY <1>1, <1>2, <1>3, UpdateIs DEF RunsTypeOK

\* update() keeps every entry in step with the outcomes it has seen.
LEMMA UpdateKeepsLearning ==
  ASSUME LearningInv, NEW pc \in PCs, NEW taken \in BOOLEAN, Update(pc, taken)
  PROVE  LearningInv'
<1>1. BpTypeOK /\ RunsTypeOK /\ EntriesLearned  BY DEF LearningInv
<1>2. BhtIndex(bp, pc) \in TableIndex /\ PhtIndex(bp, pc) \in TableIndex
  BY <1>1, IndexBounds
<1>3. /\ bp.bht \in [TableIndex -> Counter] /\ bp.pht \in [TableIndex -> Counter]
      /\ runs.bht \in [TableIndex -> Run] /\ runs.pht \in [TableIndex -> Run]
  BY <1>1 DEF BpTypeOK, RunsTypeOK, Counter
<1>4. BpTypeOK'  BY <1>1, UpdateKeepsType
<1>5. RunsTypeOK'
  <2>1. /\ Extended(runs.bht[BhtIndex(bp, pc)], taken) \in Run
        /\ Extended(runs.pht[PhtIndex(bp, pc)], taken) \in Run
    BY <1>2, <1>3, ExtendedType
  <2> QED  BY <1>1, <1>2, <2>1 DEF RunsTypeOK, Update
<1>6. EntriesLearned'
  <2> SUFFICES ASSUME NEW i \in TableIndex
               PROVE  /\ bp'.predictor_type = "ONE_BIT" /\ runs'.bht[i].length > 0
                           => bp'.bht[i] = IF runs'.bht[i].taken THEN 1 ELSE 0
                      /\ bp'.predictor_type \in {"TWO_BIT", "TOURNAMENT"}
                           => Learned(bp'.bht[i], runs'.bht[i])
                      /\ bp'.predictor_type \in {"GSHARE", "TOURNAMENT"}
                           => Learned(bp'.pht[i], runs'.pht[i])
    BY DEF EntriesLearned
  <2>1. bp'.predictor_type = bp.predictor_type  BY UpdateEntries
  <2>2. ASSUME bp.predictor_type = "ONE_BIT", runs'.bht[i].length > 0
        PROVE  bp'.bht[i] = IF runs'.bht[i].taken THEN 1 ELSE 0
    <3>1. CASE i = BhtIndex(bp, pc)
      <4>1. bp'.bht[i] = IF taken THEN 1 ELSE 0
        BY <1>2, <1>3, <2>2, <3>1, UpdateEntries DEF NewBht
      <4>2. runs'.bht[i].taken = taken
        <5>1. runs'.bht[i] = Extended(runs.bht[i], taken)  BY <3>1, UpdateEntries
        <5>2. Extended(runs.bht[i], taken).taken = taken  BY DEF Extended
        <5> QED  BY <5>1, <5>2
      <4> QED  BY <4>1, <4>2
    <3>2. CASE i # BhtIndex(bp, pc)
      <4>1. bp'.bht[i] = bp.bht[i] /\ runs'.bht[i] = runs.bht[i]
        BY <1>2, <1>3, <3>2, UpdateEntries DEF NewBht
      <4> QED  BY <1>1, <2>2, <4>1 DEF EntriesLearned
    <3> QED  BY <3>1, <3>2
  <2>3. ASSUME bp.predictor_type \in {"TWO_BIT", "TOURNAMENT"}
        PROVE  Learned(bp'.bht[i], runs'.bht[i])
    <3>1. Learned(bp.bht[i], runs.bht[i])  BY <1>1, <2>3 DEF EntriesLearned
    <3>2. Learned(Counted(bp.bht[i], taken), Extended(runs.bht[i], taken))
      BY <1>3, <3>1, CountedLearns
    <3>3. /\ bp'.bht[i] = IF i = BhtIndex(bp, pc) THEN Counted(bp.bht[i], taken)
                          ELSE bp.bht[i]
          /\ runs'.bht[i] = IF i = BhtIndex(bp, pc) THEN Extended(runs.bht[i], taken)
                            ELSE runs.bht[i]
      BY <1>2, <1>3, <2>3, UpdateEntries DEF NewBht
    <3> QED  BY <3>1, <3>2, <3>3
  <2>4. ASSUME bp.predictor_type \in {"GSHARE", "TOURNAMENT"}
        PROVE  Learned(bp'.pht[i], runs'.pht[i])
    <3>1. Learned(bp.pht[i], runs.pht[i])  BY <1>1, <2>4 DEF EntriesLearned
    <3>2. Learned(Counted(bp.pht[i], taken), Extended(runs.pht[i], taken))
      BY <1>3, <3>1, CountedLearns
    <3>3. /\ bp'.pht[i] = IF i = PhtIndex(bp, pc) THEN Counted(bp.pht[i], taken)
                          ELSE bp.pht[i]
          /\ runs'.pht[i] = IF i = PhtIndex(bp, pc) THEN Extended(runs.pht[i], taken)
                            ELSE runs.pht[i]
      BY <1>2, <1>3, <2>4, UpdateEntries DEF NewPht
    <3> QED  BY <3>1, <3>2, <3>3
  <2> QED  BY <2>1, <2>2, <2>3, <2>4
<1> QED  BY <1>4, <1>5, <1>6 DEF LearningInv

\* The other calls touch neither the tables nor what is remembered of them.
LEMMA OthersKeepLearning ==
  LearningInv /\ (Predict \/ ResetStats \/ UNCHANGED vars) => LearningInv'
<1> SUFFICES ASSUME LearningInv, Predict \/ ResetStats \/ UNCHANGED vars
             PROVE  LearningInv'
  OBVIOUS
<1>1. BpTypeOK /\ RunsTypeOK /\ EntriesLearned  BY DEF LearningInv
<1>2. BpTypeOK'  BY <1>1, NextKeepsType DEF Next
<1>3. /\ bp'.predictor_type = bp.predictor_type
      /\ bp'.bht = bp.bht /\ bp'.pht = bp.pht /\ runs' = runs
  BY <1>1 DEF BpTypeOK, Predict, ResetStats, BpAfterPredict, BpResetStats, vars
<1> QED  BY <1>1, <1>2, <1>3 DEF LearningInv, RunsTypeOK, EntriesLearned

LEMMA NextKeepsLearning == LearningInv /\ [Next]_vars => LearningInv'
BY UpdateKeepsLearning, OthersKeepLearning DEF Next

LEMMA LearningCorrect == Spec => []LearningInv
<1> QED  BY InitialLearning, NextKeepsLearning, PTL DEF Spec

\* Which table predict() asks, for the schemes with two-bit counters
TwoBitSchemes == {"TWO_BIT", "GSHARE", "TOURNAMENT"}

ByHistory(state, pc) ==
  \/ state.predictor_type = "GSHARE"
  \/ state.predictor_type = "TOURNAMENT" /\ (pc \div 256) % 2 = 1

LEMMA PredictedByTable ==
  ASSUME NEW state, NEW pc, state.predictor_type \in TwoBitSchemes
  PROVE  /\ PredictedAt(pc, state) \in BOOLEAN
         /\ ByHistory(state, pc) => (PredictedAt(pc, state) <=> PhtTaken(state, pc))
         /\ ~ByHistory(state, pc) => (PredictedAt(pc, state) <=> BhtTaken(state, pc))
<1>1. IsBranchOpcode("BRANCH")  BY DEF IsBranchOpcode
<1>2. PredictedAt(pc, state) \in BOOLEAN  BY DEF PredictedAt, BpPrediction
<1>3. CASE state.predictor_type = "TWO_BIT"
  BY <1>1, <1>2, <1>3 DEF PredictedAt, BpPrediction, ByHistory
<1>4. CASE state.predictor_type = "GSHARE"
  BY <1>1, <1>2, <1>4 DEF PredictedAt, BpPrediction, ByHistory
<1>5. CASE state.predictor_type = "TOURNAMENT" /\ (pc \div 256) % 2 = 1
  BY <1>1, <1>2, <1>5 DEF PredictedAt, BpPrediction, ByHistory
<1>6. CASE state.predictor_type = "TOURNAMENT" /\ (pc \div 256) % 2 # 1
  BY <1>1, <1>2, <1>6 DEF PredictedAt, BpPrediction, ByHistory
<1> QED  BY <1>3, <1>4, <1>5, <1>6 DEF TwoBitSchemes

\* The entry behind a two-bit prediction, and what it has learned
LEMMA EntryBehind ==
  ASSUME LearningInv, NEW pc \in PCs, HasTwoBitCounters
  PROVE  /\ bp.predictor_type \in TwoBitSchemes
         /\ RunBehind(pc) \in Run
         /\ ByHistory(bp, pc) =>
              /\ bp.pht[PhtIndex(bp, pc)] \in Counter
              /\ Learned(bp.pht[PhtIndex(bp, pc)], RunBehind(pc))
         /\ ~ByHistory(bp, pc) =>
              /\ bp.bht[BhtIndex(bp, pc)] \in Counter
              /\ Learned(bp.bht[BhtIndex(bp, pc)], RunBehind(pc))
<1>1. BpTypeOK /\ RunsTypeOK /\ EntriesLearned  BY DEF LearningInv
<1>2. BhtIndex(bp, pc) \in TableIndex /\ PhtIndex(bp, pc) \in TableIndex
  BY <1>1, IndexBounds
<1>3. /\ bp.bht[BhtIndex(bp, pc)] \in Counter /\ bp.pht[PhtIndex(bp, pc)] \in Counter
      /\ runs.bht[BhtIndex(bp, pc)] \in Run /\ runs.pht[PhtIndex(bp, pc)] \in Run
  BY <1>1, <1>2 DEF BpTypeOK, RunsTypeOK, Counter
<1>4. bp.predictor_type \in TwoBitSchemes  BY DEF HasTwoBitCounters, TwoBitSchemes
<1>5. CASE ByHistory(bp, pc)
  <2>1. RunBehind(pc) = runs.pht[PhtIndex(bp, pc)]  BY <1>5 DEF RunBehind, ByHistory
  <2>2. Learned(bp.pht[PhtIndex(bp, pc)], runs.pht[PhtIndex(bp, pc)])
    BY <1>1, <1>2, <1>5 DEF EntriesLearned, ByHistory
  <2> QED  BY <1>3, <1>4, <1>5, <2>1, <2>2
<1>6. CASE ~ByHistory(bp, pc)
  <2>1. RunBehind(pc) = runs.bht[BhtIndex(bp, pc)]  BY <1>6 DEF RunBehind, ByHistory
  <2>2. Learned(bp.bht[BhtIndex(bp, pc)], runs.bht[BhtIndex(bp, pc)])
    BY <1>1, <1>2, <1>4, <1>6 DEF EntriesLearned, ByHistory, TwoBitSchemes
  <2> QED  BY <1>3, <1>4, <1>6, <2>1, <2>2
<1> QED  BY <1>5, <1>6

\* What predict() answers is what the entry behind it has learned.
LEMMA LearnedIsPredicted == LearningInv => EntriesFollowOutcomes
<1> SUFFICES ASSUME LearningInv, NEW pc \in PCs
             PROVE  /\ bp.predictor_type = "ONE_BIT" /\ RunBehind(pc).length > 0
                         => PredictedAt(pc, bp) = RunBehind(pc).taken
                    /\ HasTwoBitCounters /\ RunBehind(pc).length >= 2
                         => PredictedAt(pc, bp) = RunBehind(pc).taken
  BY DEF EntriesFollowOutcomes
<1>1. BpTypeOK /\ RunsTypeOK /\ EntriesLearned  BY DEF LearningInv
<1>2. BhtIndex(bp, pc) \in TableIndex  BY <1>1, IndexBounds
<1>3. ASSUME bp.predictor_type = "ONE_BIT", RunBehind(pc).length > 0
      PROVE  PredictedAt(pc, bp) = RunBehind(pc).taken
  <2> DEFINE b == bp.bht[BhtIndex(bp, pc)]
             r == runs.bht[BhtIndex(bp, pc)]
  <2>1. RunBehind(pc) = r  BY <1>3 DEF RunBehind
  <2>2. PredictedAt(pc, bp) = (b = 1)
    BY <1>3 DEF PredictedAt, BpPrediction, IsBranchOpcode
  <2>3. b = IF r.taken THEN 1 ELSE 0
    BY <1>1, <1>2, <1>3, <2>1 DEF EntriesLearned
  <2>4. r.taken \in BOOLEAN  BY <1>1, <1>2 DEF RunsTypeOK, Run
  <2> QED  BY <2>1, <2>2, <2>3, <2>4
<1>4. ASSUME HasTwoBitCounters, RunBehind(pc).length >= 2
      PROVE  PredictedAt(pc, bp) = RunBehind(pc).taken
  <2>1. RunBehind(pc) \in Run /\ RunBehind(pc).taken \in BOOLEAN
    BY <1>4, EntryBehind DEF Run
  <2>2. PredictedAt(pc, bp) \in BOOLEAN  BY <1>4, EntryBehind, PredictedByTable
  <2>3. CASE ByHistory(bp, pc)
    <3>1. PhtTaken(bp, pc) <=> RunBehind(pc).taken
      BY <1>4, <2>1, <2>3, EntryBehind
      DEF PhtTaken, Learned, Run, Counter, WEAKLY_TAKEN, STRONGLY_TAKEN, STRONGLY_NOT_TAKEN
    <3>2. PredictedAt(pc, bp) <=> PhtTaken(bp, pc)
      BY <1>4, <2>3, EntryBehind, PredictedByTable
    <3> QED  BY <2>1, <2>2, <3>1, <3>2
  <2>4. CASE ~ByHistory(bp, pc)
    <3>1. BhtTaken(bp, pc) <=> RunBehind(pc).taken
      BY <1>4, <2>1, <2>4, EntryBehind
      DEF BhtTaken, Learned, Run, Counter, WEAKLY_TAKEN, STRONGLY_TAKEN, STRONGLY_NOT_TAKEN
    <3>2. PredictedAt(pc, bp) <=> BhtTaken(bp, pc)
      BY <1>4, <2>4, EntryBehind, PredictedByTable
    <3> QED  BY <2>1, <2>2, <3>1, <3>2
  <2> QED  BY <2>3, <2>4
<1> QED  BY <1>3, <1>4

\* For tables of every size, every hash function and every set
\* of branches that share entries: the predictors learn (predict(), update()).
THEOREM LearningFollowsOutcomes == Spec => []EntriesFollowOutcomes
<1> QED  BY LearningCorrect, LearnedIsPredicted, PTL

-----------------------------------------------------------------------------
\* No single call moves an entry by more than one, so one that is at its end
\* stays on its side.
LEMMA StepOfEntry ==
  ASSUME LearningInv, [Next]_vars, NEW i \in TableIndex,
         bp.predictor_type \in TwoBitSchemes
  PROVE  /\ bp'.predictor_type = bp.predictor_type
         /\ \/ bp'.bht[i] = bp.bht[i]
            \/ \E taken \in BOOLEAN : bp'.bht[i] = Counted(bp.bht[i], taken)
         /\ \/ bp'.pht[i] = bp.pht[i]
            \/ \E taken \in BOOLEAN : bp'.pht[i] = Counted(bp.pht[i], taken)
<1>1. BpTypeOK  BY DEF LearningInv
<1>2. CASE Predict \/ ResetStats \/ UNCHANGED vars
  BY <1>1, <1>2
  DEF BpTypeOK, Predict, ResetStats, BpAfterPredict, BpResetStats, vars
<1>3. ASSUME NEW pc \in PCs, NEW taken \in BOOLEAN, Update(pc, taken)
      PROVE  /\ bp'.predictor_type = bp.predictor_type
             /\ bp'.bht[i] \in {bp.bht[i], Counted(bp.bht[i], taken)}
             /\ bp'.pht[i] \in {bp.pht[i], Counted(bp.pht[i], taken)}
  <2>1. /\ bp'.predictor_type = bp.predictor_type
        /\ bp'.bht[i] = NewBht(pc, taken)[i]
        /\ bp'.pht[i] = NewPht(pc, taken)[i]
    BY <1>3, UpdateEntries
  <2>2. /\ bp.bht \in [TableIndex -> Counter] /\ bp.pht \in [TableIndex -> Counter]
        /\ bp.predictor_type # "ONE_BIT"
    BY <1>1 DEF BpTypeOK, Counter, TwoBitSchemes
  <2>3. NewBht(pc, taken)[i] \in {bp.bht[i], Counted(bp.bht[i], taken)}
    BY <2>2 DEF NewBht
  <2>4. NewPht(pc, taken)[i] \in {bp.pht[i], Counted(bp.pht[i], taken)}
    BY <2>2 DEF NewPht
  <2> QED  BY <2>1, <2>3, <2>4
<1> QED  BY <1>2, <1>3 DEF Next

\* A counter at the end to which its run has led it is still on that side
\* after one more outcome.
LEMMA EndIsKept ==
  ASSUME NEW counter \in Counter, NEW run \in Run, Learned(counter, run),
         run.length = 3, NEW taken \in BOOLEAN
  PROVE  /\ counter >= WEAKLY_TAKEN <=> run.taken
         /\ Counted(counter, taken) >= WEAKLY_TAKEN <=> run.taken
BY DEF Learned, Counted, Run, Counter, WEAKLY_TAKEN, STRONGLY_TAKEN, STRONGLY_NOT_TAKEN

LEMMA StepIsSlow == LearningInv /\ [Next]_vars =>
  \A pc \in PCs :
    HasTwoBitCounters /\ RunBehind(pc).length = 3 /\ bp'.ghr = bp.ghr
      => PredictedAt(pc, bp') = RunBehind(pc).taken
<1> SUFFICES ASSUME LearningInv, [Next]_vars, NEW pc \in PCs,
                    HasTwoBitCounters, RunBehind(pc).length = 3, bp'.ghr = bp.ghr
             PROVE  PredictedAt(pc, bp') = RunBehind(pc).taken
  OBVIOUS
<1> DEFINE run == RunBehind(pc)
<1>1. /\ bp.predictor_type \in TwoBitSchemes
      /\ run \in Run /\ run.taken \in BOOLEAN
  BY EntryBehind DEF Run
<1>2. BhtIndex(bp, pc) \in TableIndex /\ PhtIndex(bp, pc) \in TableIndex
  BY IndexBounds DEF LearningInv
<1>3. BhtIndex(bp', pc) = BhtIndex(bp, pc) /\ PhtIndex(bp', pc) = PhtIndex(bp, pc)
  BY DEF BhtIndex, PhtIndex
<1>4. bp'.predictor_type = bp.predictor_type  BY <1>1, <1>2, StepOfEntry
<1>5. PredictedAt(pc, bp') \in BOOLEAN  BY <1>1, <1>4, PredictedByTable
<1>6. CASE ByHistory(bp, pc)
  <2> DEFINE c == bp.pht[PhtIndex(bp, pc)]
             d == bp'.pht[PhtIndex(bp, pc)]
  <2>1. c \in Counter /\ Learned(c, run)  BY <1>6, EntryBehind
  <2>2. d = c \/ \E taken \in BOOLEAN : d = Counted(c, taken)
    BY <1>1, <1>2, StepOfEntry
  <2>3. d >= WEAKLY_TAKEN <=> run.taken  BY <1>1, <2>1, <2>2, EndIsKept
  <2>4. PredictedAt(pc, bp') <=> PhtTaken(bp', pc)
    BY <1>1, <1>4, <1>6, PredictedByTable DEF ByHistory
  <2> QED  BY <1>1, <1>3, <1>5, <2>3, <2>4 DEF PhtTaken
<1>7. CASE ~ByHistory(bp, pc)
  <2> DEFINE c == bp.bht[BhtIndex(bp, pc)]
             d == bp'.bht[BhtIndex(bp, pc)]
  <2>1. c \in Counter /\ Learned(c, run)  BY <1>7, EntryBehind
  <2>2. d = c \/ \E taken \in BOOLEAN : d = Counted(c, taken)
    BY <1>1, <1>2, StepOfEntry
  <2>3. d >= WEAKLY_TAKEN <=> run.taken  BY <1>1, <2>1, <2>2, EndIsKept
  <2>4. PredictedAt(pc, bp') <=> BhtTaken(bp', pc)
    BY <1>1, <1>4, <1>7, PredictedByTable DEF ByHistory
  <2> QED  BY <1>1, <1>3, <1>5, <2>3, <2>4 DEF BhtTaken
<1> QED  BY <1>6, <1>7

\* For tables of every size and every hash function: an entry that has seen an outcome
\* three times predicts it through one deviating outcome (update()).
THEOREM HysteresisCorrect == Spec => EntriesAreSlowToTurn
<1>1. LearningInv /\ [Next]_vars =>
        [\A pc \in PCs :
           HasTwoBitCounters /\ RunBehind(pc).length = 3 /\ bp'.ghr = bp.ghr
             => PredictedAt(pc, bp') = RunBehind(pc).taken]_vars
  BY StepIsSlow
<1> QED  BY <1>1, LearningCorrect, PTL DEF Spec, EntriesAreSlowToTurn

-----------------------------------------------------------------------------
(***************************************************************************)
(* Hits.  predict() and update() look for the scheme's answer each in its  *)
(* own way, and update() before it changes the entry.                      *)
(***************************************************************************)
TestedFirst == {"ALWAYS_NOT_TAKEN", "ALWAYS_TAKEN", "TWO_BIT", "GSHARE"}

LEMMA CountedIfPredicted ==
  ASSUME NEW state, state.predictor_type \in TestedFirst, NEW pc, NEW taken \in BOOLEAN
  PROVE  CountsAsCorrect(state, pc, taken) <=> PredictedAt(pc, state) = taken
<1>1. IsBranchOpcode("BRANCH")  BY DEF IsBranchOpcode
<1>2. CASE state.predictor_type = "ALWAYS_NOT_TAKEN"
  BY <1>1, <1>2 DEF CountsAsCorrect, PredictedAt, BpPrediction
<1>3. CASE state.predictor_type = "ALWAYS_TAKEN"
  BY <1>1, <1>3 DEF CountsAsCorrect, PredictedAt, BpPrediction
<1>4. CASE state.predictor_type = "TWO_BIT"
  <2>1. CountsAsCorrect(state, pc, taken) <=> BhtTaken(state, pc) = taken
    BY <1>4 DEF CountsAsCorrect
  <2>2. /\ PredictedAt(pc, state) \in BOOLEAN /\ BhtTaken(state, pc) \in BOOLEAN
        /\ PredictedAt(pc, state) <=> BhtTaken(state, pc)
    BY <1>4, PredictedByTable DEF TwoBitSchemes, ByHistory, BhtTaken
  <2> QED  BY <2>1, <2>2
<1>5. CASE state.predictor_type = "GSHARE"
  <2>1. CountsAsCorrect(state, pc, taken) <=> PhtTaken(state, pc) = taken
    BY <1>5 DEF CountsAsCorrect
  <2>2. /\ PredictedAt(pc, state) \in BOOLEAN /\ PhtTaken(state, pc) \in BOOLEAN
        /\ PredictedAt(pc, state) <=> PhtTaken(state, pc)
    BY <1>5, PredictedByTable DEF TwoBitSchemes, ByHistory, PhtTaken
  <2> QED  BY <2>1, <2>2
<1> QED  BY <1>2, <1>3, <1>4, <1>5 DEF TestedFirst

\* The tournament scheme counts an outcome that either of its components had,
\* while its answer is that of one of them.
LEMMA TournamentCounts ==
  ASSUME bp.predictor_type = "TOURNAMENT", NEW pc, NEW taken \in BOOLEAN
  PROVE  CountsAsCorrect(bp, pc, taken)
           <=> PredictedAt(pc, bp) = taken \/ OtherComponentRight(pc, taken)
<1>1. CountsAsCorrect(bp, pc, taken) <=> BhtTaken(bp, pc) = taken \/ PhtTaken(bp, pc) = taken
  BY DEF CountsAsCorrect
<1>2. /\ PredictedAt(pc, bp) \in BOOLEAN
      /\ BhtTaken(bp, pc) \in BOOLEAN /\ PhtTaken(bp, pc) \in BOOLEAN
  BY PredictedByTable DEF TwoBitSchemes, BhtTaken, PhtTaken
<1>3. CASE (pc \div 256) % 2 = 1
  <2>1. PredictedAt(pc, bp) <=> PhtTaken(bp, pc)
    BY <1>3, PredictedByTable DEF TwoBitSchemes, ByHistory
  <2>2. OtherComponentRight(pc, taken) <=> BhtTaken(bp, pc) = taken
    BY <1>3 DEF OtherComponentRight
  <2> QED  BY <1>1, <1>2, <2>1, <2>2
<1>4. CASE (pc \div 256) % 2 # 1
  <2>1. PredictedAt(pc, bp) <=> BhtTaken(bp, pc)
    BY <1>4, PredictedByTable DEF TwoBitSchemes, ByHistory
  <2>2. OtherComponentRight(pc, taken) <=> PhtTaken(bp, pc) = taken
    BY <1>4 DEF OtherComponentRight
  <2> QED  BY <1>1, <1>2, <2>1, <2>2
<1> QED  BY <1>3, <1>4

\* What update() counts, for each scheme that knows what it is told about
LEMMA WhatIsCounted ==
  ASSUME BpTypeOK, KnowsTheInstruction, NEW pc, NEW taken \in BOOLEAN
  PROVE  /\ PredictedAt(pc, bp) = taken => CountsAsCorrect(bp, pc, taken)
         /\ CountsAsCorrect(bp, pc, taken) /\ bp.predictor_type # "ONE_BIT"
              => PredictedAt(pc, bp) = taken \/ OtherComponentRight(pc, taken)
<1>1. CASE bp.predictor_type \in TestedFirst
  BY <1>1, CountedIfPredicted
<1>2. CASE bp.predictor_type = "TOURNAMENT"
  BY <1>2, TournamentCounts
<1>3. CASE bp.predictor_type = "ONE_BIT"
  BY <1>3 DEF CountsAsCorrect
<1> QED
  BY <1>1, <1>2, <1>3 DEF BpTypeOK, PredictorType, TestedFirst, KnowsTheInstruction

LEMMA UpdateCountsHits ==
  ASSUME BpTypeOK, KnowsTheInstruction,
         NEW pc \in PCs, NEW taken \in BOOLEAN, Update(pc, taken)
  PROVE  LET counted == bp'.correct_predictions - bp.correct_predictions
             hit == PredictedAt(pc, bp) = taken
         IN  /\ counted \in {0, 1}
             /\ hit => counted = 1
             /\ counted = 1 /\ bp.predictor_type # "ONE_BIT"
                  => hit \/ OtherComponentRight(pc, taken)
<1> DEFINE counted == bp'.correct_predictions - bp.correct_predictions
<1>1. bp'.correct_predictions = IF CountsAsCorrect(bp, pc, taken)
                                THEN bp.correct_predictions + 1 ELSE bp.correct_predictions
  BY UpdateIs
<1>2. bp.correct_predictions \in Int  BY SpecAssumption DEF BpTypeOK
<1>3. counted \in {0, 1} /\ (counted = 1 <=> CountsAsCorrect(bp, pc, taken))
  BY <1>1, <1>2
<1> QED  BY <1>3, WhatIsCounted

\* For every scheme but the static one, and tables of every size: a hit is
\* counted, and what is counted was one, or the scheme is one-bit, or the hit
\* was that of the component the tournament did not follow (update()).
THEOREM HitsCorrect == Spec => CountsHits
<1>1. BpTypeOK =>
        [\A pc \in PCs, taken \in BOOLEAN :
           LET counted == bp'.correct_predictions - bp.correct_predictions
               hit == PredictedAt(pc, bp) = taken
           IN  KnowsTheInstruction /\ Update(pc, taken) =>
                 /\ counted \in {0, 1}
                 /\ hit => counted = 1
                 /\ counted = 1 /\ bp.predictor_type # "ONE_BIT"
                      => hit \/ OtherComponentRight(pc, taken)]_vars
  BY UpdateCountsHits
<1> QED  BY <1>1, PredictorTypeCorrect, PTL DEF CountsHits

-----------------------------------------------------------------------------
(***************************************************************************)
(* The history.  Shifting an outcome in moves every bit of the register up *)
(* by one and every remembered outcome back by one, and the mask drops the *)
(* bit whose outcome is dropped.                                           *)
(***************************************************************************)
HistoryTypeOK == outcomes \in Seq(BOOLEAN) /\ Len(outcomes) <= GHR_BITS

HistoryInv == BpTypeOK /\ HistoryTypeOK /\ HistoryIsTheLastOutcomes

\* Outcome k of a history is there and was taken.
WasTaken(history, k) == k < Len(history) /\ history[Len(history) - k]

\* The outcomes remembered after one more
LEMMA RememberedAfter ==
  ASSUME NEW n \in Nat, NEW s \in Seq(BOOLEAN), Len(s) <= n, NEW taken \in BOOLEAN
  PROVE  /\ LastOf(s, taken, n) \in Seq(BOOLEAN) /\ Len(LastOf(s, taken, n)) <= n
         /\ n > 0 => (WasTaken(LastOf(s, taken, n), 0) <=> taken)
         /\ \A k \in 1 .. n - 1 : WasTaken(LastOf(s, taken, n), k) <=> WasTaken(s, k - 1)
<1> DEFINE t == Append(s, taken)
           last == LastOf(s, taken, n)
<1>1. /\ t \in Seq(BOOLEAN) /\ Len(t) = Len(s) + 1 /\ t[Len(s) + 1] = taken
      /\ \A i \in 1 .. Len(s) : t[i] = s[i]
  OBVIOUS
<1>2. CASE Len(t) <= n
  <2>1. last = t
    BY <1>2 DEF LastOf
  <2> HIDE DEF t, last
  <2>2. WasTaken(last, 0) <=> taken
    BY <1>1, <2>1 DEF WasTaken
  <2>3. ASSUME NEW k \in 1 .. n - 1 PROVE WasTaken(last, k) <=> WasTaken(s, k - 1)
    <3>1. CASE k - 1 < Len(s)
      <4>1. t[Len(t) - k] = s[Len(s) - (k - 1)]
        BY <1>1, <3>1, Len(t) - k = Len(s) - (k - 1), Len(s) - (k - 1) \in 1 .. Len(s)
      <4> QED  BY <1>1, <2>1, <3>1, <4>1 DEF WasTaken
    <3>2. CASE ~(k - 1 < Len(s))
      BY <1>1, <2>1, <3>2 DEF WasTaken
    <3> QED  BY <3>1, <3>2
  <2> QED  BY <1>1, <1>2, <2>1, <2>2, <2>3 DEF last
<1>3. CASE ~(Len(t) <= n)
  <2>1. last = Tail(t)
    BY <1>3 DEF LastOf
  <2>2. Len(s) = n
    BY <1>1, <1>3
  <2>3. /\ last \in Seq(BOOLEAN) /\ Len(last) = n
        /\ \A i \in 1 .. n : last[i] = t[i + 1]
    <3> HIDE DEF t, last
    <3>1. t # <<>>
      BY <1>1
    <3> QED  BY <1>1, <2>1, <2>2, <3>1
  <2> HIDE DEF t, last
  <2>4. n > 0 => (WasTaken(last, 0) <=> taken)
    BY <1>1, <2>2, <2>3 DEF WasTaken
  <2>5. ASSUME NEW k \in 1 .. n - 1 PROVE WasTaken(last, k) <=> WasTaken(s, k - 1)
    <3>1. last[n - k] = s[n - (k - 1)]
      <4>1. n - k \in 1 .. n /\ (n - k) + 1 = n - (k - 1) /\ n - (k - 1) \in 1 .. n
        OBVIOUS
      <4> QED  BY <1>1, <2>2, <2>3, <4>1
    <3> QED  BY <2>2, <2>3, <3>1 DEF WasTaken
  <2> QED  BY <2>3, <2>4, <2>5 DEF last
<1> QED  BY <1>2, <1>3

\* The bits of the register after one more outcome
LEMMA ShiftedBits ==
  ASSUME NEW ghr \in Nat, NEW taken \in BOOLEAN, NEW k \in 0 .. GHR_BITS - 1
  PROVE  /\ k = 0 => ((ShiftedHistory(ghr, taken) \div 2 ^ k) % 2 = 1 <=> taken)
         /\ k > 0 => (ShiftedHistory(ghr, taken) \div 2 ^ k) % 2
                       = (ghr \div 2 ^ (k - 1)) % 2
<1> DEFINE bit == IF taken THEN 1 ELSE 0
           n == ghr * 2 ^ 1 + bit
<1>1. GHR_BITS \in 0 .. 30 /\ GHR_SIZE = 2 ^ GHR_BITS
  BY SpecAssumption
<1>2. bit \in 0 .. 2 ^ 1 - 1 /\ (bit = 1 <=> taken)
  OBVIOUS
<1>3. ShiftedHistory(ghr, taken) = n % 2 ^ GHR_BITS
  <2>1. 2 * ghr + bit = n
    BY <1>2
  <2> QED  BY <1>1, <2>1 DEF ShiftedHistory
<1> HIDE DEF bit
<1>4. ghr \in Int /\ n \in Int
  BY <1>2
<1>5. PowersOfTwo(31) /\ 31 \in Nat
  BY Powers
<1>6. /\ k < 1 => (n \div 2 ^ k) % 2 = (bit \div 2 ^ k) % 2
      /\ k >= 1 => (n \div 2 ^ k) % 2 = (ghr \div 2 ^ (k - 1)) % 2
  BY <1>1, <1>2, <1>4, <1>5, 1 \in 0 .. 31, k \in 0 .. 31, BitsOfBoth
<1> HIDE DEF n
<1>7. ((n % 2 ^ GHR_BITS) \div 2 ^ k) % 2 = (n \div 2 ^ k) % 2
  <2> DEFINE p == 2 ^ k
             m == 2 ^ (GHR_BITS - k - 1)
  <2>1. 2 ^ GHR_BITS = p * (2 * m) /\ m \in Nat \ {0}
    BY <1>1, <1>5, k \in Nat, GHR_BITS \in Nat, k < GHR_BITS, GHR_BITS <= 31, PowerAbove
  <2>2. p \in Nat \ {0}
    BY <1>1, k \in 0 .. 31, Powers
  <2> HIDE DEF p, m
  <2>3. ((n % (p * (2 * m))) \div p) % 2 = (n \div p) % 2
    BY <1>4, <2>1, <2>2, MaskKeepsBits
  <2> QED  BY <2>1, <2>3 DEF p
<1>8. k = 0 => (bit \div 2 ^ k) % 2 = bit
  <2>1. bit \div 2 ^ 0 = bit /\ bit % 2 = bit
    BY <1>2
  <2> QED  BY <2>1
<1>9. k = 0 => ((n \div 2 ^ k) % 2 = 1 <=> taken)
  BY <1>2, <1>6, <1>8
<1>10. k > 0 => (n \div 2 ^ k) % 2 = (ghr \div 2 ^ (k - 1)) % 2
  BY <1>1, <1>6
<1> QED  BY <1>3, <1>7, <1>9, <1>10

\* The register is empty at first, and so is the memory.
LEMMA InitialHistory == Init => HistoryInv
<1> SUFFICES ASSUME Init PROVE HistoryInv  OBVIOUS
<1>1. BpTypeOK  BY InitialType
<1>2. bp.ghr = 0 /\ outcomes = <<>>  BY DEF Init, BpInit
<1>3. HistoryTypeOK  BY <1>2, SpecAssumption DEF HistoryTypeOK
<1>4. ASSUME NEW k \in 0 .. GHR_BITS - 1
      PROVE  (bp.ghr \div 2 ^ k) % 2 # 1 /\ ~(k < Len(outcomes))
  <2> DEFINE p == 2 ^ k
  <2>1. k \in 0 .. 31  BY SpecAssumption
  <2>2. p \in Nat \ {0}  BY <2>1, Powers
  <2> HIDE DEF p
  <2>3. (bp.ghr \div p) % 2 = 0
    <3>1. 0 \div p = 0  BY <2>2
    <3> QED  BY <1>2, <3>1
  <2>4. ~(k < Len(outcomes))
    <3>1. Len(outcomes) = 0  BY <1>2
    <3> QED  BY <2>1, <3>1
  <2> QED  BY <2>3, <2>4 DEF p
<1>5. HistoryIsTheLastOutcomes  BY <1>4 DEF HistoryIsTheLastOutcomes
<1> QED  BY <1>1, <1>3, <1>5 DEF HistoryInv

\* update() shifts both alike.
LEMMA UpdateKeepsHistory ==
  ASSUME HistoryInv, NEW pc \in PCs, NEW taken \in BOOLEAN, Update(pc, taken)
  PROVE  HistoryInv'
<1>1. BpTypeOK /\ HistoryTypeOK /\ HistoryIsTheLastOutcomes  BY DEF HistoryInv
<1>2. GHR_BITS \in Nat  BY SpecAssumption
<1>3. outcomes' = LastOf(outcomes, taken, GHR_BITS)  BY DEF Update
<1>4. BpTypeOK'  BY <1>1, UpdateKeepsType
<1>5. HistoryTypeOK'
  BY <1>1, <1>2, <1>3, RememberedAfter DEF HistoryTypeOK
<1>6. HistoryIsTheLastOutcomes'
  <2> SUFFICES ASSUME bp'.predictor_type \in {"GSHARE", "TOURNAMENT"},
                      NEW k \in 0 .. GHR_BITS - 1
               PROVE  (bp'.ghr \div 2 ^ k) % 2 = 1 <=> WasTaken(outcomes', k)
    BY DEF HistoryIsTheLastOutcomes, WasTaken
  <2>1. /\ bp.predictor_type \in {"GSHARE", "TOURNAMENT"}
        /\ bp'.ghr = ShiftedHistory(bp.ghr, taken)
    BY <1>1, UpdateIs
  <2>2. bp.ghr \in Nat  BY <1>1, PredictorAssumption DEF BpTypeOK
  <2>3. CASE k = 0
    <3>1. WasTaken(outcomes', 0) <=> taken
      BY <1>1, <1>2, <1>3, <2>3, RememberedAfter DEF HistoryTypeOK
    <3>2. (ShiftedHistory(bp.ghr, taken) \div 2 ^ k) % 2 = 1 <=> taken
      BY <2>2, <2>3, ShiftedBits
    <3>3. (bp'.ghr \div 2 ^ k) % 2 = 1 <=> taken
      BY <2>1, <3>2
    <3> QED  BY <2>3, <3>1, <3>3
  <2>4. CASE k > 0
    <3>1. k \in 1 .. GHR_BITS - 1 /\ k - 1 \in 0 .. GHR_BITS - 1
      BY <1>2, <2>4
    <3>2. WasTaken(outcomes', k) <=> WasTaken(outcomes, k - 1)
      BY <1>1, <1>2, <1>3, <3>1, RememberedAfter DEF HistoryTypeOK
    <3>3. (bp'.ghr \div 2 ^ k) % 2 = (bp.ghr \div 2 ^ (k - 1)) % 2
      BY <2>1, <2>2, <2>4, ShiftedBits
    <3>4. (bp.ghr \div 2 ^ (k - 1)) % 2 = 1 <=> WasTaken(outcomes, k - 1)
      BY <1>1, <2>1, <3>1 DEF HistoryIsTheLastOutcomes, WasTaken
    <3> QED  BY <3>2, <3>3, <3>4
  <2> QED  BY <1>2, <2>3, <2>4
<1> QED  BY <1>4, <1>5, <1>6 DEF HistoryInv

\* predict() and reset_stats() leave the history alone.
LEMMA OthersKeepHistory ==
  ASSUME HistoryInv, Predict \/ ResetStats \/ UNCHANGED vars
  PROVE  HistoryInv'
<1>1. BpTypeOK /\ HistoryTypeOK /\ HistoryIsTheLastOutcomes  BY DEF HistoryInv
<1>2. BpTypeOK'  BY <1>1, NextKeepsType DEF Next
<1>3. /\ outcomes' = outcomes /\ bp'.ghr = bp.ghr
      /\ bp'.predictor_type = bp.predictor_type
  BY <1>1 DEF Predict, ResetStats, vars, BpAfterPredict, BpResetStats, BpTypeOK
<1>4. HistoryTypeOK'  BY <1>1, <1>3 DEF HistoryTypeOK
<1>5. HistoryIsTheLastOutcomes'  BY <1>1, <1>3 DEF HistoryIsTheLastOutcomes
<1> QED  BY <1>2, <1>4, <1>5 DEF HistoryInv

\* For registers of every width up to that of the code's int: the history
\* that gshare and tournament index with is the last outcomes (update()).
THEOREM HistoryCorrect == Spec => []HistoryIsTheLastOutcomes
<1>1. Init => HistoryInv  BY InitialHistory
<1>2. HistoryInv /\ [Next]_vars => HistoryInv'
  BY UpdateKeepsHistory, OthersKeepHistory DEF Next
<1>3. HistoryInv => HistoryIsTheLastOutcomes  BY DEF HistoryInv
<1> QED  BY <1>1, <1>2, <1>3, PTL DEF Spec

=============================================================================
