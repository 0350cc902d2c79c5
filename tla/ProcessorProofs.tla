--------------------------- MODULE ProcessorProofs ---------------------------
(***************************************************************************)
(* For every program, every decoder and every order of the seven processes *)
(* that runs each of them once: the types, the statistics and what is      *)
(* known of the instructions on their way through the channels.  From it   *)
(* follow the execution unit's theorems behind the real fetch and decode   *)
(* stages, and that a program in which nothing jumps runs as written.      *)
(***************************************************************************)
EXTENDS ProcessorProperties, ExecutionUnitProofs, FiniteSetTheorems

-----------------------------------------------------------------------------
(***************************************************************************)
(* One edge: each process returns once, and the next edge starts when all  *)
(* have.                                                                   *)
(***************************************************************************)
EdgeInv ==
  /\ pending \in Seq(Process)
  /\ \A j, k \in 1 .. Len(pending) : pending[j] = pending[k] => j = k
  /\ FixedOrder => order \in Orders

\* All processes run at an edge that starts.
LEMMA StartOfEdge ==
  ASSUME NEW o \in Orders
  PROVE  /\ o \in Seq(Process)
         /\ \A j, k \in 1 .. Len(o) : o[j] = o[k] => j = k
         /\ \A p \in Process : \E k \in 1 .. Len(o) : o[k] = p
<1>1. RunsEachOnce(o)
  BY ProcessorAssumption
<1>2. \A k \in 1 .. Len(o) : o[k] \in Process
  BY <1>1 DEF RunsEachOnce, RunsOnce
<1> QED  BY <1>1, <1>2 DEF RunsEachOnce, RunsOnce

LEMMA InitialEdge ==
  ASSUME KernelInit
  PROVE  EdgeInv /\ \A p \in Process : ~HasRun(p)
<1>1. pending \in Orders /\ (FixedOrder => order \in Orders)
  BY KernelAssumption DEF KernelInit, EdgeOrders
<1> QED  BY <1>1, StartOfEdge DEF EdgeInv, HasRun

LEMMA NextEdgeIs ==
  ASSUME EdgeInv, NextEdge
  PROVE  /\ EdgeInv'
         /\ \A p \in Process : HasRun(p) /\ ~HasRun(p)'
<1>1. pending' \in Orders /\ (FixedOrder => order' \in Orders)
  BY KernelAssumption DEF NextEdge, EdgeOrders, EdgeInv
<1>2. \A p \in Process : ~HasRun(p)'
  BY <1>1, StartOfEdge DEF HasRun
<1>3. \A p : HasRun(p)
  BY DEF NextEdge, HasRun
<1>4. EdgeInv'
  BY <1>1, StartOfEdge DEF EdgeInv
<1> QED  BY <1>2, <1>3, <1>4

LEMMA ReturnIs ==
  ASSUME EdgeInv, NEW p \in Process, Running(p), Return
  PROVE  /\ EdgeInv'
         /\ ~HasRun(p) /\ HasRun(p)'
         /\ \A q \in Process : q # p => (HasRun(q)' <=> HasRun(q))
<1> DEFINE n == Len(pending)
<1>1. /\ pending \in Seq(Process) /\ pending # <<>> /\ pending[1] = p
      /\ pending' = Tail(pending) /\ order' = order
  BY DEF EdgeInv, Running, Return
<1>2. n \in Nat /\ n >= 1
  BY <1>1
<1>3. /\ pending' \in Seq(Process) /\ Len(pending') = n - 1
      /\ \A k \in 1 .. n - 1 : pending'[k] = pending[k + 1]
  BY <1>1
<1>4. \A j, k \in 1 .. n : pending[j] = pending[k] => j = k
  BY DEF EdgeInv
<1> HIDE DEF n
<1>5. \A j, k \in 1 .. n - 1 : pending'[j] = pending'[k] => j = k
  <2> SUFFICES ASSUME NEW j \in 1 .. n - 1, NEW k \in 1 .. n - 1, pending'[j] = pending'[k]
               PROVE  j = k
    OBVIOUS
  <2>1. j + 1 \in 1 .. n /\ k + 1 \in 1 .. n
    BY <1>2
  <2>2. pending[j + 1] = pending[k + 1]
    BY <1>3
  <2> QED  BY <2>1, <2>2, <1>4
<1>6. EdgeInv'
  BY <1>1, <1>3, <1>5 DEF EdgeInv
<1>7. \A q : HasRun(q) <=> \A k \in 1 .. n : pending[k] # q
  BY <1>1 DEF HasRun, n
<1>8. \A q : HasRun(q)' <=> \A k \in 1 .. n - 1 : pending'[k] # q
  BY <1>3 DEF HasRun
<1>9. ~HasRun(p)
  BY <1>1, <1>2, <1>7
<1>10. HasRun(p)'
  <2> SUFFICES ASSUME NEW k \in 1 .. n - 1 PROVE pending'[k] # p
    BY <1>8
  <2>1. k + 1 \in 1 .. n /\ 1 \in 1 .. n /\ k + 1 # 1
    BY <1>2
  <2>2. pending[k + 1] # pending[1]
    BY <2>1, <1>4
  <2> QED  BY <2>2, <1>1, <1>3
<1>11. ASSUME NEW q \in Process, q # p
       PROVE  HasRun(q)' <=> HasRun(q)
  <2>1. ASSUME NEW k \in 1 .. n, pending[k] = q
        PROVE  k - 1 \in 1 .. n - 1 /\ pending'[k - 1] = q
    <3>1. k # 1
      BY <2>1, <1>1, <1>11
    <3>2. k - 1 \in 1 .. n - 1
      BY <3>1, <1>2
    <3>3. pending'[k - 1] = pending[(k - 1) + 1]
      BY <3>2, <1>3
    <3> QED  BY <3>2, <3>3, <2>1
  <2>2. ASSUME NEW k \in 1 .. n - 1, pending'[k] = q
        PROVE  k + 1 \in 1 .. n /\ pending[k + 1] = q
    BY <2>2, <1>2, <1>3
  <2> QED  BY <2>1, <2>2, <1>7, <1>8
<1> QED  BY <1>6, <1>9, <1>10, <1>11


-----------------------------------------------------------------------------
(***************************************************************************)
(* The statistics.  Each call adds one to the columns it is about, for the *)
(* opcode and for its type, and leaves the others.                         *)
(***************************************************************************)
Stats == [total_count : Nat, cycles_in_fetch : Nat, cycles_in_decode : Nat,
          cycles_in_writeback : Nat]

AnalyzerType ==
  [opcode_stats : [Opcode -> Stats], type_stats : [Type -> Stats],
   total_instructions : Nat, total_cycles : Nat,
   total_memory_reads : Nat, total_memory_writes : Nat,
   control_hazards : Nat, pipeline_flushes : Nat]

\* One more than x if `counted'
More(x, counted) == x + IF counted THEN 1 ELSE 0

\* Counters c of opcode or type x after one more was counted for y: in which
\* columns, if any
After(c, d, x, y, column) ==
  /\ d[x].cycles_in_fetch = More(c[x].cycles_in_fetch, column = "fetch" /\ x = y)
  /\ d[x].total_count = More(c[x].total_count, column = "decode" /\ x = y)
  /\ d[x].cycles_in_writeback = More(c[x].cycles_in_writeback, column = "writeback" /\ x = y)

\* What a call does to the object: a becomes b.
Records(a, b, o, column) ==
  /\ b \in AnalyzerType
  /\ b.total_instructions = More(a.total_instructions, column = "fetch")
  /\ \A p \in Opcode : After(a.opcode_stats, b.opcode_stats, p, o, column)
  /\ \A t \in Type : After(a.type_stats, b.type_stats, t, InstructionType(o), column)

\* The analyzer's classification of an opcode is the decoder's.
LEMMA TypeOfOpcode ==
  ASSUME NEW o \in Opcode
  PROVE  InstructionType(o) \in Type /\ GetInstructionType(o) = InstructionType(o)
  BY DEF Opcode, Type, InstructionType, GetInstructionType

LEMMA InitialAnalyzer == AnalyzerInit \in AnalyzerType
  BY DEF AnalyzerInit, InstructionStats, AnalyzerType, Stats

\* record_instruction_fetch
LEMMA FetchRecorded ==
  ASSUME NEW a \in AnalyzerType, NEW o \in Opcode
  PROVE  Records(a, RecordInstructionFetch(a, o), o, "fetch")
<1> DEFINE ty == InstructionType(o)
           b == RecordInstructionFetch(a, o)
           os == [a.opcode_stats EXCEPT ![o].cycles_in_fetch = @ + 1]
           ts == [a.type_stats EXCEPT ![ty].cycles_in_fetch = @ + 1]
           total == a.total_instructions + 1
<1>1. ty \in Type /\ GetInstructionType(o) = ty
  BY TypeOfOpcode
<1>2. b = [a EXCEPT !.opcode_stats = os, !.type_stats = ts, !.total_instructions = total]
  BY <1>1 DEF RecordInstructionFetch, AnalyzerType
<1> HIDE DEF ty, b
<1>3. a.opcode_stats \in [Opcode -> Stats] /\ a.type_stats \in [Type -> Stats]
        /\ a.total_instructions \in Nat
  BY DEF AnalyzerType
<1>4. os \in [Opcode -> Stats] /\ \A p \in Opcode : After(a.opcode_stats, os, p, o, "fetch")
  BY <1>3 DEF Stats, After, More
<1>5. ts \in [Type -> Stats] /\ \A t \in Type : After(a.type_stats, ts, t, ty, "fetch")
  BY <1>1, <1>3 DEF Stats, After, More
<1>6. total \in Nat /\ total = More(a.total_instructions, "fetch" = "fetch")
  BY <1>3 DEF More
<1> HIDE DEF os, ts, total
<1>7. /\ b \in AnalyzerType
      /\ b.opcode_stats = os /\ b.type_stats = ts /\ b.total_instructions = total
  BY <1>2, <1>4, <1>5, <1>6 DEF AnalyzerType
<1> QED  BY <1>4, <1>5, <1>6, <1>7 DEF Records, b, ty

\* record_instruction_decode, called with the decoder's type
LEMMA DecodeRecorded ==
  ASSUME NEW a \in AnalyzerType, NEW o \in Opcode
  PROVE  Records(a, RecordInstructionDecode(a, o, InstructionType(o)), o, "decode")
<1> DEFINE ty == InstructionType(o)
           b == RecordInstructionDecode(a, o, InstructionType(o))
           os == [a.opcode_stats EXCEPT ![o].cycles_in_decode = @ + 1, ![o].total_count = @ + 1]
           ts == [a.type_stats EXCEPT ![ty].cycles_in_decode = @ + 1, ![ty].total_count = @ + 1]
           total == a.total_instructions
<1>1. ty \in Type /\ GetInstructionType(o) = ty
  BY TypeOfOpcode
<1>2. b = [a EXCEPT !.opcode_stats = os, !.type_stats = ts, !.total_instructions = total]
  BY <1>1 DEF RecordInstructionDecode, AnalyzerType
<1> HIDE DEF ty, b
<1>3. a.opcode_stats \in [Opcode -> Stats] /\ a.type_stats \in [Type -> Stats]
        /\ a.total_instructions \in Nat
  BY DEF AnalyzerType
<1>4. os \in [Opcode -> Stats] /\ \A p \in Opcode : After(a.opcode_stats, os, p, o, "decode")
  BY <1>3 DEF Stats, After, More
<1>5. ts \in [Type -> Stats] /\ \A t \in Type : After(a.type_stats, ts, t, ty, "decode")
  BY <1>1, <1>3 DEF Stats, After, More
<1>6. total \in Nat /\ total = More(a.total_instructions, "decode" = "fetch")
  BY <1>3 DEF More
<1> HIDE DEF os, ts, total
<1>7. /\ b \in AnalyzerType
      /\ b.opcode_stats = os /\ b.type_stats = ts /\ b.total_instructions = total
  BY <1>2, <1>4, <1>5, <1>6 DEF AnalyzerType
<1> QED  BY <1>4, <1>5, <1>6, <1>7 DEF Records, b, ty

\* record_instruction_writeback
LEMMA WritebackRecorded ==
  ASSUME NEW a \in AnalyzerType, NEW o \in Opcode
  PROVE  Records(a, RecordInstructionWriteback(a, o), o, "writeback")
<1> DEFINE ty == InstructionType(o)
           b == RecordInstructionWriteback(a, o)
           os == [a.opcode_stats EXCEPT ![o].cycles_in_writeback = @ + 1]
           ts == [a.type_stats EXCEPT ![ty].cycles_in_writeback = @ + 1]
           total == a.total_instructions
<1>1. ty \in Type /\ GetInstructionType(o) = ty
  BY TypeOfOpcode
<1>2. b = [a EXCEPT !.opcode_stats = os, !.type_stats = ts, !.total_instructions = total]
  BY <1>1 DEF RecordInstructionWriteback, AnalyzerType
<1> HIDE DEF ty, b
<1>3. a.opcode_stats \in [Opcode -> Stats] /\ a.type_stats \in [Type -> Stats]
        /\ a.total_instructions \in Nat
  BY DEF AnalyzerType
<1>4. os \in [Opcode -> Stats] /\ \A p \in Opcode : After(a.opcode_stats, os, p, o, "writeback")
  BY <1>3 DEF Stats, After, More
<1>5. ts \in [Type -> Stats] /\ \A t \in Type : After(a.type_stats, ts, t, ty, "writeback")
  BY <1>1, <1>3 DEF Stats, After, More
<1>6. total \in Nat /\ total = More(a.total_instructions, "writeback" = "fetch")
  BY <1>3 DEF More
<1> HIDE DEF os, ts, total
<1>7. /\ b \in AnalyzerType
      /\ b.opcode_stats = os /\ b.type_stats = ts /\ b.total_instructions = total
  BY <1>2, <1>4, <1>5, <1>6 DEF AnalyzerType
<1> QED  BY <1>4, <1>5, <1>6, <1>7 DEF Records, b, ty

\* The calls that only count memory accesses, hazards and cycles
Uncounted(a, b) ==
  /\ b \in AnalyzerType
  /\ b.opcode_stats = a.opcode_stats /\ b.type_stats = a.type_stats
  /\ b.total_instructions = a.total_instructions

LEMMA OthersRecorded ==
  ASSUME NEW a \in AnalyzerType, NEW is_read \in BOOLEAN, NEW cycles \in Nat
  PROVE  /\ Uncounted(a, RecordMemoryAccess(a, is_read))
         /\ Uncounted(a, RecordControlHazard(a))
         /\ Uncounted(a, RecordPipelineFlush(a))
         /\ Uncounted(a, UpdateTotalCycles(a, cycles))
<1>1. Uncounted(a, RecordMemoryAccess(a, is_read))
  BY DEF RecordMemoryAccess, Uncounted, AnalyzerType
<1>2. Uncounted(a, RecordControlHazard(a)) /\ Uncounted(a, RecordPipelineFlush(a))
  BY DEF RecordControlHazard, RecordPipelineFlush, Uncounted, AnalyzerType
<1>3. Uncounted(a, UpdateTotalCycles(a, cycles))
  BY DEF UpdateTotalCycles, Uncounted, AnalyzerType
<1> QED  BY <1>1, <1>2, <1>3

\* One opcode more adds one to the sums it belongs to.
LEMMA TotalStep ==
  ASSUME NEW n \in [Opcode -> Nat], NEW m \in [Opcode -> Nat], NEW S, NEW o \in Opcode,
         \A p \in Opcode : m[p] = More(n[p], p = o)
  PROVE  Total(m, S) = More(Total(n, S), o \in S)
<1> DEFINE c(p) == IF p \in S THEN n[p] ELSE 0
           d(p) == IF p \in S THEN m[p] ELSE 0
           one == IF o \in S THEN 1 ELSE 0
<1>1. \A p \in Opcode : c(p) \in Nat /\ d(p) = c(p) + IF p = o THEN one ELSE 0
  BY DEF More
<1>2. /\ Total(n, S) = c("LUI") + c("AUIPC") + c("JAL") + c("JALR") + c("BRANCH")
           + c("LOAD") + c("STORE") + c("OP_IMM") + c("OP") + c("SYSTEM") + c("UNKNOWN")
      /\ Total(m, S) = d("LUI") + d("AUIPC") + d("JAL") + d("JALR") + d("BRANCH")
           + d("LOAD") + d("STORE") + d("OP_IMM") + d("OP") + d("SYSTEM") + d("UNKNOWN")
  BY DEF Total
<1>3. one \in Nat
  OBVIOUS
<1> HIDE DEF c, d, one
<1>4. Total(m, S) = Total(n, S) + one
  BY <1>1, <1>2, <1>3 DEF Opcode
<1> QED  BY <1>4 DEF one, More

LEMMA TotalType ==
  ASSUME NEW n \in [Opcode -> Nat], NEW S
  PROVE  Total(n, S) \in Nat
<1> DEFINE c(p) == IF p \in S THEN n[p] ELSE 0
<1>1. \A p \in Opcode : c(p) \in Nat
  OBVIOUS
<1>2. Total(n, S) = c("LUI") + c("AUIPC") + c("JAL") + c("JALR") + c("BRANCH")
        + c("LOAD") + c("STORE") + c("OP_IMM") + c("OP") + c("SYSTEM") + c("UNKNOWN")
  BY DEF Total
<1> HIDE DEF c
<1> QED  BY <1>1, <1>2 DEF Opcode

\* The columns of object a
Fetched(a)   == [o \in Opcode |-> a.opcode_stats[o].cycles_in_fetch]
DecodedOf(a) == [o \in Opcode |-> a.opcode_stats[o].total_count]
Written(a)   == [o \in Opcode |-> a.opcode_stats[o].cycles_in_writeback]

Agree(a) ==
  /\ \A t \in Type :
       /\ a.type_stats[t].cycles_in_fetch = Total(Fetched(a), OfType(t))
       /\ a.type_stats[t].total_count = Total(DecodedOf(a), OfType(t))
       /\ a.type_stats[t].cycles_in_writeback = Total(Written(a), OfType(t))
  /\ a.total_instructions = Total(Fetched(a), Opcode)

LEMMA ColumnTypes ==
  ASSUME NEW a \in AnalyzerType
  PROVE  /\ Fetched(a) \in [Opcode -> Nat] /\ DecodedOf(a) \in [Opcode -> Nat]
         /\ Written(a) \in [Opcode -> Nat]
         /\ a.total_instructions \in Nat
         /\ \A t \in Type : /\ a.type_stats[t].cycles_in_fetch \in Nat
                            /\ a.type_stats[t].total_count \in Nat
                            /\ a.type_stats[t].cycles_in_writeback \in Nat
  BY DEF AnalyzerType, Stats, Fetched, DecodedOf, Written

LEMMA InitialAgreement == Agree(AnalyzerInit)
  BY DEF Agree, AnalyzerInit, InstructionStats, Total, Fetched, DecodedOf, Written, Opcode

Branches == {"BRANCH", "JAL", "JALR"}

\* A call counts an instruction once in each breakdown.
LEMMA RecordKeepsAgreement ==
  ASSUME NEW a \in AnalyzerType, NEW b, NEW o \in Opcode, NEW column,
         Records(a, b, o, column), Agree(a)
  PROVE  /\ Agree(b)
         /\ \A p \in Opcode :
              /\ Fetched(b)[p] = More(Fetched(a)[p], column = "fetch" /\ p = o)
              /\ DecodedOf(b)[p] = More(DecodedOf(a)[p], column = "decode" /\ p = o)
         /\ \A S : Total(Fetched(b), S) = More(Total(Fetched(a), S), column = "fetch" /\ o \in S)
<1>1. /\ b \in AnalyzerType
      /\ b.total_instructions = More(a.total_instructions, column = "fetch")
      /\ \A p \in Opcode : After(a.opcode_stats, b.opcode_stats, p, o, column)
      /\ \A t \in Type : After(a.type_stats, b.type_stats, t, InstructionType(o), column)
  BY DEF Records
<1>2. \A p \in Opcode :
        /\ Fetched(b)[p] = More(Fetched(a)[p], column = "fetch" /\ p = o)
        /\ DecodedOf(b)[p] = More(DecodedOf(a)[p], column = "decode" /\ p = o)
        /\ Written(b)[p] = More(Written(a)[p], column = "writeback" /\ p = o)
  BY <1>1 DEF After, Fetched, DecodedOf, Written
<1>3. /\ Fetched(a) \in [Opcode -> Nat] /\ Fetched(b) \in [Opcode -> Nat]
      /\ DecodedOf(a) \in [Opcode -> Nat] /\ DecodedOf(b) \in [Opcode -> Nat]
      /\ Written(a) \in [Opcode -> Nat] /\ Written(b) \in [Opcode -> Nat]
  BY <1>1, ColumnTypes
<1>4. ASSUME NEW S
      PROVE  Total(Fetched(b), S) = More(Total(Fetched(a), S), column = "fetch" /\ o \in S)
  <2>1. CASE column = "fetch"
    <3>1. \A p \in Opcode : Fetched(b)[p] = More(Fetched(a)[p], p = o)
      BY <1>2, <2>1 DEF More
    <3>2. Total(Fetched(b), S) = More(Total(Fetched(a), S), o \in S)
      BY <1>3, <3>1, TotalStep
    <3> QED  BY <2>1, <3>2 DEF More
  <2>2. CASE column # "fetch"
    <3>1. \A p \in Opcode : Fetched(b)[p] = Fetched(a)[p]
      BY <1>2, <1>3, <2>2 DEF More
    <3>2. Fetched(b) = Fetched(a)
      BY <1>3, <3>1
    <3> QED  BY <2>2, <3>2, <1>3, TotalType DEF More
  <2> QED  BY <2>1, <2>2
<1>5. ASSUME NEW S
      PROVE  Total(DecodedOf(b), S) = More(Total(DecodedOf(a), S), column = "decode" /\ o \in S)
  <2>1. CASE column = "decode"
    <3>1. \A p \in Opcode : DecodedOf(b)[p] = More(DecodedOf(a)[p], p = o)
      BY <1>2, <2>1 DEF More
    <3>2. Total(DecodedOf(b), S) = More(Total(DecodedOf(a), S), o \in S)
      BY <1>3, <3>1, TotalStep
    <3> QED  BY <2>1, <3>2 DEF More
  <2>2. CASE column # "decode"
    <3>1. \A p \in Opcode : DecodedOf(b)[p] = DecodedOf(a)[p]
      BY <1>2, <1>3, <2>2 DEF More
    <3>2. DecodedOf(b) = DecodedOf(a)
      BY <1>3, <3>1
    <3> QED  BY <2>2, <3>2, <1>3, TotalType DEF More
  <2> QED  BY <2>1, <2>2
<1>6. ASSUME NEW S
      PROVE  Total(Written(b), S) = More(Total(Written(a), S), column = "writeback" /\ o \in S)
  <2>1. CASE column = "writeback"
    <3>1. \A p \in Opcode : Written(b)[p] = More(Written(a)[p], p = o)
      BY <1>2, <2>1 DEF More
    <3>2. Total(Written(b), S) = More(Total(Written(a), S), o \in S)
      BY <1>3, <3>1, TotalStep
    <3> QED  BY <2>1, <3>2 DEF More
  <2>2. CASE column # "writeback"
    <3>1. \A p \in Opcode : Written(b)[p] = Written(a)[p]
      BY <1>2, <1>3, <2>2 DEF More
    <3>2. Written(b) = Written(a)
      BY <1>3, <3>1
    <3> QED  BY <2>2, <3>2, <1>3, TotalType DEF More
  <2> QED  BY <2>1, <2>2
<1>7. \A t \in Type : o \in OfType(t) <=> t = InstructionType(o)
  BY DEF OfType
<1>8. ASSUME NEW t \in Type
      PROVE  /\ b.type_stats[t].cycles_in_fetch = Total(Fetched(b), OfType(t))
             /\ b.type_stats[t].total_count = Total(DecodedOf(b), OfType(t))
             /\ b.type_stats[t].cycles_in_writeback = Total(Written(b), OfType(t))
  <2>1. After(a.type_stats, b.type_stats, t, InstructionType(o), column)
    BY <1>1
  <2>2. o \in OfType(t) <=> t = InstructionType(o)
    BY <1>7
  <2>3. /\ a.type_stats[t].cycles_in_fetch = Total(Fetched(a), OfType(t))
        /\ a.type_stats[t].total_count = Total(DecodedOf(a), OfType(t))
        /\ a.type_stats[t].cycles_in_writeback = Total(Written(a), OfType(t))
    BY DEF Agree
  <2> QED  BY <2>1, <2>2, <2>3, <1>4, <1>5, <1>6 DEF After
<1>9. b.total_instructions = Total(Fetched(b), Opcode)
  <2>1. a.total_instructions = Total(Fetched(a), Opcode)
    BY DEF Agree
  <2>2. Total(Fetched(b), Opcode) = More(Total(Fetched(a), Opcode), column = "fetch" /\ o \in Opcode)
    BY <1>4
  <2>3. b.total_instructions = More(a.total_instructions, column = "fetch")
    BY <1>1
  <2> QED  BY <2>1, <2>2, <2>3 DEF More
<1> QED  BY <1>2, <1>4, <1>8, <1>9 DEF Agree

LEMMA FetchedTotal ==
  ASSUME NEW a \in AnalyzerType, NEW b, NEW o \in Opcode, Records(a, b, o, "fetch"), Agree(a)
  PROVE  Total(Fetched(b), Branches) = More(Total(Fetched(a), Branches), o \in Branches)
<1> DEFINE column == "fetch"
<1>1. Records(a, b, o, column)
  OBVIOUS
<1> HIDE DEF column
<1>2. \A S : Total(Fetched(b), S) = More(Total(Fetched(a), S), column = "fetch" /\ o \in S)
  BY <1>1, RecordKeepsAgreement
<1> QED  BY <1>2 DEF column, More

LEMMA UncountedKeepsAgreement ==
  ASSUME NEW a \in AnalyzerType, NEW b, Uncounted(a, b), Agree(a)
  PROVE  /\ b \in AnalyzerType /\ Agree(b)
         /\ Fetched(b) = Fetched(a) /\ DecodedOf(b) = DecodedOf(a)
  BY DEF Uncounted, Agree, Fetched, DecodedOf, Written

-----------------------------------------------------------------------------
(***************************************************************************)
(* The processor's steps, seen from the execution unit.                    *)
(***************************************************************************)
\* One of its processes runs; the other three stay where they are.
LEMMA UnitStepOfEdge ==
  ASSUME EdgeInv, Issue \/ Execute \/ Complete \/ Commit
  PROVE  EdgeInv' /\ \A q \in {"fetch", "decode", "clock"} : HasRun(q)' <=> HasRun(q)
<1>1. \/ \E p \in {"issue", "execute", "complete", "commit"} : Running(p) /\ Return
      \/ StillRunning
  BY DEF Issue, IssueReset, IssueNothing, IssueDropped, IssueAccepted, Execute, ExecuteAlu,
         ExecuteMem, ExecuteBranch, ExecuteReturn, Complete, Commit, CommitStore,
         CommitRegister, CommitReturn
<1>2. ASSUME NEW p \in {"issue", "execute", "complete", "commit"}, Running(p), Return
      PROVE  EdgeInv' /\ \A q \in {"fetch", "decode", "clock"} : HasRun(q)' <=> HasRun(q)
  <2>1. /\ p \in Process
        /\ \A q \in {"fetch", "decode", "clock"} : q \in Process /\ q # p
    BY DEF Process, EuProcess
  <2> QED  BY <1>2, <2>1, ReturnIs
<1>3. CASE StillRunning
  BY <1>3 DEF StillRunning, kernelVars, EdgeInv, HasRun
<1> QED  BY <1>1, <1>2, <1>3

\* The other three leave the execution unit alone.
LEMMA OthersLeaveUnit ==
  ASSUME FetchReset \/ FetchInstruction \/ Decode \/ ClockProc
  PROVE  UNCHANGED <<euVars, signals>>
  BY DEF FetchReset, FetchInstruction, Decode, ClockProc

LEMMA UnitInvStep ==
  ASSUME Inv, decode_out \in Packets \union {NoPacket}, [ProcessorNext]_processorVars
  PROVE  Inv'
<1>1. CASE UNCHANGED <<euVars, signals>>
  BY <1>1 DEF euVars, signals, Inv, TypeOK, RobSound, PacketsInFlight, StationsMatchRob,
              AwaitsResult
<1>2. CASE ExecutionUnitStep
  BY <1>2, InvStep DEF ExecutionUnitStep, Next
<1>3. CASE ProcessorEdge
  <2>1. UNCHANGED euVars
    BY <1>3 DEF ProcessorEdge
  <2>2. /\ decode_in' \in Packets \union {NoPacket}
        /\ reset' \in BOOLEAN
    BY <1>3 DEF ProcessorEdge, Inv, TypeOK, SameDecodePacket
  <2>3. execute_out' \in [cur : BranchResult \union {NoResult},
                          next : BranchResult \union {NoResult}]
    BY <1>3 DEF ProcessorEdge, Inv, TypeOK, SameExecutePacket
  <2> QED  BY <2>1, <2>2, <2>3 DEF euVars, Inv, TypeOK, RobSound, PacketsInFlight,
                                   StationsMatchRob, AwaitsResult
<1>4. CASE UNCHANGED processorVars
  BY <1>1, <1>4 DEF processorVars, vars, euVars, signals
<1> QED  BY <1>1, <1>2, <1>3, <1>4, OthersLeaveUnit DEF ProcessorNext

-----------------------------------------------------------------------------
(***************************************************************************)
(* What fetch reads                                                        *)
(***************************************************************************)
LEMMA Product ==
  ASSUME NEW j \in Nat \ {0}, NEW k \in Nat \ {0}
  PROVE  j * k \in Nat \ {0}
  OBVIOUS

\* One more byte in front of a number of k values
LEMMA MoreDigits ==
  ASSUME NEW k \in Nat \ {0}, NEW low \in 0 .. BYTE - 1, NEW high \in 0 .. k - 1
  PROVE  low + BYTE * high \in 0 .. BYTE * k - 1
<1>1. BYTE \in Nat \ {0}
  BY MemoryAssumption
<1>2. BYTE * ((k - 1) - high) \in Nat /\ BYTE * high \in Nat
  BY <1>1
<1>3. BYTE * ((k - 1) - high) = (BYTE * k - BYTE) - BYTE * high
  BY <1>1
<1> QED  BY <1>1, <1>2, <1>3

LEMMA InstructionIs ==
  ASSUME NEW m \in Memory, NEW addr \in Word
  PROVE  0 \in Instruction /\ ReadInstruction(m, addr) \in Instruction
<1> DEFINE B2 == BYTE * BYTE
           B3 == BYTE * B2
           B4 == BYTE * B3
<1>1. BYTE \in Nat \ {0} /\ B2 \in Nat \ {0} /\ B3 \in Nat \ {0} /\ B4 \in Nat \ {0}
  BY MemoryAssumption, Product
<1>2. Instruction = 0 .. B4 - 1
  <2>1. BYTE * BYTE * BYTE * BYTE = BYTE * (BYTE * (BYTE * BYTE))
    BY <1>1
  <2> QED  BY <2>1 DEF Instruction
<1>3. ASSUME addr < MEMORY_SIZE - 3
      PROVE  m[addr] + BYTE * (m[addr + 1] + BYTE * (m[addr + 2] + BYTE * m[addr + 3]))
               \in 0 .. B4 - 1
  <2>1. /\ m[addr] \in 0 .. BYTE - 1 /\ m[addr + 1] \in 0 .. BYTE - 1
        /\ m[addr + 2] \in 0 .. BYTE - 1 /\ m[addr + 3] \in 0 .. BYTE - 1
    BY <1>3, MemoryAssumption, TypesAssumption DEF Memory, MemAddr, Word
  <2>2. m[addr + 2] + BYTE * m[addr + 3] \in 0 .. B2 - 1
    BY <1>1, <2>1, MoreDigits
  <2>3. m[addr + 1] + BYTE * (m[addr + 2] + BYTE * m[addr + 3]) \in 0 .. B3 - 1
    BY <1>1, <2>1, <2>2, MoreDigits
  <2> QED  BY <1>1, <2>1, <2>3, MoreDigits
<1> HIDE DEF B4
<1>4. 0 \in Instruction
  BY <1>1, <1>2
<1>5. CASE addr >= MEMORY_SIZE - 3
  BY <1>4, <1>5 DEF ReadInstruction
<1>6. CASE ~(addr >= MEMORY_SIZE - 3)
  <2>1. addr < MEMORY_SIZE - 3
    BY <1>6, MemoryAssumption, TypesAssumption DEF Word
  <2>2. ReadInstruction(m, addr) =
          m[addr] + BYTE * (m[addr + 1] + BYTE * (m[addr + 2] + BYTE * m[addr + 3]))
    BY <1>6 DEF ReadInstruction
  <2> QED  BY <1>2, <1>3, <1>4, <2>1, <2>2
<1> QED  BY <1>4, <1>5, <1>6

\* What the decoder's assumption says of a single instruction word
LEMMA FieldsAreTyped ==
  ASSUME NEW inst \in Instruction
  PROVE  Fields(inst).opcode \in Opcode /\ Fields(inst).imm \in Int
<1> DEFINE p == [instruction |-> inst, pc |-> 0]
<1>1. p \in FetchPacket
  BY ZeroIsWord DEF FetchPacket
<1>2. Decoded(p) \in DecodePacket
  BY <1>1, DecoderAssumption, TypesAssumption
<1> QED  BY <1>2 DEF Decoded, DecodePacket

LEMMA NextPcIsWord ==
  ASSUME NEW b, NEW from \in Word, NEW inst \in Instruction
  PROVE  PredictNextPc(b, from, inst) \in Word
<1>1. from + Fields(inst).imm \in Int /\ from + 4 \in Int
  BY FieldsAreTyped DEF Word
<1>2. (from + Fields(inst).imm) % WORD \in Word /\ (from + 4) % WORD \in Word
  BY <1>1, ModWord
<1> QED  BY <1>2 DEF PredictNextPc

-----------------------------------------------------------------------------
(***************************************************************************)
(* The invariant.  In reset nothing is fetched, so that decode, in reset   *)
(* itself, loses nothing that was fetched; once decode has run at an edge, *)
(* its output is the packet of what fetch put into the channel an edge     *)
(* ago.  Without these two, an instruction could be counted as fetched and *)
(* never as decoded.                                                       *)
(***************************************************************************)
NothingFetchedInReset ==
  reset => fetch_out.cur = NoFetch /\ fetch_out.next = NoFetch

DecodeFollows ==
  HasRun("decode") =>
    decode_out = IF fetch_out.cur = NoFetch THEN NoPacket ELSE Decoded(fetch_out.cur)

\* The clock process counts an edge once.
CyclesInTime == total_cycles <= SIMULATION_EDGES + IF HasRun("clock") THEN 1 ELSE 0

ChannelInv == NothingFetchedInReset /\ DecodeFollows /\ CyclesInTime /\ ProcessorTypeOK

PredictorCounts ==
  /\ DOMAIN bp = {"predictor_type", "bht", "pht", "ghr",
                  "total_predictions", "correct_predictions"}
  /\ bp.total_predictions \in Nat /\ bp.correct_predictions \in Nat

StatisticsInv ==
  /\ PredictorCounts
  /\ analyzer \in AnalyzerType /\ Agree(analyzer)
  /\ FetchedIsDecodedOrOnItsWay
  /\ PredictionsAreFetches

ProcessorInv == Inv /\ EdgeInv /\ ChannelInv /\ StatisticsInv

-----------------------------------------------------------------------------
(***************************************************************************)
(* The channels                                                            *)
(***************************************************************************)
LEMMA InitialChannels ==
  ASSUME ProcessorInit
  PROVE  ChannelInv
<1>1. /\ pc = 0 /\ fetch_out = [cur |-> NoFetch, next |-> NoFetch] /\ decode_out = NoPacket
      /\ total_cycles = 0 /\ KernelInit
      /\ redirect = LET none == [taken |-> FALSE, target |-> 0]
                    IN  [cur |-> none, next |-> none]
  BY DEF ProcessorInit, Init
<1>2. redirect \in [cur : [taken : BOOLEAN, target : Word],
                     next : [taken : BOOLEAN, target : Word]]
  <2> DEFINE none == [taken |-> FALSE, target |-> 0]
  <2>1. none \in [taken : BOOLEAN, target : Word]
    BY ZeroIsWord
  <2>2. redirect = [cur |-> none, next |-> none]
    BY <1>1
  <2> HIDE DEF none
  <2> QED  BY <2>1, <2>2
<1>3. ProcessorTypeOK
  BY <1>1, <1>2, ZeroIsWord, ProcessorAssumption DEF ProcessorTypeOK
<1>4. NothingFetchedInReset /\ DecodeFollows
  BY <1>1 DEF NothingFetchedInReset, DecodeFollows
<1>5. CyclesInTime
  BY <1>1, ProcessorAssumption DEF CyclesInTime
<1> QED  BY <1>3, <1>4, <1>5 DEF ChannelInv

\* fetch_proc puts a packet into its channel and asks for a prediction of it.
LEMMA FetchIs ==
  ASSUME Inv, ChannelInv, FetchInstruction
  PROVE  \E packet \in FetchPacket :
           /\ pc' \in Word
           /\ fetch_out' = [fetch_out EXCEPT !.next = packet]
           /\ bp' = BpAfterPredict(bp, Predictable(packet.instruction))
<1> DEFINE from == IF redirect.cur.taken THEN redirect.cur.target ELSE pc
           inst == ReadInstruction(memory, from)
           packet == [instruction |-> inst, pc |-> from]
<1>1. /\ pc' = PredictNextPc(bp, from, inst)
      /\ fetch_out' = [fetch_out EXCEPT !.next = packet]
      /\ bp' = BpAfterPredict(bp, Predictable(packet.instruction))
  BY DEF FetchInstruction
<1>2. from \in Word
  BY DEF ChannelInv, ProcessorTypeOK
<1>3. memory \in Memory
  BY DEF Inv, TypeOK
<1> HIDE DEF from
<1>4. inst \in Instruction
  BY <1>2, <1>3, InstructionIs
<1> HIDE DEF inst
<1>5. packet \in FetchPacket
  BY <1>2, <1>4 DEF FetchPacket
<1>6. pc' \in Word
  BY <1>1, <1>2, <1>4, NextPcIsWord
<1> HIDE DEF packet
<1> QED  BY <1>1, <1>5, <1>6

\* fetch_proc
LEMMA FetchKeepsChannels ==
  ASSUME Inv, EdgeInv, ChannelInv, FetchReset \/ FetchInstruction
  PROVE  EdgeInv' /\ ChannelInv'
<1>1. /\ EdgeInv'
      /\ HasRun("decode")' <=> HasRun("decode")
      /\ HasRun("clock")' <=> HasRun("clock")
  BY ReturnIs DEF FetchReset, FetchInstruction, Process, EuProcess
<1>2. /\ decode_out' = decode_out /\ redirect' = redirect /\ total_cycles' = total_cycles
      /\ reset' = reset
  BY DEF FetchReset, FetchInstruction, signals, statistics
<1>3. /\ pc' \in Word /\ fetch_out'.cur = fetch_out.cur
      /\ fetch_out'.next \in FetchPacket \union {NoFetch}
      /\ fetch_out' \in [cur : FetchPacket \union {NoFetch}, next : FetchPacket \union {NoFetch}]
      /\ reset => fetch_out'.next = NoFetch
  <2>1. CASE FetchReset
    BY <2>1, ZeroIsWord DEF FetchReset, ChannelInv, ProcessorTypeOK
  <2>2. CASE FetchInstruction
    <3>1. PICK packet \in FetchPacket :
            /\ pc' \in Word /\ fetch_out' = [fetch_out EXCEPT !.next = packet]
      BY <2>2, FetchIs
    <3>2. ~reset
      BY <2>2 DEF FetchInstruction
    <3> QED  BY <3>1, <3>2 DEF ChannelInv, ProcessorTypeOK
  <2> QED  BY <2>1, <2>2
<1>4. ProcessorTypeOK'
  BY <1>2, <1>3 DEF ChannelInv, ProcessorTypeOK
<1>5. NothingFetchedInReset' /\ DecodeFollows' /\ CyclesInTime'
  BY <1>1, <1>2, <1>3
  DEF ChannelInv, NothingFetchedInReset, DecodeFollows, CyclesInTime
<1> QED  BY <1>1, <1>4, <1>5 DEF ChannelInv

\* decode_proc
LEMMA DecodeKeepsChannels ==
  ASSUME EdgeInv, ChannelInv, Decode
  PROVE  EdgeInv' /\ ChannelInv'
<1>1. EdgeInv' /\ (HasRun("clock")' <=> HasRun("clock"))
  BY ReturnIs DEF Decode, Process
<1>2. /\ pc' = pc /\ fetch_out' = fetch_out /\ redirect' = redirect
      /\ total_cycles' = total_cycles /\ reset' = reset
      /\ decode_out' = IF reset \/ fetch_out.cur = NoFetch THEN NoPacket
                       ELSE Decoded(fetch_out.cur)
  BY DEF Decode, signals, statistics
<1>3. decode_out' = IF fetch_out.cur = NoFetch THEN NoPacket ELSE Decoded(fetch_out.cur)
  BY <1>2 DEF ChannelInv, NothingFetchedInReset
<1>4. decode_out' \in Packets \union {NoPacket}
  BY <1>3, DecoderAssumption DEF ChannelInv, ProcessorTypeOK
<1>5. ProcessorTypeOK'
  BY <1>2, <1>4 DEF ChannelInv, ProcessorTypeOK
<1>6. NothingFetchedInReset' /\ DecodeFollows' /\ CyclesInTime'
  BY <1>1, <1>2, <1>3
  DEF ChannelInv, NothingFetchedInReset, DecodeFollows, CyclesInTime
<1> QED  BY <1>1, <1>5, <1>6 DEF ChannelInv

\* clock_proc
LEMMA ClockKeepsChannels ==
  ASSUME Inv, EdgeInv, ChannelInv, ClockProc
  PROVE  EdgeInv' /\ ChannelInv'
<1>1. /\ EdgeInv' /\ ~HasRun("clock") /\ HasRun("clock")'
      /\ HasRun("decode")' <=> HasRun("decode")
  BY ReturnIs DEF ClockProc, Process
<1>2. /\ pc' = pc /\ fetch_out' = fetch_out /\ decode_out' = decode_out /\ reset' = reset
      /\ total_cycles' = total_cycles + 1
      /\ redirect' = IF ResultTaken
                     THEN [redirect EXCEPT !.next =
                             [taken |-> TRUE, target |-> execute_out.cur.branch_target]]
                     ELSE redirect
  BY DEF ClockProc, signals
<1>3. redirect' \in [cur : [taken : BOOLEAN, target : Word],
                     next : [taken : BOOLEAN, target : Word]]
  <2>1. CASE ResultTaken
    <3> DEFINE new == [taken |-> TRUE, target |-> execute_out.cur.branch_target]
    <3>1. execute_out.cur \in BranchResult
      BY <2>1 DEF ResultTaken, ResultValid, Inv, TypeOK
    <3>2. new \in [taken : BOOLEAN, target : Word]
      BY <3>1 DEF BranchResult
    <3>3. redirect' = [redirect EXCEPT !.next = new]
      BY <1>2, <2>1
    <3> HIDE DEF new
    <3> QED  BY <3>2, <3>3 DEF ChannelInv, ProcessorTypeOK
  <2>2. CASE ~ResultTaken
    BY <1>2, <2>2 DEF ChannelInv, ProcessorTypeOK
  <2> QED  BY <2>1, <2>2
<1>4. total_cycles' \in 0 .. SIMULATION_EDGES + 1 /\ total_cycles' <= SIMULATION_EDGES + 1
  BY <1>1, <1>2, ProcessorAssumption DEF ChannelInv, ProcessorTypeOK, CyclesInTime
<1>5. ProcessorTypeOK'
  BY <1>2, <1>3, <1>4 DEF ChannelInv, ProcessorTypeOK
<1>6. NothingFetchedInReset' /\ DecodeFollows' /\ CyclesInTime'
  BY <1>1, <1>2, <1>4
  DEF ChannelInv, NothingFetchedInReset, DecodeFollows, CyclesInTime
<1> QED  BY <1>1, <1>5, <1>6 DEF ChannelInv

\* The processes of the execution unit
LEMMA UnitKeepsChannels ==
  ASSUME EdgeInv, ChannelInv, ExecutionUnitStep
  PROVE  EdgeInv' /\ ChannelInv'
<1>1. EdgeInv' /\ \A q \in {"fetch", "decode", "clock"} : HasRun(q)' <=> HasRun(q)
  BY UnitStepOfEdge DEF ExecutionUnitStep
<1>2. UNCHANGED <<pc, bp, fetch_out, decode_out, redirect, analyzer, total_cycles>>
  BY DEF ExecutionUnitStep, frontEnd, statistics
<1>3. reset' = reset
  BY DEF ExecutionUnitStep, Issue, IssueReset, IssueNothing, IssueDropped, IssueAccepted,
         Execute, ExecuteAlu, ExecuteMem, ExecuteBranch, ExecuteReturn, Complete, Commit,
         CommitStore, CommitRegister, CommitReturn, signals
<1> QED  BY <1>1, <1>2, <1>3
         DEF ChannelInv, ProcessorTypeOK, NothingFetchedInReset, DecodeFollows, CyclesInTime

\* The signals take their new values.
LEMMA EdgeIs ==
  ASSUME ProcessorEdge
  PROVE  /\ fetch_out' = [cur |-> fetch_out.next, next |-> fetch_out.next]
         /\ decode_in' = decode_out /\ decode_out' = decode_out
         /\ redirect' = [redirect EXCEPT !.cur = redirect.next]
         /\ reset' \in {FALSE, reset}
         /\ UNCHANGED <<pc, bp, analyzer, total_cycles>>
         /\ total_cycles < SIMULATION_EDGES
  BY DEF ProcessorEdge, SameFetchPacket, SameDecodePacket, statistics

LEMMA EdgeKeepsChannels ==
  ASSUME EdgeInv, ChannelInv, ProcessorEdge
  PROVE  EdgeInv' /\ ChannelInv'
<1>1. EdgeInv' /\ ~HasRun("decode")' /\ ~HasRun("clock")'
  BY NextEdgeIs DEF ProcessorEdge, Process
<1>2. /\ fetch_out' = [cur |-> fetch_out.next, next |-> fetch_out.next]
      /\ decode_out' = decode_out /\ redirect' = [redirect EXCEPT !.cur = redirect.next]
      /\ reset' \in {FALSE, reset} /\ UNCHANGED <<pc, total_cycles>>
      /\ total_cycles < SIMULATION_EDGES
  BY EdgeIs
<1>3. ProcessorTypeOK'
  BY <1>2 DEF ChannelInv, ProcessorTypeOK
<1>4. NothingFetchedInReset'
  BY <1>2 DEF ChannelInv, NothingFetchedInReset
<1>5. DecodeFollows'
  BY <1>1 DEF DecodeFollows
<1>6. CyclesInTime'
  BY <1>1, <1>2, ProcessorAssumption DEF CyclesInTime, ChannelInv, ProcessorTypeOK
<1> QED  BY <1>1, <1>3, <1>4, <1>5, <1>6 DEF ChannelInv

-----------------------------------------------------------------------------
(***************************************************************************)
(* The statistics                                                          *)
(***************************************************************************)
\* The opcode in the channel from fetch, the one in the channel to issue
InFetch(o)  == fetch_out.cur # NoFetch /\ Fields(fetch_out.cur.instruction).opcode = o
InDecode(o) == decode_in # NoPacket /\ decode_in.opcode = o

\* What clock_proc does to a counter of the two columns the properties relate
LEMMA ClockRecords ==
  ASSUME Inv, ChannelInv, analyzer \in AnalyzerType, Agree(analyzer), ClockProc
  PROVE  /\ analyzer' \in AnalyzerType /\ Agree(analyzer)'
         /\ \A o \in Opcode :
              /\ Fetched(analyzer)'[o] = More(Fetched(analyzer)[o], InFetch(o))
              /\ DecodedOf(analyzer)'[o] = More(DecodedOf(analyzer)[o], InDecode(o))
         /\ Total(Fetched(analyzer)', Branches) =
              More(Total(Fetched(analyzer), Branches), IsBranchPacket(fetch_out.cur))
<1> DEFINE r == execute_out.cur
           a0 == UpdateTotalCycles(analyzer, total_cycles + 1)
           a1 == RecordInstructionWriteback(a0, Fields(r.instruction).opcode)
           a2 == RecordPipelineFlush(RecordControlHazard(a1))
           a3 == IF ~ResultValid THEN a0 ELSE IF r.branch_taken THEN a2 ELSE a1
           a4 == WithFetched(a3)
           a5 == WithDecoded(a4)
<1> DEFINE Kept(a) == /\ a \in AnalyzerType /\ Agree(a)
                      /\ Fetched(a) = Fetched(analyzer) /\ DecodedOf(a) = DecodedOf(analyzer)
<1>1. Kept(a0)
  <2>1. total_cycles + 1 \in Nat
    BY DEF ChannelInv, ProcessorTypeOK
  <2>2. Uncounted(analyzer, a0)
    BY <2>1, OthersRecorded
  <2> HIDE DEF a0
  <2> QED  BY <2>2, UncountedKeepsAgreement
<1> HIDE DEF a0
<1>2. ASSUME ResultValid
      PROVE  Kept(a1)
  <2>1. r \in BranchResult
    BY <1>2 DEF ResultValid, Inv, TypeOK
  <2>2. r.instruction \in Instruction
    <3>1. memory \in Memory /\ r.instruction = 0
      BY <2>1 DEF BranchResult, Inv, TypeOK
    <3> QED  BY <3>1, InstructionIs, ZeroIsWord
  <2> DEFINE o == Fields(r.instruction).opcode
  <2>3. o \in Opcode
    BY <2>2, FieldsAreTyped
  <2> HIDE DEF o
  <2>4. Records(a0, RecordInstructionWriteback(a0, o), o, "writeback")
    BY <1>1, <2>3, WritebackRecorded
  <2>5. /\ Agree(RecordInstructionWriteback(a0, o))
        /\ \A p \in Opcode :
             /\ Fetched(RecordInstructionWriteback(a0, o))[p] = Fetched(a0)[p]
             /\ DecodedOf(RecordInstructionWriteback(a0, o))[p] = DecodedOf(a0)[p]
    <3> DEFINE b == RecordInstructionWriteback(a0, o)
    <3> HIDE DEF b
    <3>0. Records(a0, b, o, "writeback")
      BY <2>4 DEF b
    <3>1. /\ Agree(b)
          /\ \A p \in Opcode :
               /\ Fetched(b)[p] = More(Fetched(a0)[p], "writeback" = "fetch" /\ p = o)
               /\ DecodedOf(b)[p] = More(DecodedOf(a0)[p], "writeback" = "decode" /\ p = o)
      BY <1>1, <2>3, <3>0, RecordKeepsAgreement
    <3>2. Fetched(a0) \in [Opcode -> Nat] /\ DecodedOf(a0) \in [Opcode -> Nat]
      BY <1>1, ColumnTypes
    <3> QED  BY <3>1, <3>2 DEF More, b
  <2>6. a1 \in AnalyzerType /\ Agree(a1)
    BY <2>4, <2>5 DEF Records, o
  <2> HIDE DEF a1
  <2>7. Fetched(a1) = Fetched(a0) /\ DecodedOf(a1) = DecodedOf(a0)
    BY <2>5 DEF Fetched, DecodedOf, a1, o
  <2> QED  BY <1>1, <2>6, <2>7
<1> HIDE DEF a1
<1>3. ASSUME ResultValid
      PROVE  Kept(a2)
  <2>1. Uncounted(a1, RecordControlHazard(a1))
    BY <1>2, <1>3, OthersRecorded
  <2>2. Kept(RecordControlHazard(a1))
    BY <1>2, <1>3, <2>1, UncountedKeepsAgreement
  <2>3. Uncounted(RecordControlHazard(a1), a2)
    BY <2>2, OthersRecorded
  <2> QED  BY <2>2, <2>3, UncountedKeepsAgreement
<1> HIDE DEF a2
<1>4. Kept(a3)
  BY <1>1, <1>2, <1>3
<1>5. analyzer' = a5
  <2>1. ResultValid => ~r.mem_access
    BY DEF ResultValid, Inv, TypeOK, BranchResult
  <2>2. ResultValid => WithResult(a0, r) = IF r.branch_taken THEN a2 ELSE a1
    BY <2>1 DEF WithResult, a1, a2
  <2>3. analyzer' = WithDecoded(WithFetched(IF ResultValid THEN WithResult(a0, r) ELSE a0))
    BY DEF ClockProc, a0
  <2>4. a3 = IF ResultValid THEN WithResult(a0, r) ELSE a0
    BY <2>2
  <2> HIDE DEF a3
  <2> QED  BY <2>3, <2>4
<1> HIDE DEF a3
<1>6. /\ a4 \in AnalyzerType /\ Agree(a4)
      /\ \A o \in Opcode :
           /\ Fetched(a4)[o] = More(Fetched(analyzer)[o], InFetch(o))
           /\ DecodedOf(a4)[o] = DecodedOf(analyzer)[o]
      /\ Total(Fetched(a4), Branches) =
           More(Total(Fetched(analyzer), Branches), IsBranchPacket(fetch_out.cur))
  <2>1. CASE fetch_out.cur = NoFetch
    <3>1. a4 = a3
      BY <2>1 DEF WithFetched
    <3>2. ~IsBranchPacket(fetch_out.cur) /\ \A o : ~InFetch(o)
      BY <2>1 DEF IsBranchPacket, InFetch
    <3>3. Fetched(analyzer) \in [Opcode -> Nat]
      BY ColumnTypes
    <3>4. Total(Fetched(analyzer), Branches) \in Nat
      BY <3>3, TotalType
    <3> HIDE DEF a4
    <3> QED  BY <1>4, <3>1, <3>2, <3>3, <3>4 DEF More
  <2>2. CASE fetch_out.cur # NoFetch
    <3> DEFINE o == Fields(fetch_out.cur.instruction).opcode
    <3>1. fetch_out.cur.instruction \in Instruction
      BY <2>2 DEF ChannelInv, ProcessorTypeOK, FetchPacket
    <3>2. o \in Opcode
      BY <3>1, FieldsAreTyped
    <3>3. a4 = RecordInstructionFetch(a3, o)
      BY <2>2 DEF WithFetched
    <3>4. IsBranchPacket(fetch_out.cur) <=> o \in Branches
      BY <2>2 DEF IsBranchPacket, IsBranchOpcode, Branches
    <3>5. \A p : InFetch(p) <=> p = o
      BY <2>2 DEF InFetch
    <3> HIDE DEF o, a4
    <3>6. Records(a3, a4, o, "fetch")
      BY <1>4, <3>2, <3>3, FetchRecorded
    <3>7. /\ Agree(a4)
          /\ \A p \in Opcode :
               /\ Fetched(a4)[p] = More(Fetched(a3)[p], "fetch" = "fetch" /\ p = o)
               /\ DecodedOf(a4)[p] = More(DecodedOf(a3)[p], "fetch" = "decode" /\ p = o)
      BY <1>4, <3>2, <3>6, RecordKeepsAgreement
    <3>8. Total(Fetched(a4), Branches) =
            More(Total(Fetched(a3), Branches), "fetch" = "fetch" /\ o \in Branches)
      <4>1. a3 \in AnalyzerType /\ Agree(a3)
        BY <1>4
      <4>2. Total(Fetched(a4), Branches) = More(Total(Fetched(a3), Branches), o \in Branches)
        BY <4>1, <3>2, <3>6, FetchedTotal
      <4> QED  BY <4>2
    <3>9. a4 \in AnalyzerType
      BY <3>6 DEF Records
    <3>10. DecodedOf(a3) \in [Opcode -> Nat]
      BY <1>4, ColumnTypes
    <3> QED  BY <1>4, <3>4, <3>5, <3>7, <3>8, <3>9, <3>10 DEF More
  <2> QED  BY <2>1, <2>2
<1> HIDE DEF a4
<1>7. /\ a5 \in AnalyzerType /\ Agree(a5)
      /\ Fetched(a5) = Fetched(a4)
      /\ \A o \in Opcode : DecodedOf(a5)[o] = More(DecodedOf(a4)[o], InDecode(o))
  <2>1. CASE decode_in = NoPacket
    <3>1. a5 = a4 /\ \A o : ~InDecode(o)
      BY <2>1 DEF WithDecoded, InDecode
    <3>2. DecodedOf(a4) \in [Opcode -> Nat]
      BY <1>6, ColumnTypes
    <3> HIDE DEF a5
    <3> QED  BY <1>6, <3>1, <3>2 DEF More
  <2>2. CASE decode_in # NoPacket
    <3> DEFINE o == decode_in.opcode
    <3>1. o \in Opcode
      BY <2>2, PacketFields DEF Inv, TypeOK, DecodePacket
    <3>2. a5 = RecordInstructionDecode(a4, o, InstructionType(o))
      BY <2>2 DEF WithDecoded
    <3>3. \A p : InDecode(p) <=> p = o
      BY <2>2 DEF InDecode
    <3> HIDE DEF o, a5
    <3>4. Records(a4, a5, o, "decode")
      BY <1>6, <3>1, <3>2, DecodeRecorded
    <3>5. /\ Agree(a5)
          /\ \A p \in Opcode :
               /\ Fetched(a5)[p] = More(Fetched(a4)[p], "decode" = "fetch" /\ p = o)
               /\ DecodedOf(a5)[p] = More(DecodedOf(a4)[p], "decode" = "decode" /\ p = o)
      BY <1>6, <3>1, <3>4, RecordKeepsAgreement
    <3>6. a5 \in AnalyzerType
      BY <3>4 DEF Records
    <3>7. Fetched(a4) \in [Opcode -> Nat] /\ Fetched(a5) \in [Opcode -> Nat]
      BY <1>6, <3>6, ColumnTypes
    <3>8. \A p \in Opcode : Fetched(a5)[p] = Fetched(a4)[p]
      BY <3>5, <3>7 DEF More
    <3>9. Fetched(a5) = Fetched(a4)
      BY <3>7, <3>8
    <3> QED  BY <3>3, <3>5, <3>6, <3>9 DEF More
  <2> QED  BY <2>1, <2>2
<1> HIDE DEF a5
<1>8. Agree(analyzer)' /\ analyzer' \in AnalyzerType
  BY <1>5, <1>7
<1>9. Fetched(analyzer)' = Fetched(a4) /\ DecodedOf(analyzer)' = DecodedOf(a5)
  BY <1>5, <1>7
<1> QED  BY <1>6, <1>7, <1>8, <1>9

\* The predictor's counters: fetch counts its branches, clock_proc outcomes.
LEMMA PredictCounts ==
  ASSUME PredictorCounts, NEW inst, bp' = BpAfterPredict(bp, inst)
  PROVE  /\ PredictorCounts'
         /\ bp'.total_predictions = More(bp.total_predictions, IsBranchOpcode(inst.opcode))
<1>1. CASE IsBranchOpcode(inst.opcode)
  <2>1. bp' = [bp EXCEPT !.total_predictions = @ + 1]
    BY <1>1 DEF BpAfterPredict
  <2> QED  BY <1>1, <2>1 DEF PredictorCounts, More
<1>2. CASE ~IsBranchOpcode(inst.opcode)
  <2>1. bp' = bp
    BY <1>2 DEF BpAfterPredict
  <2> QED  BY <1>2, <2>1 DEF PredictorCounts, More
<1> QED  BY <1>1, <1>2

LEMMA OutcomeCounts ==
  ASSUME PredictorCounts, NEW address, NEW taken, bp' = BpUpdate(bp, address, taken)
  PROVE  PredictorCounts' /\ bp'.total_predictions = bp.total_predictions
<1> DEFINE bht == [bp.bht EXCEPT ![BhtIndex(bp, address)] =
                     IF bp.predictor_type = "ONE_BIT" THEN IF taken THEN 1 ELSE 0
                     ELSE IF bp.predictor_type \in {"TWO_BIT", "TOURNAMENT"}
                          THEN Counted(@, taken) ELSE @]
           pht == [bp.pht EXCEPT ![PhtIndex(bp, address)] =
                     IF bp.predictor_type \in {"GSHARE", "TOURNAMENT"}
                     THEN Counted(@, taken) ELSE @]
           ghr == IF bp.predictor_type \in {"GSHARE", "TOURNAMENT"}
                  THEN ShiftedHistory(bp.ghr, taken) ELSE bp.ghr
           correct == IF CountsAsCorrect(bp, address, taken)
                      THEN bp.correct_predictions + 1 ELSE bp.correct_predictions
<1>1. bp' = [bp EXCEPT !.bht = bht, !.pht = pht, !.ghr = ghr,
                       !.correct_predictions = correct]
  BY DEF BpUpdate, PredictorCounts
<1>2. correct \in Nat
  BY DEF PredictorCounts
<1> HIDE DEF bht, pht, ghr, correct
<1> QED  BY <1>1, <1>2 DEF PredictorCounts

\* The two invariants on the counters in terms of the columns
LEMMA CountersByColumn ==
  /\ BreakdownsAgree <=> Agree(analyzer)
  /\ BranchFetches = Total(Fetched(analyzer), Branches)
  /\ FetchedIsDecodedOrOnItsWay <=>
       \A o \in Opcode : Fetched(analyzer)[o] =
         More(DecodedOf(analyzer)[o], IF HasRun("clock") THEN InFetch(o) ELSE InDecode(o))
<1>1. BreakdownsAgree <=> Agree(analyzer)
  BY DEF BreakdownsAgree, Agree, fetched, decoded, written, Fetched, DecodedOf, Written
<1>2. BranchFetches = Total(Fetched(analyzer), Branches)
  BY DEF BranchFetches, fetched, Fetched, Branches
<1>3. \A o : InChannel(o) <=> IF HasRun("clock") THEN InFetch(o) ELSE InDecode(o)
  BY DEF InChannel, InFetch, InDecode
<1>4. FetchedIsDecodedOrOnItsWay <=>
        \A o \in Opcode : Fetched(analyzer)[o] = More(DecodedOf(analyzer)[o], InChannel(o))
  BY DEF FetchedIsDecodedOrOnItsWay, Fetched, DecodedOf, More
<1> QED  BY <1>1, <1>2, <1>3, <1>4

\* What the branches in the channel from fetch add to the predictions
OnTheirWay ==
  (IF IsBranchPacket(fetch_out.cur) /\ ~HasRun("clock") THEN 1 ELSE 0)
    + (IF IsBranchPacket(fetch_out.next) /\ HasRun("fetch") THEN 1 ELSE 0)

LEMMA PredictionsByColumn ==
  PredictorCounts /\ analyzer \in AnalyzerType =>
    /\ PredictionsAreFetches <=>
         bp.total_predictions = Total(Fetched(analyzer), Branches) + OnTheirWay
    /\ Total(Fetched(analyzer), Branches) \in Nat
<1> SUFFICES ASSUME PredictorCounts, analyzer \in AnalyzerType
             PROVE  /\ PredictionsAreFetches <=>
                         bp.total_predictions = Total(Fetched(analyzer), Branches) + OnTheirWay
                    /\ Total(Fetched(analyzer), Branches) \in Nat
  OBVIOUS
<1> DEFINE n == Total(Fetched(analyzer), Branches)
<1>1. n \in Nat
  BY ColumnTypes, TotalType
<1>2. BranchFetches = n
  BY CountersByColumn
<1> HIDE DEF n
<1>3. PredictionsAreFetches <=> bp.total_predictions = n + OnTheirWay
  BY <1>1, <1>2 DEF PredictionsAreFetches, OnTheirWay
<1> QED  BY <1>1, <1>3 DEF n

LEMMA InitialStatistics ==
  ASSUME ProcessorInit
  PROVE  StatisticsInv
<1>1. /\ fetch_out = [cur |-> NoFetch, next |-> NoFetch] /\ decode_in = NoPacket
      /\ analyzer = AnalyzerInit /\ KernelInit
      /\ \E type \in PredictorTypes : bp = BpInit(type)
  BY DEF ProcessorInit, Init
<1>2. ~HasRun("clock") /\ ~HasRun("fetch")
  BY <1>1, InitialEdge DEF Process, EuProcess
<1>3. PredictorCounts /\ bp.total_predictions = 0
  BY <1>1 DEF PredictorCounts, BpInit
<1>4. analyzer \in AnalyzerType /\ Agree(analyzer)
  BY <1>1, InitialAnalyzer, InitialAgreement
<1>5. FetchedIsDecodedOrOnItsWay
  BY <1>1, <1>2 DEF FetchedIsDecodedOrOnItsWay, InChannel, AnalyzerInit, InstructionStats
<1>6. PredictionsAreFetches
  <2>1. Total(Fetched(analyzer), Branches) = 0
    BY <1>1 DEF Total, Fetched, AnalyzerInit, InstructionStats, Opcode
  <2>2. OnTheirWay = 0
    BY <1>1, <1>2 DEF OnTheirWay, IsBranchPacket
  <2> QED  BY <1>3, <1>4, <2>1, <2>2, PredictionsByColumn
<1> QED  BY <1>3, <1>4, <1>5, <1>6 DEF StatisticsInv

LEMMA CountersByColumnPrimed ==
  FetchedIsDecodedOrOnItsWay' <=>
    \A o \in Opcode : Fetched(analyzer)'[o] =
      More(DecodedOf(analyzer)'[o], IF HasRun("clock")' THEN InFetch(o)' ELSE InDecode(o)')
<1>1. ( FetchedIsDecodedOrOnItsWay <=>
          \A o \in Opcode : Fetched(analyzer)[o] =
            More(DecodedOf(analyzer)[o], IF HasRun("clock") THEN InFetch(o) ELSE InDecode(o)) )'
  BY CountersByColumn, PTL
<1> QED  BY <1>1

LEMMA PredictionsByColumnPrimed ==
  PredictorCounts' /\ analyzer' \in AnalyzerType =>
    /\ PredictionsAreFetches' <=>
         bp'.total_predictions = Total(Fetched(analyzer)', Branches) + OnTheirWay'
    /\ Total(Fetched(analyzer)', Branches) \in Nat
<1>1. ( PredictorCounts /\ analyzer \in AnalyzerType =>
          /\ PredictionsAreFetches <=>
               bp.total_predictions = Total(Fetched(analyzer), Branches) + OnTheirWay
          /\ Total(Fetched(analyzer), Branches) \in Nat )'
  BY PredictionsByColumn, PTL
<1> QED  BY <1>1

\* fetch_proc: a branch is predicted and put into the channel.
LEMMA FetchKeepsStatistics ==
  ASSUME Inv, EdgeInv, ChannelInv, StatisticsInv, FetchReset \/ FetchInstruction
  PROVE  StatisticsInv'
<1>1. /\ ~HasRun("fetch") /\ HasRun("fetch")'
      /\ HasRun("clock")' <=> HasRun("clock")
  BY ReturnIs DEF FetchReset, FetchInstruction, Process, EuProcess
<1>2. /\ analyzer' = analyzer /\ decode_in' = decode_in /\ fetch_out'.cur = fetch_out.cur
  BY DEF FetchReset, FetchInstruction, signals, statistics, ChannelInv, ProcessorTypeOK
<1>3. /\ PredictorCounts'
      /\ bp'.total_predictions = More(bp.total_predictions, IsBranchPacket(fetch_out'.next))
  <2>1. CASE FetchReset
    <3>1. bp' = bp /\ fetch_out'.next = NoFetch
      BY <2>1 DEF FetchReset, ChannelInv, ProcessorTypeOK
    <3> QED  BY <3>1 DEF IsBranchPacket, More, StatisticsInv, PredictorCounts
  <2>2. CASE FetchInstruction
    <3>1. PICK packet \in FetchPacket :
            /\ fetch_out' = [fetch_out EXCEPT !.next = packet]
            /\ bp' = BpAfterPredict(bp, Predictable(packet.instruction))
      BY <2>2, FetchIs
    <3>2. fetch_out'.next = packet /\ packet # NoFetch
      BY <3>1, ProcessorAssumption DEF ChannelInv, ProcessorTypeOK
    <3>3. IsBranchPacket(fetch_out'.next) <=>
            IsBranchOpcode(Predictable(packet.instruction).opcode)
      BY <3>2 DEF IsBranchPacket, Predictable
    <3>4. /\ PredictorCounts'
          /\ bp'.total_predictions = More(bp.total_predictions,
                                          IsBranchOpcode(Predictable(packet.instruction).opcode))
      BY <3>1, PredictCounts DEF StatisticsInv
    <3> QED  BY <3>3, <3>4 DEF More
  <2> QED  BY <2>1, <2>2
<1>4. FetchedIsDecodedOrOnItsWay'
  BY <1>1, <1>2 DEF StatisticsInv, FetchedIsDecodedOrOnItsWay, InChannel
<1>5. OnTheirWay' = OnTheirWay + IF IsBranchPacket(fetch_out'.next) THEN 1 ELSE 0
  BY <1>1, <1>2 DEF OnTheirWay, IsBranchPacket
<1>6. PredictionsAreFetches'
  <2>1. bp.total_predictions = Total(Fetched(analyzer), Branches) + OnTheirWay
          /\ Total(Fetched(analyzer), Branches) \in Nat
    BY PredictionsByColumn DEF StatisticsInv
  <2>2. OnTheirWay \in Nat
    BY DEF OnTheirWay
  <2>3. Total(Fetched(analyzer)', Branches) = Total(Fetched(analyzer), Branches)
    BY <1>2 DEF Fetched
  <2>4. bp'.total_predictions = Total(Fetched(analyzer)', Branches) + OnTheirWay'
    BY <1>3, <1>5, <2>1, <2>2, <2>3 DEF More
  <2> QED  BY <1>2, <1>3, <2>4, PredictionsByColumnPrimed DEF StatisticsInv
<1>7. analyzer' \in AnalyzerType /\ Agree(analyzer)'
  BY <1>2 DEF StatisticsInv
<1> QED  BY <1>3, <1>4, <1>6, <1>7 DEF StatisticsInv

\* clock_proc: the channels' contents are counted.
LEMMA ClockKeepsStatistics ==
  ASSUME Inv, EdgeInv, ChannelInv, StatisticsInv, ClockProc
  PROVE  StatisticsInv'
<1>1. /\ ~HasRun("clock") /\ HasRun("clock")'
      /\ HasRun("fetch")' <=> HasRun("fetch")
  BY ReturnIs DEF ClockProc, Process
<1>2. fetch_out' = fetch_out /\ decode_in' = decode_in
  BY DEF ClockProc, signals
<1>3. /\ analyzer' \in AnalyzerType /\ Agree(analyzer)'
      /\ \A o \in Opcode :
           /\ Fetched(analyzer)'[o] = More(Fetched(analyzer)[o], InFetch(o))
           /\ DecodedOf(analyzer)'[o] = More(DecodedOf(analyzer)[o], InDecode(o))
  BY ClockRecords DEF StatisticsInv
<1>4. Total(Fetched(analyzer)', Branches) =
        More(Total(Fetched(analyzer), Branches), IsBranchPacket(fetch_out.cur))
  BY ClockRecords DEF StatisticsInv
<1>5. PredictorCounts' /\ bp'.total_predictions = bp.total_predictions
  <2>1. \/ bp' = BpUpdate(bp, execute_out.cur.pc, execute_out.cur.branch_taken)
        \/ bp' = bp
    BY DEF ClockProc
  <2>2. CASE bp' = bp
    BY <2>2 DEF StatisticsInv, PredictorCounts
  <2>3. CASE bp' = BpUpdate(bp, execute_out.cur.pc, execute_out.cur.branch_taken)
    BY <2>3, OutcomeCounts DEF StatisticsInv
  <2> QED  BY <2>1, <2>2, <2>3
<1>6. FetchedIsDecodedOrOnItsWay'
  <2>1. \A o \in Opcode : Fetched(analyzer)[o] = More(DecodedOf(analyzer)[o], InDecode(o))
    BY <1>1, CountersByColumn DEF StatisticsInv
  <2>2. \A o \in Opcode : DecodedOf(analyzer)[o] \in Nat
    BY ColumnTypes DEF StatisticsInv
  <2>3. \A o : InFetch(o)' <=> InFetch(o)
    BY <1>2 DEF InFetch
  <2>4. \A o \in Opcode : Fetched(analyzer)'[o] = More(DecodedOf(analyzer)'[o], InFetch(o)')
    BY <1>3, <2>1, <2>2, <2>3 DEF More
  <2> QED  BY <1>1, <2>4, CountersByColumnPrimed
<1>7. PredictionsAreFetches'
  <2>1. bp.total_predictions = Total(Fetched(analyzer), Branches) + OnTheirWay
          /\ Total(Fetched(analyzer), Branches) \in Nat
    BY PredictionsByColumn DEF StatisticsInv
  <2>2. OnTheirWay = OnTheirWay' + IF IsBranchPacket(fetch_out.cur) THEN 1 ELSE 0
    BY <1>1, <1>2 DEF OnTheirWay
  <2>3. OnTheirWay' \in Nat
    BY <1>1, <1>2 DEF OnTheirWay
  <2>4. bp'.total_predictions = Total(Fetched(analyzer)', Branches) + OnTheirWay'
    BY <1>4, <1>5, <2>1, <2>2, <2>3 DEF More
  <2> QED  BY <1>3, <1>5, <2>4, PredictionsByColumnPrimed
<1> QED  BY <1>3, <1>5, <1>6, <1>7 DEF StatisticsInv

\* decode_proc and the execution unit's processes change nothing that is counted.
LEMMA OthersKeepStatistics ==
  ASSUME EdgeInv, StatisticsInv, Decode \/ ExecutionUnitStep
  PROVE  StatisticsInv'
<1>1. /\ HasRun("clock")' <=> HasRun("clock")
      /\ HasRun("fetch")' <=> HasRun("fetch")
  <2>1. CASE Decode
    BY <2>1, ReturnIs DEF Decode, Process
  <2>2. CASE ExecutionUnitStep
    BY <2>2, UnitStepOfEdge DEF ExecutionUnitStep
  <2> QED  BY <2>1, <2>2
<1>2. bp' = bp /\ fetch_out' = fetch_out /\ analyzer' = analyzer
  BY DEF Decode, ExecutionUnitStep, frontEnd, statistics
<1>3. decode_in' = decode_in
  BY DEF Decode, ExecutionUnitStep, Issue, IssueReset, IssueNothing, IssueDropped,
         IssueAccepted, Execute, ExecuteAlu, ExecuteMem, ExecuteBranch, ExecuteReturn,
         Complete, Commit, CommitStore, CommitRegister, CommitReturn, signals
<1>4. PredictorCounts' /\ analyzer' \in AnalyzerType /\ Agree(analyzer)'
  BY <1>2 DEF StatisticsInv, PredictorCounts
<1>5. FetchedIsDecodedOrOnItsWay'
  BY <1>1, <1>2, <1>3 DEF StatisticsInv, FetchedIsDecodedOrOnItsWay, InChannel
<1>6. PredictionsAreFetches'
  BY <1>1, <1>2 DEF StatisticsInv, PredictionsAreFetches, BranchFetches, fetched
<1> QED  BY <1>4, <1>5, <1>6 DEF StatisticsInv

\* The edge: what was in the channel from fetch is in the one to issue.
LEMMA EdgeKeepsStatistics ==
  ASSUME EdgeInv, ChannelInv, StatisticsInv, ProcessorEdge
  PROVE  StatisticsInv'
<1>1. /\ HasRun("decode") /\ HasRun("clock") /\ HasRun("fetch")
      /\ ~HasRun("clock")' /\ ~HasRun("fetch")'
  BY NextEdgeIs DEF ProcessorEdge, Process
<1>2. /\ fetch_out'.cur = fetch_out.next /\ decode_in' = decode_out
      /\ bp' = bp /\ analyzer' = analyzer
  BY EdgeIs
<1>3. PredictorCounts' /\ analyzer' \in AnalyzerType /\ Agree(analyzer)'
  BY <1>2 DEF StatisticsInv, PredictorCounts
<1>4. \A o : InDecode(o)' <=> InFetch(o)
  <2>1. decode_in' = IF fetch_out.cur = NoFetch THEN NoPacket ELSE Decoded(fetch_out.cur)
    BY <1>1, <1>2 DEF ChannelInv, DecodeFollows
  <2>2. CASE fetch_out.cur = NoFetch
    BY <2>1, <2>2 DEF InDecode, InFetch
  <2>3. CASE fetch_out.cur # NoFetch
    <3>1. fetch_out.cur \in FetchPacket
      BY <2>3 DEF ChannelInv, ProcessorTypeOK
    <3>2. Decoded(fetch_out.cur) # NoPacket
      BY <3>1, DecoderAssumption, TypesAssumption
    <3>3. Decoded(fetch_out.cur).opcode = Fields(fetch_out.cur.instruction).opcode
      BY DEF Decoded
    <3> QED  BY <2>1, <2>3, <3>2, <3>3 DEF InDecode, InFetch
  <2> QED  BY <2>2, <2>3
<1>5. FetchedIsDecodedOrOnItsWay'
  <2>1. \A o \in Opcode : Fetched(analyzer)[o] = More(DecodedOf(analyzer)[o], InFetch(o))
    BY <1>1, CountersByColumn DEF StatisticsInv
  <2>2. \A o \in Opcode : Fetched(analyzer)'[o] = More(DecodedOf(analyzer)'[o], InDecode(o)')
    BY <1>2, <1>4, <2>1 DEF More, Fetched, DecodedOf
  <2> QED  BY <1>1, <2>2, CountersByColumnPrimed
<1>6. PredictionsAreFetches'
  <2>1. bp.total_predictions = Total(Fetched(analyzer), Branches) + OnTheirWay
          /\ Total(Fetched(analyzer), Branches) \in Nat
    BY PredictionsByColumn DEF StatisticsInv
  <2>2. IsBranchPacket(fetch_out'.cur) <=> IsBranchPacket(fetch_out.next)
    BY <1>2
  <2>3. OnTheirWay = IF IsBranchPacket(fetch_out.next) THEN 1 ELSE 0
    BY <1>1 DEF OnTheirWay
  <2>4. OnTheirWay' = IF IsBranchPacket(fetch_out'.cur) THEN 1 ELSE 0
    BY <1>1 DEF OnTheirWay
  <2>5. OnTheirWay' = OnTheirWay
    BY <2>2, <2>3, <2>4
  <2>6. bp'.total_predictions = Total(Fetched(analyzer)', Branches) + OnTheirWay'
    BY <1>2, <2>1, <2>5
  <2> QED  BY <1>3, <2>6, PredictionsByColumnPrimed
<1> QED  BY <1>3, <1>5, <1>6 DEF StatisticsInv

-----------------------------------------------------------------------------
(***************************************************************************)
(* The invariant is one, and what it says                                  *)
(***************************************************************************)
LEMMA ProcessorInvInit == ProcessorInit => ProcessorInv
<1> SUFFICES ASSUME ProcessorInit PROVE ProcessorInv
  OBVIOUS
<1>1. Inv /\ EdgeInv
  BY InitInv, InitialEdge DEF ProcessorInit, Init
<1> QED  BY <1>1, InitialChannels, InitialStatistics DEF ProcessorInv

LEMMA ProcessorInvStep == ProcessorInv /\ [ProcessorNext]_processorVars => ProcessorInv'
<1> SUFFICES ASSUME ProcessorInv, [ProcessorNext]_processorVars PROVE ProcessorInv'
  OBVIOUS
<1>1. Inv /\ EdgeInv /\ ChannelInv /\ StatisticsInv
  BY DEF ProcessorInv
<1>2. Inv'
  BY <1>1, UnitInvStep DEF ChannelInv, ProcessorTypeOK
<1>3. CASE FetchReset \/ FetchInstruction
  BY <1>1, <1>2, <1>3, FetchKeepsChannels, FetchKeepsStatistics DEF ProcessorInv
<1>4. CASE Decode
  BY <1>1, <1>2, <1>4, DecodeKeepsChannels, OthersKeepStatistics DEF ProcessorInv
<1>5. CASE ClockProc
  BY <1>1, <1>2, <1>5, ClockKeepsChannels, ClockKeepsStatistics DEF ProcessorInv
<1>6. CASE ExecutionUnitStep
  BY <1>1, <1>2, <1>6, UnitKeepsChannels, OthersKeepStatistics DEF ProcessorInv
<1>7. CASE ProcessorEdge
  BY <1>1, <1>2, <1>7, EdgeKeepsChannels, EdgeKeepsStatistics DEF ProcessorInv
<1>8. CASE UNCHANGED processorVars
  <2>1. UNCHANGED <<pc, bp, fetch_out, decode_out, redirect, analyzer, total_cycles,
                    decode_in, reset, order, pending>>
    BY <1>8 DEF processorVars, vars, frontEnd, statistics
  <2>2. EdgeInv'
    BY <1>1, <2>1 DEF EdgeInv
  <2>3. ChannelInv'
    BY <1>1, <2>1 DEF ChannelInv, ProcessorTypeOK, NothingFetchedInReset, DecodeFollows,
                      CyclesInTime, HasRun
  <2>4. PredictorCounts' /\ analyzer' \in AnalyzerType /\ Agree(analyzer)'
    BY <1>1, <2>1 DEF StatisticsInv, PredictorCounts
  <2>5. FetchedIsDecodedOrOnItsWay'
    BY <1>1, <2>1 DEF StatisticsInv, FetchedIsDecodedOrOnItsWay, InChannel, HasRun
  <2>6. PredictionsAreFetches'
    BY <1>1, <2>1 DEF StatisticsInv, PredictionsAreFetches, BranchFetches, fetched, HasRun
  <2> QED  BY <1>2, <2>2, <2>3, <2>4, <2>5, <2>6 DEF ProcessorInv, StatisticsInv
<1> QED  BY <1>3, <1>4, <1>5, <1>6, <1>7, <1>8 DEF ProcessorNext

LEMMA ProcessorInvHolds == ProcessorSpec => []ProcessorInv
<1> QED  BY ProcessorInvInit, ProcessorInvStep, PTL DEF ProcessorSpec

\* Whatever the program and the order of the processes: fetch stays inside the
\* address space, decode passes on packets only, a redirect is to an address,
\* and the clock process counts every edge once.
THEOREM ProcessorTypeCorrect == ProcessorSpec => []ProcessorTypeOK
<1>1. ProcessorInv => ProcessorTypeOK
  BY DEF ProcessorInv, ChannelInv
<1> QED  BY ProcessorInvHolds, <1>1, PTL

\* What clock_proc counts as fetched it counts as decoded one edge later, in
\* reset and behind it: nothing gets lost between fetch and issue.
THEOREM NothingLostBeforeIssue == ProcessorSpec => []FetchedIsDecodedOrOnItsWay
<1>1. ProcessorInv => FetchedIsDecodedOrOnItsWay
  BY DEF ProcessorInv, StatisticsInv
<1> QED  BY ProcessorInvHolds, <1>1, PTL

\* The report's breakdowns by opcode and by type have the same sums.
THEOREM BreakdownsCorrect == ProcessorSpec => []BreakdownsAgree
<1>1. ProcessorInv => BreakdownsAgree
  BY CountersByColumn DEF ProcessorInv, StatisticsInv
<1> QED  BY ProcessorInvHolds, <1>1, PTL

\* The predictor and the analyzer count the same branches, two edges apart.
THEOREM PredictionsCorrect == ProcessorSpec => []PredictionsAreFetches
<1>1. ProcessorInv => PredictionsAreFetches
  BY DEF ProcessorInv, StatisticsInv
<1> QED  BY ProcessorInvHolds, <1>1, PTL

-----------------------------------------------------------------------------
(***************************************************************************)
(* What the predictor learns in the processor.  Its outcomes are all       *)
(* taken, so no two-bit counter ever falls below the weak state it starts  *)
(* in: it misses as long as it is there, and leaves it for good.           *)
(***************************************************************************)
RisenCounter == WEAKLY_NOT_TAKEN .. STRONGLY_TAKEN

TablesTypeOK ==
  /\ bp.bht \in [TableIndex -> IF bp.predictor_type = "ONE_BIT" THEN {0, 1} ELSE RisenCounter]
  /\ bp.pht \in [TableIndex -> RisenCounter]
  /\ bp.ghr \in 0 .. GHR_SIZE - 1

TrainingInv == TablesTypeOK /\ EntriesMissOnce

\* One more taken outcome trains its entry, and misses it if that is new.
LEMMA OneMoreTrained ==
  ASSUME NEW table \in [TableIndex -> RisenCounter], NEW i \in TableIndex, NEW after,
         after = [table EXCEPT ![i] = Counted(@, TRUE)]
  PROVE  /\ after \in [TableIndex -> RisenCounter]
         /\ Cardinality(Trained(table)) \in Nat
         /\ Cardinality(Trained(after))
              = Cardinality(Trained(table)) + IF table[i] >= WEAKLY_TAKEN THEN 0 ELSE 1
<1> DEFINE c == Counted(table[i], TRUE)
<1>1. /\ table[i] \in 1 .. 3 /\ c \in RisenCounter /\ c # WEAKLY_NOT_TAKEN
      /\ table[i] # WEAKLY_NOT_TAKEN <=> table[i] >= WEAKLY_TAKEN
  BY DEF Counted, RisenCounter, WEAKLY_NOT_TAKEN, WEAKLY_TAKEN, STRONGLY_TAKEN
<1> HIDE DEF c
<1>2. after = [table EXCEPT ![i] = c] /\ after \in [TableIndex -> RisenCounter]
  BY <1>1 DEF c
<1>3. Trained(after) = Trained(table) \union {i}
  BY <1>1, <1>2 DEF Trained
<1>4. IsFiniteSet(Trained(table))
  <2>1. IsFiniteSet(0 .. BHT_SIZE - 1)
    BY PredictorAssumption, FS_Interval
  <2>2. Trained(table) \subseteq 0 .. BHT_SIZE - 1
    BY DEF Trained, TableIndex
  <2> QED  BY <2>1, <2>2, FS_Subset
<1>5. i \in Trained(table) <=> table[i] >= WEAKLY_TAKEN
  BY <1>1 DEF Trained
<1> DEFINE j == Cardinality(Trained(table))
           k == Cardinality(Trained(after))
<1>6. /\ Cardinality(Trained(table)) \in Nat
      /\ Cardinality(Trained(after)) = IF i \in Trained(table) THEN Cardinality(Trained(table))
                                       ELSE Cardinality(Trained(table)) + 1
  BY <1>3, <1>4, FS_CardinalityType, FS_AddElement
<1> HIDE DEF j, k
<1>7. j \in Nat /\ k = j + IF table[i] >= WEAKLY_TAKEN THEN 0 ELSE 1
  <2>1. j \in Nat /\ k = IF table[i] >= WEAKLY_TAKEN THEN j ELSE j + 1
    BY <1>5, <1>6 DEF j, k
  <2> QED  BY <2>1
<1> QED  BY <1>2, <1>7 DEF j, k

\* An empty table has missed nothing.
LEMMA NothingTrained ==
  Cardinality(Trained([i \in TableIndex |-> WEAKLY_NOT_TAKEN])) = 0
<1>1. Trained([i \in TableIndex |-> WEAKLY_NOT_TAKEN]) = {}
  BY DEF Trained
<1> QED  BY <1>1, FS_EmptySet

LEMMA InitialTraining ==
  ASSUME ProcessorInit
  PROVE  TrainingInv
<1>1. PICK type \in PredictorTypes : bp = BpInit(type)
  BY DEF ProcessorInit
<1>2. analyzer.control_hazards = 0
  BY DEF ProcessorInit, AnalyzerInit
<1>3. /\ bp.predictor_type = type /\ bp.correct_predictions = 0 /\ bp.ghr = 0
      /\ bp.pht = [i \in TableIndex |-> WEAKLY_NOT_TAKEN]
      /\ bp.bht = [i \in TableIndex |-> IF type = "ONE_BIT" THEN 0 ELSE WEAKLY_NOT_TAKEN]
  BY <1>1 DEF BpInit
<1>4. TablesTypeOK
  BY <1>3, PredictorAssumption
  DEF TablesTypeOK, RisenCounter, WEAKLY_NOT_TAKEN, STRONGLY_TAKEN
<1>5. type # "ONE_BIT" => bp.bht = [i \in TableIndex |-> WEAKLY_NOT_TAKEN]
  BY <1>3
<1>6. missed = 0
  BY <1>2, <1>3 DEF missed
<1>7. EntriesMissOnce
  BY <1>3, <1>5, <1>6, NothingTrained DEF EntriesMissOnce
<1> QED  BY <1>4, <1>7 DEF TrainingInv

\* The analyzer counts a hazard for each taken outcome that it is told of.
LEMMA HazardsCounted ==
  ASSUME Inv, ChannelInv, analyzer \in AnalyzerType, ClockProc
  PROVE  analyzer'.control_hazards = More(analyzer.control_hazards, ResultTaken)
<1> DEFINE r == execute_out.cur
           n == analyzer.control_hazards
           a0 == UpdateTotalCycles(analyzer, total_cycles + 1)
           a1 == IF ResultValid THEN WithResult(a0, r) ELSE a0
           HasHazards(a, k) == "control_hazards" \in DOMAIN a /\ a.control_hazards = k
<1>1. HasHazards(a0, n)
  BY DEF UpdateTotalCycles, AnalyzerType
<1> HIDE DEF a0
<1>2. n \in Nat
  BY DEF AnalyzerType
<1> HIDE DEF n
<1>3. HasHazards(a1, More(n, ResultTaken))
  <2> DEFINE w == RecordInstructionWriteback(a0, Fields(r.instruction).opcode)
  <2>1. HasHazards(w, n)
    BY <1>1 DEF RecordInstructionWriteback
  <2> HIDE DEF w
  <2>2. ResultValid => ~r.mem_access
    BY DEF ResultValid, Inv, TypeOK, BranchResult
  <2>3. ResultValid => WithResult(a0, r)
                         = IF r.branch_taken THEN RecordPipelineFlush(RecordControlHazard(w)) ELSE w
    BY <2>2 DEF WithResult, w
  <2>4. HasHazards(RecordPipelineFlush(RecordControlHazard(w)), n + 1)
    <3> DEFINE h == RecordControlHazard(w)
    <3>1. HasHazards(h, n + 1)
      BY <2>1 DEF RecordControlHazard
    <3> HIDE DEF h
    <3>2. HasHazards(RecordPipelineFlush(h), n + 1)
      BY <3>1 DEF RecordPipelineFlush
    <3> QED  BY <3>2 DEF h
  <2>5. CASE ResultTaken
    <3>1. a1 = RecordPipelineFlush(RecordControlHazard(w))
      BY <2>3, <2>5 DEF ResultTaken
    <3> QED  BY <2>4, <2>5, <3>1 DEF More
  <2>6. CASE ResultValid /\ ~ResultTaken
    <3>1. a1 = w
      BY <2>3, <2>6 DEF ResultTaken
    <3> QED  BY <1>2, <2>1, <2>6, <3>1 DEF More
  <2>7. CASE ~ResultValid
    <3>1. a1 = a0 /\ ~ResultTaken
      BY <2>7 DEF ResultTaken
    <3> QED  BY <1>1, <1>2, <3>1 DEF More
  <2> QED  BY <2>5, <2>6, <2>7
<1> DEFINE a2 == WithFetched(a1)
           m == More(n, ResultTaken)
<1>4. analyzer' = WithDecoded(a2)
  BY DEF ClockProc, a0
<1> HIDE DEF a1, m
<1>5. HasHazards(a2, m)
  BY <1>3 DEF WithFetched, RecordInstructionFetch, m
<1> HIDE DEF a2
<1>6. HasHazards(WithDecoded(a2), m)
  BY <1>5 DEF WithDecoded, RecordInstructionDecode
<1> QED  BY <1>4, <1>6 DEF m, n

\* What update() does to the record, given a taken outcome
LEMMA TakenOutcome ==
  ASSUME PredictorCounts, NEW address, bp' = BpUpdate(bp, address, TRUE)
  PROVE  /\ bp'.predictor_type = bp.predictor_type
         /\ bp'.bht = [bp.bht EXCEPT ![BhtIndex(bp, address)] =
                         IF bp.predictor_type = "ONE_BIT" THEN 1
                         ELSE IF bp.predictor_type \in {"TWO_BIT", "TOURNAMENT"}
                              THEN Counted(@, TRUE) ELSE @]
         /\ bp'.pht = [bp.pht EXCEPT ![PhtIndex(bp, address)] =
                         IF bp.predictor_type \in {"GSHARE", "TOURNAMENT"}
                         THEN Counted(@, TRUE) ELSE @]
         /\ bp'.ghr = IF bp.predictor_type \in {"GSHARE", "TOURNAMENT"}
                      THEN ShiftedHistory(bp.ghr, TRUE) ELSE bp.ghr
         /\ bp'.correct_predictions = IF CountsAsCorrect(bp, address, TRUE)
                                      THEN bp.correct_predictions + 1
                                      ELSE bp.correct_predictions
BY DEF BpUpdate, PredictorCounts

LEMMA OutcomeTrains ==
  ASSUME HashesAreNumbers, PredictorCounts, TablesTypeOK,
         NEW address \in Word, bp' = BpUpdate(bp, address, TRUE)
  PROVE  /\ TablesTypeOK'
         /\ bp'.predictor_type = bp.predictor_type
         /\ bp.predictor_type = "STATIC_BTFN" =>
              bp'.correct_predictions = bp.correct_predictions
         /\ bp.predictor_type = "TWO_BIT" =>
              /\ {Cardinality(Trained(bp.bht)), Cardinality(Trained(bp'.bht))} \subseteq Nat
              /\ Cardinality(Trained(bp'.bht)) + bp'.correct_predictions
                   = Cardinality(Trained(bp.bht)) + bp.correct_predictions + 1
         /\ bp.predictor_type = "GSHARE" =>
              /\ {Cardinality(Trained(bp.pht)), Cardinality(Trained(bp'.pht))} \subseteq Nat
              /\ Cardinality(Trained(bp'.pht)) + bp'.correct_predictions
                   = Cardinality(Trained(bp.pht)) + bp.correct_predictions + 1
<1> DEFINE b == BhtIndex(bp, address)
           p == PhtIndex(bp, address)
           type == bp.predictor_type
<1>1. BHT_SIZE \in Nat \ {0} /\ GHR_SIZE \in Nat \ {0}
  BY PredictorAssumption
<1>2. address \in Nat
  BY TypesAssumption DEF Word
<1>3. b \in TableIndex
  <2>1. address \div 4 \in Int
    BY <1>2
  <2> QED  BY <1>1, <2>1, SMT DEF BhtIndex, TableIndex
<1>4. p \in TableIndex
  <2>1. HashXor(address \div 4, bp.ghr) \in Nat
    BY DEF HashesAreNumbers, TablesTypeOK
  <2> QED  BY <1>1, <2>1, SMT DEF PhtIndex, TableIndex
<1>5. bp.correct_predictions \in Nat
  BY DEF PredictorCounts
<1> HIDE DEF b, p, type
<1>6. /\ bp'.predictor_type = type
      /\ bp'.bht = [bp.bht EXCEPT ![b] =
                      IF type = "ONE_BIT" THEN 1
                      ELSE IF type \in {"TWO_BIT", "TOURNAMENT"} THEN Counted(@, TRUE) ELSE @]
      /\ bp'.pht = [bp.pht EXCEPT ![p] =
                      IF type \in {"GSHARE", "TOURNAMENT"} THEN Counted(@, TRUE) ELSE @]
      /\ bp'.ghr = IF type \in {"GSHARE", "TOURNAMENT"}
                   THEN ShiftedHistory(bp.ghr, TRUE) ELSE bp.ghr
      /\ bp'.correct_predictions = IF CountsAsCorrect(bp, address, TRUE)
                                   THEN bp.correct_predictions + 1
                                   ELSE bp.correct_predictions
  BY TakenOutcome DEF b, p, type
<1>7. bp.pht \in [TableIndex -> RisenCounter] /\ bp.ghr \in 0 .. GHR_SIZE - 1
  BY DEF TablesTypeOK
<1>8. type # "ONE_BIT" => bp.bht \in [TableIndex -> RisenCounter]
  BY DEF TablesTypeOK, type
<1>9. ASSUME type = "ONE_BIT" PROVE bp.bht \in [TableIndex -> {0, 1}]
  BY <1>9 DEF TablesTypeOK, type
<1>10. bp'.pht \in [TableIndex -> RisenCounter]
  <2>1. [bp.pht EXCEPT ![p] = Counted(@, TRUE)] \in [TableIndex -> RisenCounter]
    BY <1>4, <1>7, OneMoreTrained
  <2> QED  BY <1>4, <1>6, <1>7, <2>1
<1>11. bp'.bht \in [TableIndex -> IF type = "ONE_BIT" THEN {0, 1} ELSE RisenCounter]
  <2>1. CASE type = "ONE_BIT"
    BY <1>3, <1>6, <1>9, <2>1
  <2>2. CASE type # "ONE_BIT"
    <3>1. [bp.bht EXCEPT ![b] = Counted(@, TRUE)] \in [TableIndex -> RisenCounter]
      BY <1>3, <1>8, <2>2, OneMoreTrained
    <3> QED  BY <1>3, <1>6, <1>8, <2>2, <3>1
  <2> QED  BY <2>1, <2>2
<1>12. bp'.ghr \in 0 .. GHR_SIZE - 1
  <2>1. ShiftedHistory(bp.ghr, TRUE) \in 0 .. GHR_SIZE - 1
    <3>1. 2 * bp.ghr + 1 \in Int
      BY <1>1, <1>7
    <3> QED  BY <1>1, <3>1, SMT DEF ShiftedHistory
  <2> QED  BY <1>6, <1>7, <2>1
<1>13. TablesTypeOK'
  BY <1>6, <1>10, <1>11, <1>12 DEF TablesTypeOK
<1>14. type = "STATIC_BTFN" => bp'.correct_predictions = bp.correct_predictions
  BY <1>6 DEF CountsAsCorrect, type
<1>15. ASSUME type = "TWO_BIT"
       PROVE  /\ {Cardinality(Trained(bp.bht)), Cardinality(Trained(bp'.bht))} \subseteq Nat
              /\ Cardinality(Trained(bp'.bht)) + bp'.correct_predictions
                   = Cardinality(Trained(bp.bht)) + bp.correct_predictions + 1
  <2>1. bp'.bht = [bp.bht EXCEPT ![b] = Counted(@, TRUE)]
    BY <1>6, <1>15
  <2>2. /\ Cardinality(Trained(bp.bht)) \in Nat
        /\ Cardinality(Trained(bp'.bht))
             = Cardinality(Trained(bp.bht)) + IF bp.bht[b] >= WEAKLY_TAKEN THEN 0 ELSE 1
    BY <1>3, <1>8, <1>15, <2>1, OneMoreTrained
  <2>3. CountsAsCorrect(bp, address, TRUE) <=> bp.bht[b] >= WEAKLY_TAKEN
    BY <1>15 DEF CountsAsCorrect, BhtTaken, b, type
  <2>4. bp'.correct_predictions = IF bp.bht[b] >= WEAKLY_TAKEN
                                  THEN bp.correct_predictions + 1
                                  ELSE bp.correct_predictions
    BY <1>6, <2>3
  <2> DEFINE old == Cardinality(Trained(bp.bht))
             new == Cardinality(Trained(bp'.bht))
             n == bp'.correct_predictions
             right == bp.bht[b] >= WEAKLY_TAKEN
  <2>5. /\ old \in Nat /\ new = old + IF right THEN 0 ELSE 1
        /\ n = IF right THEN bp.correct_predictions + 1 ELSE bp.correct_predictions
    BY <2>2, <2>4
  <2> HIDE DEF old, new, n, right
  <2>6. /\ old \in Nat /\ new \in Nat
        /\ new + n = old + bp.correct_predictions + 1
    BY <1>5, <2>5
  <2> QED  BY <2>6 DEF old, new, n
<1>16. ASSUME type = "GSHARE"
       PROVE  /\ {Cardinality(Trained(bp.pht)), Cardinality(Trained(bp'.pht))} \subseteq Nat
              /\ Cardinality(Trained(bp'.pht)) + bp'.correct_predictions
                   = Cardinality(Trained(bp.pht)) + bp.correct_predictions + 1
  <2>1. bp'.pht = [bp.pht EXCEPT ![p] = Counted(@, TRUE)]
    BY <1>6, <1>16
  <2>2. /\ Cardinality(Trained(bp.pht)) \in Nat
        /\ Cardinality(Trained(bp'.pht))
             = Cardinality(Trained(bp.pht)) + IF bp.pht[p] >= WEAKLY_TAKEN THEN 0 ELSE 1
    BY <1>4, <1>7, <2>1, OneMoreTrained
  <2>3. CountsAsCorrect(bp, address, TRUE) <=> bp.pht[p] >= WEAKLY_TAKEN
    BY <1>16 DEF CountsAsCorrect, PhtTaken, p, type
  <2>4. bp'.correct_predictions = IF bp.pht[p] >= WEAKLY_TAKEN
                                  THEN bp.correct_predictions + 1
                                  ELSE bp.correct_predictions
    BY <1>6, <2>3
  <2> DEFINE old == Cardinality(Trained(bp.pht))
             new == Cardinality(Trained(bp'.pht))
             n == bp'.correct_predictions
             right == bp.pht[p] >= WEAKLY_TAKEN
  <2>5. /\ old \in Nat /\ new = old + IF right THEN 0 ELSE 1
        /\ n = IF right THEN bp.correct_predictions + 1 ELSE bp.correct_predictions
    BY <2>2, <2>4
  <2> HIDE DEF old, new, n, right
  <2>6. /\ old \in Nat /\ new \in Nat
        /\ new + n = old + bp.correct_predictions + 1
    BY <1>5, <2>5
  <2> QED  BY <2>6 DEF old, new, n
<1> QED  BY <1>6, <1>13, <1>14, <1>15, <1>16 DEF type

\* clock_proc: a taken outcome is a hazard, and a hit or the entry's first.
LEMMA ClockTrains ==
  ASSUME HashesAreNumbers, ProcessorInv, TrainingInv, ClockProc
  PROVE  TrainingInv'
<1>1. /\ Inv /\ ChannelInv /\ PredictorCounts /\ analyzer \in AnalyzerType
      /\ TablesTypeOK /\ EntriesMissOnce
  BY DEF ProcessorInv, StatisticsInv, TrainingInv
<1>2. analyzer'.control_hazards = More(analyzer.control_hazards, ResultTaken)
  BY <1>1, HazardsCounted
<1>3. analyzer.control_hazards \in Nat /\ bp.correct_predictions \in Nat
  BY <1>1 DEF AnalyzerType, PredictorCounts
<1>4. CASE ~ResultTaken
  <2>1. bp' = bp
    BY <1>4 DEF ClockProc
  <2>2. missed' = missed
    BY <1>2, <1>3, <1>4, <2>1 DEF missed, More
  <2>3. TablesTypeOK'
    BY <1>1, <2>1 DEF TablesTypeOK
  <2>4. EntriesMissOnce'
    BY <1>1, <2>1, <2>2 DEF EntriesMissOnce
  <2> QED  BY <2>3, <2>4 DEF TrainingInv
<1>5. CASE ResultTaken
  <2> DEFINE address == execute_out.cur.pc
  <2>1. address \in Word /\ execute_out.cur.branch_taken = TRUE
    BY <1>1, <1>5 DEF ResultTaken, ResultValid, Inv, TypeOK, BranchResult
  <2>2. bp' = BpUpdate(bp, address, TRUE)
    BY <1>5, <2>1 DEF ClockProc
  <2> HIDE DEF address
  <2>3. /\ TablesTypeOK'
        /\ bp'.predictor_type = bp.predictor_type
        /\ bp.predictor_type = "STATIC_BTFN" =>
             bp'.correct_predictions = bp.correct_predictions
        /\ bp.predictor_type = "TWO_BIT" =>
             /\ {Cardinality(Trained(bp.bht)), Cardinality(Trained(bp'.bht))} \subseteq Nat
             /\ Cardinality(Trained(bp'.bht)) + bp'.correct_predictions
                  = Cardinality(Trained(bp.bht)) + bp.correct_predictions + 1
        /\ bp.predictor_type = "GSHARE" =>
             /\ {Cardinality(Trained(bp.pht)), Cardinality(Trained(bp'.pht))} \subseteq Nat
             /\ Cardinality(Trained(bp'.pht)) + bp'.correct_predictions
                  = Cardinality(Trained(bp.pht)) + bp.correct_predictions + 1
    BY <1>1, <2>1, <2>2, OutcomeTrains
  <2>4. PredictorCounts'
    BY <1>1, <2>2, OutcomeCounts
  <2>5. /\ bp'.correct_predictions \in Nat
        /\ missed = analyzer.control_hazards - bp.correct_predictions
        /\ missed' = analyzer.control_hazards + 1 - bp'.correct_predictions
    <3>1. analyzer'.control_hazards = analyzer.control_hazards + 1
      BY <1>2, <1>5 DEF More
    <3>2. bp'.correct_predictions \in Nat
      BY <2>4 DEF PredictorCounts
    <3>3. missed' = analyzer'.control_hazards - bp'.correct_predictions
      BY DEF missed
    <3>4. missed = analyzer.control_hazards - bp.correct_predictions
      BY DEF missed
    <3>5. missed' = analyzer.control_hazards + 1 - bp'.correct_predictions
      BY <1>3, <3>1, <3>2, <3>3
    <3> QED  BY <3>2, <3>4, <3>5
  <2>6. EntriesMissOnce'
    <3>1. bp.predictor_type = "STATIC_BTFN" => bp'.correct_predictions = 0
      BY <1>1, <2>3 DEF EntriesMissOnce
    <3>2. bp.predictor_type = "TWO_BIT" => missed' = Cardinality(Trained(bp'.bht))
      <4> DEFINE c == Cardinality(Trained(bp.bht))
                 d == Cardinality(Trained(bp'.bht))
      <4> SUFFICES ASSUME bp.predictor_type = "TWO_BIT" PROVE missed' = d
        OBVIOUS
      <4>1. missed = c
        BY <1>1 DEF EntriesMissOnce
      <4>2. c \in Nat /\ d \in Nat /\ d + bp'.correct_predictions = c + bp.correct_predictions + 1
        BY <2>3
      <4> HIDE DEF c, d
      <4> QED  BY <1>3, <2>5, <4>1, <4>2
    <3>3. bp.predictor_type = "GSHARE" => missed' = Cardinality(Trained(bp'.pht))
      <4> DEFINE c == Cardinality(Trained(bp.pht))
                 d == Cardinality(Trained(bp'.pht))
      <4> SUFFICES ASSUME bp.predictor_type = "GSHARE" PROVE missed' = d
        OBVIOUS
      <4>1. missed = c
        BY <1>1 DEF EntriesMissOnce
      <4>2. c \in Nat /\ d \in Nat /\ d + bp'.correct_predictions = c + bp.correct_predictions + 1
        BY <2>3
      <4> HIDE DEF c, d
      <4> QED  BY <1>3, <2>5, <4>1, <4>2
    <3> QED  BY <2>3, <3>1, <3>2, <3>3 DEF EntriesMissOnce
  <2> QED  BY <2>3, <2>6 DEF TrainingInv
<1> QED  BY <1>4, <1>5

\* Nothing but clock_proc trains the predictor or counts a hazard.
LEMMA OthersTrainNothing ==
  ASSUME ProcessorInv, TrainingInv, [ProcessorNext]_processorVars, ~ClockProc
  PROVE  TrainingInv'
<1>1. analyzer' = analyzer
  BY DEF ProcessorNext, FetchReset, FetchInstruction, Decode, ExecutionUnitStep,
         ProcessorEdge, processorVars, statistics
<1>2. bp' = bp \/ \E inst : bp' = BpAfterPredict(bp, inst)
  BY DEF ProcessorNext, FetchReset, FetchInstruction, Decode, ExecutionUnitStep,
         ProcessorEdge, processorVars, frontEnd
<1>3. /\ bp'.predictor_type = bp.predictor_type
      /\ bp'.bht = bp.bht /\ bp'.pht = bp.pht /\ bp'.ghr = bp.ghr
      /\ bp'.correct_predictions = bp.correct_predictions
  BY <1>2 DEF BpAfterPredict, ProcessorInv, StatisticsInv, PredictorCounts
<1>4. TablesTypeOK'
  BY <1>3 DEF TrainingInv, TablesTypeOK
<1>5. EntriesMissOnce'
  BY <1>1, <1>3 DEF TrainingInv, EntriesMissOnce, missed
<1> QED  BY <1>4, <1>5 DEF TrainingInv

\* However often a branch is reported and whichever branches share an entry:
\* with two-bit counters the outcomes reported are the hits and one miss for
\* each entry in use (clock_proc, update()).
THEOREM MissesCorrect ==
  ASSUME HashesAreNumbers
  PROVE  ProcessorSpec => []EntriesMissOnce
<1>1. ProcessorInit => TrainingInv
  BY InitialTraining
<1>2. ProcessorInv /\ TrainingInv /\ [ProcessorNext]_processorVars => TrainingInv'
  BY ClockTrains, OthersTrainNothing
<1>3. TrainingInv => EntriesMissOnce
  BY DEF TrainingInv
<1> QED  BY <1>1, <1>2, <1>3, ProcessorInvHolds, PTL DEF ProcessorSpec

-----------------------------------------------------------------------------
(***************************************************************************)
(* The execution unit in the processor: what holds of the unit behind any  *)
(* decoder holds behind this one, because the other processes and the edge *)
(* leave its state alone.                                                  *)
(***************************************************************************)
LEMMA UnitOrElsewhere ==
  ASSUME Inv, [ProcessorNext]_processorVars
  PROVE  [Next]_vars \/ UNCHANGED euVars
<1>1. CASE ExecutionUnitStep
  BY <1>1 DEF ExecutionUnitStep, Next
<1>2. CASE ProcessorEdge
  BY <1>2 DEF ProcessorEdge
<1>3. CASE UNCHANGED processorVars
  BY <1>3 DEF processorVars
<1> QED  BY <1>1, <1>2, <1>3, OthersLeaveUnit DEF ProcessorNext

UnitInv == Inv /\ ReadyIffOperandsArrived /\ RenamingTracksYoungestWriter

LEMMA UnitInvOfInit == Init => UnitInv
<1>1. Init => ReadyIffOperandsArrived
  BY ResetIsTyped DEF Init, ReadyIffOperandsArrived
<1> QED  BY <1>1, InitInv, RenamingInit DEF UnitInv

LEMMA UnitInvOfStep ==
  ASSUME UnitInv, decode_out \in Packets \union {NoPacket}, [ProcessorNext]_processorVars
  PROVE  UnitInv'
<1>1. Inv'
  BY UnitInvStep DEF UnitInv
<1>2. CASE [Next]_vars
  <2>1. ReadyIffOperandsArrived'
    BY <1>2, ReadinessStep DEF UnitInv
  <2>2. RenamingTracksYoungestWriter'
    BY <1>2, RenamingKept DEF UnitInv
  <2> QED  BY <1>1, <2>1, <2>2 DEF UnitInv
<1>3. CASE UNCHANGED euVars
  <2>1. UNCHANGED <<rs, rob, reg_status>>
    BY <1>3 DEF euVars
  <2>2. ReadyIffOperandsArrived'
    BY <2>1 DEF UnitInv, ReadyIffOperandsArrived
  <2>3. RenamingTracksYoungestWriter'
    BY <2>1 DEF UnitInv, RenamingTracksYoungestWriter, WritersInFlight, InFlight
  <2> QED  BY <1>1, <2>2, <2>3 DEF UnitInv
<1> QED  BY <1>2, <1>3, UnitOrElsewhere DEF UnitInv

LEMMA UnitInvHolds == ProcessorSpec => []UnitInv
<1>1. ProcessorInv => decode_out \in Packets \union {NoPacket}
  BY DEF ProcessorInv, ChannelInv, ProcessorTypeOK
<1>2. ProcessorInv /\ UnitInv /\ [ProcessorNext]_processorVars => UnitInv'
  BY <1>1, UnitInvOfStep
<1>3. ProcessorInit => UnitInv
  BY UnitInvOfInit DEF ProcessorInit
<1> QED  BY ProcessorInvHolds, <1>2, <1>3, PTL DEF ProcessorSpec

\* In the processor, too, the ring is sound, stations and reorder buffer agree,
\* the status table follows the youngest writer and only what has its operands
\* is ready: the environment the processor is satisfies what those proofs need.
THEOREM UnitInProcessorCorrect ==
  ProcessorSpec => [](/\ TypeOK /\ RobSound /\ StationsMatchRob
                      /\ RenamingTracksYoungestWriter /\ ReadyIffOperandsArrived)
<1>1. UnitInv => /\ TypeOK /\ RobSound /\ StationsMatchRob
                 /\ RenamingTracksYoungestWriter /\ ReadyIffOperandsArrived
  BY DEF UnitInv, Inv
<1> QED  BY UnitInvHolds, <1>1, PTL

-----------------------------------------------------------------------------
(***************************************************************************)
(* The processor implements the execution unit's own specification.  Its   *)
(* state there is its state here, but for the processes to run, of which   *)
(* the unit has only its own: an order without the others has the same     *)
(* head if that is the unit's, and the tail's order is the order's tail.   *)
(* The definitions of the instance Unit are those of the module.           *)
(***************************************************************************)
LEMMA EmptyOrder == EuOrder(<<>>) = <<>>
<1>1. UnitProcesses(<<>>) = {}
  BY DEF UnitProcesses
<1>2. Cardinality({}) = 0
  BY FS_EmptySet
<1>3. 1 .. 0 = {}
  OBVIOUS
<1>4. EuOrder(<<>>) = [n \in {} |-> CHOOSE p \in AtPlace(<<>>, n) : TRUE]
  BY <1>1, <1>2, <1>3 DEF EuOrder
<1> QED  BY <1>4

\* What o runs besides its head
LEMMA BehindHead ==
  ASSUME NEW o \in Seq(Process), o # <<>>,
         \A j, k \in 1 .. Len(o) : o[j] = o[k] => j = k
  PROVE  /\ UnitProcesses(Tail(o)) = UnitProcesses(o) \ {Head(o)}
         /\ Head(o) \in EuProcess => Head(o) \in UnitProcesses(o)
         /\ RunBefore(o, Head(o)) = {}
         /\ \A p \in UnitProcesses(Tail(o)) :
              RunBefore(Tail(o), p) = RunBefore(o, p) \ {Head(o)}
         /\ \A p \in UnitProcesses(Tail(o)) :
              Head(o) \in EuProcess => Head(o) \in RunBefore(o, p)
<1> DEFINE h == Head(o)
           t == Tail(o)
           m == Len(o)
<1>1. /\ m \in Nat /\ m >= 1 /\ DOMAIN o = 1 .. m /\ o[1] = h
      /\ t \in Seq(Process) /\ Len(t) = m - 1 /\ DOMAIN t = 1 .. m - 1
      /\ \A k \in 1 .. m - 1 : t[k] = o[k + 1]
  OBVIOUS
<1>2. \A j, k \in 1 .. m : o[j] = o[k] => j = k
  OBVIOUS
<1> HIDE DEF h, t, m
\* A position of t is one of o behind the first.
<1>3. ASSUME NEW k \in 1 .. m - 1
      PROVE  k + 1 \in 1 .. m /\ k + 1 # 1 /\ t[k] = o[k + 1] /\ t[k] # h
  <2>1. k + 1 \in 1 .. m /\ k + 1 # 1 /\ 1 \in 1 .. m
    BY <1>1
  <2>2. o[k + 1] # o[1]
    BY <2>1, <1>2
  <2> QED  BY <2>1, <2>2, <1>1
<1>4. ASSUME NEW k \in 1 .. m, o[k] # h
      PROVE  k - 1 \in 1 .. m - 1 /\ t[k - 1] = o[k] /\ k # 1
  <2>1. k # 1
    BY <1>1, <1>4
  <2>2. k - 1 \in 1 .. m - 1 /\ (k - 1) + 1 = k
    BY <2>1, <1>1
  <2>3. t[k - 1] = o[(k - 1) + 1]
    BY <2>2, <1>1
  <2> QED  BY <2>1, <2>2, <2>3
<1>5. \A p : (\E k \in 1 .. m - 1 : t[k] = p) <=> p # h /\ \E k \in 1 .. m : o[k] = p
  <2> TAKE p
  <2>1. ASSUME NEW k \in 1 .. m - 1, t[k] = p
        PROVE  p # h /\ \E i \in 1 .. m : o[i] = p
    BY <2>1, <1>3
  <2>2. ASSUME p # h, NEW k \in 1 .. m, o[k] = p
        PROVE  \E i \in 1 .. m - 1 : t[i] = p
    BY <2>2, <1>4
  <2> QED  BY <2>1, <2>2
<1>6. UnitProcesses(t) = UnitProcesses(o) \ {h}
  <2>1. UnitProcesses(t) = {p \in EuProcess : \E k \in 1 .. m - 1 : t[k] = p}
    BY <1>1 DEF UnitProcesses
  <2>2. UnitProcesses(o) = {p \in EuProcess : \E k \in 1 .. m : o[k] = p}
    BY <1>1 DEF UnitProcesses
  <2> QED  BY <2>1, <2>2, <1>5
<1>7. h \in EuProcess => h \in UnitProcesses(o)
  BY <1>1 DEF UnitProcesses
<1>8. RunBefore(o, h) = {}
  <2>1. ASSUME NEW j \in 1 .. m, NEW k \in 1 .. m, j < k, o[k] = h
        PROVE  FALSE
    <3>1. 1 \in 1 .. m
      BY <1>1
    <3>2. k = 1
      BY <3>1, <2>1, <1>1, <1>2
    <3> QED  BY <3>2, <2>1
  <2> QED  BY <2>1, <1>1 DEF RunBefore
<1>9. ASSUME NEW p \in UnitProcesses(t)
      PROVE  /\ RunBefore(t, p) = RunBefore(o, p) \ {h}
             /\ h \in EuProcess => h \in RunBefore(o, p)
  <2>1. PICK i \in 1 .. m - 1 : t[i] = p
    BY <1>1 DEF UnitProcesses
  <2>2. i + 1 \in 1 .. m /\ o[i + 1] = p /\ p # h /\ 1 < i + 1 /\ 1 \in 1 .. m
    BY <2>1, <1>1, <1>3
  <2>3. h \in EuProcess => h \in RunBefore(o, p)
    BY <2>2, <1>1, <1>7 DEF RunBefore
  <2>4. \A q : (\E j, k \in 1 .. m - 1 : j < k /\ t[j] = q /\ t[k] = p)
               <=> q # h /\ \E j, k \in 1 .. m : j < k /\ o[j] = q /\ o[k] = p
    <3> TAKE q
    <3>1. ASSUME NEW j \in 1 .. m - 1, NEW k \in 1 .. m - 1, j < k, t[j] = q, t[k] = p
          PROVE  q # h /\ \E a, b \in 1 .. m : a < b /\ o[a] = q /\ o[b] = p
      <4>1. j + 1 \in 1 .. m /\ k + 1 \in 1 .. m /\ o[j + 1] = q /\ o[k + 1] = p /\ q # h
        BY <3>1, <1>3
      <4>2. j + 1 < k + 1
        BY <3>1
      <4> QED  BY <4>1, <4>2
    <3>2. ASSUME q # h, NEW j \in 1 .. m, NEW k \in 1 .. m, j < k, o[j] = q, o[k] = p
          PROVE  \E a, b \in 1 .. m - 1 : a < b /\ t[a] = q /\ t[b] = p
      <4>1. /\ j - 1 \in 1 .. m - 1 /\ t[j - 1] = q
            /\ k - 1 \in 1 .. m - 1 /\ t[k - 1] = p
        BY <3>2, <2>2, <1>4
      <4>2. j - 1 < k - 1
        BY <3>2
      <4> QED  BY <4>1, <4>2
    <3> QED  BY <3>1, <3>2
  <2>5. RunBefore(t, p) = {q \in UnitProcesses(t) :
                             \E j, k \in 1 .. m - 1 : j < k /\ t[j] = q /\ t[k] = p}
    BY <1>1 DEF RunBefore
  <2>6. RunBefore(o, p) = {q \in UnitProcesses(o) :
                             \E j, k \in 1 .. m : j < k /\ o[j] = q /\ o[k] = p}
    BY <1>1 DEF RunBefore
  <2>7. RunBefore(t, p) = RunBefore(o, p) \ {h}
    BY <2>4, <2>5, <2>6, <1>6
  <2> QED  BY <2>3, <2>7
<1> QED  BY <1>6, <1>7, <1>8, <1>9 DEF h, t

LEMMA FewProcesses ==
  ASSUME NEW o, NEW p
  PROVE  /\ IsFiniteSet(UnitProcesses(o)) /\ Cardinality(UnitProcesses(o)) \in Nat
         /\ IsFiniteSet(RunBefore(o, p)) /\ Cardinality(RunBefore(o, p)) \in Nat
<1>1. IsFiniteSet({"issue", "execute"})
  <2>1. IsFiniteSet({"issue"} \cup {"execute"})
    BY FS_AddElement, FS_Singleton
  <2> QED  BY <2>1
<1>2. IsFiniteSet({"complete", "commit"})
  <2>1. IsFiniteSet({"complete"} \cup {"commit"})
    BY FS_AddElement, FS_Singleton
  <2> QED  BY <2>1
<1>3. IsFiniteSet(EuProcess)
  <2>1. EuProcess = {"issue", "execute"} \cup {"complete", "commit"}
    BY DEF EuProcess
  <2> QED  BY <2>1, <1>1, <1>2, FS_Union
<1>4. UnitProcesses(o) \in SUBSET EuProcess /\ RunBefore(o, p) \in SUBSET EuProcess
  BY DEF UnitProcesses, RunBefore
<1> QED  BY <1>3, <1>4, FS_Subset, FS_CardinalityType

\* A process of another unit does not count.
LEMMA HeadElsewhere ==
  ASSUME NEW o \in Seq(Process), o # <<>>, Head(o) \notin EuProcess,
         \A j, k \in 1 .. Len(o) : o[j] = o[k] => j = k
  PROVE  EuOrder(Tail(o)) = EuOrder(o)
<1>1. \A p : Head(o) \notin RunBefore(o, p) /\ Head(o) \notin UnitProcesses(o)
  BY DEF RunBefore, UnitProcesses
<1>2. /\ UnitProcesses(Tail(o)) = UnitProcesses(o)
      /\ \A p \in UnitProcesses(o) : RunBefore(Tail(o), p) = RunBefore(o, p)
  <2>1. UnitProcesses(Tail(o)) = UnitProcesses(o) \ {Head(o)}
    BY BehindHead
  <2>2. \A p \in UnitProcesses(Tail(o)) : RunBefore(Tail(o), p) = RunBefore(o, p) \ {Head(o)}
    BY BehindHead
  <2>3. UnitProcesses(Tail(o)) = UnitProcesses(o)
    BY <2>1, <1>1
  <2>4. ASSUME NEW p \in UnitProcesses(o)
        PROVE  RunBefore(Tail(o), p) = RunBefore(o, p)
    <3>1. RunBefore(Tail(o), p) = RunBefore(o, p) \ {Head(o)}
      BY <2>2, <2>3
    <3>2. Head(o) \notin RunBefore(o, p)
      BY <1>1
    <3> QED  BY <3>1, <3>2, Zenon
  <2> QED  BY <2>3, <2>4
<1>3. \A n : AtPlace(Tail(o), n) = AtPlace(o, n)
  BY <1>2 DEF AtPlace
<1> QED  BY <1>2, <1>3 DEF EuOrder

\* One of the unit is the first of its order, too.
LEMMA HeadInUnit ==
  ASSUME NEW o \in Seq(Process), o # <<>>, Head(o) \in EuProcess,
         \A j, k \in 1 .. Len(o) : o[j] = o[k] => j = k
  PROVE  /\ EuOrder(o) # <<>> /\ Head(EuOrder(o)) = Head(o)
         /\ EuOrder(Tail(o)) = Tail(EuOrder(o))
<1> DEFINE h == Head(o)
           t == Tail(o)
           c == Cardinality(UnitProcesses(t))
<1>1. /\ UnitProcesses(t) = UnitProcesses(o) \ {h} /\ h \in UnitProcesses(o)
      /\ RunBefore(o, h) = {}
      /\ \A p \in UnitProcesses(t) :
           RunBefore(t, p) = RunBefore(o, p) \ {h} /\ h \in RunBefore(o, p)
  BY BehindHead
<1> HIDE DEF h, t
<1>2. c \in Nat /\ Cardinality(UnitProcesses(o)) = c + 1
  <2>1. IsFiniteSet(UnitProcesses(o)) /\ c \in Nat
    BY FewProcesses, FS_CardinalityType
  <2>2. c = Cardinality(UnitProcesses(o)) - 1 /\ Cardinality(UnitProcesses(o)) \in Nat
    BY <1>1, <2>1, FS_RemoveElement, FS_CardinalityType
  <2> HIDE DEF c
  <2> QED  BY <2>1, <2>2
<1>3. Cardinality(RunBefore(o, h)) = 0
  BY <1>1, FS_EmptySet
<1>4. \A p \in UnitProcesses(t) :
        /\ Cardinality(RunBefore(t, p)) \in Nat
        /\ Cardinality(RunBefore(o, p)) = Cardinality(RunBefore(t, p)) + 1
  BY <1>1, FewProcesses, FS_RemoveElement
<1> HIDE DEF c
<1>5. AtPlace(o, 1) = {h}
  <2>1. \A p \in UnitProcesses(t) : Cardinality(RunBefore(o, p)) # 1 - 1
    BY <1>4
  <2>2. \A p \in UnitProcesses(o) : p = h \/ p \in UnitProcesses(t)
    BY <1>1
  <2>3. AtPlace(o, 1) = {p \in UnitProcesses(o) : Cardinality(RunBefore(o, p)) = 1 - 1}
    BY DEF AtPlace
  <2>4. h \in AtPlace(o, 1)
    <3>1. Cardinality(RunBefore(o, h)) = 1 - 1
      BY <1>3
    <3> QED  BY <2>3, <3>1, <1>1
  <2> QED  BY <2>1, <2>2, <2>3, <2>4
<1>6. \A n \in 1 .. c : AtPlace(o, n + 1) = AtPlace(t, n)
  <2> TAKE n \in 1 .. c
  <2>1. \A p \in UnitProcesses(t) : Cardinality(RunBefore(o, p)) = n
                                     <=> Cardinality(RunBefore(t, p)) = n - 1
    BY <1>2, <1>4
  <2>2. (n + 1) - 1 = n /\ 0 # n
    BY <1>2
  <2> QED  BY <2>1, <2>2, <1>1, <1>3 DEF AtPlace
<1> DEFINE e == EuOrder(o)
           g == EuOrder(t)
<1>7. /\ e = [n \in 1 .. c + 1 |-> CHOOSE p \in AtPlace(o, n) : TRUE]
      /\ g = [n \in 1 .. c |-> CHOOSE p \in AtPlace(t, n) : TRUE]
  BY <1>2 DEF EuOrder, c
<1> HIDE DEF e, g
<1>8. e[1] = h
  BY <1>2, <1>5, <1>7
<1>9. \A n \in 1 .. c : g[n] = e[n + 1]
  <2> TAKE n \in 1 .. c
  <2>1. n + 1 \in 1 .. c + 1
    BY <1>2
  <2>2. e[n + 1] = CHOOSE p \in AtPlace(o, n + 1) : TRUE
    BY <2>1, <1>7
  <2> QED  BY <2>2, <1>6, <1>7
<1> DEFINE V == {e[n] : n \in 1 .. c + 1}
<1>10. e \in Seq(V) /\ Len(e) = c + 1
  <2>1. e = [n \in 1 .. c + 1 |-> e[n]]
    BY <1>7
  <2>2. \A n \in 1 .. c + 1 : e[n] \in V
    OBVIOUS
  <2> HIDE DEF V
  <2>3. e \in [1 .. c + 1 -> V]
    BY <2>1, <2>2
  <2> QED  BY <2>3, <1>2
<1> HIDE DEF V
<1>11. e # <<>> /\ Head(e) = h /\ Tail(e) = [n \in 1 .. c |-> e[n + 1]]
  <2>1. e # <<>>
    BY <1>2, <1>10
  <2>2. Head(e) = e[1]
    BY <1>10, <2>1
  <2>3. Tail(e) \in Seq(V) /\ Len(Tail(e)) = c
    BY <1>2, <1>10, <2>1
  <2>4. \A n \in 1 .. c : Tail(e)[n] = e[n + 1]
    BY <1>2, <1>10, <2>1
  <2>5. Tail(e) = [n \in 1 .. c |-> e[n + 1]]
    <3> DEFINE rest == Tail(e)
    <3>1. rest \in [1 .. c -> V]
      BY <2>3, LenProperties
    <3>2. \A n \in 1 .. c : rest[n] = e[n + 1]
      BY <2>4
    <3> HIDE DEF rest
    <3>3. rest = [n \in 1 .. c |-> e[n + 1]]
      BY <3>1, <3>2
    <3> QED  BY <3>3 DEF rest
  <2> QED  BY <1>8, <2>1, <2>2, <2>5
<1>12. g = Tail(e)
  <2>1. g = [n \in 1 .. c |-> g[n]]
    BY <1>7
  <2> QED  BY <1>9, <1>11, <2>1
<1> QED  BY <1>11, <1>12 DEF e, g, h, t

LEMMA UnitRunning ==
  ASSUME EdgeInv, NEW p \in EuProcess, Running(p)
  PROVE  Unit!Running(p) /\ (Return => Unit!Return) /\ (StillRunning => Unit!StillRunning)
<1>1. /\ pending \in Seq(Process) /\ pending # <<>> /\ Head(pending) = p
      /\ \A j, k \in 1 .. Len(pending) : pending[j] = pending[k] => j = k
  BY DEF EdgeInv, Running
<1>2. /\ EuOrder(pending) # <<>> /\ Head(EuOrder(pending)) = p
      /\ EuOrder(Tail(pending)) = Tail(EuOrder(pending))
  BY <1>1, HeadInUnit
<1>3. Unit!Running(p)
  BY <1>2 DEF Unit!Running
<1>4. Return => Unit!Return
  BY <1>2 DEF Return, Unit!Return
<1>5. StillRunning => Unit!StillRunning
  BY DEF StillRunning, Unit!StillRunning, kernelVars, Unit!kernelVars
<1> QED  BY <1>3, <1>4, <1>5

\* issue_proc
LEMMA UnitIssueReset ==
  ASSUME EdgeInv, IssueReset
  PROVE  Unit!IssueReset
<1>1. Unit!Running("issue") /\ Unit!Return
  BY UnitRunning DEF IssueReset, EuProcess
<1> QED
  BY <1>1
  DEF IssueReset, Unit!IssueReset, RsReset, Unit!RsReset, RobReset, Unit!RobReset,
      RegStatusReset, Unit!RegStatusReset, signals, Unit!signals, RsSlot,
      Unit!RsSlot, FreeRsEntry, Unit!FreeRsEntry, RobSlot, Unit!RobSlot,
      FreeRobEntry, Unit!FreeRobEntry, Reg, Unit!Reg, Station, Unit!Station,
      NoRobIndex, Unit!NoRobIndex

LEMMA UnitIssueNothing ==
  ASSUME EdgeInv, IssueNothing
  PROVE  Unit!IssueNothing
<1>1. Unit!Running("issue") /\ Unit!Return
  BY UnitRunning DEF IssueNothing, EuProcess
<1> QED
  BY <1>1
  DEF IssueNothing, Unit!IssueNothing, euVars, Unit!euVars, signals, Unit!signals

LEMMA UnitIssueDropped ==
  ASSUME EdgeInv, IssueDropped
  PROVE  Unit!IssueDropped
<1>1. Unit!Running("issue") /\ Unit!Return
  BY UnitRunning DEF IssueDropped, EuProcess
<1> QED
  BY <1>1
  DEF IssueDropped, Unit!IssueDropped, RobIsFull, Unit!RobIsFull, RsIsFull,
      Unit!RsIsFull, StationOf, Unit!StationOf, euVars, Unit!euVars, signals,
      Unit!signals, SlotsOf, Unit!SlotsOf, RsSlot, Unit!RsSlot, Station, Unit!Station

LEMMA UnitIssueAccepted ==
  ASSUME EdgeInv, IssueAccepted
  PROVE  Unit!IssueAccepted
<1>1. Unit!Running("issue") /\ Unit!Return
  BY UnitRunning DEF IssueAccepted, EuProcess
<1> QED
  BY <1>1
  DEF IssueAccepted, Unit!IssueAccepted, RobIsFull, Unit!RobIsFull, RsSlot,
      Unit!RsSlot, RobUpdateEntry, Unit!RobUpdateEntry, RobAllocateEntry,
      Unit!RobAllocateEntry, RobNewEntry, Unit!RobNewEntry, Operand, Unit!Operand,
      ReadsRs1, Unit!ReadsRs1, ReadsRs2, Unit!ReadsRs2, RsFirstFree,
      Unit!RsFirstFree, StationOf, Unit!StationOf, RsAddEntry, Unit!RsAddEntry,
      RsNewEntry, Unit!RsNewEntry, Renames, Unit!Renames, signals, Unit!signals,
      Station, Unit!Station, RobSlot, Unit!RobSlot, RobIsEntryCompleted,
      Unit!RobIsEntryCompleted, RobGetEntryValue, Unit!RobGetEntryValue,
      InstructionType, Unit!InstructionType, SlotsOf, Unit!SlotsOf, NoRobIndex,
      Unit!NoRobIndex

\* execute_proc
LEMMA UnitExecuteAlu ==
  ASSUME EdgeInv, ExecuteAlu
  PROVE  Unit!ExecuteAlu
<1>1. Unit!Running("execute") /\ Unit!StillRunning
  BY UnitRunning DEF ExecuteAlu, EuProcess
<1> QED
  BY <1>1
  DEF ExecuteAlu, Unit!ExecuteAlu, RsSlot, Unit!RsSlot, RsFirstReady,
      Unit!RsFirstReady, RobCompleteEntry, Unit!RobCompleteEntry, RsRemoveEntry,
      Unit!RsRemoveEntry, signals, Unit!signals, Station, Unit!Station, RsReady,
      Unit!RsReady, RobSlot, Unit!RobSlot, FreeRsEntry, Unit!FreeRsEntry, SlotsOf,
      Unit!SlotsOf, NoRobIndex, Unit!NoRobIndex

LEMMA UnitExecuteMem ==
  ASSUME EdgeInv, ExecuteMem
  PROVE  Unit!ExecuteMem
<1>1. Unit!Running("execute") /\ Unit!StillRunning
  BY UnitRunning DEF ExecuteMem, EuProcess
<1>2. ASSUME NEW m, NEW addr, NEW f
      PROVE  Unit!LoadedValue(m, addr, f) = LoadedValue(m, addr, f)
  <2>1. ReadData(m, addr, LoadSize(f)) = Unit!ReadData(m, addr, Unit!LoadSize(f))
    BY DEF LoadSize, Unit!LoadSize, ReadData, Unit!ReadData, OutOfBounds, Unit!OutOfBounds,
        LB, Unit!LB, LBU, Unit!LBU, LH, Unit!LH, LHU, Unit!LHU
  <2> QED
    BY <2>1 DEF LoadedValue, Unit!LoadedValue, LB, Unit!LB, LH, Unit!LH, LW, Unit!LW
<1> QED
  BY <1>1, <1>2, ZenonT(40)
  DEF ExecuteMem, Unit!ExecuteMem, RsSlot, Unit!RsSlot, MemAddress, Unit!MemAddress,
      RsReady, Unit!RsReady, RsFirstReady, Unit!RsFirstReady, RobCompleteEntry,
      Unit!RobCompleteEntry, RobUpdateStoreEntry, Unit!RobUpdateStoreEntry,
      RsRemoveEntry, Unit!RsRemoveEntry, signals, Unit!signals, Station,
      Unit!Station, SlotsOf, Unit!SlotsOf, RobSlot, Unit!RobSlot, FreeRsEntry,
      Unit!FreeRsEntry, NoRobIndex, Unit!NoRobIndex

LEMMA UnitExecuteBranch ==
  ASSUME EdgeInv, ExecuteBranch
  PROVE  Unit!ExecuteBranch
<1>1. Unit!Running("execute") /\ Unit!StillRunning
  BY UnitRunning DEF ExecuteBranch, EuProcess
<1> QED
  BY <1>1, ZenonT(40)
  DEF ExecuteBranch, Unit!ExecuteBranch, RsSlot, Unit!RsSlot, BranchTaken,
      Unit!BranchTaken, BranchTarget, Unit!BranchTarget, RsReady, Unit!RsReady,
      RsFirstReady, Unit!RsFirstReady, RobCompleteBranchEntry,
      Unit!RobCompleteBranchEntry, LinkValue, Unit!LinkValue, RsRemoveEntry,
      Unit!RsRemoveEntry, Station, Unit!Station, SignedValue, Unit!SignedValue,
      SlotsOf, Unit!SlotsOf, RobCompleteEntry, Unit!RobCompleteEntry, FreeRsEntry,
      Unit!FreeRsEntry, RobSlot, Unit!RobSlot, NoRobIndex, Unit!NoRobIndex

LEMMA UnitExecuteReturn ==
  ASSUME EdgeInv, ExecuteReturn
  PROVE  Unit!ExecuteReturn
<1>1. Unit!Running("execute") /\ Unit!Return
  BY UnitRunning DEF ExecuteReturn, EuProcess
<1> QED
  BY <1>1
  DEF ExecuteReturn, Unit!ExecuteReturn, Station, Unit!Station, RsReady,
      Unit!RsReady, euVars, Unit!euVars, signals, Unit!signals, SlotsOf,
      Unit!SlotsOf, RsSlot, Unit!RsSlot

\* complete_proc
LEMMA UnitComplete ==
  ASSUME EdgeInv, Complete
  PROVE  Unit!Complete
<1>1. Unit!Running("complete") /\ Unit!Return
  BY UnitRunning DEF Complete, EuProcess
<1> QED
  BY <1>1
  DEF Complete, Unit!Complete, RobNewlyCompleted, Unit!RobNewlyCompleted,
      RobGetEntryValue, Unit!RobGetEntryValue, RobAfterReport, Unit!RobAfterReport,
      RsUpdateWaitingEntries, Unit!RsUpdateWaitingEntries, signals, Unit!signals,
      RobSlot, Unit!RobSlot, RsSlot, Unit!RsSlot, RsWoken, Unit!RsWoken, Station,
      Unit!Station

\* commit_proc
LEMMA UnitCommitStore ==
  ASSUME EdgeInv, CommitStore
  PROVE  Unit!CommitStore
<1>1. Unit!Running("commit") /\ Unit!StillRunning
  BY UnitRunning DEF CommitStore, Committing, EuProcess
<1> QED
  BY <1>1
  DEF CommitStore, Unit!CommitStore, RobGetHeadEntry, Unit!RobGetHeadEntry,
      Committing, Unit!Committing, WriteData, Unit!WriteData, StoreSize,
      Unit!StoreSize, RobRemoveHead, Unit!RobRemoveHead, signals, Unit!signals,
      RobIsEmpty, Unit!RobIsEmpty, FreeRobEntry, Unit!FreeRobEntry,
      RobIsHeadCompleted, Unit!RobIsHeadCompleted, OutOfBounds, Unit!OutOfBounds,
      MemAddr, Unit!MemAddr, ByteOf, Unit!ByteOf, SB, Unit!SB, SH, Unit!SH

LEMMA UnitCommitRegister ==
  ASSUME EdgeInv, CommitRegister
  PROVE  Unit!CommitRegister
<1>1. Unit!Running("commit") /\ Unit!StillRunning
  BY UnitRunning DEF CommitRegister, Committing, EuProcess
<1> QED
  BY <1>1
  DEF CommitRegister, Unit!CommitRegister, RobGetHeadEntry, Unit!RobGetHeadEntry,
      Committing, Unit!Committing, StatusAfterCommit, Unit!StatusAfterCommit,
      RobRemoveHead, Unit!RobRemoveHead, signals, Unit!signals, RobIsEmpty,
      Unit!RobIsEmpty, FreeRobEntry, Unit!FreeRobEntry, RobIsHeadCompleted,
      Unit!RobIsHeadCompleted

LEMMA UnitCommitReturn ==
  ASSUME EdgeInv, CommitReturn
  PROVE  Unit!CommitReturn
<1>1. Unit!Running("commit") /\ Unit!Return
  BY UnitRunning DEF CommitReturn, EuProcess
<1> QED
  BY <1>1
  DEF CommitReturn, Unit!CommitReturn, RobIsHeadCompleted, Unit!RobIsHeadCompleted,
      euVars, Unit!euVars, signals, Unit!signals, RobIsEmpty, Unit!RobIsEmpty

\* The packet at issue is decode's, and none while the unit is in reset.
LEMMA UnitEdge ==
  ASSUME Inv, EdgeInv, ChannelInv, ProcessorEdge
  PROVE  Unit!ClockEdge
<1>1. pending = <<>> /\ pending' \in EdgeOrders /\ order' = order
  BY DEF ProcessorEdge, NextEdge
<1>2. EuOrder(pending) = <<>>
  BY <1>1, EmptyOrder
<1>3. EuOrder(pending)' \in Unit!EdgeOrders /\ EuOrder(order)' = EuOrder(order)
  BY <1>1 DEF EdgeOrders, Unit!EdgeOrders
<1>4. /\ decode_in' = decode_out /\ reset' \in {FALSE, reset}
      /\ execute_out' = [cur |-> execute_out.next, next |-> execute_out.next]
      /\ UNCHANGED euVars
  BY EdgeIs DEF ProcessorEdge, SameExecutePacket
<1>5. decode_in' \in IF reset THEN {NoPacket} ELSE Packets \union {NoPacket}
  <2>1. HasRun("decode")
    BY <1>1 DEF HasRun
  <2> QED  BY <1>4, <2>1 DEF ChannelInv, ProcessorTypeOK, NothingFetchedInReset, DecodeFollows
<1>6. execute_out' = [execute_out EXCEPT !.cur = execute_out.next]
  BY <1>4 DEF Inv, TypeOK
<1>7. Unit!NextEdge
  BY <1>2, <1>3 DEF Unit!NextEdge
<1> QED  BY <1>4, <1>5, <1>6, <1>7 DEF Unit!ClockEdge, Unit!euVars, euVars

LEMMA UnitElsewhere ==
  ASSUME EdgeInv, FetchReset \/ FetchInstruction \/ Decode \/ ClockProc
  PROVE  UNCHANGED Unit!vars
<1>1. UNCHANGED <<euVars, signals>>
  BY OthersLeaveUnit
<1>2. Return /\ \E p : Running(p) /\ p \notin EuProcess
  BY DEF FetchReset, FetchInstruction, Decode, ClockProc, EuProcess
<1>3. /\ pending \in Seq(Process) /\ pending # <<>> /\ Head(pending) \notin EuProcess
      /\ \A j, k \in 1 .. Len(pending) : pending[j] = pending[k] => j = k
      /\ pending' = Tail(pending) /\ order' = order
  BY <1>2 DEF EdgeInv, Running, Return
<1>4. EuOrder(pending)' = EuOrder(pending) /\ EuOrder(order)' = EuOrder(order)
  BY <1>3, HeadElsewhere
<1> QED  BY <1>1, <1>4 DEF Unit!vars, euVars, signals

LEMMA UnitInit ==
  ASSUME ProcessorInit
  PROVE  Unit!Init
<1>1. Init /\ KernelInit
  BY DEF ProcessorInit, Init
<1>2. Unit!KernelInit
  <2>1. pending \in EdgeOrders /\ IF FixedOrder THEN order \in Orders ELSE order = <<>>
    BY <1>1 DEF KernelInit
  <2>2. EuOrder(pending) \in Unit!EdgeOrders
    BY <2>1 DEF EdgeOrders, Unit!EdgeOrders
  <2>3. IF FixedOrder THEN EuOrder(order) \in {EuOrder(o) : o \in Orders}
                      ELSE EuOrder(order) = <<>>
    BY <2>1, EmptyOrder
  <2> QED  BY <2>2, <2>3 DEF Unit!KernelInit
<1> QED
  BY <1>1, <1>2
  DEF Init, Unit!Init, RsReset, Unit!RsReset, RobReset, Unit!RobReset, RegStatusReset,
      Unit!RegStatusReset, RsSlot, Unit!RsSlot, Station, Unit!Station, FreeRsEntry,
      Unit!FreeRsEntry, NoRobIndex, Unit!NoRobIndex, RobSlot, Unit!RobSlot, FreeRobEntry,
      Unit!FreeRobEntry, Reg, Unit!Reg

LEMMA UnitStep ==
  ASSUME ProcessorInv, [ProcessorNext]_processorVars
  PROVE  [Unit!Next]_(Unit!vars)
<1>1. Inv /\ EdgeInv /\ ChannelInv
  BY DEF ProcessorInv
<1>2. CASE Issue
  BY <1>1, <1>2, UnitIssueReset, UnitIssueNothing, UnitIssueDropped, UnitIssueAccepted
  DEF Issue, Unit!Issue, Unit!Next
<1>3. CASE Execute
  BY <1>1, <1>3, UnitExecuteAlu, UnitExecuteMem, UnitExecuteBranch, UnitExecuteReturn
  DEF Execute, Unit!Execute, Unit!Next
<1>4. CASE Complete
  BY <1>1, <1>4, UnitComplete DEF Unit!Next
<1>5. CASE Commit
  BY <1>1, <1>5, UnitCommitStore, UnitCommitRegister, UnitCommitReturn
  DEF Commit, Unit!Commit, Unit!Next
<1>6. CASE ProcessorEdge
  BY <1>1, <1>6, UnitEdge DEF Unit!Next
<1>7. CASE FetchReset \/ FetchInstruction \/ Decode \/ ClockProc
  BY <1>1, <1>7, UnitElsewhere
<1>8. CASE UNCHANGED processorVars
  BY <1>8 DEF processorVars, vars, Unit!vars
<1> QED
  BY <1>2, <1>3, <1>4, <1>5, <1>6, <1>7, <1>8 DEF ProcessorNext, ExecutionUnitStep

\* Seen from the execution unit, fetch, decode and the kernel that runs seven
\* processes are the environment its own specification assumes: what is proved
\* of the unit behind any decoder is true of it in the processor.
THEOREM ProcessorImplementsUnit == ProcessorSpec => ImplementsExecutionUnit
<1>1. ProcessorInit => Unit!Init
  BY UnitInit
<1>2. ProcessorInv /\ [ProcessorNext]_processorVars => [Unit!Next]_(Unit!vars)
  BY UnitStep
<1> QED  BY ProcessorInvHolds, <1>1, <1>2, PTL DEF ProcessorSpec, ImplementsExecutionUnit

-----------------------------------------------------------------------------
(***************************************************************************)
(* In a fixed order of the seven processes.                                *)
(***************************************************************************)
LEMMA ProcessorRunsInFixedOrder == FixedOrder => RunsInFixedOrder
  BY ProcessorAssumption DEF RunsInFixedOrder, RunsEachOnce, Process

LEMMA FixedOrderOfStep ==
  ASSUME FixedOrder, UnitInv, FixedOrderInv, [ProcessorNext]_processorVars
  PROVE  FixedOrderInv'
<1>1. RunsInFixedOrder /\ Inv
  BY ProcessorRunsInFixedOrder DEF UnitInv
<1>2. CASE ExecutionUnitStep
  BY <1>1, <1>2, FixedOrderAtIssue, FixedOrderAtExecute, FixedOrderAtComplete,
     FixedOrderAtCommit DEF ExecutionUnitStep, UnitInv
<1>3. CASE FetchReset \/ FetchInstruction \/ Decode \/ ClockProc
  <2>1. UNCHANGED <<euVars, signals>>
    BY <1>3, OthersLeaveUnit
  <2>2. Return /\ \E p : Running(p) /\ p \notin EuProcess
    BY <1>3 DEF FetchReset, FetchInstruction, Decode, ClockProc, EuProcess
  <2> QED  BY <1>1, <2>1, <2>2, FixedOrderElsewhere DEF signals
<1>4. CASE ProcessorEdge
  <2>1. UNCHANGED euVars /\ NextEdge /\ (reset' = FALSE \/ reset' = reset)
    BY <1>4 DEF ProcessorEdge
  <2> QED  BY <1>1, <2>1, FixedOrderElsewhere
<1>5. CASE UNCHANGED processorVars
  <2>1. UNCHANGED vars
    BY <1>5 DEF processorVars
  <2> QED  BY <1>1, <2>1, FixedOrderStep DEF UnitInv
<1> QED  BY <1>2, <1>3, <1>4, <1>5 DEF ProcessorNext

LEMMA FixedOrderInProcessor == ASSUME FixedOrder PROVE ProcessorSpec => []FixedOrderInv
<1>1. ProcessorInit => FixedOrderInv
  BY FixedOrderInit, ProcessorRunsInFixedOrder DEF ProcessorInit
<1>2. UnitInv /\ FixedOrderInv /\ [ProcessorNext]_processorVars => FixedOrderInv'
  BY FixedOrderOfStep
<1> QED  BY UnitInvHolds, <1>1, <1>2, PTL DEF ProcessorSpec

\* What decode makes of the program is issued, every instruction of it.
THEOREM NothingIsDroppedInProcessor ==
  ASSUME FixedOrder, ROB_SIZE >= 2
  PROVE  ProcessorSpec => NothingDropped
<1>1. UnitInv /\ FixedOrderInv => ~IssueDropped
  BY RoomAtIssue, ProcessorRunsInFixedOrder DEF UnitInv
<1> QED  BY UnitInvHolds, FixedOrderInProcessor, <1>1, PTL DEF NothingDropped

LEMMA DataOfStep ==
  ASSUME CommitStore \/ CommitRegister => HeadNamesNone,
         UnitInv, FixedOrderInv, DataInv,
         [ProcessorNext]_processorVars
  PROVE  DataInv' /\ [AsCoded!Step]_(AsCoded!seqVars)
<1>1. CASE [Next]_vars
  <2>1. TagsInv /\ LoadsFollowStores /\ (reset => rob = RobReset)
    BY NoTagsInFixedOrder, LoadsInFixedOrder, IdleInReset DEF UnitInv
  <2> QED  BY <1>1, <2>1, DataStep, RefinementStep DEF UnitInv
<1>2. CASE UNCHANGED euVars
  <2>1. UNCHANGED <<rs, rob, regfile, memory>>
    BY <1>2 DEF euVars
  <2>2. DataInv'
    BY <2>1 DEF DataInv
  <2>3. UNCHANGED AsCoded!seqVars
    BY <2>1 DEF AsCoded!seqVars, programOrder
  <2> QED  BY <2>2, <2>3
<1> QED  BY <1>1, <1>2, UnitOrElsewhere DEF UnitInv

\* Behind fetch and decode, whatever the program, in a fixed order: what the
\* processor issues takes effect one instruction after the other.
THEOREM ProcessorExecutesSequentially ==
  ASSUME FixedOrder, BranchesNameNoRegister(Packets)
  PROVE  ProcessorSpec => ExecutesSequentially
<1>1. ProcessorInit => DataInv /\ AsCoded!Start
  BY DataInit DEF ProcessorInit, Init, AsCoded!Start, programOrder, RobReset, AsCoded!Reg, Reg
<1>2. UnitInv /\ FixedOrderInv /\ DataInv /\ [ProcessorNext]_processorVars
        => DataInv' /\ [AsCoded!Step]_(AsCoded!seqVars)
  BY PacketsNameNone, DataOfStep DEF UnitInv
<1> QED  BY UnitInvHolds, FixedOrderInProcessor, <1>1, <1>2, PTL
         DEF ProcessorSpec, ExecutesSequentially, AsCoded!Run

-----------------------------------------------------------------------------
(***************************************************************************)
(* What is under way: what is in flight, then what issue, decode and fetch *)
(* hold.  A process that returns hands its packet to the next one, and the *)
(* edge passes on what the signals hold, so that only a fetch makes this   *)
(* queue longer and only a commit makes it shorter; nothing is dropped.    *)
(***************************************************************************)
LEMMA ProgramOrderIs ==
  ASSUME Inv
  PROVE  /\ programOrder \in Seq(Packets) /\ Len(programOrder) = rob.count
         /\ \A k \in 1 .. Len(programOrder) : programOrder[k] \in Packets
         /\ \A i \in RobWindow(rob) : \E k \in 1 .. Len(programOrder) :
              programOrder[k] = rob.entries[i].op
<1> DEFINE g == OpsOf(rob)
<1>1. rob \in RobType /\ RobRing(rob)
  BY DEF Inv, TypeOK, RobSound
<1>2. programOrder = QueueOf(rob, g)
  BY <1>1, OrderIs DEF programOrder
<1>3. \A i \in RobWindow(rob) : g[i] = rob.entries[i].op /\ g[i] \in Packets
  BY <1>1, WindowIsBusy DEF OpsOf, RobWindow, Inv, PacketsInFlight
<1> HIDE DEF g
<1>4. Contents(rob, g) \subseteq Packets
  BY <1>3 DEF Contents
<1>5. QueueOf(rob, g) \in Seq(Contents(rob, g)) /\ Len(QueueOf(rob, g)) = rob.count
  BY <1>1, QueueIsSeq
<1>6. QueueOf(rob, g) \in Seq(Packets)
  BY <1>4, <1>5
<1>7. \A i \in RobWindow(rob) : \E k \in 1 .. Len(programOrder) : programOrder[k] = g[i]
  BY <1>1, <1>2, PlaceIs
<1> QED  BY <1>2, <1>3, <1>5, <1>6, <1>7

\* What the processes of the unit leave alone
LEMMA UnitLeaves ==
  ASSUME ExecutionUnitStep
  PROVE  UNCHANGED <<pc, bp, fetch_out, decode_out, redirect, total_cycles, decode_in, reset>>
  BY DEF ExecutionUnitStep, frontEnd, statistics, Issue, IssueReset, IssueNothing,
         IssueDropped, IssueAccepted, Execute, ExecuteAlu, ExecuteMem, ExecuteBranch,
         ExecuteReturn, Complete, Commit, CommitStore, CommitRegister, CommitReturn, signals

issueHolds == IF HasRun("issue") THEN <<>> ELSE Held(decode_in)
decodeHolds == HeldUndecoded(fetch_out.cur)
fetchHolds == IF HasRun("fetch") THEN HeldUndecoded(fetch_out.next) ELSE <<>>

\* Whether decode has run or not, it holds what is in its channel.
LEMMA UnderWayIs ==
  ASSUME Inv, ChannelInv
  PROVE  /\ UnderWay = ((programOrder \o issueHolds) \o decodeHolds) \o fetchHolds
         /\ programOrder \in Seq(Packets) /\ issueHolds \in Seq(Packets)
         /\ decodeHolds \in Seq(Packets) /\ fetchHolds \in Seq(Packets)
<1>1. programOrder \in Seq(Packets)
  BY ProgramOrderIs
<1>2. issueHolds \in Seq(Packets)
  BY DEF issueHolds, Held, Inv, TypeOK
<1>3. decodeHolds \in Seq(Packets) /\ fetchHolds \in Seq(Packets)
  BY DecoderAssumption DEF decodeHolds, fetchHolds, HeldUndecoded, ChannelInv, ProcessorTypeOK
<1>4. HasRun("decode") => Held(decode_out) = HeldUndecoded(fetch_out.cur)
  BY DecoderAssumption, TypesAssumption
  DEF Held, HeldUndecoded, ChannelInv, DecodeFollows, ProcessorTypeOK
<1>5. (IF HasRun("decode") THEN Held(decode_out) ELSE HeldUndecoded(fetch_out.cur)) = decodeHolds
  BY <1>4 DEF decodeHolds
<1> QED  BY <1>1, <1>2, <1>3, <1>5 DEF UnderWay, issueHolds, fetchHolds

LEMMA UnderWayIsPrimed ==
  ASSUME Inv', ChannelInv'
  PROVE  /\ UnderWay' = ((programOrder' \o issueHolds') \o decodeHolds') \o fetchHolds'
         /\ programOrder' \in Seq(Packets) /\ issueHolds' \in Seq(Packets)
         /\ decodeHolds' \in Seq(Packets) /\ fetchHolds' \in Seq(Packets)
<1>1. ( Inv /\ ChannelInv =>
          /\ UnderWay = ((programOrder \o issueHolds) \o decodeHolds) \o fetchHolds
          /\ programOrder \in Seq(Packets) /\ issueHolds \in Seq(Packets)
          /\ decodeHolds \in Seq(Packets) /\ fetchHolds \in Seq(Packets) )'
  BY UnderWayIs, PTL
<1> QED  BY <1>1

\* In reset, issue is given nothing.
QuietInReset == reset => decode_in = NoPacket

LEMMA QuietStep ==
  ASSUME EdgeInv, ChannelInv, QuietInReset, [ProcessorNext]_processorVars
  PROVE  QuietInReset'
<1>1. CASE ProcessorEdge
  <2>1. HasRun("decode")
    BY <1>1 DEF ProcessorEdge, NextEdge, HasRun
  <2> QED  BY <1>1, <2>1, EdgeIs
           DEF ChannelInv, NothingFetchedInReset, DecodeFollows, QuietInReset
<1>2. CASE UNCHANGED <<decode_in, reset>>
  BY <1>2 DEF QuietInReset
<1>3. CASE FetchReset \/ FetchInstruction \/ Decode \/ ClockProc
  BY <1>2, <1>3, OthersLeaveUnit DEF signals
<1>4. CASE ExecutionUnitStep
  BY <1>2, <1>4, UnitLeaves
<1>5. CASE UNCHANGED processorVars
  BY <1>2, <1>5 DEF processorVars, vars
<1> QED  BY <1>1, <1>3, <1>4, <1>5 DEF ProcessorNext

\* fetch_proc
LEMMA FetchEnters ==
  ASSUME Inv, EdgeInv, ChannelInv, Inv', ChannelInv', FetchReset \/ FetchInstruction
  PROVE  UNCHANGED AsFetched!seqVars \/ AsFetched!Fetch
<1>1. /\ ~HasRun("fetch") /\ HasRun("fetch")'
      /\ HasRun("issue")' <=> HasRun("issue")
  BY ReturnIs DEF FetchReset, FetchInstruction, Process, EuProcess
<1>2. /\ UNCHANGED <<rob, regfile, memory, decode_in>>
      /\ fetch_out'.cur = fetch_out.cur
  BY DEF FetchReset, FetchInstruction, euVars, signals, ChannelInv, ProcessorTypeOK
<1> DEFINE held == (programOrder \o issueHolds) \o decodeHolds
<1>3. programOrder' = programOrder /\ issueHolds' = issueHolds /\ decodeHolds' = decodeHolds
  BY <1>1, <1>2 DEF programOrder, issueHolds, decodeHolds
<1>4. held \in Seq(Packets) /\ held' = held
  BY <1>3, UnderWayIs, ConcatProperties
<1>5. UnderWay = held \o <<>> /\ UnderWay' = held \o fetchHolds'
  BY <1>1, <1>4, UnderWayIs, UnderWayIsPrimed DEF fetchHolds
<1> HIDE DEF held
<1>6. UnderWay = held
  BY <1>4, <1>5, ConcatEmptySeq
<1>7. CASE FetchReset
  <2>1. fetchHolds' = <<>>
    BY <1>7 DEF FetchReset, fetchHolds, HeldUndecoded, ChannelInv, ProcessorTypeOK
  <2>2. UnderWay' = UnderWay
    BY <1>5, <2>1
  <2> QED  BY <1>2, <2>2 DEF AsFetched!seqVars
<1>8. CASE FetchInstruction
  <2> DEFINE from == IF redirect.cur.taken THEN redirect.cur.target ELSE pc
             packet == [instruction |-> ReadInstruction(memory, from), pc |-> from]
  <2>1. from \in Word
    BY DEF ChannelInv, ProcessorTypeOK
  <2>2. fetch_out'.next = packet
    BY <1>8 DEF FetchInstruction, ChannelInv, ProcessorTypeOK
  <2>3. packet # NoFetch
    <3>1. memory \in Memory
      BY DEF Inv, TypeOK
    <3>2. packet \in FetchPacket
      BY <2>1, <3>1, InstructionIs DEF FetchPacket
    <3> QED  BY <3>2, ProcessorAssumption
  <2>4. Decoded(packet) = DecodedAt(memory, from)
    BY DEF DecodedAt
  <2> HIDE DEF packet, from
  <2>5. fetchHolds' = <<DecodedAt(memory, from)>>
    BY <1>1, <2>2, <2>3, <2>4 DEF fetchHolds, HeldUndecoded
  <2>6. DecodedAt(memory, from) \in Packets
    BY <2>5, UnderWayIs, UnderWayIsPrimed
  <2>7. UnderWay' = Append(UnderWay, DecodedAt(memory, from))
    BY <1>4, <1>5, <1>6, <2>5, <2>6, AppendIsConcat
  <2> QED  BY <1>2, <2>1, <2>7 DEF AsFetched!Fetch, AsFetched!Word, Word
<1> QED  BY <1>7, <1>8

\* decode_proc and clock_proc
LEMMA DecodePasses ==
  ASSUME Inv, EdgeInv, ChannelInv, Inv', ChannelInv', Decode \/ ClockProc
  PROVE  UNCHANGED AsFetched!seqVars
<1>1. /\ HasRun("fetch")' <=> HasRun("fetch")
      /\ HasRun("issue")' <=> HasRun("issue")
  BY ReturnIs DEF Decode, ClockProc, Process, EuProcess
<1>2. UNCHANGED <<rob, regfile, memory, decode_in, fetch_out>>
  BY DEF Decode, ClockProc, euVars, signals
<1>3. /\ programOrder' = programOrder /\ issueHolds' = issueHolds
      /\ decodeHolds' = decodeHolds /\ fetchHolds' = fetchHolds
  BY <1>1, <1>2 DEF programOrder, issueHolds, decodeHolds, fetchHolds
<1>4. UnderWay' = UnderWay
  BY <1>3, UnderWayIs, UnderWayIsPrimed
<1> QED  BY <1>2, <1>4 DEF AsFetched!seqVars

\* issue_proc, which finds room
LEMMA IssuePasses ==
  ASSUME FixedOrder, ROB_SIZE >= 2, FixedOrderInv, QuietInReset,
         Inv, EdgeInv, ChannelInv, Inv', ChannelInv', ExecutionUnitStep, Issue
  PROVE  UNCHANGED AsFetched!seqVars
<1>1. /\ ~HasRun("issue") /\ HasRun("issue")'
      /\ HasRun("fetch")' <=> HasRun("fetch")
  <2>1. Running("issue") /\ Return
    BY DEF Issue, IssueReset, IssueNothing, IssueDropped, IssueAccepted
  <2> QED  BY <2>1, ReturnIs DEF Process, EuProcess
<1>2. UNCHANGED <<regfile, memory, fetch_out, decode_in>>
  BY UnitLeaves DEF Issue, IssueReset, IssueNothing, IssueDropped, IssueAccepted, euVars
<1>3. decodeHolds' = decodeHolds /\ fetchHolds' = fetchHolds /\ issueHolds' = <<>>
  BY <1>1, <1>2 DEF issueHolds, decodeHolds, fetchHolds
<1>4. programOrder \in Seq(Packets) /\ programOrder' \in Seq(Packets)
  BY UnderWayIs, UnderWayIsPrimed
<1>5. programOrder' = programOrder \o issueHolds
  <2>1. CASE decode_in = NoPacket
    <3>1. reset => rob = RobReset
      BY IdleInReset
    <3>2. rob' = rob
      BY <2>1, <3>1 DEF Issue, IssueReset, IssueNothing, IssueDropped, IssueAccepted, euVars
    <3>3. programOrder' = programOrder
      BY <3>2 DEF programOrder
    <3>4. issueHolds = <<>>
      BY <2>1 DEF issueHolds, Held
    <3> QED  BY <1>4, <3>3, <3>4, ConcatEmptySeq
  <2>2. CASE decode_in # NoPacket
    <3>1. ~reset
      BY <2>2 DEF QuietInReset
    <3>2. ~IssueDropped
      BY RoomAtIssue, ProcessorRunsInFixedOrder
    <3>3. IssueAccepted
      BY <2>2, <3>1, <3>2 DEF Issue, IssueReset, IssueNothing
    <3>4. programOrder' = Append(programOrder, decode_in)
      BY <3>3, IssueAccepts
    <3>5. issueHolds = <<decode_in>> /\ decode_in \in Packets
      BY <1>1, <2>2 DEF issueHolds, Held, Inv, TypeOK
    <3> QED  BY <1>4, <3>4, <3>5, AppendIsConcat
  <2> QED  BY <2>1, <2>2
<1>6. programOrder' \o <<>> = programOrder'
  BY <1>4, ConcatEmptySeq
<1>7. UnderWay' = ((programOrder' \o <<>>) \o decodeHolds) \o fetchHolds
  BY <1>3, UnderWayIs, UnderWayIsPrimed
<1>8. UnderWay' = UnderWay
  BY <1>5, <1>6, <1>7, UnderWayIs, UnderWayIsPrimed
<1> QED  BY <1>2, <1>8 DEF AsFetched!seqVars

\* execute_proc, complete_proc and the end of commit_proc
LEMMA ExecutionPasses ==
  ASSUME Inv, EdgeInv, ChannelInv, Inv', ChannelInv', ExecutionUnitStep,
         Execute \/ Complete \/ CommitReturn
  PROVE  UNCHANGED AsFetched!seqVars
<1>1. /\ HasRun("fetch")' <=> HasRun("fetch")
      /\ HasRun("issue")' <=> HasRun("issue")
  <2>1. \/ \E p \in {"execute", "complete", "commit"} : Running(p) /\ Return
        \/ StillRunning
    BY DEF Execute, ExecuteAlu, ExecuteMem, ExecuteBranch, ExecuteReturn, Complete,
           CommitReturn
  <2>2. CASE StillRunning
    BY <2>2 DEF StillRunning, kernelVars, HasRun
  <2>3. ASSUME NEW p \in {"execute", "complete", "commit"}, Running(p), Return
        PROVE  /\ HasRun("fetch")' <=> HasRun("fetch")
               /\ HasRun("issue")' <=> HasRun("issue")
    BY <2>3, ReturnIs DEF Process, EuProcess
  <2> QED  BY <2>1, <2>2, <2>3
<1>2. programOrder' = programOrder /\ UNCHANGED <<regfile, memory>>
  BY OthersAreInvisible DEF AsCoded!seqVars
<1>3. /\ issueHolds' = issueHolds /\ decodeHolds' = decodeHolds
      /\ fetchHolds' = fetchHolds
  BY <1>1, UnitLeaves DEF issueHolds, decodeHolds, fetchHolds
<1>4. UnderWay' = UnderWay
  BY <1>2, <1>3, UnderWayIs, UnderWayIsPrimed
<1> QED  BY <1>2, <1>4 DEF AsFetched!seqVars

\* The head of a queue is the head of its front part.
LEMMA HeadOfConcat ==
  ASSUME NEW S, NEW s \in Seq(S), NEW t \in Seq(S), s # <<>>
  PROVE  s \o t # <<>> /\ Head(s \o t) = Head(s) /\ Tail(s \o t) = Tail(s) \o t
<1>1. s \o t \in Seq(S) /\ Len(s) \in Nat /\ Len(s) > 0 /\ Len(t) \in Nat
  OBVIOUS
<1>2. s \o t # <<>> /\ Head(s \o t) = Head(s)
  BY <1>1
<1>3. /\ Tail(s \o t) \in Seq(S) /\ Tail(s) \o t \in Seq(S)
      /\ Len(Tail(s \o t)) = Len(Tail(s) \o t)
  BY <1>1, <1>2
<1>4. \A i \in 1 .. Len(Tail(s \o t)) : Tail(s \o t)[i] = (Tail(s) \o t)[i]
  BY <1>1, <1>2
<1> QED  BY <1>2, <1>3, <1>4, SeqEqual

\* commit_proc: the oldest takes effect.
LEMMA CommitLeaves ==
  ASSUME BranchesNameNoRegister(Packets), DataInv, Inv, EdgeInv, ChannelInv,
         Inv', ChannelInv', ExecutionUnitStep, CommitStore \/ CommitRegister
  PROVE  AsFetched!Retire
<1>1. /\ HasRun("fetch")' <=> HasRun("fetch")
      /\ HasRun("issue")' <=> HasRun("issue")
  BY DEF CommitStore, CommitRegister, StillRunning, kernelVars, HasRun
<1>2. AsCoded!Retire
  BY PacketsNameNone, CommitRetires
<1>3. /\ issueHolds' = issueHolds /\ decodeHolds' = decodeHolds
      /\ fetchHolds' = fetchHolds
  BY <1>1, UnitLeaves DEF issueHolds, decodeHolds, fetchHolds
<1> DEFINE op == Head(programOrder)
<1>4. /\ UnderWay # <<>> /\ Head(UnderWay) = op /\ UnderWay' = Tail(UnderWay)
  <2> DEFINE s1 == programOrder \o issueHolds
             s2 == s1 \o decodeHolds
  <2>1. programOrder # <<>> /\ programOrder' = Tail(programOrder)
    BY <1>2 DEF AsCoded!Retire
  <2>2. /\ programOrder \in Seq(Packets) /\ issueHolds \in Seq(Packets)
        /\ decodeHolds \in Seq(Packets) /\ fetchHolds \in Seq(Packets)
    BY UnderWayIs
  <2>3. s1 \in Seq(Packets) /\ s2 \in Seq(Packets)
    BY <2>2, ConcatProperties
  <2>4. UnderWay = s2 \o fetchHolds /\ UnderWay' = s2' \o fetchHolds
    BY <1>3, UnderWayIs, UnderWayIsPrimed
  <2>5. s1' = Tail(programOrder) \o issueHolds /\ s2' = s1' \o decodeHolds
    BY <1>3, <2>1
  <2>6. s1 # <<>> /\ Head(s1) = op /\ s1' = Tail(s1)
    <3>1. s1 # <<>> /\ Head(s1) = op /\ Tail(s1) = Tail(programOrder) \o issueHolds
      BY <2>1, <2>2, HeadOfConcat
    <3> QED  BY <2>5, <3>1
  <2> HIDE DEF s1, op
  <2>7. s2 # <<>> /\ Head(s2) = op /\ s2' = Tail(s2)
    <3>1. s2 # <<>> /\ Head(s2) = Head(s1) /\ Tail(s2) = Tail(s1) \o decodeHolds
      BY <2>2, <2>3, <2>6, HeadOfConcat
    <3> QED  BY <2>5, <2>6, <3>1
  <2> HIDE DEF s2
  <2>8. s2 \o fetchHolds # <<>> /\ Head(s2 \o fetchHolds) = Head(s2)
        /\ Tail(s2 \o fetchHolds) = Tail(s2) \o fetchHolds
    BY <2>2, <2>3, <2>7, HeadOfConcat
  <2> QED  BY <2>4, <2>7, <2>8
<1>5. AsFetched!Value(op, regfile, memory) = AsCoded!Value(op, regfile, memory)
  BY DEF AsFetched!Value, AsCoded!Value, AsFetched!Effective, AsCoded!Effective,
         AsFetched!LoadedValue, AsCoded!LoadedValue, AsFetched!LoadSize, AsCoded!LoadSize,
         AsFetched!ReadData, AsCoded!ReadData, AsFetched!OutOfBounds, AsCoded!OutOfBounds,
         AsFetched!LB, AsFetched!LH, AsFetched!LW, AsFetched!LBU, AsFetched!LHU,
         AsCoded!LB, AsCoded!LH, AsCoded!LW, AsCoded!LBU, AsCoded!LHU
<1> HIDE DEF op
<1>6. AsFetched!RegistersAfter(op, regfile, memory) = AsCoded!RegistersAfter(op, regfile, memory)
  BY <1>5 DEF AsFetched!RegistersAfter, AsCoded!RegistersAfter
<1>7. \A addr, data, size :
        AsFetched!WriteData(memory, addr, data, size) = AsCoded!WriteData(memory, addr, data, size)
  BY DEF AsFetched!WriteData, AsCoded!WriteData, AsFetched!OutOfBounds, AsCoded!OutOfBounds,
         AsFetched!ByteOf, AsCoded!ByteOf, AsFetched!MemAddr, AsCoded!MemAddr
<1>8. AsFetched!MemoriesAfter(op, regfile, memory) = AsCoded!MemoriesAfter(op, regfile, memory)
  BY <1>7 DEF AsFetched!MemoriesAfter, AsCoded!MemoriesAfter, AsFetched!Effective,
              AsCoded!Effective
<1>9. /\ regfile' = AsCoded!RegistersAfter(op, regfile, memory)
      /\ memory' \in AsCoded!MemoriesAfter(op, regfile, memory)
  BY <1>2 DEF AsCoded!Retire, op
<1> QED  BY <1>4, <1>6, <1>8, <1>9 DEF AsFetched!Retire

\* What a process has written, its successor holds at the next edge.
LEMMA EdgePasses ==
  ASSUME Inv, EdgeInv, ChannelInv, Inv', ChannelInv', ProcessorEdge
  PROVE  UNCHANGED AsFetched!seqVars
<1>1. /\ HasRun("fetch") /\ HasRun("issue") /\ HasRun("decode")
      /\ ~HasRun("fetch")' /\ ~HasRun("issue")'
  BY NextEdgeIs DEF ProcessorEdge, Process, EuProcess
<1>2. /\ fetch_out' = [cur |-> fetch_out.next, next |-> fetch_out.next]
      /\ decode_in' = decode_out /\ UNCHANGED <<rob, regfile, memory>>
  BY EdgeIs DEF ProcessorEdge, euVars
<1>3. programOrder' = programOrder
  BY <1>2 DEF programOrder
<1>4. /\ issueHolds = <<>> /\ issueHolds' = Held(decode_out)
      /\ decodeHolds' = HeldUndecoded(fetch_out.next)
      /\ fetchHolds = HeldUndecoded(fetch_out.next) /\ fetchHolds' = <<>>
  BY <1>1, <1>2 DEF issueHolds, decodeHolds, fetchHolds
<1>5. decodeHolds = Held(decode_out)
  BY <1>1, DecoderAssumption, TypesAssumption
  DEF decodeHolds, Held, HeldUndecoded, ChannelInv, DecodeFollows, ProcessorTypeOK
<1>6. programOrder \o issueHolds = programOrder
  BY <1>4, UnderWayIs, UnderWayIsPrimed, ConcatEmptySeq
<1>7. UnderWay = (programOrder \o decodeHolds) \o fetchHolds
  BY <1>6, UnderWayIs, UnderWayIsPrimed
<1> DEFINE all == (programOrder \o decodeHolds) \o fetchHolds
<1>8. UnderWay' = all \o <<>>
  BY <1>3, <1>4, <1>5, UnderWayIs, UnderWayIsPrimed
<1>9. all \in Seq(Packets)
  BY UnderWayIs, ConcatProperties
<1> HIDE DEF all
<1>10. UnderWay' = UnderWay
  BY <1>7, <1>8, <1>9, ConcatEmptySeq DEF all
<1> QED  BY <1>2, <1>10 DEF AsFetched!seqVars

LEMMA FifoStep ==
  ASSUME FixedOrder, ROB_SIZE >= 2, BranchesNameNoRegister(Packets),
         ProcessorInv, ProcessorInv', FixedOrderInv, DataInv, QuietInReset,
         [ProcessorNext]_processorVars
  PROVE  [AsFetched!Fetch \/ AsFetched!Retire]_(AsFetched!seqVars)
<1>1. /\ Inv /\ EdgeInv /\ ChannelInv
      /\ Inv' /\ ChannelInv'
  BY DEF ProcessorInv
<1>2. CASE FetchReset \/ FetchInstruction
  BY <1>1, <1>2, FetchEnters
<1>3. CASE Decode \/ ClockProc
  BY <1>1, <1>3, DecodePasses
<1>4. CASE ExecutionUnitStep
  <2>1. CASE Issue
    BY <1>1, <1>4, <2>1, IssuePasses
  <2>2. CASE Execute \/ Complete \/ CommitReturn
    BY <1>1, <1>4, <2>2, ExecutionPasses
  <2>3. CASE CommitStore \/ CommitRegister
    BY <1>1, <1>4, <2>3, CommitLeaves
  <2> QED  BY <1>4, <2>1, <2>2, <2>3 DEF ExecutionUnitStep, Commit
<1>5. CASE ProcessorEdge
  BY <1>1, <1>5, EdgePasses
<1>6. CASE UNCHANGED processorVars
  BY <1>6 DEF processorVars, vars, frontEnd, AsFetched!seqVars, UnderWay, programOrder, HasRun
<1> QED  BY <1>2, <1>3, <1>4, <1>5, <1>6 DEF ProcessorNext

LEMMA FifoInit ==
  ASSUME ProcessorInit
  PROVE  AsFetched!Start /\ QuietInReset /\ DataInv
<1>1. /\ fetch_out = [cur |-> NoFetch, next |-> NoFetch] /\ decode_in = NoPacket
      /\ regfile = [r \in Reg |-> 0] /\ memory \in InitialMemories /\ rob = RobReset
  BY DEF ProcessorInit, Init
<1>2. programOrder = <<>>
  BY <1>1 DEF programOrder, RobReset
<1>3. issueHolds = <<>> /\ decodeHolds = <<>> /\ fetchHolds = <<>>
  BY <1>1 DEF issueHolds, decodeHolds, fetchHolds, Held, HeldUndecoded
<1>4. Inv /\ ChannelInv
  BY ProcessorInvInit DEF ProcessorInv
<1>5. UnderWay = <<>>
  BY <1>2, <1>3, <1>4, UnderWayIs
<1>6. DataInv
  BY DataInit DEF ProcessorInit
<1> QED  BY <1>1, <1>5, <1>6 DEF AsFetched!Start, AsFetched!Reg, Reg, QuietInReset

\* Whatever the program does, in a fixed order and with two entries in the
\* reorder buffer: every instruction fetched, on the path of the program or off
\* it, takes effect once and in the order of the fetches. That nothing is lost
\* on the way is why a jump does not keep the instructions behind it away.
THEOREM FetchedTakesEffectOnce ==
  ASSUME FixedOrder, ROB_SIZE >= 2, BranchesNameNoRegister(Packets)
  PROVE  ProcessorSpec => FetchedTakesEffect
<1>1. ProcessorInit => AsFetched!Start /\ QuietInReset /\ DataInv
  BY FifoInit
<1>2. UnitInv /\ FixedOrderInv /\ DataInv /\ [ProcessorNext]_processorVars => DataInv'
  BY PacketsNameNone, DataOfStep DEF UnitInv
<1>3. ProcessorInv /\ QuietInReset /\ [ProcessorNext]_processorVars => QuietInReset'
  BY QuietStep DEF ProcessorInv
<1>4. ProcessorInv /\ ProcessorInv' /\ FixedOrderInv /\ DataInv /\ QuietInReset
        /\ [ProcessorNext]_processorVars
        => [AsFetched!Fetch \/ AsFetched!Retire]_(AsFetched!seqVars)
  BY FifoStep
<1> QED  BY ProcessorInvHolds, UnitInvHolds, FixedOrderInProcessor, <1>1, <1>2, <1>3, <1>4, PTL
         DEF ProcessorSpec, FetchedTakesEffect, AsFetched!InOrder

-----------------------------------------------------------------------------
(***************************************************************************)
(* Straight-line programs in a fixed order.  Nothing is dropped and no     *)
(* branch is taken, so that the instructions under way have consecutive    *)
(* addresses: each is as far behind the fetch counter as there are others  *)
(* in front of it, wherever they are within the edge.  And what is under   *)
(* way is what the memory still holds, since no store reaches the program. *)
(***************************************************************************)
One(there) == IF there THEN 1 ELSE 0

\* How many instructions are just fetched, at decode, and at issue
JustFetched == One(HasRun("fetch") /\ fetch_out.next # NoFetch)
AtDecode == One(fetch_out.cur # NoFetch)
AtIssue == One(~HasRun("issue") /\ decode_in # NoPacket)

InStep ==
  /\ HasRun("fetch") /\ fetch_out.next # NoFetch => fetch_out.next.pc = pc - 4
  /\ fetch_out.cur # NoFetch => fetch_out.cur.pc = pc - 4 * JustFetched - 4
  /\ ~HasRun("issue") /\ decode_in # NoPacket =>
       decode_in.pc = pc - 4 * (JustFetched + AtDecode) - 4
  /\ \A k \in 1 .. Len(programOrder) :
       programOrder[k].pc =
         pc - 4 * (JustFetched + AtDecode + AtIssue) - 4 * (Len(programOrder) - k + 1)

\* The address of the oldest instruction under way, counted back from pc
Behind == JustFetched + AtDecode + AtIssue + Len(programOrder)
Front == pc - 4 * Behind

FetchedFromMemory(packet) ==
  /\ packet.pc \in ProgramAddress
  /\ packet.instruction = ReadInstruction(memory, packet.pc)

DecodedFromMemory(op) == op.pc \in ProgramAddress /\ op = DecodedAt(memory, op.pc)

AsInMemory ==
  /\ IsStraightLine(memory)
  /\ fetch_out.cur # NoFetch => FetchedFromMemory(fetch_out.cur)
  /\ fetch_out.next # NoFetch => FetchedFromMemory(fetch_out.next)
  /\ decode_in # NoPacket => DecodedFromMemory(decode_in)
  /\ decode_out # NoPacket => DecodedFromMemory(decode_out)
  /\ \A k \in 1 .. Len(programOrder) : DecodedFromMemory(programOrder[k])

\* The predictor has learned nothing.
Untrained ==
  LET fresh == BpInit(bp.predictor_type) IN
  /\ bp.predictor_type \in PredictorTypes
  /\ bp.bht = fresh.bht /\ bp.pht = fresh.pht /\ bp.ghr = fresh.ghr

NothingTaken ==
  /\ ~redirect.cur.taken /\ ~redirect.next.taken
  /\ execute_out.cur # NoResult => ~execute_out.cur.branch_taken
  /\ execute_out.next # NoResult => ~execute_out.next.branch_taken
  /\ Untrained

\* The edges before this one, and the times fetch has run
Edge == total_cycles - One(HasRun("clock"))
FetchRuns == Edge + One(HasRun("fetch"))

InTime ==
  /\ reset => /\ pc = 0 /\ decode_in = NoPacket /\ decode_out = NoPacket
             /\ Edge <= RESET_EDGES
  /\ \E j \in Nat : pc = 4 * j /\ j <= FetchRuns /\ FetchRuns <= j + RESET_EDGES + 1

StraightInv == InStep /\ AsInMemory /\ NothingTaken /\ InTime

\* The program's own run, up to the instruction that is to take effect next
FrontState == ProgramState(Front, regfile, memory)

FrontGoesOn == Front \in ProgramAddress => GoesOn(FrontState)

-----------------------------------------------------------------------------
(***************************************************************************)
(* Addresses of the program                                                *)
(***************************************************************************)
LEMMA ProgramAddresses ==
  ASSUME ProgramEnd < WORD, NEW a \in ProgramAddress
  PROVE  a \in Word /\ a + 4 <= ProgramEnd /\ a + 4 \in Word /\ (a + 4) % WORD = a + 4
<1>1. PICK k \in 0 .. SIMULATION_EDGES : a = 4 * k
  BY DEF ProgramAddress
<1>2. a \in Nat /\ a + 4 <= ProgramEnd
  BY <1>1, ProcessorAssumption DEF ProgramEnd
<1>3. a \in Word /\ a + 4 \in Word
  BY <1>2, TypesAssumption, ProcessorAssumption DEF Word, ProgramEnd
<1> QED  BY <1>2, <1>3, TypesAssumption DEF Word

\* Fetch does not get beyond the program before the simulation ends.
LEMMA FetchedInTime ==
  ASSUME ChannelInv, InTime, ~HasRun("fetch")
  PROVE  pc \in ProgramAddress
<1>1. PICK j \in Nat : pc = 4 * j /\ j <= FetchRuns
  BY DEF InTime
<1>2. total_cycles \in Nat /\ SIMULATION_EDGES \in Nat
  BY ProcessorAssumption DEF ChannelInv, ProcessorTypeOK
<1>3. FetchRuns <= SIMULATION_EDGES
  BY <1>2 DEF FetchRuns, Edge, One, ChannelInv, CyclesInTime
<1>4. FetchRuns \in Int
  BY <1>2 DEF FetchRuns, Edge, One
<1>5. j \in 0 .. SIMULATION_EDGES
  BY <1>1, <1>2, <1>3, <1>4
<1> QED  BY <1>1, <1>5 DEF ProgramAddress

\* What decode makes of a packet has its address, and is a packet.
LEMMA DecodedPacket ==
  ASSUME NEW p \in FetchPacket
  PROVE  Decoded(p) \in Packets /\ Decoded(p) # NoPacket /\ Decoded(p).pc = p.pc
         /\ p = [instruction |-> p.instruction, pc |-> p.pc]
<1>1. Decoded(p) \in Packets /\ Decoded(p) # NoPacket
  BY DecoderAssumption, TypesAssumption
<1>2. Decoded(p).pc = p.pc
  BY DEF Decoded
<1>3. p = [instruction |-> p.instruction, pc |-> p.pc]
  BY DEF FetchPacket
<1> QED  BY <1>1, <1>2, <1>3

LEMMA DecodedAtIs ==
  ASSUME NEW m \in Memory, NEW a \in Word
  PROVE  /\ [instruction |-> ReadInstruction(m, a), pc |-> a] \in FetchPacket
         /\ DecodedAt(m, a) \in Packets /\ DecodedAt(m, a).pc = a
         /\ DecodedAt(m, a).opcode = Fields(ReadInstruction(m, a)).opcode
<1> DEFINE inst == ReadInstruction(m, a)
           p == [instruction |-> inst, pc |-> a]
<1>1. inst \in Instruction
  BY InstructionIs
<1>2. DecodedAt(m, a) = Decoded(p)
  BY DEF DecodedAt
<1> HIDE DEF inst
<1>3. p \in FetchPacket /\ p.pc = a /\ p.instruction = inst
  BY <1>1 DEF FetchPacket
<1>4. Decoded(p).opcode = Fields(inst).opcode
  BY <1>3 DEF Decoded
<1> HIDE DEF p
<1>5. Decoded(p) \in Packets /\ Decoded(p).pc = a
  BY <1>3, DecodedPacket
<1> QED  BY <1>2, <1>3, <1>4, <1>5 DEF p, inst

\* A predictor that has learned nothing predicts what a new one does.
LEMMA UntrainedPredicts ==
  ASSUME Untrained, NEW a, NEW p
  PROVE  BpPrediction(bp, a, p) <=> BpPrediction(BpInit(bp.predictor_type), a, p)
<1> DEFINE b == BpInit(bp.predictor_type)
<1>1. b.predictor_type = bp.predictor_type /\ bp.bht = b.bht /\ bp.pht = b.pht /\ bp.ghr = b.ghr
  BY DEF Untrained, BpInit
<1> HIDE DEF b
<1>2. /\ BhtIndex(bp, a) = BhtIndex(b, a) /\ PhtIndex(bp, a) = PhtIndex(b, a)
  BY <1>1 DEF BhtIndex, PhtIndex
<1>3. /\ BhtTaken(bp, a) <=> BhtTaken(b, a)
      /\ PhtTaken(bp, a) <=> PhtTaken(b, a)
  BY <1>1, <1>2 DEF BhtTaken, PhtTaken
<1>4. BpPrediction(bp, a, p) <=> BpPrediction(b, a, p)
  BY <1>1, <1>2, <1>3 DEF BpPrediction
<1> QED  BY <1>4 DEF b

\* Fetch goes on with the next instruction.
LEMMA StraightFetch ==
  ASSUME Inv, ProgramEnd < WORD, Untrained, NEW a \in ProgramAddress, IsStraight(memory, a)
  PROVE  PredictNextPc(bp, a, ReadInstruction(memory, a)) = a + 4
<1> DEFINE inst == ReadInstruction(memory, a)
           op == DecodedAt(memory, a)
<1>1. a \in Word /\ (a + 4) % WORD = a + 4
  BY ProgramAddresses
<1>2. op.opcode = Fields(inst).opcode
  BY <1>1, DecodedAtIs DEF Inv, TypeOK
<1>3. /\ op.opcode \notin {"JAL", "JALR"}
      /\ op.opcode = "BRANCH" =>
           \A type \in PredictorTypes : ~BpPrediction(BpInit(type), a, Predictable(inst))
  BY DEF IsStraight
<1> HIDE DEF op, inst
<1>4. ~BpPrediction(bp, a, Predictable(inst))
  <2>1. CASE op.opcode = "BRANCH"
    <3>1. bp.predictor_type \in PredictorTypes
      BY DEF Untrained
    <3> QED  BY <2>1, <3>1, <1>3, UntrainedPredicts
  <2>2. CASE op.opcode # "BRANCH"
    <3>1. ~IsBranchOpcode(Fields(inst).opcode)
      BY <2>2, <1>2, <1>3 DEF IsBranchOpcode
    <3>2. Predictable(inst).opcode = Fields(inst).opcode
      BY DEF Predictable
    <3> QED  BY <3>1, <3>2 DEF BpPrediction
  <2> QED  BY <2>1, <2>2
<1>5. PredictNextPc(bp, a, inst) = (a + 4) % WORD
  BY <1>4 DEF PredictNextPc
<1> QED  BY <1>1, <1>5 DEF inst

\* A store behind the program leaves the program as it is.
LEMMA ProgramIsKept ==
  ASSUME NEW m \in Memory, NEW addr \in Int, NEW data, NEW size \in {1, 2, 4},
         addr >= ProgramEnd, ProgramEnd < WORD, NEW a \in ProgramAddress
  PROVE  ReadInstruction(WriteData(m, addr, data, size), a) = ReadInstruction(m, a)
<1> DEFINE n == WriteData(m, addr, data, size)
<1>1. a \in Nat /\ a + 4 <= addr
  BY ProgramAddresses, TypesAssumption, ProcessorAssumption DEF Word, ProgramEnd
<1>2. \A b \in MemAddr : b < addr => n[b] = m[b]
  <2>1. CASE OutOfBounds(addr, size)
    BY <2>1 DEF WriteData
  <2>2. CASE ~OutOfBounds(addr, size)
    <3>1. n = [b \in MemAddr |-> IF b \in addr .. addr + size - 1
                                 THEN ByteOf(data, b - addr) ELSE m[b]]
      BY <2>2 DEF WriteData
    <3>2. \A b \in MemAddr : b < addr => b \notin addr .. addr + size - 1
      BY MemoryAssumption DEF MemAddr
    <3> QED  BY <3>1, <3>2
  <2> QED  BY <2>1, <2>2
<1> HIDE DEF n
<1>3. CASE a >= MEMORY_SIZE - 3
  BY <1>3 DEF ReadInstruction, n
<1>4. CASE ~(a >= MEMORY_SIZE - 3)
  <2>1. /\ a \in MemAddr /\ a + 1 \in MemAddr /\ a + 2 \in MemAddr /\ a + 3 \in MemAddr
        /\ a < addr /\ a + 1 < addr /\ a + 2 < addr /\ a + 3 < addr
    BY <1>1, <1>4, MemoryAssumption DEF MemAddr
  <2>2. n[a] = m[a] /\ n[a + 1] = m[a + 1] /\ n[a + 2] = m[a + 2] /\ n[a + 3] = m[a + 3]
    BY <2>1, <1>2
  <2>3. ReadInstruction(n, a) = ReadInstruction(m, a)
    BY <2>2 DEF ReadInstruction
  <2> QED  BY <2>3 DEF n
<1> QED  BY <1>3, <1>4

-----------------------------------------------------------------------------
(***************************************************************************)
(* Each step keeps the invariant.                                          *)
(***************************************************************************)
LEMMA BehindIs ==
  ASSUME Inv, ChannelInv
  PROVE  /\ JustFetched \in Int /\ AtDecode \in Int /\ AtIssue \in Int
         /\ Len(programOrder) \in Nat /\ pc \in Int
  BY ProgramOrderIs DEF JustFetched, AtDecode, AtIssue, One, ChannelInv, ProcessorTypeOK, Word

LEMMA InitiallyStraight ==
  ASSUME NEW reached, StraightLinePrograms(reached), ProcessorInit
  PROVE  StraightInv /\ Front = 0 /\ FrontState \in reached
<1>1. /\ pc = 0 /\ fetch_out = [cur |-> NoFetch, next |-> NoFetch]
      /\ decode_in = NoPacket /\ decode_out = NoPacket /\ total_cycles = 0
      /\ execute_out = [cur |-> NoResult, next |-> NoResult]
      /\ memory \in InitialMemories /\ rob = RobReset
      /\ redirect.cur.taken = FALSE /\ redirect.next.taken = FALSE
  BY DEF ProcessorInit, Init
<1>2. PICK type \in PredictorTypes : bp = BpInit(type)
  BY DEF ProcessorInit
<1>3. Len(programOrder) = 0
  BY <1>1, InitInv, ProgramOrderIs DEF ProcessorInit, RobReset
<1>4. ~HasRun("fetch") /\ ~HasRun("issue") /\ ~HasRun("clock")
  BY InitialEdge DEF ProcessorInit, Init, Process, EuProcess
<1>5. InStep
  BY <1>1, <1>3, <1>4 DEF InStep
<1>6. AsInMemory
  BY <1>1, <1>3 DEF AsInMemory, StraightLinePrograms
<1>7. bp.predictor_type = type
  BY <1>2 DEF BpInit
<1>8. NothingTaken
  BY <1>1, <1>2, <1>7 DEF NothingTaken, Untrained
<1>9. Edge = 0 /\ FetchRuns = 0
  <2>1. One(HasRun("clock")) = 0 /\ One(HasRun("fetch")) = 0 /\ total_cycles = 0
    BY <1>1, <1>4 DEF One
  <2> QED  BY <2>1 DEF Edge, FetchRuns
<1>10. InTime
  BY <1>1, <1>9, ProcessorAssumption DEF InTime
<1>11. JustFetched = 0 /\ AtDecode = 0 /\ AtIssue = 0
  BY <1>1 DEF JustFetched, AtDecode, AtIssue, One
<1>12. Front = 0
  BY <1>1, <1>3, <1>11 DEF Front, Behind
<1>13. FrontState \in reached
  <2>1. regfile = [r \in Reg |-> 0]
    BY DEF ProcessorInit, Init
  <2>2. FrontState = ProgramState(0, [r \in Reg |-> 0], memory)
    BY <1>12, <2>1 DEF FrontState
  <2> QED  BY <1>1, <2>2 DEF StraightLinePrograms, ProgramStarts
<1> QED  BY <1>5, <1>6, <1>8, <1>10, <1>12, <1>13 DEF StraightInv

\* In reset there is nothing under way.
LEMMA NothingInReset ==
  ASSUME Inv, FixedOrderInv, ChannelInv, InTime, reset
  PROVE  /\ pc = 0 /\ fetch_out.cur = NoFetch /\ fetch_out.next = NoFetch
         /\ decode_in = NoPacket /\ decode_out = NoPacket /\ Len(programOrder) = 0
<1>1. rob.count = 0
  BY IdleInReset DEF RobReset
<1> QED  BY <1>1, ProgramOrderIs DEF ChannelInv, NothingFetchedInReset, InTime

LEMMA FetchResetKeepsStraight ==
  ASSUME Inv, FixedOrderInv, EdgeInv, ChannelInv, StraightInv, FetchReset
  PROVE  StraightInv' /\ Front' = Front /\ UNCHANGED <<regfile, memory>>
<1>1. /\ ~HasRun("fetch") /\ HasRun("fetch")'
      /\ HasRun("clock")' <=> HasRun("clock")
      /\ HasRun("issue")' <=> HasRun("issue")
  BY ReturnIs DEF FetchReset, Process, EuProcess
<1>2. /\ reset /\ pc' = 0 /\ fetch_out'.next = NoFetch /\ fetch_out'.cur = fetch_out.cur
      /\ UNCHANGED <<bp, redirect, memory, decode_in, decode_out, execute_out, reset,
                     rob, total_cycles>>
  BY DEF FetchReset, signals, statistics, euVars, ChannelInv, ProcessorTypeOK
<1>3. /\ pc = 0 /\ fetch_out.cur = NoFetch /\ fetch_out.next = NoFetch
      /\ decode_in = NoPacket /\ decode_out = NoPacket /\ Len(programOrder) = 0
  BY <1>2, NothingInReset DEF StraightInv
<1>4. programOrder' = programOrder
  BY <1>2 DEF programOrder
<1>5. InStep'
  BY <1>2, <1>3, <1>4 DEF InStep
<1>6. AsInMemory'
  BY <1>2, <1>3, <1>4 DEF StraightInv, AsInMemory, IsStraightLine
<1>7. NothingTaken'
  BY <1>2 DEF StraightInv, NothingTaken, Untrained
<1>8. Edge' = Edge /\ FetchRuns = Edge /\ FetchRuns' = Edge + 1 /\ Edge \in Int
  BY <1>1, <1>2 DEF Edge, FetchRuns, One, ChannelInv, ProcessorTypeOK
<1>9. InTime'
  <2>1. Edge <= RESET_EDGES /\ 0 <= Edge
    <3>1. PICK j \in Nat : j <= FetchRuns
      BY DEF StraightInv, InTime
    <3> QED  BY <1>2, <1>8, <3>1 DEF StraightInv, InTime
  <2>2. /\ 0 \in Nat /\ pc' = 4 * 0 /\ 0 <= FetchRuns'
        /\ FetchRuns' <= 0 + RESET_EDGES + 1
    BY <1>2, <1>8, <2>1, ProcessorAssumption
  <2>3. Edge' <= RESET_EDGES
    BY <1>8, <2>1
  <2> QED  BY <1>2, <1>3, <2>2, <2>3 DEF InTime
<1>10. /\ JustFetched = 0 /\ AtDecode = 0 /\ AtIssue = 0
       /\ JustFetched' = 0 /\ AtDecode' = 0 /\ AtIssue' = 0
  BY <1>1, <1>2, <1>3 DEF JustFetched, AtDecode, AtIssue, One
<1>11. Front' = Front
  BY <1>2, <1>3, <1>4, <1>10 DEF Front, Behind
<1>12. UNCHANGED <<regfile, memory>>
  BY OthersLeaveUnit DEF euVars
<1> QED  BY <1>5, <1>6, <1>7, <1>9, <1>11, <1>12 DEF StraightInv

LEMMA FetchKeepsStraight ==
  ASSUME Inv, EdgeInv, ProcessorInv, ProgramEnd < WORD, StraightInv, FetchInstruction
  PROVE  StraightInv' /\ Front' = Front /\ UNCHANGED <<regfile, memory>>
<1> DEFINE inst == ReadInstruction(memory, pc)
           packet == [instruction |-> inst, pc |-> pc]
<1>1. /\ ~HasRun("fetch") /\ HasRun("fetch")'
      /\ HasRun("clock")' <=> HasRun("clock")
      /\ HasRun("issue")' <=> HasRun("issue")
  BY ReturnIs DEF FetchInstruction, Process, EuProcess
<1>2. pc \in ProgramAddress /\ pc \in Word
  BY <1>1, FetchedInTime, ProgramAddresses DEF ProcessorInv, StraightInv
<1>3. ~redirect.cur.taken
  BY DEF StraightInv, NothingTaken
<1>4. /\ ~reset /\ fetch_out' = [fetch_out EXCEPT !.next = packet]
      /\ pc' = PredictNextPc(bp, pc, inst) /\ bp' = BpAfterPredict(bp, Predictable(inst))
      /\ UNCHANGED <<redirect, memory, decode_in, decode_out, execute_out, reset,
                     rob, total_cycles>>
  BY <1>3 DEF FetchInstruction, signals, statistics, euVars
<1>5. memory \in Memory /\ packet \in FetchPacket
  BY <1>2, DecodedAtIs DEF Inv, TypeOK
<1>6. pc' = pc + 4
  BY <1>2, <1>4, StraightFetch DEF StraightInv, AsInMemory, IsStraightLine, NothingTaken
<1>7. packet.pc = pc /\ packet.instruction = inst /\ packet # NoFetch
  BY <1>5, ProcessorAssumption
<1> HIDE DEF packet
<1>8. fetch_out'.next = packet /\ fetch_out'.cur = fetch_out.cur
  BY <1>4 DEF ProcessorInv, ChannelInv, ProcessorTypeOK
<1>9. programOrder' = programOrder
  BY <1>4 DEF programOrder
<1>10. /\ JustFetched = 0 /\ JustFetched' = 1 /\ AtDecode' = AtDecode /\ AtIssue' = AtIssue
       /\ AtDecode \in Int /\ AtIssue \in Int
  BY <1>1, <1>4, <1>7, <1>8 DEF JustFetched, AtDecode, AtIssue, One
<1>11. InStep'
  <2>1. fetch_out.cur # NoFetch => fetch_out'.cur.pc = pc' - 4 * 1 - 4
    BY <1>2, <1>6, <1>8, <1>10 DEF StraightInv, InStep, Word
  <2>2. ~HasRun("issue") /\ decode_in # NoPacket =>
          decode_in.pc = pc' - 4 * (1 + AtDecode) - 4
    BY <1>2, <1>6, <1>10 DEF StraightInv, InStep, Word
  <2>3. ASSUME NEW k \in 1 .. Len(programOrder)
        PROVE  programOrder[k].pc =
                 pc' - 4 * (1 + AtDecode + AtIssue) - 4 * (Len(programOrder) - k + 1)
    <3>1. programOrder[k].pc =
            pc - 4 * (0 + AtDecode + AtIssue) - 4 * (Len(programOrder) - k + 1)
      BY <1>10 DEF StraightInv, InStep
    <3>2. Len(programOrder) \in Nat
      BY ProgramOrderIs
    <3> QED  BY <1>2, <1>6, <1>10, <3>1, <3>2 DEF Word
  <2>4. fetch_out'.next.pc = pc' - 4
    BY <1>2, <1>6, <1>7, <1>8 DEF Word
  <2> QED  BY <1>1, <1>4, <1>8, <1>9, <1>10, <2>1, <2>2, <2>3, <2>4 DEF InStep
<1>12. AsInMemory'
  <2>1. FetchedFromMemory(packet)
    BY <1>2, <1>7 DEF FetchedFromMemory
  <2> QED  BY <1>4, <1>8, <1>9, <2>1
           DEF StraightInv, AsInMemory, FetchedFromMemory, DecodedFromMemory, IsStraightLine
<1>13. NothingTaken'
  <2>1. Untrained'
    BY <1>4 DEF StraightInv, NothingTaken, Untrained, BpAfterPredict, ProcessorInv,
                StatisticsInv, PredictorCounts
  <2> QED  BY <1>4, <2>1 DEF StraightInv, NothingTaken
<1>14. InTime'
  <2>1. Edge' = Edge /\ FetchRuns' = FetchRuns + 1 /\ FetchRuns \in Int
    BY <1>1, <1>4 DEF Edge, FetchRuns, One, ProcessorInv, ChannelInv, ProcessorTypeOK
  <2>2. PICK j \in Nat : pc = 4 * j /\ j <= FetchRuns /\ FetchRuns <= j + RESET_EDGES + 1
    BY DEF StraightInv, InTime
  <2>3. /\ j + 1 \in Nat /\ pc' = 4 * (j + 1)
        /\ j + 1 <= FetchRuns' /\ FetchRuns' <= (j + 1) + RESET_EDGES + 1
    BY <1>6, <2>1, <2>2, ProcessorAssumption
  <2> QED  BY <1>4, <2>3 DEF InTime
<1>15. Front' = Front
  <2>1. Len(programOrder) \in Nat /\ pc \in Int
    BY BehindIs DEF ProcessorInv
  <2> QED  BY <1>6, <1>9, <1>10, <2>1 DEF Front, Behind
<1>16. UNCHANGED <<regfile, memory>>
  BY OthersLeaveUnit DEF euVars
<1> QED  BY <1>11, <1>12, <1>13, <1>14, <1>15, <1>16 DEF StraightInv

LEMMA TimeStands ==
  ASSUME total_cycles' = total_cycles, HasRun("fetch")' <=> HasRun("fetch"),
         HasRun("clock")' <=> HasRun("clock")
  PROVE  Edge' = Edge /\ FetchRuns' = FetchRuns
<1>1. One(HasRun("fetch"))' = One(HasRun("fetch")) /\ One(HasRun("clock"))' = One(HasRun("clock"))
  BY DEF One
<1> QED  BY <1>1 DEF Edge, FetchRuns

LEMMA DecodeKeepsStraight ==
  ASSUME EdgeInv, ChannelInv, StraightInv, Decode
  PROVE  StraightInv' /\ Front' = Front /\ UNCHANGED <<regfile, memory>>
<1>1. /\ HasRun("fetch")' <=> HasRun("fetch")
      /\ HasRun("clock")' <=> HasRun("clock")
      /\ HasRun("issue")' <=> HasRun("issue")
  BY ReturnIs DEF Decode, Process, EuProcess
<1>2. /\ UNCHANGED <<pc, bp, fetch_out, redirect, memory, decode_in, execute_out, reset,
                     rob, total_cycles>>
      /\ decode_out' = IF reset \/ fetch_out.cur = NoFetch THEN NoPacket
                       ELSE Decoded(fetch_out.cur)
  BY DEF Decode, signals, statistics, euVars
<1>3. programOrder' = programOrder
  BY <1>2 DEF programOrder
<1>4. decode_out' # NoPacket => ~reset /\ DecodedFromMemory(decode_out')
  <2> DEFINE f == fetch_out.cur
  <2> SUFFICES ASSUME ~reset, f # NoFetch, decode_out' = Decoded(f)
               PROVE  DecodedFromMemory(decode_out')
    BY <1>2
  <2>1. f \in FetchPacket /\ FetchedFromMemory(f)
    BY DEF ChannelInv, ProcessorTypeOK, StraightInv, AsInMemory
  <2> HIDE DEF f
  <2>2. Decoded(f).pc = f.pc /\ f = [instruction |-> f.instruction, pc |-> f.pc]
    BY <2>1, DecodedPacket
  <2>3. Decoded(f) = DecodedAt(memory, f.pc)
    BY <2>1, <2>2 DEF DecodedAt, FetchedFromMemory
  <2> QED  BY <2>1, <2>2, <2>3 DEF DecodedFromMemory, FetchedFromMemory
<1>5. InStep'
  BY <1>1, <1>2, <1>3 DEF StraightInv, InStep, JustFetched, AtDecode, AtIssue
<1>6. AsInMemory'
  BY <1>2, <1>3, <1>4
  DEF StraightInv, AsInMemory, FetchedFromMemory, DecodedFromMemory, IsStraightLine
<1>7. NothingTaken'
  BY <1>2 DEF StraightInv, NothingTaken, Untrained
<1>8. InTime'
  <2>1. Edge' = Edge /\ FetchRuns' = FetchRuns
    BY <1>1, <1>2, TimeStands
  <2> QED  BY <1>2, <1>4, <2>1 DEF StraightInv, InTime
<1>10. JustFetched' = JustFetched /\ AtDecode' = AtDecode /\ AtIssue' = AtIssue
  BY <1>1, <1>2 DEF JustFetched, AtDecode, AtIssue, One
<1>11. Front' = Front
  BY <1>2, <1>3, <1>10 DEF Front, Behind
<1>12. UNCHANGED <<regfile, memory>>
  BY OthersLeaveUnit DEF euVars
<1> QED  BY <1>5, <1>6, <1>7, <1>8, <1>11, <1>12 DEF StraightInv

LEMMA ClockKeepsStraight ==
  ASSUME EdgeInv, ChannelInv, StraightInv, ClockProc
  PROVE  StraightInv' /\ Front' = Front /\ UNCHANGED <<regfile, memory>>
<1>1. /\ ~HasRun("clock") /\ HasRun("clock")'
      /\ HasRun("fetch")' <=> HasRun("fetch")
      /\ HasRun("issue")' <=> HasRun("issue")
  BY ReturnIs DEF ClockProc, Process, EuProcess
<1>2. ~ResultTaken
  BY DEF StraightInv, NothingTaken, ResultTaken, ResultValid
<1>3. /\ UNCHANGED <<pc, bp, fetch_out, redirect, memory, decode_in, decode_out,
                     execute_out, reset, rob>>
      /\ total_cycles' = total_cycles + 1
  BY <1>2 DEF ClockProc, signals, euVars
<1>4. programOrder' = programOrder
  BY <1>3 DEF programOrder
<1>5. InStep'
  BY <1>1, <1>3, <1>4 DEF StraightInv, InStep, JustFetched, AtDecode, AtIssue
<1>6. AsInMemory'
  BY <1>3, <1>4
  DEF StraightInv, AsInMemory, FetchedFromMemory, DecodedFromMemory, IsStraightLine
<1>7. NothingTaken'
  BY <1>3 DEF StraightInv, NothingTaken, Untrained
<1>8. Edge' = Edge /\ FetchRuns' = FetchRuns
  <2>1. One(HasRun("clock")) = 0 /\ One(HasRun("clock"))' = 1
    BY <1>1 DEF One
  <2>2. Edge' = Edge
    BY <1>3, <2>1 DEF Edge, ChannelInv, ProcessorTypeOK
  <2>3. One(HasRun("fetch"))' = One(HasRun("fetch"))
    BY <1>1 DEF One
  <2> QED  BY <2>2, <2>3 DEF FetchRuns
<1>9. InTime'
  BY <1>3, <1>8 DEF StraightInv, InTime
<1>10. JustFetched' = JustFetched /\ AtDecode' = AtDecode /\ AtIssue' = AtIssue
  BY <1>1, <1>3 DEF JustFetched, AtDecode, AtIssue, One
<1>11. Front' = Front
  BY <1>3, <1>4, <1>10 DEF Front, Behind
<1>12. UNCHANGED <<regfile, memory>>
  BY OthersLeaveUnit DEF euVars
<1> QED  BY <1>5, <1>6, <1>7, <1>9, <1>11, <1>12 DEF StraightInv

LEMMA IssueKeepsStraight ==
  ASSUME FixedOrder, ROB_SIZE >= 2, Inv, FixedOrderInv, EdgeInv, ChannelInv, StraightInv,
         ExecutionUnitStep, Issue
  PROVE  /\ StraightInv' /\ UNCHANGED <<regfile, memory>>
         /\ Front' = Front
<1>1. Running("issue") /\ Return
  BY DEF Issue, IssueReset, IssueNothing, IssueDropped, IssueAccepted
<1>2. /\ ~HasRun("issue") /\ HasRun("issue")'
      /\ HasRun("fetch")' <=> HasRun("fetch")
      /\ HasRun("clock")' <=> HasRun("clock")
  BY <1>1, ReturnIs DEF Process, EuProcess
<1>3. /\ UNCHANGED <<pc, bp, fetch_out, decode_out, redirect, total_cycles, decode_in, reset>>
      /\ UNCHANGED <<regfile, memory, execute_out>>
  BY UnitLeaves DEF Issue, IssueReset, IssueNothing, IssueDropped, IssueAccepted, signals,
                    euVars
<1>4. programOrder \in Seq(Packets)
  BY ProgramOrderIs
<1>5. JustFetched' = JustFetched /\ AtDecode' = AtDecode /\ AtIssue' = 0
  BY <1>2, <1>3 DEF JustFetched, AtDecode, AtIssue, One
<1>6. /\ JustFetched \in Int /\ AtDecode \in Int /\ AtIssue \in Int
      /\ Len(programOrder) \in Nat /\ pc \in Int
  BY BehindIs
<1>7. NothingTaken' /\ InTime'
  <2>1. Edge' = Edge /\ FetchRuns' = FetchRuns
    BY <1>2, <1>3, TimeStands
  <2>2. InTime'
    BY <1>3, <2>1 DEF StraightInv, InTime
  <2> QED  BY <1>3, <2>2 DEF StraightInv, NothingTaken, Untrained
<1>8. CASE decode_in = NoPacket
  <2>1. AtIssue = 0
    BY <1>8 DEF AtIssue, One
  <2>2. programOrder' = programOrder
    <3>1. reset => rob = RobReset
      BY IdleInReset
    <3>2. rob' = rob
      BY <1>8, <3>1 DEF Issue, IssueReset, IssueNothing, IssueDropped, IssueAccepted, euVars
    <3> QED  BY <3>2 DEF programOrder
  <2>3. InStep'
    BY <1>2, <1>3, <1>5, <2>1, <2>2 DEF StraightInv, InStep
  <2>4. AsInMemory'
    BY <1>3, <2>2
    DEF StraightInv, AsInMemory, FetchedFromMemory, DecodedFromMemory, IsStraightLine
  <2>5. AtIssue' + Len(programOrder)' = AtIssue + Len(programOrder)
    BY <1>5, <2>1, <2>2
  <2>6. Front' = Front
    BY <1>3, <1>5, <1>6, <2>5 DEF Front, Behind
  <2> QED  BY <1>3, <1>7, <2>3, <2>4, <2>6 DEF StraightInv
<1>9. CASE decode_in # NoPacket
  <2>1. AtIssue = 1
    BY <1>2, <1>9 DEF AtIssue, One
  <2>2. ~reset
    BY <1>9 DEF StraightInv, InTime
  <2>3. ~IssueDropped
    BY RoomAtIssue, ProcessorRunsInFixedOrder
  <2>4. IssueAccepted
    BY <1>9, <2>2, <2>3 DEF Issue, IssueReset, IssueNothing
  <2>5. programOrder' = Append(programOrder, decode_in)
    BY <2>4, IssueAccepts
  <2>6. /\ Len(programOrder') = Len(programOrder) + 1 /\ Len(programOrder) \in Nat
        /\ \A k \in 1 .. Len(programOrder) : programOrder'[k] = programOrder[k]
        /\ programOrder'[Len(programOrder) + 1] = decode_in
    BY <1>4, <2>5
  <2>7. decode_in.pc = pc - 4 * (JustFetched + AtDecode) - 4
    BY <1>2, <1>9 DEF StraightInv, InStep
  <2>8. \A k \in 1 .. Len(programOrder') :
          programOrder'[k].pc = pc - 4 * (JustFetched + AtDecode + 0)
                                   - 4 * (Len(programOrder') - k + 1)
    <3> SUFFICES ASSUME NEW k \in 1 .. Len(programOrder')
                 PROVE  programOrder'[k].pc = pc - 4 * (JustFetched + AtDecode + 0)
                                                - 4 * (Len(programOrder') - k + 1)
      OBVIOUS
    <3>1. CASE k \in 1 .. Len(programOrder)
      <4>1. programOrder[k].pc = pc - 4 * (JustFetched + AtDecode + 1)
                                    - 4 * (Len(programOrder) - k + 1)
        BY <2>1, <3>1 DEF StraightInv, InStep
      <4>2. /\ programOrder'[k] = programOrder[k] /\ Len(programOrder') = Len(programOrder) + 1
            /\ k \in Int /\ Len(programOrder) \in Int
        BY <2>6, <3>1
      <4> QED  BY <1>6, <4>1, <4>2
    <3>2. CASE k = Len(programOrder) + 1
      BY <1>6, <2>6, <2>7, <3>2
    <3> QED  BY <2>6, <3>1, <3>2
  <2>9. InStep'
    BY <1>2, <1>3, <1>5, <2>8 DEF StraightInv, InStep
  <2>10. \A k \in 1 .. Len(programOrder') : DecodedFromMemory(programOrder'[k])
    BY <1>9, <2>6 DEF StraightInv, AsInMemory
  <2>11. AsInMemory'
    BY <1>3, <2>10
    DEF StraightInv, AsInMemory, FetchedFromMemory, DecodedFromMemory, IsStraightLine
  <2>12. AtIssue' + Len(programOrder)' = AtIssue + Len(programOrder)
    BY <1>5, <2>1, <2>6
  <2>13. Front' = Front
    BY <1>3, <1>5, <1>6, <2>12, <2>6 DEF Front, Behind
  <2> QED  BY <1>3, <1>7, <2>9, <2>11, <2>13 DEF StraightInv
<1> QED  BY <1>8, <1>9

\* An instruction in flight is the one that the memory holds at its address.
LEMMA InFlightFromMemory ==
  ASSUME Inv, StraightInv, NEW i \in RobSlot, rob.entries[i].busy
  PROVE  DecodedFromMemory(rob.entries[i].op)
<1>1. i \in RobWindow(rob)
  BY WindowIsBusy DEF Inv, TypeOK, RobSound
<1>2. PICK k \in 1 .. Len(programOrder) : programOrder[k] = rob.entries[i].op
  BY <1>1, ProgramOrderIs
<1> QED  BY <1>2 DEF StraightInv, AsInMemory

\* The oldest instruction in flight is at the front.
LEMMA HeadAtFront ==
  ASSUME Inv, ChannelInv, InStep, rob.head \in RobWindow(rob)
  PROVE  rob.entries[rob.head].op.pc = Front
<1> DEFINE n == Len(programOrder)
<1>1. /\ n = rob.count /\ n \in Nat /\ n > 0 /\ rob.head \in RobSlot
  BY ProgramOrderIs DEF Inv, TypeOK, RobType, RobWindow, RobAge, RobSlot
<1>2. RobSlotAt(rob, 0) = rob.head
  BY <1>1, RobSizeAssumption DEF RobSlotAt, RobSlot
<1>3. programOrder[1] = rob.entries[rob.head].op
  <2>1. rob.count \in Nat /\ rob.count > 0
    BY <1>1
  <2>2. programOrder[1] = rob.entries[RobSlotAt(rob, 0)].op
    BY <2>1 DEF programOrder
  <2> QED  BY <1>2, <2>2
<1>4. \A k \in 1 .. n : programOrder[k].pc =
        pc - 4 * (JustFetched + AtDecode + AtIssue) - 4 * (n - k + 1)
  BY DEF InStep
<1>5. JustFetched \in Int /\ AtDecode \in Int /\ AtIssue \in Int /\ pc \in Int
  BY BehindIs
<1> HIDE DEF n
<1>6. programOrder[1].pc = pc - 4 * (JustFetched + AtDecode + AtIssue) - 4 * (n - 1 + 1)
  BY <1>1, <1>4
<1> QED  BY <1>1, <1>3, <1>5, <1>6 DEF Front, Behind, n

\* What the program's own run says of the instruction at the front
LEMMA AtFront ==
  ASSUME FrontGoesOn, NEW op, DecodedFromMemory(op), op.pc = Front
  PROVE  /\ op.opcode = "BRANCH" => ~BranchTaken(op, regfile[op.rs1], regfile[op.rs2])
         /\ op.opcode = "STORE" => AsWritten!Effective(op, regfile) >= ProgramEnd
<1>1. Front \in ProgramAddress /\ op = DecodedAt(memory, Front)
  BY DEF DecodedFromMemory
<1>2. /\ FrontState.at = Front /\ FrontState.x = regfile /\ FrontState.bytes = memory
  BY DEF FrontState, ProgramState
<1>3. InstructionOf(FrontState) = op
  BY <1>1, <1>2 DEF InstructionOf
<1>4. GoesOn(FrontState)
  BY <1>1 DEF FrontGoesOn
<1> QED  BY <1>2, <1>3, <1>4 DEF GoesOn

\* A branch that is executed is alone in flight, on the operands of the program.
LEMMA ExecutedNotTaken ==
  ASSUME FixedOrder, Inv, ReadyIffOperandsArrived, DataInv, FixedOrderInv, ChannelInv,
         StraightInv, FrontGoesOn, ExecuteBranch
  PROVE  execute_out'.cur = execute_out.cur /\ ~execute_out'.next.branch_taken
<1>1. PICK q \in RsSlot :
        /\ RsFirstReady(rs, "rs_branch", q)
        /\ execute_out' = [execute_out EXCEPT !.next =
             [instruction |-> 0, mem_access |-> FALSE, mem_write |-> FALSE,
              pc |-> rs[q].op.pc, branch_taken |-> BranchTaken(rs[q].op, rs[q].Vj, rs[q].Vk),
              branch_target |-> BranchTarget(rs[q].op, rs[q].Vj, rs[q].Vk)]]
  BY DEF ExecuteBranch
<1> DEFINE e == rs[q]
           op == e.op
           taken == BranchTaken(op, e.Vj, e.Vk)
           r == [instruction |-> 0, mem_access |-> FALSE, mem_write |-> FALSE,
                 pc |-> op.pc, branch_taken |-> taken,
                 branch_target |-> BranchTarget(op, e.Vj, e.Vk)]
<1>2. /\ e.busy /\ e.ready /\ e \in RsEntry /\ op \in Packets
      /\ op = rob.entries[e.rob_index].op /\ StationOf(op) = "rs_branch"
      /\ e.rob_index \in RobSlot /\ rob.entries[e.rob_index].busy
  BY <1>1, ReadySlot DEF AwaitsResult
<1>3. DecodedFromMemory(op)
  BY <1>2, InFlightFromMemory
<1>4. op.opcode = "BRANCH"
  <2>1. IsStraight(memory, op.pc) /\ op = DecodedAt(memory, op.pc)
    BY <1>3 DEF StraightInv, AsInMemory, IsStraightLine, DecodedFromMemory
  <2>2. op.opcode \notin {"JAL", "JALR"}
    BY <2>1 DEF IsStraight
  <2> QED  BY <1>2, <2>2 DEF StationOf
<1>5. e.rob_index = rob.head /\ rob.head \in RobWindow(rob) /\ rob \in RobType
  <2>1. e.rob_index \in RobWindow(rob)
    BY <1>2, WindowIsBusy DEF Inv, TypeOK, RobSound
  <2>2. Running("execute")
    BY DEF ExecuteBranch
  <2> QED  BY <2>1, <2>2, FoundAtExecute, ProcessorRunsInFixedOrder DEF Inv, TypeOK
<1>6. op.pc = Front
  BY <1>2, <1>5, HeadAtFront DEF StraightInv
<1>7. e.Vj = regfile[op.rs1] /\ e.Vk = regfile[op.rs2]
  <2>1. SlotValues(rob, regfile, e) /\ e.Qj = 0 /\ e.Qk = 0 /\ regfile[0] = 0
    BY <1>2 DEF DataInv, ReadyIffOperandsArrived
  <2>2. InstructionType(op.opcode) = "B_TYPE"
    BY <1>4 DEF InstructionType
  <2> HIDE DEF e, op
  <2>3. /\ (ReadsRs1(op) <=> op.rs1 # 0) /\ (ReadsRs2(op) <=> op.rs2 # 0)
    BY <2>2 DEF ReadsRs1, ReadsRs2
  <2>4. /\ IF op.rs1 # 0 THEN Delivered(rob, regfile, rob.head, op.rs1, e.Vj) ELSE e.Vj = 0
        /\ IF op.rs2 # 0 THEN Delivered(rob, regfile, rob.head, op.rs2, e.Vk) ELSE e.Vk = 0
    BY <1>5, <2>1, <2>3 DEF SlotValues, OperandValue, op
  <2> QED  BY <1>5, <2>1, <2>4, DeliveredToHead
<1>8. ~taken
  BY <1>3, <1>4, <1>6, <1>7, AtFront
<1> HIDE DEF taken
<1>9. ~r.branch_taken
  BY <1>8
<1>10. execute_out' = [execute_out EXCEPT !.next = r]
  BY <1>1 DEF taken
<1> HIDE DEF r
<1> QED  BY <1>9, <1>10 DEF Inv, TypeOK

LEMMA OthersKeepStraight ==
  ASSUME FixedOrder, Inv, ReadyIffOperandsArrived, DataInv, FixedOrderInv, EdgeInv,
         ChannelInv, StraightInv, FrontGoesOn, ExecutionUnitStep, Execute \/ Complete \/ CommitReturn
  PROVE  /\ StraightInv' /\ UNCHANGED <<regfile, memory>>
         /\ Front' = Front
<1>1. /\ HasRun("fetch")' <=> HasRun("fetch")
      /\ HasRun("clock")' <=> HasRun("clock")
      /\ HasRun("issue")' <=> HasRun("issue")
  <2>1. /\ HasRun("fetch")' <=> HasRun("fetch")
        /\ HasRun("clock")' <=> HasRun("clock")
    BY UnitStepOfEdge DEF Commit
  <2>2. \/ \E p \in {"execute", "complete", "commit"} : Running(p) /\ Return
        \/ StillRunning
    BY DEF Execute, ExecuteAlu, ExecuteMem, ExecuteBranch, ExecuteReturn, Complete,
           CommitReturn
  <2>3. ASSUME NEW p \in {"execute", "complete", "commit"}, Running(p), Return
        PROVE  HasRun("issue")' <=> HasRun("issue")
    <3>1. p \in Process /\ "issue" \in Process /\ p # "issue"
      BY DEF Process, EuProcess
    <3> QED  BY <2>3, <3>1, ReturnIs
  <2>4. CASE StillRunning
    BY <2>4 DEF StillRunning, kernelVars, HasRun
  <2> QED  BY <2>1, <2>2, <2>3, <2>4
<1>2. UNCHANGED <<pc, bp, fetch_out, decode_out, redirect, total_cycles, decode_in, reset>>
  BY UnitLeaves
<1>3. programOrder' = programOrder /\ UNCHANGED <<regfile, memory>>
  BY OthersAreInvisible DEF AsCoded!seqVars
<1>4. JustFetched' = JustFetched /\ AtDecode' = AtDecode /\ AtIssue' = AtIssue
  BY <1>1, <1>2 DEF JustFetched, AtDecode, AtIssue, One
<1>5. InStep'
  BY <1>1, <1>2, <1>3, <1>4 DEF StraightInv, InStep
<1>6. AsInMemory'
  BY <1>2, <1>3
  DEF StraightInv, AsInMemory, FetchedFromMemory, DecodedFromMemory, IsStraightLine
<1>7. NothingTaken'
  <2>1. CASE ExecuteBranch
    BY <1>2, <2>1, ExecutedNotTaken DEF StraightInv, NothingTaken, Untrained
  <2>2. CASE execute_out' = execute_out
    BY <1>2, <2>2 DEF StraightInv, NothingTaken, Untrained
  <2> QED  BY <2>1, <2>2 DEF Execute, ExecuteAlu, ExecuteMem, ExecuteReturn, Complete,
                             CommitReturn, signals
<1>8. InTime'
  <2>1. Edge' = Edge /\ FetchRuns' = FetchRuns
    BY <1>1, <1>2, TimeStands
  <2> QED  BY <1>2, <2>1 DEF StraightInv, InTime
<1>9. Front' = Front
  BY <1>2, <1>3, <1>4 DEF Front, Behind
<1> QED  BY <1>3, <1>5, <1>6, <1>7, <1>8, <1>9 DEF StraightInv

-----------------------------------------------------------------------------
(***************************************************************************)
(* What commits                                                            *)
(***************************************************************************)
\* Two memories that agree on the program hold the same program.
LEMMA SameProgram ==
  ASSUME NEW m, NEW n,
         \A a \in ProgramAddress : ReadInstruction(n, a) = ReadInstruction(m, a)
  PROVE  /\ \A a \in ProgramAddress : DecodedAt(n, a) = DecodedAt(m, a)
         /\ IsStraightLine(m) => IsStraightLine(n)
<1>1. \A a \in ProgramAddress : DecodedAt(n, a) = DecodedAt(m, a)
  BY DEF DecodedAt
<1>2. ASSUME NEW a \in ProgramAddress, IsStraight(m, a)
      PROVE  IsStraight(n, a)
  <2>1. DecodedAt(n, a) = DecodedAt(m, a) /\ ReadInstruction(n, a) = ReadInstruction(m, a)
    BY <1>1
  <2> QED  BY <1>2, <2>1 DEF IsStraight
<1> QED  BY <1>1, <1>2 DEF IsStraightLine

\* The instruction that commits is the oldest one, and the memory holds it.
LEMMA CommittedFromMemory ==
  ASSUME Inv, ChannelInv, StraightInv, CommitStore \/ CommitRegister
  PROVE  /\ LET op == rob.entries[rob.head].op IN
            /\ op \in Packets /\ op.pc = Front
            /\ DecodedFromMemory(op) /\ IsStraight(memory, op.pc)
         /\ HeadNamesNone
<1> DEFINE op == rob.entries[rob.head].op
<1>1. rob.head \in RobSlot /\ rob.entries[rob.head].busy /\ op \in Packets
  BY CommitIs
<1>2. DecodedFromMemory(op) /\ IsStraight(memory, op.pc)
  BY <1>1, InFlightFromMemory
  DEF DecodedFromMemory, StraightInv, AsInMemory, IsStraightLine
<1>3. op.pc = Front
  <2>1. rob.head \in RobWindow(rob)
    BY <1>1, WindowIsBusy DEF Inv, TypeOK, RobSound
  <2> QED  BY <2>1, HeadAtFront DEF StraightInv
<1>4. HeadNamesNone
  BY <1>2 DEF DecodedFromMemory, IsStraight, HeadNamesNone
<1> QED  BY <1>1, <1>2, <1>3, <1>4

\* No commit changes the program.
LEMMA CommitKeepsProgram ==
  ASSUME ProgramEnd < WORD, Inv, DataInv, ChannelInv, StraightInv, FrontGoesOn,
         CommitStore \/ CommitRegister
  PROVE  \A a \in ProgramAddress : ReadInstruction(memory', a) = ReadInstruction(memory, a)
<1> DEFINE e == rob.entries[rob.head]
           op == e.op
<1>1. CASE CommitRegister
  BY <1>1 DEF CommitRegister
<1>2. CASE CommitStore
  <2>1. /\ op.opcode = "STORE" /\ RobGetHeadEntry(rob) = e
        /\ memory' = WriteData(memory, e.mem_addr, e.mem_data, StoreSize(e.funct3))
    BY <1>2, CommitIs DEF CommitStore
  <2>2. op \in Packets /\ DecodedFromMemory(op) /\ op.pc = Front
    BY CommittedFromMemory
  <2>3. e.mem_addr = AsCoded!Effective(op, regfile)
    BY <2>1, HeadComputedSequentially
  <2>4. regfile \in [Reg -> Word] /\ memory \in Memory
    BY DEF Inv, TypeOK
  <2>5. StoreSize(e.funct3) \in {1, 2, 4}
    BY DEF StoreSize
  <2> HIDE DEF e
  <2>6. AsWritten!Effective(op, regfile) >= ProgramEnd
    BY <2>1, <2>2, AtFront
  <2>7. AsCoded!Effective(op, regfile) = (regfile[op.rs1] + op.imm) % WORD
    BY DEF AsCoded!Effective
  <2>8. AsWritten!Effective(op, regfile) = (regfile[op.rs1] + op.imm) % WORD
    BY DEF AsWritten!Effective
  <2>9. regfile[op.rs1] + op.imm \in Int
    <3>1. op.rs1 \in Reg /\ op.imm \in Int
      BY <2>2, TypesAssumption DEF DecodePacket
    <3>2. regfile[op.rs1] \in Int
      BY <2>4, <3>1, TypesAssumption DEF Word
    <3> QED  BY <3>1, <3>2
  <2>10. e.mem_addr >= ProgramEnd /\ e.mem_addr \in Int
    BY <2>3, <2>6, <2>7, <2>8, <2>9, TypesAssumption
  <2> QED  BY <2>1, <2>4, <2>5, <2>10, ProgramIsKept
<1> QED  BY <1>1, <1>2

\* What it does to the registers and the memory is what the program says.
LEMMA CommitAsWritten ==
  ASSUME HeadNamesNone, Inv, DataInv, CommitStore \/ CommitRegister
  PROVE  LET op == rob.entries[rob.head].op IN
         /\ programOrder # <<>> /\ programOrder[1] = op /\ programOrder' = Tail(programOrder)
         /\ regfile' = AsWritten!RegistersAfter(op, regfile, memory)
         /\ memory' \in AsWritten!MemoriesAfter(op, regfile, memory)
<1> DEFINE op == Head(programOrder)
<1>1. AsCoded!Retire
  BY CommitRetires
<1>2. /\ programOrder # <<>> /\ programOrder' = Tail(programOrder)
      /\ regfile' = AsCoded!RegistersAfter(op, regfile, memory)
      /\ memory' \in AsCoded!MemoriesAfter(op, regfile, memory)
  BY <1>1 DEF AsCoded!Retire
<1>3. op = rob.entries[rob.head].op /\ op = programOrder[1]
  <2>1. rob \in RobType /\ RobRing(rob) /\ ~RobIsEmpty(rob)
    BY CommitIs DEF Inv, TypeOK, RobSound
  <2>2. rob.count \in Nat /\ rob.count > 0 /\ rob.head \in RobSlot
    BY <2>1, RobSizeAssumption DEF RobType, RobIsEmpty
  <2>3. RobSlotAt(rob, 0) = rob.head
    BY <2>2, RobSizeAssumption DEF RobSlotAt, RobSlot
  <2>4. programOrder[1] = rob.entries[RobSlotAt(rob, 0)].op
    BY <2>2 DEF programOrder
  <2>5. programOrder \in Seq(Packets)
    BY ProgramOrderIs
  <2> QED  BY <1>2, <2>3, <2>4, <2>5
<1> HIDE DEF op
<1>4. AsWritten!Value(op, regfile, memory) = AsCoded!Value(op, regfile, memory)
  BY DEF AsWritten!Value, AsCoded!Value, AsWritten!Effective, AsCoded!Effective,
         AsWritten!LoadedValue, AsCoded!LoadedValue, AsWritten!LoadSize, AsCoded!LoadSize,
         AsWritten!ReadData, AsCoded!ReadData, AsWritten!OutOfBounds, AsCoded!OutOfBounds,
         AsWritten!LB, AsWritten!LH, AsWritten!LW, AsWritten!LBU, AsWritten!LHU,
         AsCoded!LB, AsCoded!LH, AsCoded!LW, AsCoded!LBU, AsCoded!LHU
<1>5. AsWritten!RegistersAfter(op, regfile, memory) = AsCoded!RegistersAfter(op, regfile, memory)
  BY <1>4 DEF AsWritten!RegistersAfter, AsCoded!RegistersAfter
<1>6. \A addr, data, size :
        AsWritten!WriteData(memory, addr, data, size) = AsCoded!WriteData(memory, addr, data, size)
  BY DEF AsWritten!WriteData, AsCoded!WriteData, AsWritten!OutOfBounds, AsCoded!OutOfBounds,
         AsWritten!ByteOf, AsCoded!ByteOf, AsWritten!MemAddr, AsCoded!MemAddr
<1>7. AsWritten!MemoriesAfter(op, regfile, memory) = AsCoded!MemoriesAfter(op, regfile, memory)
  BY <1>6 DEF AsWritten!MemoriesAfter, AsCoded!MemoriesAfter, AsWritten!Effective,
              AsCoded!Effective
<1> QED  BY <1>2, <1>3, <1>5, <1>7

LEMMA CommitKeepsStraight ==
  ASSUME ProgramEnd < WORD, Inv, DataInv, EdgeInv, ChannelInv, StraightInv, FrontGoesOn,
         ExecutionUnitStep, CommitStore \/ CommitRegister
  PROVE  /\ StraightInv' /\ Front' = Front + 4
         /\ LET op == rob.entries[rob.head].op IN
            /\ op = DecodedAt(memory, Front)
            /\ regfile' = AsWritten!RegistersAfter(op, regfile, memory)
            /\ memory' \in AsWritten!MemoriesAfter(op, regfile, memory)
            /\ Front \in ProgramAddress /\ op.pc = Front
<1> DEFINE op == rob.entries[rob.head].op
           n == Len(programOrder)
<1>1. /\ HasRun("fetch")' <=> HasRun("fetch")
      /\ HasRun("clock")' <=> HasRun("clock")
      /\ HasRun("issue")' <=> HasRun("issue")
  <2>1. StillRunning
    BY DEF CommitStore, CommitRegister
  <2> QED  BY <2>1 DEF StillRunning, kernelVars, HasRun
<1>2. /\ UNCHANGED <<pc, bp, fetch_out, decode_out, redirect, total_cycles, decode_in, reset>>
      /\ UNCHANGED execute_out
  BY UnitLeaves DEF CommitStore, CommitRegister, signals
<1>3. /\ programOrder # <<>> /\ programOrder[1] = op /\ programOrder' = Tail(programOrder)
      /\ regfile' = AsWritten!RegistersAfter(op, regfile, memory)
      /\ memory' \in AsWritten!MemoriesAfter(op, regfile, memory)
  BY CommittedFromMemory, CommitAsWritten
<1>4. programOrder \in Seq(Packets)
  BY ProgramOrderIs
<1>5. /\ n \in Nat /\ n >= 1 /\ Len(programOrder') = n - 1
      /\ \A k \in 1 .. n - 1 : programOrder'[k] = programOrder[k + 1]
  BY <1>3, <1>4
<1>6. JustFetched' = JustFetched /\ AtDecode' = AtDecode /\ AtIssue' = AtIssue
  BY <1>1, <1>2 DEF JustFetched, AtDecode, AtIssue, One
<1>7. JustFetched \in Int /\ AtDecode \in Int /\ AtIssue \in Int /\ pc \in Int
  BY BehindIs
<1>8. \A k \in 1 .. n : programOrder[k].pc =
        pc - 4 * (JustFetched + AtDecode + AtIssue) - 4 * (n - k + 1)
  BY DEF StraightInv, InStep
<1> HIDE DEF op, n
<1>9. op.pc = Front
  BY CommittedFromMemory DEF op
<1>10. Front' = Front + 4
  <2>1. Len(programOrder)' = n - 1
    BY <1>5
  <2> QED  BY <1>2, <1>5, <1>6, <1>7, <2>1 DEF Front, Behind, n
<1>11. op \in Packets /\ DecodedFromMemory(op)
  BY CommittedFromMemory DEF op
<1>12. InStep'
  <2>1. \A k \in 1 .. n - 1 : programOrder'[k].pc =
          pc - 4 * (JustFetched + AtDecode + AtIssue) - 4 * ((n - 1) - k + 1)
    <3> SUFFICES ASSUME NEW k \in 1 .. n - 1
                 PROVE  programOrder'[k].pc =
                   pc - 4 * (JustFetched + AtDecode + AtIssue) - 4 * ((n - 1) - k + 1)
      OBVIOUS
    <3>1. k + 1 \in 1 .. n /\ programOrder'[k] = programOrder[k + 1] /\ k \in Int
      BY <1>5
    <3>2. programOrder'[k].pc =
            pc - 4 * (JustFetched + AtDecode + AtIssue) - 4 * (n - (k + 1) + 1)
      BY <1>8, <3>1
    <3>3. n - (k + 1) + 1 = (n - 1) - k + 1
      BY <1>5, <3>1
    <3> QED  BY <3>2, <3>3
  <2> QED  BY <1>1, <1>2, <1>5, <1>6, <2>1 DEF StraightInv, InStep
<1>13. \A a \in ProgramAddress : ReadInstruction(memory', a) = ReadInstruction(memory, a)
  BY CommitKeepsProgram
<1>14. /\ \A a \in ProgramAddress : DecodedAt(memory', a) = DecodedAt(memory, a)
       /\ IsStraightLine(memory) => IsStraightLine(memory')
  BY <1>13, SameProgram
<1>15. IsStraightLine(memory)'
  BY <1>14 DEF StraightInv, AsInMemory, IsStraightLine, IsStraight
<1>16. \A k \in 1 .. n - 1 : LET p == programOrder'[k] IN
          p.pc \in ProgramAddress /\ p = DecodedAt(memory', p.pc)
  <2> SUFFICES ASSUME NEW k \in 1 .. n - 1
               PROVE  LET p == programOrder'[k] IN
                      p.pc \in ProgramAddress /\ p = DecodedAt(memory', p.pc)
    OBVIOUS
  <2>1. k + 1 \in 1 .. n /\ programOrder'[k] = programOrder[k + 1]
    BY <1>5
  <2>2. DecodedFromMemory(programOrder[k + 1])
    BY <2>1 DEF StraightInv, AsInMemory, n
  <2> QED  BY <1>14, <2>1, <2>2 DEF DecodedFromMemory
<1>17. /\ fetch_out'.cur # NoFetch => FetchedFromMemory(fetch_out.cur)'
       /\ fetch_out'.next # NoFetch => FetchedFromMemory(fetch_out.next)'
  BY <1>2, <1>13 DEF StraightInv, AsInMemory, FetchedFromMemory
<1>18. /\ decode_in' # NoPacket => DecodedFromMemory(decode_in)'
       /\ decode_out' # NoPacket => DecodedFromMemory(decode_out)'
  BY <1>2, <1>14 DEF StraightInv, AsInMemory, DecodedFromMemory
<1>19. AsInMemory'
  BY <1>5, <1>15, <1>16, <1>17, <1>18 DEF AsInMemory, DecodedFromMemory
<1>20. NothingTaken' /\ InTime'
  <2>1. Edge' = Edge /\ FetchRuns' = FetchRuns
    BY <1>1, <1>2, TimeStands
  <2>2. InTime'
    BY <1>2, <2>1 DEF StraightInv, InTime
  <2> QED  BY <1>2, <2>2 DEF StraightInv, NothingTaken, Untrained
<1> QED  BY <1>3, <1>9, <1>10, <1>11, <1>12, <1>19, <1>20
         DEF StraightInv, DecodedFromMemory, op

\* A commit is a step of the program.
LEMMA CommitIsExecution ==
  ASSUME ProgramEnd < WORD, Inv, DataInv, EdgeInv, ChannelInv, StraightInv, FrontGoesOn,
         ExecutionUnitStep, CommitStore \/ CommitRegister, oldest = Front, oldest' = Front'
  PROVE  AsWritten!Execute
<1> DEFINE op == rob.entries[rob.head].op
<1>1. /\ op = DecodedAt(memory, oldest) /\ oldest' = oldest + 4 /\ op.pc = oldest
      /\ regfile' = AsWritten!RegistersAfter(op, regfile, memory)
      /\ memory' \in AsWritten!MemoriesAfter(op, regfile, memory)
      /\ oldest \in ProgramAddress
  BY CommitKeepsStraight
<1>2. op \in Packets /\ DecodedFromMemory(op) /\ IsStraight(memory, op.pc)
  BY CommittedFromMemory
<1> HIDE DEF op
<1>3. op.opcode \notin {"JAL", "JALR"}
  BY <1>1, <1>2 DEF IsStraight
<1>4. (oldest + 4) % WORD = oldest + 4
  BY <1>1, ProgramAddresses
<1>5. CASE op.opcode = "BRANCH"
  <2>2. ~BranchTaken(op, regfile[op.rs1], regfile[op.rs2])
    BY <1>1, <1>2, <1>5, AtFront
  <2>3. BranchTarget(op, regfile[op.rs1], regfile[op.rs2]) = (oldest + 4) % WORD
    BY <1>1, <1>5, <2>2 DEF BranchTarget
  <2> QED  BY <1>1, <1>4, <1>5, <2>3 DEF AsWritten!Execute
<1>6. CASE op.opcode # "BRANCH"
  BY <1>1, <1>3, <1>4, <1>6 DEF AsWritten!Execute
<1> QED  BY <1>5, <1>6

LEMMA EdgeKeepsStraight ==
  ASSUME Inv, EdgeInv, ChannelInv, StraightInv, ProcessorEdge
  PROVE  StraightInv' /\ Front' = Front /\ UNCHANGED <<regfile, memory>>
<1>1. /\ HasRun("fetch") /\ HasRun("issue") /\ HasRun("clock") /\ HasRun("decode")
      /\ ~HasRun("fetch")' /\ ~HasRun("issue")' /\ ~HasRun("clock")'
  BY NextEdgeIs DEF ProcessorEdge, Process, EuProcess
<1>2. /\ fetch_out' = [cur |-> fetch_out.next, next |-> fetch_out.next]
      /\ decode_in' = decode_out /\ decode_out' = decode_out
      /\ redirect' = [redirect EXCEPT !.cur = redirect.next]
      /\ reset' \in {FALSE, reset}
      /\ UNCHANGED <<pc, bp, total_cycles>>
  BY EdgeIs
<1>3. /\ UNCHANGED <<rob, regfile, memory>>
      /\ execute_out' = [cur |-> execute_out.next, next |-> execute_out.next]
      /\ reset' => total_cycles <= RESET_EDGES
  BY DEF ProcessorEdge, euVars, SameExecutePacket
<1>4. programOrder' = programOrder
  BY <1>3 DEF programOrder
<1>5. /\ decode_out # NoPacket <=> fetch_out.cur # NoFetch
      /\ fetch_out.cur # NoFetch => decode_out.pc = fetch_out.cur.pc
  BY <1>1, DecodedPacket DEF ChannelInv, DecodeFollows, ProcessorTypeOK
<1>6. JustFetched' = 0 /\ AtDecode' = JustFetched /\ AtIssue' = AtDecode /\ AtIssue = 0
  BY <1>1, <1>2, <1>5 DEF JustFetched, AtDecode, AtIssue, One
<1>7. /\ JustFetched \in Int /\ AtDecode \in Int /\ Len(programOrder) \in Nat /\ pc \in Int
  BY BehindIs
<1>8. Front' = Front
  BY <1>2, <1>4, <1>6, <1>7 DEF Front, Behind
<1>9. InStep'
  <2>1. fetch_out'.cur # NoFetch => fetch_out'.cur.pc = pc' - 4 * 0 - 4
    BY <1>1, <1>2, <1>7 DEF StraightInv, InStep
  <2>2. decode_in' # NoPacket => decode_in'.pc = pc' - 4 * (0 + JustFetched) - 4
    BY <1>2, <1>5, <1>7 DEF StraightInv, InStep
  <2>3. \A k \in 1 .. Len(programOrder) : programOrder[k].pc =
          pc' - 4 * (0 + JustFetched + AtDecode) - 4 * (Len(programOrder) - k + 1)
    <3> SUFFICES ASSUME NEW k \in 1 .. Len(programOrder)
                 PROVE  programOrder[k].pc = pc' - 4 * (0 + JustFetched + AtDecode)
                                               - 4 * (Len(programOrder) - k + 1)
      OBVIOUS
    <3>1. programOrder[k].pc = pc - 4 * (JustFetched + AtDecode + 0)
                                 - 4 * (Len(programOrder) - k + 1)
      BY <1>6 DEF StraightInv, InStep
    <3> QED  BY <1>2, <1>7, <3>1
  <2> QED  BY <1>1, <1>4, <1>6, <2>1, <2>2, <2>3 DEF InStep
<1>10. AsInMemory'
  BY <1>2, <1>3, <1>4
  DEF StraightInv, AsInMemory, FetchedFromMemory, DecodedFromMemory, IsStraightLine
<1>11. NothingTaken'
  <2>1. ~redirect'.cur.taken /\ ~redirect'.next.taken
    BY <1>2 DEF StraightInv, NothingTaken, ChannelInv, ProcessorTypeOK
  <2> QED  BY <1>2, <1>3, <2>1 DEF StraightInv, NothingTaken, Untrained
<1>12. /\ Edge = total_cycles - 1 /\ Edge' = total_cycles
       /\ FetchRuns = total_cycles /\ FetchRuns' = total_cycles /\ total_cycles \in Int
  <2>1. /\ One(HasRun("clock")) = 1 /\ One(HasRun("fetch")) = 1
        /\ One(HasRun("clock"))' = 0 /\ One(HasRun("fetch"))' = 0
    BY <1>1 DEF One
  <2>2. total_cycles \in Int /\ total_cycles' = total_cycles
    BY <1>2 DEF ChannelInv, ProcessorTypeOK
  <2> QED  BY <2>1, <2>2 DEF Edge, FetchRuns
<1>13. InTime'
  <2>1. reset' => /\ pc' = 0 /\ decode_in' = NoPacket /\ decode_out' = NoPacket
                  /\ Edge' <= RESET_EDGES
    BY <1>2, <1>3, <1>12 DEF StraightInv, InTime
  <2>2. \E j \in Nat : pc' = 4 * j /\ j <= FetchRuns' /\ FetchRuns' <= j + RESET_EDGES + 1
    BY <1>2, <1>12 DEF StraightInv, InTime
  <2> QED  BY <2>1, <2>2 DEF InTime
<1> QED  BY <1>3, <1>8, <1>9, <1>10, <1>11, <1>13 DEF StraightInv

-----------------------------------------------------------------------------
(***************************************************************************)
(* The oldest instruction under way is where Front says.                   *)
(***************************************************************************)
First(s, otherwise) == IF s = <<>> THEN otherwise ELSE Head(s).pc

LEMMA FirstOfBoth ==
  ASSUME NEW s \in Seq(Packets), NEW t \in Seq(Packets), NEW d
  PROVE  First(s \o t, d) = First(s, First(t, d)) /\ s \o t \in Seq(Packets)
<1>1. CASE s = <<>>
  <2>1. s \o t = t
    BY <1>1
  <2> QED  BY <1>1, <2>1 DEF First
<1>2. CASE s # <<>>
  BY <1>2, HeadOfConcat, ConcatProperties DEF First
<1> QED  BY <1>1, <1>2

LEMMA OldestIs ==
  ASSUME Inv, ChannelInv, InStep
  PROVE  oldest = Front
<1> DEFINE n == Len(programOrder)
<1>1. /\ UnderWay = ((programOrder \o issueHolds) \o decodeHolds) \o fetchHolds
      /\ programOrder \in Seq(Packets) /\ issueHolds \in Seq(Packets)
      /\ decodeHolds \in Seq(Packets) /\ fetchHolds \in Seq(Packets)
  BY UnderWayIs
<1>2. /\ JustFetched \in Int /\ AtDecode \in Int /\ AtIssue \in Int /\ n \in Nat /\ pc \in Int
  BY BehindIs
<1>3. First(fetchHolds, pc) = pc - 4 * JustFetched
  <2>1. \A packet : Decoded(packet).pc = packet.pc
    BY DEF Decoded
  <2> QED  BY <1>2, <2>1 DEF First, fetchHolds, HeldUndecoded, JustFetched, One, InStep
<1>4. First(decodeHolds, First(fetchHolds, pc)) = pc - 4 * (JustFetched + AtDecode)
  <2>1. \A packet : Decoded(packet).pc = packet.pc
    BY DEF Decoded
  <2>2. fetch_out.cur # NoFetch => fetch_out.cur.pc = pc - 4 * JustFetched - 4
    BY DEF InStep
  <2> QED  BY <1>2, <1>3, <2>1, <2>2 DEF First, decodeHolds, HeldUndecoded, AtDecode, One
<1>5. First(issueHolds, First(decodeHolds, First(fetchHolds, pc))) =
        pc - 4 * (JustFetched + AtDecode + AtIssue)
  <2>1. ~HasRun("issue") /\ decode_in # NoPacket =>
          decode_in.pc = pc - 4 * (JustFetched + AtDecode) - 4
    BY DEF InStep
  <2> QED  BY <1>2, <1>4, <2>1 DEF First, issueHolds, Held, AtIssue, One
<1>6. First(programOrder, First(issueHolds, First(decodeHolds, First(fetchHolds, pc)))) =
        pc - 4 * (JustFetched + AtDecode + AtIssue + n)
  <2>1. CASE programOrder = <<>>
    <3>1. n = 0
      BY <2>1
    <3> QED  BY <1>2, <1>5, <2>1, <3>1 DEF First
  <2>2. CASE programOrder # <<>>
    <3>1. n >= 1 /\ Head(programOrder) = programOrder[1]
      BY <1>1, <2>2
    <3>2. \A k \in 1 .. n :
            programOrder[k].pc =
              pc - 4 * (JustFetched + AtDecode + AtIssue) - 4 * (n - k + 1)
      BY DEF InStep
    <3>3. Head(programOrder).pc = programOrder[1].pc /\ 1 \in 1 .. n
      BY <1>2, <3>1
    <3> HIDE DEF n
    <3>4. programOrder[1].pc =
            pc - 4 * (JustFetched + AtDecode + AtIssue) - 4 * (n - 1 + 1)
      BY <3>2, <3>3
    <3>5. programOrder[1].pc = pc - 4 * (JustFetched + AtDecode + AtIssue + n)
      BY <1>2, <3>4
    <3> QED  BY <2>2, <3>3, <3>5 DEF First
  <2> QED  BY <2>1, <2>2
<1>7. First(UnderWay, pc) =
        First(programOrder, First(issueHolds, First(decodeHolds, First(fetchHolds, pc))))
  <2> DEFINE s1 == programOrder \o issueHolds
             s2 == s1 \o decodeHolds
  <2>1. s1 \in Seq(Packets) /\ \A d : First(s1, d) = First(programOrder, First(issueHolds, d))
    BY <1>1, FirstOfBoth
  <2> HIDE DEF s1
  <2>2. s2 \in Seq(Packets) /\ \A d : First(s2, d) = First(s1, First(decodeHolds, d))
    BY <1>1, <2>1, FirstOfBoth
  <2>3. UnderWay = s2 \o fetchHolds
    BY <1>1 DEF s1
  <2> HIDE DEF s2
  <2>4. First(UnderWay, pc) = First(s2, First(fetchHolds, pc))
    BY <1>1, <2>2, <2>3, FirstOfBoth
  <2> QED  BY <2>1, <2>2, <2>4
<1> QED  BY <1>6, <1>7 DEF oldest, First, Front, Behind, n

-----------------------------------------------------------------------------
(***************************************************************************)
(* The theorems                                                            *)
(***************************************************************************)
StraightHypotheses(reached) ==
  FixedOrder /\ ROB_SIZE >= 2 /\ StraightLinePrograms(reached)

PipelineInv(reached) ==
  /\ ProcessorInv /\ UnitInv /\ FixedOrderInv /\ DataInv /\ StraightInv
  /\ FrontState \in reached

\* A commit leads to a state that the program's own run reaches.
LEMMA CommitReaches ==
  ASSUME NEW reached, StraightLinePrograms(reached), FrontState \in reached,
         Front \in ProgramAddress, Front' = Front + 4,
         regfile' = AsWritten!RegistersAfter(DecodedAt(memory, Front), regfile, memory),
         memory' \in AsWritten!MemoriesAfter(DecodedAt(memory, Front), regfile, memory)
  PROVE  FrontState' \in reached
<1>1. /\ FrontState.at = Front /\ FrontState.x = regfile /\ FrontState.bytes = memory
  BY DEF FrontState, ProgramState
<1>2. InstructionOf(FrontState) = DecodedAt(memory, Front)
  BY <1>1 DEF InstructionOf
<1>3. FrontState' = ProgramState(Front + 4,
        AsWritten!RegistersAfter(DecodedAt(memory, Front), regfile, memory), memory')
  BY DEF FrontState
<1>4. FrontState' \in StatesAfter(FrontState)
  BY <1>1, <1>2, <1>3 DEF StatesAfter
<1>5. StatesAfter(FrontState) \subseteq reached
  BY <1>1 DEF StraightLinePrograms
<1> QED  BY <1>4, <1>5

LEMMA PipelineStep ==
  ASSUME NEW reached, StraightHypotheses(reached), PipelineInv(reached),
         [ProcessorNext]_processorVars
  PROVE  /\ PipelineInv(reached)'
         /\ \/ Front' = Front /\ UNCHANGED <<regfile, memory>>
            \/ ExecutionUnitStep /\ (CommitStore \/ CommitRegister)
<1>2. ProgramEnd < WORD
  BY DEF StraightHypotheses, StraightLinePrograms
<1>3. /\ FixedOrder /\ ROB_SIZE >= 2
      /\ ProcessorInv /\ Inv /\ EdgeInv /\ ChannelInv /\ ReadyIffOperandsArrived
      /\ FixedOrderInv /\ DataInv /\ StraightInv
      /\ FrontState \in reached /\ FrontGoesOn
  BY DEF PipelineInv, StraightHypotheses, StraightLinePrograms, ProcessorInv, UnitInv,
         FrontGoesOn, FrontState, ProgramState
<1>1. ProcessorInv' /\ UnitInv' /\ FixedOrderInv' /\ DataInv'
  <2>1. decode_out \in Packets \union {NoPacket}
    BY <1>3 DEF ChannelInv, ProcessorTypeOK
  <2>2. CommitStore \/ CommitRegister => HeadNamesNone
    BY <1>3, CommittedFromMemory
  <2> QED  BY <1>3, <2>1, <2>2, ProcessorInvStep, UnitInvOfStep, FixedOrderOfStep, DataOfStep
           DEF PipelineInv
<1> SUFFICES StraightInv' /\ FrontState' \in reached
             /\ \/ Front' = Front /\ UNCHANGED <<regfile, memory>>
                \/ ExecutionUnitStep /\ (CommitStore \/ CommitRegister)
  BY <1>1 DEF PipelineInv
<1>0. Front' = Front /\ UNCHANGED <<regfile, memory>> => FrontState' \in reached
  BY <1>3 DEF FrontState
<1>4. CASE FetchReset
  BY <1>0, <1>3, <1>4, FetchResetKeepsStraight
<1>5. CASE FetchInstruction
  BY <1>0, <1>2, <1>3, <1>5, FetchKeepsStraight
<1>6. CASE Decode
  BY <1>0, <1>3, <1>6, DecodeKeepsStraight
<1>7. CASE ClockProc
  BY <1>0, <1>3, <1>7, ClockKeepsStraight
<1>8. CASE ExecutionUnitStep /\ Issue
  BY <1>0, <1>3, <1>8, IssueKeepsStraight
<1>9. CASE ExecutionUnitStep /\ (Execute \/ Complete \/ CommitReturn)
  BY <1>0, <1>3, <1>9, OthersKeepStraight
<1>10. CASE ExecutionUnitStep /\ (CommitStore \/ CommitRegister)
  <2>1. StraightLinePrograms(reached)
    BY DEF StraightHypotheses
  <2> QED  BY <1>2, <1>3, <1>10, <2>1, CommitKeepsStraight, CommitReaches
<1>11. CASE ProcessorEdge
  BY <1>0, <1>3, <1>11, EdgeKeepsStraight
<1>12. CASE UNCHANGED processorVars
  <2>1. /\ UNCHANGED <<pc, bp, fetch_out, decode_out, redirect, total_cycles, decode_in,
                       reset, execute_out, rob, regfile, memory, pending>>
    BY <1>12 DEF processorVars, vars, euVars, signals, kernelVars, frontEnd, statistics
  <2>2. /\ HasRun("fetch")' <=> HasRun("fetch")
        /\ HasRun("clock")' <=> HasRun("clock")
        /\ HasRun("issue")' <=> HasRun("issue")
    BY <2>1 DEF HasRun
  <2>3. /\ JustFetched' = JustFetched /\ AtDecode' = AtDecode /\ AtIssue' = AtIssue
        /\ programOrder' = programOrder /\ Edge' = Edge /\ FetchRuns' = FetchRuns
    BY <2>1, <2>2, TimeStands DEF JustFetched, AtDecode, AtIssue, One, programOrder
  <2>4. InStep'
    BY <1>3, <2>1, <2>2, <2>3 DEF StraightInv, InStep
  <2>5. AsInMemory'
    BY <1>3, <2>1, <2>3
    DEF StraightInv, AsInMemory, FetchedFromMemory, DecodedFromMemory, IsStraightLine
  <2>6. NothingTaken' /\ InTime'
    BY <1>3, <2>1, <2>3 DEF StraightInv, NothingTaken, Untrained, InTime
  <2> QED  BY <1>0, <2>1, <2>3, <2>4, <2>5, <2>6 DEF StraightInv, Front, Behind
<1>13. ExecutionUnitStep => Issue \/ Execute \/ Complete \/ Commit
  BY DEF ExecutionUnitStep
<1> QED
  BY <1>4, <1>5, <1>6, <1>7, <1>8, <1>9, <1>10, <1>11, <1>12, <1>13
  DEF ProcessorNext, Commit

LEMMA PipelineInit ==
  ASSUME NEW reached, StraightHypotheses(reached), ProcessorInit
  PROVE  PipelineInv(reached) /\ Front = 0
<1>1. StraightInv /\ Front = 0 /\ FrontState \in reached
  BY InitiallyStraight DEF StraightHypotheses
<1>2. ProcessorInv /\ UnitInv /\ FixedOrderInv /\ DataInv
  BY ProcessorInvInit, UnitInvOfInit, FixedOrderInit, ProcessorRunsInFixedOrder, DataInit
  DEF ProcessorInit, StraightHypotheses
<1> QED  BY <1>1, <1>2 DEF PipelineInv

LEMMA PipelineInvHolds ==
  ASSUME NEW reached, StraightHypotheses(reached)
  PROVE  ProcessorSpec => []PipelineInv(reached)
<1>1. ProcessorInit => PipelineInv(reached)
  BY PipelineInit
<1>2. PipelineInv(reached) /\ [ProcessorNext]_processorVars => PipelineInv(reached)'
  BY PipelineStep
<1> QED  BY <1>1, <1>2, PTL DEF ProcessorSpec

\* A straight-line program is executed as it is written: instruction by
\* instruction, each at the address after the last, the registers and the memory
\* change as the instruction set says, and nothing else changes them.
THEOREM ProgramRunsAsWritten ==
  ASSUME FixedOrder, ROB_SIZE >= 2, NEW reached, StraightLinePrograms(reached)
  PROVE  ProcessorSpec => RunsTheProgram
<1>1. StraightHypotheses(reached)
  BY DEF StraightHypotheses
<1>2. PipelineInv(reached) => oldest = Front
  BY OldestIs DEF PipelineInv, ProcessorInv, StraightInv
<1>3. ProcessorInit => AsWritten!Start
  <2> SUFFICES ASSUME ProcessorInit PROVE AsWritten!Start
    OBVIOUS
  <2>1. oldest = 0
    BY <1>1, <1>2, PipelineInit
  <2> QED  BY <2>1 DEF AsWritten!Start, ProcessorInit, Init, AsWritten!Reg, Reg
<1>4. PipelineInv(reached) /\ [ProcessorNext]_processorVars /\ oldest = Front
        /\ (oldest = Front)' => [AsWritten!Execute]_(AsWritten!programVars)
  <2> SUFFICES ASSUME PipelineInv(reached), [ProcessorNext]_processorVars,
                      oldest = Front, (oldest = Front)'
               PROVE  [AsWritten!Execute]_(AsWritten!programVars)
    OBVIOUS
  <2>1. CASE Front' = Front /\ UNCHANGED <<regfile, memory>>
    BY <2>1 DEF AsWritten!programVars
  <2>2. CASE ExecutionUnitStep /\ (CommitStore \/ CommitRegister)
    <3>1. FrontGoesOn
      BY <1>1 DEF PipelineInv, StraightHypotheses, StraightLinePrograms, FrontGoesOn,
                  FrontState, ProgramState
    <3> QED  BY <1>1, <2>2, <3>1, CommitIsExecution
             DEF PipelineInv, ProcessorInv, StraightHypotheses, StraightLinePrograms
  <2> QED  BY <1>1, <2>1, <2>2, PipelineStep
<1> QED  BY <1>1, PipelineInvHolds, <1>2, <1>3, <1>4, PTL
         DEF ProcessorSpec, RunsTheProgram, AsWritten!Run

\* And it keeps pace with the clock: whatever the instructions wait for, all but
\* the last four fetched have taken effect when an edge ends, and fetch has not
\* missed an edge since reset.
THEOREM PaceIsKept ==
  ASSUME FixedOrder, ROB_SIZE >= 2, NEW reached, StraightLinePrograms(reached)
  PROVE  ProcessorSpec => []KeepsPace
<1>1. StraightHypotheses(reached)
  BY DEF StraightHypotheses
<1>2. PipelineInv(reached) => KeepsPace
  <2> SUFFICES ASSUME PipelineInv(reached), pending = <<>>
               PROVE  oldest >= 4 * (total_cycles - RESET_EDGES - 1 - 4)
    BY DEF KeepsPace
  <2>1. Inv /\ ChannelInv /\ StraightInv /\ FixedOrderInv
    BY DEF PipelineInv, ProcessorInv
  <2>2. HasRun("fetch") /\ HasRun("issue") /\ HasRun("clock")
    BY DEF HasRun
  <2>3. oldest = Front
    BY <2>1, OldestIs DEF StraightInv
  <2>4. /\ JustFetched \in Int /\ JustFetched <= 1
        /\ AtDecode \in Int /\ AtDecode <= 1
        /\ AtIssue = 0
    BY <2>2 DEF JustFetched, AtDecode, AtIssue, One
  <2>5. Len(programOrder) \in Nat /\ Len(programOrder) <= 2
    <3>1. Len(programOrder) = rob.count /\ rob.count \in Nat
      BY <2>1, ProgramOrderIs DEF Inv, TypeOK, RobType
    <3>2. rob.count <= 2
      BY <2>1, <3>1 DEF FixedOrderInv, FewInFlight
    <3> QED  BY <3>1, <3>2
  <2>6. FetchRuns = total_cycles /\ total_cycles \in Int
    <3>1. One(HasRun("fetch")) = 1 /\ One(HasRun("clock")) = 1
      BY <2>2 DEF One
    <3> QED  BY <2>1, <3>1 DEF FetchRuns, Edge, ChannelInv, ProcessorTypeOK
  <2>7. PICK j \in Nat : pc = 4 * j /\ FetchRuns <= j + RESET_EDGES + 1
    BY <2>1 DEF StraightInv, InTime
  <2>8. Behind <= 4 /\ Behind \in Int
    <3> DEFINE n == Len(programOrder)
    <3>1. Behind = JustFetched + AtDecode + AtIssue + n
      BY DEF Behind
    <3>2. n \in Int /\ n <= 2
      BY <2>5
    <3> HIDE DEF n
    <3> QED  BY <2>4, <3>1, <3>2
  <2> HIDE DEF Behind
  <2>9. Front >= 4 * j - 16 /\ Front \in Int
    BY <2>7, <2>8 DEF Front
  <2> QED  BY <2>3, <2>6, <2>7, <2>9, ProcessorAssumption
<1> QED  BY <1>1, PipelineInvHolds, <1>2, PTL

=============================================================================
