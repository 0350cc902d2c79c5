------------------------- MODULE ProcessorProperties -------------------------
(***************************************************************************)
(* What the whole processor does for a program, and what its statistics    *)
(* say.                                                                    *)
(***************************************************************************)
EXTENDS Processor, ExecutionUnitProperties, FiniteSets

\* Type invariant of what the processor adds to the execution unit.
ProcessorTypeOK ==
  /\ pc \in Word
  /\ fetch_out \in [cur : FetchPacket \union {NoFetch}, next : FetchPacket \union {NoFetch}]
  /\ decode_out \in Packets \union {NoPacket}
  /\ redirect \in [cur : [taken : BOOLEAN, target : Word],
                   next : [taken : BOOLEAN, target : Word]]
  /\ total_cycles \in 0 .. SIMULATION_EDGES + 1

HasRun(process) == ~ \E k \in DOMAIN pending : pending[k] = process

-----------------------------------------------------------------------------
(***************************************************************************)
(* The instructions under way, oldest first.  Within an edge, what a stage *)
(* still holds depends on whether it has run.                              *)
(***************************************************************************)
Held(packet) == IF packet = NoPacket THEN <<>> ELSE <<packet>>
HeldUndecoded(packet) == IF packet = NoFetch THEN <<>> ELSE <<Decoded(packet)>>

UnderWay ==
  programOrder
  \o (IF HasRun("issue") THEN <<>> ELSE Held(decode_in))
  \o (IF HasRun("decode") THEN Held(decode_out) ELSE HeldUndecoded(fetch_out.cur))
  \o (IF HasRun("fetch") THEN HeldUndecoded(fetch_out.next) ELSE <<>>)

oldest == IF UnderWay = <<>> THEN pc ELSE Head(UnderWay).pc

DecodedAt(bytes, address) ==
  Decoded([instruction |-> ReadInstruction(bytes, address), pc |-> address])

(***************************************************************************)
(* The channels, the stations and the reorder buffer are one queue.        *)
(* Whatever the program does, jumps and their wrong paths included: what   *)
(* is fetched takes effect, once, in the order it was fetched, and on the  *)
(* registers and the memory that what was fetched before it left behind.   *)
(***************************************************************************)
AsFetched == INSTANCE FetchMachine
  WITH AluResult <- ExecuteAluOp, StoreSizes <- SizesAsCoded,
       InitialBytes <- InitialMemories, InstructionAt <- DecodedAt,
       window <- UnderWay, x <- regfile, bytes <- memory

FetchedTakesEffect == AsFetched!InOrder

AsWritten == INSTANCE ProgramMachine
  WITH AluResult <- ExecuteAluOp, StoreSizes <- SizesAsCoded,
       InitialBytes <- InitialMemories, InstructionAt <- DecodedAt,
       Successor <- BranchTarget,
       at <- oldest, x <- regfile, bytes <- memory

(***************************************************************************)
(* The processor executes the program in its memory: the registers and the *)
(* memory go through the states that executing it one instruction after    *)
(* the other gives, whatever the pipeline does in between ("ensures that   *)
(* instructions commit in program order", README of the simulator).        *)
(***************************************************************************)
RunsTheProgram == AsWritten!Run

(***************************************************************************)
(* Without taken branches the processor keeps pace with its clock: at each *)
(* edge after the reset an instruction enters, and when the edge ends all  *)
(* but the last four have taken effect, whatever they wait for on the way. *)
(***************************************************************************)
KeepsPace == pending = <<>> =>
  oldest >= 4 * (total_cycles - RESET_EDGES - 1 - 4)

(***************************************************************************)
(* The programs these two are about.  In the memory there are no jumps     *)
(* where fetch gets within the simulation, no branches whose bits name a   *)
(* register, and none that a new predictor takes.  And when the program is *)
(* executed as it is written, instruction by instruction from the start,   *)
(* no branch is taken on the operands it finds, and no store reaches the   *)
(* program at the address it computes.                                     *)
(***************************************************************************)
ProgramEnd == 4 * (SIMULATION_EDGES + 1)
ProgramAddress == {4 * k : k \in 0 .. SIMULATION_EDGES}

IsStraight(bytes, address) ==
  LET op == DecodedAt(bytes, address) IN
  /\ op.opcode \notin {"JAL", "JALR"}
  /\ op.opcode = "BRANCH" =>
       /\ op.rd = 0
       /\ \A type \in PredictorTypes :
            ~BpPrediction(BpInit(type), address, Predictable(ReadInstruction(bytes, address)))

IsStraightLine(bytes) == \A address \in ProgramAddress : IsStraight(bytes, address)

\* A state of the program: where it is, its registers and its memory
ProgramState(at, x, bytes) == [at |-> at, x |-> x, bytes |-> bytes]

ProgramStarts == {ProgramState(0, [r \in Reg |-> 0], bytes) : bytes \in InitialMemories}

\* The instruction of state s, and the states it may lead to if it is no jump
InstructionOf(s) == DecodedAt(s.bytes, s.at)

StatesAfter(s) ==
  {ProgramState(s.at + 4, AsWritten!RegistersAfter(InstructionOf(s), s.x, s.bytes), bytes) :
     bytes \in AsWritten!MemoriesAfter(InstructionOf(s), s.x, s.bytes)}

GoesOn(s) ==
  LET op == InstructionOf(s) IN
  /\ op.opcode = "BRANCH" => ~BranchTaken(op, s.x[op.rs1], s.x[op.rs2])
  /\ op.opcode = "STORE" => AsWritten!Effective(op, s.x) >= ProgramEnd

\* `reached' is a set of states the programs do not leave.
StraightLinePrograms(reached) ==
  /\ ProgramEnd < WORD
  /\ \A bytes \in InitialMemories : IsStraightLine(bytes)
  /\ ProgramStarts \subseteq reached
  /\ \A s \in reached : s.at \in ProgramAddress =>
       GoesOn(s) /\ StatesAfter(s) \subseteq reached

(***************************************************************************)
(* In the processor, the execution unit meets only the environment its own *)
(* specification assumes: decoded instructions at each edge, none while it *)
(* is in reset, and signals that change between edges.                     *)
(***************************************************************************)
\* The unit's processes in order o, and those of them that run before p
UnitProcesses(o) == {p \in EuProcess : \E k \in DOMAIN o : o[k] = p}
RunBefore(o, p) == {q \in UnitProcesses(o) :
                      \E j, k \in DOMAIN o : j < k /\ o[j] = q /\ o[k] = p}
AtPlace(o, n) == {p \in UnitProcesses(o) : Cardinality(RunBefore(o, p)) = n - 1}

\* Order o without the other processes
EuOrder(o) ==
  [n \in 1 .. Cardinality(UnitProcesses(o)) |-> CHOOSE p \in AtPlace(o, n) : TRUE]

Unit == INSTANCE ExecutionUnit
  WITH Orders <- {EuOrder(o) : o \in Orders},
       order <- EuOrder(order), pending <- EuOrder(pending)

ImplementsExecutionUnit == Unit!Init /\ [][Unit!Next]_(Unit!vars)

Fetching(address) == fetch_out.cur # NoFetch /\ fetch_out.cur.pc = address

\* jalr clears the lowest bit of its target, and an offset has none.
EvenAddress == {address \in Word : address % 2 = 0}

(***************************************************************************)
(* A branch that is executed and taken reaches fetch through three         *)
(* processes and three signals, each of which could hold it back: its      *)
(* target is fetched, and visible to decode before the simulation ends, if *)
(* there are four edges left for it.                                       *)
(***************************************************************************)
EveryTakenBranchRedirects == \A target \in EvenAddress :
  (/\ execute_out.next # NoResult
   /\ execute_out.next.branch_taken
   /\ execute_out.next.branch_target = target
   /\ total_cycles <= SIMULATION_EDGES - 4)
    ~> Fetching(target)

-----------------------------------------------------------------------------
(***************************************************************************)
(* The report's instruction counts are consistent: what was fetched and    *)
(* not decoded yet is one instruction on its way, the one in the channel   *)
(* that clock_proc has looked at and decode_proc's successor has not.      *)
(***************************************************************************)
InChannel(opcode) ==
  IF HasRun("clock")
  THEN fetch_out.cur # NoFetch /\ Fields(fetch_out.cur.instruction).opcode = opcode
  ELSE decode_in # NoPacket /\ decode_in.opcode = opcode

FetchedIsDecodedOrOnItsWay == \A o \in Opcode :
  analyzer.opcode_stats[o].cycles_in_fetch =
    analyzer.opcode_stats[o].total_count + IF InChannel(o) THEN 1 ELSE 0

(***************************************************************************)
(* The two breakdowns of the report, by opcode and by type, count the same *)
(* instructions in every column, and the total is theirs, although one     *)
(* column takes the type from the decoder and two from a classification    *)
(* the analyzer keeps for itself.                                          *)
(***************************************************************************)
OfType(t) == {o \in Opcode : InstructionType(o) = t}

\* The sum of one column of the statistics over the opcodes in S
Total(column, S) ==
  LET n(o) == IF o \in S THEN column[o] ELSE 0 IN
  n("LUI") + n("AUIPC") + n("JAL") + n("JALR") + n("BRANCH") + n("LOAD")
    + n("STORE") + n("OP_IMM") + n("OP") + n("SYSTEM") + n("UNKNOWN")

fetched == [o \in Opcode |-> analyzer.opcode_stats[o].cycles_in_fetch]
decoded == [o \in Opcode |-> analyzer.opcode_stats[o].total_count]
written == [o \in Opcode |-> analyzer.opcode_stats[o].cycles_in_writeback]

BreakdownsAgree ==
  /\ \A t \in Type :
       /\ analyzer.type_stats[t].cycles_in_fetch = Total(fetched, OfType(t))
       /\ analyzer.type_stats[t].total_count = Total(decoded, OfType(t))
       /\ analyzer.type_stats[t].cycles_in_writeback = Total(written, OfType(t))
  /\ analyzer.total_instructions = Total(fetched, Opcode)

(***************************************************************************)
(* "Total branches" counts every branch once for each time it is fetched,  *)
(* although predict() is called by fetch and the analyzer by clock_proc.   *)
(***************************************************************************)
BranchFetches == Total(fetched, {"BRANCH", "JAL", "JALR"})

IsBranchPacket(packet) ==
  packet # NoFetch /\ IsBranchOpcode(Fields(packet.instruction).opcode)

PredictionsAreFetches ==
  bp.total_predictions = BranchFetches
    + (IF IsBranchPacket(fetch_out.cur) /\ ~HasRun("clock") THEN 1 ELSE 0)
    + (IF IsBranchPacket(fetch_out.next) /\ HasRun("fetch") THEN 1 ELSE 0)

Trained(table) == {i \in TableIndex : table[i] # WEAKLY_NOT_TAKEN}

missed == analyzer.control_hazards - bp.correct_predictions

\* Addresses and histories hash to numbers, as unsigned integers do.
HashesAreNumbers ==
  \A address \in Word, history \in 0 .. GHR_SIZE - 1 :
    HashXor(address \div 4, history) \in Nat

(***************************************************************************)
(* Outcomes are reported by clock_proc, at every edge at which a taken     *)
(* branch is on the result signal, and each is counted as a hazard by the  *)
(* analyzer and as hit or miss by the predictor.  clock_proc reports taken *)
(* outcomes only, so nothing trains an entry back: a table entry is missed *)
(* the first time it is used and never again, whatever branches share it   *)
(* and however often a branch is reported.  The static scheme, whose       *)
(* update() expects branches not to be taken, never hits.                  *)
(***************************************************************************)
EntriesMissOnce ==
  /\ bp.predictor_type = "STATIC_BTFN" => bp.correct_predictions = 0
  /\ bp.predictor_type = "TWO_BIT" => missed = Cardinality(Trained(bp.bht))
  /\ bp.predictor_type = "GSHARE" => missed = Cardinality(Trained(bp.pht))

=============================================================================
