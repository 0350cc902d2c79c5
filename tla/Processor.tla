------------------------------ MODULE Processor ------------------------------
(***************************************************************************)
(* class Processor (processor.h, processor.cpp): the stages connected by   *)
(* signals, and clock_proc, which turns a resolved branch into a redirect  *)
(* of fetch, trains the predictor and keeps the statistics.                *)
(*                                                                         *)
(* The execution unit's actions are those of module ExecutionUnit; here    *)
(* its packets come from the decode process, and three more processes run  *)
(* at each edge: "fetch", "decode" and "clock".  WritebackUnit's and       *)
(* MemorySystem's processes change nothing and are left out, as are the    *)
(* two stall signals, which are never raised.                              *)
(*                                                                         *)
(* A signal written during an edge keeps its old value, cur, until the     *)
(* edge ends; next is the value written last.  For decode_in, next is the  *)
(* variable decode_out.  branch_taken and branch_target, always written    *)
(* together, are the one signal `redirect'.                                *)
(***************************************************************************)
EXTENDS ExecutionUnit, FetchUnit, PerformanceAnalyzer

CONSTANTS
  PredictorTypes,    \* the predictors under consideration
  NoFetch,           \* a FetchPacket with valid = false
  RESET_EDGES,       \* the edges that may fall into sc_main's first sc_start
  SIMULATION_EDGES   \* the edges of the whole simulation

FetchPacket == [instruction : Instruction, pc : Word]

\* The processes of an edge
Process == EuProcess \union {"fetch", "decode", "clock"}

\* Order o runs each of them once.
RunsEachOnce(o) ==
  o \in Seq(Process) /\ \A p \in Process : RunsOnce(o, p)

ASSUME ProcessorAssumption ==
  /\ PredictorTypes \subseteq PredictorType
  /\ NoFetch \notin FetchPacket
  /\ \A o \in Orders : RunsEachOnce(o)
  /\ RESET_EDGES \in Nat /\ SIMULATION_EDGES \in Nat

VARIABLES
  pc,                   \* FetchUnit's: the address it fetches next
  bp,                   \* its branch predictor
  fetch_out,            \* signal fetch_decode_channel
  decode_out,           \* the pending write of decode_in
  redirect,             \* signals branch_taken and branch_target
  analyzer,             \* the performance analyzer
  total_instructions,   \* Processor's own counters
  total_cycles

frontEnd == <<pc, bp, fetch_out, decode_out>>
statistics == <<analyzer, total_instructions, total_cycles>>
processorVars == <<vars, frontEnd, redirect, statistics>>

ProcessorInit ==
  /\ Init
  /\ pc = 0
  /\ \E type \in PredictorTypes : bp = BpInit(type)
  /\ fetch_out = [cur |-> NoFetch, next |-> NoFetch]
  /\ decode_out = NoPacket
  /\ redirect = LET none == [taken |-> FALSE, target |-> 0]
                IN  [cur |-> none, next |-> none]
  /\ analyzer = AnalyzerInit
  /\ total_instructions = 0
  /\ total_cycles = 0

-----------------------------------------------------------------------------
(***************************************************************************)
(* fetch_proc and decode_proc                                              *)
(***************************************************************************)
FetchReset ==
  /\ Running("fetch") /\ reset
  /\ pc' = 0
  /\ fetch_out' = [fetch_out EXCEPT !.next = NoFetch]
  /\ Return
  /\ UNCHANGED <<bp, decode_out, redirect>>
  /\ UNCHANGED <<euVars, signals, statistics>>

FetchInstruction ==
  LET from == IF redirect.cur.taken THEN redirect.cur.target ELSE pc
      inst == ReadInstruction(memory, from)
  IN
  /\ Running("fetch") /\ ~reset
  /\ fetch_out' = [fetch_out EXCEPT !.next = [instruction |-> inst, pc |-> from]]
  /\ pc' = PredictNextPc(bp, from, inst)
  /\ bp' = BpAfterPredict(bp, Predictable(inst))
  /\ Return
  /\ UNCHANGED <<decode_out, redirect>>
  /\ UNCHANGED <<euVars, signals, statistics>>

\* The packet decode_proc makes of a fetched instruction
Decoded(packet) ==
  LET f == Fields(packet.instruction) IN
  [opcode |-> f.opcode, funct3 |-> f.funct3, funct7 |-> f.funct7,
   rs1 |-> f.rs1, rs2 |-> f.rs2, rd |-> f.rd, imm |-> f.imm, pc |-> packet.pc]

\* Whatever is fetched, decode makes one of the Packets of it.
ASSUME DecoderAssumption == \A packet \in FetchPacket : Decoded(packet) \in Packets

Decode ==
  /\ Running("decode")
  /\ decode_out' = IF reset \/ fetch_out.cur = NoFetch THEN NoPacket
                   ELSE Decoded(fetch_out.cur)
  /\ Return
  /\ UNCHANGED <<pc, bp, fetch_out, redirect>>
  /\ UNCHANGED <<euVars, signals, statistics>>

-----------------------------------------------------------------------------
(***************************************************************************)
(* clock_proc looks at the values the three channels have at this edge, in *)
(* reset, too.                                                             *)
(***************************************************************************)
\* What it records of the result r of the execution unit
WithResult(a, r) ==
  LET written  == RecordInstructionWriteback(a, Fields(r.instruction).opcode)
      accessed == IF r.mem_access THEN RecordMemoryAccess(written, ~r.mem_write)
                  ELSE written
  IN  IF r.branch_taken THEN RecordPipelineFlush(RecordControlHazard(accessed))
      ELSE accessed

\* What it records of the packets on their way to decode and to issue
WithFetched(a) ==
  IF fetch_out.cur = NoFetch THEN a
  ELSE RecordInstructionFetch(a, Fields(fetch_out.cur.instruction).opcode)

\* Mutant: the packet is looked at before its signal has changed.
WithDecodedEarly(a) ==
  IF decode_out = NoPacket THEN a
  ELSE RecordInstructionDecode(a, decode_out.opcode, InstructionType(decode_out.opcode))

WithDecoded(a) ==
  IF decode_in = NoPacket THEN a
  ELSE RecordInstructionDecode(a, decode_in.opcode, InstructionType(decode_in.opcode))

ResultValid == execute_out.cur # NoResult
ResultTaken == ResultValid /\ execute_out.cur.branch_taken

ClockProc ==
  LET r == execute_out.cur
      a == UpdateTotalCycles(analyzer, total_cycles + 1)
  IN
  /\ Running("clock")
  /\ total_cycles' = total_cycles + 1
  /\ total_instructions' = total_instructions + IF ResultValid THEN 1 ELSE 0
  /\ analyzer' = WithDecoded(WithFetched(IF ResultValid THEN WithResult(a, r) ELSE a))
  /\ redirect' = IF ResultTaken
                 THEN [redirect EXCEPT !.next = [taken |-> TRUE, target |-> r.branch_target]]
                 ELSE redirect
  /\ bp' = IF ResultTaken THEN BpUpdate(bp, r.pc, r.branch_taken) ELSE bp
  /\ Return
  /\ UNCHANGED <<pc, fetch_out, decode_out>>
  /\ UNCHANGED <<euVars, signals>>

-----------------------------------------------------------------------------
(***************************************************************************)
(* operator== of types.h.  A signal takes the value written to it only if  *)
(* this operator says that it differs from the one it has.                 *)
(***************************************************************************)
\* Mutant: a packet is recognised by its instruction.
SameInstruction(p, q) == p # NoFetch /\ q # NoFetch /\ p.instruction = q.instruction

SameFetchPacket(p, q)   == p = q
SameDecodePacket(p, q)  == p = q

\* Mutant: a packet is recognised by its address.
SameExecutePc(p, q) == p # NoResult /\ q # NoResult /\ p.pc = q.pc

SameExecutePacket(p, q) == p = q

\* All processes have returned, and sc_start goes on to the next edge.
ProcessorEdge ==
  /\ NextEdge /\ total_cycles < SIMULATION_EDGES
  /\ LET f == IF SameFetchPacket(fetch_out.cur, fetch_out.next)
              THEN fetch_out.cur ELSE fetch_out.next
         d == IF SameDecodePacket(decode_in, decode_out) THEN decode_in ELSE decode_out
         e == IF SameExecutePacket(execute_out.cur, execute_out.next)
              THEN execute_out.cur ELSE execute_out.next
     IN  /\ fetch_out' = [cur |-> f, next |-> f]
         /\ decode_in' = d /\ decode_out' = d
         /\ execute_out' = [cur |-> e, next |-> e]
  /\ redirect' = [redirect EXCEPT !.cur = redirect.next]
  /\ reset' \in IF total_cycles <= RESET_EDGES THEN {FALSE, reset} ELSE {FALSE}
  /\ UNCHANGED <<pc, bp, euVars, statistics>>

ExecutionUnitStep ==
  /\ Issue \/ Execute \/ Complete \/ Commit
  /\ UNCHANGED <<frontEnd, redirect, statistics>>

ProcessorNext ==
  \/ FetchReset \/ FetchInstruction \/ Decode \/ ClockProc
  \/ ExecutionUnitStep
  \/ ProcessorEdge

\* sc_start runs the simulation to the given time.
ProcessorSpec ==
  ProcessorInit /\ [][ProcessorNext]_processorVars /\ WF_processorVars(ProcessorNext)

\* sc_start has returned.
Ended == pending = <<>> /\ total_cycles = SIMULATION_EDGES

=============================================================================
