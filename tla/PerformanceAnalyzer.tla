------------------------- MODULE PerformanceAnalyzer -------------------------
(***************************************************************************)
(* class PerformanceAnalyzer (performance_analyzer.h, .cpp): the counters  *)
(* behind the performance report.  The object's fields are the fields of a *)
(* record `a', each record_ method an operator.  Counters that no call in  *)
(* the simulator changes (cycles_in_execute, memory_accesses, data and     *)
(* structural hazards), the wall-clock time and the reports' layout are    *)
(* left out.                                                               *)
(***************************************************************************)
EXTENDS ProcessorTypes

Type == {"R_TYPE", "I_TYPE", "S_TYPE", "B_TYPE", "U_TYPE", "J_TYPE", "UNKNOWN"}

InstructionStats ==
  [total_count |-> 0, cycles_in_fetch |-> 0, cycles_in_decode |-> 0,
   cycles_in_writeback |-> 0]

\* The constructor, with initialize_stats()
AnalyzerInit ==
  [opcode_stats |-> [o \in Opcode |-> InstructionStats],
   type_stats |-> [t \in Type |-> InstructionStats],
   total_instructions |-> 0, total_cycles |-> 0,
   total_memory_reads |-> 0, total_memory_writes |-> 0,
   control_hazards |-> 0, pipeline_flushes |-> 0]

\* Mutant: the case of JALR is missing.
GetInstructionTypeNoJalr(opcode) ==
  IF opcode = "JALR" THEN "UNKNOWN" ELSE InstructionType(opcode)

\* get_instruction_type(), a classification of its own beside the decoder's
GetInstructionType(opcode) ==
  CASE opcode \in {"OP"}                     -> "R_TYPE"
    [] opcode \in {"OP_IMM", "LOAD", "JALR"} -> "I_TYPE"
    [] opcode \in {"STORE"}                  -> "S_TYPE"
    [] opcode \in {"BRANCH"}                 -> "B_TYPE"
    [] opcode \in {"LUI", "AUIPC"}           -> "U_TYPE"
    [] opcode \in {"JAL"}                    -> "J_TYPE"
    [] OTHER                                 -> "UNKNOWN"

RecordInstructionFetch(a, opcode) ==
  [a EXCEPT !.opcode_stats[opcode].cycles_in_fetch = @ + 1,
            !.type_stats[GetInstructionType(opcode)].cycles_in_fetch = @ + 1,
            !.total_instructions = @ + 1]

RecordInstructionDecode(a, opcode, type) ==
  [a EXCEPT !.opcode_stats[opcode].cycles_in_decode = @ + 1,
            !.opcode_stats[opcode].total_count = @ + 1,
            !.type_stats[type].cycles_in_decode = @ + 1,
            !.type_stats[type].total_count = @ + 1]

RecordInstructionWriteback(a, opcode) ==
  [a EXCEPT !.opcode_stats[opcode].cycles_in_writeback = @ + 1,
            !.type_stats[GetInstructionType(opcode)].cycles_in_writeback = @ + 1]

RecordMemoryAccess(a, is_read) ==
  IF is_read THEN [a EXCEPT !.total_memory_reads = @ + 1]
             ELSE [a EXCEPT !.total_memory_writes = @ + 1]

RecordControlHazard(a) == [a EXCEPT !.control_hazards = @ + 1]
RecordPipelineFlush(a) == [a EXCEPT !.pipeline_flushes = @ + 1]

UpdateTotalCycles(a, cycles) == [a EXCEPT !.total_cycles = cycles]

=============================================================================
