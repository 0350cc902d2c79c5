---------------------------- MODULE ExecutionUnit ---------------------------
(***************************************************************************)
(* class ExecutionUnit (execution_unit.h, execution_unit.cpp): Tomasulo's  *)
(* algorithm with a reorder buffer, as four SC_METHODs that share the      *)
(* reservation stations, the reorder buffer, the register file and the     *)
(* register status table through plain C++ objects, and the memory through *)
(* a function-call interface.                                              *)
(*                                                                         *)
(* Each process is one action or, where it loops, one action per iteration *)
(* and one for its return: a process runs to completion (SystemCKernel),   *)
(* so nothing is interleaved with the iterations.                          *)
(*                                                                         *)
(* The decoder is the environment: at each edge it may present any packet. *)
(***************************************************************************)
EXTENDS ReorderBuffer, ReservationStation, MemorySystem, SystemCKernel

CONSTANTS
  ExecuteAluOp(_, _, _),  \* execute_alu_op: an instruction and its operands
  GarbageFunct3,          \* what a ROBEntry's uninitialized funct3 may hold
  InitialMemories,        \* the memory once the program is loaded, for the
                          \* programs under consideration
  NoResult                \* an ExecutePacket with valid = false

ASSUME ExecutionUnitAssumption ==
  /\ MaxTag = ROB_SIZE
  /\ \A op \in Packets, Vj, Vk \in Word :
       /\ ExecuteAluOp(op, Vj, Vk) \in Word
       \* execute_alu_op looks at the operands the type of the instruction has
       /\ InstructionType(op.opcode) \in {"U_TYPE", "J_TYPE"}
            => ExecuteAluOp(op, Vj, Vk) = ExecuteAluOp(op, 0, Vk)
       /\ InstructionType(op.opcode) \notin {"R_TYPE", "S_TYPE", "B_TYPE"}
            => ExecuteAluOp(op, Vj, Vk) = ExecuteAluOp(op, Vj, 0)
  /\ GarbageFunct3 \subseteq 0 .. 7 /\ GarbageFunct3 # {}
  /\ InitialMemories \subseteq Memory

\* The processes of the unit
EuProcess == {"issue", "execute", "complete", "commit"}

VARIABLES
  rs,           \* rs_alu, rs_mem and rs_branch
  rob,          \* the reorder buffer
  regfile,      \* the register file
  reg_status,   \* which ROB entry will write a register, if any
  memory,       \* the bytes of MemorySystem
  decode_in,    \* signal: the packet from the decoder
  execute_out,  \* signal: the branch result; `next' is its pending write
  reset         \* signal: driven by sc_main

euVars == <<rs, rob, regfile, reg_status, memory>>
signals == <<decode_in, execute_out, reset>>
vars == <<rs, rob, regfile, reg_status, memory, decode_in, execute_out, reset,
          order, pending>>

\* The fields of ExecutePacket that anything downstream of a branch reads;
\* execute_branch_op leaves no instruction in it and marks no memory access.
BranchResult ==
  [instruction : {0}, mem_access : {FALSE}, mem_write : {FALSE},
   pc : Word, branch_taken : BOOLEAN, branch_target : Word]

RegisterStatus == [busy : BOOLEAN, rob_entry : RobSlot]
RegStatusReset == [r \in Reg |-> [busy |-> FALSE, rob_entry |-> 0]]

Init ==
  /\ rs = RsReset
  /\ rob = RobReset
  /\ regfile = [r \in Reg |-> 0]
  /\ reg_status = RegStatusReset
  /\ memory \in InitialMemories
  /\ decode_in = NoPacket
  /\ execute_out = [cur |-> NoResult, next |-> NoResult]
  /\ reset = TRUE
  /\ KernelInit

-----------------------------------------------------------------------------
(***************************************************************************)
(* issue_proc                                                              *)
(***************************************************************************)
StationOf(op) ==
  IF op.opcode \in {"LOAD", "STORE"} THEN "rs_mem"
  ELSE IF op.opcode \in {"BRANCH", "JAL", "JALR"} THEN "rs_branch"
  ELSE "rs_alu"

ReadsRs1(op) == op.rs1 # 0 /\ InstructionType(op.opcode) \notin {"U_TYPE", "J_TYPE"}
ReadsRs2(op) == op.rs2 # 0 /\ InstructionType(op.opcode) \in {"R_TYPE", "S_TYPE", "B_TYPE"}

\* The instructions whose destination register is renamed
Renames(op) == op.rd # 0 /\ op.opcode \notin {"STORE", "BRANCH"}

\* Mutant: a completed producer's value is taken from the register file.
OperandNotForwarded(b, needed, r) ==
  LET wait == reg_status[r].rob_entry IN
  IF ~needed THEN [V |-> 0, Q |-> 0]
  ELSE IF ~reg_status[r].busy \/ RobIsEntryCompleted(b, wait)
       THEN [V |-> regfile[r], Q |-> 0]
  ELSE [V |-> 0, Q |-> wait + 1]

(***************************************************************************)
(* The availability of an operand: its value V, or the tag Q of the entry  *)
(* of reorder buffer b it waits for.  V is not assigned when Q # 0; it is  *)
(* not read either until the wakeup assigns it.                            *)
(***************************************************************************)
Operand(b, needed, r) ==
  LET wait == reg_status[r].rob_entry IN
  IF ~needed THEN [V |-> 0, Q |-> 0]
  ELSE IF ~reg_status[r].busy THEN [V |-> regfile[r], Q |-> 0]
  ELSE IF RobIsEntryCompleted(b, wait) THEN [V |-> RobGetEntryValue(b, wait), Q |-> 0]
  ELSE [V |-> 0, Q |-> wait + 1]

IssueReset ==
  /\ Running("issue") /\ reset
  /\ rs' = RsReset
  /\ rob' = RobReset
  /\ reg_status' = RegStatusReset
  /\ Return
  /\ UNCHANGED <<regfile, memory>> /\ UNCHANGED signals

IssueNothing ==
  /\ Running("issue") /\ ~reset
  /\ decode_in = NoPacket
  /\ Return
  /\ UNCHANGED euVars /\ UNCHANGED signals

\* A packet that finds no room is dropped: issue_proc returns, and the
\* decoder, which is not told, presents its next packet at the next edge.
IssueDropped ==
  /\ Running("issue") /\ ~reset
  /\ decode_in # NoPacket
  /\ RobIsFull(rob) \/ RsIsFull(rs, StationOf(decode_in))
  /\ Return
  /\ UNCHANGED euVars /\ UNCHANGED signals

IssueAccepted ==
  LET op    == decode_in
      index == rob.tail
  IN
  /\ Running("issue") /\ ~reset
  /\ decode_in # NoPacket
  /\ ~RobIsFull(rob)
  /\ \E q \in RsSlot, f \in GarbageFunct3 :
       LET b == RobUpdateEntry(RobAllocateEntry(rob), index, RobNewEntry(op, f))
           j == Operand(b, ReadsRs1(op), op.rs1)
           k == Operand(b, ReadsRs2(op), op.rs2)
       IN
       /\ RsFirstFree(rs, StationOf(op), q)
       /\ rob' = b
       /\ rs' = RsAddEntry(rs, q, RsNewEntry(op, j, k), index)
  /\ reg_status' = IF Renames(op)
                   THEN [reg_status EXCEPT ![op.rd] = [busy |-> TRUE, rob_entry |-> index]]
                   ELSE reg_status
  /\ Return
  /\ UNCHANGED <<regfile, memory>> /\ UNCHANGED signals

Issue == IssueReset \/ IssueNothing \/ IssueDropped \/ IssueAccepted

-----------------------------------------------------------------------------
(***************************************************************************)
(* execute_proc: all ready entries of rs_alu, then of rs_mem, then of      *)
(* rs_branch.                                                              *)
(***************************************************************************)
\* execute_mem_op, the address
MemAddress(entry) == (entry.Vj + entry.op.imm) % WORD

\* execute_branch_op
BranchTaken(op, Vj, Vk) ==
  IF op.opcode \in {"JAL", "JALR"} THEN TRUE ELSE
  CASE op.funct3 = 0 -> Vj = Vk                               \* BEQ
    [] op.funct3 = 1 -> Vj # Vk                               \* BNE
    [] op.funct3 = 4 -> SignedValue(Vj) < SignedValue(Vk)     \* BLT
    [] op.funct3 = 5 -> SignedValue(Vj) >= SignedValue(Vk)    \* BGE
    [] op.funct3 = 6 -> Vj < Vk                               \* BLTU
    [] op.funct3 = 7 -> Vj >= Vk                              \* BGEU
    [] OTHER -> FALSE

BranchTarget(op, Vj, Vk) ==
  LET sum == (Vj + op.imm) % WORD IN
  IF op.opcode = "JALR" THEN sum - (sum % 2)
  ELSE IF BranchTaken(op, Vj, Vk) THEN (op.pc + op.imm) % WORD
  ELSE (op.pc + 4) % WORD

LinkValue(op) == IF op.opcode = "BRANCH" THEN 0 ELSE (op.pc + 4) % WORD

ExecuteAlu == \E q \in RsSlot :
  LET entry == rs[q] IN
  /\ Running("execute") /\ ~reset
  /\ RsFirstReady(rs, "rs_alu", q)
  /\ rob' = RobCompleteEntry(rob, entry.rob_index,
              ExecuteAluOp(entry.op, entry.Vj, entry.Vk))
  /\ rs' = RsRemoveEntry(rs, "rs_alu", entry.rob_index)
  /\ StillRunning
  /\ UNCHANGED <<regfile, reg_status, memory>> /\ UNCHANGED signals

\* A load reads the memory now; a store writes it when it commits.
ExecuteMem == \E q \in RsSlot :
  LET entry == rs[q]
      addr  == MemAddress(entry)
  IN
  /\ Running("execute") /\ ~reset
  /\ RsReady(rs, "rs_alu") = {}
  /\ RsFirstReady(rs, "rs_mem", q)
  /\ rob' = IF entry.op.opcode = "LOAD"
            THEN RobCompleteEntry(rob, entry.rob_index,
                   LoadedValue(memory, addr, entry.op.funct3))
            ELSE RobUpdateStoreEntry(rob, entry.rob_index, addr, entry.Vk)
  /\ rs' = RsRemoveEntry(rs, "rs_mem", entry.rob_index)
  /\ StillRunning
  /\ UNCHANGED <<regfile, reg_status, memory>> /\ UNCHANGED signals

ExecuteBranch == \E q \in RsSlot :
  LET entry  == rs[q]
      taken  == BranchTaken(entry.op, entry.Vj, entry.Vk)
      target == BranchTarget(entry.op, entry.Vj, entry.Vk)
  IN
  /\ Running("execute") /\ ~reset
  /\ RsReady(rs, "rs_alu") = {} /\ RsReady(rs, "rs_mem") = {}
  /\ RsFirstReady(rs, "rs_branch", q)
  /\ rob' = RobCompleteBranchEntry(rob, entry.rob_index, LinkValue(entry.op),
                                   taken, target)
  /\ rs' = RsRemoveEntry(rs, "rs_branch", entry.rob_index)
  /\ execute_out' = [execute_out EXCEPT !.next =
       [instruction |-> 0, mem_access |-> FALSE, mem_write |-> FALSE,
        pc |-> entry.op.pc, branch_taken |-> taken, branch_target |-> target]]
  /\ StillRunning
  /\ UNCHANGED <<regfile, reg_status, memory, decode_in, reset>>

ExecuteReturn ==
  /\ Running("execute")
  /\ reset \/ \A s \in Station : RsReady(rs, s) = {}
  /\ Return
  /\ UNCHANGED euVars /\ UNCHANGED signals

Execute == ExecuteAlu \/ ExecuteMem \/ ExecuteBranch \/ ExecuteReturn

-----------------------------------------------------------------------------
(***************************************************************************)
(* complete_proc: the result of entry i wakes what waits for tag i + 1.    *)
(***************************************************************************)
Complete ==
  LET reported == RobNewlyCompleted(rob)
      tags     == {i + 1 : i \in reported}
      value    == [t \in 1 .. ROB_SIZE |-> RobGetEntryValue(rob, t - 1)]
  IN
  /\ Running("complete")
  /\ rob' = IF reset THEN rob ELSE RobAfterReport(rob)
  /\ rs' = IF reset THEN rs ELSE RsUpdateWaitingEntries(rs, tags, value)
  /\ Return
  /\ UNCHANGED <<regfile, reg_status, memory>> /\ UNCHANGED signals

-----------------------------------------------------------------------------
(***************************************************************************)
(* commit_proc                                                             *)
(***************************************************************************)
Committing == Running("commit") /\ ~reset /\ RobIsHeadCompleted(rob)

CommitStore ==
  LET entry == RobGetHeadEntry(rob) IN
  /\ Committing
  /\ entry.op.opcode = "STORE"
  /\ memory' = WriteData(memory, entry.mem_addr, entry.mem_data, StoreSize(entry.funct3))
  /\ rob' = RobRemoveHead(rob)
  /\ StillRunning
  /\ UNCHANGED <<rs, regfile, reg_status>> /\ UNCHANGED signals

\* Mutant: the mark is cleared although a younger instruction set it.
StatusClearedAlways(rd) ==
  IF rd # 0 THEN [reg_status EXCEPT ![rd].busy = FALSE] ELSE reg_status

\* The register status once the head entry, which names x[rd], has committed
StatusAfterCommit(rd) ==
  IF rd # 0 /\ reg_status[rd].rob_entry = rob.head
  THEN [reg_status EXCEPT ![rd].busy = FALSE] ELSE reg_status

\* Every entry but a store writes the register its rd bits name, if not x0.
CommitRegister ==
  LET entry == RobGetHeadEntry(rob)
      rd    == entry.op.rd
  IN
  /\ Committing
  /\ entry.op.opcode # "STORE"
  /\ regfile' = IF rd = 0 THEN regfile ELSE [regfile EXCEPT ![rd] = entry.value]
  /\ reg_status' = StatusAfterCommit(rd)
  /\ rob' = RobRemoveHead(rob)
  /\ StillRunning
  /\ UNCHANGED <<rs, memory>> /\ UNCHANGED signals

CommitReturn ==
  /\ Running("commit")
  /\ reset \/ ~RobIsHeadCompleted(rob)
  /\ Return
  /\ UNCHANGED euVars /\ UNCHANGED signals

Commit == CommitStore \/ CommitRegister \/ CommitReturn

-----------------------------------------------------------------------------
(***************************************************************************)
(* The next edge: the signals take the values written to them, sc_main may *)
(* have lowered reset, and the decoder presents a packet, or none while it *)
(* is itself in reset.                                                     *)
(***************************************************************************)
ClockEdge ==
  /\ NextEdge
  /\ execute_out' = [execute_out EXCEPT !.cur = execute_out.next]
  /\ reset' \in {FALSE, reset}
  /\ decode_in' \in IF reset THEN {NoPacket} ELSE Packets \union {NoPacket}
  /\ UNCHANGED euVars

Next == Issue \/ Execute \/ Complete \/ Commit \/ ClockEdge

\* The clock never stops.
Spec == Init /\ [][Next]_vars /\ WF_vars(Next)

=============================================================================
