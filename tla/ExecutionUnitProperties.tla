---------------------- MODULE ExecutionUnitProperties -----------------------
(***************************************************************************)
(* What ExecutionUnit guarantees.  Which of it holds depends on the order  *)
(* in which the kernel runs the four processes of an edge; the runs say    *)
(* for which orders each property is checked.                              *)
(***************************************************************************)
EXTENDS ExecutionUnit

\* Type invariant.
TypeOK ==
  /\ rs \in [RsSlot -> RsEntry]
  /\ rob \in RobType
  /\ regfile \in [Reg -> Word]
  /\ reg_status \in [Reg -> RegisterStatus]
  /\ memory \in Memory
  /\ decode_in \in Packets \union {NoPacket}
  /\ execute_out \in [cur : BranchResult \union {NoResult},
                      next : BranchResult \union {NoResult}]
  /\ reset \in BOOLEAN

InFlight == RobWindow(rob)

AwaitsResult(i) == rob.entries[i].busy /\ ~rob.entries[i].completed

(***************************************************************************)
(* The ring of the reorder buffer is sound (RobRing) under the calls the   *)
(* four processes make on it.                                              *)
(***************************************************************************)
RobSound == RobRing(rob)

(***************************************************************************)
(* The stations and the reorder buffer agree: an instruction without a     *)
(* result sits in exactly one station slot, of the station of its opcode,  *)
(* and every busy slot belongs to such an instruction.  So no instruction  *)
(* is executed twice, none is executed after it has left the buffer, and   *)
(* remove_entry finds the slot execute_proc means.                         *)
(***************************************************************************)
StationsMatchRob ==
  /\ \A q \in RsSlot : rs[q].busy =>
       /\ rs[q].rob_index \in RobSlot
       /\ AwaitsResult(rs[q].rob_index)
       /\ rs[q].op = rob.entries[rs[q].rob_index].op
       /\ q[1] = StationOf(rs[q].op)
  /\ \A p, q \in RsSlot :
       rs[p].busy /\ rs[q].busy /\ rs[p].rob_index = rs[q].rob_index => p = q
  /\ \A i \in RobSlot : AwaitsResult(i) =>
       \E q \in RsSlot : rs[q].busy /\ rs[q].rob_index = i

(***************************************************************************)
(* Renaming: the register status table marks a register exactly when an    *)
(* instruction in flight will write it, and points to the youngest one,    *)
(* although commit_proc clears the mark by comparing buffer indices that   *)
(* are reused.                                                             *)
(***************************************************************************)
WritersInFlight(r) ==
  {i \in InFlight : Renames(rob.entries[i].op) /\ rob.entries[i].op.rd = r}

RenamingTracksYoungestWriter == \A r \in Reg :
  /\ reg_status[r].busy <=> WritersInFlight(r) # {}
  /\ reg_status[r].busy =>
       /\ reg_status[r].rob_entry \in WritersInFlight(r)
       /\ \A i \in WritersInFlight(r) :
            RobAge(rob, i) <= RobAge(rob, reg_status[r].rob_entry)

(***************************************************************************)
(* A ready entry has both operands, and an entry that has both is ready:   *)
(* no instruction runs on an operand that has not arrived, and none stays  *)
(* behind when its operands are there.                                     *)
(***************************************************************************)
ReadyIffOperandsArrived == \A q \in RsSlot :
  rs[q].busy => (rs[q].ready <=> rs[q].Qj = 0 /\ rs[q].Qk = 0)

(***************************************************************************)
(* Order o forwards a result at the edge it is produced: complete_proc     *)
(* runs after execute_proc, and commit_proc after complete_proc.           *)
(***************************************************************************)
InForwardingOrder(o) == \A j \in 1 .. Len(o) :
  /\ o[j] = "execute" => \E k \in 1 .. Len(o) : j < k /\ o[k] = "complete"
  /\ o[j] = "commit" => \A k \in 1 .. Len(o) : o[k] = "complete" => k < j

ForwardsInOrder == \A o \in Orders : InForwardingOrder(o)

(***************************************************************************)
(* Each process of the unit runs once at each edge, in the same order at   *)
(* every edge; which order it is, is left open.                            *)
(***************************************************************************)
RunsInFixedOrder == FixedOrder /\ \A o \in Orders, p \in EuProcess : RunsOnce(o, p)

(***************************************************************************)
(* No lost wakeup: whatever an entry waits for is an older instruction in  *)
(* flight that writes the awaited register and whose result complete_proc  *)
(* has not forwarded yet.  The tag of an instruction that left the buffer, *)
(* or was taken over by a younger one, would never wake it, or wake it     *)
(* with a wrong value.                                                     *)
(***************************************************************************)
AwaitsResultOf(q, tag, r) ==
  LET i == tag - 1 IN
  /\ i \in WritersInFlight(r)
  /\ RobAge(rob, i) < RobAge(rob, rs[q].rob_index)
  /\ ~rob.entries[i].completed \/ rob.newly_completed[i]

NoLostWakeup == \A q \in RsSlot : rs[q].busy =>
  /\ rs[q].Qj # 0 => AwaitsResultOf(q, rs[q].Qj, rs[q].op.rs1)
  /\ rs[q].Qk # 0 => AwaitsResultOf(q, rs[q].Qk, rs[q].op.rs2)

(***************************************************************************)
(* Nothing is lost for lack of room: issue_proc never meets a full reorder *)
(* buffer or station, where it would drop the packet without telling the   *)
(* decoder.                                                                *)
(***************************************************************************)
NothingDropped == [][~IssueDropped]_vars

(***************************************************************************)
(* Every instruction accepted leaves the buffer, so none waits for ever    *)
(* for an operand, for its station or for its predecessors.                *)
(***************************************************************************)
EveryInstructionCommits ==
  \A i \in RobSlot : rob.entries[i].busy ~> ~rob.entries[i].busy

-----------------------------------------------------------------------------
(***************************************************************************)
(* What the code is not made for: a load reads the memory before an older  *)
(* store has written it, and a branch writes the register that its         *)
(* immediate's bits name.                                                  *)
(***************************************************************************)
LoadsWithoutStores(packets) ==
  \/ \A op \in packets : op.opcode # "LOAD"
  \/ \A op \in packets : op.opcode # "STORE"

BranchesNameNoRegister(packets) ==
  \A op \in packets : op.opcode = "BRANCH" => op.rd = 0

(***************************************************************************)
(* The execution unit is a sequential machine: the instructions in flight, *)
(* in program order, are its window; the register file and the memory are  *)
(* its registers and memory.                                               *)
(***************************************************************************)
programOrder == [k \in 1 .. rob.count |-> rob.entries[RobSlotAt(rob, k - 1)].op]

\* A store may write any width: its entry's funct3 is never assigned.
SizesAsCoded(op) == {StoreSize(f) : f \in GarbageFunct3}

AsCoded == INSTANCE SequentialMachine
  WITH AluResult <- ExecuteAluOp, StoreSizes <- SizesAsCoded,
       InitialBytes <- InitialMemories,
       window <- programOrder, x <- regfile, bytes <- memory

\* Out-of-order issue, forwarding and commit are invisible to the program:
\* what reaches the registers and the memory is what executing the accepted
\* instructions one at a time would put there.
ExecutesSequentially == AsCoded!Run

(***************************************************************************)
(* "Branches don't produce a register result" (execution_unit.cpp, where   *)
(* execute_branch_op sets the result of a BRANCH to 0; issue_proc exempts  *)
(* branches from renaming): no commit of a branch changes a register.      *)
(***************************************************************************)
BranchKeepsRegisters ==
  [][(CommitRegister /\ RobGetHeadEntry(rob).op.opcode = "BRANCH")
       => regfile' = regfile]_vars

=============================================================================
