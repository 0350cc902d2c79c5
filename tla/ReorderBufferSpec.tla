------------------------- MODULE ReorderBufferSpec --------------------------
(***************************************************************************)
(* The reorder buffer under every sequence of calls ExecutionUnit may make *)
(* on it, in any order and number: issue_proc allocates and fills an       *)
(* entry, execute_proc completes one that has no result, complete_proc     *)
(* collects the new results, and commit_proc removes a completed head.     *)
(* What the calls rely on is stated as their guard, and is what module     *)
(* ExecutionUnit shows of its calls.                                       *)
(***************************************************************************)
EXTENDS ReorderBuffer, Sequences

CONSTANT Funct3   \* what the funct3 of a new entry may hold

ASSUME Funct3Assumption == Funct3 \subseteq 0 .. 7

VARIABLE rob

Init == rob = RobReset

\* issue_proc: allocate_entry() and update_entry() with a fresh ROBEntry
Issue(p) == \E f \in Funct3 :
  /\ ~RobIsFull(rob)
  /\ rob' = RobUpdateEntry(RobAllocateEntry(rob), rob.tail, RobNewEntry(p, f))

\* execute_proc: a result for an entry that has none
AwaitsResult(i) == rob.entries[i].busy /\ ~rob.entries[i].completed

Complete(i) == \E v \in Word :
  /\ AwaitsResult(i)
  /\ rob.entries[i].op.opcode # "STORE"
  /\ rob' = RobCompleteEntry(rob, i, v)

CompleteStore(i) == \E a, d \in Word :
  /\ AwaitsResult(i)
  /\ rob.entries[i].op.opcode = "STORE"
  /\ rob' = RobUpdateStoreEntry(rob, i, a, d)

\* complete_proc: get_newly_completed()
Report == rob' = RobAfterReport(rob)

\* commit_proc: remove_head()
Commit ==
  /\ RobIsHeadCompleted(rob)
  /\ rob' = RobRemoveHead(rob)

Reset == rob' = RobReset

Next ==
  \/ \E p \in Packets : Issue(p)
  \/ \E i \in RobSlot : Complete(i) \/ CompleteStore(i)
  \/ Report
  \/ Commit
  \/ Reset

Spec == Init /\ [][Next]_rob

-----------------------------------------------------------------------------
(***************************************************************************)
(* Type invariant: the pointers stay inside the ring and the count never   *)
(* exceeds max_entries, whatever sequence of calls is made.                *)
(***************************************************************************)
RobTypeOK == rob \in RobType

(***************************************************************************)
(* The ring of reorder_buffer.cpp stays sound over every wrap-around: the  *)
(* tail is count places behind the head, the busy slots are exactly those  *)
(* between them, and only a busy, completed slot awaits its report.  An    *)
(* allocation can then never overwrite an instruction in flight.           *)
(***************************************************************************)
RobRingInv == RobRing(rob)

(***************************************************************************)
(* The ring implements the bounded program-order sequence.                 *)
(***************************************************************************)
Stage(i) == IF ~rob.entries[i].completed THEN "waiting"
            ELSE IF rob.newly_completed[i] THEN "fresh" ELSE "known"

Result(i) == LET e == rob.entries[i] IN
  IF e.op.opcode = "STORE" THEN <<e.mem_addr, e.mem_data>> ELSE <<e.value>>

Entry(i) ==
  IF rob.entries[i].completed
  THEN [op |-> rob.entries[i].op, stage |-> Stage(i), result |-> Result(i)]
  ELSE [op |-> rob.entries[i].op, stage |-> Stage(i)]

window == [k \in 1 .. rob.count |-> Entry(RobSlotAt(rob, k - 1))]

Ordered == INSTANCE ProgramOrderBuffer
             WITH Capacity <- ROB_SIZE, Instr <- Packets,
                  Outcome <- {<<v>> : v \in Word} \union (Word \X Word)

\* Every behaviour of the ring is a behaviour of the bounded sequence:
\* instructions leave in the order they entered, each exactly once, and each
\* result is reported at most once.
ImplementsProgramOrder == Ordered!Spec

=============================================================================
