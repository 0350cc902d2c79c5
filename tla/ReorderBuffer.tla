--------------------------- MODULE ReorderBuffer ----------------------------
(***************************************************************************)
(* class ReorderBuffer (reorder_buffer.h, reorder_buffer.cpp): a ring of   *)
(* ROB_SIZE entries that holds the instructions in flight in program       *)
(* order.  The object's fields are the fields of a record `b', and each    *)
(* method is an operator from the object (and arguments) to the object or  *)
(* to the method's result.                                                 *)
(*                                                                         *)
(* An entry keeps the whole decoded instruction `op' it was issued for:    *)
(* the entry's dest, is_store and pc are copies of op.rd, of op.opcode =   *)
(* STORE and of op.pc.  What a slot holds while it is not busy is never    *)
(* read before update_entry overwrites it, so a slot that is not busy is   *)
(* the single value FreeRobEntry.                                          *)
(***************************************************************************)
EXTENDS ProcessorTypes

CONSTANT ROB_SIZE   \* max_entries (16)

ASSUME RobSizeAssumption == ROB_SIZE \in Nat \ {0}

RobSlot == 0 .. ROB_SIZE - 1

FreeRobEntry ==
  [busy |-> FALSE, op |-> NoPacket, value |-> 0, completed |-> FALSE,
   mem_addr |-> 0, mem_data |-> 0, funct3 |-> 0]

\* The entry issue_proc fills in; its funct3 holds whatever f was there.
RobNewEntry(op, f) ==
  [busy |-> TRUE, op |-> op, value |-> 0, completed |-> FALSE,
   mem_addr |-> 0, mem_data |-> 0, funct3 |-> f]

RobEntry ==
  [busy : BOOLEAN, op : Packets \union {NoPacket}, value : Word,
   completed : BOOLEAN, mem_addr : Word, mem_data : Word, funct3 : 0 .. 7]

RobType ==
  [head : RobSlot, tail : RobSlot, count : 0 .. ROB_SIZE,
   entries : [RobSlot -> RobEntry], newly_completed : [RobSlot -> BOOLEAN]]

\* reset(), which the constructor ends with
RobReset ==
  [head |-> 0, tail |-> 0, count |-> 0,
   entries |-> [i \in RobSlot |-> FreeRobEntry],
   newly_completed |-> [i \in RobSlot |-> FALSE]]

RobIsFull(b)  == b.count = ROB_SIZE
RobIsEmpty(b) == b.count = 0

\* Mutant: the tail does not wrap around.
RobAllocateEntryNoWrap(b) ==
  IF RobIsFull(b) THEN b
  ELSE [b EXCEPT !.tail = @ + 1,
                 !.count = @ + 1,
                 !.entries[b.tail].busy = TRUE,
                 !.entries[b.tail].completed = FALSE,
                 !.newly_completed[b.tail] = FALSE]

(***************************************************************************)
(* allocate_entry() takes the slot at the tail.  The index it returns is   *)
(* b.tail, or -1 (and no change) when the buffer is full.                  *)
(***************************************************************************)
RobAllocateEntry(b) ==
  IF RobIsFull(b) THEN b
  ELSE [b EXCEPT !.tail = (@ + 1) % ROB_SIZE,
                 !.count = @ + 1,
                 !.entries[b.tail].busy = TRUE,
                 !.entries[b.tail].completed = FALSE,
                 !.newly_completed[b.tail] = FALSE]

RobUpdateEntry(b, index, entry) ==
  IF index \notin RobSlot THEN b ELSE [b EXCEPT !.entries[index] = entry]

\* Mutant: the store's address and data are kept, but not its completion.
RobUpdateStoreEntryOnly(b, index, addr, data) ==
  IF index \notin RobSlot THEN b
  ELSE [b EXCEPT !.entries[index].mem_addr = addr,
                 !.entries[index].mem_data = data]

RobUpdateStoreEntry(b, index, addr, data) ==
  IF index \notin RobSlot THEN b
  ELSE [b EXCEPT !.entries[index].mem_addr = addr,
                 !.entries[index].mem_data = data,
                 !.entries[index].completed = TRUE,
                 !.newly_completed[index] = TRUE]

\* Mutant: the new result is not queued for complete_proc.
RobCompleteEntryUnreported(b, index, value) ==
  IF index \notin RobSlot THEN b
  ELSE [b EXCEPT !.entries[index].value = value,
                 !.entries[index].completed = TRUE]

RobCompleteEntry(b, index, value) ==
  IF index \notin RobSlot THEN b
  ELSE [b EXCEPT !.entries[index].value = value,
                 !.entries[index].completed = TRUE,
                 !.newly_completed[index] = TRUE]

\* complete_branch_entry() ignores the outcome and target it is given.
RobCompleteBranchEntry(b, index, value, taken, target) ==
  RobCompleteEntry(b, index, value)

RobIsEntryCompleted(b, index) ==
  index \in RobSlot /\ b.entries[index].busy /\ b.entries[index].completed

RobGetEntryValue(b, index) ==
  IF index \notin RobSlot THEN 0 ELSE b.entries[index].value

RobIsHeadCompleted(b) == ~RobIsEmpty(b) /\ b.entries[b.head].completed

RobGetHeadEntry(b) ==
  IF RobIsEmpty(b) THEN FreeRobEntry ELSE b.entries[b.head]

\* Mutant: the flag of the freed slot stays raised.
RobRemoveHeadKeepFlag(b) ==
  IF RobIsEmpty(b) THEN b
  ELSE [b EXCEPT !.entries[b.head] = FreeRobEntry,
                 !.head = (@ + 1) % ROB_SIZE,
                 !.count = @ - 1]

\* Mutant: the freed slot is not given back.
RobRemoveHeadKeepCount(b) ==
  IF RobIsEmpty(b) THEN b
  ELSE [b EXCEPT !.entries[b.head] = FreeRobEntry,
                 !.newly_completed[b.head] = FALSE,
                 !.head = (@ + 1) % ROB_SIZE]

RobRemoveHead(b) ==
  IF RobIsEmpty(b) THEN b
  ELSE [b EXCEPT !.entries[b.head] = FreeRobEntry,
                 !.newly_completed[b.head] = FALSE,
                 !.head = (@ + 1) % ROB_SIZE,
                 !.count = @ - 1]

(***************************************************************************)
(* get_newly_completed() reports the busy slots whose flag is raised, each *)
(* with its value, and lowers their flags.                                 *)
(***************************************************************************)
RobNewlyCompleted(b) == {i \in RobSlot : b.entries[i].busy /\ b.newly_completed[i]}

RobAfterReport(b) ==
  [b EXCEPT !.newly_completed =
      [i \in RobSlot |-> b.newly_completed[i] /\ ~b.entries[i].busy]]

-----------------------------------------------------------------------------
(***************************************************************************)
(* The window: the slots from the head, in program order.                  *)
(***************************************************************************)

\* The slot k places behind the head, for k < ROB_SIZE.
RobSlotAt(b, k) ==
  IF b.head + k < ROB_SIZE THEN b.head + k ELSE b.head + k - ROB_SIZE

\* How many places behind the head slot i is; the smaller, the older.
RobAge(b, i) == IF i >= b.head THEN i - b.head ELSE i - b.head + ROB_SIZE

RobWindow(b) == {i \in RobSlot : RobAge(b, i) < b.count}

(***************************************************************************)
(* The ring is sound: the tail is where the window ends, exactly the slots *)
(* of the window are busy, and only a completed entry awaits its report.   *)
(***************************************************************************)
RobRing(b) ==
  /\ b.tail = IF b.head + b.count < ROB_SIZE THEN b.head + b.count
                                             ELSE b.head + b.count - ROB_SIZE
  /\ \A i \in RobSlot : b.entries[i].busy <=> RobAge(b, i) < b.count
  /\ \A i \in RobSlot : b.newly_completed[i] => b.entries[i].busy /\ b.entries[i].completed

=============================================================================
