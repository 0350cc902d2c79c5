------------------------- MODULE ExecutionUnitProofs ------------------------
(***************************************************************************)
(* ExecutionUnit for every order of the processes, every size of the       *)
(* reorder buffer and of the stations, and every sequence of packets, in   *)
(* three parts.  The first is the type, the ring, the agreement of         *)
(* stations and reorder buffer, the readiness of entries and the renaming. *)
(* The second is that the unit implements SequentialMachine, the third     *)
(* what an unchanging order of the processes means.                        *)
(***************************************************************************)
EXTENDS ExecutionUnitProperties, ReorderBufferLemmas

-----------------------------------------------------------------------------
(***************************************************************************)
(* The values the processes compute are register values.                   *)
(***************************************************************************)
\* Arithmetic on registers wraps around.
LEMMA ModWord ==
  ASSUME NEW v \in Int
  PROVE  v % WORD \in Word
  BY TypesAssumption, SMT DEF Word

LEMMA ZeroIsWord == 0 \in Word
  BY TypesAssumption DEF Word

LEMMA PacketFields ==
  ASSUME NEW op \in Packets
  PROVE  op \in DecodePacket /\ op.imm \in Int /\ op.pc \in Word
         /\ op.rd \in Reg /\ op.rs1 \in Reg /\ op.rs2 \in Reg /\ op.funct3 \in 0 .. 7
  BY TypesAssumption DEF DecodePacket

\* execute_mem_op's address
LEMMA MemAddressIsWord ==
  ASSUME NEW e \in RsEntry, e.op \in Packets
  PROVE  MemAddress(e) \in Word
<1>1. e.Vj \in Int /\ e.op.imm \in Int
  BY PacketFields DEF RsEntry, Word
<1> QED  BY <1>1, ModWord DEF MemAddress

\* read_data() with the sizes of the loads
LEMMA ReadDataIsWord ==
  ASSUME NEW m \in Memory, NEW addr \in Word, NEW size \in {1, 2, 4}
  PROVE  ReadData(m, addr, size) \in Word
<1>1. CASE OutOfBounds(addr, size)
  BY <1>1, ZeroIsWord DEF ReadData
<1>2. CASE ~OutOfBounds(addr, size)
  <2>1. addr \in Nat /\ addr + size <= MEMORY_SIZE
    BY <1>2, MemoryAssumption, TypesAssumption DEF OutOfBounds, Word
  <2>2. \A k \in 0 .. size - 1 : m[addr + k] \in Int
    BY <2>1, MemoryAssumption DEF Memory, MemAddr
  <2>3. CASE size = 1
    <3>1. m[addr] \in Int  BY <2>1, <2>2, <2>3
    <3> QED  BY <1>2, <2>3, <3>1, ModWord DEF ReadData
  <2>4. CASE size = 2
    <3>1. m[addr] \in Int /\ m[addr + 1] \in Int  BY <2>1, <2>2, <2>4
    <3>2. m[addr] + BYTE * m[addr + 1] \in Int  BY <3>1, MemoryAssumption
    <3> QED  BY <1>2, <2>4, <3>2, ModWord DEF ReadData
  <2>5. CASE size = 4
    <3>1. m[addr] \in Int /\ m[addr + 1] \in Int /\ m[addr + 2] \in Int
            /\ m[addr + 3] \in Int
      BY <2>1, <2>2, <2>5
    <3>2. m[addr + 2] + BYTE * m[addr + 3] \in Int  BY <3>1, MemoryAssumption
    <3>3. m[addr + 1] + BYTE * (m[addr + 2] + BYTE * m[addr + 3]) \in Int
      BY <3>1, <3>2, MemoryAssumption
    <3>4. m[addr] + BYTE * (m[addr + 1] + BYTE * (m[addr + 2] + BYTE * m[addr + 3])) \in Int
      BY <3>1, <3>3, MemoryAssumption
    <3> QED  BY <1>2, <2>5, <3>4, ModWord DEF ReadData
  <2> QED  BY <2>3, <2>4, <2>5
<1> QED  BY <1>1, <1>2

LEMMA LoadedValueIsWord ==
  ASSUME NEW m \in Memory, NEW addr \in Word, NEW funct3 \in 0 .. 7
  PROVE  LoadedValue(m, addr, funct3) \in Word
<1> DEFINE data == ReadData(m, addr, LoadSize(funct3))
<1> DEFINE Signed(weight) == IF 2 * data >= weight THEN (data - weight) % WORD ELSE data
<1>1. data \in Word
  BY ReadDataIsWord DEF LoadSize
<1>2. data \in Int
  BY <1>1 DEF Word
<1> HIDE DEF data
<1>3. \A weight \in Int : Signed(weight) \in Word
  BY <1>1, <1>2, ModWord
<1>4. BYTE \in Int /\ BYTE * BYTE \in Int /\ BYTE * BYTE * BYTE * BYTE \in Int
  BY MemoryAssumption
<1>5. Signed(BYTE) \in Word /\ Signed(BYTE * BYTE) \in Word
        /\ Signed(BYTE * BYTE * BYTE * BYTE) \in Word
  BY <1>3, <1>4
<1>6. LoadedValue(m, addr, funct3) =
        CASE funct3 = LB -> Signed(BYTE)
          [] funct3 = LH -> Signed(BYTE * BYTE)
          [] funct3 = LW -> Signed(BYTE * BYTE * BYTE * BYTE)
          [] OTHER       -> data
  BY DEF LoadedValue, data
<1> HIDE DEF Signed
<1> QED  BY <1>1, <1>5, <1>6 DEF LB, LH, LW

\* write_data() leaves bytes in the memory.
LEMMA WriteDataIsMemory ==
  ASSUME NEW m \in Memory, NEW addr \in Word, NEW data \in Word, NEW size \in {1, 2, 4}
  PROVE  WriteData(m, addr, data, size) \in Memory
<1>1. data \in Int /\ BYTE \in Nat \ {0}
  BY MemoryAssumption DEF Word
<1>2. \A v \in Int : v \div BYTE \in Int /\ v % BYTE \in 0 .. BYTE - 1
  BY <1>1, SMT
<1>3. \A k : ByteOf(data, k) \in 0 .. BYTE - 1
  BY <1>1, <1>2 DEF ByteOf
<1> QED  BY <1>3 DEF WriteData, Memory

\* execute_branch_op's result
LEMMA BranchIsTyped ==
  ASSUME NEW op \in Packets, NEW Vj \in Word, NEW Vk \in Word
  PROVE  /\ BranchTaken(op, Vj, Vk) \in BOOLEAN
         /\ BranchTarget(op, Vj, Vk) \in Word
         /\ LinkValue(op) \in Word
<1>1. op.imm \in Int /\ op.pc \in Int /\ Vj \in Int
  BY PacketFields DEF Word
<1>2. BranchTaken(op, Vj, Vk) \in BOOLEAN
  <2>1. CASE op.opcode \in {"JAL", "JALR"}
    BY <2>1 DEF BranchTaken
  <2>2. CASE op.opcode \notin {"JAL", "JALR"}
    <3> DEFINE equal == Vj = Vk
               different == Vj # Vk
               less == SignedValue(Vj) < SignedValue(Vk)
               notLess == SignedValue(Vj) >= SignedValue(Vk)
               lessU == Vj < Vk
               notLessU == Vj >= Vk
    <3>1. /\ equal \in BOOLEAN /\ different \in BOOLEAN /\ less \in BOOLEAN
          /\ notLess \in BOOLEAN /\ lessU \in BOOLEAN /\ notLessU \in BOOLEAN
      OBVIOUS
    <3>2. BranchTaken(op, Vj, Vk) =
            CASE op.funct3 = 0 -> equal
              [] op.funct3 = 1 -> different
              [] op.funct3 = 4 -> less
              [] op.funct3 = 5 -> notLess
              [] op.funct3 = 6 -> lessU
              [] op.funct3 = 7 -> notLessU
              [] OTHER -> FALSE
      BY <2>2 DEF BranchTaken
    <3> HIDE DEF equal, different, less, notLess, lessU, notLessU
    <3> QED  BY <3>1, <3>2
  <2> QED  BY <2>1, <2>2
<1>3. \A v \in Word : v - (v % 2) \in Word
  BY TypesAssumption DEF Word
<1>4. /\ (Vj + op.imm) % WORD \in Word /\ (op.pc + op.imm) % WORD \in Word
      /\ (op.pc + 4) % WORD \in Word
  BY <1>1, ModWord
<1>5. BranchTarget(op, Vj, Vk) \in Word
  BY <1>3, <1>4 DEF BranchTarget
<1>6. LinkValue(op) \in Word
  BY <1>4, ZeroIsWord DEF LinkValue
<1> QED  BY <1>2, <1>5, <1>6

-----------------------------------------------------------------------------
(***************************************************************************)
(* The invariant.  Type, ring and stations need each other: execute_proc   *)
(* completes the entry its station slot names, which is in the ring only   *)
(* because stations and ring agree; and they agree after an issue because  *)
(* the slot at the tail is not busy, so no station slot names it.  That an *)
(* entry in flight holds a packet, not the value of a free slot, is what   *)
(* types the results.                                                      *)
(***************************************************************************)
PacketsInFlight == \A i \in RobSlot :
  rob.entries[i].busy => rob.entries[i].op \in Packets

Inv == TypeOK /\ RobSound /\ PacketsInFlight /\ StationsMatchRob

(***************************************************************************)
(* What each process does to the ring and to the stations, in terms of the *)
(* ring's lemmas.                                                          *)
(***************************************************************************)
\* The stations after a slot got entry e
Placed(q, e) == [rs EXCEPT ![q] = e]

\* The entry issue_proc adds for operands j and k
Issued(op, j, k, index) ==
  [busy |-> TRUE, op |-> op, Vj |-> j.V, Vk |-> k.V, Qj |-> j.Q, Qk |-> k.Q,
   ready |-> (j.Q = 0 /\ k.Q = 0), rob_index |-> index]

LEMMA OperandIsTyped ==
  ASSUME NEW b \in RobType, TypeOK, NEW needed \in BOOLEAN, NEW r \in Reg
  PROVE  Operand(b, needed, r).V \in Word /\ Operand(b, needed, r).Q \in 0 .. MaxTag
<1> DEFINE wait == reg_status[r].rob_entry
<1>1. wait \in RobSlot /\ regfile[r] \in Word
  BY DEF TypeOK, RegisterStatus
<1>2. RobGetEntryValue(b, wait) \in Word
  BY <1>1, ZeroIsWord DEF RobGetEntryValue, RobType, RobEntry
<1>3. 0 \in 0 .. MaxTag /\ wait + 1 \in 0 .. MaxTag
  BY <1>1, RobSizeAssumption, ExecutionUnitAssumption DEF RobSlot
<1> HIDE DEF wait
<1>4. CASE ~needed
  BY <1>3, <1>4, ZeroIsWord DEF Operand
<1>5. CASE needed /\ ~reg_status[r].busy
  BY <1>1, <1>3, <1>5 DEF Operand
<1>6. CASE needed /\ reg_status[r].busy /\ RobIsEntryCompleted(b, wait)
  BY <1>2, <1>3, <1>6 DEF Operand, wait
<1>7. CASE needed /\ reg_status[r].busy /\ ~RobIsEntryCompleted(b, wait)
  BY <1>3, <1>7, ZeroIsWord DEF Operand, wait
<1> QED  BY <1>4, <1>5, <1>6, <1>7

\* issue_proc puts one new instruction into the ring and into a free slot.
LEMMA IssueIs ==
  ASSUME Inv, IssueAccepted
  PROVE  \E q \in RsSlot, f \in 0 .. 7 :
           LET op == decode_in
               b  == Allocated(rob, op, f)
               e  == Issued(op, Operand(b, ReadsRs1(op), op.rs1),
                                Operand(b, ReadsRs2(op), op.rs2), rob.tail)
           IN  /\ ~RobIsFull(rob) /\ op \in Packets /\ f \in GarbageFunct3
               /\ ~rs[q].busy /\ q[1] = StationOf(op)
               /\ rob' = b
               /\ e \in RsEntry /\ rs' = Placed(q, e)
<1> DEFINE op == decode_in
<1>1. op \in Packets /\ ~RobIsFull(rob)
  BY DEF Inv, TypeOK, IssueAccepted
<1>2. PICK q \in RsSlot, f \in GarbageFunct3 :
        LET b == RobUpdateEntry(RobAllocateEntry(rob), rob.tail, RobNewEntry(op, f))
            j == Operand(b, ReadsRs1(op), op.rs1)
            k == Operand(b, ReadsRs2(op), op.rs2)
        IN
        /\ RsFirstFree(rs, StationOf(op), q)
        /\ rob' = b
        /\ rs' = RsAddEntry(rs, q, RsNewEntry(op, j, k), rob.tail)
  BY DEF IssueAccepted
<1>3. f \in 0 .. 7
  BY ExecutionUnitAssumption
<1> DEFINE b == Allocated(rob, op, f)
           j == Operand(b, ReadsRs1(op), op.rs1)
           k == Operand(b, ReadsRs2(op), op.rs2)
           e == Issued(op, j, k, rob.tail)
<1>4. rob' = b
  BY <1>2 DEF Allocated
<1>5. ~rs[q].busy /\ q[1] = StationOf(op)
  BY <1>2 DEF RsFirstFree, SlotsOf
<1>6. b \in RobType
  BY <1>1, <1>3, AllocatedSound DEF Inv, TypeOK, RobSound
<1>7. op.rs1 \in Reg /\ op.rs2 \in Reg
  BY <1>1, PacketFields
<1>8. j.V \in Word /\ k.V \in Word /\ j.Q \in 0 .. MaxTag /\ k.Q \in 0 .. MaxTag
  <2>1. ReadsRs1(op) \in BOOLEAN /\ ReadsRs2(op) \in BOOLEAN
    BY DEF ReadsRs1, ReadsRs2
  <2> HIDE DEF b, op
  <2> QED  BY <1>6, <1>7, <2>1, OperandIsTyped DEF Inv
<1>9. rs' = Placed(q, e)
  <2>1. rs' = RsAddEntry(rs, q, RsNewEntry(op, j, k), rob.tail)
    BY <1>2 DEF Allocated
  <2> DEFINE yes == TRUE
             ready == j.Q = 0 /\ k.Q = 0
             Fields(index) ==
               [busy |-> yes, op |-> op, Vj |-> j.V, Vk |-> k.V, Qj |-> j.Q,
                Qk |-> k.Q, ready |-> ready, rob_index |-> index]
  <2>2. e = Fields(rob.tail) /\ RsNewEntry(op, j, k) = Fields(NoRobIndex)
    BY DEF Issued, RsNewEntry
  <2> HIDE DEF yes, ready
  <2>3. [Fields(NoRobIndex) EXCEPT !.rob_index = rob.tail] = Fields(rob.tail)
    OBVIOUS
  <2> HIDE DEF Fields
  <2> QED  BY <2>1, <2>2, <2>3 DEF RsAddEntry, Placed
<1> HIDE DEF b, j, k
<1>10. e \in RsEntry
  <2>1. rob.tail \in NoRobIndex .. MaxTag - 1
    BY RobSizeAssumption, ExecutionUnitAssumption DEF NoRobIndex, Inv, TypeOK, RobType, RobSlot
  <2> QED  BY <1>1, <1>8, <2>1 DEF Issued, RsEntry
<1> QED  BY <1>1, <1>3, <1>4, <1>5, <1>9, <1>10 DEF b, j, k

\* remove_entry() frees the slot execute_proc means, and no other.
LEMMA RemoveEntryIs ==
  ASSUME Inv, NEW q \in RsSlot, rs[q].busy
  PROVE  RsRemoveEntry(rs, q[1], rs[q].rob_index) = Placed(q, FreeRsEntry)
<1>1. rs = [p \in RsSlot |-> rs[p]]
  BY DEF Inv, TypeOK
<1>2. \A p \in RsSlot :
        (p[1] = q[1] /\ rs[p].busy /\ rs[p].rob_index = rs[q].rob_index) <=> p = q
  BY DEF Inv, StationsMatchRob
<1> QED  BY <1>1, <1>2 DEF RsRemoveEntry, Placed

\* A ready slot belongs to an instruction that awaits its result.
LEMMA ReadySlot ==
  ASSUME Inv, NEW s, NEW q \in RsSlot, RsFirstReady(rs, s, q)
  PROVE  /\ rs[q].busy /\ rs[q].ready /\ q[1] = s
         /\ rs[q] \in RsEntry
         /\ rs[q].op \in Packets
         /\ rs[q].op = rob.entries[rs[q].rob_index].op
         /\ s = StationOf(rs[q].op)
         /\ rs[q].rob_index \in RobSlot
         /\ AwaitsResult(rs[q].rob_index)
<1>1. rs[q].busy /\ rs[q].ready /\ q[1] = s
  BY DEF RsFirstReady, RsReady, SlotsOf
<1>2. rs[q] \in RsEntry
  BY DEF Inv, TypeOK
<1>3. /\ rs[q].rob_index \in RobSlot /\ AwaitsResult(rs[q].rob_index)
      /\ rs[q].op = rob.entries[rs[q].rob_index].op
      /\ q[1] = StationOf(rs[q].op)
  BY <1>1 DEF Inv, StationsMatchRob
<1>4. rs[q].op \in Packets
  BY <1>3 DEF Inv, PacketsInFlight, AwaitsResult
<1> QED  BY <1>1, <1>2, <1>3, <1>4

\* What an execution does: entry e, with its result, replaces the entry that
\* slot q was issued for, and the slot becomes free.
Executed(q, e) ==
  LET i == rs[q].rob_index IN
  /\ rs[q].busy /\ rs[q].ready
  /\ rs[q].op \in Packets /\ rs[q].op = rob.entries[i].op
  /\ i \in RobSlot /\ AwaitsResult(i)
  /\ e \in RobEntry /\ e.busy /\ e.completed /\ e.op = rob.entries[i].op
  /\ rob' = Marked(rob, i, e)
  /\ rs' = Placed(q, FreeRsEntry)

LEMMA ExecuteAluIs ==
  ASSUME Inv, ExecuteAlu
  PROVE  \E q \in RsSlot, e \in RobEntry :
           /\ Executed(q, e)
           /\ StationOf(rs[q].op) = "rs_alu"
           /\ e.value = ExecuteAluOp(rs[q].op, rs[q].Vj, rs[q].Vk)
<1>1. PICK q \in RsSlot :
        /\ RsFirstReady(rs, "rs_alu", q)
        /\ rob' = RobCompleteEntry(rob, rs[q].rob_index,
                    ExecuteAluOp(rs[q].op, rs[q].Vj, rs[q].Vk))
        /\ rs' = RsRemoveEntry(rs, "rs_alu", rs[q].rob_index)
  BY DEF ExecuteAlu
<1> DEFINE i == rs[q].rob_index
           v == ExecuteAluOp(rs[q].op, rs[q].Vj, rs[q].Vk)
           e == CompletedEntry(rob, i, v)
<1>2. /\ rs[q].busy /\ rs[q].ready /\ q[1] = "rs_alu" /\ rs[q] \in RsEntry
      /\ rs[q].op \in Packets /\ rs[q].op = rob.entries[i].op
      /\ StationOf(rs[q].op) = "rs_alu" /\ i \in RobSlot /\ AwaitsResult(i)
  BY <1>1, ReadySlot
<1>3. v \in Word
  BY <1>2, ExecutionUnitAssumption DEF RsEntry
<1>4. rob \in RobType
  BY DEF Inv, TypeOK
<1> HIDE DEF v
<1>5. /\ rob' = Marked(rob, i, e)
      /\ e \in RobEntry /\ e.completed /\ e.busy = rob.entries[i].busy
      /\ e.op = rob.entries[i].op /\ e.value = v
  <2>1. rob' = RobCompleteEntry(rob, i, v)
    BY <1>1 DEF v
  <2> QED  BY <2>1, <1>2, <1>3, <1>4, CompleteEntryIs
<1>6. rs' = Placed(q, FreeRsEntry)
  BY <1>1, <1>2, RemoveEntryIs
<1> HIDE DEF e
<1>7. Executed(q, e)
  BY <1>2, <1>5, <1>6 DEF Executed, AwaitsResult
<1> QED  BY <1>2, <1>5, <1>7 DEF v

\* A load leaves the value it reads in its entry.
LoadDone(q, e) ==
  /\ rs[q].op.opcode = "LOAD"
  /\ e.value = LoadedValue(memory, MemAddress(rs[q]), rs[q].op.funct3)

\* A store leaves its address and its data there, and its garbage funct3.
StoreDone(q, e) ==
  /\ rs[q].op.opcode = "STORE"
  /\ e.mem_addr = MemAddress(rs[q])
  /\ e.mem_data = rs[q].Vk
  /\ e.funct3 = rob.entries[rs[q].rob_index].funct3

LEMMA ExecuteMemIs ==
  ASSUME Inv, ExecuteMem
  PROVE  \E q \in RsSlot, e \in RobEntry :
           Executed(q, e) /\ (LoadDone(q, e) \/ StoreDone(q, e))
<1>1. PICK q \in RsSlot :
        /\ RsFirstReady(rs, "rs_mem", q)
        /\ rob' = IF rs[q].op.opcode = "LOAD"
                  THEN RobCompleteEntry(rob, rs[q].rob_index,
                         LoadedValue(memory, MemAddress(rs[q]), rs[q].op.funct3))
                  ELSE RobUpdateStoreEntry(rob, rs[q].rob_index,
                                           MemAddress(rs[q]), rs[q].Vk)
        /\ rs' = RsRemoveEntry(rs, "rs_mem", rs[q].rob_index)
  BY DEF ExecuteMem
<1> DEFINE i == rs[q].rob_index
           addr == MemAddress(rs[q])
           v == LoadedValue(memory, addr, rs[q].op.funct3)
<1>2. /\ rs[q].busy /\ rs[q].ready /\ q[1] = "rs_mem" /\ rs[q] \in RsEntry
      /\ rs[q].op \in Packets /\ rs[q].op = rob.entries[i].op
      /\ StationOf(rs[q].op) = "rs_mem" /\ i \in RobSlot /\ AwaitsResult(i)
  BY <1>1, ReadySlot
<1>3. addr \in Word /\ rs[q].Vk \in Word /\ v \in Word
  <2>1. addr \in Word
    BY <1>2, MemAddressIsWord
  <2>2. rs[q].op.funct3 \in 0 .. 7 /\ memory \in Memory
    BY <1>2, PacketFields DEF Inv, TypeOK
  <2> QED  BY <1>2, <2>1, <2>2, LoadedValueIsWord DEF RsEntry
<1> HIDE DEF v
<1>4. rob \in RobType
  BY DEF Inv, TypeOK
<1>5. rs[q].op.opcode \in {"LOAD", "STORE"}
  BY <1>2 DEF StationOf
<1>6. rs' = Placed(q, FreeRsEntry)
  BY <1>1, <1>2, RemoveEntryIs
<1>7. CASE rs[q].op.opcode = "LOAD"
  <2> DEFINE e == CompletedEntry(rob, i, v)
  <2>1. /\ rob' = Marked(rob, i, e)
        /\ e \in RobEntry /\ e.completed /\ e.busy = rob.entries[i].busy
        /\ e.op = rob.entries[i].op /\ e.value = v
    <3>1. rob' = RobCompleteEntry(rob, i, v)
      BY <1>1, <1>7 DEF v
    <3> QED  BY <3>1, <1>2, <1>3, <1>4, CompleteEntryIs
  <2> HIDE DEF e
  <2>2. Executed(q, e)
    BY <1>2, <1>6, <2>1 DEF Executed, AwaitsResult
  <2>3. LoadDone(q, e)
    BY <1>7, <2>1 DEF LoadDone, v
  <2> QED  BY <2>1, <2>2, <2>3
<1>8. CASE rs[q].op.opcode = "STORE"
  <2> DEFINE e == StoredEntry(rob, i, addr, rs[q].Vk)
  <2>1. rob' = RobUpdateStoreEntry(rob, i, addr, rs[q].Vk)
    BY <1>1, <1>8
  <2>2. /\ rob' = Marked(rob, i, e)
        /\ e \in RobEntry /\ e.completed /\ e.busy = rob.entries[i].busy
        /\ e.op = rob.entries[i].op /\ e.mem_addr = addr /\ e.mem_data = rs[q].Vk
        /\ e.funct3 = rob.entries[i].funct3
    BY <2>1, <1>2, <1>3, <1>4, StoreEntryIs
  <2> HIDE DEF e
  <2>3. Executed(q, e)
    BY <1>2, <1>6, <2>2 DEF Executed, AwaitsResult
  <2>4. StoreDone(q, e)
    BY <1>8, <2>2 DEF StoreDone
  <2> QED  BY <2>2, <2>3, <2>4
<1> QED  BY <1>5, <1>7, <1>8

LEMMA ExecuteBranchIs ==
  ASSUME Inv, ExecuteBranch
  PROVE  \E q \in RsSlot, e \in RobEntry :
           /\ Executed(q, e)
           /\ StationOf(rs[q].op) = "rs_branch"
           /\ e.value = LinkValue(rs[q].op)
           /\ execute_out'.cur = execute_out.cur
           /\ execute_out' \in [cur : BranchResult \union {NoResult},
                                next : BranchResult \union {NoResult}]
<1>1. PICK q \in RsSlot :
        /\ RsFirstReady(rs, "rs_branch", q)
        /\ rob' = RobCompleteEntry(rob, rs[q].rob_index, LinkValue(rs[q].op))
        /\ rs' = RsRemoveEntry(rs, "rs_branch", rs[q].rob_index)
        /\ execute_out' = [execute_out EXCEPT !.next =
             [instruction |-> 0, mem_access |-> FALSE, mem_write |-> FALSE,
              pc |-> rs[q].op.pc,
              branch_taken |-> BranchTaken(rs[q].op, rs[q].Vj, rs[q].Vk),
              branch_target |-> BranchTarget(rs[q].op, rs[q].Vj, rs[q].Vk)]]
  BY DEF ExecuteBranch, RobCompleteBranchEntry
<1> DEFINE i == rs[q].rob_index
           v == LinkValue(rs[q].op)
           e == CompletedEntry(rob, i, v)
           taken == BranchTaken(rs[q].op, rs[q].Vj, rs[q].Vk)
           target == BranchTarget(rs[q].op, rs[q].Vj, rs[q].Vk)
           result == [instruction |-> 0, mem_access |-> FALSE, mem_write |-> FALSE,
                      pc |-> rs[q].op.pc, branch_taken |-> taken,
                      branch_target |-> target]
<1>2. /\ rs[q].busy /\ rs[q].ready /\ q[1] = "rs_branch" /\ rs[q] \in RsEntry
      /\ rs[q].op \in Packets /\ rs[q].op = rob.entries[i].op
      /\ StationOf(rs[q].op) = "rs_branch" /\ i \in RobSlot /\ AwaitsResult(i)
  BY <1>1, ReadySlot
<1>3. v \in Word /\ taken \in BOOLEAN /\ target \in Word
  BY <1>2, BranchIsTyped DEF RsEntry
<1>4. rob \in RobType
  BY DEF Inv, TypeOK
<1>5. execute_out' = [execute_out EXCEPT !.next = result]
  BY <1>1
<1>6. rs[q].op.pc \in Word
  BY <1>2, PacketFields
<1> HIDE DEF v, taken, target
<1>7. result \in BranchResult
  BY <1>3, <1>6 DEF BranchResult
<1> HIDE DEF result
<1>8. /\ execute_out'.cur = execute_out.cur
      /\ execute_out' \in [cur : BranchResult \union {NoResult},
                           next : BranchResult \union {NoResult}]
  BY <1>5, <1>7 DEF Inv, TypeOK
<1>9. /\ rob' = Marked(rob, i, e)
      /\ e \in RobEntry /\ e.completed /\ e.busy = rob.entries[i].busy
      /\ e.op = rob.entries[i].op /\ e.value = v
  <2>1. rob' = RobCompleteEntry(rob, i, v)
    BY <1>1 DEF v
  <2> QED  BY <2>1, <1>2, <1>3, <1>4, CompleteEntryIs
<1>10. rs' = Placed(q, FreeRsEntry)
  BY <1>1, <1>2, RemoveEntryIs
<1> HIDE DEF e
<1>11. Executed(q, e)
  BY <1>2, <1>9, <1>10 DEF Executed, AwaitsResult
<1> QED  BY <1>2, <1>8, <1>9, <1>11 DEF v

\* complete_proc fills in the operands that were reported, and nothing else.
ReportedTags == {i + 1 : i \in RobNewlyCompleted(rob)}

Woken == RsUpdateWaitingEntries(rs, ReportedTags,
           [t \in 1 .. ROB_SIZE |-> RobGetEntryValue(rob, t - 1)])

LEMMA ReportedTag ==
  ASSUME NEW t \in 0 .. MaxTag, TypeOK
  PROVE  t \in ReportedTags <=>
           t - 1 \in RobSlot /\ rob.entries[t - 1].busy /\ rob.newly_completed[t - 1]
  BY RobSizeAssumption, ExecutionUnitAssumption
  DEF ReportedTags, RobNewlyCompleted, RobSlot

LEMMA WokenSlot ==
  ASSUME Inv, NEW q \in RsSlot
  PROVE  /\ Woken[q] \in RsEntry
         /\ Woken[q].busy = rs[q].busy
         /\ Woken[q].op = rs[q].op
         /\ Woken[q].rob_index = rs[q].rob_index
         /\ rs[q].busy =>
              /\ Woken[q].Qj = IF rs[q].Qj \in ReportedTags THEN 0 ELSE rs[q].Qj
              /\ Woken[q].Qk = IF rs[q].Qk \in ReportedTags THEN 0 ELSE rs[q].Qk
              /\ Woken[q].Vj = IF rs[q].Qj \in ReportedTags
                               THEN rob.entries[rs[q].Qj - 1].value ELSE rs[q].Vj
              /\ Woken[q].Vk = IF rs[q].Qk \in ReportedTags
                               THEN rob.entries[rs[q].Qk - 1].value ELSE rs[q].Vk
              /\ Woken[q].ready <=>
                   rs[q].ready \/ (ReportedTags # {} /\ Woken[q].Qj = 0 /\ Woken[q].Qk = 0)
<1> DEFINE tags == ReportedTags
           value == [t \in 1 .. ROB_SIZE |-> RobGetEntryValue(rob, t - 1)]
           w == RsWoken(rs[q], tags, value)
<1>1. rs[q] \in RsEntry /\ rob \in RobType
  BY DEF Inv, TypeOK
<1>2. Woken[q] = IF rs[q].busy THEN w ELSE rs[q]
  BY DEF Woken, RsUpdateWaitingEntries
<1>3. \A t \in tags : value[t] = rob.entries[t - 1].value /\ value[t] \in Word
  <2> SUFFICES ASSUME NEW i \in RobSlot
               PROVE  /\ value[i + 1] = rob.entries[(i + 1) - 1].value
                      /\ value[i + 1] \in Word
    BY DEF ReportedTags, RobNewlyCompleted
  <2>1. i + 1 \in 1 .. ROB_SIZE /\ (i + 1) - 1 = i
    BY RobSizeAssumption DEF RobSlot
  <2>2. value[i + 1] = rob.entries[i].value
    BY <2>1 DEF RobGetEntryValue
  <2> QED  BY <1>1, <2>1, <2>2 DEF RobType, RobEntry
<1> DEFINE Qj == IF rs[q].Qj \in tags THEN 0 ELSE rs[q].Qj
           Qk == IF rs[q].Qk \in tags THEN 0 ELSE rs[q].Qk
           Vj == IF rs[q].Qj \in tags THEN value[rs[q].Qj] ELSE rs[q].Vj
           Vk == IF rs[q].Qk \in tags THEN value[rs[q].Qk] ELSE rs[q].Vk
           ready == rs[q].ready \/ (tags # {} /\ (Qj = 0 /\ Qk = 0))
<1>4. w = [rs[q] EXCEPT !.Vj = Vj, !.Vk = Vk, !.Qj = Qj, !.Qk = Qk, !.ready = ready]
  BY DEF RsWoken
<1>5. /\ Qj \in 0 .. MaxTag /\ Qk \in 0 .. MaxTag /\ Vj \in Word /\ Vk \in Word
      /\ ready \in BOOLEAN
  <2>1. ready \in BOOLEAN
    OBVIOUS
  <2>2. Qj \in 0 .. MaxTag /\ Qk \in 0 .. MaxTag
    BY <1>1, RsSizeAssumption DEF RsEntry
  <2>3. Vj \in Word /\ Vk \in Word
    BY <1>1, <1>3 DEF RsEntry
  <2> QED  BY <2>1, <2>2, <2>3
<1>6. /\ Vj = IF rs[q].Qj \in tags THEN rob.entries[rs[q].Qj - 1].value ELSE rs[q].Vj
      /\ Vk = IF rs[q].Qk \in tags THEN rob.entries[rs[q].Qk - 1].value ELSE rs[q].Vk
  BY <1>3
<1>7. ready <=> rs[q].ready \/ (tags # {} /\ Qj = 0 /\ Qk = 0)
  OBVIOUS
<1>8. /\ Qj = IF rs[q].Qj \in tags THEN 0 ELSE rs[q].Qj
      /\ Qk = IF rs[q].Qk \in tags THEN 0 ELSE rs[q].Qk
  OBVIOUS
<1> HIDE DEF tags, value, w, Qj, Qk, Vj, Vk, ready
<1>9. /\ w \in RsEntry /\ w.busy = rs[q].busy /\ w.op = rs[q].op
      /\ w.rob_index = rs[q].rob_index
      /\ w.Qj = Qj /\ w.Qk = Qk /\ w.Vj = Vj /\ w.Vk = Vk /\ w.ready = ready
  BY <1>1, <1>4, <1>5 DEF RsEntry
<1>10. CASE rs[q].busy
  <2>1. Woken[q] = w
    BY <1>2, <1>10
  <2> QED  BY <2>1, <1>6, <1>7, <1>8, <1>9 DEF tags
<1>11. CASE ~rs[q].busy
  BY <1>1, <1>2, <1>11
<1> QED  BY <1>10, <1>11

LEMMA CompleteIs ==
  ASSUME Inv, Complete
  PROVE  \/ ~reset /\ rob' = RobAfterReport(rob) /\ rs' = Woken
         \/ reset /\ rob' = rob /\ rs' = rs
<1>1. reset \in BOOLEAN
  BY DEF Inv, TypeOK
<1> QED  BY <1>1 DEF Complete, Woken, ReportedTags

\* commit_proc removes a completed head, which no station slot names.
LEMMA CommitIs ==
  ASSUME Inv, CommitStore \/ CommitRegister
  PROVE  /\ ~RobIsEmpty(rob) /\ ~reset
         /\ rob.head \in RobSlot
         /\ rob.entries[rob.head].busy /\ rob.entries[rob.head].completed
         /\ rob.entries[rob.head] \in RobEntry
         /\ rob.entries[rob.head].op \in Packets
         /\ RobGetHeadEntry(rob) = rob.entries[rob.head]
         /\ rob' = RobRemoveHead(rob) /\ rs' = rs
<1>1. /\ ~RobIsEmpty(rob) /\ ~reset /\ rob.entries[rob.head].completed
      /\ rob' = RobRemoveHead(rob) /\ rs' = rs
  BY DEF CommitStore, CommitRegister, Committing, RobIsHeadCompleted
<1>2. rob.head \in RobSlot /\ rob.entries[rob.head] \in RobEntry
  BY DEF Inv, TypeOK, RobType
<1>3. RobGetHeadEntry(rob) = rob.entries[rob.head]
  BY <1>1 DEF RobGetHeadEntry
<1>4. rob.entries[rob.head].busy
  <2>1. rob \in RobType /\ RobRing(rob)
    BY DEF Inv, TypeOK, RobSound
  <2>2. RobAge(rob, rob.head) = 0
    BY <1>2 DEF RobAge, RobSlot
  <2>3. 0 < rob.count
    BY <1>1, <2>1, RobSizeAssumption DEF RobIsEmpty, RobType
  <2> QED  BY <1>2, <2>1, <2>2, <2>3 DEF RobRing
<1>5. rob.entries[rob.head].op \in Packets
  BY <1>2, <1>4 DEF Inv, PacketsInFlight
<1> QED  BY <1>1, <1>2, <1>3, <1>4, <1>5

-----------------------------------------------------------------------------
(***************************************************************************)
(* Every process keeps stations and reorder buffer in agreement.           *)
(***************************************************************************)
\* issue_proc: the slot at the tail is free, so the new name is fresh.
LEMMA IssueKeepsMatch ==
  ASSUME Inv, NEW q \in RsSlot, NEW e \in RsEntry, NEW op \in Packets, NEW f \in 0 .. 7,
         ~RobIsFull(rob), ~rs[q].busy, q[1] = StationOf(op),
         e.busy, e.op = op, e.rob_index = rob.tail,
         rob' = Allocated(rob, op, f), rs' = Placed(q, e)
  PROVE  /\ rs' \in [RsSlot -> RsEntry]
         /\ rob' \in RobType /\ RobSound' /\ PacketsInFlight' /\ StationsMatchRob'
<1>1. /\ rob \in RobType /\ RobRing(rob) /\ rs \in [RsSlot -> RsEntry]
      /\ StationsMatchRob /\ PacketsInFlight
  BY DEF Inv, TypeOK, RobSound
<1>2. rob' \in RobType /\ RobRing(rob')
  BY <1>1, AllocatedSound
<1>3. rob.tail \in RobSlot /\ ~rob.entries[rob.tail].busy
  BY <1>1, TailIsFree
<1>4. \A i \in RobSlot :
        rob'.entries[i] = IF i = rob.tail THEN RobNewEntry(op, f) ELSE rob.entries[i]
  BY <1>1, AllocatedIs DEF RobType
<1>5. /\ RobNewEntry(op, f).busy /\ ~RobNewEntry(op, f).completed
      /\ RobNewEntry(op, f).op = op
  BY DEF RobNewEntry
<1>6. \A p \in RsSlot : rs'[p] = IF p = q THEN e ELSE rs[p]
  BY <1>1 DEF Placed
<1>7. \A p \in RsSlot : rs[p].busy => rs[p].rob_index # rob.tail
  BY <1>1, <1>3 DEF StationsMatchRob, AwaitsResult
<1>8. StationsMatchRob'
  <2>1. ASSUME NEW p \in RsSlot, rs'[p].busy
        PROVE  /\ rs'[p].rob_index \in RobSlot
               /\ rob'.entries[rs'[p].rob_index].busy
               /\ ~rob'.entries[rs'[p].rob_index].completed
               /\ rs'[p].op = rob'.entries[rs'[p].rob_index].op
               /\ p[1] = StationOf(rs'[p].op)
    <3>1. CASE p = q
      BY <3>1, <1>3, <1>4, <1>5, <1>6 DEF AwaitsResult
    <3>2. CASE p # q
      BY <3>2, <2>1, <1>1, <1>4, <1>6, <1>7 DEF StationsMatchRob, AwaitsResult
    <3> QED  BY <3>1, <3>2
  <2>2. ASSUME NEW p \in RsSlot, NEW r \in RsSlot, rs'[p].busy, rs'[r].busy,
               rs'[p].rob_index = rs'[r].rob_index
        PROVE  p = r
    BY <2>2, <1>1, <1>6, <1>7 DEF StationsMatchRob
  <2>3. ASSUME NEW i \in RobSlot, rob'.entries[i].busy, ~rob'.entries[i].completed
        PROVE  \E p \in RsSlot : rs'[p].busy /\ rs'[p].rob_index = i
    <3>1. CASE i = rob.tail
      BY <3>1, <1>6
    <3>2. CASE i # rob.tail
      <4>1. AwaitsResult(i)
        BY <3>2, <2>3, <1>4 DEF AwaitsResult
      <4>2. PICK p \in RsSlot : rs[p].busy /\ rs[p].rob_index = i
        BY <4>1, <1>1 DEF StationsMatchRob
      <4> QED  BY <4>2, <1>6
    <3> QED  BY <3>1, <3>2
  <2> QED  BY <2>1, <2>2, <2>3 DEF StationsMatchRob, AwaitsResult
<1>9. PacketsInFlight'
  BY <1>1, <1>4, <1>5 DEF PacketsInFlight
<1>10. rs' \in [RsSlot -> RsEntry]
  BY <1>1 DEF Placed
<1> QED  BY <1>2, <1>8, <1>9, <1>10 DEF RobSound

\* execute_proc: the instruction gets its result and leaves its slot at once.
LEMMA ExecutionKeepsMatch ==
  ASSUME Inv, NEW q \in RsSlot, NEW e \in RobEntry, Executed(q, e)
  PROVE  /\ rs' \in [RsSlot -> RsEntry]
         /\ rob' \in RobType /\ RobSound' /\ PacketsInFlight' /\ StationsMatchRob'
<1> DEFINE i == rs[q].rob_index
<1>1. /\ rob \in RobType /\ RobRing(rob) /\ rs \in [RsSlot -> RsEntry]
      /\ StationsMatchRob /\ PacketsInFlight
  BY DEF Inv, TypeOK, RobSound
<1>2. /\ rs[q].busy /\ i \in RobSlot /\ rob.entries[i].busy
      /\ e.busy /\ e.completed /\ e.op = rob.entries[i].op
      /\ rob' = Marked(rob, i, e) /\ rs' = Placed(q, FreeRsEntry)
  BY DEF Executed, AwaitsResult
<1>3. rob' \in RobType /\ RobRing(rob')
  BY <1>1, <1>2, MarkedSound
<1>4. \A k \in RobSlot : rob'.entries[k] = IF k = i THEN e ELSE rob.entries[k]
  BY <1>1, <1>2 DEF Marked, RobType
<1>5. \A p \in RsSlot : rs'[p] = IF p = q THEN FreeRsEntry ELSE rs[p]
  BY <1>1, <1>2 DEF Placed
<1>6. ~FreeRsEntry.busy
  BY DEF FreeRsEntry
<1>7. \A p \in RsSlot : rs[p].busy /\ p # q => rs[p].rob_index # i
  BY <1>1, <1>2 DEF StationsMatchRob
<1> HIDE DEF i
<1>8. StationsMatchRob'
  <2>1. ASSUME NEW p \in RsSlot, rs'[p].busy
        PROVE  /\ rs'[p].rob_index \in RobSlot
               /\ rob'.entries[rs'[p].rob_index].busy
               /\ ~rob'.entries[rs'[p].rob_index].completed
               /\ rs'[p].op = rob'.entries[rs'[p].rob_index].op
               /\ p[1] = StationOf(rs'[p].op)
    <3>1. p # q /\ rs'[p] = rs[p]
      BY <2>1, <1>5, <1>6
    <3> QED  BY <3>1, <2>1, <1>1, <1>4, <1>7 DEF StationsMatchRob, AwaitsResult
  <2>2. ASSUME NEW p \in RsSlot, NEW r \in RsSlot, rs'[p].busy, rs'[r].busy,
               rs'[p].rob_index = rs'[r].rob_index
        PROVE  p = r
    BY <2>2, <1>1, <1>5, <1>6 DEF StationsMatchRob
  <2>3. ASSUME NEW k \in RobSlot, rob'.entries[k].busy, ~rob'.entries[k].completed
        PROVE  \E p \in RsSlot : rs'[p].busy /\ rs'[p].rob_index = k
    <3>1. k # i /\ AwaitsResult(k)
      BY <2>3, <1>2, <1>4 DEF AwaitsResult
    <3>2. PICK p \in RsSlot : rs[p].busy /\ rs[p].rob_index = k
      BY <3>1, <1>1 DEF StationsMatchRob
    <3>3. p # q
      BY <3>1, <3>2 DEF i
    <3> QED  BY <3>2, <3>3, <1>5
  <2> QED  BY <2>1, <2>2, <2>3 DEF StationsMatchRob, AwaitsResult
<1>9. PacketsInFlight'
  BY <1>1, <1>2, <1>4 DEF PacketsInFlight
<1>10. rs' \in [RsSlot -> RsEntry]
  <2>1. FreeRsEntry \in RsEntry
    BY ZeroIsWord, RsSizeAssumption DEF FreeRsEntry, RsEntry, NoRobIndex
  <2> QED  BY <1>1, <1>2, <2>1 DEF Placed
<1> QED  BY <1>3, <1>8, <1>9, <1>10 DEF RobSound

\* complete_proc: who awaits what result does not change.
LEMMA CompleteKeepsMatch ==
  ASSUME Inv, rob' = RobAfterReport(rob), rs' = Woken
  PROVE  /\ rs' \in [RsSlot -> RsEntry]
         /\ rob' \in RobType /\ RobSound' /\ PacketsInFlight' /\ StationsMatchRob'
<1>1. rob \in RobType /\ RobRing(rob) /\ StationsMatchRob /\ PacketsInFlight
  BY DEF Inv, TypeOK, RobSound
<1>2. rob' \in RobType /\ RobRing(rob')
  BY <1>1, ReportSound
<1>3. rob'.entries = rob.entries
  BY <1>1 DEF RobAfterReport, RobType
<1>4. \A q \in RsSlot : /\ rs'[q] \in RsEntry /\ rs'[q].busy = rs[q].busy
                        /\ rs'[q].op = rs[q].op
                        /\ rs'[q].rob_index = rs[q].rob_index
  BY WokenSlot
<1>5. rs' \in [RsSlot -> RsEntry]
  <2>1. rs' = [q \in RsSlot |-> rs'[q]]
    BY DEF Woken, RsUpdateWaitingEntries
  <2> QED  BY <1>4, <2>1
<1>6. StationsMatchRob'
  BY <1>1, <1>3, <1>4 DEF StationsMatchRob, AwaitsResult
<1>7. PacketsInFlight'
  BY <1>1, <1>3 DEF PacketsInFlight
<1> QED  BY <1>2, <1>5, <1>6, <1>7 DEF RobSound

\* commit_proc: the entry that leaves has its result, so no slot names it.
LEMMA CommitKeepsMatch ==
  ASSUME Inv, ~RobIsEmpty(rob), rob.entries[rob.head].completed,
         rob' = RobRemoveHead(rob), rs' = rs
  PROVE  rob' \in RobType /\ RobSound' /\ PacketsInFlight' /\ StationsMatchRob'
<1>1. rob \in RobType /\ RobRing(rob) /\ StationsMatchRob /\ PacketsInFlight
  BY DEF Inv, TypeOK, RobSound
<1>2. rob' \in RobType /\ RobRing(rob')
  BY <1>1, RemoveHeadSound
<1>3. \A i \in RobSlot :
        rob'.entries[i] = IF i = rob.head THEN FreeRobEntry ELSE rob.entries[i]
  BY <1>1, RemoveHeadIs DEF RobType
<1>4. ~FreeRobEntry.busy
  BY DEF FreeRobEntry
<1>5. StationsMatchRob'
  BY <1>1, <1>3, <1>4 DEF StationsMatchRob, AwaitsResult
<1>6. PacketsInFlight'
  BY <1>1, <1>3, <1>4 DEF PacketsInFlight
<1> QED  BY <1>2, <1>5, <1>6 DEF RobSound

-----------------------------------------------------------------------------
(***************************************************************************)
(* The invariant is inductive.                                             *)
(***************************************************************************)
LEMMA ResetIsTyped ==
  /\ RsReset \in [RsSlot -> RsEntry]
  /\ RegStatusReset \in [Reg -> RegisterStatus]
  /\ \A q \in RsSlot : ~RsReset[q].busy
<1>1. FreeRsEntry \in RsEntry /\ ~FreeRsEntry.busy
  BY ZeroIsWord, RsSizeAssumption DEF FreeRsEntry, RsEntry, NoRobIndex
<1>2. [busy |-> FALSE, rob_entry |-> 0] \in RegisterStatus
  BY RobSizeAssumption DEF RegisterStatus, RobSlot
<1> QED  BY <1>1, <1>2 DEF RsReset, RegStatusReset

\* An empty ring agrees with stations that are all free.
LEMMA ResetMatches ==
  ASSUME rob = RobReset, rs = RsReset
  PROVE  RobSound /\ PacketsInFlight /\ StationsMatchRob
<1>1. \A i \in RobSlot : ~rob.entries[i].busy
  BY DEF RobReset, FreeRobEntry
<1>2. \A q \in RsSlot : ~rs[q].busy
  BY ResetIsTyped
<1> QED  BY <1>1, <1>2, ResetSound
         DEF RobSound, PacketsInFlight, StationsMatchRob, AwaitsResult

LEMMA InitInv == Init => Inv
<1> SUFFICES ASSUME Init PROVE Inv
  OBVIOUS
<1>1. TypeOK
  <2>1. regfile \in [Reg -> Word]
    BY ZeroIsWord DEF Init
  <2>2. execute_out \in [cur : BranchResult \union {NoResult},
                         next : BranchResult \union {NoResult}]
    BY DEF Init
  <2> QED  BY <2>1, <2>2, ResetIsTyped, ResetSound, ExecutionUnitAssumption
           DEF Init, TypeOK
<1> QED  BY <1>1, ResetMatches DEF Init, Inv

\* Each process preserves the invariant.
LEMMA IssueKeepsInv ==
  ASSUME Inv, Issue
  PROVE  Inv'
<1>1. CASE IssueReset
  <2>1. /\ rs' = RsReset /\ rob' = RobReset /\ reg_status' = RegStatusReset
        /\ UNCHANGED <<regfile, memory, decode_in, execute_out, reset>>
    BY <1>1 DEF IssueReset, signals
  <2>2. TypeOK'
    BY <2>1, ResetIsTyped, ResetSound DEF Inv, TypeOK
  <2>3. RobSound' /\ PacketsInFlight' /\ StationsMatchRob'
    <3>1. \A i \in RobSlot : ~rob'.entries[i].busy
      BY <2>1 DEF RobReset, FreeRobEntry
    <3>2. \A q \in RsSlot : ~rs'[q].busy
      BY <2>1, ResetIsTyped
    <3> QED  BY <2>1, <3>1, <3>2, ResetSound
             DEF RobSound, PacketsInFlight, StationsMatchRob, AwaitsResult
  <2> QED  BY <2>2, <2>3 DEF Inv
<1>2. CASE IssueNothing \/ IssueDropped
  <2>1. UNCHANGED <<rs, rob, regfile, reg_status, memory, decode_in, execute_out, reset>>
    BY <1>2 DEF IssueNothing, IssueDropped, euVars, signals
  <2> QED  BY <2>1 DEF Inv, TypeOK, RobSound, PacketsInFlight, StationsMatchRob,
                       AwaitsResult
<1>3. CASE IssueAccepted
  <2>1. PICK q \in RsSlot, f \in 0 .. 7, e \in RsEntry :
          /\ ~RobIsFull(rob) /\ decode_in \in Packets
          /\ ~rs[q].busy /\ q[1] = StationOf(decode_in)
          /\ rob' = Allocated(rob, decode_in, f)
          /\ e.busy /\ e.op = decode_in /\ e.rob_index = rob.tail
          /\ rs' = Placed(q, e)
    BY <1>3, IssueIs DEF Issued
  <2>2. /\ rs' \in [RsSlot -> RsEntry]
        /\ rob' \in RobType /\ RobSound' /\ PacketsInFlight' /\ StationsMatchRob'
    BY <2>1, IssueKeepsMatch
  <2>3. /\ UNCHANGED <<regfile, memory, decode_in, execute_out, reset>>
        /\ reg_status' = IF Renames(decode_in)
             THEN [reg_status EXCEPT ![decode_in.rd] =
                     [busy |-> TRUE, rob_entry |-> rob.tail]]
             ELSE reg_status
    BY <1>3 DEF IssueAccepted, signals
  <2>4. reg_status' \in [Reg -> RegisterStatus]
    <3>1. rob.tail \in RobSlot /\ reg_status \in [Reg -> RegisterStatus]
      BY DEF Inv, TypeOK, RobType
    <3> QED  BY <2>3, <3>1 DEF RegisterStatus
  <2> QED  BY <2>2, <2>3, <2>4 DEF Inv, TypeOK
<1> QED  BY <1>1, <1>2, <1>3 DEF Issue

LEMMA ExecuteKeepsInv ==
  ASSUME Inv, Execute
  PROVE  Inv'
<1>1. CASE ExecuteAlu \/ ExecuteMem
  <2>1. PICK q \in RsSlot, e \in RobEntry : Executed(q, e)
    BY <1>1, ExecuteAluIs, ExecuteMemIs
  <2>2. UNCHANGED <<regfile, reg_status, memory, decode_in, execute_out, reset>>
    BY <1>1 DEF ExecuteAlu, ExecuteMem, signals
  <2> QED  BY <2>1, <2>2, ExecutionKeepsMatch DEF Inv, TypeOK
<1>2. CASE ExecuteBranch
  <2>1. PICK q \in RsSlot, e \in RobEntry :
          /\ Executed(q, e)
          /\ execute_out' \in [cur : BranchResult \union {NoResult},
                               next : BranchResult \union {NoResult}]
    BY <1>2, ExecuteBranchIs
  <2>2. UNCHANGED <<regfile, reg_status, memory, decode_in, reset>>
    BY <1>2 DEF ExecuteBranch
  <2> QED  BY <2>1, <2>2, ExecutionKeepsMatch DEF Inv, TypeOK
<1>3. CASE ExecuteReturn
  <2>1. UNCHANGED <<rs, rob, regfile, reg_status, memory, decode_in, execute_out, reset>>
    BY <1>3 DEF ExecuteReturn, euVars, signals
  <2> QED  BY <2>1 DEF Inv, TypeOK, RobSound, PacketsInFlight, StationsMatchRob,
                       AwaitsResult
<1> QED  BY <1>1, <1>2, <1>3 DEF Execute

LEMMA CompleteKeepsInv ==
  ASSUME Inv, Complete
  PROVE  Inv'
<1>1. UNCHANGED <<regfile, reg_status, memory, decode_in, execute_out, reset>>
  BY DEF Complete, signals
<1>2. CASE rob' = RobAfterReport(rob) /\ rs' = Woken
  BY <1>1, <1>2, CompleteKeepsMatch DEF Inv, TypeOK
<1>3. CASE rob' = rob /\ rs' = rs
  BY <1>1, <1>3 DEF Inv, TypeOK, RobSound, PacketsInFlight, StationsMatchRob,
                    AwaitsResult
<1> QED  BY <1>2, <1>3, CompleteIs

LEMMA CommitKeepsInv ==
  ASSUME Inv, Commit
  PROVE  Inv'
<1>1. CASE CommitStore \/ CommitRegister
  <2>1. /\ ~RobIsEmpty(rob) /\ rob.head \in RobSlot
        /\ rob.entries[rob.head].completed
        /\ rob.entries[rob.head] \in RobEntry
        /\ rob.entries[rob.head].op \in Packets
        /\ RobGetHeadEntry(rob) = rob.entries[rob.head]
        /\ rob' = RobRemoveHead(rob) /\ rs' = rs
    BY <1>1, CommitIs
  <2>2. rob' \in RobType /\ RobSound' /\ PacketsInFlight' /\ StationsMatchRob'
    BY <2>1, CommitKeepsMatch
  <2> DEFINE entry == rob.entries[rob.head]
  <2>3. memory' \in Memory /\ regfile' \in [Reg -> Word]
    <3>1. CASE CommitStore
      <4>1. entry.mem_addr \in Word /\ entry.mem_data \in Word
        BY <2>1 DEF RobEntry
      <4>2. StoreSize(entry.funct3) \in {1, 2, 4}
        BY DEF StoreSize
      <4>3. memory \in Memory /\ regfile \in [Reg -> Word]
        BY DEF Inv, TypeOK
      <4>4. memory' = WriteData(memory, entry.mem_addr, entry.mem_data,
                                StoreSize(entry.funct3))
        BY <2>1, <3>1 DEF CommitStore
      <4>5. memory' \in Memory
        BY <4>1, <4>2, <4>3, <4>4, WriteDataIsMemory
      <4> QED  BY <3>1, <4>3, <4>5 DEF CommitStore
    <3>2. CASE CommitRegister
      <4>1. entry.value \in Word /\ entry.op.rd \in Reg
        BY <2>1, PacketFields DEF RobEntry
      <4>2. regfile' = IF entry.op.rd = 0 THEN regfile
                       ELSE [regfile EXCEPT ![entry.op.rd] = entry.value]
        BY <2>1, <3>2 DEF CommitRegister
      <4>3. memory' = memory
        BY <3>2 DEF CommitRegister
      <4>4. memory \in Memory /\ regfile \in [Reg -> Word]
        BY DEF Inv, TypeOK
      <4> DEFINE r == entry.op.rd
                 v == entry.value
      <4>5. v \in Word /\ r \in Reg
            /\ regfile' = IF r = 0 THEN regfile ELSE [regfile EXCEPT ![r] = v]
        BY <4>1, <4>2
      <4> HIDE DEF r, v
      <4>6. regfile' \in [Reg -> Word]
        BY <4>4, <4>5
      <4> QED  BY <4>3, <4>4, <4>6
    <3> QED  BY <1>1, <3>1, <3>2
  <2>4. reg_status' \in [Reg -> RegisterStatus]
    <3>1. reg_status \in [Reg -> RegisterStatus]
      BY DEF Inv, TypeOK
    <3>2. reg_status' = reg_status \/ reg_status' = StatusAfterCommit(entry.op.rd)
      BY <1>1, <2>1 DEF CommitStore, CommitRegister
    <3> DEFINE r == entry.op.rd
    <3> HIDE DEF r
    <3>3. StatusAfterCommit(r) \in [Reg -> RegisterStatus]
      BY <3>1 DEF StatusAfterCommit, RegisterStatus
    <3> QED  BY <3>1, <3>2, <3>3 DEF r
  <2>5. UNCHANGED <<decode_in, execute_out, reset>>
    BY <1>1 DEF CommitStore, CommitRegister, signals
  <2> QED  BY <2>1, <2>2, <2>3, <2>4, <2>5 DEF Inv, TypeOK
<1>2. CASE CommitReturn
  <2>1. UNCHANGED <<rs, rob, regfile, reg_status, memory, decode_in, execute_out, reset>>
    BY <1>2 DEF CommitReturn, euVars, signals
  <2> QED  BY <2>1 DEF Inv, TypeOK, RobSound, PacketsInFlight, StationsMatchRob,
                       AwaitsResult
<1> QED  BY <1>1, <1>2 DEF Commit

LEMMA ClockEdgeKeepsInv ==
  ASSUME Inv, ClockEdge
  PROVE  Inv'
<1>1. UNCHANGED <<rs, rob, regfile, reg_status, memory>>
  BY DEF ClockEdge, euVars
<1>2. /\ decode_in' \in Packets \union {NoPacket} /\ reset' \in BOOLEAN
      /\ execute_out' \in [cur : BranchResult \union {NoResult},
                           next : BranchResult \union {NoResult}]
  BY DEF ClockEdge, Inv, TypeOK
<1> QED  BY <1>1, <1>2 DEF Inv, TypeOK, RobSound, PacketsInFlight, StationsMatchRob,
                           AwaitsResult

LEMMA InvStep ==
  ASSUME Inv, [Next]_vars
  PROVE  Inv'
<1>1. CASE UNCHANGED vars
  BY <1>1 DEF vars, Inv, TypeOK, RobSound, PacketsInFlight, StationsMatchRob,
              AwaitsResult
<1> QED  BY <1>1, IssueKeepsInv, ExecuteKeepsInv, CompleteKeepsInv, CommitKeepsInv,
            ClockEdgeKeepsInv DEF Next

LEMMA InvHolds == Spec => []Inv
<1>1. Inv /\ [Next]_vars => Inv'
  BY InvStep
<1> QED  BY InitInv, <1>1, PTL DEF Spec

\* Every value the four processes pass one another stays a register value, a
\* tag, an index or a packet, whatever the decoder presents and in whatever
\* order the kernel runs them.
THEOREM UnitTypeCorrect == Spec => []TypeOK
<1>1. Inv => TypeOK
  BY DEF Inv
<1> QED  BY InvHolds, <1>1, PTL

\* The calls the four processes make keep the ring of the reorder buffer sound.
THEOREM UnitKeepsRingSound == Spec => []RobSound
<1>1. Inv => RobSound
  BY DEF Inv
<1> QED  BY InvHolds, <1>1, PTL

\* An instruction without a result sits in exactly one station slot: none is
\* lost, executed twice, or executed after it left the buffer.
THEOREM StationsAndRobAgree == Spec => []StationsMatchRob
<1>1. Inv => StationsMatchRob
  BY DEF Inv
<1> QED  BY InvHolds, <1>1, PTL

-----------------------------------------------------------------------------
(***************************************************************************)
(* Readiness: issue_proc and update_waiting_entries() set the flag from    *)
(* the two tags, and a tag that is reported is never 0, so no operand that *)
(* has arrived is taken away again.                                        *)
(***************************************************************************)
LEMMA ReadinessStep ==
  ASSUME Inv, ReadyIffOperandsArrived, [Next]_vars
  PROVE  ReadyIffOperandsArrived'
<1>1. CASE UNCHANGED rs
  BY <1>1 DEF ReadyIffOperandsArrived
<1>2. CASE IssueReset
  BY <1>2, ResetIsTyped DEF IssueReset, ReadyIffOperandsArrived
<1>3. CASE IssueAccepted
  <2>1. PICK q \in RsSlot, e \in RsEntry :
          rs' = Placed(q, e) /\ (e.ready <=> e.Qj = 0 /\ e.Qk = 0)
    BY <1>3, IssueIs DEF Issued
  <2>2. \A p \in RsSlot : rs'[p] = IF p = q THEN e ELSE rs[p]
    BY <2>1 DEF Placed, Inv, TypeOK
  <2> QED  BY <2>1, <2>2 DEF ReadyIffOperandsArrived
<1>4. CASE ExecuteAlu \/ ExecuteMem \/ ExecuteBranch
  <2>1. PICK q \in RsSlot, e \in RobEntry : Executed(q, e)
    BY <1>4, ExecuteAluIs, ExecuteMemIs, ExecuteBranchIs
  <2>2. \A p \in RsSlot : rs'[p] = IF p = q THEN FreeRsEntry ELSE rs[p]
    BY <2>1 DEF Executed, Placed, Inv, TypeOK
  <2> QED  BY <2>2 DEF ReadyIffOperandsArrived, FreeRsEntry
<1>5. CASE rs' = Woken
  <2> SUFFICES ASSUME NEW q \in RsSlot, rs[q].busy
               PROVE  Woken[q].ready <=> Woken[q].Qj = 0 /\ Woken[q].Qk = 0
    BY <1>5, WokenSlot DEF ReadyIffOperandsArrived
  <2>1. 0 \notin ReportedTags
    BY DEF ReportedTags, RobNewlyCompleted, RobSlot
  <2>2. rs[q].ready <=> rs[q].Qj = 0 /\ rs[q].Qk = 0
    BY DEF ReadyIffOperandsArrived
  <2> QED  BY <2>1, <2>2, WokenSlot
<1>6. CASE Complete
  BY <1>1, <1>5, <1>6, CompleteIs
<1> QED
  BY <1>1, <1>2, <1>3, <1>4, <1>6
  DEF Next, Issue, IssueNothing, IssueDropped, Execute, ExecuteReturn, Commit,
      CommitStore, CommitRegister, CommitReturn, ClockEdge, euVars, vars

\* No instruction runs on an operand that has not arrived, and none stays
\* behind when its operands are there: ready is never stale.
THEOREM ReadinessCorrect == Spec => []ReadyIffOperandsArrived
<1>1. Init => ReadyIffOperandsArrived
  BY ResetIsTyped DEF Init, ReadyIffOperandsArrived
<1>2. Inv /\ ReadyIffOperandsArrived /\ [Next]_vars => ReadyIffOperandsArrived'
  BY ReadinessStep
<1> QED  BY InvHolds, <1>1, <1>2, PTL DEF Spec

-----------------------------------------------------------------------------
(***************************************************************************)
(* Renaming: the status table follows the window.  A commit clears a mark  *)
(* exactly when the head is the youngest writer, and the head, being the   *)
(* oldest, is then the only one; a mark of an earlier user of the same     *)
(* slot cannot be left, because it would have to name a writer in flight.  *)
(***************************************************************************)
\* The writers of r among the slots of the window
LEMMA WriterIs ==
  ASSUME NEW r, NEW i
  PROVE  i \in WritersInFlight(r) <=>
           /\ i \in RobWindow(rob)
           /\ Renames(rob.entries[i].op) /\ rob.entries[i].op.rd = r
  BY DEF WritersInFlight, InFlight

LEMMA WriterIsPrimed ==
  ASSUME NEW r, NEW i
  PROVE  i \in WritersInFlight(r)' <=>
           /\ i \in RobWindow(rob')
           /\ Renames(rob'.entries[i].op) /\ rob'.entries[i].op.rd = r
  BY DEF WritersInFlight, InFlight, RobWindow, RobAge

\* Renaming of register r, over the writers and their ages
RenamingOf(r) ==
  /\ reg_status[r].busy <=> WritersInFlight(r) # {}
  /\ reg_status[r].busy =>
       /\ reg_status[r].rob_entry \in WritersInFlight(r)
       /\ \A i \in WritersInFlight(r) :
            RobAge(rob, i) <= RobAge(rob, reg_status[r].rob_entry)

\* It survives a step that changes neither the writers nor their order.
LEMMA RenamingUndisturbed ==
  ASSUME NEW r \in Reg, RenamingOf(r), reg_status'[r] = reg_status[r],
         WritersInFlight(r)' = WritersInFlight(r),
         \A i, k \in WritersInFlight(r) :
           RobAge(rob, i) <= RobAge(rob, k) => RobAge(rob', i) <= RobAge(rob', k)
  PROVE  RenamingOf(r)'
<1> DEFINE W == WritersInFlight(r)
<1>1. WritersInFlight(r)' = W
  OBVIOUS
<1>2. /\ reg_status[r].busy <=> W # {}
      /\ reg_status[r].busy =>
           /\ reg_status[r].rob_entry \in W
           /\ \A i \in W : RobAge(rob, i) <= RobAge(rob, reg_status[r].rob_entry)
  BY DEF RenamingOf
<1>3. \A i, k \in W :
        RobAge(rob, i) <= RobAge(rob, k) => RobAge(rob', i) <= RobAge(rob', k)
  OBVIOUS
<1> HIDE DEF W
<1>4. reg_status'[r].busy <=> W # {}
  BY <1>2
<1>5. ASSUME reg_status'[r].busy
      PROVE  /\ reg_status'[r].rob_entry \in W
             /\ \A i \in W : RobAge(rob', i) <= RobAge(rob', reg_status'[r].rob_entry)
  BY <1>2, <1>3, <1>5
<1> QED  BY <1>1, <1>4, <1>5 DEF RenamingOf

\* issue_proc: the new instruction is the youngest writer of its register.
LEMMA IssueKeepsRenaming ==
  ASSUME Inv, NEW op \in Packets, NEW f \in 0 .. 7, ~RobIsFull(rob),
         rob' = Allocated(rob, op, f),
         reg_status' = IF Renames(op)
           THEN [reg_status EXCEPT ![op.rd] = [busy |-> TRUE, rob_entry |-> rob.tail]]
           ELSE reg_status,
         NEW r \in Reg, RenamingOf(r)
  PROVE  RenamingOf(r)'
<1>1. rob \in RobType /\ RobRing(rob) /\ reg_status \in [Reg -> RegisterStatus]
  BY DEF Inv, TypeOK, RobSound
<1>2. /\ \A i \in RobSlot : RobAge(rob', i) = RobAge(rob, i)
      /\ \A i \in RobSlot :
           rob'.entries[i] = IF i = rob.tail THEN RobNewEntry(op, f) ELSE rob.entries[i]
      /\ \A i \in RobSlot :
           i \in RobWindow(rob') <=> i \in RobWindow(rob) \/ i = rob.tail
      /\ rob.tail \notin RobWindow(rob)
      /\ \A i \in RobWindow(rob) : RobAge(rob, i) < RobAge(rob, rob.tail)
  BY <1>1, AllocatedWindow
<1>3. rob.tail \in RobSlot /\ RobNewEntry(op, f).op = op
  BY <1>1, TailIsFree DEF RobNewEntry
<1>4. WritersInFlight(r) \subseteq RobSlot /\ WritersInFlight(r)' \subseteq RobSlot
  BY DEF WritersInFlight, InFlight, RobWindow
<1>5. \A i \in RobSlot : i \in WritersInFlight(r)' <=>
        i \in WritersInFlight(r) \/ (i = rob.tail /\ Renames(op) /\ op.rd = r)
  BY <1>2, <1>3, WriterIs, WriterIsPrimed
<1>6. CASE Renames(op) /\ op.rd = r
  <2>1. reg_status'[r].busy /\ reg_status'[r].rob_entry = rob.tail
    BY <1>1, <1>6
  <2>2. rob.tail \in WritersInFlight(r)'
    BY <1>3, <1>5, <1>6
  <2>3. \A i \in WritersInFlight(r)' : RobAge(rob', i) <= RobAge(rob', rob.tail)
    <3> SUFFICES ASSUME NEW i \in RobSlot, i \in RobWindow(rob) \/ i = rob.tail
                 PROVE  RobAge(rob, i) <= RobAge(rob, rob.tail)
      BY <1>2, <1>3, <1>4, <1>5, WriterIs
    <3>1. RobAge(rob, i) \in Int /\ RobAge(rob, rob.tail) \in Int
      BY <1>1, <1>3, AgeBounds
    <3> QED  BY <3>1, <1>2
  <2> QED  BY <2>1, <2>2, <2>3 DEF RenamingOf
<1>7. CASE ~(Renames(op) /\ op.rd = r)
  <2>1. reg_status'[r] = reg_status[r]
    BY <1>1, <1>7
  <2>2. WritersInFlight(r)' = WritersInFlight(r)
    BY <1>4, <1>5, <1>7
  <2>3. \A i, k \in WritersInFlight(r) :
          RobAge(rob, i) <= RobAge(rob, k) => RobAge(rob', i) <= RobAge(rob', k)
    BY <1>2, <1>4
  <2> QED  BY <2>1, <2>2, <2>3, RenamingUndisturbed
<1> QED  BY <1>6, <1>7

\* execute_proc and complete_proc: results rename nothing.
LEMMA ResultsKeepRenaming ==
  ASSUME Inv, NEW r \in Reg, RenamingOf(r), reg_status' = reg_status,
         RobWindow(rob') = RobWindow(rob),
         \A i \in RobSlot : RobAge(rob', i) = RobAge(rob, i),
         \A i \in RobSlot : rob'.entries[i].op = rob.entries[i].op
  PROVE  RenamingOf(r)'
<1>1. WritersInFlight(r) \subseteq RobSlot /\ WritersInFlight(r)' \subseteq RobSlot
  BY DEF WritersInFlight, InFlight, RobWindow
<1>2. \A i \in RobSlot : i \in WritersInFlight(r)' <=> i \in WritersInFlight(r)
  BY WriterIs, WriterIsPrimed
<1>3. WritersInFlight(r)' = WritersInFlight(r)
  BY <1>1, <1>2
<1> QED  BY <1>1, <1>3, RenamingUndisturbed

\* commit_proc: the writers of the head's register lose their oldest.
LEMMA CommitKeepsRenaming ==
  ASSUME Inv, CommitStore \/ CommitRegister, NEW r \in Reg, RenamingOf(r)
  PROVE  RenamingOf(r)'
<1> DEFINE h == rob.head
           op == rob.entries[rob.head].op
           W == WritersInFlight(r)
           youngest == reg_status[r].rob_entry
<1>1. rob \in RobType /\ RobRing(rob) /\ reg_status \in [Reg -> RegisterStatus]
  BY DEF Inv, TypeOK, RobSound
<1>2. /\ ~RobIsEmpty(rob) /\ h \in RobSlot /\ op \in Packets
      /\ RobGetHeadEntry(rob) = rob.entries[h]
      /\ rob' = RobRemoveHead(rob)
  BY CommitIs
<1>3. /\ \A i \in RobSlot : i # h => RobAge(rob', i) = RobAge(rob, i) - 1
      /\ \A i \in RobSlot : i # h => rob'.entries[i] = rob.entries[i]
      /\ \A i \in RobSlot : i \in RobWindow(rob') <=> i \in RobWindow(rob) /\ i # h
      /\ h \in RobWindow(rob)
  BY <1>1, <1>2, RemoveHeadWindow
<1>4. W \subseteq RobSlot /\ WritersInFlight(r)' \subseteq RobSlot
  BY DEF WritersInFlight, InFlight, RobWindow
<1>5. \A i \in RobSlot : i \in WritersInFlight(r)' <=> i \in W /\ i # h
  BY <1>2, <1>3, WriterIs, WriterIsPrimed
<1>6. h \in W <=> Renames(op) /\ op.rd = r
  BY <1>3, WriterIs
<1>7. \A i \in RobSlot : RobAge(rob, i) \in Nat
  BY <1>1, AgeBounds
<1>8. \A i, k \in W \ {h} :
        RobAge(rob, i) <= RobAge(rob, k) => RobAge(rob', i) <= RobAge(rob', k)
  BY <1>3, <1>4, <1>7
<1>9. reg_status' = reg_status \/ reg_status' = StatusAfterCommit(op.rd)
  BY <1>2 DEF CommitStore, CommitRegister
<1> HIDE DEF op
<1>10. CASE h \notin W
  <2>1. WritersInFlight(r)' = W
    BY <1>4, <1>5, <1>10
  <2>2. reg_status'[r] = reg_status[r]
    <3>1. CASE CommitStore
      BY <3>1 DEF CommitStore
    <3>2. CASE CommitRegister
      <4>1. op.opcode # "STORE" /\ reg_status' = StatusAfterCommit(op.rd)
        BY <3>2, <1>2 DEF CommitRegister, op
      <4>2. op.rd # r \/ reg_status[r].busy = FALSE \/ youngest # h \/ op.rd = 0
        BY <1>10 DEF RenamingOf
      <4>3. reg_status[r] \in RegisterStatus
        BY <1>1
      <4>4. CASE reg_status[r].busy = FALSE
        <5>1. [reg_status[r] EXCEPT !.busy = FALSE] = reg_status[r]
          BY <4>3, <4>4 DEF RegisterStatus
        <5> QED  BY <4>1, <5>1, <1>1 DEF StatusAfterCommit
      <4>5. CASE reg_status[r].busy # FALSE
        BY <4>1, <4>2, <4>5, <1>1 DEF StatusAfterCommit
      <4> QED  BY <4>4, <4>5
    <3> QED  BY <3>1, <3>2
  <2>3. \A i, k \in W :
          RobAge(rob, i) <= RobAge(rob, k) => RobAge(rob', i) <= RobAge(rob', k)
    BY <1>8, <1>10
  <2> QED  BY <2>1, <2>2, <2>3, RenamingUndisturbed
<1>11. CASE h \in W
  <2>1. op.rd = r /\ r # 0 /\ op.opcode # "STORE"
    BY <1>6, <1>11 DEF Renames
  <2>2. reg_status' = StatusAfterCommit(r)
    BY <1>2, <2>1 DEF CommitStore, CommitRegister, op
  <2>3. reg_status[r].busy /\ youngest \in W
          /\ \A i \in W : RobAge(rob, i) <= RobAge(rob, youngest)
    BY <1>11 DEF RenamingOf
  <2>4. CASE youngest = h
    <3>1. ~reg_status'[r].busy
      BY <1>1, <2>1, <2>2, <2>4 DEF StatusAfterCommit
    <3>2. \A i \in W : i = h
      <4> SUFFICES ASSUME NEW i \in W PROVE RobAge(rob, i) = RobAge(rob, h)
        BY <1>1, <1>2, <1>4, AgeInjective
      <4>1. RobAge(rob, h) = 0
        BY <1>1, HeadAge
      <4> QED  BY <4>1, <2>3, <2>4, <1>4, <1>7
    <3>3. WritersInFlight(r)' = {}
      BY <3>2, <1>4, <1>5
    <3> QED  BY <3>1, <3>3 DEF RenamingOf
  <2>5. CASE youngest # h
    <3>1. reg_status'[r] = reg_status[r]
      BY <1>1, <2>2, <2>5 DEF StatusAfterCommit
    <3>2. youngest \in WritersInFlight(r)'
      BY <2>3, <2>5, <1>4, <1>5
    <3>3. \A i \in WritersInFlight(r)' : RobAge(rob', i) <= RobAge(rob', youngest)
      BY <2>3, <2>5, <1>4, <1>5, <1>8
    <3> QED  BY <3>1, <3>2, <3>3, <2>3 DEF RenamingOf
  <2> QED  BY <2>4, <2>5
<1> QED  BY <1>10, <1>11

LEMMA RenamingStep ==
  ASSUME Inv, [Next]_vars, NEW r \in Reg, RenamingOf(r)
  PROVE  RenamingOf(r)'
<1>1. CASE UNCHANGED <<rob, reg_status>>
  BY <1>1 DEF RenamingOf, WritersInFlight, InFlight
<1>2. CASE IssueReset
  <2>1. rob' = RobReset /\ reg_status' = RegStatusReset
    BY <1>2 DEF IssueReset
  <2>2. WritersInFlight(r)' = {}
    <3>1. \A i \in RobSlot : i \notin RobWindow(rob')
      <4>1. \A i \in RobSlot : ~RobReset.entries[i].busy
        BY DEF RobReset, FreeRobEntry
      <4> QED  BY <4>1, <2>1, ResetSound, WindowIsBusy
    <3> QED  BY <3>1, WriterIsPrimed DEF RobWindow
  <2>3. ~reg_status'[r].busy
    BY <2>1 DEF RegStatusReset
  <2> QED  BY <2>2, <2>3 DEF RenamingOf
<1>3. CASE IssueAccepted
  <2>1. PICK f \in 0 .. 7 :
          ~RobIsFull(rob) /\ decode_in \in Packets /\ rob' = Allocated(rob, decode_in, f)
    BY <1>3, IssueIs
  <2>2. reg_status' = IF Renames(decode_in)
          THEN [reg_status EXCEPT ![decode_in.rd] =
                  [busy |-> TRUE, rob_entry |-> rob.tail]]
          ELSE reg_status
    BY <1>3 DEF IssueAccepted
  <2> QED  BY <2>1, <2>2, IssueKeepsRenaming
<1>4. CASE ExecuteAlu \/ ExecuteMem \/ ExecuteBranch
  <2>1. PICK q \in RsSlot, e \in RobEntry : Executed(q, e)
    BY <1>4, ExecuteAluIs, ExecuteMemIs, ExecuteBranchIs
  <2>2. reg_status' = reg_status
    BY <1>4 DEF ExecuteAlu, ExecuteMem, ExecuteBranch
  <2>3. /\ RobWindow(rob') = RobWindow(rob)
        /\ \A i \in RobSlot : RobAge(rob', i) = RobAge(rob, i)
        /\ \A i \in RobSlot : rob'.entries[i].op = rob.entries[i].op
    BY <2>1, MarkedWindow DEF Executed, Inv, TypeOK
  <2> QED  BY <2>2, <2>3, ResultsKeepRenaming
<1>5. CASE Complete /\ rob' = RobAfterReport(rob)
  <2>1. reg_status' = reg_status
    BY <1>5 DEF Complete
  <2>2. /\ RobWindow(rob') = RobWindow(rob)
        /\ \A i \in RobSlot : RobAge(rob', i) = RobAge(rob, i)
        /\ rob'.entries = rob.entries
    BY <1>5, ReportWindow DEF Inv, TypeOK
  <2> QED  BY <2>1, <2>2, ResultsKeepRenaming
<1>6. CASE Complete
  BY <1>1, <1>5, <1>6, CompleteIs DEF Complete
<1>7. CASE CommitStore \/ CommitRegister
  BY <1>7, CommitKeepsRenaming
<1> QED
  BY <1>1, <1>2, <1>3, <1>4, <1>6, <1>7
  DEF Next, Issue, IssueNothing, IssueDropped, Execute, ExecuteReturn, Commit,
      CommitReturn, ClockEdge, euVars, vars

LEMMA RenamingInit == Init => RenamingTracksYoungestWriter
<1> SUFFICES ASSUME Init, NEW r \in Reg PROVE RenamingOf(r)
  BY DEF RenamingTracksYoungestWriter, RenamingOf
<1>1. rob = RobReset /\ reg_status = RegStatusReset
  BY DEF Init
<1>2. \A i \in RobSlot : i \notin RobWindow(rob)
  <2>1. \A i \in RobSlot : ~RobReset.entries[i].busy
    BY DEF RobReset, FreeRobEntry
  <2> QED  BY <2>1, <1>1, ResetSound, WindowIsBusy
<1>3. WritersInFlight(r) = {} /\ ~reg_status[r].busy
  BY <1>1, <1>2, WriterIs DEF RobWindow, RegStatusReset
<1> QED  BY <1>3 DEF RenamingOf

LEMMA RenamingKept ==
  Inv /\ RenamingTracksYoungestWriter /\ [Next]_vars => RenamingTracksYoungestWriter'
<1> SUFFICES ASSUME Inv, RenamingTracksYoungestWriter, [Next]_vars, NEW r \in Reg
             PROVE  RenamingOf(r)'
  BY DEF RenamingTracksYoungestWriter, RenamingOf
<1>1. RenamingOf(r)
  BY DEF RenamingTracksYoungestWriter, RenamingOf
<1> QED  BY <1>1, RenamingStep

\* The status table marks a register exactly when an instruction in flight
\* will write it, and names the youngest one, although commit_proc compares
\* buffer indices that are reused.
THEOREM RenamingCorrect == Spec => []RenamingTracksYoungestWriter
<1> QED  BY InvHolds, RenamingInit, RenamingKept, PTL DEF Spec

-----------------------------------------------------------------------------
(***************************************************************************)
(* Out-of-order execution is invisible: ExecutionUnit implements           *)
(* SequentialMachine.  The theorem holds for every size of the buffer and  *)
(* the stations, every ALU and every initial memory, when results are      *)
(* forwarded before they commit (ForwardsInOrder: execute_proc,            *)
(* complete_proc and commit_proc run in this order at every edge, with     *)
(* issue_proc anywhere) and the packets keep away from the two things the  *)
(* code does not do: order loads after stores, and keep a branch from      *)
(* writing a register.                                                     *)
(*                                                                         *)
(* The argument follows a value from its producer to its consumers.  The   *)
(* producer of register r for instruction i is the youngest older writer   *)
(* of r in flight.  An operand is the tag of its producer until the result *)
(* is reported, then the producer's value, and once the producer commits   *)
(* it is what the register file holds.  So when an instruction is the      *)
(* head, nothing older is in flight, its operands were the registers, and  *)
(* its result is the sequential one.                                       *)
(***************************************************************************)

-----------------------------------------------------------------------------
(***************************************************************************)
(* Producers, over the reorder buffer b and the register file x.           *)
(***************************************************************************)
WriterOf(b, w, r) ==
  /\ w \in RobWindow(b)
  /\ Renames(b.entries[w].op) /\ b.entries[w].op.rd = r

NoProducer(b, i, r) ==
  \A u \in RobSlot : WriterOf(b, u, r) => ~(RobAge(b, u) < RobAge(b, i))

Producer(b, w, i, r) ==
  /\ w \in RobSlot /\ WriterOf(b, w, r) /\ RobAge(b, w) < RobAge(b, i)
  /\ \A u \in RobSlot :
       WriterOf(b, u, r) /\ RobAge(b, u) < RobAge(b, i) => RobAge(b, u) <= RobAge(b, w)

\* The value of register r for instruction i, once it is known
Delivered(b, x, i, r, v) ==
  \/ NoProducer(b, i, r) /\ v = x[r]
  \/ \E w \in RobSlot :
       Producer(b, w, i, r) /\ b.entries[w].completed /\ v = b.entries[w].value

\* The result of w has still to be reported to the stations.
Unreported(b, w) == ~b.entries[w].completed \/ b.newly_completed[w]

\* Producers depend on the window, the ages and the instructions only.
LEMMA ProducersUnmoved ==
  ASSUME NEW b, NEW c, RobWindow(c) = RobWindow(b),
         \A i \in RobSlot : RobAge(c, i) = RobAge(b, i),
         \A i \in RobSlot : c.entries[i].op = b.entries[i].op,
         NEW i \in RobSlot, NEW r
  PROVE  /\ NoProducer(c, i, r) <=> NoProducer(b, i, r)
         /\ \A w \in RobSlot : Producer(c, w, i, r) <=> Producer(b, w, i, r)
<1>1. \A u \in RobSlot : WriterOf(c, u, r) <=> WriterOf(b, u, r)
  BY DEF WriterOf
<1> QED  BY <1>1 DEF NoProducer, Producer

\* A new instruction is younger than all others, so it produces for none of
\* them, and all writers in flight come before it.
LEMMA ProducersAtIssue ==
  ASSUME NEW b \in RobType, RobRing(b), ~RobIsFull(b),
         NEW op \in Packets, NEW f \in 0 .. 7, NEW r
  PROVE  LET c == Allocated(b, op, f) IN
         /\ \A i \in RobWindow(b) : NoProducer(c, i, r) <=> NoProducer(b, i, r)
         /\ \A i \in RobWindow(b), w \in RobSlot :
              Producer(c, w, i, r) <=> Producer(b, w, i, r)
         /\ (\A u \in RobSlot : ~WriterOf(b, u, r)) => NoProducer(c, b.tail, r)
         /\ \A w \in RobSlot :
              /\ WriterOf(b, w, r)
              /\ \A u \in RobSlot : WriterOf(b, u, r) => RobAge(b, u) <= RobAge(b, w)
              => Producer(c, w, b.tail, r)
<1> DEFINE c == Allocated(b, op, f)
<1>1. /\ \A i \in RobSlot : RobAge(c, i) = RobAge(b, i)
      /\ \A i \in RobSlot :
           c.entries[i] = IF i = b.tail THEN RobNewEntry(op, f) ELSE b.entries[i]
      /\ \A i \in RobSlot : i \in RobWindow(c) <=> i \in RobWindow(b) \/ i = b.tail
      /\ b.tail \notin RobWindow(b)
      /\ \A i \in RobWindow(b) : RobAge(b, i) < RobAge(b, b.tail)
  BY AllocatedWindow
<1>2. RobWindow(b) \subseteq RobSlot /\ b.tail \in RobSlot
  BY TailIsFree DEF RobWindow
<1>3. \A i \in RobSlot : RobAge(b, i) \in Int
  BY AgeBounds
<1> HIDE DEF c
<1>4. \A u \in RobSlot : u # b.tail => (WriterOf(c, u, r) <=> WriterOf(b, u, r))
  BY <1>1 DEF WriterOf
<1>5. ~WriterOf(b, b.tail, r)
  BY <1>1 DEF WriterOf
<1>6. \A i \in RobWindow(b) : ~(RobAge(c, b.tail) < RobAge(c, i))
  BY <1>1, <1>2, <1>3
<1>7. ASSUME NEW i \in RobWindow(b)
      PROVE  /\ NoProducer(c, i, r) <=> NoProducer(b, i, r)
             /\ \A w \in RobSlot : Producer(c, w, i, r) <=> Producer(b, w, i, r)
  <2>1. \A u \in RobSlot : WriterOf(c, u, r) /\ RobAge(c, u) < RobAge(c, i)
                             <=> WriterOf(b, u, r) /\ RobAge(b, u) < RobAge(b, i)
    BY <1>1, <1>2, <1>4, <1>5, <1>6
  <2>2. NoProducer(c, i, r) <=> NoProducer(b, i, r)
    BY <2>1 DEF NoProducer
  <2>3. \A w \in RobSlot : Producer(c, w, i, r) <=> Producer(b, w, i, r)
    BY <2>1, <1>1 DEF Producer
  <2> QED  BY <2>2, <2>3
<1>8. \A u \in RobSlot : WriterOf(c, u, r) /\ RobAge(c, u) < RobAge(c, b.tail)
                           => WriterOf(b, u, r)
  BY <1>1, <1>2, <1>3, <1>4
<1>9. (\A u \in RobSlot : ~WriterOf(b, u, r)) => NoProducer(c, b.tail, r)
  BY <1>8 DEF NoProducer
<1>10. ASSUME NEW w \in RobSlot, WriterOf(b, w, r),
              \A u \in RobSlot : WriterOf(b, u, r) => RobAge(b, u) <= RobAge(b, w)
       PROVE  Producer(c, w, b.tail, r)
  <2>1. w # b.tail /\ WriterOf(c, w, r)
    BY <1>4, <1>5, <1>10
  <2>2. RobAge(c, w) < RobAge(c, b.tail)
    BY <1>1, <1>2, <1>10 DEF WriterOf
  <2>3. \A u \in RobSlot : WriterOf(c, u, r) /\ RobAge(c, u) < RobAge(c, b.tail)
                             => RobAge(c, u) <= RobAge(c, w)
    BY <1>1, <1>8, <1>10
  <2> QED  BY <2>1, <2>2, <2>3 DEF Producer
<1> QED  BY <1>7, <1>9, <1>10 DEF c

\* When the head commits, the instructions it produced for have no producer
\* any more, and all others keep theirs.
LEMMA ProducersAtCommit ==
  ASSUME NEW b \in RobType, RobRing(b), ~RobIsEmpty(b), NEW r,
         NEW i \in RobWindow(b), i # b.head
  PROVE  LET c == RobRemoveHead(b) IN
         /\ Producer(b, b.head, i, r) => NoProducer(c, i, r)
         /\ NoProducer(b, i, r) => NoProducer(c, i, r) /\ ~WriterOf(b, b.head, r)
         /\ \A w \in RobSlot : w # b.head /\ Producer(b, w, i, r) => Producer(c, w, i, r)
<1> DEFINE c == RobRemoveHead(b)
<1>1. /\ \A k \in RobSlot : k # b.head => RobAge(c, k) = RobAge(b, k) - 1
      /\ \A k \in RobSlot :
           c.entries[k] = IF k = b.head THEN FreeRobEntry ELSE b.entries[k]
      /\ \A k \in RobSlot : k \in RobWindow(c) <=> k \in RobWindow(b) /\ k # b.head
  BY RemoveHeadWindow
<1>2. i \in RobSlot /\ b.head \in RobSlot /\ RobAge(b, b.head) = 0
  BY HeadAge DEF RobWindow
<1>3. \A k \in RobSlot : RobAge(b, k) \in Nat
  BY AgeBounds
<1> HIDE DEF c
<1>4. \A k \in RobSlot : k # b.head => RobAge(b, k) > 0
  BY <1>2, <1>3, AgeInjective
<1>5. \A u \in RobSlot : WriterOf(c, u, r) <=> u # b.head /\ WriterOf(b, u, r)
  BY <1>1 DEF WriterOf
<1>6. \A u \in RobSlot : WriterOf(c, u, r) /\ RobAge(c, u) < RobAge(c, i)
                           => /\ u # b.head
                              /\ WriterOf(b, u, r) /\ RobAge(b, u) < RobAge(b, i)
  BY <1>1, <1>2, <1>3, <1>5
<1>7. ASSUME Producer(b, b.head, i, r) PROVE NoProducer(c, i, r)
  BY <1>2, <1>3, <1>4, <1>6, <1>7 DEF Producer, NoProducer
<1>8. ASSUME NoProducer(b, i, r)
      PROVE  NoProducer(c, i, r) /\ ~WriterOf(b, b.head, r)
  BY <1>2, <1>4, <1>6, <1>8 DEF NoProducer
<1>9. ASSUME NEW w \in RobSlot, w # b.head, Producer(b, w, i, r)
      PROVE  Producer(c, w, i, r)
  <2>1. WriterOf(c, w, r) /\ RobAge(c, w) < RobAge(c, i)
    BY <1>1, <1>2, <1>3, <1>5, <1>9 DEF Producer
  <2>2. \A u \in RobSlot : WriterOf(c, u, r) /\ RobAge(c, u) < RobAge(c, i)
                             => RobAge(c, u) <= RobAge(c, w)
    BY <1>1, <1>3, <1>6, <1>9 DEF Producer
  <2> QED  BY <2>1, <2>2 DEF Producer
<1> QED  BY <1>7, <1>8, <1>9 DEF c

-----------------------------------------------------------------------------
(***************************************************************************)
(* Values stay delivered: while results arrive, while new instructions     *)
(* enter, and across the commit that moves a value from the reorder buffer *)
(* to the register file.                                                   *)
(***************************************************************************)
LEMMA DeliveredUnmoved ==
  ASSUME NEW b, NEW c, NEW x, RobWindow(c) = RobWindow(b),
         \A i \in RobSlot : RobAge(c, i) = RobAge(b, i),
         \A i \in RobSlot : c.entries[i].op = b.entries[i].op,
         \A i \in RobSlot : b.entries[i].busy /\ b.entries[i].completed =>
           c.entries[i].completed /\ c.entries[i].value = b.entries[i].value,
         \A i \in RobWindow(b) : b.entries[i].busy,
         NEW i \in RobSlot, NEW r, NEW v, Delivered(b, x, i, r, v)
  PROVE  Delivered(c, x, i, r, v)
<1>1. CASE NoProducer(b, i, r) /\ v = x[r]
  BY <1>1, ProducersUnmoved DEF Delivered
<1>2. ASSUME NEW w \in RobSlot, Producer(b, w, i, r), b.entries[w].completed,
             v = b.entries[w].value
      PROVE  Delivered(c, x, i, r, v)
  <2>1. b.entries[w].busy
    BY <1>2 DEF Producer, WriterOf
  <2>2. Producer(c, w, i, r)
    BY <1>2, ProducersUnmoved
  <2> QED  BY <1>2, <2>1, <2>2 DEF Delivered
<1> QED  BY <1>1, <1>2 DEF Delivered

LEMMA DeliveredAtIssue ==
  ASSUME NEW b \in RobType, RobRing(b), ~RobIsFull(b), NEW x,
         NEW op \in Packets, NEW f \in 0 .. 7,
         NEW i \in RobWindow(b), NEW r, NEW v, Delivered(b, x, i, r, v)
  PROVE  Delivered(Allocated(b, op, f), x, i, r, v)
<1> DEFINE c == Allocated(b, op, f)
<1>1. /\ NoProducer(c, i, r) <=> NoProducer(b, i, r)
      /\ \A w \in RobSlot : Producer(c, w, i, r) <=> Producer(b, w, i, r)
  BY ProducersAtIssue
<1>2. /\ \A k \in RobSlot :
           c.entries[k] = IF k = b.tail THEN RobNewEntry(op, f) ELSE b.entries[k]
      /\ b.tail \notin RobWindow(b)
  BY AllocatedWindow
<1> HIDE DEF c
<1>3. \A w \in RobSlot : Producer(b, w, i, r) => c.entries[w] = b.entries[w]
  BY <1>2 DEF Producer, WriterOf
<1> QED  BY <1>1, <1>3 DEF Delivered, c

\* y is the register file x once the head of b has committed.
Committed(b, x, y) == \A r \in Reg :
  /\ WriterOf(b, b.head, r) => y[r] = b.entries[b.head].value
  /\ ~WriterOf(b, b.head, r) => y[r] = x[r]

LEMMA DeliveredAtCommit ==
  ASSUME NEW b \in RobType, RobRing(b), ~RobIsEmpty(b), NEW x, NEW y,
         Committed(b, x, y),
         NEW i \in RobWindow(b), i # b.head,
         NEW r \in Reg, NEW v, Delivered(b, x, i, r, v)
  PROVE  Delivered(RobRemoveHead(b), y, i, r, v)
<1> DEFINE c == RobRemoveHead(b)
<1>1. /\ Producer(b, b.head, i, r) => NoProducer(c, i, r)
      /\ NoProducer(b, i, r) => NoProducer(c, i, r) /\ ~WriterOf(b, b.head, r)
      /\ \A w \in RobSlot : w # b.head /\ Producer(b, w, i, r) => Producer(c, w, i, r)
  BY ProducersAtCommit
<1>2. \A k \in RobSlot :
        c.entries[k] = IF k = b.head THEN FreeRobEntry ELSE b.entries[k]
  BY RemoveHeadWindow
<1> HIDE DEF c
<1>3. CASE NoProducer(b, i, r) /\ v = x[r]
  BY <1>1, <1>3 DEF Delivered, Committed, c
<1>4. ASSUME NEW w \in RobSlot, Producer(b, w, i, r), b.entries[w].completed,
             v = b.entries[w].value
      PROVE  Delivered(c, y, i, r, v)
  <2>1. CASE w = b.head
    <3>1. WriterOf(b, b.head, r)
      BY <1>4, <2>1 DEF Producer
    <3> QED  BY <1>1, <1>4, <2>1, <3>1 DEF Delivered, Committed
  <2>2. CASE w # b.head
    BY <1>1, <1>2, <1>4, <2>2 DEF Delivered
  <2> QED  BY <2>1, <2>2
<1> QED  BY <1>3, <1>4 DEF Delivered, c

\* What the head reads is what the register file holds.
LEMMA DeliveredToHead ==
  ASSUME NEW b \in RobType, NEW x, NEW r, NEW v, Delivered(b, x, b.head, r, v)
  PROVE  v = x[r]
<1>1. b.head \in RobSlot /\ RobAge(b, b.head) = 0
  BY HeadAge
<1>2. \A w \in RobSlot : RobAge(b, w) \in Nat
  BY AgeBounds
<1>3. \A w \in RobSlot : ~Producer(b, w, b.head, r)
  BY <1>1, <1>2 DEF Producer
<1> QED  BY <1>3 DEF Delivered

-----------------------------------------------------------------------------
(***************************************************************************)
(* What the order of the processes gives: while a result is unreported,    *)
(* complete_proc has still to run at this edge, and commit_proc has to     *)
(* wait for it.                                                            *)
(***************************************************************************)
StillToRun(p) == \E k \in 1 .. Len(pending) : pending[k] = p

OrderInv ==
  /\ pending \in Seq(STRING) /\ InForwardingOrder(pending)
  /\ FixedOrder => order \in Orders
  /\ reset => rob = RobReset
  /\ \A i \in RobSlot : rob.newly_completed[i] => StillToRun("complete")

LEMMA TailInOrder ==
  ASSUME NEW o \in Seq(STRING), o # <<>>, InForwardingOrder(o)
  PROVE  Tail(o) \in Seq(STRING) /\ InForwardingOrder(Tail(o))
<1>1. /\ Tail(o) \in Seq(STRING) /\ Len(Tail(o)) = Len(o) - 1 /\ Len(o) \in Nat
      /\ \A k \in 1 .. Len(Tail(o)) : Tail(o)[k] = o[k + 1]
  OBVIOUS
<1> DEFINE t == Tail(o)
<1> HIDE DEF t
<1>2. ASSUME NEW j \in 1 .. Len(t), t[j] = "execute"
      PROVE  \E k \in 1 .. Len(t) : j < k /\ t[k] = "complete"
  <2>1. PICK k \in 1 .. Len(o) : j + 1 < k /\ o[k] = "complete"
    BY <1>1, <1>2 DEF InForwardingOrder, t
  <2>2. k - 1 \in 1 .. Len(t) /\ j < k - 1 /\ t[k - 1] = o[k]
    BY <1>1, <2>1 DEF t
  <2> QED  BY <2>1, <2>2
<1>3. ASSUME NEW j \in 1 .. Len(t), t[j] = "commit",
             NEW k \in 1 .. Len(t), t[k] = "complete"
      PROVE  k < j
  <2>1. /\ j + 1 \in 1 .. Len(o) /\ o[j + 1] = "commit"
        /\ k + 1 \in 1 .. Len(o) /\ o[k + 1] = "complete"
    BY <1>1, <1>3 DEF t
  <2>2. k + 1 < j + 1
    BY <2>1 DEF InForwardingOrder
  <2> QED  BY <2>2, <1>1
<1> QED  BY <1>1, <1>2, <1>3 DEF InForwardingOrder, t

\* A process that returns leaves the others to run.
LEMMA ReturnKeeps ==
  ASSUME NEW p, pending \in Seq(STRING), Running(p), Return,
         p # "complete", StillToRun("complete")
  PROVE  StillToRun("complete")'
<1>1. /\ Len(Tail(pending)) = Len(pending) - 1 /\ Len(pending) \in Nat
      /\ \A k \in 1 .. Len(Tail(pending)) : Tail(pending)[k] = pending[k + 1]
      /\ pending' = Tail(pending) /\ pending[1] = p
  BY DEF Running, Return
<1>2. PICK k \in 1 .. Len(pending) : pending[k] = "complete"
  BY DEF StillToRun
<1>3. k # 1
  BY <1>1, <1>2
<1>4. k - 1 \in 1 .. Len(pending') /\ pending'[k - 1] = "complete"
  BY <1>1, <1>2, <1>3
<1> QED  BY <1>4 DEF StillToRun

\* When commit_proc runs, all results are reported.
LEMMA AllReportedAtCommit ==
  ASSUME OrderInv, Running("commit")
  PROVE  \A i \in RobSlot : ~rob.newly_completed[i]
<1>1. Len(pending) \in Nat /\ 1 \in 1 .. Len(pending) /\ pending[1] = "commit"
  BY DEF OrderInv, Running
<1>2. \A k \in 1 .. Len(pending) : pending[k] = "complete" => k < 1
  BY <1>1 DEF OrderInv, InForwardingOrder
<1> QED  BY <1>1, <1>2 DEF OrderInv, StillToRun

\* When execute_proc runs, complete_proc comes after it.
LEMMA ReportFollowsExecute ==
  ASSUME OrderInv, Running("execute")
  PROVE  StillToRun("complete")
<1>1. 1 \in 1 .. Len(pending) /\ pending[1] = "execute"
  BY DEF OrderInv, Running
<1> QED  BY <1>1 DEF OrderInv, InForwardingOrder, StillToRun

LEMMA OrderInit == ASSUME ForwardsInOrder, Init PROVE OrderInv
<1>1. (order \in Orders /\ pending \in Orders) \/ (~FixedOrder /\ pending \in Orders)
  BY KernelAssumption DEF Init, KernelInit, EdgeOrders
<1>2. \A i \in RobSlot : ~rob.newly_completed[i]
  BY DEF Init, RobReset
<1> QED  BY <1>1, <1>2, KernelAssumption DEF OrderInv, ForwardsInOrder, Init

LEMMA OrderStep ==
  ASSUME ForwardsInOrder, Inv, OrderInv, [Next]_vars
  PROVE  OrderInv'
<1>1. ASSUME NEW p, Running(p), Return
      PROVE  /\ pending' \in Seq(STRING) /\ InForwardingOrder(pending)'
             /\ FixedOrder => order' \in Orders
  <2>1. /\ pending' = Tail(pending) /\ order' = order /\ pending # <<>>
        /\ pending' \in Seq(STRING) /\ InForwardingOrder(pending')
    BY <1>1, TailInOrder DEF Running, Return, OrderInv
  <2> QED  BY <2>1 DEF InForwardingOrder, OrderInv
<1>2. /\ reset => \A i \in RobSlot : ~rob.newly_completed[i]
      /\ \A i \in RobSlot : ~RobReset.newly_completed[i]
  BY DEF OrderInv, RobReset
<1>3. CASE UNCHANGED <<rob, reset, order, pending>>
  BY <1>3 DEF OrderInv, StillToRun
<1>4. CASE IssueReset
  <2>1. rob' = RobReset
    BY <1>4 DEF IssueReset
  <2>2. Running("issue") /\ Return
    BY <1>4 DEF IssueReset
  <2>3. /\ pending' \in Seq(STRING) /\ InForwardingOrder(pending)'
        /\ FixedOrder => order' \in Orders
    BY <2>2, <1>1
  <2> QED  BY <2>1, <2>3, <1>2 DEF OrderInv
<1>5. CASE IssueNothing \/ IssueDropped
  <2>1. Running("issue") /\ Return /\ rob' = rob /\ reset' = reset
    BY <1>5 DEF IssueNothing, IssueDropped, euVars, signals
  <2> QED  BY <2>1, <1>1, ReturnKeeps DEF OrderInv
<1>6. CASE IssueAccepted
  <2>1. Running("issue") /\ Return /\ ~reset /\ reset' = reset
    BY <1>6 DEF IssueAccepted, signals
  <2>2. PICK f \in 0 .. 7 :
          ~RobIsFull(rob) /\ decode_in \in Packets /\ rob' = Allocated(rob, decode_in, f)
    BY <1>6, IssueIs
  <2>3. \A i \in RobSlot : rob'.newly_completed[i] => rob.newly_completed[i]
    BY <2>2, AllocatedWindow DEF Inv, TypeOK, RobSound
  <2> QED  BY <2>1, <2>3, <1>1, ReturnKeeps DEF OrderInv
<1>7. CASE ExecuteAlu \/ ExecuteMem \/ ExecuteBranch
  <2>1. Running("execute") /\ ~reset /\ UNCHANGED <<reset, order, pending>>
    BY <1>7 DEF ExecuteAlu, ExecuteMem, ExecuteBranch, signals, StillRunning, kernelVars
  <2>2. StillToRun("complete")'
    BY <2>1, ReportFollowsExecute DEF StillToRun
  <2> QED  BY <2>1, <2>2 DEF OrderInv
<1>8. CASE ExecuteReturn
  <2>1. Running("execute") /\ Return /\ rob' = rob /\ reset' = reset
    BY <1>8 DEF ExecuteReturn, euVars, signals
  <2> QED  BY <2>1, <1>1, ReturnKeeps DEF OrderInv
<1>9. CASE Complete
  <2>1. Running("complete") /\ Return /\ reset' = reset
    BY <1>9 DEF Complete, signals
  <2>2. /\ \A i \in RobSlot : ~rob'.newly_completed[i]
        /\ reset => rob' = rob
    <3>1. CASE ~reset /\ rob' = RobAfterReport(rob)
      BY <3>1, ReportWindow DEF Inv, TypeOK, RobSound, RobRing
    <3>2. CASE reset /\ rob' = rob
      BY <3>2, <1>2
    <3> QED  BY <3>1, <3>2, <1>9, CompleteIs
  <2> QED  BY <2>1, <2>2, <1>1 DEF OrderInv
<1>10. CASE CommitStore \/ CommitRegister
  <2>1. Running("commit") /\ ~reset /\ UNCHANGED <<reset, order, pending>>
    BY <1>10 DEF CommitStore, CommitRegister, Committing, signals, StillRunning, kernelVars
  <2>2. \A i \in RobSlot : ~rob'.newly_completed[i]
    BY <1>10, <2>1, AllReportedAtCommit, CommitIs, RemoveHeadWindow
    DEF Inv, TypeOK, RobSound
  <2> QED  BY <2>1, <2>2 DEF OrderInv
<1>11. CASE CommitReturn
  <2>1. Running("commit") /\ Return /\ rob' = rob /\ reset' = reset
    BY <1>11 DEF CommitReturn, euVars, signals
  <2> QED  BY <2>1, <1>1, ReturnKeeps DEF OrderInv
<1>12. CASE ClockEdge
  <2>1. /\ pending = <<>> /\ pending' \in EdgeOrders /\ order' = order
        /\ rob' = rob /\ (reset' = FALSE \/ reset' = reset)
    BY <1>12 DEF ClockEdge, NextEdge, euVars
  <2>2. pending' \in Seq(STRING) /\ InForwardingOrder(pending)'
    <3>1. pending' \in Orders
      BY <2>1 DEF OrderInv, EdgeOrders
    <3> QED  BY <3>1, KernelAssumption DEF ForwardsInOrder, InForwardingOrder
  <2>3. \A i \in RobSlot : ~rob'.newly_completed[i]
    BY <2>1 DEF OrderInv, StillToRun
  <2> QED  BY <2>1, <2>2, <2>3 DEF OrderInv
<1> QED
  BY <1>3, <1>4, <1>5, <1>6, <1>7, <1>8, <1>9, <1>10, <1>11, <1>12
  DEF Next, Issue, Execute, Commit, vars


-----------------------------------------------------------------------------
(***************************************************************************)
(* Wakeups.  An operand that is not there is the tag of its producer,      *)
(* whose result complete_proc has still to report.  The producer cannot    *)
(* leave before: it commits with a result, and no result is unreported     *)
(* when commit_proc runs.                                                  *)
(***************************************************************************)
OperandTag(b, i, needed, r, Q) ==
  Q # 0 => needed /\ Producer(b, Q - 1, i, r) /\ Unreported(b, Q - 1)

SlotTags(b, e) ==
  /\ OperandTag(b, e.rob_index, ReadsRs1(e.op), e.op.rs1, e.Qj)
  /\ OperandTag(b, e.rob_index, ReadsRs2(e.op), e.op.rs2, e.Qk)

TagsInv == \A q \in RsSlot : rs[q].busy => SlotTags(rob, rs[q])

LEMMA TagsInvPrimed ==
  ASSUME \A q \in RsSlot : rs'[q].busy => SlotTags(rob', rs'[q])
  PROVE  TagsInv'
  BY DEF TagsInv


\* The value of an operand that is there, or is not needed
OperandValue(b, x, i, needed, r, V, Q) ==
  IF needed THEN Q = 0 => Delivered(b, x, i, r, V) ELSE V = 0

\* issue_proc finds the producer, or its value, through the status table.
LEMMA IssuedOperand ==
  ASSUME Inv, RenamingTracksYoungestWriter, ~RobIsFull(rob),
         NEW op \in Packets, NEW f \in 0 .. 7, NEW needed \in BOOLEAN, NEW r \in Reg
  PROVE  LET c == Allocated(rob, op, f)
             o == Operand(c, needed, r)
         IN  /\ OperandTag(c, rob.tail, needed, r, o.Q)
             /\ OperandValue(c, regfile, rob.tail, needed, r, o.V, o.Q)
<1> DEFINE c == Allocated(rob, op, f)
           o == Operand(c, needed, r)
           wait == reg_status[r].rob_entry
<1>1. rob \in RobType /\ RobRing(rob)
  BY DEF Inv, TypeOK, RobSound
<1>2. c \in RobType /\ RobRing(c)
  BY <1>1, AllocatedSound
<1>3. wait \in RobSlot
  BY DEF Inv, TypeOK, RegisterStatus
<1>4. ~reg_status[r].busy => NoProducer(c, rob.tail, r)
  <2>1. ~reg_status[r].busy => \A u \in RobSlot : ~WriterOf(rob, u, r)
    BY WriterIs DEF RenamingTracksYoungestWriter, WriterOf
  <2> QED  BY <1>1, <2>1, ProducersAtIssue
<1>5. reg_status[r].busy => Producer(c, wait, rob.tail, r) /\ c.entries[wait].busy
  <2> SUFFICES ASSUME reg_status[r].busy
               PROVE  Producer(c, wait, rob.tail, r) /\ c.entries[wait].busy
    OBVIOUS
  <2>1. /\ WriterOf(rob, wait, r)
        /\ \A u \in RobSlot : WriterOf(rob, u, r) => RobAge(rob, u) <= RobAge(rob, wait)
    BY WriterIs DEF RenamingTracksYoungestWriter, WriterOf
  <2>2. Producer(c, wait, rob.tail, r)
    BY <1>1, <1>3, <2>1, ProducersAtIssue
  <2>3. c.entries[wait].busy
    BY <1>2, <1>3, <2>2, WindowIsBusy DEF Producer, WriterOf
  <2> QED  BY <2>2, <2>3
<1> HIDE DEF c
<1>6. /\ OperandTag(c, rob.tail, needed, r, o.Q)
      /\ OperandValue(c, regfile, rob.tail, needed, r, o.V, o.Q)
  <2>1. CASE ~needed
    BY <2>1 DEF Operand, OperandTag, OperandValue
  <2>2. CASE needed /\ ~reg_status[r].busy
    <3>1. o.Q = 0 /\ o.V = regfile[r]
      BY <2>2 DEF Operand
    <3> HIDE DEF o
    <3> QED  BY <2>2, <3>1, <1>4 DEF OperandTag, OperandValue, Delivered
  <2>3. CASE needed /\ reg_status[r].busy /\ RobIsEntryCompleted(c, wait)
    <3>1. o.Q = 0 /\ o.V = c.entries[wait].value
      BY <2>3, <1>3 DEF Operand, RobGetEntryValue
    <3>2. c.entries[wait].completed
      BY <2>3 DEF RobIsEntryCompleted
    <3> HIDE DEF o
    <3> QED  BY <2>3, <3>1, <3>2, <1>3, <1>5 DEF OperandTag, OperandValue, Delivered
  <2>4. CASE needed /\ reg_status[r].busy /\ ~RobIsEntryCompleted(c, wait)
    <3>1. o.Q = wait + 1 /\ wait \in Int
      BY <2>4, <1>3, RobSizeAssumption DEF Operand, RobSlot
    <3>2. o.Q - 1 = wait /\ o.Q # 0
      BY <3>1, <1>3, RobSizeAssumption DEF RobSlot
    <3>3. ~c.entries[wait].completed
      BY <2>4, <1>3, <1>5 DEF RobIsEntryCompleted
    <3> HIDE DEF o, wait
    <3> QED  BY <2>4, <3>2, <3>3, <1>5 DEF OperandTag, OperandValue, Unreported
  <2> QED  BY <2>1, <2>2, <2>3, <2>4
<1> QED  BY <1>6 DEF c

\* What each process does to the operands that are tags
LEMMA TagAtIssue ==
  ASSUME Inv, ~RobIsFull(rob), NEW op \in Packets, NEW f \in 0 .. 7,
         NEW i \in RobWindow(rob), NEW needed, NEW r, NEW Q, OperandTag(rob, i, needed, r, Q)
  PROVE  OperandTag(Allocated(rob, op, f), i, needed, r, Q)
<1> DEFINE c == Allocated(rob, op, f)
<1>1. rob \in RobType /\ RobRing(rob)
  BY DEF Inv, TypeOK, RobSound
<1>2. \A w \in RobSlot : Producer(c, w, i, r) <=> Producer(rob, w, i, r)
  BY <1>1, ProducersAtIssue
<1>3. /\ \A k \in RobSlot : k # rob.tail => c.entries[k] = rob.entries[k]
      /\ \A k \in RobSlot : k # rob.tail =>
           (c.newly_completed[k] <=> rob.newly_completed[k])
      /\ rob.tail \notin RobWindow(rob)
  BY <1>1, AllocatedWindow
<1> HIDE DEF c
<1>4. ASSUME Q # 0, Producer(rob, Q - 1, i, r), Unreported(rob, Q - 1)
      PROVE  Producer(c, Q - 1, i, r) /\ Unreported(c, Q - 1)
  <2>1. Q - 1 \in RobSlot /\ Q - 1 # rob.tail
    BY <1>3, <1>4 DEF Producer, WriterOf
  <2> QED  BY <1>2, <1>3, <1>4, <2>1 DEF Unreported
<1> QED  BY <1>4 DEF OperandTag, c

LEMMA TagAtExecution ==
  ASSUME Inv, NEW i \in RobSlot, NEW e \in RobEntry, e.op = rob.entries[i].op,
         NEW k \in RobSlot, NEW needed, NEW r, NEW Q, OperandTag(rob, k, needed, r, Q)
  PROVE  OperandTag(Marked(rob, i, e), k, needed, r, Q)
<1> DEFINE c == Marked(rob, i, e)
<1>1. rob \in RobType
  BY DEF Inv, TypeOK
<1>2. /\ \A l \in RobSlot : RobAge(c, l) = RobAge(rob, l)
      /\ \A l \in RobSlot : c.entries[l] = IF l = i THEN e ELSE rob.entries[l]
      /\ \A l \in RobSlot : c.newly_completed[l] <=> l = i \/ rob.newly_completed[l]
      /\ RobWindow(c) = RobWindow(rob)
  BY <1>1, MarkedWindow
<1> HIDE DEF c
<1>3. \A w \in RobSlot : Producer(c, w, k, r) <=> Producer(rob, w, k, r)
  BY <1>2, ProducersUnmoved
<1>4. ASSUME Q # 0, Producer(rob, Q - 1, k, r), Unreported(rob, Q - 1)
      PROVE  Producer(c, Q - 1, k, r) /\ Unreported(c, Q - 1)
  BY <1>2, <1>3, <1>4 DEF Unreported, Producer
<1> QED  BY <1>4 DEF OperandTag, c

LEMMA TagAtReport ==
  ASSUME Inv, NEW k \in RobSlot, NEW needed, NEW r, NEW Q \in 0 .. MaxTag,
         OperandTag(rob, k, needed, r, Q)
  PROVE  OperandTag(RobAfterReport(rob), k, needed, r,
                    IF Q \in ReportedTags THEN 0 ELSE Q)
<1> DEFINE c == RobAfterReport(rob)
<1>1. rob \in RobType /\ RobRing(rob) /\ TypeOK
  BY DEF Inv, TypeOK, RobSound
<1>2. /\ \A l \in RobSlot : RobAge(c, l) = RobAge(rob, l)
      /\ c.entries = rob.entries
      /\ RobWindow(c) = RobWindow(rob)
  BY <1>1, ReportWindow
<1> HIDE DEF c
<1>3. \A w \in RobSlot : Producer(c, w, k, r) <=> Producer(rob, w, k, r)
  BY <1>2, ProducersUnmoved
<1>4. ASSUME Q # 0, Q \notin ReportedTags,
             Producer(rob, Q - 1, k, r), Unreported(rob, Q - 1)
      PROVE  Producer(c, Q - 1, k, r) /\ Unreported(c, Q - 1)
  <2>1. Q - 1 \in RobSlot /\ rob.entries[Q - 1].busy
    BY <1>1, <1>4, WindowIsBusy DEF Producer, WriterOf
  <2>2. ~rob.entries[Q - 1].completed
    BY <1>1, <1>4, <2>1, ReportedTag DEF Unreported
  <2> QED  BY <1>2, <1>3, <1>4, <2>1, <2>2 DEF Unreported
<1>5. OperandTag(c, k, needed, r, IF Q \in ReportedTags THEN 0 ELSE Q)
  BY <1>4 DEF OperandTag
<1> QED  BY <1>5 DEF c

LEMMA TagAtCommit ==
  ASSUME Inv, ~RobIsEmpty(rob), rob.entries[rob.head].completed,
         \A w \in RobSlot : ~rob.newly_completed[w],
         NEW i \in RobWindow(rob), i # rob.head,
         NEW needed, NEW r, NEW Q, OperandTag(rob, i, needed, r, Q)
  PROVE  OperandTag(RobRemoveHead(rob), i, needed, r, Q)
<1> DEFINE c == RobRemoveHead(rob)
<1>1. rob \in RobType /\ RobRing(rob)
  BY DEF Inv, TypeOK, RobSound
<1>2. \A k \in RobSlot : k # rob.head => c.entries[k] = rob.entries[k]
  BY <1>1, RemoveHeadWindow
<1>3. \A w \in RobSlot : w # rob.head /\ Producer(rob, w, i, r) => Producer(c, w, i, r)
  BY <1>1, ProducersAtCommit
<1> HIDE DEF c
<1>4. ASSUME Q # 0, Producer(rob, Q - 1, i, r), Unreported(rob, Q - 1)
      PROVE  Producer(c, Q - 1, i, r) /\ Unreported(c, Q - 1)
  <2>1. Q - 1 \in RobSlot
    BY <1>4 DEF Producer
  <2>2. ~rob.entries[Q - 1].completed /\ Q - 1 # rob.head
    BY <1>4, <2>1 DEF Unreported
  <2> QED  BY <1>2, <1>3, <1>4, <2>1, <2>2 DEF Unreported
<1> QED  BY <1>4 DEF OperandTag, c


\* A busy slot stands for an instruction in flight that has no result.
LEMMA SlotInFlight ==
  ASSUME Inv, NEW q \in RsSlot, rs[q].busy
  PROVE  /\ rs[q] \in RsEntry /\ rs[q].op \in Packets
         /\ rs[q].op.rs1 \in Reg /\ rs[q].op.rs2 \in Reg
         /\ rs[q].rob_index \in RobSlot /\ rs[q].rob_index \in RobWindow(rob)
         /\ ~rob.entries[rs[q].rob_index].completed
         /\ rs[q].op = rob.entries[rs[q].rob_index].op
<1>1. /\ rs[q].rob_index \in RobSlot /\ AwaitsResult(rs[q].rob_index)
      /\ rs[q].op = rob.entries[rs[q].rob_index].op /\ rs[q] \in RsEntry
      /\ rob \in RobType /\ RobRing(rob)
  BY DEF Inv, StationsMatchRob, TypeOK, RobSound
<1>2. rs[q].rob_index \in RobWindow(rob)
  BY <1>1, WindowIsBusy DEF AwaitsResult
<1>3. rs[q].op \in Packets
  BY <1>1 DEF Inv, PacketsInFlight, AwaitsResult
<1> QED  BY <1>1, <1>2, <1>3, PacketFields DEF AwaitsResult

\* What issue_proc puts into the ring and into the station
LEMMA IssuedSlot ==
  ASSUME Inv, IssueAccepted
  PROVE  \E q \in RsSlot, f \in 0 .. 7, e \in RsEntry :
           LET op == decode_in
               c  == Allocated(rob, op, f)
               j  == Operand(c, ReadsRs1(op), op.rs1)
               k  == Operand(c, ReadsRs2(op), op.rs2)
           IN  /\ ~RobIsFull(rob) /\ op \in Packets /\ f \in GarbageFunct3
               /\ rob' = c /\ rs' = Placed(q, e)
               /\ e.op = op /\ e.rob_index = rob.tail
               /\ e.Vj = j.V /\ e.Qj = j.Q /\ e.Vk = k.V /\ e.Qk = k.Q
<1>1. PICK q \in RsSlot, f \in 0 .. 7 :
        LET op == decode_in
            b  == Allocated(rob, op, f)
            e  == Issued(op, Operand(b, ReadsRs1(op), op.rs1),
                             Operand(b, ReadsRs2(op), op.rs2), rob.tail)
        IN  /\ ~RobIsFull(rob) /\ op \in Packets /\ f \in GarbageFunct3
            /\ ~rs[q].busy /\ q[1] = StationOf(op)
            /\ rob' = b
            /\ e \in RsEntry /\ rs' = Placed(q, e)
  BY IssueIs
<1> DEFINE c == Allocated(rob, decode_in, f)
           j == Operand(c, ReadsRs1(decode_in), decode_in.rs1)
           k == Operand(c, ReadsRs2(decode_in), decode_in.rs2)
           e == Issued(decode_in, j, k, rob.tail)
<1>2. /\ e.op = decode_in /\ e.rob_index = rob.tail
      /\ e.Vj = j.V /\ e.Qj = j.Q /\ e.Vk = k.V /\ e.Qk = k.Q
  BY DEF Issued
<1>3. /\ ~RobIsFull(rob) /\ decode_in \in Packets /\ f \in GarbageFunct3
      /\ rob' = c /\ rs' = Placed(q, e) /\ e \in RsEntry
  BY <1>1
<1> HIDE DEF e
<1> QED  BY <1>2, <1>3

LEMMA TagsStep ==
  ASSUME Inv, RenamingTracksYoungestWriter, OrderInv, TagsInv, [Next]_vars
  PROVE  TagsInv'
<1>1. CASE UNCHANGED <<rs, rob>>
  BY <1>1 DEF TagsInv
<1>2. CASE IssueReset
  BY <1>2, ResetIsTyped DEF IssueReset, TagsInv
<1>3. CASE IssueAccepted
  <2>1. PICK q \in RsSlot, f \in 0 .. 7, e \in RsEntry :
          LET op == decode_in
              c  == Allocated(rob, op, f)
              j  == Operand(c, ReadsRs1(op), op.rs1)
              k  == Operand(c, ReadsRs2(op), op.rs2)
          IN  /\ ~RobIsFull(rob) /\ op \in Packets
              /\ rob' = c /\ rs' = Placed(q, e)
              /\ e.op = op /\ e.rob_index = rob.tail
              /\ e.Qj = j.Q /\ e.Qk = k.Q
    BY <1>3, IssuedSlot
  <2>2. \A p \in RsSlot : rs'[p] = IF p = q THEN e ELSE rs[p]
    BY <2>1 DEF Placed, Inv, TypeOK
  <2>3. SlotTags(rob', e)
    <3>1. /\ ReadsRs1(decode_in) \in BOOLEAN /\ ReadsRs2(decode_in) \in BOOLEAN
          /\ decode_in.rs1 \in Reg /\ decode_in.rs2 \in Reg
      BY <2>1, PacketFields DEF ReadsRs1, ReadsRs2
    <3>2. /\ OperandTag(rob', rob.tail, ReadsRs1(decode_in), decode_in.rs1, e.Qj)
          /\ OperandTag(rob', rob.tail, ReadsRs2(decode_in), decode_in.rs2, e.Qk)
      BY <2>1, <3>1, IssuedOperand
    <3> QED  BY <2>1, <3>2 DEF SlotTags
  <2>4. ASSUME NEW p \in RsSlot, rs[p].busy PROVE SlotTags(rob', rs[p])
    BY <2>1, <2>4, SlotInFlight, TagAtIssue DEF TagsInv, SlotTags
  <2> QED  BY <2>2, <2>3, <2>4, TagsInvPrimed
<1>4. CASE ExecuteAlu \/ ExecuteMem \/ ExecuteBranch
  <2>1. PICK q \in RsSlot, e \in RobEntry : Executed(q, e)
    BY <1>4, ExecuteAluIs, ExecuteMemIs, ExecuteBranchIs
  <2>2. \A p \in RsSlot : rs'[p] = IF p = q THEN FreeRsEntry ELSE rs[p]
    BY <2>1 DEF Executed, Placed, Inv, TypeOK
  <2>3. ASSUME NEW p \in RsSlot, rs[p].busy PROVE SlotTags(rob', rs[p])
    BY <2>1, <2>3, SlotInFlight, TagAtExecution DEF TagsInv, SlotTags, Executed
  <2> QED  BY <2>2, <2>3, TagsInvPrimed DEF FreeRsEntry
<1>5. CASE rob' = RobAfterReport(rob) /\ rs' = Woken
  <2>1. ASSUME NEW p \in RsSlot, rs[p].busy PROVE SlotTags(rob', rs'[p])
    <3>1. /\ rs[p].Qj \in 0 .. MaxTag /\ rs[p].Qk \in 0 .. MaxTag
          /\ rs[p].rob_index \in RobSlot
      BY <2>1, SlotInFlight DEF RsEntry
    <3>2. /\ rs'[p].op = rs[p].op /\ rs'[p].rob_index = rs[p].rob_index
          /\ rs'[p].Qj = IF rs[p].Qj \in ReportedTags THEN 0 ELSE rs[p].Qj
          /\ rs'[p].Qk = IF rs[p].Qk \in ReportedTags THEN 0 ELSE rs[p].Qk
      BY <1>5, <2>1, WokenSlot
    <3>3. SlotTags(rob, rs[p])
      BY <2>1 DEF TagsInv
    <3> QED  BY <1>5, <3>1, <3>2, <3>3, TagAtReport DEF SlotTags
  <2> QED  BY <1>5, <2>1, WokenSlot, TagsInvPrimed
<1>6. CASE Complete
  BY <1>1, <1>5, <1>6, CompleteIs
<1>7. CASE CommitStore \/ CommitRegister
  <2>1. /\ ~RobIsEmpty(rob) /\ rob.entries[rob.head].completed
        /\ rob' = RobRemoveHead(rob) /\ rs' = rs
    BY <1>7, CommitIs
  <2>2. \A w \in RobSlot : ~rob.newly_completed[w]
    BY <1>7, AllReportedAtCommit DEF CommitStore, CommitRegister, Committing
  <2>3. ASSUME NEW p \in RsSlot, rs[p].busy PROVE SlotTags(rob', rs[p])
    <3>1. /\ rs[p].rob_index \in RobWindow(rob) /\ rs[p].rob_index # rob.head
          /\ SlotTags(rob, rs[p])
      BY <2>1, <2>3, SlotInFlight DEF TagsInv
    <3> QED  BY <2>1, <2>2, <3>1, TagAtCommit DEF SlotTags
  <2> QED  BY <2>1, <2>3, TagsInvPrimed
<1> QED
  BY <1>1, <1>2, <1>3, <1>4, <1>6, <1>7
  DEF Next, Issue, IssueNothing, IssueDropped, Execute, ExecuteReturn, Commit,
      CommitReturn, ClockEdge, euVars, vars

\* With every process order that forwards a result before it commits, no
\* entry ever waits for an instruction that has left the buffer, for a result
\* that was reported already, or for another instruction that took the slot.
THEOREM NoWakeupIsLost ==
  ASSUME ForwardsInOrder
  PROVE  Spec => []NoLostWakeup
<1>1. Init => OrderInv /\ TagsInv
  BY OrderInit, ResetIsTyped DEF Init, TagsInv
<1>2. Inv /\ RenamingTracksYoungestWriter /\ OrderInv /\ TagsInv /\ [Next]_vars
        => OrderInv' /\ TagsInv'
  BY OrderStep, TagsStep
<1>3. TagsInv => NoLostWakeup
  BY WriterIs DEF TagsInv, NoLostWakeup, SlotTags, OperandTag, AwaitsResultOf,
                  Producer, WriterOf, Unreported
<1> QED  BY InvHolds, RenamingCorrect, <1>1, <1>2, <1>3, PTL DEF Spec


-----------------------------------------------------------------------------
(***************************************************************************)
(* The invariant of the data flow, over the buffer b, the registers x and  *)
(* the memory m: an operand that is there is the value its producer left,  *)
(* and a result is what the instruction computes of two such operands.     *)
(***************************************************************************)
SlotValues(b, x, e) ==
  /\ OperandValue(b, x, e.rob_index, ReadsRs1(e.op), e.op.rs1, e.Vj, e.Qj)
  /\ OperandValue(b, x, e.rob_index, ReadsRs2(e.op), e.op.rs2, e.Vk, e.Qk)

\* v is the operand instruction i has read.
Consumed(b, x, i, needed, r, v) == IF needed THEN Delivered(b, x, i, r, v) ELSE v = 0

\* Entry e holds the result of its instruction for the operands Vj and Vk.
Computed(m, e, Vj, Vk) ==
  LET addr == (Vj + e.op.imm) % WORD IN
  /\ StationOf(e.op) = "rs_alu" => e.value = ExecuteAluOp(e.op, Vj, Vk)
  /\ StationOf(e.op) = "rs_branch" => e.value = LinkValue(e.op)
  /\ e.op.opcode = "LOAD" => e.value = LoadedValue(m, addr, e.op.funct3)
  /\ e.op.opcode = "STORE" => e.mem_addr = addr /\ e.mem_data = Vk

ResultOK(b, x, m, i) ==
  LET op == b.entries[i].op IN
  \E Vj, Vk \in Word :
    /\ Consumed(b, x, i, ReadsRs1(op), op.rs1, Vj)
    /\ Consumed(b, x, i, ReadsRs2(op), op.rs2, Vk)
    /\ Computed(m, b.entries[i], Vj, Vk)

HasResult(b, i) == b.entries[i].busy /\ b.entries[i].completed

\* A store in flight keeps the funct3 it was issued with.
WidthOK(e) == e.busy /\ e.op.opcode = "STORE" => e.funct3 \in GarbageFunct3

DataInv ==
  /\ \A q \in RsSlot : rs[q].busy => SlotValues(rob, regfile, rs[q])
  /\ \A i \in RobSlot : HasResult(rob, i) => ResultOK(rob, regfile, memory, i)
  /\ \A i \in RobSlot : WidthOK(rob.entries[i])
  /\ regfile[0] = 0

\* What has been delivered for instruction i stays delivered.
Carried(b, x, c, y, i) ==
  \A r \in Reg, v \in Word : Delivered(b, x, i, r, v) => Delivered(c, y, i, r, v)

LEMMA ValuesCarried ==
  ASSUME NEW b, NEW x, NEW c, NEW y, NEW e \in RsEntry, e.op \in Packets,
         Carried(b, x, c, y, e.rob_index), SlotValues(b, x, e)
  PROVE  SlotValues(c, y, e)
<1>1. e.Vj \in Word /\ e.Vk \in Word /\ e.op.rs1 \in Reg /\ e.op.rs2 \in Reg
  BY PacketFields DEF RsEntry
<1> QED  BY <1>1 DEF SlotValues, OperandValue, Carried

LEMMA ResultCarried ==
  ASSUME NEW b, NEW x, NEW m, NEW c, NEW y, NEW n, NEW i,
         Carried(b, x, c, y, i), c.entries[i] = b.entries[i], b.entries[i].op \in Packets,
         n = m \/ b.entries[i].op.opcode # "LOAD", ResultOK(b, x, m, i)
  PROVE  ResultOK(c, y, n, i)
<1> DEFINE e == b.entries[i]
<1>1. e.op.rs1 \in Reg /\ e.op.rs2 \in Reg /\ c.entries[i] = e
  BY PacketFields
<1>2. PICK Vj \in Word, Vk \in Word :
        /\ Consumed(b, x, i, ReadsRs1(e.op), e.op.rs1, Vj)
        /\ Consumed(b, x, i, ReadsRs2(e.op), e.op.rs2, Vk)
        /\ Computed(m, e, Vj, Vk)
  BY DEF ResultOK
<1>3. n = m \/ e.op.opcode # "LOAD"
  OBVIOUS
<1> HIDE DEF e
<1>4. /\ Consumed(c, y, i, ReadsRs1(e.op), e.op.rs1, Vj)
      /\ Consumed(c, y, i, ReadsRs2(e.op), e.op.rs2, Vk)
  BY <1>1, <1>2 DEF Consumed, Carried
<1>5. Computed(n, e, Vj, Vk)
  BY <1>2, <1>3 DEF Computed
<1> QED  BY <1>1, <1>4, <1>5 DEF ResultOK

-----------------------------------------------------------------------------
(***************************************************************************)
(* Each process carries what has been delivered.                           *)
(***************************************************************************)
LEMMA CarriedAtIssue ==
  ASSUME Inv, ~RobIsFull(rob), NEW op \in Packets, NEW f \in 0 .. 7,
         NEW i \in RobWindow(rob)
  PROVE  Carried(rob, regfile, Allocated(rob, op, f), regfile, i)
<1>1. rob \in RobType /\ RobRing(rob)
  BY DEF Inv, TypeOK, RobSound
<1> QED  BY <1>1, DeliveredAtIssue DEF Carried

LEMMA CarriedAtExecution ==
  ASSUME Inv, NEW i \in RobSlot, ~rob.entries[i].completed,
         NEW e \in RobEntry, e.op = rob.entries[i].op, NEW k \in RobSlot
  PROVE  Carried(rob, regfile, Marked(rob, i, e), regfile, k)
<1> DEFINE c == Marked(rob, i, e)
<1>1. rob \in RobType /\ RobRing(rob)
  BY DEF Inv, TypeOK, RobSound
<1>2. /\ \A l \in RobSlot : RobAge(c, l) = RobAge(rob, l)
      /\ \A l \in RobSlot : c.entries[l] = IF l = i THEN e ELSE rob.entries[l]
      /\ RobWindow(c) = RobWindow(rob)
  BY <1>1, MarkedWindow
<1>3. /\ \A l \in RobWindow(rob) : rob.entries[l].busy
      /\ RobWindow(rob) \subseteq RobSlot
  BY <1>1, WindowIsBusy DEF RobWindow
<1> HIDE DEF c
<1>4. \A l \in RobSlot : c.entries[l].op = rob.entries[l].op
  BY <1>2
<1>5. \A l \in RobSlot : rob.entries[l].busy /\ rob.entries[l].completed =>
        c.entries[l].completed /\ c.entries[l].value = rob.entries[l].value
  BY <1>2
<1>6. Carried(rob, regfile, c, regfile, k)
  BY <1>2, <1>3, <1>4, <1>5, DeliveredUnmoved DEF Carried
<1> QED  BY <1>6 DEF c

LEMMA CarriedAtReport ==
  ASSUME Inv, NEW k \in RobSlot
  PROVE  Carried(rob, regfile, RobAfterReport(rob), regfile, k)
<1>1. rob \in RobType /\ RobRing(rob)
  BY DEF Inv, TypeOK, RobSound
<1> DEFINE c == RobAfterReport(rob)
<1>2. /\ \A l \in RobSlot : RobAge(c, l) = RobAge(rob, l)
      /\ c.entries = rob.entries
      /\ RobWindow(c) = RobWindow(rob)
  BY <1>1, ReportWindow
<1>3. \A l \in RobWindow(rob) : rob.entries[l].busy
  BY <1>1, WindowIsBusy DEF RobWindow
<1> HIDE DEF c
<1>4. Carried(rob, regfile, c, regfile, k)
  BY <1>2, <1>3, DeliveredUnmoved DEF Carried
<1> QED  BY <1>4 DEF c

\* The oldest instruction in flight is no branch whose bits name a register.
HeadNamesNone == LET op == rob.entries[rob.head].op IN op.opcode = "BRANCH" => op.rd = 0

LEMMA PacketsNameNone ==
  ASSUME Inv, BranchesNameNoRegister(Packets), CommitStore \/ CommitRegister
  PROVE  HeadNamesNone
  BY CommitIs DEF BranchesNameNoRegister, HeadNamesNone

\* commit_proc moves the value of the head from the buffer to its register.
LEMMA HeadCommitted ==
  ASSUME Inv, HeadNamesNone, CommitStore \/ CommitRegister
  PROVE  Committed(rob, regfile, regfile') /\ regfile'[0] = regfile[0]
<1> DEFINE e == rob.entries[rob.head]
<1>1. /\ RobGetHeadEntry(rob) = e /\ e.op \in Packets
      /\ ~RobIsEmpty(rob) /\ rob \in RobType /\ RobRing(rob)
      /\ regfile \in [Reg -> Word]
  BY CommitIs DEF Inv, TypeOK, RobSound
<1>2. rob.head \in RobWindow(rob)
  BY <1>1, RemoveHeadWindow
<1>3. e.op.rd \in Reg /\ e.op.rd \in Int
  BY <1>1, PacketFields DEF Reg
<1>4. /\ \A r : WriterOf(rob, rob.head, r) <=> Renames(e.op) /\ e.op.rd = r
      /\ e.op.opcode = "BRANCH" => e.op.rd = 0
  BY <1>2 DEF WriterOf, HeadNamesNone
<1> HIDE DEF e
<1>5. CASE CommitStore
  <2>1. e.op.opcode = "STORE" /\ regfile' = regfile
    BY <1>1, <1>5 DEF CommitStore
  <2> QED  BY <2>1, <1>4 DEF Committed, Renames
<1>6. CASE CommitRegister
  <2>1. /\ e.op.opcode # "STORE"
        /\ regfile' = IF e.op.rd = 0 THEN regfile
                      ELSE [regfile EXCEPT ![e.op.rd] = e.value]
    BY <1>1, <1>6 DEF CommitRegister
  <2>2. Renames(e.op) <=> e.op.rd # 0
    BY <1>4, <2>1 DEF Renames
  <2>3. \A r \in Reg : regfile'[r] = IF r = e.op.rd /\ e.op.rd # 0 THEN e.value
                                     ELSE regfile[r]
    BY <1>1, <1>3, <2>1
  <2>4. 0 \in Reg
    BY TypesAssumption DEF Reg
  <2>5. regfile'[0] = regfile[0]
    BY <2>3, <2>4
  <2>6. Committed(rob, regfile, regfile')
    BY <1>4, <2>2, <2>3 DEF Committed, e
  <2> QED  BY <2>5, <2>6
<1> QED  BY <1>5, <1>6

LEMMA CarriedAtCommit ==
  ASSUME Inv, HeadNamesNone, CommitStore \/ CommitRegister,
         NEW i \in RobWindow(rob), i # rob.head
  PROVE  Carried(rob, regfile, rob', regfile', i)
<1>1. /\ ~RobIsEmpty(rob) /\ rob \in RobType /\ RobRing(rob)
      /\ rob' = RobRemoveHead(rob)
  BY CommitIs DEF Inv, TypeOK, RobSound
<1>2. Committed(rob, regfile, regfile')
  BY HeadCommitted
<1> QED  BY <1>1, <1>2, DeliveredAtCommit DEF Carried


-----------------------------------------------------------------------------
(***************************************************************************)
(* The data flow is an invariant.                                          *)
(***************************************************************************)
\* update_waiting_entries() puts the producer's value in place of its tag.
LEMMA ValueAtReport ==
  ASSUME Inv, NEW k \in RobSlot, NEW needed \in BOOLEAN, NEW r \in Reg,
         NEW V \in Word, NEW Q \in 0 .. MaxTag,
         OperandTag(rob, k, needed, r, Q), OperandValue(rob, regfile, k, needed, r, V, Q)
  PROVE  OperandValue(RobAfterReport(rob), regfile, k, needed, r,
                      IF Q \in ReportedTags THEN rob.entries[Q - 1].value ELSE V,
                      IF Q \in ReportedTags THEN 0 ELSE Q)
<1> DEFINE c == RobAfterReport(rob)
<1>1. rob \in RobType /\ RobRing(rob) /\ TypeOK
  BY DEF Inv, TypeOK, RobSound
<1>2. Carried(rob, regfile, c, regfile, k)
  BY CarriedAtReport
<1> HIDE DEF c
<1>3. CASE Q \in ReportedTags
  <2>1. Q # 0
    BY <1>3, <1>1, ReportedTag DEF RobSlot
  <2>2. /\ Q - 1 \in RobSlot /\ rob.entries[Q - 1].busy /\ rob.newly_completed[Q - 1]
        /\ needed /\ Producer(rob, Q - 1, k, r)
    BY <1>1, <1>3, <2>1, ReportedTag DEF OperandTag
  <2>3. rob.entries[Q - 1].completed /\ rob.entries[Q - 1].value \in Word
    BY <1>1, <2>2 DEF RobRing, RobType, RobEntry
  <2>4. Delivered(rob, regfile, k, r, rob.entries[Q - 1].value)
    BY <2>2, <2>3 DEF Delivered
  <2> QED  BY <1>2, <1>3, <2>2, <2>3, <2>4 DEF OperandValue, Carried, c
<1>4. CASE Q \notin ReportedTags
  BY <1>2, <1>4 DEF OperandValue, Carried, c
<1> QED  BY <1>3, <1>4

\* An instruction runs on operands that were delivered.
LEMMA ExecutedResult ==
  ASSUME Inv, ReadyIffOperandsArrived, DataInv,
         NEW q \in RsSlot, NEW e \in RobEntry, Executed(q, e),
         Computed(memory, e, rs[q].Vj, rs[q].Vk)
  PROVE  ResultOK(rob', regfile, memory, rs[q].rob_index)
<1> DEFINE i == rs[q].rob_index
           op == rs[q].op
<1>1. /\ rs[q].busy /\ rs[q].ready /\ i \in RobSlot /\ ~rob.entries[i].completed
      /\ rob' = Marked(rob, i, e) /\ e.op = op /\ op = rob.entries[i].op
      /\ rob \in RobType
  BY DEF Executed, AwaitsResult, Inv, TypeOK
<1>2. /\ op.rs1 \in Reg /\ op.rs2 \in Reg /\ rs[q].Vj \in Word /\ rs[q].Vk \in Word
  BY <1>1, SlotInFlight DEF RsEntry
<1>3. rs[q].Qj = 0 /\ rs[q].Qk = 0 /\ SlotValues(rob, regfile, rs[q])
  BY <1>1 DEF ReadyIffOperandsArrived, DataInv
<1>4. Carried(rob, regfile, rob', regfile, i)
  BY <1>1, CarriedAtExecution
<1>5. rob'.entries[i] = e
  BY <1>1, MarkedWindow
<1> HIDE DEF i
<1>6. /\ Consumed(rob', regfile, i, ReadsRs1(op), op.rs1, rs[q].Vj)
      /\ Consumed(rob', regfile, i, ReadsRs2(op), op.rs2, rs[q].Vk)
  BY <1>2, <1>3, <1>4 DEF SlotValues, OperandValue, Consumed, Carried, i
<1> QED  BY <1>1, <1>2, <1>5, <1>6 DEF ResultOK, i

\* execute_proc computes what Computed says, and a store keeps its funct3.
LEMMA ExecutionComputes ==
  ASSUME Inv, ExecuteAlu \/ ExecuteMem \/ ExecuteBranch
  PROVE  \E q \in RsSlot, e \in RobEntry :
           /\ Executed(q, e)
           /\ Computed(memory, e, rs[q].Vj, rs[q].Vk)
           /\ e.op.opcode = "STORE" => e.funct3 = rob.entries[rs[q].rob_index].funct3
<1>1. CASE ExecuteAlu
  <2>1. PICK q \in RsSlot, e \in RobEntry :
          /\ Executed(q, e)
          /\ StationOf(rs[q].op) = "rs_alu"
          /\ e.value = ExecuteAluOp(rs[q].op, rs[q].Vj, rs[q].Vk)
    BY <1>1, ExecuteAluIs
  <2>2. e.op = rs[q].op /\ e.op.opcode \notin {"LOAD", "STORE"}
    BY <2>1 DEF Executed, StationOf
  <2> QED  BY <2>1, <2>2 DEF Computed
<1>2. CASE ExecuteMem
  <2>1. PICK q \in RsSlot, e \in RobEntry :
          Executed(q, e) /\ (LoadDone(q, e) \/ StoreDone(q, e))
    BY <1>2, ExecuteMemIs
  <2>2. e.op = rs[q].op /\ MemAddress(rs[q]) = (rs[q].Vj + e.op.imm) % WORD
    BY <2>1 DEF Executed, MemAddress
  <2>3. e.op.opcode \in {"LOAD", "STORE"} /\ StationOf(e.op) = "rs_mem"
    BY <2>1, <2>2 DEF LoadDone, StoreDone, StationOf
  <2>4. CASE LoadDone(q, e)
    BY <2>1, <2>2, <2>3, <2>4 DEF LoadDone, Computed
  <2>5. CASE StoreDone(q, e)
    BY <2>1, <2>2, <2>3, <2>5 DEF StoreDone, Computed
  <2> QED  BY <2>1, <2>4, <2>5
<1>3. CASE ExecuteBranch
  <2>1. PICK q \in RsSlot, e \in RobEntry :
          /\ Executed(q, e)
          /\ StationOf(rs[q].op) = "rs_branch"
          /\ e.value = LinkValue(rs[q].op)
    BY <1>3, ExecuteBranchIs
  <2>2. e.op = rs[q].op /\ e.op.opcode \notin {"LOAD", "STORE"}
    BY <2>1 DEF Executed, StationOf
  <2> QED  BY <2>1, <2>2 DEF Computed
<1> QED  BY <1>1, <1>2, <1>3

LEMMA DataAtIssue ==
  ASSUME Inv, RenamingTracksYoungestWriter, DataInv, IssueAccepted
  PROVE  DataInv'
<1>1. PICK q \in RsSlot, f \in 0 .. 7, e \in RsEntry :
        LET op == decode_in
            c  == Allocated(rob, op, f)
            j  == Operand(c, ReadsRs1(op), op.rs1)
            k  == Operand(c, ReadsRs2(op), op.rs2)
        IN  /\ ~RobIsFull(rob) /\ op \in Packets /\ f \in GarbageFunct3
            /\ rob' = c /\ rs' = Placed(q, e)
            /\ e.op = op /\ e.rob_index = rob.tail
            /\ e.Vj = j.V /\ e.Qj = j.Q /\ e.Vk = k.V /\ e.Qk = k.Q
  BY IssuedSlot
<1>2. regfile' = regfile /\ memory' = memory
  BY DEF IssueAccepted
<1>3. rob \in RobType /\ RobRing(rob)
  BY DEF Inv, TypeOK, RobSound
<1>4. \A p \in RsSlot : rs'[p] = IF p = q THEN e ELSE rs[p]
  BY <1>1 DEF Placed, Inv, TypeOK
<1>5. \A i \in RobSlot :
        rob'.entries[i] = IF i = rob.tail THEN RobNewEntry(decode_in, f)
                          ELSE rob.entries[i]
  BY <1>1, <1>3, AllocatedWindow
<1>6. \A i \in RobWindow(rob) : Carried(rob, regfile, rob', regfile, i)
  BY <1>1, CarriedAtIssue
<1>7. SlotValues(rob', regfile, e)
  <2>1. /\ ReadsRs1(decode_in) \in BOOLEAN /\ ReadsRs2(decode_in) \in BOOLEAN
        /\ decode_in.rs1 \in Reg /\ decode_in.rs2 \in Reg
    BY <1>1, PacketFields DEF ReadsRs1, ReadsRs2
  <2>2. /\ OperandValue(rob', regfile, rob.tail, ReadsRs1(decode_in), decode_in.rs1,
                        e.Vj, e.Qj)
        /\ OperandValue(rob', regfile, rob.tail, ReadsRs2(decode_in), decode_in.rs2,
                        e.Vk, e.Qk)
    BY <1>1, <2>1, IssuedOperand
  <2> QED  BY <1>1, <2>2 DEF SlotValues
<1>8. ASSUME NEW p \in RsSlot, rs'[p].busy PROVE SlotValues(rob', regfile', rs'[p])
  <2>1. CASE p = q
    BY <2>1, <1>2, <1>4, <1>7
  <2>2. CASE p # q
    BY <2>2, <1>2, <1>4, <1>6, <1>8, SlotInFlight, ValuesCarried DEF DataInv
  <2> QED  BY <2>1, <2>2
<1>9. ASSUME NEW i \in RobSlot, HasResult(rob', i)
      PROVE  ResultOK(rob', regfile', memory', i)
  <2>1. i # rob.tail
    BY <1>5, <1>9 DEF HasResult, RobNewEntry
  <2>2. /\ HasResult(rob, i) /\ i \in RobWindow(rob) /\ rob.entries[i].op \in Packets
        /\ rob'.entries[i] = rob.entries[i]
    BY <1>3, <1>5, <1>9, <2>1, WindowIsBusy DEF HasResult, Inv, PacketsInFlight
  <2> QED  BY <1>2, <1>6, <2>2, ResultCarried DEF DataInv
<1>10. \A i \in RobSlot : WidthOK(rob'.entries[i])
  BY <1>1, <1>5 DEF DataInv, WidthOK, RobNewEntry
<1> QED  BY <1>2, <1>8, <1>9, <1>10 DEF DataInv

LEMMA DataAtExecution ==
  ASSUME Inv, ReadyIffOperandsArrived, DataInv,
         ExecuteAlu \/ ExecuteMem \/ ExecuteBranch
  PROVE  DataInv'
<1>1. PICK q \in RsSlot, e \in RobEntry :
        /\ Executed(q, e)
        /\ Computed(memory, e, rs[q].Vj, rs[q].Vk)
        /\ e.op.opcode = "STORE" => e.funct3 = rob.entries[rs[q].rob_index].funct3
  BY ExecutionComputes
<1> DEFINE j == rs[q].rob_index
<1>2. regfile' = regfile /\ memory' = memory
  BY DEF ExecuteAlu, ExecuteMem, ExecuteBranch
<1>3. /\ rob \in RobType /\ j \in RobSlot /\ rob.entries[j].busy
      /\ ~rob.entries[j].completed /\ e.op = rob.entries[j].op
      /\ rob' = Marked(rob, j, e) /\ rs' = Placed(q, FreeRsEntry)
  BY <1>1 DEF Executed, AwaitsResult, Inv, TypeOK
<1>4. \A p \in RsSlot : rs'[p] = IF p = q THEN FreeRsEntry ELSE rs[p]
  BY <1>3 DEF Placed, Inv, TypeOK
<1>5. \A i \in RobSlot : rob'.entries[i] = IF i = j THEN e ELSE rob.entries[i]
  BY <1>3, MarkedWindow
<1>6. \A i \in RobSlot : Carried(rob, regfile, rob', regfile, i)
  BY <1>3, CarriedAtExecution
<1>7. ResultOK(rob', regfile, memory, j)
  BY <1>1, ExecutedResult
<1> HIDE DEF j
<1>8. ASSUME NEW p \in RsSlot, rs'[p].busy PROVE SlotValues(rob', regfile', rs'[p])
  <2>1. p # q /\ rs'[p] = rs[p] /\ rs[p].busy
    BY <1>4, <1>8 DEF FreeRsEntry
  <2> QED  BY <2>1, <1>2, <1>6, SlotInFlight, ValuesCarried DEF DataInv
<1>9. ASSUME NEW i \in RobSlot, HasResult(rob', i)
      PROVE  ResultOK(rob', regfile', memory', i)
  <2>1. CASE i = j
    BY <2>1, <1>2, <1>7
  <2>2. CASE i # j
    <3>1. /\ HasResult(rob, i) /\ rob.entries[i].op \in Packets
          /\ rob'.entries[i] = rob.entries[i]
      BY <1>5, <1>9, <2>2 DEF HasResult, Inv, PacketsInFlight
    <3> QED  BY <1>2, <1>6, <3>1, ResultCarried DEF DataInv
  <2> QED  BY <2>1, <2>2
<1>10. \A i \in RobSlot : WidthOK(rob'.entries[i])
  BY <1>1, <1>3, <1>5 DEF DataInv, WidthOK, j
<1> QED  BY <1>2, <1>8, <1>9, <1>10 DEF DataInv

LEMMA DataAtReport ==
  ASSUME Inv, TagsInv, DataInv, Complete
  PROVE  DataInv'
<1>1. UNCHANGED <<regfile, memory>>
  BY DEF Complete
<1>2. CASE rob' = rob /\ rs' = rs
  BY <1>1, <1>2 DEF DataInv
<1>3. CASE rob' = RobAfterReport(rob) /\ rs' = Woken
  <2>1. rob'.entries = rob.entries
    BY <1>3, ReportWindow DEF Inv, TypeOK
  <2>2. \A i \in RobSlot : Carried(rob, regfile, rob', regfile, i)
    BY <1>3, CarriedAtReport
  <2>3. ASSUME NEW p \in RsSlot, rs'[p].busy PROVE SlotValues(rob', regfile', rs'[p])
    <3>1. rs[p].busy
      BY <1>3, <2>3, WokenSlot
    <3>2. /\ rs[p].Qj \in 0 .. MaxTag /\ rs[p].Qk \in 0 .. MaxTag
          /\ rs[p].Vj \in Word /\ rs[p].Vk \in Word
          /\ rs[p].rob_index \in RobSlot
          /\ rs[p].op.rs1 \in Reg /\ rs[p].op.rs2 \in Reg
          /\ ReadsRs1(rs[p].op) \in BOOLEAN /\ ReadsRs2(rs[p].op) \in BOOLEAN
      BY <3>1, SlotInFlight DEF RsEntry, ReadsRs1, ReadsRs2
    <3>3. /\ rs'[p].op = rs[p].op /\ rs'[p].rob_index = rs[p].rob_index
          /\ rs'[p].Qj = IF rs[p].Qj \in ReportedTags THEN 0 ELSE rs[p].Qj
          /\ rs'[p].Qk = IF rs[p].Qk \in ReportedTags THEN 0 ELSE rs[p].Qk
          /\ rs'[p].Vj = IF rs[p].Qj \in ReportedTags
                         THEN rob.entries[rs[p].Qj - 1].value ELSE rs[p].Vj
          /\ rs'[p].Vk = IF rs[p].Qk \in ReportedTags
                         THEN rob.entries[rs[p].Qk - 1].value ELSE rs[p].Vk
      BY <1>3, <3>1, WokenSlot
    <3>4. SlotTags(rob, rs[p]) /\ SlotValues(rob, regfile, rs[p])
      BY <3>1 DEF TagsInv, DataInv
    <3>5. OperandValue(rob', regfile, rs[p].rob_index, ReadsRs1(rs[p].op),
                       rs[p].op.rs1, rs'[p].Vj, rs'[p].Qj)
      BY <1>3, <3>2, <3>3, <3>4, ValueAtReport DEF SlotTags, SlotValues
    <3>6. OperandValue(rob', regfile, rs[p].rob_index, ReadsRs2(rs[p].op),
                       rs[p].op.rs2, rs'[p].Vk, rs'[p].Qk)
      BY <1>3, <3>2, <3>3, <3>4, ValueAtReport DEF SlotTags, SlotValues
    <3> QED  BY <1>1, <3>3, <3>5, <3>6 DEF SlotValues
  <2>4. ASSUME NEW i \in RobSlot, HasResult(rob', i)
        PROVE  ResultOK(rob', regfile', memory', i)
    <3>1. HasResult(rob, i) /\ rob.entries[i].op \in Packets
      BY <2>1, <2>4 DEF HasResult, Inv, PacketsInFlight
    <3> QED  BY <1>1, <2>1, <2>2, <3>1, ResultCarried DEF DataInv
  <2>5. \A i \in RobSlot : WidthOK(rob'.entries[i])
    BY <2>1 DEF DataInv
  <2> QED  BY <1>1, <2>3, <2>4, <2>5 DEF DataInv
<1> QED  BY <1>2, <1>3, CompleteIs

(***************************************************************************)
(* A load reads the memory when it executes, so it must not have read it   *)
(* while an older store is in flight.  The hypotheses of the theorems see  *)
(* to it, because no program has both or because the order of the          *)
(* processes keeps them apart.                                             *)
(***************************************************************************)
LoadsFollowStores == \A i, k \in RobSlot :
  /\ HasResult(rob, i) /\ rob.entries[i].op.opcode = "LOAD"
  /\ rob.entries[k].busy /\ rob.entries[k].op.opcode = "STORE"
  => RobAge(rob, i) <= RobAge(rob, k)

LEMMA DataAtCommit ==
  ASSUME HeadNamesNone, LoadsFollowStores,
         Inv, DataInv, CommitStore \/ CommitRegister
  PROVE  DataInv'
<1>1. /\ rob \in RobType /\ RobRing(rob) /\ ~RobIsEmpty(rob)
      /\ rob.head \in RobSlot /\ rob.entries[rob.head].busy
      /\ rob.entries[rob.head].completed /\ rob.entries[rob.head].op \in Packets
      /\ RobGetHeadEntry(rob) = rob.entries[rob.head]
      /\ rob' = RobRemoveHead(rob) /\ rs' = rs
  BY CommitIs DEF Inv, TypeOK, RobSound
<1>2. \A i \in RobSlot :
        rob'.entries[i] = IF i = rob.head THEN FreeRobEntry ELSE rob.entries[i]
  BY <1>1, RemoveHeadWindow
<1>3. \A i \in RobWindow(rob) :
        i # rob.head => Carried(rob, regfile, rob', regfile', i)
  BY CarriedAtCommit
<1>4. \A i \in RobSlot : HasResult(rob, i) /\ i # rob.head =>
        memory' = memory \/ rob.entries[i].op.opcode # "LOAD"
  <2>1. CASE CommitStore
    <3>1. rob.entries[rob.head].op.opcode = "STORE"
      BY <1>1, <2>1 DEF CommitStore
    <3>2. /\ RobAge(rob, rob.head) = 0
          /\ \A i \in RobSlot : RobAge(rob, i) \in Nat
          /\ \A i \in RobSlot : RobAge(rob, i) = RobAge(rob, rob.head) => i = rob.head
      BY <1>1, HeadAge, AgeBounds, AgeInjective
    <3> QED  BY <1>1, <3>1, <3>2 DEF LoadsFollowStores
  <2>2. CASE CommitRegister
    BY <2>2 DEF CommitRegister
  <2> QED  BY <2>1, <2>2
<1>5. ASSUME NEW p \in RsSlot, rs'[p].busy PROVE SlotValues(rob', regfile', rs'[p])
  <2>1. /\ rs[p].busy /\ rs[p] \in RsEntry /\ rs[p].op \in Packets
        /\ rs[p].rob_index \in RobWindow(rob) /\ rs[p].rob_index # rob.head
    BY <1>1, <1>5, SlotInFlight
  <2> QED  BY <1>1, <1>3, <2>1, ValuesCarried DEF DataInv
<1>6. ASSUME NEW i \in RobSlot, HasResult(rob', i)
      PROVE  ResultOK(rob', regfile', memory', i)
  <2>1. /\ i # rob.head /\ HasResult(rob, i) /\ rob'.entries[i] = rob.entries[i]
    BY <1>2, <1>6 DEF HasResult, FreeRobEntry
  <2>2. i \in RobWindow(rob) /\ rob.entries[i].op \in Packets
    BY <1>1, <2>1, WindowIsBusy DEF HasResult, Inv, PacketsInFlight
  <2> QED  BY <1>3, <1>4, <2>1, <2>2, ResultCarried DEF DataInv
<1>7. \A i \in RobSlot : WidthOK(rob'.entries[i])
  BY <1>2 DEF DataInv, WidthOK, FreeRobEntry
<1>8. regfile'[0] = 0
  BY HeadCommitted DEF DataInv
<1> QED  BY <1>5, <1>6, <1>7, <1>8 DEF DataInv


LEMMA DataInit == Init => DataInv
<1> SUFFICES ASSUME Init PROVE DataInv
  OBVIOUS
<1>1. \A q \in RsSlot : ~rs[q].busy
  BY ResetIsTyped DEF Init
<1>2. \A i \in RobSlot : ~rob.entries[i].busy
  BY DEF Init, RobReset, FreeRobEntry
<1>3. regfile[0] = 0
  BY TypesAssumption DEF Init, Reg
<1> QED  BY <1>1, <1>2, <1>3 DEF DataInv, HasResult, WidthOK

LEMMA DataStep ==
  ASSUME CommitStore \/ CommitRegister => HeadNamesNone, LoadsFollowStores,
         Inv, ReadyIffOperandsArrived, RenamingTracksYoungestWriter, TagsInv, DataInv,
         [Next]_vars
  PROVE  DataInv'
<1>1. CASE UNCHANGED <<rs, rob, regfile, memory>>
  BY <1>1 DEF DataInv
<1>2. CASE IssueReset
  <2>1. rs' = RsReset /\ rob' = RobReset /\ regfile' = regfile
    BY <1>2 DEF IssueReset
  <2>2. \A i \in RobSlot : ~RobReset.entries[i].busy
    BY DEF RobReset, FreeRobEntry
  <2> QED  BY <2>1, <2>2, ResetIsTyped DEF DataInv, HasResult, WidthOK
<1> QED
  BY <1>1, <1>2, DataAtIssue, DataAtExecution, DataAtReport, DataAtCommit
  DEF Next, Issue, IssueNothing, IssueDropped, Execute, ExecuteReturn, Commit,
      CommitReturn, ClockEdge, euVars, vars

-----------------------------------------------------------------------------
(***************************************************************************)
(* What the instruction at the head has in its entry is what the           *)
(* sequential machine computes of the registers and the memory.            *)
(***************************************************************************)
LEMMA LoadedValueAgrees ==
  ASSUME NEW m, NEW addr, NEW funct3
  PROVE  AsCoded!LoadedValue(m, addr, funct3) = LoadedValue(m, addr, funct3)
<1>1. \A size : AsCoded!OutOfBounds(addr, size) <=> OutOfBounds(addr, size)
  BY DEF AsCoded!OutOfBounds, OutOfBounds
<1>2. \A size : AsCoded!ReadData(m, addr, size) = ReadData(m, addr, size)
  BY <1>1 DEF AsCoded!ReadData, ReadData
<1>3. AsCoded!LoadSize(funct3) = LoadSize(funct3)
  BY DEF AsCoded!LoadSize, LoadSize, LB, LH, LBU, LHU,
         AsCoded!LB, AsCoded!LH, AsCoded!LBU, AsCoded!LHU
<1>4. AsCoded!ReadData(m, addr, AsCoded!LoadSize(funct3)) =
        ReadData(m, addr, LoadSize(funct3))
  BY <1>2, <1>3
<1> QED  BY <1>4 DEF AsCoded!LoadedValue, LoadedValue, LB, LH, LW,
                     AsCoded!LB, AsCoded!LH, AsCoded!LW

LEMMA WriteDataAgrees ==
  ASSUME NEW m, NEW addr, NEW data, NEW size
  PROVE  AsCoded!WriteData(m, addr, data, size) = WriteData(m, addr, data, size)
  BY DEF AsCoded!WriteData, WriteData, AsCoded!OutOfBounds, OutOfBounds,
         AsCoded!ByteOf, ByteOf, AsCoded!MemAddr, MemAddr

\* Operands that instruction op does not read make no difference to the ALU.
LEMMA AluIgnoresUnread ==
  ASSUME NEW op \in Packets, NEW Vj \in Word, NEW Vk \in Word,
         NEW Xj \in Word, NEW Xk \in Word,
         InstructionType(op.opcode) \notin {"U_TYPE", "J_TYPE"} => Vj = Xj,
         InstructionType(op.opcode) \in {"R_TYPE", "S_TYPE", "B_TYPE"} => Vk = Xk
  PROVE  ExecuteAluOp(op, Vj, Vk) = ExecuteAluOp(op, Xj, Xk)
<1>1. ExecuteAluOp(op, Vj, Vk) = ExecuteAluOp(op, Xj, Vk)
  <2>1. CASE InstructionType(op.opcode) \in {"U_TYPE", "J_TYPE"}
    BY <2>1, ExecutionUnitAssumption
  <2>2. CASE InstructionType(op.opcode) \notin {"U_TYPE", "J_TYPE"}
    BY <2>2
  <2> QED  BY <2>1, <2>2
<1>2. ExecuteAluOp(op, Xj, Vk) = ExecuteAluOp(op, Xj, Xk)
  <2>1. CASE InstructionType(op.opcode) \notin {"R_TYPE", "S_TYPE", "B_TYPE"}
    BY <2>1, ExecutionUnitAssumption
  <2>2. CASE InstructionType(op.opcode) \in {"R_TYPE", "S_TYPE", "B_TYPE"}
    BY <2>2
  <2> QED  BY <2>1, <2>2
<1> QED  BY <1>1, <1>2

LEMMA HeadComputedSequentially ==
  ASSUME Inv, DataInv, CommitStore \/ CommitRegister
  PROVE  LET e == rob.entries[rob.head] IN
         /\ e.op.opcode \notin {"STORE", "BRANCH"}
              => e.value = AsCoded!Value(e.op, regfile, memory)
         /\ e.op.opcode = "STORE"
              => /\ e.mem_addr = AsCoded!Effective(e.op, regfile)
                 /\ e.mem_data = regfile[e.op.rs2]
                 /\ e.funct3 \in GarbageFunct3
<1> DEFINE e == rob.entries[rob.head]
           op == e.op
<1>1. /\ rob.head \in RobSlot /\ e.busy /\ e.completed /\ op \in Packets
      /\ rob \in RobType /\ regfile \in [Reg -> Word]
  BY CommitIs DEF Inv, TypeOK
<1>2. op.rs1 \in Reg /\ op.rs2 \in Reg
  BY <1>1, PacketFields
<1>3. PICK Vj \in Word, Vk \in Word :
        /\ Consumed(rob, regfile, rob.head, ReadsRs1(op), op.rs1, Vj)
        /\ Consumed(rob, regfile, rob.head, ReadsRs2(op), op.rs2, Vk)
        /\ Computed(memory, e, Vj, Vk)
  BY <1>1 DEF DataInv, HasResult, ResultOK
<1>4. /\ InstructionType(op.opcode) \notin {"U_TYPE", "J_TYPE"} => Vj = regfile[op.rs1]
      /\ InstructionType(op.opcode) \in {"R_TYPE", "S_TYPE", "B_TYPE"}
           => Vk = regfile[op.rs2]
  BY <1>1, <1>2, <1>3, DeliveredToHead DEF Consumed, ReadsRs1, ReadsRs2, DataInv
<1>5. e.op.opcode = "STORE" => e.funct3 \in GarbageFunct3
  BY <1>1 DEF DataInv, WidthOK
<1> HIDE DEF e
<1>6. CASE op.opcode = "STORE"
  <2>1. Vj = regfile[op.rs1] /\ Vk = regfile[op.rs2]
    BY <1>4, <1>6 DEF InstructionType
  <2>2. e.mem_addr = (Vj + op.imm) % WORD /\ e.mem_data = Vk
    BY <1>3, <1>6 DEF Computed
  <2> QED  BY <1>5, <1>6, <2>1, <2>2 DEF AsCoded!Effective, e
<1>7. CASE op.opcode = "LOAD"
  <2>1. Vj = regfile[op.rs1]
    BY <1>4, <1>7 DEF InstructionType
  <2>2. e.value = LoadedValue(memory, (Vj + op.imm) % WORD, op.funct3)
    BY <1>3, <1>7 DEF Computed
  <2>3. AsCoded!Value(op, regfile, memory) =
          AsCoded!LoadedValue(memory, (regfile[op.rs1] + op.imm) % WORD, op.funct3)
    BY <1>7 DEF AsCoded!Value, AsCoded!Effective
  <2> QED  BY <1>7, <2>1, <2>2, <2>3, LoadedValueAgrees DEF e
<1>8. CASE op.opcode \in {"JAL", "JALR"}
  <2>1. e.value = (op.pc + 4) % WORD
    BY <1>3, <1>8 DEF Computed, StationOf, LinkValue
  <2>2. AsCoded!Value(op, regfile, memory) = (op.pc + 4) % WORD
    BY <1>8 DEF AsCoded!Value
  <2> QED  BY <1>8, <2>1, <2>2 DEF e
<1>9. CASE op.opcode \notin {"STORE", "LOAD", "JAL", "JALR", "BRANCH"}
  <2>1. e.value = ExecuteAluOp(op, Vj, Vk)
    BY <1>3, <1>9 DEF Computed, StationOf
  <2>2. ExecuteAluOp(op, Vj, Vk) = ExecuteAluOp(op, regfile[op.rs1], regfile[op.rs2])
    BY <1>1, <1>2, <1>4, AluIgnoresUnread
  <2>3. AsCoded!Value(op, regfile, memory) =
          ExecuteAluOp(op, regfile[op.rs1], regfile[op.rs2])
    BY <1>9 DEF AsCoded!Value
  <2> QED  BY <1>9, <2>1, <2>2, <2>3 DEF e
<1>10. CASE op.opcode = "BRANCH"
  BY <1>10 DEF e
<1> QED  BY <1>6, <1>7, <1>8, <1>9, <1>10

-----------------------------------------------------------------------------
(***************************************************************************)
(* The refinement, step by step: issue_proc accepts, commit_proc retires,  *)
(* everything else is invisible.                                           *)
(***************************************************************************)
OpsOf(b) == [i \in RobSlot |-> b.entries[i].op]

LEMMA OrderIs ==
  ASSUME NEW b \in RobType
  PROVE  [k \in 1 .. b.count |-> b.entries[RobSlotAt(b, k - 1)].op]
           = QueueOf(b, OpsOf(b))
<1>1. \A k \in 1 .. b.count : RobSlotAt(b, k - 1) \in RobSlot
  <2> SUFFICES ASSUME NEW k \in 1 .. b.count PROVE RobSlotAt(b, k - 1) \in RobSlot
    OBVIOUS
  <2>1. k - 1 \in 0 .. ROB_SIZE - 1
    BY RobSizeAssumption DEF RobType
  <2> QED  BY <2>1, SlotAt
<1> QED  BY <1>1 DEF QueueOf, OpsOf

LEMMA IssueAccepts ==
  ASSUME Inv, IssueAccepted
  PROVE  AsCoded!Accept /\ programOrder' = Append(programOrder, decode_in)
<1>1. PICK f \in 0 .. 7 :
        ~RobIsFull(rob) /\ decode_in \in Packets /\ rob' = Allocated(rob, decode_in, f)
  BY IssueIs
<1>2. rob \in RobType /\ RobRing(rob) /\ rob' \in RobType
  BY <1>1, AllocatedSound DEF Inv, TypeOK, RobSound
<1>3. \A i \in RobSlot :
        /\ rob'.entries[i] = IF i = rob.tail THEN RobNewEntry(decode_in, f)
                             ELSE rob.entries[i]
        /\ i \in RobWindow(rob) => i # rob.tail /\ rob.entries[i].busy
  BY <1>1, <1>2, AllocatedWindow, WindowIsBusy
<1> DEFINE g == OpsOf(rob)
           h == OpsOf(rob')
<1>4. rob.tail \in RobSlot /\ h[rob.tail] = decode_in
  BY <1>1, <1>2, <1>3, TailIsFree DEF OpsOf, RobNewEntry
<1>5. \A i \in RobWindow(rob) : g[i] \in Packets /\ h[i] = g[i]
  BY <1>3 DEF OpsOf, RobWindow, Inv, PacketsInFlight
<1> HIDE DEF g, h
<1>6. QueueOf(rob', h) = Append(QueueOf(rob, g), decode_in)
  <2>1. /\ rob \in RobType /\ RobRing(rob) /\ ~RobIsFull(rob)
        /\ Allocated(rob, decode_in, f) \in RobType
    BY <1>1, <1>2
  <2>2. \A i \in RobWindow(rob) : h[i] = g[i]
    BY <1>5
  <2>3. QueueOf(Allocated(rob, decode_in, f), h) = Append(QueueOf(rob, g), h[rob.tail])
    BY <2>1, <2>2, QueueAtIssue
  <2> QED  BY <1>1, <1>4, <2>3
<1>7. programOrder = QueueOf(rob, g) /\ programOrder' = QueueOf(rob', h)
  BY <1>2, OrderIs DEF programOrder, g, h
<1>8. regfile' = regfile /\ memory' = memory
  BY DEF IssueAccepted
<1>9. programOrder' = Append(programOrder, decode_in)
  BY <1>6, <1>7
<1> QED  BY <1>1, <1>8, <1>9 DEF AsCoded!Accept

LEMMA ResultsAreInvisible ==
  ASSUME Inv, rob' \in RobType, rob'.head = rob.head, rob'.count = rob.count,
         \A i \in RobSlot : rob'.entries[i].op = rob.entries[i].op
  PROVE  programOrder' = programOrder
<1>1. \A i \in RobWindow(rob) : OpsOf(rob')[i] = OpsOf(rob)[i]
  BY DEF OpsOf, RobWindow
<1>2. rob \in RobType
  BY DEF Inv, TypeOK
<1>3. QueueOf(rob', OpsOf(rob')) = QueueOf(rob, OpsOf(rob))
  BY <1>1, <1>2, QueueUnmoved
<1> QED  BY <1>2, <1>3, OrderIs DEF programOrder

LEMMA CommitRetires ==
  ASSUME HeadNamesNone, Inv, DataInv, CommitStore \/ CommitRegister
  PROVE  AsCoded!Retire
<1> DEFINE e == rob.entries[rob.head]
           g == OpsOf(rob)
           h == OpsOf(rob')
<1>1. /\ rob \in RobType /\ RobRing(rob) /\ ~RobIsEmpty(rob) /\ rob' \in RobType
      /\ RobGetHeadEntry(rob) = e /\ e.op \in Packets /\ e \in RobEntry
      /\ rob' = RobRemoveHead(rob) /\ rob.head \in RobSlot
  BY CommitIs, RemoveHeadSound DEF Inv, TypeOK, RobSound
<1>2. \A i \in RobWindow(rob) : g[i] \in Packets /\ (i # rob.head => h[i] = g[i])
  <2>1. \A i \in RobWindow(rob) : i \in RobSlot /\ rob.entries[i].busy
    BY <1>1, WindowIsBusy DEF RobWindow
  <2>2. \A i \in RobSlot : i # rob.head => rob'.entries[i] = rob.entries[i]
    BY <1>1, RemoveHeadWindow
  <2> QED  BY <2>1, <2>2 DEF OpsOf, Inv, PacketsInFlight
<1>3. g[rob.head] = e.op
  BY <1>1 DEF OpsOf
<1>4. programOrder = QueueOf(rob, g) /\ programOrder' = QueueOf(rob', h)
  BY <1>1, OrderIs DEF programOrder
<1> HIDE DEF g, h
<1>5. /\ programOrder # <<>> /\ Head(programOrder) = e.op
      /\ programOrder' = Tail(programOrder)
  <2>1. rob \in RobType /\ RobRing(rob) /\ ~RobIsEmpty(rob)
    BY <1>1
  <2>2. /\ QueueOf(rob, g) # <<>> /\ Head(QueueOf(rob, g)) = g[rob.head]
        /\ QueueOf(RobRemoveHead(rob), h) = Tail(QueueOf(rob, g))
    BY <1>2, <2>1, QueueAtCommit
  <2> QED  BY <1>1, <1>3, <1>4, <2>2
<1>6. /\ regfile' = AsCoded!RegistersAfter(e.op, regfile, memory)
      /\ memory' \in AsCoded!MemoriesAfter(e.op, regfile, memory)
  <2>1. /\ e.op.opcode \notin {"STORE", "BRANCH"}
             => e.value = AsCoded!Value(e.op, regfile, memory)
        /\ e.op.opcode = "STORE"
             => /\ e.mem_addr = AsCoded!Effective(e.op, regfile)
                /\ e.mem_data = regfile[e.op.rs2]
                /\ e.funct3 \in GarbageFunct3
    BY HeadComputedSequentially
  <2> HIDE DEF e
  <2>2. CASE CommitStore
    <3>1. /\ e.op.opcode = "STORE" /\ regfile' = regfile
          /\ memory' = WriteData(memory, e.mem_addr, e.mem_data, StoreSize(e.funct3))
      BY <1>1, <2>2 DEF CommitStore
    <3>2. StoreSize(e.funct3) \in SizesAsCoded(e.op)
      BY <2>1, <3>1 DEF SizesAsCoded
    <3>3. memory' = AsCoded!WriteData(memory, AsCoded!Effective(e.op, regfile),
                                      regfile[e.op.rs2], StoreSize(e.funct3))
      BY <2>1, <3>1, WriteDataAgrees
    <3> QED  BY <3>1, <3>2, <3>3 DEF AsCoded!RegistersAfter, AsCoded!MemoriesAfter
  <2>3. CASE CommitRegister
    <3>1. /\ e.op.opcode # "STORE" /\ memory' = memory
          /\ regfile' = IF e.op.rd = 0 THEN regfile
                        ELSE [regfile EXCEPT ![e.op.rd] = e.value]
      BY <1>1, <2>3 DEF CommitRegister
    <3>2. e.op.opcode = "BRANCH" => e.op.rd = 0
      BY DEF HeadNamesNone, e
    <3> QED  BY <2>1, <3>1, <3>2 DEF AsCoded!RegistersAfter, AsCoded!MemoriesAfter
  <2> QED  BY <2>2, <2>3
<1> QED  BY <1>5, <1>6 DEF AsCoded!Retire

LEMMA OthersAreInvisible ==
  ASSUME Inv, Execute \/ Complete \/ CommitReturn
  PROVE  UNCHANGED AsCoded!seqVars
<1>1. CASE UNCHANGED <<rob, regfile, memory>>
  BY <1>1 DEF AsCoded!seqVars, programOrder
<1>2. CASE ExecuteAlu \/ ExecuteMem \/ ExecuteBranch
  <2>1. PICK q \in RsSlot, e \in RobEntry : Executed(q, e)
    BY <1>2, ExecuteAluIs, ExecuteMemIs, ExecuteBranchIs
  <2>2. /\ rob'.head = rob.head /\ rob'.count = rob.count
        /\ \A i \in RobSlot : rob'.entries[i].op = rob.entries[i].op
    BY <2>1, MarkedWindow DEF Executed, Marked, Inv, TypeOK
  <2>3. rob' \in RobType
    BY <2>1, ExecutionKeepsMatch
  <2>4. programOrder' = programOrder
    BY <2>2, <2>3, ResultsAreInvisible
  <2>5. regfile' = regfile /\ memory' = memory
    BY <1>2 DEF ExecuteAlu, ExecuteMem, ExecuteBranch
  <2> QED  BY <2>4, <2>5 DEF AsCoded!seqVars
<1>3. CASE Complete
  <2>1. regfile' = regfile /\ memory' = memory
    BY <1>3 DEF Complete
  <2>2. CASE rob' = RobAfterReport(rob)
    <3>1. /\ rob'.head = rob.head /\ rob'.count = rob.count
          /\ rob'.entries = rob.entries /\ rob' \in RobType
      BY <2>2, ReportSound DEF RobAfterReport, Inv, TypeOK, RobSound, RobType
    <3>2. programOrder' = programOrder
      BY <3>1, ResultsAreInvisible
    <3> QED  BY <2>1, <3>2 DEF AsCoded!seqVars
  <2>3. CASE rob' = rob
    BY <1>1, <2>1, <2>3
  <2> QED  BY <1>3, <2>2, <2>3, CompleteIs
<1> QED  BY <1>1, <1>2, <1>3 DEF Execute, ExecuteReturn, CommitReturn, euVars

LEMMA RefinementStep ==
  ASSUME CommitStore \/ CommitRegister => HeadNamesNone,
         Inv, DataInv, reset => rob = RobReset,
         [Next]_vars
  PROVE  [AsCoded!Step]_(AsCoded!seqVars)
<1>1. CASE UNCHANGED <<rob, regfile, memory>>
  BY <1>1 DEF AsCoded!seqVars, programOrder
<1>2. CASE IssueReset
  <2>1. rob' = rob /\ regfile' = regfile /\ memory' = memory
    BY <1>2 DEF IssueReset
  <2> QED  BY <1>1, <2>1
<1>3. CASE IssueAccepted
  BY <1>3, IssueAccepts DEF AsCoded!Step
<1>4. CASE Execute \/ Complete \/ CommitReturn
  BY <1>4, OthersAreInvisible
<1>5. CASE CommitStore \/ CommitRegister
  BY <1>5, CommitRetires DEF AsCoded!Step
<1> QED
  BY <1>1, <1>2, <1>3, <1>4, <1>5
  DEF Next, Issue, IssueNothing, IssueDropped, Commit, ClockEdge, euVars, vars

\* What reaches the registers and the memory is what executing the accepted
\* instructions one at a time would put there.
THEOREM ImplementsSequentialMachine ==
  ASSUME ForwardsInOrder, LoadsWithoutStores(Packets), BranchesNameNoRegister(Packets)
  PROVE  Spec => ExecutesSequentially
<1>1. Init => OrderInv /\ TagsInv /\ DataInv
  BY OrderInit, DataInit, ResetIsTyped DEF Init, TagsInv
<1>2. Inv /\ OrderInv /\ [Next]_vars => OrderInv'
  BY OrderStep
<1>3. Inv /\ RenamingTracksYoungestWriter /\ OrderInv /\ TagsInv /\ [Next]_vars => TagsInv'
  BY TagsStep
<1>4. (/\ Inv /\ ReadyIffOperandsArrived /\ RenamingTracksYoungestWriter
       /\ TagsInv /\ DataInv /\ [Next]_vars) => DataInv'
  <2>1. Inv => LoadsFollowStores
    BY DEF Inv, PacketsInFlight, LoadsWithoutStores, LoadsFollowStores, HasResult
  <2> QED  BY <2>1, PacketsNameNone, DataStep
<1>5. Init => AsCoded!Start
  BY DEF Init, AsCoded!Start, programOrder, RobReset, AsCoded!Reg, Reg
<1>6. Inv /\ OrderInv /\ DataInv /\ [Next]_vars => [AsCoded!Step]_(AsCoded!seqVars)
  BY PacketsNameNone, RefinementStep DEF OrderInv
<1> QED
  BY InvHolds, ReadinessCorrect, RenamingCorrect, <1>1, <1>2, <1>3, <1>4, <1>5, <1>6, PTL
  DEF Spec, ExecutesSequentially, AsCoded!Run

-----------------------------------------------------------------------------
(***************************************************************************)
(* When the kernel runs the processes in the same order at every edge,     *)
(* whichever order that is, the unit is so slow that no two instructions   *)
(* ever meet: the stations are empty again and at most one instruction has *)
(* still to commit when the next one is issued.  So nothing is dropped for *)
(* lack of room, nothing waits for an operand, and no load can overtake a  *)
(* store.  The theorems hold for every order, every ALU, every memory, and *)
(* every size of the buffer but one.                                       *)
(*                                                                         *)
(* The argument counts what has run since the last issue.  Between two     *)
(* issues execute_proc and commit_proc run once each, in an order that the *)
(* order of the processes decides; what either leaves behind is what the   *)
(* next issue finds.                                                       *)
(***************************************************************************)

-----------------------------------------------------------------------------
(***************************************************************************)
(* The edge: the processes to run are the rest of the order.               *)
(***************************************************************************)
Place(o, p) == CHOOSE k \in 1 .. Len(o) : o[k] = p

\* How many processes have run at this edge
Ran == Len(order) - Len(pending)

RestOfOrder ==
  /\ order \in Orders
  /\ pending \in Seq(STRING) /\ Len(pending) <= Len(order)
  /\ \A k \in 1 .. Len(pending) : pending[k] = order[Ran + k]

\* Process p has run since issue_proc ran last, at this edge or the one before.
RunSinceIssue(p) ==
  LET i == Place(order, "issue")
      k == Place(order, p)
  IN  IF i < k THEN Ran < i \/ k <= Ran ELSE k <= Ran /\ Ran < i

\* Whether commit_proc comes after execute_proc, counted from issue_proc
CommitIsLast ==
  LET i == Place(order, "issue")
      e == Place(order, "execute")
      c == Place(order, "commit")
  IN  (i < e /\ e < c) \/ (e < c /\ c < i) \/ (c < i /\ i < e)

LEMMA PlaceInOrder ==
  ASSUME RunsInFixedOrder, RestOfOrder, NEW p \in EuProcess
  PROVE  /\ Place(order, p) \in 1 .. Len(order) /\ order[Place(order, p)] = p
         /\ \A k \in 1 .. Len(order) : order[k] = p => k = Place(order, p)
<1>1. RunsOnce(order, p)
  BY DEF RunsInFixedOrder, RestOfOrder
<1>2. PICK k \in 1 .. Len(order) :
        order[k] = p /\ \A j \in 1 .. Len(order) : order[j] = p => j = k
  BY <1>1 DEF RunsOnce
<1> QED  BY <1>2 DEF Place

LEMMA OrderIsSeq ==
  ASSUME RestOfOrder
  PROVE  order \in Seq(STRING) /\ Len(order) \in Nat /\ Len(pending) \in Nat /\ Ran \in Nat
<1>1. order \in Seq(STRING) /\ pending \in Seq(STRING)
  BY KernelAssumption DEF RestOfOrder
<1> QED  BY <1>1 DEF RestOfOrder, Ran

\* The process that runs is the next of the order.
LEMMA NextInOrder ==
  ASSUME RestOfOrder, NEW p, Running(p)
  PROVE  Ran + 1 \in 1 .. Len(order) /\ order[Ran + 1] = p
<1>1. Len(order) \in Nat /\ Len(pending) \in Nat /\ Ran \in Nat
  BY OrderIsSeq
<1>2. 1 \in 1 .. Len(pending) /\ pending[1] = p
  BY <1>1 DEF Running, RestOfOrder
<1>3. order[Ran + 1] = p
  BY <1>2 DEF RestOfOrder
<1>4. Ran + 1 \in 1 .. Len(order)
  BY <1>1, <1>2 DEF Ran
<1> QED  BY <1>3, <1>4

LEMMA RunningPlace ==
  ASSUME RunsInFixedOrder, RestOfOrder, NEW p \in EuProcess, Running(p)
  PROVE  Place(order, p) = Ran + 1
  BY PlaceInOrder, NextInOrder

LEMMA ReturnInOrder ==
  ASSUME RestOfOrder, NEW p, Running(p), Return
  PROVE  RestOfOrder' /\ Ran' = Ran + 1 /\ order' = order
<1>1. Len(order) \in Nat /\ Len(pending) \in Nat /\ Ran \in Nat
  BY OrderIsSeq
<1>2. /\ pending \in Seq(STRING) /\ pending # <<>> /\ pending' = Tail(pending)
      /\ order' = order
  BY DEF RestOfOrder, Running, Return
<1>3. /\ Tail(pending) \in Seq(STRING) /\ Len(Tail(pending)) = Len(pending) - 1
      /\ \A k \in 1 .. Len(Tail(pending)) : Tail(pending)[k] = pending[k + 1]
  BY <1>2
<1>4. Ran' = Ran + 1
  BY <1>1, <1>2, <1>3 DEF Ran
<1>5. \A k \in 1 .. Len(pending') : pending'[k] = order[Ran' + k]
  <2> SUFFICES ASSUME NEW k \in 1 .. Len(pending') PROVE pending'[k] = order[Ran' + k]
    OBVIOUS
  <2>1. k + 1 \in 1 .. Len(pending) /\ pending'[k] = pending[k + 1]
    BY <1>1, <1>2, <1>3
  <2>2. pending[k + 1] = order[Ran + (k + 1)]
    BY <2>1 DEF RestOfOrder
  <2>3. Ran + (k + 1) = Ran' + k
    BY <1>1, <1>4
  <2> QED  BY <2>1, <2>2, <2>3
<1>6. order' \in Orders /\ pending' \in Seq(STRING) /\ Len(pending') <= Len(order')
  BY <1>1, <1>2, <1>3 DEF RestOfOrder
<1> QED  BY <1>2, <1>4, <1>5, <1>6 DEF RestOfOrder

LEMMA EdgeInOrder ==
  ASSUME RunsInFixedOrder, RestOfOrder, NextEdge
  PROVE  RestOfOrder' /\ Ran = Len(order) /\ Ran' = 0 /\ order' = order
<1>1. order' = order /\ pending = <<>> /\ pending' = order
  BY DEF RunsInFixedOrder, NextEdge, EdgeOrders
<1>2. Len(order) \in Nat /\ order \in Seq(STRING) /\ order \in Orders
  BY OrderIsSeq DEF RestOfOrder
<1>3. Ran = Len(order) /\ Ran' = 0
  BY <1>1, <1>2 DEF Ran
<1>4. \A k \in 1 .. Len(order) : order[k] = order[0 + k]
  BY <1>2
<1> QED  BY <1>1, <1>2, <1>3, <1>4 DEF RestOfOrder

-----------------------------------------------------------------------------
(***************************************************************************)
(* What has run since the last issue.                                      *)
(***************************************************************************)
LEMMA RunAtIssue ==
  ASSUME RunsInFixedOrder, RestOfOrder, Running("issue"), NEW p \in {"execute", "commit"}
  PROVE  RunSinceIssue(p)
<1>1. Place(order, "issue") = Ran + 1 /\ Ran \in Nat
  BY RunningPlace, OrderIsSeq DEF EuProcess
<1>2. Place(order, p) \in 1 .. Len(order) /\ order[Place(order, p)] = p
  BY PlaceInOrder DEF EuProcess
<1>3. order[Ran + 1] = "issue"
  BY NextInOrder
<1>4. Place(order, p) # Ran + 1
  BY <1>2, <1>3
<1> QED  BY <1>1, <1>2, <1>4, OrderIsSeq DEF RunSinceIssue

LEMMA ExecuteBeforeCommit ==
  ASSUME RunsInFixedOrder, RestOfOrder
  PROVE  /\ Running("execute") => CommitIsLast \/ RunSinceIssue("commit")
         /\ Running("commit") /\ CommitIsLast => RunSinceIssue("execute")
<1> DEFINE i == Place(order, "issue")
           e == Place(order, "execute")
           c == Place(order, "commit")
<1>1. /\ i \in Nat /\ e \in Nat /\ c \in Nat
      /\ order[i] = "issue" /\ order[e] = "execute" /\ order[c] = "commit"
  BY PlaceInOrder, OrderIsSeq DEF EuProcess
<1>2. i # e /\ i # c /\ e # c
  BY <1>1
<1>3. /\ Running("execute") => e = Ran + 1
      /\ Running("commit") => c = Ran + 1
      /\ Ran \in Nat
  BY RunningPlace, OrderIsSeq DEF EuProcess
<1>4. /\ RunSinceIssue("commit") <=> IF i < c THEN Ran < i \/ c <= Ran ELSE c <= Ran /\ Ran < i
      /\ RunSinceIssue("execute") <=> IF i < e THEN Ran < i \/ e <= Ran ELSE e <= Ran /\ Ran < i
      /\ CommitIsLast <=> (i < e /\ e < c) \/ (e < c /\ c < i) \/ (c < i /\ i < e)
  BY DEF RunSinceIssue, CommitIsLast
<1> HIDE DEF i, e, c
<1> QED  BY <1>1, <1>2, <1>3, <1>4

\* When a process returns, it has run; all others but issue_proc leave what
\* has run since the last issue as it was.
LEMMA RunAfterReturn ==
  ASSUME RunsInFixedOrder, RestOfOrder, NEW p, Running(p), Return,
         NEW q \in {"execute", "commit"}
  PROVE  /\ p = "issue" => ~RunSinceIssue(q)'
         /\ p = q => RunSinceIssue(q)'
         /\ p # "issue" /\ p # q => (RunSinceIssue(q)' <=> RunSinceIssue(q))
         /\ CommitIsLast' <=> CommitIsLast
<1> DEFINE i == Place(order, "issue")
           k == Place(order, q)
<1>1. /\ i \in Nat /\ k \in Nat /\ Ran \in Nat
      /\ order[i] = "issue" /\ order[k] = q
  BY PlaceInOrder, OrderIsSeq DEF EuProcess
<1>2. order[Ran + 1] = p /\ Ran' = Ran + 1 /\ order' = order
  BY NextInOrder, ReturnInOrder
<1>3. /\ p = "issue" => i = Ran + 1
      /\ p = q => k = Ran + 1
  BY RunningPlace DEF EuProcess
<1>4. /\ p # "issue" => i # Ran + 1
      /\ p # q => k # Ran + 1
      /\ i # k
  BY <1>1, <1>2
<1>5. RunSinceIssue(q) <=> IF i < k THEN Ran < i \/ k <= Ran ELSE k <= Ran /\ Ran < i
  BY DEF RunSinceIssue
<1>6. RunSinceIssue(q)' <=>
        IF i < k THEN Ran' < i \/ k <= Ran' ELSE k <= Ran' /\ Ran' < i
  BY <1>2 DEF RunSinceIssue
<1>7. CommitIsLast' <=> CommitIsLast
  BY <1>2 DEF CommitIsLast
<1> HIDE DEF i, k
<1>8. p = "issue" => ~RunSinceIssue(q)'
  BY <1>1, <1>2, <1>3, <1>4, <1>6
<1>9. p = q => RunSinceIssue(q)'
  BY <1>1, <1>2, <1>3, <1>4, <1>6
<1>10. p # "issue" /\ p # q => (RunSinceIssue(q)' <=> RunSinceIssue(q))
  BY <1>1, <1>2, <1>4, <1>5, <1>6
<1> QED  BY <1>7, <1>8, <1>9, <1>10

LEMMA RunAfterEdge ==
  ASSUME RunsInFixedOrder, RestOfOrder, NextEdge, NEW q \in {"execute", "commit"}
  PROVE  /\ RunSinceIssue(q)' <=> RunSinceIssue(q)
         /\ CommitIsLast' <=> CommitIsLast
<1> DEFINE i == Place(order, "issue")
           k == Place(order, q)
<1>1. i \in 1 .. Len(order) /\ k \in 1 .. Len(order) /\ Len(order) \in Nat
  BY PlaceInOrder, OrderIsSeq DEF EuProcess
<1>2. Ran = Len(order) /\ Ran' = 0 /\ order' = order
  BY EdgeInOrder
<1>3. RunSinceIssue(q) <=> IF i < k THEN Ran < i \/ k <= Ran ELSE k <= Ran /\ Ran < i
  BY DEF RunSinceIssue
<1>4. RunSinceIssue(q)' <=>
        IF i < k THEN Ran' < i \/ k <= Ran' ELSE k <= Ran' /\ Ran' < i
  BY <1>2 DEF RunSinceIssue
<1>5. CommitIsLast' <=> CommitIsLast
  BY <1>2 DEF CommitIsLast
<1> HIDE DEF i, k
<1> QED  BY <1>1, <1>2, <1>3, <1>4, <1>5

-----------------------------------------------------------------------------
(***************************************************************************)
(* The invariant.  Of the instructions in flight only the youngest can be  *)
(* without a result and only the oldest with one; execute_proc leaves none *)
(* without, commit_proc none with one.  If commit_proc is the last before  *)
(* the next issue, nothing is left then; otherwise one instruction is, and *)
(* the next one joins it with all its operands at hand.                    *)
(***************************************************************************)
Idle == rob = RobReset /\ rs = RsReset

NothingWaits == \A q \in RsSlot : rs[q].busy => rs[q].Qj = 0 /\ rs[q].Qk = 0

StationsEmpty == \A q \in RsSlot : ~rs[q].busy

OnlyYoungestAwaits == \A i \in RobSlot :
  AwaitsResult(i) => RobAge(rob, i) = rob.count - 1

OnlyHeadHasResult == \A i \in RobSlot : HasResult(rob, i) => i = rob.head

FewInFlight ==
  /\ rob.count <= IF CommitIsLast THEN 1 ELSE 2
  /\ RunSinceIssue("commit") => rob.count <= IF CommitIsLast THEN 0 ELSE 1

FixedOrderInv ==
  /\ RestOfOrder
  /\ reset => Idle
  /\ NothingWaits
  /\ RunSinceIssue("execute") => StationsEmpty
  /\ OnlyYoungestAwaits /\ OnlyHeadHasResult
  /\ FewInFlight

LEMMA IdleIs ==
  ASSUME Idle
  PROVE  /\ StationsEmpty /\ rob.count = 0
         /\ \A i \in RobSlot : ~AwaitsResult(i) /\ ~HasResult(rob, i)
<1>1. StationsEmpty
  BY ResetIsTyped DEF Idle, StationsEmpty
<1>2. rob.count = 0 /\ \A i \in RobSlot : ~rob.entries[i].busy
  BY DEF Idle, RobReset, FreeRobEntry
<1> QED  BY <1>1, <1>2 DEF AwaitsResult, HasResult

\* Without busy slots every instruction in flight has its result.
LEMMA AllHaveResults ==
  ASSUME Inv, StationsEmpty
  PROVE  \A i \in RobSlot : ~AwaitsResult(i)
  BY DEF Inv, StationsMatchRob, StationsEmpty

\* What issue_proc finds
LEMMA FoundAtIssue ==
  ASSUME RunsInFixedOrder, Inv, FixedOrderInv, Running("issue")
  PROVE  /\ StationsEmpty /\ \A i \in RobSlot : ~AwaitsResult(i)
         /\ rob.count <= IF CommitIsLast THEN 0 ELSE 1
  BY RunAtIssue, AllHaveResults DEF FixedOrderInv, FewInFlight

\* What execute_proc finds
LEMMA FoundAtExecute ==
  ASSUME RunsInFixedOrder, Inv, FixedOrderInv, Running("execute")
  PROVE  rob.count \in 0 .. 1 /\ \A i \in RobWindow(rob) : i = rob.head
<1>1. rob \in RobType
  BY DEF Inv, TypeOK
<1>2. rob.count <= 1 /\ rob.count \in Nat
  BY <1>1, ExecuteBeforeCommit DEF FixedOrderInv, FewInFlight, RobType
<1>3. ASSUME NEW i \in RobWindow(rob) PROVE i = rob.head
  <2>1. i \in RobSlot /\ RobAge(rob, i) < rob.count
    BY DEF RobWindow
  <2>2. RobAge(rob, i) = 0 /\ rob.head \in RobSlot /\ RobAge(rob, rob.head) = 0
    BY <1>1, <1>2, <2>1, AgeBounds, HeadAge
  <2> QED  BY <1>1, <2>1, <2>2, AgeInjective
<1> QED  BY <1>2, <1>3

-----------------------------------------------------------------------------
(***************************************************************************)
(* Each process keeps the invariant.                                       *)
(***************************************************************************)
LEMMA FixedOrderInit == ASSUME RunsInFixedOrder, Init PROVE FixedOrderInv
<1>1. order \in Orders /\ pending = order
  BY DEF RunsInFixedOrder, Init, KernelInit, EdgeOrders
<1>2. order \in Seq(STRING) /\ Len(order) \in Nat
  BY <1>1, KernelAssumption
<1>3. Ran = 0
  BY <1>1, <1>2 DEF Ran
<1>4. RestOfOrder
  BY <1>1, <1>2, <1>3 DEF RestOfOrder
<1>5. Idle
  BY DEF Init, Idle
<1>6. rob.count = 0 /\ StationsEmpty
      /\ \A i \in RobSlot : ~AwaitsResult(i) /\ ~HasResult(rob, i)
  BY <1>5, IdleIs
<1> QED  BY <1>4, <1>5, <1>6 DEF FixedOrderInv, NothingWaits, StationsEmpty,
           OnlyYoungestAwaits, OnlyHeadHasResult, FewInFlight

\* A new instruction finds all its operands: what it would wait for has
\* its result.
LEMMA OperandsAtHand ==
  ASSUME Inv, RenamingTracksYoungestWriter, ~RobIsFull(rob),
         \A i \in RobSlot : ~AwaitsResult(i),
         NEW op \in Packets, NEW f \in 0 .. 7, NEW needed, NEW r \in Reg
  PROVE  Operand(Allocated(rob, op, f), needed, r).Q = 0
<1> DEFINE c == Allocated(rob, op, f)
           wait == reg_status[r].rob_entry
<1>1. rob \in RobType /\ RobRing(rob) /\ wait \in RobSlot
  BY DEF Inv, TypeOK, RobSound, RegisterStatus
<1>2. CASE reg_status[r].busy
  <2>1. wait \in RobWindow(rob)
    BY <1>2, WriterIs DEF RenamingTracksYoungestWriter
  <2>2. rob.entries[wait].busy /\ rob.entries[wait].completed
    BY <1>1, <2>1, WindowIsBusy DEF AwaitsResult
  <2>3. c.entries[wait] = rob.entries[wait]
    BY <1>1, <2>1, AllocatedWindow
  <2> HIDE DEF c, wait
  <2>4. RobIsEntryCompleted(c, wait)
    BY <1>1, <2>2, <2>3 DEF RobIsEntryCompleted
  <2>5. Operand(c, needed, r).Q = 0
    BY <2>4 DEF Operand, wait
  <2> QED  BY <2>5 DEF c
<1>3. CASE ~reg_status[r].busy
  BY <1>3 DEF Operand
<1> QED  BY <1>2, <1>3

LEMMA FixedOrderAtIssue ==
  ASSUME RunsInFixedOrder, Inv, RenamingTracksYoungestWriter, FixedOrderInv, Issue
  PROVE  FixedOrderInv'
<1>1. Running("issue") /\ Return /\ reset' = reset
  BY DEF Issue, IssueReset, IssueNothing, IssueDropped, IssueAccepted, signals
<1>2. /\ RestOfOrder'
      /\ ~RunSinceIssue("execute")' /\ ~RunSinceIssue("commit")'
      /\ CommitIsLast' <=> CommitIsLast
  BY <1>1, ReturnInOrder, RunAfterReturn DEF FixedOrderInv
<1>3. /\ StationsEmpty /\ \A i \in RobSlot : ~AwaitsResult(i)
      /\ rob.count <= IF CommitIsLast THEN 0 ELSE 1
      /\ rob \in RobType /\ RobRing(rob)
  BY <1>1, FoundAtIssue DEF Inv, TypeOK, RobSound
<1>4. CASE rob' = rob /\ rs' = rs
  <2>1. rob.count <= IF CommitIsLast THEN 1 ELSE 2
    BY <1>3 DEF RobType
  <2>2. (Idle' <=> Idle) /\ (NothingWaits' <=> NothingWaits)
        /\ (OnlyYoungestAwaits' <=> OnlyYoungestAwaits)
        /\ (OnlyHeadHasResult' <=> OnlyHeadHasResult)
    BY <1>4 DEF Idle, NothingWaits, OnlyYoungestAwaits, OnlyHeadHasResult, AwaitsResult
  <2> QED  BY <1>1, <1>2, <1>4, <2>1, <2>2 DEF FixedOrderInv, FewInFlight
<1>5. CASE IssueReset
  <2>1. rob' = RobReset /\ rs' = RsReset
    BY <1>5 DEF IssueReset
  <2>2. rob = RobReset /\ rs = RsReset
    BY <1>5 DEF IssueReset, FixedOrderInv, Idle
  <2> QED  BY <1>4, <2>1, <2>2
<1>6. CASE IssueAccepted
  <2>1. PICK q \in RsSlot, f \in 0 .. 7, e \in RsEntry :
          LET op == decode_in
              c  == Allocated(rob, op, f)
              j  == Operand(c, ReadsRs1(op), op.rs1)
              k  == Operand(c, ReadsRs2(op), op.rs2)
          IN  /\ ~RobIsFull(rob) /\ op \in Packets /\ f \in GarbageFunct3
              /\ rob' = c /\ rs' = Placed(q, e)
              /\ e.op = op /\ e.rob_index = rob.tail
              /\ e.Vj = j.V /\ e.Qj = j.Q /\ e.Vk = k.V /\ e.Qk = k.Q
    BY <1>6, IssuedSlot
  <2>2. e.Qj = 0 /\ e.Qk = 0
    <3>1. decode_in.rs1 \in Reg /\ decode_in.rs2 \in Reg
      BY <2>1, PacketFields
    <3> QED  BY <1>3, <2>1, <3>1, OperandsAtHand
  <2>3. NothingWaits'
    <3>1. \A p \in RsSlot : rs'[p] = IF p = q THEN e ELSE rs[p]
      BY <2>1 DEF Placed, Inv, TypeOK
    <3> QED  BY <2>2, <3>1, <1>3 DEF NothingWaits, StationsEmpty
  <2>4. /\ \A i \in RobSlot : RobAge(rob', i) = RobAge(rob, i)
        /\ \A i \in RobSlot :
             rob'.entries[i] = IF i = rob.tail THEN RobNewEntry(decode_in, f)
                               ELSE rob.entries[i]
        /\ RobAge(rob, rob.tail) = rob.count
        /\ rob'.head = rob.head /\ rob'.count = rob.count + 1
    BY <1>3, <2>1, AllocatedWindow, TailIsFree, AllocatedIs
  <2>5. OnlyYoungestAwaits'
    BY <1>3, <2>4 DEF OnlyYoungestAwaits, AwaitsResult, RobType
  <2>6. OnlyHeadHasResult'
    BY <2>4 DEF FixedOrderInv, OnlyHeadHasResult, HasResult, RobNewEntry
  <2>7. FewInFlight'
    BY <1>2, <1>3, <2>4 DEF FewInFlight, RobType
  <2>8. ~reset'
    BY <1>1, <1>6 DEF IssueAccepted
  <2> QED  BY <1>2, <2>3, <2>5, <2>6, <2>7, <2>8 DEF FixedOrderInv
<1> QED
  BY <1>4, <1>5, <1>6 DEF Issue, IssueNothing, IssueDropped, euVars

LEMMA FixedOrderAtExecute ==
  ASSUME RunsInFixedOrder, Inv, ReadyIffOperandsArrived, FixedOrderInv, Execute
  PROVE  FixedOrderInv'
<1>1. Running("execute") /\ reset' = reset
  BY DEF Execute, ExecuteAlu, ExecuteMem, ExecuteBranch, ExecuteReturn, signals
<1>2. CASE ExecuteAlu \/ ExecuteMem \/ ExecuteBranch
  <2>1. UNCHANGED <<order, pending>> /\ ~reset
    BY <1>2 DEF ExecuteAlu, ExecuteMem, ExecuteBranch, StillRunning, kernelVars
  <2>2. PICK q \in RsSlot, e \in RobEntry : Executed(q, e)
    BY <1>2, ExecuteAluIs, ExecuteMemIs, ExecuteBranchIs
  <2>3. \A p \in RsSlot : rs'[p] = IF p = q THEN FreeRsEntry ELSE rs[p]
    BY <2>2 DEF Executed, Placed, Inv, TypeOK
  <2> DEFINE i == rs[q].rob_index
  <2>4. /\ i \in RobSlot /\ rob' = Marked(rob, i, e) /\ e.completed /\ rob \in RobType
        /\ i \in RobWindow(rob)
    BY <2>2, WindowIsBusy DEF Executed, AwaitsResult, Inv, TypeOK, RobSound
  <2>5. /\ \A k \in RobSlot : RobAge(rob', k) = RobAge(rob, k)
        /\ \A k \in RobSlot : rob'.entries[k] = IF k = i THEN e ELSE rob.entries[k]
    BY <2>4, MarkedWindow
  <2>6. rob'.head = rob.head /\ rob'.count = rob.count
    BY <2>4 DEF Marked, RobType
  <2>7. i = rob.head
    BY <1>1, <2>4, FoundAtExecute
  <2> HIDE DEF i
  <2>8. RestOfOrder' /\ (CommitIsLast' <=> CommitIsLast)
        /\ (RunSinceIssue("execute")' <=> RunSinceIssue("execute"))
        /\ (RunSinceIssue("commit")' <=> RunSinceIssue("commit"))
    BY <2>1 DEF FixedOrderInv, RestOfOrder, CommitIsLast, RunSinceIssue, Ran
  <2>9. NothingWaits' /\ (StationsEmpty => StationsEmpty')
    BY <2>3 DEF FixedOrderInv, NothingWaits, StationsEmpty, FreeRsEntry
  <2>10. OnlyYoungestAwaits'
    BY <2>4, <2>5, <2>6 DEF FixedOrderInv, OnlyYoungestAwaits, AwaitsResult
  <2>11. OnlyHeadHasResult'
    BY <2>5, <2>6, <2>7 DEF FixedOrderInv, OnlyHeadHasResult, HasResult
  <2>12. FewInFlight'
    BY <2>6, <2>8 DEF FixedOrderInv, FewInFlight
  <2> QED  BY <1>1, <2>1, <2>8, <2>9, <2>10, <2>11, <2>12 DEF FixedOrderInv
<1>3. CASE ExecuteReturn
  <2>1. Return /\ rob' = rob /\ rs' = rs
    BY <1>3 DEF ExecuteReturn, euVars
  <2>2. /\ RestOfOrder' /\ (CommitIsLast' <=> CommitIsLast)
        /\ (RunSinceIssue("commit")' <=> RunSinceIssue("commit"))
    BY <1>1, <2>1, ReturnInOrder, RunAfterReturn DEF FixedOrderInv
  <2>3. StationsEmpty
    <3>1. CASE reset
      BY <3>1, IdleIs DEF FixedOrderInv
    <3>2. CASE ~reset
      <4>1. ASSUME NEW q \in RsSlot, rs[q].busy PROVE FALSE
        <5>1. rs[q].ready /\ q[1] \in Station
          BY <4>1 DEF FixedOrderInv, NothingWaits, ReadyIffOperandsArrived, RsSlot
        <5>2. q \in RsReady(rs, q[1])
          BY <4>1, <5>1 DEF RsReady, SlotsOf
        <5> QED  BY <1>3, <3>2, <5>1, <5>2 DEF ExecuteReturn
      <4> QED  BY <4>1 DEF StationsEmpty
    <3> QED  BY <3>1, <3>2
  <2>4. (Idle' <=> Idle) /\ (NothingWaits' <=> NothingWaits)
        /\ (StationsEmpty' <=> StationsEmpty)
        /\ (OnlyYoungestAwaits' <=> OnlyYoungestAwaits)
        /\ (OnlyHeadHasResult' <=> OnlyHeadHasResult)
    BY <2>1 DEF Idle, NothingWaits, StationsEmpty, OnlyYoungestAwaits,
                OnlyHeadHasResult, AwaitsResult
  <2> QED  BY <1>1, <2>1, <2>2, <2>3, <2>4 DEF FixedOrderInv, FewInFlight
<1> QED  BY <1>2, <1>3 DEF Execute

LEMMA FixedOrderAtComplete ==
  ASSUME RunsInFixedOrder, Inv, FixedOrderInv, Complete
  PROVE  FixedOrderInv'
<1>1. Running("complete") /\ Return /\ reset' = reset
  BY DEF Complete, signals
<1>2. /\ RestOfOrder' /\ (CommitIsLast' <=> CommitIsLast)
      /\ (RunSinceIssue("execute")' <=> RunSinceIssue("execute"))
      /\ (RunSinceIssue("commit")' <=> RunSinceIssue("commit"))
  BY <1>1, ReturnInOrder, RunAfterReturn DEF FixedOrderInv
<1>3. CASE rob' = rob /\ rs' = rs
  <2>1. (Idle' <=> Idle) /\ (NothingWaits' <=> NothingWaits)
        /\ (StationsEmpty' <=> StationsEmpty)
        /\ (OnlyYoungestAwaits' <=> OnlyYoungestAwaits)
        /\ (OnlyHeadHasResult' <=> OnlyHeadHasResult)
    BY <1>3 DEF Idle, NothingWaits, StationsEmpty, OnlyYoungestAwaits,
                OnlyHeadHasResult, AwaitsResult
  <2> QED  BY <1>1, <1>2, <1>3, <2>1 DEF FixedOrderInv, FewInFlight
<1>4. CASE ~reset /\ rob' = RobAfterReport(rob) /\ rs' = Woken
  <2>1. /\ \A k \in RobSlot : RobAge(rob', k) = RobAge(rob, k)
        /\ rob'.entries = rob.entries
        /\ rob'.head = rob.head /\ rob'.count = rob.count
    <3>1. rob \in RobType
      BY DEF Inv, TypeOK
    <3>2. rob'.head = rob.head /\ rob'.count = rob.count
      BY <1>4, <3>1 DEF RobAfterReport, RobType
    <3> QED  BY <1>4, <3>1, <3>2, ReportWindow
  <2>2. \A q \in RsSlot :
          /\ rs'[q].busy <=> rs[q].busy
          /\ rs[q].busy /\ rs[q].Qj = 0 => rs'[q].Qj = 0
          /\ rs[q].busy /\ rs[q].Qk = 0 => rs'[q].Qk = 0
    BY <1>4, WokenSlot
  <2>3. NothingWaits' /\ (StationsEmpty => StationsEmpty')
    BY <2>2 DEF FixedOrderInv, NothingWaits, StationsEmpty
  <2>4. OnlyYoungestAwaits' /\ OnlyHeadHasResult'
    BY <2>1 DEF FixedOrderInv, OnlyYoungestAwaits, OnlyHeadHasResult, AwaitsResult, HasResult
  <2> QED  BY <1>1, <1>2, <1>4, <2>1, <2>3, <2>4 DEF FixedOrderInv, FewInFlight
<1> QED  BY <1>3, <1>4, CompleteIs

LEMMA FixedOrderAtCommit ==
  ASSUME RunsInFixedOrder, Inv, FixedOrderInv, Commit
  PROVE  FixedOrderInv'
<1>1. Running("commit") /\ reset' = reset /\ rob \in RobType /\ RobRing(rob)
  BY DEF Commit, CommitStore, CommitRegister, CommitReturn, Committing, signals,
         Inv, TypeOK, RobSound
<1>2. CASE CommitStore \/ CommitRegister
  <2>1. UNCHANGED <<order, pending>> /\ ~reset
    BY <1>2 DEF CommitStore, CommitRegister, Committing, StillRunning, kernelVars
  <2>2. ~RobIsEmpty(rob) /\ rob' = RobRemoveHead(rob) /\ rs' = rs
    BY <1>2, CommitIs
  <2>3. /\ \A i \in RobSlot : i # rob.head => RobAge(rob', i) = RobAge(rob, i) - 1
        /\ \A i \in RobSlot :
             rob'.entries[i] = IF i = rob.head THEN FreeRobEntry ELSE rob.entries[i]
        /\ rob'.count = rob.count - 1
    BY <1>1, <2>2, RemoveHeadWindow, RemoveHeadIs
  <2>4. /\ RestOfOrder' /\ (CommitIsLast' <=> CommitIsLast)
        /\ (RunSinceIssue("execute")' <=> RunSinceIssue("execute"))
        /\ (RunSinceIssue("commit")' <=> RunSinceIssue("commit"))
    BY <2>1 DEF FixedOrderInv, RestOfOrder, CommitIsLast, RunSinceIssue, Ran
  <2>5. OnlyYoungestAwaits'
    BY <1>1, <2>3 DEF FixedOrderInv, OnlyYoungestAwaits, AwaitsResult, FreeRobEntry, RobType
  <2>6. OnlyHeadHasResult'
    BY <2>3 DEF FixedOrderInv, OnlyHeadHasResult, HasResult, FreeRobEntry
  <2>7. FewInFlight'
    BY <1>1, <2>3, <2>4 DEF FixedOrderInv, FewInFlight, RobType
  <2>8. (NothingWaits' <=> NothingWaits) /\ (StationsEmpty' <=> StationsEmpty)
    BY <2>2 DEF NothingWaits, StationsEmpty
  <2> QED  BY <1>1, <2>1, <2>4, <2>5, <2>6, <2>7, <2>8 DEF FixedOrderInv
<1>3. CASE CommitReturn
  <2>1. Return /\ rob' = rob /\ rs' = rs
    BY <1>3 DEF CommitReturn, euVars
  <2>2. /\ RestOfOrder' /\ (CommitIsLast' <=> CommitIsLast)
        /\ (RunSinceIssue("execute")' <=> RunSinceIssue("execute"))
    BY <1>1, <2>1, ReturnInOrder, RunAfterReturn DEF FixedOrderInv
  <2>3. rob.count <= IF CommitIsLast THEN 0 ELSE 1
    <3>1. CASE rob.count = 0
      BY <3>1
    <3>2. CASE rob.count # 0
      <4>1. ~rob.entries[rob.head].completed
        BY <1>3, <3>2, IdleIs DEF CommitReturn, RobIsHeadCompleted, RobIsEmpty, FixedOrderInv
      <4>2. /\ rob.head \in RobSlot /\ RobAge(rob, rob.head) = 0 /\ rob.count > 0
            /\ rob.head \in RobWindow(rob)
        BY <1>1, <3>2, HeadAge DEF RobType, RobWindow
      <4>3. AwaitsResult(rob.head)
        BY <1>1, <4>1, <4>2, WindowIsBusy DEF AwaitsResult
      <4>4. rob.count = 1
        BY <1>1, <4>2, <4>3 DEF FixedOrderInv, OnlyYoungestAwaits, RobType
      <4>5. ~CommitIsLast
        BY <1>1, <4>2, <4>3, ExecuteBeforeCommit, AllHaveResults DEF FixedOrderInv
      <4> QED  BY <4>4, <4>5
    <3> QED  BY <3>1, <3>2
  <2>4. (Idle' <=> Idle) /\ (NothingWaits' <=> NothingWaits)
        /\ (StationsEmpty' <=> StationsEmpty)
        /\ (OnlyYoungestAwaits' <=> OnlyYoungestAwaits)
        /\ (OnlyHeadHasResult' <=> OnlyHeadHasResult)
    BY <2>1 DEF Idle, NothingWaits, StationsEmpty, OnlyYoungestAwaits,
                OnlyHeadHasResult, AwaitsResult
  <2> QED  BY <1>1, <2>1, <2>2, <2>3, <2>4 DEF FixedOrderInv, FewInFlight
<1> QED  BY <1>2, <1>3 DEF Commit

\* Processes that are not the unit's, and the edges between
LEMMA FixedOrderElsewhere ==
  ASSUME RunsInFixedOrder, FixedOrderInv, UNCHANGED euVars,
         \/ NextEdge /\ (reset' = FALSE \/ reset' = reset)
         \/ Return /\ reset' = reset /\ \E p : Running(p) /\ p \notin EuProcess
  PROVE  FixedOrderInv'
<1>1. /\ RestOfOrder' /\ (CommitIsLast' <=> CommitIsLast)
      /\ (RunSinceIssue("execute")' <=> RunSinceIssue("execute"))
      /\ (RunSinceIssue("commit")' <=> RunSinceIssue("commit"))
  <2>1. CASE NextEdge
    BY <2>1, EdgeInOrder, RunAfterEdge DEF FixedOrderInv
  <2>2. ASSUME NEW p, Running(p), p \notin EuProcess, Return
        PROVE  /\ RestOfOrder' /\ (CommitIsLast' <=> CommitIsLast)
               /\ (RunSinceIssue("execute")' <=> RunSinceIssue("execute"))
               /\ (RunSinceIssue("commit")' <=> RunSinceIssue("commit"))
    BY <2>2, ReturnInOrder, RunAfterReturn DEF FixedOrderInv, EuProcess
  <2> QED  BY <2>1, <2>2
<1>2. rob' = rob /\ rs' = rs
  BY DEF euVars
<1>3. (Idle' <=> Idle) /\ (NothingWaits' <=> NothingWaits)
      /\ (StationsEmpty' <=> StationsEmpty)
      /\ (OnlyYoungestAwaits' <=> OnlyYoungestAwaits)
      /\ (OnlyHeadHasResult' <=> OnlyHeadHasResult)
  BY <1>2 DEF Idle, NothingWaits, StationsEmpty, OnlyYoungestAwaits,
              OnlyHeadHasResult, AwaitsResult
<1>4. reset' => reset
  OBVIOUS
<1> QED  BY <1>1, <1>2, <1>3, <1>4 DEF FixedOrderInv, FewInFlight

LEMMA FixedOrderStep ==
  ASSUME RunsInFixedOrder, Inv, ReadyIffOperandsArrived, RenamingTracksYoungestWriter,
         FixedOrderInv, [Next]_vars
  PROVE  FixedOrderInv'
<1>1. CASE UNCHANGED vars
  <2>1. UNCHANGED <<rob, rs, reset, order, pending>>
    BY <1>1 DEF vars
  <2> QED  BY <2>1 DEF FixedOrderInv, RestOfOrder, CommitIsLast, RunSinceIssue, Ran,
             Idle, NothingWaits, StationsEmpty, OnlyYoungestAwaits,
             OnlyHeadHasResult, AwaitsResult, FewInFlight
<1>2. CASE ClockEdge
  BY <1>2, FixedOrderElsewhere DEF ClockEdge
<1> QED
  BY <1>1, <1>2, FixedOrderAtIssue, FixedOrderAtExecute, FixedOrderAtComplete,
     FixedOrderAtCommit DEF Next

LEMMA FixedOrderHolds == ASSUME RunsInFixedOrder PROVE Spec => []FixedOrderInv
<1>1. Init => FixedOrderInv
  BY FixedOrderInit
<1>2. (/\ Inv /\ ReadyIffOperandsArrived /\ RenamingTracksYoungestWriter
       /\ FixedOrderInv /\ [Next]_vars) => FixedOrderInv'
  BY FixedOrderStep
<1> QED  BY InvHolds, ReadinessCorrect, RenamingCorrect, <1>1, <1>2, PTL DEF Spec

-----------------------------------------------------------------------------
(***************************************************************************)
(* What the invariant gives.                                               *)
(***************************************************************************)
\* issue_proc never drops a packet.
LEMMA RoomAtIssue ==
  ASSUME RunsInFixedOrder, ROB_SIZE >= 2, Inv, FixedOrderInv
  PROVE  ~IssueDropped
<1> SUFFICES ASSUME IssueDropped PROVE FALSE
  OBVIOUS
<1>1. StationsEmpty /\ rob.count <= 1
  <2>1. rob.count <= (IF CommitIsLast THEN 0 ELSE 1) /\ rob \in RobType /\ StationsEmpty
    BY FoundAtIssue DEF IssueDropped, Inv, TypeOK
  <2> QED  BY <2>1 DEF RobType
<1>2. ~RobIsFull(rob)
  BY <1>1, RobSizeAssumption DEF RobIsFull
<1>3. RsIsFull(rs, StationOf(decode_in))
  BY <1>2 DEF IssueDropped
<1>4. PICK s \in Station : s = StationOf(decode_in)
  BY DEF StationOf, Station
<1>5. <<s, 0>> \in RsSlot /\ <<s, 0>>[1] = s
  BY RsSizeAssumption DEF RsSlot
<1> QED  BY <1>1, <1>3, <1>4, <1>5 DEF RsIsFull, SlotsOf, StationsEmpty

\* In a fixed order, issue_proc never meets a full buffer or station: every
\* packet the decoder presents is executed.
THEOREM NothingIsDropped ==
  ASSUME RunsInFixedOrder, ROB_SIZE >= 2
  PROVE  Spec => NothingDropped
<1>1. Inv /\ FixedOrderInv => ~IssueDropped
  BY RoomAtIssue
<1> QED  BY InvHolds, FixedOrderHolds, <1>1, PTL DEF NothingDropped

\* No tag is ever handed out, so none can be lost.
LEMMA NoTagsInFixedOrder == FixedOrderInv => TagsInv
  BY DEF FixedOrderInv, NothingWaits, TagsInv, SlotTags, OperandTag

LEMMA LoadsInFixedOrder ==
  ASSUME Inv, FixedOrderInv
  PROVE  LoadsFollowStores
<1>1. rob \in RobType
  BY DEF Inv, TypeOK
<1>2. /\ RobAge(rob, rob.head) = 0
      /\ \A k \in RobSlot : RobAge(rob, k) \in Nat
  BY <1>1, HeadAge, AgeBounds
<1> QED  BY <1>2 DEF LoadsFollowStores, FixedOrderInv, OnlyHeadHasResult

LEMMA IdleInReset == FixedOrderInv => (reset => rob = RobReset)
  BY DEF FixedOrderInv, Idle

\* In a fixed order the unit implements SequentialMachine for all programs,
\* with loads and stores in any mixture.
THEOREM SequentialInFixedOrder ==
  ASSUME RunsInFixedOrder, BranchesNameNoRegister(Packets)
  PROVE  Spec => ExecutesSequentially
<1>1. Init => DataInv
  BY DataInit
<1>2. (/\ Inv /\ ReadyIffOperandsArrived /\ RenamingTracksYoungestWriter
       /\ FixedOrderInv /\ DataInv /\ [Next]_vars) => DataInv'
  BY NoTagsInFixedOrder, LoadsInFixedOrder, PacketsNameNone, DataStep
<1>3. Init => AsCoded!Start
  BY DEF Init, AsCoded!Start, programOrder, RobReset, AsCoded!Reg, Reg
<1>4. (Inv /\ FixedOrderInv /\ DataInv /\ [Next]_vars)
        => [AsCoded!Step]_(AsCoded!seqVars)
  BY IdleInReset, PacketsNameNone, RefinementStep
<1> QED
  BY InvHolds, ReadinessCorrect, RenamingCorrect, FixedOrderHolds,
     <1>1, <1>2, <1>3, <1>4, PTL
  DEF Spec, ExecutesSequentially, AsCoded!Run

=============================================================================
