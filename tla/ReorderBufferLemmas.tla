------------------------- MODULE ReorderBufferLemmas ------------------------
(***************************************************************************)
(* What the operations of the reorder buffer do to its ring, for every     *)
(* size of it: they keep its type and its soundness, and the ages of the   *)
(* entries change as a queue's positions do.  ReorderBufferProofs and the  *)
(* proofs about ExecutionUnit cite these lemmas.                           *)
(***************************************************************************)
EXTENDS ReorderBuffer, Sequences, SequenceTheorems, TLAPS

\* One step along the ring: (i + 1) % max_entries.
LEMMA NextSlot ==
  ASSUME NEW i \in RobSlot
  PROVE  (i + 1) % ROB_SIZE = IF i + 1 = ROB_SIZE THEN 0 ELSE i + 1
  BY RobSizeAssumption, SMT DEF RobSlot

\* The position of a slot in the window never exceeds the ring.
LEMMA AgeBounds ==
  ASSUME NEW b \in RobType, NEW i \in RobSlot
  PROVE  RobAge(b, i) \in 0 .. ROB_SIZE - 1
  BY RobSizeAssumption DEF RobAge, RobType, RobSlot

\* reset() leaves an empty, sound ring.
LEMMA ResetSound == RobReset \in RobType /\ RobRing(RobReset)
<1>1. FreeRobEntry \in RobEntry
  BY TypesAssumption DEF FreeRobEntry, RobEntry, Word
<1>2. RobReset \in RobType
  BY <1>1, RobSizeAssumption DEF RobReset, RobType, RobSlot
<1>3. RobRing(RobReset)
  <2>1. \A i \in RobSlot : ~(RobAge(RobReset, i) < RobReset.count)
    BY RobSizeAssumption DEF RobAge, RobReset, RobSlot
  <2>2. /\ RobReset.tail = 0 /\ RobReset.head = 0 /\ RobReset.count = 0
        /\ \A i \in RobSlot : RobReset.entries[i] = FreeRobEntry
        /\ \A i \in RobSlot : ~RobReset.newly_completed[i]
    BY DEF RobReset
  <2>3. ~FreeRobEntry.busy
    BY DEF FreeRobEntry
  <2> QED  BY <2>1, <2>2, <2>3, RobSizeAssumption DEF RobRing
<1> QED  BY <1>2, <1>3

\* allocate_entry() and update_entry(), as issue_proc calls them, put a busy
\* entry without a result at the tail.
Allocated(b, op, f) == RobUpdateEntry(RobAllocateEntry(b), b.tail, RobNewEntry(op, f))

LEMMA AllocatedIs ==
  ASSUME NEW b \in RobType, NEW op, NEW f, ~RobIsFull(b)
  PROVE  Allocated(b, op, f) =
           [head |-> b.head,
            tail |-> IF b.tail + 1 = ROB_SIZE THEN 0 ELSE b.tail + 1,
            count |-> b.count + 1,
            entries |-> [b.entries EXCEPT ![b.tail] = RobNewEntry(op, f)],
            newly_completed |-> [b.newly_completed EXCEPT ![b.tail] = FALSE]]
<1>1. b.tail \in RobSlot  BY DEF RobType
<1>2. (b.tail + 1) % ROB_SIZE = IF b.tail + 1 = ROB_SIZE THEN 0 ELSE b.tail + 1
  BY <1>1, NextSlot
<1> QED  BY <1>1, <1>2 DEF Allocated, RobAllocateEntry, RobUpdateEntry, RobType

LEMMA AllocatedSound ==
  ASSUME NEW b \in RobType, RobRing(b), ~RobIsFull(b),
         NEW op \in Packets, NEW f \in 0 .. 7
  PROVE  Allocated(b, op, f) \in RobType /\ RobRing(Allocated(b, op, f))
<1> DEFINE c == Allocated(b, op, f)
<1>1. RobNewEntry(op, f) \in RobEntry
  BY TypesAssumption DEF RobNewEntry, RobEntry, Word
<1>2. b.count \in 0 .. ROB_SIZE - 1
  BY RobSizeAssumption DEF RobType, RobIsFull
<1>3. b.head \in RobSlot /\ b.tail \in RobSlot
  BY DEF RobType
<1>4. c = [head |-> b.head,
           tail |-> IF b.tail + 1 = ROB_SIZE THEN 0 ELSE b.tail + 1,
           count |-> b.count + 1,
           entries |-> [b.entries EXCEPT ![b.tail] = RobNewEntry(op, f)],
           newly_completed |-> [b.newly_completed EXCEPT ![b.tail] = FALSE]]
  BY AllocatedIs
<1> HIDE DEF c
<1>5. \A i \in RobSlot :
        c.entries[i] = IF i = b.tail THEN RobNewEntry(op, f) ELSE b.entries[i]
  BY <1>4 DEF RobType
<1>6. c \in RobType
  <2>1. c.tail \in RobSlot
    BY <1>3, <1>4, RobSizeAssumption DEF RobSlot
  <2>2. c.entries \in [RobSlot -> RobEntry]
    BY <1>1, <1>4 DEF RobType
  <2>3. c.newly_completed \in [RobSlot -> BOOLEAN]
    BY <1>4 DEF RobType
  <2>4. c.count \in 0 .. ROB_SIZE
    BY <1>2, <1>4, RobSizeAssumption
  <2> QED  BY <1>3, <1>4, <2>1, <2>2, <2>3, <2>4 DEF RobType
<1>7. RobRing(c)
  <2>1. c.tail = IF c.head + c.count < ROB_SIZE THEN c.head + c.count
                 ELSE c.head + c.count - ROB_SIZE
    <3>1. b.tail = IF b.head + b.count < ROB_SIZE THEN b.head + b.count
                   ELSE b.head + b.count - ROB_SIZE
      BY DEF RobRing
    <3>2. /\ c.tail = IF b.tail + 1 = ROB_SIZE THEN 0 ELSE b.tail + 1
          /\ c.head = b.head /\ c.count = b.count + 1
      BY <1>4
    <3> QED  BY <3>1, <3>2, <1>2, <1>3, RobSizeAssumption DEF RobSlot
  <2>2. ASSUME NEW i \in RobSlot
        PROVE  c.entries[i].busy <=> RobAge(c, i) < c.count
    <3>1. RobAge(c, i) = RobAge(b, i)
      BY <1>4 DEF RobAge
    <3>2. CASE i = b.tail
      <4>1. RobAge(b, i) = b.count
        BY <3>2, <1>2, <1>3, RobSizeAssumption DEF RobRing, RobAge, RobSlot
      <4> QED  BY <4>1, <3>1, <3>2, <1>2, <1>4, <1>5 DEF RobNewEntry
    <3>3. CASE i # b.tail
      <4>1. RobAge(b, i) # b.count
        BY <3>3, <1>2, <1>3, RobSizeAssumption DEF RobRing, RobAge, RobSlot
      <4>2. c.entries[i] = b.entries[i]
        BY <3>3, <1>5
      <4>3. RobAge(b, i) \in Int
        BY AgeBounds
      <4> QED  BY <4>1, <4>2, <4>3, <3>1, <1>2, <1>4 DEF RobRing
    <3> QED  BY <3>2, <3>3
  <2>3. ASSUME NEW i \in RobSlot, c.newly_completed[i]
        PROVE  c.entries[i].busy /\ c.entries[i].completed
    <3>1. i # b.tail /\ b.newly_completed[i]
      BY <2>3, <1>3, <1>4 DEF RobType
    <3> QED  BY <3>1, <1>5 DEF RobRing
  <2> QED  BY <2>1, <2>2, <2>3 DEF RobRing
<1> QED  BY <1>6, <1>7 DEF c

\* The slot allocate_entry() takes holds no instruction in flight.
LEMMA TailIsFree ==
  ASSUME NEW b \in RobType, RobRing(b), ~RobIsFull(b)
  PROVE  b.tail \in RobSlot /\ RobAge(b, b.tail) = b.count /\ ~b.entries[b.tail].busy
<1>1. b.count \in 0 .. ROB_SIZE - 1 /\ b.head \in RobSlot /\ b.tail \in RobSlot
  BY RobSizeAssumption DEF RobType, RobIsFull
<1>2. RobAge(b, b.tail) = b.count
  BY <1>1, RobSizeAssumption DEF RobRing, RobAge, RobSlot
<1> QED  BY <1>1, <1>2 DEF RobRing

\* complete_entry(), complete_branch_entry() and update_store_entry() replace
\* a busy entry by one that is busy and completed, and raise its flag.
Marked(b, i, e) ==
  [head |-> b.head, tail |-> b.tail, count |-> b.count,
   entries |-> [b.entries EXCEPT ![i] = e],
   newly_completed |-> [b.newly_completed EXCEPT ![i] = TRUE]]

LEMMA MarkedSound ==
  ASSUME NEW b \in RobType, RobRing(b), NEW i \in RobSlot, b.entries[i].busy,
         NEW e \in RobEntry, e.busy, e.completed
  PROVE  Marked(b, i, e) \in RobType /\ RobRing(Marked(b, i, e))
<1> DEFINE c == Marked(b, i, e)
<1>1. /\ c.head = b.head /\ c.tail = b.tail /\ c.count = b.count
      /\ \A k \in RobSlot : c.entries[k] = IF k = i THEN e ELSE b.entries[k]
      /\ \A k \in RobSlot :
           c.newly_completed[k] = IF k = i THEN TRUE ELSE b.newly_completed[k]
  BY DEF Marked, RobType
<1>2. c \in RobType
  BY DEF Marked, RobType
<1> HIDE DEF c
<1>3. \A k \in RobSlot : RobAge(c, k) = RobAge(b, k)
  BY <1>1 DEF RobAge
<1>4. RobRing(c)
  BY <1>1, <1>3 DEF RobRing
<1> QED  BY <1>2, <1>4 DEF c

CompletedEntry(b, i, v) == [b.entries[i] EXCEPT !.value = v, !.completed = TRUE]

StoredEntry(b, i, a, d) ==
  [b.entries[i] EXCEPT !.mem_addr = a, !.mem_data = d, !.completed = TRUE]

LEMMA CompleteEntryIs ==
  ASSUME NEW b \in RobType, NEW i \in RobSlot, NEW v \in Word
  PROVE  /\ RobCompleteEntry(b, i, v) = Marked(b, i, CompletedEntry(b, i, v))
         /\ CompletedEntry(b, i, v) \in RobEntry
         /\ CompletedEntry(b, i, v).completed
         /\ CompletedEntry(b, i, v).busy = b.entries[i].busy
         /\ CompletedEntry(b, i, v).op = b.entries[i].op
         /\ CompletedEntry(b, i, v).value = v
<1>1. b.entries[i] \in RobEntry
  BY DEF RobType
<1>2. RobCompleteEntry(b, i, v) = Marked(b, i, CompletedEntry(b, i, v))
  BY DEF RobCompleteEntry, Marked, CompletedEntry, RobType
<1>3. /\ CompletedEntry(b, i, v) \in RobEntry
      /\ CompletedEntry(b, i, v).completed
      /\ CompletedEntry(b, i, v).busy = b.entries[i].busy
      /\ CompletedEntry(b, i, v).op = b.entries[i].op
      /\ CompletedEntry(b, i, v).value = v
  BY <1>1 DEF CompletedEntry, RobEntry
<1> QED  BY <1>2, <1>3

LEMMA StoreEntryIs ==
  ASSUME NEW b \in RobType, NEW i \in RobSlot, NEW a \in Word, NEW d \in Word
  PROVE  /\ RobUpdateStoreEntry(b, i, a, d) = Marked(b, i, StoredEntry(b, i, a, d))
         /\ StoredEntry(b, i, a, d) \in RobEntry
         /\ StoredEntry(b, i, a, d).completed
         /\ StoredEntry(b, i, a, d).busy = b.entries[i].busy
         /\ StoredEntry(b, i, a, d).op = b.entries[i].op
         /\ StoredEntry(b, i, a, d).mem_addr = a
         /\ StoredEntry(b, i, a, d).mem_data = d
         /\ StoredEntry(b, i, a, d).funct3 = b.entries[i].funct3
<1>1. b.entries[i] \in RobEntry
  BY DEF RobType
<1>2. RobUpdateStoreEntry(b, i, a, d) = Marked(b, i, StoredEntry(b, i, a, d))
  BY DEF RobUpdateStoreEntry, Marked, StoredEntry, RobType
<1>3. /\ StoredEntry(b, i, a, d) \in RobEntry
      /\ StoredEntry(b, i, a, d).completed
      /\ StoredEntry(b, i, a, d).busy = b.entries[i].busy
      /\ StoredEntry(b, i, a, d).op = b.entries[i].op
      /\ StoredEntry(b, i, a, d).mem_addr = a
      /\ StoredEntry(b, i, a, d).mem_data = d
      /\ StoredEntry(b, i, a, d).funct3 = b.entries[i].funct3
  BY <1>1 DEF StoredEntry, RobEntry
<1> QED  BY <1>2, <1>3

\* get_newly_completed() only lowers flags.
LEMMA ReportSound ==
  ASSUME NEW b \in RobType, RobRing(b)
  PROVE  RobAfterReport(b) \in RobType /\ RobRing(RobAfterReport(b))
<1> DEFINE c == RobAfterReport(b)
<1>1. /\ c.head = b.head /\ c.tail = b.tail /\ c.count = b.count
      /\ c.entries = b.entries
      /\ \A k \in RobSlot : c.newly_completed[k] => b.newly_completed[k]
  BY DEF RobAfterReport, RobType
<1>2. c \in RobType
  BY DEF RobAfterReport, RobType
<1> HIDE DEF c
<1>3. \A k \in RobSlot : RobAge(c, k) = RobAge(b, k)
  BY <1>1 DEF RobAge
<1>4. RobRing(c)
  BY <1>1, <1>3 DEF RobRing
<1> QED  BY <1>2, <1>4 DEF c

\* remove_head() moves the head to the next slot, so every other slot gets
\* one place older, and the freed one is the furthest from the new head.
LEMMA RemoveHeadIs ==
  ASSUME NEW b \in RobType, ~RobIsEmpty(b)
  PROVE  RobRemoveHead(b) =
           [head |-> IF b.head + 1 = ROB_SIZE THEN 0 ELSE b.head + 1,
            tail |-> b.tail,
            count |-> b.count - 1,
            entries |-> [b.entries EXCEPT ![b.head] = FreeRobEntry],
            newly_completed |-> [b.newly_completed EXCEPT ![b.head] = FALSE]]
<1>1. b.head \in RobSlot  BY DEF RobType
<1>2. (b.head + 1) % ROB_SIZE = IF b.head + 1 = ROB_SIZE THEN 0 ELSE b.head + 1
  BY <1>1, NextSlot
<1> QED  BY <1>1, <1>2 DEF RobRemoveHead, RobType

LEMMA RemoveHeadSound ==
  ASSUME NEW b \in RobType, RobRing(b), ~RobIsEmpty(b)
  PROVE  RobRemoveHead(b) \in RobType /\ RobRing(RobRemoveHead(b))
<1> DEFINE c == RobRemoveHead(b)
<1>1. c = [head |-> IF b.head + 1 = ROB_SIZE THEN 0 ELSE b.head + 1,
           tail |-> b.tail,
           count |-> b.count - 1,
           entries |-> [b.entries EXCEPT ![b.head] = FreeRobEntry],
           newly_completed |-> [b.newly_completed EXCEPT ![b.head] = FALSE]]
  BY RemoveHeadIs
<1> HIDE DEF c
<1>2. b.head \in RobSlot /\ b.tail \in RobSlot /\ b.count \in 1 .. ROB_SIZE
  BY RobSizeAssumption DEF RobType, RobIsEmpty
<1>3. FreeRobEntry \in RobEntry
  BY TypesAssumption DEF FreeRobEntry, RobEntry, Word
<1>4. c.head = IF b.head + 1 = ROB_SIZE THEN 0 ELSE b.head + 1
  BY <1>1
<1>5. c.head \in RobSlot /\ c.count = b.count - 1 /\ c.count \in 0 .. ROB_SIZE
  BY <1>1, <1>2, <1>4, RobSizeAssumption DEF RobSlot
<1>6. c \in RobType
  <2>1. /\ [b.entries EXCEPT ![b.head] = FreeRobEntry] \in [RobSlot -> RobEntry]
        /\ [b.newly_completed EXCEPT ![b.head] = FALSE] \in [RobSlot -> BOOLEAN]
    BY <1>2, <1>3 DEF RobType
  <2> QED  BY <1>1, <1>2, <1>5, <2>1 DEF RobType
<1>7. \A i \in RobSlot :
        /\ c.entries[i] = IF i = b.head THEN FreeRobEntry ELSE b.entries[i]
        /\ c.newly_completed[i] <=> i # b.head /\ b.newly_completed[i]
  BY <1>1 DEF RobType
<1>8. RobRing(c)
  <2>1. c.tail = IF c.head + c.count < ROB_SIZE THEN c.head + c.count
                 ELSE c.head + c.count - ROB_SIZE
    <3>1. /\ b.tail = IF b.head + b.count < ROB_SIZE THEN b.head + b.count
                      ELSE b.head + b.count - ROB_SIZE
          /\ c.tail = b.tail
      BY <1>1 DEF RobRing
    <3> QED  BY <3>1, <1>2, <1>4, <1>5, RobSizeAssumption DEF RobSlot
  <2>2. ASSUME NEW i \in RobSlot
        PROVE  c.entries[i].busy <=> RobAge(c, i) < c.count
    <3>1. CASE i = b.head
      <4>1. RobAge(c, i) = ROB_SIZE - 1
        BY <3>1, <1>2, <1>4, RobSizeAssumption DEF RobAge, RobSlot
      <4>2. ~c.entries[i].busy
        BY <3>1, <1>7 DEF FreeRobEntry
      <4> QED  BY <4>1, <4>2, <1>2, <1>5, RobSizeAssumption
    <3>2. CASE i # b.head
      <4>1. RobAge(c, i) = RobAge(b, i) - 1
        BY <3>2, <1>2, <1>4, RobSizeAssumption DEF RobAge, RobSlot
      <4>2. RobAge(b, i) \in Int
        BY AgeBounds
      <4>3. b.entries[i].busy <=> RobAge(b, i) < b.count
        BY DEF RobRing
      <4> QED  BY <3>2, <4>1, <4>2, <4>3, <1>2, <1>5, <1>7
    <3> QED  BY <3>1, <3>2
  <2>3. ASSUME NEW i \in RobSlot, c.newly_completed[i]
        PROVE  c.entries[i].busy /\ c.entries[i].completed
    BY <2>3, <1>7 DEF RobRing
  <2> QED  BY <2>1, <2>2, <2>3 DEF RobRing
<1> QED  BY <1>6, <1>8 DEF c

-----------------------------------------------------------------------------
(***************************************************************************)
(* The window as a queue: how its members and their ages change.           *)
(***************************************************************************)
\* No two slots have the same age.
LEMMA AgeInjective ==
  ASSUME NEW b \in RobType, NEW i \in RobSlot, NEW k \in RobSlot,
         RobAge(b, i) = RobAge(b, k)
  PROVE  i = k
<1>1. b.head \in RobSlot  BY DEF RobType
<1> QED  BY <1>1, RobSizeAssumption DEF RobAge, RobSlot

\* The head is the oldest.
LEMMA HeadAge ==
  ASSUME NEW b \in RobType
  PROVE  b.head \in RobSlot /\ RobAge(b, b.head) = 0
<1>1. b.head \in RobSlot  BY DEF RobType
<1> QED  BY <1>1 DEF RobAge, RobSlot

\* The window consists of the busy slots.
LEMMA WindowIsBusy ==
  ASSUME NEW b \in RobType, RobRing(b), NEW i \in RobSlot
  PROVE  i \in RobWindow(b) <=> b.entries[i].busy
  BY DEF RobWindow, RobRing

\* An allocation adds the tail to the window, as its youngest member.
LEMMA AllocatedWindow ==
  ASSUME NEW b \in RobType, RobRing(b), ~RobIsFull(b),
         NEW op \in Packets, NEW f \in 0 .. 7
  PROVE  LET c == Allocated(b, op, f) IN
         /\ \A i \in RobSlot : RobAge(c, i) = RobAge(b, i)
         /\ \A i \in RobSlot :
              c.entries[i] = IF i = b.tail THEN RobNewEntry(op, f) ELSE b.entries[i]
         /\ \A i \in RobSlot : i \in RobWindow(c) <=> i \in RobWindow(b) \/ i = b.tail
         /\ \A i \in RobSlot : i # b.tail =>
              (c.newly_completed[i] <=> b.newly_completed[i])
         /\ ~c.newly_completed[b.tail]
         /\ b.tail \notin RobWindow(b)
         /\ \A i \in RobWindow(b) : RobAge(b, i) < RobAge(b, b.tail)
<1> DEFINE c == Allocated(b, op, f)
<1>1. c = [head |-> b.head,
           tail |-> IF b.tail + 1 = ROB_SIZE THEN 0 ELSE b.tail + 1,
           count |-> b.count + 1,
           entries |-> [b.entries EXCEPT ![b.tail] = RobNewEntry(op, f)],
           newly_completed |-> [b.newly_completed EXCEPT ![b.tail] = FALSE]]
  BY AllocatedIs
<1> HIDE DEF c
<1>2. b.tail \in RobSlot /\ RobAge(b, b.tail) = b.count /\ b.count \in Int
  BY TailIsFree DEF RobType
<1>3. \A i \in RobSlot : RobAge(c, i) = RobAge(b, i)
  BY <1>1 DEF RobAge
<1>4. \A i \in RobSlot :
        c.entries[i] = IF i = b.tail THEN RobNewEntry(op, f) ELSE b.entries[i]
  BY <1>1 DEF RobType
<1>5. ASSUME NEW i \in RobSlot
      PROVE  i \in RobWindow(c) <=> i \in RobWindow(b) \/ i = b.tail
  <2>1. RobAge(b, i) \in Int
    BY AgeBounds
  <2>2. i # b.tail => RobAge(b, i) # b.count
    BY <1>2, AgeInjective
  <2>3. c.count = b.count + 1
    BY <1>1
  <2> QED  BY <2>1, <2>2, <2>3, <1>2, <1>3 DEF RobWindow
<1>6. \A i \in RobSlot : i # b.tail => (c.newly_completed[i] <=> b.newly_completed[i])
  BY <1>1 DEF RobType
<1>7. ~c.newly_completed[b.tail]
  BY <1>1, <1>2 DEF RobType
<1>8. b.tail \notin RobWindow(b) /\ \A i \in RobWindow(b) : RobAge(b, i) < RobAge(b, b.tail)
  BY <1>2 DEF RobWindow
<1> QED  BY <1>3, <1>4, <1>5, <1>6, <1>7, <1>8 DEF c

\* A result changes one entry and raises its flag; nobody moves.
LEMMA MarkedWindow ==
  ASSUME NEW b \in RobType, NEW i \in RobSlot, NEW e
  PROVE  /\ \A k \in RobSlot : RobAge(Marked(b, i, e), k) = RobAge(b, k)
         /\ \A k \in RobSlot :
              Marked(b, i, e).entries[k] = IF k = i THEN e ELSE b.entries[k]
         /\ \A k \in RobSlot : Marked(b, i, e).newly_completed[k] <=>
                                 k = i \/ b.newly_completed[k]
         /\ RobWindow(Marked(b, i, e)) = RobWindow(b)
<1> DEFINE c == Marked(b, i, e)
<1>1. /\ c.head = b.head /\ c.count = b.count
      /\ c.entries = [b.entries EXCEPT ![i] = e]
      /\ c.newly_completed = [b.newly_completed EXCEPT ![i] = TRUE]
  BY DEF Marked
<1> HIDE DEF c
<1>2. \A k \in RobSlot : RobAge(c, k) = RobAge(b, k)
  BY <1>1 DEF RobAge
<1>3. \A k \in RobSlot : c.entries[k] = IF k = i THEN e ELSE b.entries[k]
  BY <1>1 DEF RobType
<1>4. \A k \in RobSlot : c.newly_completed[k] <=> k = i \/ b.newly_completed[k]
  BY <1>1 DEF RobType
<1>5. RobWindow(c) = RobWindow(b)
  BY <1>1, <1>2 DEF RobWindow
<1> QED  BY <1>2, <1>3, <1>4, <1>5 DEF c

\* A report lowers the flags of the busy slots; nobody moves.
LEMMA ReportWindow ==
  ASSUME NEW b \in RobType
  PROVE  /\ \A k \in RobSlot : RobAge(RobAfterReport(b), k) = RobAge(b, k)
         /\ RobAfterReport(b).entries = b.entries
         /\ \A k \in RobSlot : RobAfterReport(b).newly_completed[k] <=>
                                 b.newly_completed[k] /\ ~b.entries[k].busy
         /\ RobWindow(RobAfterReport(b)) = RobWindow(b)
<1> DEFINE c == RobAfterReport(b)
<1>1. /\ c.head = b.head /\ c.count = b.count /\ c.entries = b.entries
      /\ \A k \in RobSlot : c.newly_completed[k] <=>
                              b.newly_completed[k] /\ ~b.entries[k].busy
  BY DEF RobAfterReport, RobType
<1> HIDE DEF c
<1>2. \A k \in RobSlot : RobAge(c, k) = RobAge(b, k)
  BY <1>1 DEF RobAge
<1>3. RobWindow(c) = RobWindow(b)
  BY <1>1, <1>2 DEF RobWindow
<1> QED  BY <1>1, <1>2, <1>3 DEF c

\* Without its head the window is one shorter, and everybody moves up.
LEMMA RemoveHeadWindow ==
  ASSUME NEW b \in RobType, RobRing(b), ~RobIsEmpty(b)
  PROVE  LET c == RobRemoveHead(b) IN
         /\ \A i \in RobSlot : i # b.head => RobAge(c, i) = RobAge(b, i) - 1
         /\ \A i \in RobSlot :
              c.entries[i] = IF i = b.head THEN FreeRobEntry ELSE b.entries[i]
         /\ \A i \in RobSlot : c.newly_completed[i] <=> i # b.head /\ b.newly_completed[i]
         /\ \A i \in RobSlot : i \in RobWindow(c) <=> i \in RobWindow(b) /\ i # b.head
         /\ b.head \in RobWindow(b)
<1> DEFINE c == RobRemoveHead(b)
<1>1. c = [head |-> IF b.head + 1 = ROB_SIZE THEN 0 ELSE b.head + 1,
           tail |-> b.tail,
           count |-> b.count - 1,
           entries |-> [b.entries EXCEPT ![b.head] = FreeRobEntry],
           newly_completed |-> [b.newly_completed EXCEPT ![b.head] = FALSE]]
  BY RemoveHeadIs
<1>2. c \in RobType /\ RobRing(c)
  BY RemoveHeadSound
<1> HIDE DEF c
<1>3. b.head \in RobSlot /\ b.count \in 1 .. ROB_SIZE
  BY RobSizeAssumption DEF RobType, RobIsEmpty
<1>4. c.head = IF b.head + 1 = ROB_SIZE THEN 0 ELSE b.head + 1
  BY <1>1
<1>5. \A i \in RobSlot : i # b.head => RobAge(c, i) = RobAge(b, i) - 1
  BY <1>3, <1>4, RobSizeAssumption DEF RobAge, RobSlot
<1>6. \A i \in RobSlot :
        c.entries[i] = IF i = b.head THEN FreeRobEntry ELSE b.entries[i]
  BY <1>1 DEF RobType
<1>7. \A i \in RobSlot : c.newly_completed[i] <=> i # b.head /\ b.newly_completed[i]
  BY <1>1 DEF RobType
<1>8. b.head \in RobWindow(b)
  BY <1>3, HeadAge DEF RobWindow
<1>9. \A i \in RobSlot : i \in RobWindow(c) <=> i \in RobWindow(b) /\ i # b.head
  BY <1>2, <1>6, WindowIsBusy DEF FreeRobEntry
<1> QED  BY <1>5, <1>6, <1>7, <1>8, <1>9 DEF c


-----------------------------------------------------------------------------
(***************************************************************************)
(* The window as a sequence, of whatever g says of each slot.              *)
(***************************************************************************)
QueueOf(b, g) == [k \in 1 .. b.count |-> g[RobSlotAt(b, k - 1)]]

\* The slots by age: RobSlotAt and RobAge are inverse to each other.
LEMMA SlotAt ==
  ASSUME NEW b \in RobType, NEW k \in 0 .. ROB_SIZE - 1
  PROVE  RobSlotAt(b, k) \in RobSlot /\ RobAge(b, RobSlotAt(b, k)) = k
<1>1. b.head \in RobSlot  BY DEF RobType
<1> QED  BY <1>1, RobSizeAssumption DEF RobSlotAt, RobAge, RobSlot

LEMMA SlotOfAge ==
  ASSUME NEW b \in RobType, NEW i \in RobSlot
  PROVE  RobSlotAt(b, RobAge(b, i)) = i
<1>1. b.head \in RobSlot  BY DEF RobType
<1> QED  BY <1>1, RobSizeAssumption DEF RobSlotAt, RobAge, RobSlot

Contents(b, g) == {g[i] : i \in RobWindow(b)}

LEMMA QueueIsSeq ==
  ASSUME NEW b \in RobType, NEW g
  PROVE  /\ QueueOf(b, g) \in Seq(Contents(b, g)) /\ Len(QueueOf(b, g)) = b.count
         /\ \A k \in 1 .. b.count :
              /\ k - 1 \in 0 .. ROB_SIZE - 1
              /\ RobSlotAt(b, k - 1) \in RobWindow(b)
              /\ QueueOf(b, g)[k] = g[RobSlotAt(b, k - 1)]
<1>1. b.count \in 0 .. ROB_SIZE
  BY DEF RobType
<1>2. ASSUME NEW k \in 1 .. b.count
      PROVE  k - 1 \in 0 .. ROB_SIZE - 1 /\ RobSlotAt(b, k - 1) \in RobWindow(b)
  <2>1. k - 1 \in 0 .. ROB_SIZE - 1 /\ k - 1 < b.count
    BY <1>1, RobSizeAssumption
  <2> QED  BY <2>1, SlotAt DEF RobWindow
<1>3. QueueOf(b, g) \in [1 .. b.count -> Contents(b, g)]
  <2>1. ASSUME NEW k \in 1 .. b.count PROVE g[RobSlotAt(b, k - 1)] \in Contents(b, g)
    BY <1>2 DEF Contents
  <2> QED  BY <2>1 DEF QueueOf
<1>4. QueueOf(b, g) \in Seq(Contents(b, g)) /\ Len(QueueOf(b, g)) = b.count
  <2>1. b.count \in Nat
    BY <1>1, RobSizeAssumption
  <2> HIDE DEF QueueOf
  <2> QED  BY <1>3, <2>1
<1> QED  BY <1>2, <1>4 DEF QueueOf

LEMMA SameSequence ==
  ASSUME NEW S, NEW T, NEW s \in Seq(S), NEW t \in Seq(T),
         Len(s) = Len(t), \A k \in 1 .. Len(s) : s[k] = t[k]
  PROVE  s = t
<1>1. s \in Seq(S \cup T) /\ t \in Seq(S \cup T)
  OBVIOUS
<1> QED  BY <1>1, SeqEqual

\* An allocation appends the new instruction.
LEMMA QueueAtIssue ==
  ASSUME NEW b \in RobType, RobRing(b), ~RobIsFull(b),
         NEW op, NEW f, Allocated(b, op, f) \in RobType, NEW g, NEW h,
         \A i \in RobWindow(b) : h[i] = g[i]
  PROVE  /\ Len(QueueOf(b, g)) < ROB_SIZE
         /\ QueueOf(Allocated(b, op, f), h) = Append(QueueOf(b, g), h[b.tail])
<1> DEFINE c == Allocated(b, op, f)
           s == QueueOf(b, g)
           t == QueueOf(c, h)
           u == Append(s, h[b.tail])
           S == Contents(b, g)
           T == Contents(c, h)
<1>1. c \in RobType /\ c.head = b.head /\ c.count = b.count + 1
  BY AllocatedIs
<1>2. /\ b.count \in 0 .. ROB_SIZE - 1 /\ b.tail \in RobSlot
      /\ RobSlotAt(b, b.count) = b.tail
  BY TailIsFree, SlotOfAge, RobSizeAssumption DEF RobType, RobIsFull
<1>3. \A k : RobSlotAt(c, k) = RobSlotAt(b, k)
  BY <1>1 DEF RobSlotAt
<1> HIDE DEF c
<1>4. /\ s \in Seq(S) /\ Len(s) = b.count
      /\ \A k \in 1 .. b.count : RobSlotAt(b, k - 1) \in RobWindow(b)
                                  /\ s[k] = g[RobSlotAt(b, k - 1)]
  BY QueueIsSeq
<1>5. /\ t \in Seq(T) /\ Len(t) = b.count + 1
      /\ \A k \in 1 .. b.count + 1 : t[k] = h[RobSlotAt(b, k - 1)]
  <2>1. c \in RobType
    BY <1>1
  <2>2. /\ t \in Seq(T) /\ Len(t) = c.count
        /\ \A k \in 1 .. c.count : t[k] = h[RobSlotAt(c, k - 1)]
    BY <2>1, QueueIsSeq
  <2> QED  BY <1>1, <1>3, <2>2
<1> HIDE DEF s, t, S, T
<1>6. u \in Seq(S \cup {h[b.tail]}) /\ Len(u) = b.count + 1
  BY <1>4
<1>7. ASSUME NEW k \in 1 .. b.count + 1 PROVE t[k] = u[k]
  <2>1. CASE k \in 1 .. b.count
    BY <1>4, <1>5, <2>1
  <2>2. CASE k = b.count + 1
    <3>1. k - 1 = b.count
      BY <1>2, <2>2
    <3> QED  BY <1>2, <1>4, <1>5, <2>2, <3>1
  <2>3. k \in 1 .. b.count \/ k = b.count + 1
    BY <1>2, RobSizeAssumption
  <2> QED  BY <2>1, <2>2, <2>3
<1>8. t = u
  <2> HIDE DEF u
  <2> QED  BY <1>5, <1>6, <1>7, SameSequence
<1> QED  BY <1>2, <1>4, <1>8, RobSizeAssumption DEF c, s, t

\* Who stays in place stays in the queue.
LEMMA QueueUnmoved ==
  ASSUME NEW b \in RobType, NEW c \in RobType, c.head = b.head, c.count = b.count,
         NEW g, NEW h, \A i \in RobWindow(b) : h[i] = g[i]
  PROVE  QueueOf(c, h) = QueueOf(b, g)
<1>1. \A k \in 1 .. b.count : RobSlotAt(b, k - 1) \in RobWindow(b)
  BY QueueIsSeq
<1>2. \A k : RobSlotAt(c, k) = RobSlotAt(b, k)
  BY DEF RobSlotAt
<1> QED  BY <1>1, <1>2 DEF QueueOf

\* The place of slot i in the queue.
PlaceOf(b, i) == RobAge(b, i) + 1

LEMMA PlaceIs ==
  ASSUME NEW b \in RobType, NEW j \in RobWindow(b), NEW g
  PROVE  /\ PlaceOf(b, j) \in 1 .. Len(QueueOf(b, g))
         /\ QueueOf(b, g)[PlaceOf(b, j)] = g[j]
         /\ \A k \in 1 .. b.count : k # PlaceOf(b, j) => RobSlotAt(b, k - 1) # j
         /\ RobSlotAt(b, PlaceOf(b, j) - 1) = j
<1>1. /\ Len(QueueOf(b, g)) = b.count
      /\ \A k \in 1 .. b.count : /\ k - 1 \in 0 .. ROB_SIZE - 1
                                 /\ QueueOf(b, g)[k] = g[RobSlotAt(b, k - 1)]
  BY QueueIsSeq
<1>2. PlaceOf(b, j) \in 1 .. b.count /\ RobSlotAt(b, PlaceOf(b, j) - 1) = j
  <2>1. j \in RobSlot /\ RobAge(b, j) < b.count
    BY DEF RobWindow
  <2>2. RobAge(b, j) \in 0 .. ROB_SIZE - 1 /\ RobSlotAt(b, RobAge(b, j)) = j
    BY <2>1, AgeBounds, SlotOfAge
  <2>3. b.count \in 0 .. ROB_SIZE
    BY DEF RobType
  <2> QED  BY <2>1, <2>2, <2>3, RobSizeAssumption DEF PlaceOf
<1>3. ASSUME NEW k \in 1 .. b.count, k # PlaceOf(b, j) PROVE RobSlotAt(b, k - 1) # j
  <2>1. RobAge(b, RobSlotAt(b, k - 1)) = k - 1
    BY <1>1, SlotAt
  <2> QED  BY <1>3, <2>1 DEF PlaceOf
<1> QED  BY <1>1, <1>2, <1>3

Replaced(s, n, x) == [s EXCEPT ![n] = x]

\* Nobody moves, and one slot changes.
LEMMA QueueChanged ==
  ASSUME NEW b \in RobType, NEW c \in RobType, c.head = b.head, c.count = b.count,
         NEW g, NEW h, NEW j \in RobWindow(b), \A i \in RobWindow(b) : i # j => h[i] = g[i]
  PROVE  QueueOf(c, h) = Replaced(QueueOf(b, g), PlaceOf(b, j), h[j])
<1> DEFINE n == PlaceOf(b, j)
<1>1. \A k \in 1 .. b.count : RobSlotAt(b, k - 1) \in RobWindow(b)
  BY QueueIsSeq
<1>2. /\ \A k \in 1 .. b.count : k # n => RobSlotAt(b, k - 1) # j
      /\ RobSlotAt(b, n - 1) = j
  BY PlaceIs
<1> HIDE DEF n
<1>3. \A k : RobSlotAt(c, k) = RobSlotAt(b, k)
  BY DEF RobSlotAt
<1>4. \A k \in 1 .. b.count :
        h[RobSlotAt(b, k - 1)] = IF k = n THEN h[j] ELSE g[RobSlotAt(b, k - 1)]
  BY <1>1, <1>2
<1>5. QueueOf(c, h) = [QueueOf(b, g) EXCEPT ![n] = h[j]]
  BY <1>3, <1>4 DEF QueueOf
<1> QED  BY <1>5 DEF n, Replaced

\* The head leaves from the front.
LEMMA QueueAtCommit ==
  ASSUME NEW b \in RobType, RobRing(b), ~RobIsEmpty(b), NEW g, NEW h,
         \A i \in RobWindow(b) : i # b.head => h[i] = g[i]
  PROVE  /\ QueueOf(b, g) # <<>> /\ QueueOf(b, g)[1] = g[b.head]
         /\ Head(QueueOf(b, g)) = g[b.head]
         /\ QueueOf(RobRemoveHead(b), h) = Tail(QueueOf(b, g))
<1> DEFINE c == RobRemoveHead(b)
           s == QueueOf(b, g)
           t == QueueOf(c, h)
           u == Tail(s)
           S == Contents(b, g)
           T == Contents(c, h)
<1>1. /\ c \in RobType
      /\ c.head = IF b.head + 1 = ROB_SIZE THEN 0 ELSE b.head + 1
      /\ c.count = b.count - 1
  BY RemoveHeadIs, RemoveHeadSound
<1>2. \A i \in RobSlot : i \in RobWindow(c) <=> i \in RobWindow(b) /\ i # b.head
  BY RemoveHeadWindow
<1>3. b.head \in RobSlot /\ b.count \in 1 .. ROB_SIZE
  BY RobSizeAssumption DEF RobType, RobIsEmpty
<1> HIDE DEF c
<1>4. \A k \in 1 .. b.count - 1 : RobSlotAt(c, k - 1) = RobSlotAt(b, (k + 1) - 1)
  BY <1>1, <1>3, RobSizeAssumption DEF RobSlotAt, RobSlot
<1>5. /\ s \in Seq(S) /\ Len(s) = b.count
      /\ \A k \in 1 .. b.count : s[k] = g[RobSlotAt(b, k - 1)]
  BY QueueIsSeq
<1>6. /\ t \in Seq(T) /\ Len(t) = b.count - 1
      /\ \A k \in 1 .. b.count - 1 : RobSlotAt(c, k - 1) \in RobWindow(c)
                                      /\ t[k] = h[RobSlotAt(c, k - 1)]
  <2>1. c \in RobType
    BY <1>1
  <2>2. /\ t \in Seq(T) /\ Len(t) = c.count
        /\ \A k \in 1 .. c.count : RobSlotAt(c, k - 1) \in RobWindow(c)
                                    /\ t[k] = h[RobSlotAt(c, k - 1)]
    BY <2>1, QueueIsSeq
  <2> QED  BY <1>1, <2>2
<1>7. RobSlotAt(b, 1 - 1) = b.head
  BY <1>3, RobSizeAssumption DEF RobSlotAt, RobSlot
<1>8. RobWindow(c) \subseteq RobSlot
  BY DEF RobWindow
<1> HIDE DEF s, t, S, T
<1>9. s # <<>> /\ s[1] = g[b.head] /\ Head(s) = s[1]
  BY <1>3, <1>5, <1>7
<1>10. /\ u \in Seq(S) /\ Len(u) = b.count - 1
       /\ \A k \in 1 .. b.count - 1 : u[k] = s[k + 1]
  BY <1>3, <1>5, <1>9
<1>11. ASSUME NEW k \in 1 .. b.count - 1 PROVE t[k] = u[k]
  <2>1. k + 1 \in 1 .. b.count
    BY <1>3
  <2>2. s[k + 1] = g[RobSlotAt(c, k - 1)]
    BY <1>4, <1>5, <2>1
  <2>3. h[RobSlotAt(c, k - 1)] = g[RobSlotAt(c, k - 1)]
    BY <1>2, <1>6, <1>8
  <2> QED  BY <1>6, <1>10, <2>2, <2>3
<1>12. t = u
  <2> HIDE DEF u
  <2> QED  BY <1>6, <1>10, <1>11, SameSequence
<1> QED  BY <1>9, <1>12 DEF c, s, t

=============================================================================
