------------------------- MODULE ReorderBufferProofs ------------------------
(***************************************************************************)
(* For every size of the ring and every sequence of calls: the type and    *)
(* the soundness of the reorder buffer are invariants, and the ring is a   *)
(* bounded sequence in program order.                                      *)
(***************************************************************************)
EXTENDS ReorderBufferSpec, ReorderBufferLemmas

-----------------------------------------------------------------------------
(***************************************************************************)
(* The invariant of ReorderBufferSpec is inductive as it stands: the type  *)
(* and the soundness of the ring need each other and nothing else.         *)
(***************************************************************************)
RobInv == RobTypeOK /\ RobRingInv

LEMMA RobStep ==
  ASSUME RobInv, [Next]_rob
  PROVE  RobInv'
<1> USE DEF RobInv, RobTypeOK, RobRingInv
<1>1. ASSUME NEW p \in Packets, Issue(p) PROVE RobInv'
  <2>1. PICK f \in Funct3 : ~RobIsFull(rob) /\ rob' = Allocated(rob, p, f)
    BY <1>1 DEF Issue, Allocated
  <2>2. f \in 0 .. 7
    BY Funct3Assumption
  <2> QED  BY <2>1, <2>2, AllocatedSound
<1>2. ASSUME NEW i \in RobSlot, Complete(i) PROVE RobInv'
  <2>1. PICK v \in Word : rob' = RobCompleteEntry(rob, i, v)
    BY <1>2 DEF Complete
  <2>2. rob.entries[i].busy
    BY <1>2 DEF Complete, AwaitsResult
  <2> QED  BY <2>1, <2>2, CompleteEntryIs, MarkedSound
<1>3. ASSUME NEW i \in RobSlot, CompleteStore(i) PROVE RobInv'
  <2>1. PICK a \in Word, d \in Word : rob' = RobUpdateStoreEntry(rob, i, a, d)
    BY <1>3 DEF CompleteStore
  <2>2. rob.entries[i].busy
    BY <1>3 DEF CompleteStore, AwaitsResult
  <2> QED  BY <2>1, <2>2, StoreEntryIs, MarkedSound
<1>4. CASE Report
  BY <1>4, ReportSound DEF Report
<1>5. CASE Commit
  BY <1>5, RemoveHeadSound DEF Commit, RobIsHeadCompleted
<1>6. CASE Reset
  BY <1>6, ResetSound DEF Reset
<1>7. CASE UNCHANGED rob
  BY <1>7
<1> QED  BY <1>1, <1>2, <1>3, <1>4, <1>5, <1>6, <1>7 DEF Next

\* Whatever sequence of calls is made on the reorder buffer, the pointers stay
\* inside the ring and the count within max_entries.
THEOREM RobTypeCorrect == Spec => []RobTypeOK
<1>1. Init => RobInv
  BY ResetSound DEF Init, RobInv, RobTypeOK, RobRingInv
<1>2. RobInv /\ [Next]_rob => RobInv'
  BY RobStep
<1>3. RobInv => RobTypeOK
  BY DEF RobInv
<1> QED  BY <1>1, <1>2, <1>3, PTL DEF Spec

\* And the ring stays sound: the busy slots are those between head and tail.
THEOREM RobRingCorrect == Spec => []RobRingInv
<1>1. Init => RobInv
  BY ResetSound DEF Init, RobInv, RobTypeOK, RobRingInv
<1>2. RobInv /\ [Next]_rob => RobInv'
  BY RobStep
<1>3. RobInv => RobRingInv
  BY DEF RobInv
<1> QED  BY <1>1, <1>2, <1>3, PTL DEF Spec

-----------------------------------------------------------------------------
(***************************************************************************)
(* The ring implements the bounded sequence.  Its window is a QueueOf what *)
(* each slot shows, so every call is one of the lemmas about queues.       *)
(***************************************************************************)
Shown == [i \in RobSlot |-> Entry(i)]

LEMMA WindowIs == RobInv => window = QueueOf(rob, Shown)
<1> SUFFICES ASSUME RobInv PROVE window = QueueOf(rob, Shown)
  OBVIOUS
<1>1. rob \in RobType
  BY DEF RobInv, RobTypeOK
<1>2. \A k \in 1 .. rob.count : RobSlotAt(rob, k - 1) \in RobSlot
  BY <1>1, QueueIsSeq DEF RobWindow
<1> QED  BY <1>2 DEF window, QueueOf, Shown

LEMMA WindowStaysIt == RobInv' => window' = QueueOf(rob', Shown')
<1>1. RobInv' => (window = QueueOf(rob, Shown))'
  BY WindowIs, PTL
<1> QED  BY <1>1

\* A slot that keeps its entry and its flag shows the same.
LEMMA SameShown ==
  ASSUME NEW i \in RobSlot, rob'.entries[i] = rob.entries[i],
         rob'.newly_completed[i] <=> rob.newly_completed[i]
  PROVE  Shown'[i] = Shown[i]
<1>1. Stage(i)' = Stage(i)
  BY DEF Stage
<1>2. Result(i)' = Result(i)
  BY DEF Result
<1>3. Entry(i)' = Entry(i)
  BY <1>1, <1>2 DEF Entry
<1> QED  BY <1>3 DEF Shown

LEMMA IssueAdmits ==
  ASSUME RobInv, NEW p \in Packets, Issue(p)
  PROVE  Ordered!Admit
<1>1. PICK f \in Funct3 : ~RobIsFull(rob) /\ rob' = Allocated(rob, p, f)
  BY DEF Issue, Allocated
<1>2. f \in 0 .. 7
  BY Funct3Assumption
<1>3. rob \in RobType /\ RobRing(rob)
  BY DEF RobInv, RobTypeOK, RobRingInv
<1>4. /\ \A i \in RobSlot :
           rob'.entries[i] = IF i = rob.tail THEN RobNewEntry(p, f) ELSE rob.entries[i]
      /\ \A i \in RobSlot : i # rob.tail =>
           (rob'.newly_completed[i] <=> rob.newly_completed[i])
      /\ rob.tail \notin RobWindow(rob)
  BY <1>1, <1>2, <1>3, AllocatedWindow
<1>5. \A i \in RobWindow(rob) : Shown'[i] = Shown[i]
  BY <1>4, SameShown DEF RobWindow
<1>6. Shown'[rob.tail] = [op |-> p, stage |-> Ordered!Waiting]
  <2>1. rob.tail \in RobSlot /\ rob'.entries[rob.tail] = RobNewEntry(p, f)
    BY <1>1, <1>3, <1>4, TailIsFree
  <2>2. rob'.entries[rob.tail].op = p /\ ~rob'.entries[rob.tail].completed
    BY <2>1 DEF RobNewEntry
  <2> QED  BY <2>1, <2>2 DEF Shown, Entry, Stage, Ordered!Waiting
<1>7. RobInv'
  BY RobStep DEF Next
<1>8. /\ Len(QueueOf(rob, Shown)) < ROB_SIZE
      /\ QueueOf(rob', Shown') = Append(QueueOf(rob, Shown), Shown'[rob.tail])
  <2>1. Allocated(rob, p, f) \in RobType
    BY <1>1, <1>7 DEF RobInv, RobTypeOK
  <2>2. /\ Len(QueueOf(rob, Shown)) < ROB_SIZE
        /\ QueueOf(Allocated(rob, p, f), Shown')
             = Append(QueueOf(rob, Shown), Shown'[rob.tail])
    BY <1>1, <1>3, <1>5, <2>1, QueueAtIssue
  <2> QED  BY <1>1, <2>2
<1>9. window = QueueOf(rob, Shown) /\ window' = QueueOf(rob', Shown')
  BY <1>7, WindowIs, WindowStaysIt
<1> QED  BY <1>6, <1>8, <1>9 DEF Ordered!Admit

LEMMA ResultFinishes ==
  ASSUME RobInv, RobInv', NEW j \in RobSlot, NEW e \in RobEntry, AwaitsResult(j),
         rob' = Marked(rob, j, e), e.completed, e.op = rob.entries[j].op,
         NEW r \in {<<v>> : v \in Word} \union (Word \X Word), Result(j)' = r
  PROVE  Ordered!Finish
<1>1. rob \in RobType /\ RobRing(rob) /\ rob' \in RobType
  BY DEF RobInv, RobTypeOK, RobRingInv
<1>2. rob'.head = rob.head /\ rob'.count = rob.count
  BY DEF Marked
<1>3. /\ \A k \in RobSlot : rob'.entries[k] = IF k = j THEN e ELSE rob.entries[k]
      /\ \A k \in RobSlot :
           rob'.newly_completed[k] <=> k = j \/ rob.newly_completed[k]
  BY <1>1, MarkedWindow
<1>4. j \in RobWindow(rob)
  BY <1>1, WindowIsBusy DEF AwaitsResult
<1>5. \A i \in RobWindow(rob) : i # j => Shown'[i] = Shown[i]
  BY <1>3, SameShown DEF RobWindow
<1>6. Shown[j] = [op |-> rob.entries[j].op, stage |-> Ordered!Waiting]
  BY DEF Shown, Entry, Stage, AwaitsResult, Ordered!Waiting
<1>7. Shown'[j] = [op |-> rob.entries[j].op, stage |-> Ordered!Fresh, result |-> r]
  <2>1. rob'.entries[j].completed /\ rob'.newly_completed[j]
        /\ rob'.entries[j].op = rob.entries[j].op
    BY <1>3
  <2>2. Stage(j)' = Ordered!Fresh
    BY <2>1 DEF Stage, Ordered!Fresh
  <2> QED  BY <2>1, <2>2 DEF Shown, Entry
<1> DEFINE n == PlaceOf(rob, j)
<1>8. /\ n \in 1 .. Len(QueueOf(rob, Shown)) /\ QueueOf(rob, Shown)[n] = Shown[j]
      /\ QueueOf(rob', Shown') = [QueueOf(rob, Shown) EXCEPT ![n] = Shown'[j]]
  <2>1. n \in 1 .. Len(QueueOf(rob, Shown)) /\ QueueOf(rob, Shown)[n] = Shown[j]
    BY <1>1, <1>4, PlaceIs
  <2>2. rob \in RobType /\ rob' \in RobType /\ rob'.head = rob.head /\ rob'.count = rob.count
    BY <1>1, <1>2
  <2>3. QueueOf(rob', Shown') = Replaced(QueueOf(rob, Shown), n, Shown'[j])
    BY <1>4, <1>5, <2>2, QueueChanged
  <2> QED  BY <2>1, <2>3 DEF Replaced
<1> HIDE DEF n
<1>9. window = QueueOf(rob, Shown) /\ window' = QueueOf(rob', Shown')
  BY WindowIs, WindowStaysIt
<1>10. /\ n \in 1 .. Len(window) /\ window[n].stage = Ordered!Waiting
       /\ window' = [window EXCEPT ![n] =
                       [op |-> @.op, stage |-> Ordered!Fresh, result |-> r]]
  <2>1. window[n] = [op |-> rob.entries[j].op, stage |-> Ordered!Waiting]
    BY <1>6, <1>8, <1>9
  <2>2. window[n].op = rob.entries[j].op /\ window[n].stage = Ordered!Waiting
    BY <2>1
  <2>3. [op |-> window[n].op, stage |-> Ordered!Fresh, result |-> r] = Shown'[j]
    BY <1>7, <2>2
  <2> QED  BY <1>8, <1>9, <2>2, <2>3
<1> QED  BY <1>10 DEF Ordered!Finish

LEMMA ReportReports ==
  ASSUME RobInv, Report
  PROVE  Ordered!Report
<1>1. rob \in RobType /\ RobRing(rob) /\ rob' = RobAfterReport(rob)
  BY DEF RobInv, RobTypeOK, RobRingInv, Report
<1>2. /\ rob'.entries = rob.entries /\ rob'.head = rob.head /\ rob'.count = rob.count
      /\ \A k \in RobSlot : rob.entries[k].busy => ~rob'.newly_completed[k]
  BY <1>1, ReportWindow DEF RobAfterReport
<1>3. ASSUME NEW i \in RobWindow(rob)
      PROVE  Shown'[i] = IF Shown[i].stage = Ordered!Fresh
                         THEN [Shown[i] EXCEPT !.stage = Ordered!Known] ELSE Shown[i]
  <2>1. i \in RobSlot /\ rob.entries[i].busy /\ ~rob'.newly_completed[i]
    BY <1>1, <1>2, WindowIsBusy DEF RobWindow
  <2>2. CASE ~rob.entries[i].completed
    BY <1>2, <2>1, <2>2 DEF Shown, Entry, Stage, Ordered!Fresh
  <2>3. CASE rob.entries[i].completed
    <3>1. Shown[i] = [op |-> rob.entries[i].op, stage |-> Stage(i), result |-> Result(i)]
      BY <2>1, <2>3 DEF Shown, Entry
    <3>2. Result(i)' = Result(i) /\ Stage(i)' = Ordered!Known
      BY <1>2, <2>1, <2>3 DEF Result, Stage, Ordered!Known
    <3>3. Shown'[i] = [op |-> rob.entries[i].op, stage |-> Ordered!Known,
                       result |-> Result(i)]
      BY <1>2, <2>1, <2>3, <3>2 DEF Shown, Entry
    <3>4. Stage(i) = Ordered!Fresh \/ Stage(i) = Ordered!Known
      BY <2>3 DEF Stage, Ordered!Fresh, Ordered!Known
    <3> QED  BY <3>1, <3>3, <3>4
  <2> QED  BY <2>2, <2>3
<1>4. window = QueueOf(rob, Shown) /\ window' = QueueOf(rob', Shown')
  <2>1. RobInv'
    BY RobStep DEF Next
  <2> QED  BY <2>1, WindowIs, WindowStaysIt
<1>5. /\ Len(QueueOf(rob, Shown)) = rob.count
      /\ \A k \in 1 .. rob.count :
           /\ RobSlotAt(rob, k - 1) \in RobWindow(rob)
           /\ QueueOf(rob, Shown)[k] = Shown[RobSlotAt(rob, k - 1)]
  BY <1>1, QueueIsSeq
<1>6. \A k : RobSlotAt(rob', k) = RobSlotAt(rob, k)
  BY <1>2 DEF RobSlotAt
<1>7. QueueOf(rob', Shown') = [k \in 1 .. rob.count |-> Shown'[RobSlotAt(rob, k - 1)]]
  BY <1>2, <1>6 DEF QueueOf
<1>8. ASSUME NEW k \in 1 .. rob.count
      PROVE  Shown'[RobSlotAt(rob, k - 1)] =
               IF window[k].stage = Ordered!Fresh
               THEN [window[k] EXCEPT !.stage = Ordered!Known] ELSE window[k]
  BY <1>3, <1>4, <1>5
<1>9. Len(window) = rob.count
  BY <1>4, <1>5
<1> QED  BY <1>4, <1>7, <1>8, <1>9 DEF Ordered!Report

LEMMA CommitRetires ==
  ASSUME RobInv, Commit
  PROVE  Ordered!Retire
<1>1. /\ rob \in RobType /\ RobRing(rob) /\ ~RobIsEmpty(rob)
      /\ rob.entries[rob.head].completed /\ rob' = RobRemoveHead(rob)
  BY DEF RobInv, RobTypeOK, RobRingInv, Commit, RobIsHeadCompleted
<1>2. rob.head \in RobSlot
  BY <1>1, HeadAge
<1>3. \A i \in RobSlot : i # rob.head =>
        /\ rob'.entries[i] = rob.entries[i]
        /\ rob'.newly_completed[i] <=> rob.newly_completed[i]
  BY <1>1, RemoveHeadWindow
<1>4. \A i \in RobWindow(rob) : i # rob.head => Shown'[i] = Shown[i]
  BY <1>3, SameShown DEF RobWindow
<1>5. Shown[rob.head].stage # Ordered!Waiting
  BY <1>1, <1>2 DEF Shown, Entry, Stage, Ordered!Waiting
<1>6. window = QueueOf(rob, Shown) /\ window' = QueueOf(rob', Shown')
  <2>1. RobInv'
    BY RobStep DEF Next
  <2> QED  BY <2>1, WindowIs, WindowStaysIt
<1>7. /\ QueueOf(rob, Shown) # <<>> /\ QueueOf(rob, Shown)[1] = Shown[rob.head]
      /\ QueueOf(RobRemoveHead(rob), Shown') = Tail(QueueOf(rob, Shown))
  BY <1>1, <1>4, QueueAtCommit
<1> QED  BY <1>1, <1>5, <1>6, <1>7 DEF Ordered!Retire

LEMMA EmptyWindow ==
  ASSUME rob.count = 0
  PROVE  window = <<>>
  BY DEF window

\* Every sequence of calls on the ring is one on a bounded program-order
\* sequence: no instruction overtakes another, is lost, leaves without its
\* result, or has it reported twice.
THEOREM RingIsAQueue == Spec => ImplementsProgramOrder
<1>1. Init => RobInv
  BY ResetSound DEF Init, RobInv, RobTypeOK, RobRingInv
<1>2. RobInv /\ [Next]_rob => RobInv'
  BY RobStep
<1>3. Init => Ordered!Init
  BY EmptyWindow DEF Init, Ordered!Init, RobReset
<1>4. RobInv /\ [Next]_rob => [Ordered!Next]_window
  <2> SUFFICES ASSUME RobInv, [Next]_rob PROVE [Ordered!Next]_window
    OBVIOUS
  <2>1. RobInv'
    BY RobStep
  <2>2. rob \in RobType /\ RobRing(rob)
    BY DEF RobInv, RobTypeOK, RobRingInv
  <2>3. ASSUME NEW p \in Packets, Issue(p) PROVE Ordered!Admit
    BY <2>3, IssueAdmits
  <2>4. ASSUME NEW i \in RobSlot, Complete(i) PROVE Ordered!Finish
    <3>1. PICK v \in Word : /\ AwaitsResult(i) /\ rob.entries[i].op.opcode # "STORE"
                            /\ rob' = RobCompleteEntry(rob, i, v)
      BY <2>4 DEF Complete
    <3> DEFINE e == CompletedEntry(rob, i, v)
    <3>2. /\ rob' = Marked(rob, i, e) /\ e \in RobEntry /\ e.completed
          /\ e.op = rob.entries[i].op /\ e.value = v
      BY <2>2, <3>1, CompleteEntryIs
    <3> HIDE DEF e
    <3>3. rob'.entries[i] = e
      BY <2>2, <3>2, MarkedWindow
    <3>4. Result(i)' = <<v>>
      BY <3>1, <3>2, <3>3 DEF Result
    <3> QED  BY <2>1, <3>1, <3>2, <3>4, ResultFinishes
  <2>5. ASSUME NEW i \in RobSlot, CompleteStore(i) PROVE Ordered!Finish
    <3>1. PICK a \in Word, d \in Word :
            /\ AwaitsResult(i) /\ rob.entries[i].op.opcode = "STORE"
            /\ rob' = RobUpdateStoreEntry(rob, i, a, d)
      BY <2>5 DEF CompleteStore
    <3> DEFINE e == StoredEntry(rob, i, a, d)
    <3>2. /\ rob' = Marked(rob, i, e) /\ e \in RobEntry /\ e.completed
          /\ e.op = rob.entries[i].op /\ e.mem_addr = a /\ e.mem_data = d
      BY <2>2, <3>1, StoreEntryIs
    <3> HIDE DEF e
    <3>3. rob'.entries[i] = e
      BY <2>2, <3>2, MarkedWindow
    <3>4. Result(i)' = <<a, d>>
      BY <3>1, <3>2, <3>3 DEF Result
    <3> QED  BY <2>1, <3>1, <3>2, <3>4, ResultFinishes
  <2>6. CASE Report
    BY <2>6, ReportReports DEF Ordered!Next
  <2>7. CASE Commit
    BY <2>7, CommitRetires DEF Ordered!Next
  <2>8. CASE Reset
    <3>1. window' = <<>>
      BY <2>8 DEF Reset, window, RobReset
    <3> QED  BY <3>1 DEF Ordered!Next, Ordered!Clear
  <2>9. CASE UNCHANGED rob
    BY <2>9 DEF window, Entry, Stage, Result
  <2> QED
    BY <2>3, <2>4, <2>5, <2>6, <2>7, <2>8, <2>9 DEF Next, Ordered!Next
<1> QED  BY <1>1, <1>2, <1>3, <1>4, PTL DEF Spec, ImplementsProgramOrder, Ordered!Spec

=============================================================================
