------------------------- MODULE ReservationStation -------------------------
(***************************************************************************)
(* class ReservationStation (reservation_station.h, .cpp), and the three   *)
(* instances ExecutionUnit owns.  The slots of the three stations are the  *)
(* pairs <<station, index>>, and the stations' contents are one function   *)
(* `rs' from these slots to entries; a method takes the function, the      *)
(* station it is called on, and its arguments.                             *)
(*                                                                         *)
(* An entry is the RSEntry together with its element of rob_indices.  The  *)
(* fields opcode, funct3, funct7, rd, imm and pc of RSEntry are copies of  *)
(* those of the decoded instruction, kept here as the field `op'.  What a  *)
(* slot holds while it is not busy is never read, so a slot that is not    *)
(* busy is the single value FreeRsEntry.                                   *)
(***************************************************************************)
EXTENDS ProcessorTypes

CONSTANTS
  RS_SIZE,   \* [Station -> max_entries]: 8, 4 and 2 entries
  MaxTag     \* bound on the tags Qj and Qk: the reorder buffer's size

Station == {"rs_alu", "rs_mem", "rs_branch"}

ASSUME RsSizeAssumption == RS_SIZE \in [Station -> Nat \ {0}] /\ MaxTag \in Nat

RsSlot == UNION {{s} \X (0 .. RS_SIZE[s] - 1) : s \in Station}

\* The slots of station s
SlotsOf(s) == {q \in RsSlot : q[1] = s}

NoRobIndex == -1   \* the rob_indices of a slot that is not busy

FreeRsEntry ==
  [busy |-> FALSE, op |-> NoPacket, Vj |-> 0, Vk |-> 0, Qj |-> 0, Qk |-> 0,
   ready |-> FALSE, rob_index |-> NoRobIndex]

\* The entry issue_proc makes for operands j and k, each a value V or a tag Q
RsNewEntry(op, j, k) ==
  [busy |-> TRUE, op |-> op, Vj |-> j.V, Vk |-> k.V, Qj |-> j.Q, Qk |-> k.Q,
   ready |-> j.Q = 0 /\ k.Q = 0, rob_index |-> NoRobIndex]

RsEntry ==
  [busy : BOOLEAN, op : Packets \union {NoPacket}, Vj : Word, Vk : Word,
   Qj : 0 .. MaxTag, Qk : 0 .. MaxTag, ready : BOOLEAN,
   rob_index : NoRobIndex .. MaxTag - 1]

\* reset(), which the constructor ends with
RsReset == [q \in RsSlot |-> FreeRsEntry]

RsIsFull(rs, s) == \A q \in SlotsOf(s) : rs[q].busy

\* Mutant: the first slot is taken whether it is busy or not.
RsFirstSlot(rs, s, q) == q \in SlotsOf(s) /\ q[2] = 0

\* add_entry() takes the first slot of the station that is not busy.
RsFirstFree(rs, s, q) ==
  /\ q \in SlotsOf(s)
  /\ ~rs[q].busy
  /\ \A o \in SlotsOf(s) : o[2] < q[2] => rs[o].busy

RsAddEntry(rs, q, entry, rob_index) ==
  [rs EXCEPT ![q] = [entry EXCEPT !.rob_index = rob_index]]

(***************************************************************************)
(* remove_entry() frees the busy slot of the station with this rob_index.  *)
(* There is never a second one (ExecutionUnit!StationsMatchRob).           *)
(***************************************************************************)
RsRemoveEntry(rs, s, rob_index) ==
  [q \in RsSlot |->
     IF q[1] = s /\ rs[q].busy /\ rs[q].rob_index = rob_index
     THEN FreeRsEntry ELSE rs[q]]

\* get_ready_entries(), in slot order
RsReady(rs, s) == {q \in SlotsOf(s) : rs[q].busy /\ rs[q].ready}

RsFirstReady(rs, s, q) ==
  /\ q \in RsReady(rs, s)
  /\ \A o \in RsReady(rs, s) : q[2] <= o[2]

\* Mutant: one operand is enough.
RsWokenByEither(entry, tags, value) ==
  LET Qj == IF entry.Qj \in tags THEN 0 ELSE entry.Qj
      Qk == IF entry.Qk \in tags THEN 0 ELSE entry.Qk
  IN  [entry EXCEPT !.Vj = IF entry.Qj \in tags THEN value[entry.Qj] ELSE @,
                    !.Vk = IF entry.Qk \in tags THEN value[entry.Qk] ELSE @,
                    !.Qj = Qj,
                    !.Qk = Qk,
                    !.ready = @ \/ (tags # {} /\ (Qj = 0 \/ Qk = 0))]

\* Mutant: the second operand is not woken.
RsWokenFirstOnly(entry, tags, value) ==
  LET Qj == IF entry.Qj \in tags THEN 0 ELSE entry.Qj
  IN  [entry EXCEPT !.Vj = IF entry.Qj \in tags THEN value[entry.Qj] ELSE @,
                    !.Qj = Qj,
                    !.ready = @ \/ (tags # {} /\ Qj = 0 /\ entry.Qk = 0)]

(***************************************************************************)
(* update_waiting_entries(), called on all three stations for every tag of *)
(* the set `tags', with the value value[t] for tag t.  Tags are not 0, so  *)
(* no operand that is available is touched; every busy entry is looked at  *)
(* again when there is at least one tag.                                   *)
(***************************************************************************)
RsWoken(entry, tags, value) ==
  LET Qj == IF entry.Qj \in tags THEN 0 ELSE entry.Qj
      Qk == IF entry.Qk \in tags THEN 0 ELSE entry.Qk
  IN  [entry EXCEPT !.Vj = IF entry.Qj \in tags THEN value[entry.Qj] ELSE @,
                    !.Vk = IF entry.Qk \in tags THEN value[entry.Qk] ELSE @,
                    !.Qj = Qj,
                    !.Qk = Qk,
                    !.ready = @ \/ (tags # {} /\ Qj = 0 /\ Qk = 0)]

RsUpdateWaitingEntries(rs, tags, value) ==
  [q \in RsSlot |->
     IF rs[q].busy THEN RsWoken(rs[q], tags, value) ELSE rs[q]]

=============================================================================
