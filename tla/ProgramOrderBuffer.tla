------------------------- MODULE ProgramOrderBuffer -------------------------
(***************************************************************************)
(* What a reorder buffer promises, with no ring, no indices and no flags:  *)
(* a bounded sequence of instructions.  They enter at the back, get their  *)
(* results in any order, have each result reported once, and leave only    *)
(* from the front and only when they have their result.                    *)
(***************************************************************************)
EXTENDS Integers, Sequences

CONSTANTS
  Capacity,   \* how many instructions may be in flight
  Instr,      \* the instructions
  Outcome     \* the results an instruction may get

VARIABLE window

Waiting == "waiting"   \* no result yet
Fresh   == "fresh"     \* result not reported yet
Known   == "known"     \* result reported

Init == window = <<>>

\* An instruction enters behind all the others.
Admit == \E p \in Instr :
  /\ Len(window) < Capacity
  /\ window' = Append(window, [op |-> p, stage |-> Waiting])

\* Any instruction without a result gets one.
Finish == \E k \in 1 .. Len(window), r \in Outcome :
  /\ window[k].stage = Waiting
  /\ window' = [window EXCEPT ![k] = [op |-> @.op, stage |-> Fresh, result |-> r]]

\* All results that were not reported are reported.
Report ==
  window' = [k \in 1 .. Len(window) |->
               IF window[k].stage = Fresh THEN [window[k] EXCEPT !.stage = Known]
                                          ELSE window[k]]

\* The oldest instruction leaves with its result.
Retire ==
  /\ window # <<>>
  /\ window[1].stage # Waiting
  /\ window' = Tail(window)

Clear == window' = <<>>

Next == Admit \/ Finish \/ Report \/ Retire \/ Clear

Spec == Init /\ [][Next]_window

=============================================================================
