------------------------- MODULE SequentialMachine --------------------------
(***************************************************************************)
(* What the execution unit promises to a program: the instructions it      *)
(* accepts take effect one at a time, in the order they were accepted,     *)
(* each on the registers and the memory that its predecessors left.        *)
(***************************************************************************)
EXTENDS InstructionSet, Sequences

CONSTANT InitialBytes   \* what the memory may hold at the start

VARIABLES
  window,   \* the instructions accepted that have not taken effect
  x,        \* the registers
  bytes     \* the memory

seqVars == <<window, x, bytes>>

Start ==
  /\ window = <<>>
  /\ x = [r \in Reg |-> 0]
  /\ bytes \in InitialBytes

Accept == \E op \in Packets :
  /\ window' = Append(window, op)
  /\ UNCHANGED <<x, bytes>>

\* The oldest instruction takes effect.
Retire ==
  /\ window # <<>>
  /\ window' = Tail(window)
  /\ x' = RegistersAfter(Head(window), x, bytes)
  /\ bytes' \in MemoriesAfter(Head(window), x, bytes)

Step == Accept \/ Retire

Run == Start /\ [][Step]_seqVars

=============================================================================
