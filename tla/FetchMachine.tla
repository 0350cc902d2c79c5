---------------------------- MODULE FetchMachine -----------------------------
(***************************************************************************)
(* What the processor promises of whatever it fetches, from the path of    *)
(* the program or off it: it takes effect once, in the order it was        *)
(* fetched, as the instruction that was in memory when it was fetched.     *)
(***************************************************************************)
EXTENDS SequentialMachine

CONSTANT InstructionAt(_, _)   \* the decoded instruction at an address of a memory

Fetch == \E address \in Word :
  /\ window' = Append(window, InstructionAt(bytes, address))
  /\ UNCHANGED <<x, bytes>>

InOrder == Start /\ [][Fetch \/ Retire]_seqVars

=============================================================================
