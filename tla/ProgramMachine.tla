--------------------------- MODULE ProgramMachine ----------------------------
(***************************************************************************)
(* What the processor promises to a program in memory: the instruction at  *)
(* the program counter takes effect, then the one it leads to.  No stage,  *)
(* no prediction and no statistics.                                        *)
(***************************************************************************)
EXTENDS InstructionSet

CONSTANTS
  InitialBytes,          \* what the memory may hold at the start
  InstructionAt(_, _),   \* the decoded instruction at an address of a memory
  Successor(_, _, _)     \* where a branch with these operands leads

VARIABLES at, x, bytes

programVars == <<at, x, bytes>>

Start ==
  /\ at = 0
  /\ x = [r \in Reg |-> 0]
  /\ bytes \in InitialBytes

Execute ==
  LET op == InstructionAt(bytes, at) IN
  /\ x' = RegistersAfter(op, x, bytes)
  /\ bytes' \in MemoriesAfter(op, x, bytes)
  /\ at' = IF op.opcode \in {"BRANCH", "JAL", "JALR"}
           THEN Successor(op, x[op.rs1], x[op.rs2])
           ELSE (at + 4) % WORD

Run == Start /\ [][Execute]_programVars

=============================================================================
