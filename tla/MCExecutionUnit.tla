-------------------------- MODULE MCExecutionUnit ---------------------------
(***************************************************************************)
(* Model-checking instances of ExecutionUnit: the menus of instructions,   *)
(* and the sets of process orders.                                         *)
(***************************************************************************)
EXTENDS ExecutionUnitProperties, Alu, SequencesExt, WordOperators

\* funct3 and funct7 select the operation; i is the immediate.
Instr(opcode, f3, rd, rs1, rs2, i) ==
  [opcode |-> opcode, funct3 |-> f3, funct7 |-> 0,
   rs1 |-> rs1, rs2 |-> rs2, rd |-> rd, imm |-> i, pc |-> 4]

Lui1     == Instr("LUI",    0, 1, 0, 0, 1)
Sltiu1   == Instr("OP_IMM", 3, 1, 2, 0, 1)
Xor2     == Instr("OP",     4, 2, 1, 2, 0)
Jal1     == Instr("JAL",    0, 1, 0, 0, -4)
Jal0     == Instr("JAL",    0, 0, 0, 0, -4)
Blt12    == Instr("BRANCH", 4, 0, 1, 2, 4)
Beq12rd1 == Instr("BRANCH", 0, 1, 1, 2, 4)
Lbu2     == Instr("LOAD", LBU, 2, 1, 0, 0)
Lb2      == Instr("LOAD",  LB, 2, 1, 0, 0)
Sb1      == Instr("STORE", SB, 0, 2, 1, 0)
Sw1      == Instr("STORE", SW, 0, 2, 1, 0)

AllPackets == {Lui1, Xor2, Jal0, Lbu2, Sw1}
AnyPackets == {Xor2, Lb2, Sb1, Beq12rd1}
\* What the finding needs
ClobberPackets == {Lui1, Beq12rd1}
AluPackets == {Lui1, Sltiu1, Xor2, Jal1}

AllOrders ==
  {o \in [1 .. 4 -> EuProcess] :
     \A j, k \in 1 .. 4 : o[j] = o[k] => j = k}

Before(o, p, q) == \E j, k \in 1 .. 4 : j < k /\ o[j] = p /\ o[k] = q

\* The orders in which a result is forwarded at the edge it is produced and
\* before its instruction commits; issue_proc may come anywhere.
ForwardingOrders ==
  {o \in AllOrders : Before(o, "execute", "complete") /\ Before(o, "complete", "commit")}

\* The instance eu_forwarding satisfies the hypotheses of the theorems about
\* forwarding.
ASSUME ForwardingInstance ==
  /\ \A o \in ForwardingOrders : InForwardingOrder(o)
  /\ LoadsWithoutStores(AluPackets)
  /\ BranchesNameNoRegister(AluPackets)

\* The instance eu_fixed satisfies those of the theorems about a fixed order.
ASSUME FixedInstance ==
  /\ FixedOrder /\ Orders = AllOrders => RunsInFixedOrder /\ ROB_SIZE >= 2
  /\ BranchesNameNoRegister(AllPackets)

NarrowOrWide == {SB, SW}
WordOnly == {SW}
ZeroedMemory == {[a \in MemAddr |-> 0]}
Stations(alu, mem, branch) ==
  [s \in Station |-> IF s = "rs_alu" THEN alu ELSE IF s = "rs_mem" THEN mem ELSE branch]
Stations111 == Stations(1, 1, 1)
Stations211 == Stations(2, 1, 1)
Stations221 == Stations(2, 2, 1)

=============================================================================
