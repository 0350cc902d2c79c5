----------------------------- MODULE MCProcessor -----------------------------
(***************************************************************************)
(* Model-checking instances of Processor: memories that hold programs made *)
(* of a menu of instructions, and the orders of the seven processes.       *)
(*                                                                         *)
(* A byte has two values, so that a word of four bytes is one of sixteen   *)
(* instructions.  Memory is zero behind the program, and word 0 decodes to *)
(* an UNKNOWN instruction, as it does in the simulator.  Loads and stores  *)
(* use the last word of the memory, which the simulation ends before       *)
(* fetching.                                                               *)
(***************************************************************************)
EXTENDS ProcessorProperties, Alu, TLC, WordOperators

F(opcode, f3, rd, rs1, rs2, i) ==
  [opcode |-> opcode, funct3 |-> f3, funct7 |-> 0,
   rs1 |-> rs1, rs2 |-> rs2, rd |-> rd, imm |-> i]

DataAt == MEMORY_SIZE - 4

ADDI  == 1    \* addi  x1, x1, 1
XOR   == 2    \* xor   x2, x1, x2
LBU2  == 3    \* lbu   x2, DataAt(x0)
SW1   == 4    \* sw    x1, DataAt-1(x1)
BEQ   == 5    \* beq   x1, x2, 8
AUIPC == 6    \* auipc x1, 1
JUMP  == 7    \* jal   x2, 8
LOOP  == 8    \* jalr  x1, x1, 0
BNE   == 9    \* bne   x1, x2, 8
BACK  == 10   \* jal   x0, -4

MCFields(inst) ==
  CASE inst = ADDI  -> F("OP_IMM", 0, 1, 1, 0, 1)
    [] inst = XOR   -> F("OP", 4, 2, 1, 2, 0)
    [] inst = LBU2  -> F("LOAD", LBU, 2, 0, 0, DataAt)
    [] inst = SW1   -> F("STORE", SW, 0, 1, 1, DataAt - 1)
    [] inst = BEQ   -> F("BRANCH", 0, 0, 1, 2, 8)
    [] inst = AUIPC -> F("AUIPC", 0, 1, 0, 0, 1)
    [] inst = JUMP  -> F("JAL", 0, 2, 0, 0, 8)
    [] inst = LOOP  -> F("JALR", 0, 1, 1, 0, 0)
    [] inst = BNE   -> F("BRANCH", 1, 0, 1, 2, 8)
    [] inst = BACK  -> F("JAL", 0, 0, 0, 0, -4)
    [] OTHER        -> F("UNKNOWN", 0, 0, 0, 0, 0)

\* The packets decode can make of these instructions
MCPackets ==
  {MCFields(inst) @@ [pc |-> a] : inst \in 0 .. BACK, a \in Word}

\* The memory that holds a program, a sequence of instructions
Loaded(program) ==
  [a \in MemAddr |->
     IF a \div 4 < Len(program) THEN ByteOf(program[a \div 4 + 1], a % 4) ELSE 0]

Programs(menu, length) == {Loaded(p) : p \in [1 .. length -> menu]}

\* Programs whose own run is straight: once auipc has set x1, the store goes
\* behind the program, and the branch is not taken unless x2 is made the same.
RunsStraight(p) ==
  /\ \A k \in DOMAIN p : p[k] \in {SW1, BEQ} => \E j \in 1 .. k - 1 : p[j] = AUIPC
  /\ p # <<AUIPC, XOR, BEQ>>

StraightLines ==
  {Loaded(p) : p \in {p \in [1 .. 3 -> {AUIPC, XOR, LBU2, SW1, BEQ}] : RunsStraight(p)}}
    \union {Loaded(<<AUIPC, SW1, LBU2, XOR, BEQ>>)}

\* One instruction is enough for a branch that resolves to ever new targets.
Jumps == Programs({ADDI, JUMP, LOOP, BNE, BACK}, 2) \union Programs({LOOP}, 1)
JumpOverOne == {Loaded(<<JUMP, ADDI, ADDI>>)}

\* The states of a program in its first instructions, one after the other
StatesOf(bytes) ==
  LET first[n \in 0 .. SIMULATION_EDGES + 1] ==
        IF n = 0 THEN {ProgramState(0, [r \in Reg |-> 0], bytes)}
        ELSE LET before == first[n - 1] IN
             before \union UNION {StatesAfter(s) : s \in {s \in before : s.at = 4 * (n - 1)}}
  IN  first[SIMULATION_EDGES + 1]

\* Every instance satisfies the hypotheses of the theorem about what is under
\* way, and programs those of the theorems about straight-line programs.
ASSUME FixedOrderInstance ==
  FixedOrder /\ ROB_SIZE >= 2 /\ BranchesNameNoRegister(Packets)

ASSUME HashInstance == HashesAreNumbers

ASSUME StraightLineInstance ==
  InitialMemories = StraightLines =>
    StraightLinePrograms(UNION {StatesOf(m) : m \in InitialMemories})

EuOrders ==
  {o \in [1 .. 4 -> {"issue", "execute", "complete", "commit"}] :
     \A j, k \in 1 .. 4 : o[j] = o[k] => j = k}

\* The execution unit's processes in any order.  Fetch, which shares the
\* predictor with clock_proc, runs before it in half of these orders.
MCOrders ==
  {IF \E j, k \in 1 .. 4 : j < k /\ o[j] = "issue" /\ o[k] = "commit"
   THEN <<"decode", "fetch">> \o o \o <<"clock">>
   ELSE <<"clock">> \o o \o <<"fetch", "decode">> : o \in EuOrders}

FewOrders ==
  {<<"fetch", "decode", "issue", "execute", "complete", "commit", "clock">>,
   <<"clock", "commit", "complete", "execute", "issue", "decode", "fetch">>}

WordOnly == {SW}
TwoBit == {"TWO_BIT"}
StaticOrDynamic == {"STATIC_BTFN", "TWO_BIT", "GSHARE"}
Stations111 == [s \in Station |-> 1]

=============================================================================
