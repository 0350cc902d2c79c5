# CakemuOoO in TLA+

CakemuOoO simulates a RISC-V processor in SystemC: fetch with branch prediction,
decode, an out-of-order execution unit (Tomasulo's algorithm with a reorder
buffer), a memory, and statistics.  This directory holds TLA+ modules translated
from its sources, the TLC configurations that check them on small instances, and
proofs that TLAPS checks for every value of the constants.

## 1. The system

Paths are relative to the repository.

| component | source | state | operations |
|---|---|---|---|
| Reorder buffer | `src/execute/reorder_buffer.cpp` | ring of entries, `head`, `tail`, `count`, one `newly_completed` flag per slot | allocate, update, complete, report, remove head, reset |
| Reservation stations | `src/execute/reservation_station.cpp` | entries with operands `Vj`,`Vk`, tags `Qj`,`Qk`, `ready`, and the ROB index of each | add, remove, list ready entries, wake, reset |
| Register file | `src/execute/register_file.cpp` | 32 registers | read, write |
| Execution unit | `src/execute/execution_unit.cpp` | all of the above and the register status table | the processes `issue_proc`, `execute_proc`, `complete_proc`, `commit_proc` |
| Memory | `src/memory/memory_system.cpp` | bytes | `read_instruction`, `read_data`, `write_data` |
| Fetch unit | `src/fetch/fetch_unit.cpp` | `pc` | `fetch_proc`, `predict_next_pc` |
| Branch predictor | `src/fetch/branch_predictor.cpp` | tables, history, two counters | `predict`, `update` |
| Decode unit | `src/decode/decode_unit.cpp` | none | `decode_proc` |
| Processor | `src/core/processor.cpp` | signals between the stages, counters | `clock_proc` |
| Writeback unit | `src/writeback/writeback_unit.cpp` | none | a process without effect |
| Performance analyzer | `src/common/performance_analyzer.cpp` | counters | counting and report printing |

**How they interact.**  Between the stages there are `sc_signal`s: a value
written at one clock edge is read at the next.  Inside the execution unit there
are none.  Its four processes are SC_METHODs sensitive to the same clock edge,
and they call methods of the same C++ objects; so what one of them sees of the
others depends on the order in which the kernel runs them within the edge.
SystemC leaves that order to the kernel.  The memory is reached by function
calls: fetch and loads read it, stores write it from `commit_proc`.  The branch
predictor is shared, too: fetch asks it, `clock_proc` trains it.

**What is hard.**  The order of the processes; a value taken from the register
file, from the buffer or as a tag, depending on state that other processes
change at the same edge; tags and register marks that are buffer indices and are
reused as the ring wraps; loads that run ahead of older stores; packets that find
no room; wakeups that happen once.  Around the unit: a result that stays on its
signal, a redirect that arrives edges later, statistics that are gathered by a
process that looks at all stages at once, and the same bits of an instruction
decoded in three places.  `PROJECT.json` lists the hazards with their lines.

**What makes each part correct.**  The reorder buffer: its ring is sound and it
is a bounded program-order queue.  The stations: they hold exactly the
instructions in flight that have no result.  The status table: it points to the
youngest writer.  The execution unit as a whole: to the program it is a
sequential machine, it loses no instruction, and every instruction commits.  The
memory: an access happens exactly if all its bytes exist.  The decoder inverts
the instruction formats.  The processor runs the program in its memory as
written, taken branches redirect fetch, and the statistics are about that run.

## 2. Modules

| module | what it is |
|---|---|
| `ProcessorTypes` | words, registers, opcodes, `DecodePacket` (`include/common/types.h`, and the decoder's classification) |
| `InstructionSet` | what one decoded instruction does to registers and memory; shared by the two abstract machines |
| `ReorderBuffer` | every method of class `ReorderBuffer` as an operator on a record; the ring's soundness `RobRing` |
| `ReorderBufferSpec` | the buffer alone, under any sequence of the calls the execution unit may make |
| `ProgramOrderBuffer` | abstract: a bounded sequence; `ReorderBufferSpec` implements it |
| `ReservationStation` | every method of class `ReservationStation`, for the three stations together |
| `MemorySystem` | `read_instruction`, `read_data`, `write_data`, access widths and sign extension |
| `MemorySpec` | the memory alone, around its end and around the end of the address space |
| `SystemCKernel` | the evaluation phase: which process runs, in which order (external: SystemC) |
| `ExecutionUnit` | the four processes, composed from the modules above |
| `ExecutionUnitProperties` | what it guarantees, and the mapping to `SequentialMachine` |
| `SequentialMachine` | abstract: accepted instructions take effect one at a time, in order |
| `Alu` | `execute_alu_op`; the execution unit takes it as a constant operator; the operators of C++ on the bits of two registers are constants of its own |
| `AluSpec` | every instruction and operand of the ALU, against its definition by the bits of the operands |
| `BranchPredictor` | class `BranchPredictor`: the seven schemes as operators on a record |
| `BranchPredictorSpec` | the predictor under every sequence of `predict`, `update` and `reset_stats` calls |
| `DecodeUnit` | the decoder's fields and immediates, and the offsets that fetch and the static predictor pick for themselves, on 32-bit words |
| `DecodeUnitSpec` | the encodings of the instruction formats, and the three decoders against them |
| `FetchUnit` | `predict_next_pc` |
| `PerformanceAnalyzer` | the analyzer's counters as operators on a record |
| `Processor` | class `Processor`: extends `ExecutionUnit` with fetch, decode and `clock_proc` |
| `ProcessorProperties` | what it guarantees, the statistics, and the mappings to `ProgramMachine`, `FetchMachine` and `ExecutionUnit` |
| `ProgramMachine` | abstract: the program in the memory, executed one instruction after the other |
| `FetchMachine` | abstract: whatever is fetched takes effect once, in the order of the fetches |
| `WordOperators` | exclusive or, or, and, as the instances give them to `Alu` |
| `MC`... | instances for TLC |
| `ReorderBufferLemmas` | what each method of the reorder buffer does to its window, for the proofs of all that use it |
| `ReorderBufferProofs` | proofs about the reorder buffer alone |
| `BranchPredictorProofs` | proofs about the branch predictor |
| `ExecutionUnitProofs` | the execution unit in every order of its processes; tags, data flow and the refinement of `SequentialMachine` in the orders that forward results; the orders that are the same at every edge |
| `ArithmeticLemmas` | division, powers of two, and the bits of fields and sums, for the proofs below |
| `MemoryProofs` | proofs about stores, loads and instruction reads |
| `WordProofs` | the parts that work on the bits of words: the decoder, for every word, and the ALU, for every width |
| `ProcessorProofs` | the channels and statistics, the processor as an environment of the unit, the order of the fetches, and straight-line programs |

**State.**  `rob` is the `ReorderBuffer` object as a record with the fields of
the class.  An entry keeps the decoded instruction (`op`) instead of the copies
of its fields; `dest`, `is_store` and `pc` are `op.rd`, `op.opcode = "STORE"` and
`op.pc`.  `rs` is one function from station slots to entries; an entry joins an
`RSEntry` and its element of `rob_indices`.  `regfile`, `reg_status` and `memory`
are the vectors of the same name.  `decode_in`, `execute_out` and `reset` are the
ports; `execute_out` has the value readers see and the one written at this edge.
What a free slot holds is never read before it is overwritten, so free slots
hold one fixed value.

**Actions.**  A process runs to completion.  `issue_proc` and `complete_proc` are
one action each (the first split by its early returns: `IssueReset`,
`IssueNothing`, `IssueDropped`, `IssueAccepted`).  `execute_proc` and
`commit_proc` loop; one iteration is one action and the return another
(`ExecuteAlu`, `ExecuteMem`, `ExecuteBranch`, `ExecuteReturn`; `CommitStore`,
`CommitRegister`, `CommitReturn`).  The iterations of one call cannot be
interleaved with anything, because `Running(p)` stays with the process until it
returns.  `ClockEdge` ends the edge: signals take their new values, `sc_main` may
have lowered `reset`, and the decoder presents any packet or none.

**The processor.**  `Processor` extends `ExecutionUnit`: the unit's actions are
its own, its packets come from `Decode`, and `ProcessorEdge` takes the place of
`ClockEdge`.  `fetch_proc` is `FetchReset` and `FetchInstruction`, `decode_proc`
is `Decode`, `clock_proc` is `ClockProc`; each is one action.  A signal has the
value readers see, `cur`, and the one written last, `next`; at the edge it takes
the new value only if `operator==` of `types.h` finds a difference
(`SameExecutePacket` and its siblings).  `branch_taken` and `branch_target` are
always written together and are one signal, `redirect`.  The stall signals are
never raised, and the writeback unit and `memory_proc` change nothing; they are
left out.

An instruction word in the processor is a number of four two-valued bytes, one
of sixteen, and the constant `Fields` says what it decodes to: the programs lie
in the same bytes that loads and stores reach.  That the real decoder's `Fields`
is the inverse of the RISC-V formats is said of whole 32-bit words in
`DecodeUnitSpec`, checked on some and proved for all.

**Undefined values.**  `issue_proc` fills a local `ROBEntry` and never assigns its
`funct3`; the model takes any value of `GarbageFunct3`.  `Vj` and `Vk` are also
unassigned while their tag is set, but they are not read before the wakeup
assigns them (`ReadyIffOperandsArrived`), so the model writes 0.

**The order of the processes.**  `Orders` and `FixedOrder` say which orders the
kernel may use, and whether it uses one for the whole simulation.  A given kernel
build is `FixedOrder = TRUE`; the standard alone allows `FALSE`.  Properties that
rest on the order are checked for all 24 fixed orders; structural invariants for
every order at every edge.

With a fixed order something surprising is true: exactly one `execute_proc` runs
between two `issue_proc`s and at least one `commit_proc`, so whatever was issued
at one edge has its result before the next packet is issued.  No entry ever
waits for an operand, at most two instructions are in flight, and the wakeup
logic is never used.  That is why loads that do not look at older stores are
right, and why the missing stall on a full buffer loses nothing: run `eu_fixed`
shows it with one slot per station and a buffer of two.  The runs with
`FixedOrder = FALSE` are what exercises waiting, wakeup, full structures and
out-of-order completion.

## 3. Runs

| run | what it shows |
|---|---|
| `rob_ring` | The ring is sound and implements `ProgramOrderBuffer`. |
| `eu_fixed` | For each of the 24 fixed orders, with loads, stores and jumps: `ExecutesSequentially` (refinement of `SequentialMachine`), `NothingDropped` and `EveryInstructionCommits`. |
| `eu_any_order` | For every order at every edge: type, `RobSound`, `StationsMatchRob`, `RenamingTracksYoungestWriter`, `ReadyIffOperandsArrived`. Packets are dropped here, stations fill up, wakeups are lost. |
| `eu_forwarding` | For orders in which execute, complete and commit run in this order and `issue_proc` anywhere, changing between edges: `NoLostWakeup`, `ExecutesSequentially`, `EveryInstructionCommits`. |
| `memory` | Stores, loads and instruction reads of every width at every address: an access happens if and only if all its bytes exist, changes or reads exactly these (`StoresAreExact`, `FetchSeesTheMemory`), and extends the sign it should (`LoadsExtend`). |
| `decode_unit` | `DecodesTheFormats`: for every opcode and every operand bit, alone and with its neighbour, set among cleared bits and cleared among set ones, the decoder inverts the encoding. `FetchAgreesWithDecode`, `StaticPredictsBackward`: the other two decoders of a branch's offset agree with it. |
| `programs` | `RunsTheProgram` (refinement of `ProgramMachine`): the programs of ALU, load, store and conditional branch instructions whose own execution takes no branch and stores only behind the program (47 of a menu of five; the address of the store and the operands of the branch come from the instructions in front of them) run as written, in each of 24 orders of the execution unit's processes, and `KeepsPace`: one instruction takes effect at each edge, four edges behind the clock. |
| `branches` | Programs of jumps and branches: the target of each taken branch is in fetch's channel before the simulation ends, if four edges are left when it resolves (`EveryTakenBranchRedirects`); what was fetched and what was decoded differ by the instruction on its way (`FetchedIsDecodedOrOnItsWay`), the breakdowns by opcode and by type count the same (`BreakdownsAgree`), a branch is predicted once per fetch (`PredictionsAreFetches`), and of the taken branches that `clock_proc` reports, at every edge anew, those that are counted as missed are one per table entry in use, and all of them with the static scheme (`EntriesMissOnce`); and the processor is an environment that `ExecutionUnit` allows for, so what the `eu_` runs show of the unit holds inside the processor (`ImplementsExecutionUnit`). `FetchedTakesEffect` (refinement of `FetchMachine`): the channels, stations and buffer are one queue, from which everything fetched, the wrong path behind a jump included, takes effect once and in order. |
| `wrong_path` | Violation: the instruction behind a taken jump commits. |
| `branch_clobbers_register` | Violation: a committed conditional branch writes 0 to a register. |
| `branch_predictor` | For all seven schemes, with branches that share entries and calls in any order: counters and history stay in range (`BpTypeOK`), the history is the last outcomes, the prediction follows a repeated outcome (`EntriesFollowOutcomes`) and survives one deviating outcome (`EntriesAreSlowToTurn`), and an outcome that `predict` would have answered is counted (`CountsHits`, which leaves out the static scheme, whose `update` does not know the instruction). What is counted was such an outcome, but for the one-bit scheme, which counts all, and tournament, which counts those of either component. |
| `alu` | For all operands: every ALU instruction but `srai` computes what its definition by bits says (`AluComputesItsInstruction`). |

**Bounds.**  Words have 16 values and bytes 2, so that a word is 4 bytes as in the
code, sign extension and wrap-around happen, and an address can be out of range;
3 registers are x0 and two that depend on each other; memory has 4 bytes, so a
word fits only at address 0.  A ring of 3 has every relation of head, tail and
wrap-around; 4 was checked too (165 thousand states).  The menus of instructions
(`MCExecutionUnit`) hold, for each run, every station it is about, an
instruction that reads what another writes, and one that writes what it reads.

The predictor has tables of two entries and two bits of history, so that two of
the three addresses share an entry, the history both changes and keeps the entry
`gshare` uses, and one address has the bit by which the tournament chooses; its
counters are bounded by 2 (`MaxCount`), of which the properties read only single
steps.  The sizes of the tables and the exclusive or of `compute_pht_index` are
the constants `BHT_SIZE`, `GHR_SIZE` and `HashXor`.  The ALU has registers of
four bits: all operands, positive and negative immediates, and immediates with
bit 10 set, which is bit 30 of the instruction.

The memory run has six bytes in an address space of 32, and accesses at
`Addresses`: every alignment before, across and behind the end of the memory, and
the last three of the address space, where an access would wrap.  A byte is one
bit, so that a word is narrower than a register and extension shows.  In the
decoder's run the operand bits are all cleared or all set but for one bit or two
neighbours (`Patterns`), which tells where each bit of an immediate comes from
and where a field ends.

The processor has words of 32 values, eight instruction words of memory, and one
slot per station and two in the buffer, which `eu_fixed` shows is enough for a
fixed order.  Programs are three instructions long, two in the run about
branches, any of a menu of five, followed by zeros, which decode to an UNKNOWN
instruction as in the simulator.  `RESET_EDGES` = 1: the reset lasts one or two edges.
`SIMULATION_EDGES` bounds a run: after 9 edges the three instructions have
committed in every order; 16 let a branch redirect fetch and resolve again, with
another target.  Loads and stores use the last word, which the run ends before
fetching, so no program modifies itself; in `programs`, words have 64 values and
the memory 44 bytes, so that this word lies behind every address fetch can reach
in 10 edges (`ProgramAddress`), as `StraightLinePrograms` asks.  Its menu has a
store with a base register and a `beq` of two registers: of the 125 programs of
three instructions, and one of five that has all of them, `StraightLines` takes
those in which the instructions in front have set the registers so that the store
goes behind the program and the branch is not taken.  In the run about branches
the predictor is the static one, one with two-bit counters, or `gshare`.  A `jalr` may go
to any address, also to one that is no multiple of four.  The run about branches
uses two orders of the processes, one the reverse of the other; `programs` uses
all 24 orders of the execution unit, half of them with fetch before `clock_proc`.

**Fairness.**  `WF_vars(Next)`: the clock goes on and a process that runs returns.
The kernel guarantees both for as long as it simulates; the time limit of
`sc_start` is the only end; `ExecutionUnit` leaves it out.  `Processor` has it
(`SIMULATION_EDGES`), with `WF_processorVars(ProcessorNext)` for the same reason,
and `EveryTakenBranchRedirects` speaks of the branches that resolve early enough.

**Deadlock** is checked in all runs but those of `MCProcessor`, where `sc_start`
returns and nothing happens any more: in the others, the clock can always tick.

## 4. Proofs

The proofs hold for every value of the constants: word, memory, buffer and
station sizes, every ALU (`ExecuteAluOp` is a parameter), every decoder
(`Fields`), and every program.  They assume what the modules' `ASSUME`s say, and
nothing else unless a theorem's `ASSUME` names it.  Those hypotheses are about
the order of the processes, the program, sizes, or the powers of two, and the runs'
instances satisfy them (`ForwardingInstance` and `FixedInstance` in `MCExecutionUnit`,
`FixedOrderInstance`, `HashInstance` and `StraightLineInstance` in `MCProcessor`, `MemoryInstance`
in `MCMemory`, `AluInstance` in `MCAlu`, which TLC evaluates).

**The reorder buffer** (`ReorderBufferProofs`): `RobTypeCorrect`,
`RobRingCorrect`, and `RingIsAQueue`, the refinement of `ProgramOrderBuffer`.
The invariant is the conjunction of types and ring: the ring cannot be shown
sound without the ranges of its pointers, nor the ranges without knowing that a
completed entry is busy.  `ReorderBufferLemmas` has one lemma per method.
`NextSlot` turns the `%` of the code into a case split; after that an allocation
is the slot whose age is `count`, and a removal makes every other slot one place
older (`RobAge`), so the window, read from the head, is the abstract sequence.

**The branch predictor** (`BranchPredictorProofs`): `PredictorTypeCorrect`,
`LearningFollowsOutcomes`, `HysteresisCorrect` and `HitsCorrect`, for tables of
every size, histories of every width that the code can shift (`1 << ghr_bits`, an
`int`) and every hash function whose values are natural numbers.  That a counter is on the side of an outcome it has seen twice is not
inductive: the counter must not have been at the opposite end after the first
time, and must be at the near end after the third.  `Learned` says all three of
a counter and the run of outcomes behind it; `CountedLearns` shows that one
outcome more keeps it, for either table, and `IndexBounds` that the entry
updated is one of the table. `HitsCorrect` needs only the types: it compares the
test in `update` with the answer of `predict`, scheme by scheme.  For the one-bit
scheme it says only that hits are counted, since all outcomes are; for tournament,
that what is counted was the answer of one of the two components.

`HistoryCorrect` is about the history register.  `outcomes` remembers the last of them in order, and the invariant
`HistoryInv` says that bit k of the register is the outcome k places back, or 0 if
there has been none.  An update shifts both: the register's bits go up one place
and the mask drops the top one (`ShiftedBits`), the outcomes go back one place and
the oldest is forgotten (`RememberedAfter`).

**The memory** (`MemoryProofs`): `StoresCorrect`, `FetchCorrect` and
`LoadsCorrect`.  The invariant is that the memory holds bytes and that the last
load returned what is still there; the rest is arithmetic, the same for every
`BYTE` and `WORD`.  `BoundsAreRight` shows that the three comparisons with
`MEMORY_SIZE` reject exactly the accesses that do not fit, `NestedDivision`
(`ArithmeticLemmas`) that the shifts of `write_data` take single bytes,
`DigitsOfWord` that a number put together from bytes has these bytes, and
`ExtensionIs` that the cast to a signed type takes the weight of the bit above
away.  `LoadsCorrect` assumes `RegistersHoldWords`: a register has room for four
bytes, and a byte for as many negative values as others.

**The execution unit, in every order** (`ExecutionUnitProofs`): the processes may
run in any order, which may change at every edge.  `Inv` is inductive: the
types, the ring, `StationsMatchRob`, and `PacketsInFlight`, that what the buffer
and the stations hold are packets.  The types need the ring (a report or a
commit writes through an index), the ring needs `StationsMatchRob` (a result is
entered under the index its station kept, which must be that of a busy and
uncompleted entry), and `StationsMatchRob` needs the ring (an index is free when
it is allocated).  For each process a lemma (`IssueIs`, `ExecuteAluIs`, ...,
`CommitIs`) says what the whole handler did in terms of these operators.
`ReadinessCorrect` and `RenamingCorrect` are inductive on top of `Inv`.  The
latter is about the reuse of buffer indices: a register's mark is cleared only by
the instruction that set it, although `commit_proc` compares indices.

**Forwarding** (`ExecutionUnitProofs`, second part): `NoWakeupIsLost` assumes that
execute, complete and commit run one after the other at each edge
(`ForwardsInOrder`); issue may run anywhere, and the order may change.  In other
orders the theorem is false, as run `eu_any_order` illustrates: a producer can
commit between two reports, and its consumers wait for ever.  The invariant:
`OrderInv` says which entries have been reported, depending on which process
runs next, and `TagsInv` that a tag is the youngest older writer of the
register, is in flight, and has its report before it.

**Sequential execution** (`ExecutionUnitProofs`, second part):
`ImplementsSequentialMachine`, the refinement of `SequentialMachine`.  `DataInv`
is the data flow: an operand in a station is what its producer left
(`Delivered`: the result of the youngest older writer in flight, or the
register), and a result is what the instruction computes of operands delivered
to it.  Each process carries what has been delivered (`CarriedAt...`); at the
head nothing older is in flight, so what was delivered is in the register file,
and the commit is the abstract `Retire`. Beside `ForwardsInOrder` there are two
hypotheses about the packets, each for something the code does not do:
`LoadsWithoutStores`, since `execute_proc` lets a load read memory before an
older store commits, and `BranchesNameNoRegister`, since `commit_proc` writes a
register for branches (section 5).

**A fixed order** (`ExecutionUnitProofs`, third part): the order is one of the 24,
the same at every edge.  `NothingIsDropped` (with at least two buffer entries; with one it is
false) and `SequentialInFixedOrder`, which needs neither `ForwardsInOrder` nor
`LoadsWithoutStores`.  `FixedOrderInv` counts what has run since the last issue:
`RunSinceIssue(p)` compares the places of `p` and of issue in the order with how
far the edge has come.  If execute has run, the stations are empty; if commit has
run, and runs after execute (`CommitIsLast`), the buffer is empty; otherwise one
older instruction, complete, may be left.  So nothing waits, and the previous
theorems' invariants `DataInv` and `TagsInv` hold without their hypotheses.  TLC
has checked `FixedOrderInv` and `DataInv` on the instance of `eu_fixed`.

**The processor** (`ProcessorProofs`): for every order, changing or not, of the
seven processes (`RunsEachOnce`), every program, every predictor and every
`Fields`.  `ProcessorInv` is `ChannelInv` and `StatisticsInv`: types; which
packet is where, depending on which processes have run (`HasRun`); that during
the reset nothing is in a channel (`NothingFetchedInReset`, without which a
packet fetched before the edge could be counted and never decoded); that what
is at issue is the decoding of what was counted as fetched one edge before
(`DecodeFollows`); and the counters by column of the report.  From it
`ProcessorTypeCorrect`, `NothingLostBeforeIssue`, `BreakdownsCorrect`,
and `PredictionsCorrect`.

`MissesCorrect` adds `TrainingInv`: the two-bit tables keep their types, and the
outcomes counted as hazards less those counted as hits are the entries that are no
longer as a new predictor has them.  `clock_proc` reports taken branches only, so an
entry leaves the weakly-not-taken state with its first outcome, which is a miss,
and never comes back (`OutcomeTrains`); its other outcomes, also those of a branch
that is reported at every edge again, are hits.  Its hypothesis is
`HashesAreNumbers`, that the exclusive or of an address and a history is a natural
number.

Each step of the processor is one of the execution unit or leaves it alone
(`UnitOrElsewhere`), and an edge presents it a packet by `DecoderAssumption`.  So
the invariants of the unit carry over: `UnitInProcessorCorrect` for every order,
`NothingIsDroppedInProcessor` and `ProcessorExecutesSequentially` for a fixed
one.  The latter assumes that decoded branches name no register: it is a
statement about programs, and real ones are outside it, since the decoder leaves
bits of a branch's offset in `rd`.

`ProcessorImplementsUnit` is the same fact as a refinement, without hypotheses:
the processor without its other stages is a behaviour of `ExecutionUnit`'s own
specification.  The unit's `order` and `pending` are those of the processor
without the other three processes; `EuOrder` names the process at each place by
counting its predecessors, and the lemmas about it say that running one of the
unit's processes takes it from the head, and running another changes nothing.
`UnitStep` has one case per process.

**What is fetched takes effect** (`ProcessorProofs`): `FetchedTakesEffectOnce`,
that the processor implements `FetchMachine`, for every program, with its jumps
and their wrong paths.  The queue `UnderWay` is the buffer followed by the three
channels, of each of which the copy counts that the reader has not taken yet
(`HasRun`).  `UnderWayIs` says what it is at every moment within the edge in terms
of which channels hold an instruction (`fetchHolds`, `decodeHolds`,
`issueHolds`); from it, running decode or issue moves an instruction without
changing the queue, only `fetch_proc` lengthens it, by what the memory holds at
`pc` at that moment, and only a commit shortens it.  That the commit is the
abstract `Retire` comes from `DataInv`.  The hypotheses are those of
`ProcessorExecutesSequentially` and of `NothingIsDroppedInProcessor`: without a
fixed order, or with one buffer entry, a full buffer loses instructions.  The
theorem and run `wrong_path` together say what is wrong with jumps here: not that
anything is lost, repeated or reordered, but that nothing is taken back.

**Straight-line programs** (`ProcessorProofs`, last part): `ProgramRunsAsWritten`,
that the processor implements `ProgramMachine`, and `PaceIsKept`.  The hypotheses
are those of `NothingIsDroppedInProcessor`, and `StraightLinePrograms(reached)` for
some set `reached` of states (address, registers, memory): it holds the states the
simulation may start in, and the program executed as it is written, one
instruction after the other, does not leave it.  In none of these states is a
branch taken on the registers it finds, or a store made in front of `ProgramEnd`;
and in the memory the simulation starts with, as far as fetch gets within
`SIMULATION_EDGES`, there is no `jal` or `jalr`, and no branch that names a register
in its `rd` bits or that a new predictor takes.  This is about the program alone,
not about the pipeline, and about the values the program computes, so a store may
use any base register and a branch any operands.  With a taken branch the first
theorem is false (run `wrong_path`).  Run `programs` is an instance, and its
`ASSUME` says so: 24 orders of the unit, the straight programs of its menu, and as
`reached` the states TLC computes.

`StraightInv` has four parts.  `InStep`: an instruction is as many words behind
`pc` as there are others in front of it, in fetch's channel, at decode, at issue
and in the buffer, at every moment within the edge (`HasRun` says which copy of a
packet counts).  `AsInMemory`: every packet, fetched or decoded, is what the
memory holds at its address *now*, which survives a store because the address a
store writes is the one the program computes (`HeadComputedSequentially`), and
that is behind the program.  `NothingTaken`: no result is a taken branch, so no redirect
is raised and the predictor, which only hears of taken branches, predicts what a
new one would.  What executes is at the head of the buffer (`FoundAtExecute`, from
the fixed order), so a branch is at `Front`, its operands are in the register file
(`ExecutedNotTaken`), and the state of the program at `Front` (`FrontState`) is in
`reached`, which each commit preserves (`CommitReaches`).  `InTime`: fetch has run once an edge since the
reset, so that it stays within the program.  From `InStep` the oldest instruction
under way is at `Front`, counted back from `pc` (`OldestIs`); each step but a
commit leaves `Front`, the registers and the memory alone; a commit is a step of
the program (`CommitIsExecution`), and no more than four are under way at the end
of an edge (`FewInFlight`).  TLC has checked `StraightInv` and `FrontGoesOn` on the instance of
`programs`.

**The decoder** (`WordProofs`, first part): `DecoderCorrect`,
`FetchOffsetCorrect` and `StaticPredictionCorrect`, for every 32-bit word.  A
field has the bits of the word at its place (`FieldBits`); two parts put together
have the bits of both (`PartsBits`); and the sign extension of a number keeps its
bits and turns the top one into the sign (`SignedIs`).  So each format has a lemma
(`ImmediateI`, ..., `ImmediateU`) that reads the bits of the immediate off the
parts it is made of, and `FetchOffset` is compared with the decoder's parts,
masked and extended in another order.  An opcode is the only one with its seven
bits (`SevenBits`).

**The ALU** (`WordProofs`, second part): `AluCorrect`, for registers of every width
`XLEN`, all operands and all instructions.  `WrapIs` says by how much a sum or a
difference wraps, `ShiftedLeftBits`, `ShiftedRightBits` and
`ShiftedRightSignedBits` where the bits go, `SignedLess` that comparing as signed
numbers is comparing the top bits first.  What `^`, `|` and `&` do to bits is
assumed of the constants `WordXor`, `WordOr` and `WordAnd` (`BitwiseAssumption`);
TLC evaluates it for the operators the instances give.  There are two hypotheses.
`UpperImmediatesFit`: the decoder's immediates for `lui` and `auipc` fit a
register, as 32-bit numbers fit one of 64 bits.  `PowersOfTwo(XLEN)`: 2^(k+1) is
twice 2^k, which is true of all numbers, but the provers know `^` only for
numbers they can compute, which here are those up to 2^31 (`Powers`).

**Arithmetic** (`ArithmeticLemmas`): that division with remainder is unique, that
two divisions are one (`NestedDivision`), that a mask keeps the bits below it
(`MaskKeepsBits`), and the bits of a field and of a sum of parts.  Sums of exponents
(`PowerOfSum`) are by induction: a set that has 0 and the successors of its members
has all numbers (`UpTo`), from the well-foundedness of `<`.

**Only model-checked.**  Liveness (`EveryInstructionCommits`,
`EveryTakenBranchRedirects`): TLAPS has no rules for `ENABLED` and fairness that
would reach them.  Every other property of a passing run is also proved.

## 5. What the code does against its own comments

Two disagreements are shown by a run that TLC refutes:

- `branch_clobbers_register`: `commit_proc` (`execution_unit.cpp:301-303`) writes
  the result of every instruction that is not a store, so a conditional branch
  writes 0 to the register that its `rd` bits (part of its offset) name, although
  line 504 says that branches do not produce a register result.  The runs about
  sequential execution use branches whose `rd` bits are 0.
- `wrong_path`: nothing removes the instructions fetched behind a taken branch
  (`processor.cpp:153-165`); they commit, although a pipeline flush is recorded
  and the README promises program order (`README.md:91`).  `ExecutesSequentially`
  and `ImplementsExecutionUnit` are not in conflict with this: the unit executes
  what it is given in order, but it is given too much.

The others are in the modules as the code has them, and no run is spent on each:

- `branch_taken` is never lowered (`processor.cpp:155`), so after the first taken
  branch fetch repeats its target, and the predictor's advice ("default
  prediction: next sequential instruction", `fetch_unit.cpp:91`) is discarded.
- `execute_out` stays valid (`execution_unit.cpp:257`), so `clock_proc` counts
  one branch, its hazard and its outcome at every edge (`processor.cpp:142-164`).
- Only branches write `execute_out`: "Total instructions executed"
  (`processor.cpp:100`) leaves out all others, and "if memory access, record it"
  (147) never happens.
- `ROBEntry.funct3`, the "function code for store operations"
  (`types.h:151`), is never assigned (`execution_unit.cpp:111-119`), so the width
  of a store is arbitrary.  `SequentialMachine` lets a store have any width in
  `eu_fixed`.
- `update` of the one-bit predictor (`branch_predictor.cpp:153-158`) sets the
  entry to the outcome and then compares the two, so it counts every outcome as
  predicted; the other schemes "check if prediction was correct before updating"
  (168, 193), and the quotient is reported as the prediction accuracy
  (`processor.cpp:117`).  `update` of the tournament predictor (250-252) counts an
  outcome as predicted if either component was right, while `predict` (135-139)
  answers with one of them.  `CountsHits` asks of these two only that no hit is
  missed, and of tournament that a component was right.
- `execute_alu_op` (`execution_unit.cpp:382`) shifts arithmetically only for
  register-register instructions, so `srai` (`types.h:73`, used in
  `tests/alu_test.s:38`) shifts in zeros.  `AluComputesItsInstruction` leaves it
  out.

Not a contradiction of any text, but worth knowing: `update` of the static BTFN
predictor asks for the prediction of instruction 0, which is always "not taken",
so its statistics count the branches that were not taken.  `clock_proc` reports
taken branches only, so in the processor no predictor is ever told that a branch
was not taken (`EntriesMissOnce` says what follows for the counts).  The reported
misprediction count is the difference of a count of fetches and a count of reports,
cut off at 0 (`fetch_unit.cpp:105`); no property is about it.

## 6. Not modelled, and the plan

All that the plan set out to prove about safety is proved.  What it leaves is what
the code has to gain first: a processor that takes back the wrong path of a jump
could be shown to implement `ProgramMachine` for every program, and one that does
not write a register for a branch to do so without `BranchesNameNoRegister`.

Not modelled:

- the command line, the trace file, stream operators, and the printing of
  reports, histograms and CSV files; the analyzer's `record_` methods that nobody
  calls, and the averages derived from their counters;
- `load_program`, which is file input: its result is `InitialMemories`;
- the writeback unit and `memory_proc`, which have no effect, and
  `packet_operators.h`, which no file includes;
- programs that modify their own instructions, and loads and stores whose
  `funct3` the code's enumeration does not name (eight bytes, `lwu`): it treats
  them as words.
