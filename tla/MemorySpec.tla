----------------------------- MODULE MemorySpec ------------------------------
(***************************************************************************)
(* The memory under every sequence of stores and loads, of every width and *)
(* at addresses in it, behind its end and so high that the last byte of an *)
(* access would wrap around.                                               *)
(***************************************************************************)
EXTENDS MemorySystem

CONSTANTS
  Addresses,   \* the addresses of accesses
  Stored       \* the values of stores

ASSUME AccessAssumption == Addresses \subseteq Word /\ Stored \subseteq Word

VARIABLES
  memory,   \* the bytes of MemorySystem
  load      \* the last load and its result, if no store came after it

vars == <<memory, load>>

NoLoad == [addr |-> 0, funct3 |-> LB, result |-> LoadedValue(memory, 0, LB)]

Init ==
  /\ memory = [a \in MemAddr |-> 0]
  /\ load = NoLoad

\* commit_proc, for a store
Store == \E addr \in Addresses, data \in Stored, funct3 \in {SB, SH, SW} :
  /\ memory' = WriteData(memory, addr, data, StoreSize(funct3))
  /\ load' = NoLoad'

\* execute_mem_op, for a load
Load == \E addr \in Addresses, funct3 \in {LB, LH, LW, LBU, LHU} :
  /\ load' = [addr |-> addr, funct3 |-> funct3,
              result |-> LoadedValue(memory, addr, funct3)]
  /\ UNCHANGED memory

Next == Store \/ Load

Spec == Init /\ [][Next]_vars

-----------------------------------------------------------------------------
\* The bytes of an access that starts at addr
Touched(addr, size) == {addr + k : k \in 0 .. size - 1}
Fits(addr, size) == Touched(addr, size) \subseteq MemAddr

\* What byte k of a number counts for: BYTE to the power k, for a word's bytes
\* and the bit above them
Place == [k \in 0 .. 4 |->
  CASE k = 0 -> 1 [] k = 1 -> BYTE [] k = 2 -> BYTE * BYTE
    [] k = 3 -> BYTE * BYTE * BYTE [] OTHER -> BYTE * BYTE * BYTE * BYTE]

\* What the extension of loads relies on: a byte has as many negative values
\* as others, and a register holds a word of the memory (256 and 2^64).
RegistersHoldWords == BYTE % 2 = 0 /\ Place[4] <= WORD

(***************************************************************************)
(* A store that fits in the memory puts its bytes, lowest first, exactly   *)
(* where it is told to; any other, also one of which only the last byte    *)
(* is outside, changes nothing.                                            *)
(***************************************************************************)
Written(addr, data, size) ==
  [a \in MemAddr |-> IF Fits(addr, size) /\ a \in Touched(addr, size)
                     THEN (data \div Place[a - addr]) % BYTE ELSE memory[a]]

StoresAreExact ==
  \A addr \in Addresses, data \in Stored, size \in {1, 2, 4} :
    WriteData(memory, addr, data, size) = Written(addr, data, size)

(***************************************************************************)
(* A load returns the number whose low bytes are those of the memory and   *)
(* whose sign, for the signed loads, is that of the highest of them, or 0  *)
(* where not all of its bytes exist.                                       *)
(***************************************************************************)
LoadsExtend ==
  LET f == load.funct3
      size == IF f \in {LB, LBU} THEN 1 ELSE IF f \in {LH, LHU} THEN 2 ELSE 4
      number == IF f \in {LB, LH, LW} THEN SignedValue(load.result) ELSE load.result
      half == Place[size] \div 2
  IN
  IF ~Fits(load.addr, size) THEN load.result = 0
  ELSE /\ \A k \in 0 .. size - 1 :
            (number \div Place[k]) % BYTE = memory[load.addr + k]
       /\ IF f \in {LB, LH, LW} THEN -half <= number /\ number < half
          ELSE 0 <= number /\ number < 2 * half

(***************************************************************************)
(* Fetch and loads see the same memory up to its last word: a program may  *)
(* be placed anywhere data may be.                                         *)
(***************************************************************************)
FetchSeesTheMemory == \A addr \in Addresses :
  ReadInstruction(memory, addr) =
    IF ~Fits(addr, 4) THEN 0
    ELSE memory[addr] + Place[1] * memory[addr + 1] + Place[2] * memory[addr + 2]
           + Place[3] * memory[addr + 3]

=============================================================================
