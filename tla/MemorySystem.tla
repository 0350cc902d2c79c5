---------------------------- MODULE MemorySystem ----------------------------
(***************************************************************************)
(* class MemorySystem (memory_system.h, .cpp): MEMORY_SIZE bytes, read and *)
(* written little-endian, one call at a time and with no latency.  BYTE is *)
(* the number of values of a byte (256).  An access that does not fit in   *)
(* the memory reads 0 or writes nothing; the message it prints is left     *)
(* out.                                                                    *)
(***************************************************************************)
EXTENDS ProcessorTypes

CONSTANTS BYTE, MEMORY_SIZE

ASSUME MemoryAssumption == BYTE \in Nat \ {0} /\ MEMORY_SIZE \in Nat

MemAddr == 0 .. MEMORY_SIZE - 1
Memory  == [MemAddr -> 0 .. BYTE - 1]

\* Mutant: the last place of each size is rejected.
OutOfBoundsEarly(addr, size) == addr >= MEMORY_SIZE - size

\* The access is rejected.  The code tests addr >= MEMORY_SIZE - (size - 1).
OutOfBounds(addr, size) == addr >= MEMORY_SIZE - (size - 1)

\* read_data(addr, size), for the sizes 1, 2 and 4 of the callers
ReadData(m, addr, size) ==
  IF OutOfBounds(addr, size) THEN 0
  ELSE CASE size = 1 -> m[addr] % WORD
         [] size = 2 -> (m[addr] + BYTE * m[addr + 1]) % WORD
         [] OTHER    -> (m[addr] + BYTE * (m[addr + 1] + BYTE *
                          (m[addr + 2] + BYTE * m[addr + 3]))) % WORD

\* read_instruction(addr)
Instruction == 0 .. BYTE * BYTE * BYTE * BYTE - 1

\* Mutant: the bound is that of a single byte more.
ReadInstructionShort(m, addr) ==
  IF addr >= MEMORY_SIZE - 4 THEN 0
  ELSE m[addr] + BYTE * (m[addr + 1] + BYTE * (m[addr + 2] + BYTE * m[addr + 3]))

ReadInstruction(m, addr) ==
  IF addr >= MEMORY_SIZE - 3 THEN 0
  ELSE m[addr] + BYTE * (m[addr + 1] + BYTE * (m[addr + 2] + BYTE * m[addr + 3]))

\* Byte k of a value: (data >> (k * 8)) & 0xFF
ByteOf(data, k) ==
  CASE k = 0 -> data % BYTE
    [] k = 1 -> (data \div BYTE) % BYTE
    [] k = 2 -> ((data \div BYTE) \div BYTE) % BYTE
    [] OTHER -> (((data \div BYTE) \div BYTE) \div BYTE) % BYTE

\* write_data(addr, data, size)
WriteData(m, addr, data, size) ==
  IF OutOfBounds(addr, size) THEN m
  ELSE [a \in MemAddr |-> IF a \in addr .. addr + size - 1
                          THEN ByteOf(data, a - addr) ELSE m[a]]

\* The size a memory instruction's funct3 asks for, as execute_mem_op and
\* commit_proc decode it: everything but a byte or a halfword is a word.
LoadSize(funct3) ==
  IF funct3 \in {LB, LBU} THEN 1 ELSE IF funct3 \in {LH, LHU} THEN 2 ELSE 4

StoreSize(funct3) ==
  IF funct3 = SB THEN 1 ELSE IF funct3 = SH THEN 2 ELSE 4

\* Mutant: the halfword is not sign-extended.
LoadedValueUnsigned(m, addr, funct3) ==
  LET data == ReadData(m, addr, LoadSize(funct3))
      Signed(weight) == IF 2 * data >= weight THEN (data - weight) % WORD ELSE data
  IN  CASE funct3 = LB -> Signed(BYTE)
        [] funct3 = LW -> Signed(BYTE * BYTE * BYTE * BYTE)
        [] OTHER       -> data

\* The value a load puts in its register: LB, LH and LW sign-extend, which
\* is to subtract the weight of the bit above the sign bit, modulo WORD.
LoadedValue(m, addr, funct3) ==
  LET data == ReadData(m, addr, LoadSize(funct3))
      Signed(weight) == IF 2 * data >= weight THEN (data - weight) % WORD ELSE data
  IN  CASE funct3 = LB -> Signed(BYTE)
        [] funct3 = LH -> Signed(BYTE * BYTE)
        [] funct3 = LW -> Signed(BYTE * BYTE * BYTE * BYTE)
        [] OTHER       -> data

=============================================================================
