------------------------------ MODULE MCMemory -------------------------------
(***************************************************************************)
(* The instance of MemorySpec: six bytes of one bit each, so that a word   *)
(* of the memory is half as wide as a register.                            *)
(***************************************************************************)
EXTENDS MemorySpec

NoPackets == {}
MCAddresses == 0 .. 7 \union {WORD - 3, WORD - 2, WORD - 1}
MCStored == {0, 5, 10, WORD - 1}

ASSUME MemoryInstance == RegistersHoldWords

=============================================================================
