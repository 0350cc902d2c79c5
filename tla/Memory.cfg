CONSTANTS
  WORD = 32
  NREGS = 1
  BYTE = 2
  MEMORY_SIZE = 6
  Packets <- NoPackets
  NoPacket = NoPacket
  Addresses <- MCAddresses
  Stored <- MCStored
SPECIFICATION Spec
INVARIANTS StoresAreExact LoadsExtend FetchSeesTheMemory
