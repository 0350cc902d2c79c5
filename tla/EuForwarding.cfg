CONSTANTS
  WORD = 16
  XLEN = 4
  WordXor <- BitXor
  WordOr <- BitOr
  WordAnd <- BitAnd
  BYTE = 2
  NREGS = 3
  MEMORY_SIZE = 4
  ROB_SIZE = 3
  MaxTag = 3
  RS_SIZE <- Stations211
  Packets <- AluPackets
  NoPacket = NoPacket
  NoResult = NoResult
  Orders <- ForwardingOrders
  FixedOrder = FALSE
  GarbageFunct3 <- WordOnly
  InitialMemories <- ZeroedMemory
  ExecuteAluOp <- AluOp
SPECIFICATION Spec
INVARIANTS NoLostWakeup
PROPERTIES ExecutesSequentially EveryInstructionCommits
