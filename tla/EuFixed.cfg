CONSTANTS
  WORD = 16
  XLEN = 4
  WordXor <- BitXor
  WordOr <- BitOr
  WordAnd <- BitAnd
  BYTE = 2
  NREGS = 3
  MEMORY_SIZE = 4
  ROB_SIZE = 2
  MaxTag = 2
  RS_SIZE <- Stations111
  Packets <- AllPackets
  NoPacket = NoPacket
  NoResult = NoResult
  Orders <- AllOrders
  FixedOrder = TRUE
  GarbageFunct3 <- NarrowOrWide
  InitialMemories <- ZeroedMemory
  ExecuteAluOp <- AluOp
SPECIFICATION Spec
PROPERTIES NothingDropped ExecutesSequentially EveryInstructionCommits
