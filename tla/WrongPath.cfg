CONSTANTS
  WORD = 32
  XLEN = 5
  WordXor <- BitXor
  WordOr <- BitOr
  WordAnd <- BitAnd
  BYTE = 2
  NREGS = 3
  MEMORY_SIZE = 32
  ROB_SIZE = 2
  MaxTag = 2
  RS_SIZE <- Stations111
  Packets <- MCPackets
  NoPacket = NoPacket
  NoResult = NoResult
  NoFetch = NoFetch
  Orders <- FewOrders
  FixedOrder = TRUE
  GarbageFunct3 <- WordOnly
  InitialMemories <- JumpOverOne
  ExecuteAluOp <- AluOp
  Fields <- MCFields
  BHT_SIZE = 2
  GHR_SIZE = 4
  HashXor <- BitXor
  PredictorTypes <- TwoBit
  RESET_EDGES = 1
  SIMULATION_EDGES = 9
SPECIFICATION ProcessorSpec
PROPERTIES RunsTheProgram
CHECK_DEADLOCK FALSE
