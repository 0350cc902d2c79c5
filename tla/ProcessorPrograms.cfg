CONSTANTS
  WORD = 64
  XLEN = 6
  WordXor <- BitXor
  WordOr <- BitOr
  WordAnd <- BitAnd
  BYTE = 2
  NREGS = 3
  MEMORY_SIZE = 44
  ROB_SIZE = 2
  MaxTag = 2
  RS_SIZE <- Stations111
  Packets <- MCPackets
  NoPacket = NoPacket
  NoResult = NoResult
  NoFetch = NoFetch
  Orders <- MCOrders
  FixedOrder = TRUE
  GarbageFunct3 <- WordOnly
  InitialMemories <- StraightLines
  ExecuteAluOp <- AluOp
  Fields <- MCFields
  BHT_SIZE = 2
  GHR_SIZE = 4
  HashXor <- BitXor
  PredictorTypes <- TwoBit
  RESET_EDGES = 1
  SIMULATION_EDGES = 9
SPECIFICATION ProcessorSpec
INVARIANTS KeepsPace
PROPERTIES RunsTheProgram
CHECK_DEADLOCK FALSE
