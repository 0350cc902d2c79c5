CONSTANTS
  WORD = 32
  XLEN = 5
  WordXor <- BitXor
  WordOr <- BitOr
  WordAnd <- BitAnd
  BYTE = 2
  NREGS = 3
  MEMORY_SIZE = 32
  ROB_SIZE = 2
  MaxTag = 2
  RS_SIZE <- Stations111
  Packets <- MCPackets
  NoPacket = NoPacket
  NoResult = NoResult
  NoFetch = NoFetch
  Orders <- FewOrders
  FixedOrder = TRUE
  GarbageFunct3 <- WordOnly
  InitialMemories <- Jumps
  ExecuteAluOp <- AluOp
  Fields <- MCFields
  BHT_SIZE = 2
  GHR_SIZE = 4
  HashXor <- BitXor
  PredictorTypes <- StaticOrDynamic
  RESET_EDGES = 1
  SIMULATION_EDGES = 16
PROPERTIES EveryTakenBranchRedirects ImplementsExecutionUnit FetchedTakesEffect
SPECIFICATION ProcessorSpec
INVARIANTS ProcessorTypeOK FetchedIsDecodedOrOnItsWay BreakdownsAgree PredictionsAreFetches EntriesMissOnce

CHECK_DEADLOCK FALSE
