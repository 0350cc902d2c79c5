CONSTANTS
  BHT_SIZE = 2
  GHR_BITS = 2
  GHR_SIZE = 4
  HashXor <- BitXor
  MaxCount = 2
  Types <- TableTypes
  PCs <- MCPCs
SPECIFICATION Spec
INVARIANTS BpTypeOK EntriesFollowOutcomes HistoryIsTheLastOutcomes
PROPERTIES EntriesAreSlowToTurn CountsHits
