CONSTANTS
  XLEN = 4
  WordXor <- BitXor
  WordOr <- BitOr
  WordAnd <- BitAnd
  WORD = 16
  NREGS = 2
  Packets <- MCPackets
  NoPacket = NoPacket
SPECIFICATION AluCalls
INVARIANTS AluComputesItsInstruction
