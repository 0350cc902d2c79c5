CONSTANTS
  WORD = 2
  NREGS = 2
  Packets <- MCPackets
  NoPacket = NoPacket
  ROB_SIZE = 3
  Funct3 <- MCFunct3
SPECIFICATION Spec
INVARIANTS RobTypeOK RobRingInv
PROPERTY ImplementsProgramOrder
