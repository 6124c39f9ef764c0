CONSTANTS
  PacketSize = 5
  MagicSize = 2
  SizeSize = 1
  MaxChunk = 5
  MaxLoss = 0
  MaxSent = 25
SPECIFICATION FairSpec
INVARIANTS TypeOK
PROPERTIES ImplementsFraming
CHECK_DEADLOCK FALSE
