CONSTANTS
  PacketSize = 5
  MagicSize = 2
  SizeSize = 1
  MaxChunk = 6
  MaxLoss = 6
  MaxSent = 20
SPECIFICATION Spec
INVARIANTS NothingWithheld SizeMisreadOnlyByLoss
PROPERTIES LockedOutUntilRealigned
CHECK_DEADLOCK FALSE
