CONSTANTS
  Commands <- MCHalfSpeed
  MilliPerTick = 500
  MilliPerDeg = 2193
  Byte = 256
  MaxTicks = 4
  MaxCommands = 2
SPECIFICATION FairSpec
PROPERTIES BoundedMoveStops
