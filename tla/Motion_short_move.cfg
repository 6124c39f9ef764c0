CONSTANTS
  Commands <- MCCommands
  MilliPerTick = 500
  MilliPerDeg = 2193
  Byte = 2
  MaxTicks = 4
  MaxCommands = 3
SPECIFICATION Spec
PROPERTIES OnlyZeroRunsForEver
