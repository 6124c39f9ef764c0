\* Both kinds of lidar: enough capsules for a turn before a restart and one
\* after it, and arrays that two turns published as one do not fit.
CONSTANTS
  PerTurn = 2
  MaxScan = 3
  Batch = 2
  Room = 2
  MaxNode = 5
  MaxCapsule = 10
  MaxLost = 1
SPECIFICATION FairSpec
INVARIANTS TypeOK NoScanMissed OneStart WholeUnlessLost
PROPERTIES NeverTwice ReaderGoesOn ImplementsSlot
CHECK_DEADLOCK FALSE
