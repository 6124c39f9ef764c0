\* The proportions of the code (140, 63, 65, 76 bytes), a twelfth of the size.
CONSTANTS
  PacketSize = 12
  RxSize = 5
  TxSize = 5
  ColorTime = 6
  MaxBoot = 6
  MaxCommands = 2
SPECIFICATION FairSpec
INVARIANTS TypeOK NoLossIfTrusted SleepsOnOneByte
PROPERTIES AnsweredUnlessStranded ImplementsDialogue
CHECK_DEADLOCK FALSE
