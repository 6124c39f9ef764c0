CONSTANTS
  Clients = {c1, c2}
  NoConn = NoConn
  MaxCommands = 2
  MaxAnswers = 2
SPECIFICATION FairSpec
INVARIANTS TypeOK TlsConnLive MisusedOnlyIfGone NetworkFallsOnlyByEnd DiesOnlyByEnd
PROPERTIES DownIsForGood ClosedIsFreed QueuedIsAccepted
CHECK_DEADLOCK FALSE
