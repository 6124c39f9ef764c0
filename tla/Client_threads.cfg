\* A few keys and answers, in every order.  The process may end.
CONSTANTS
  MaxKeys = 4
  MaxAnswers = 3
SPECIFICATION FairSpec
INVARIANTS TypeOK MisusedOnlyAtEnd WatcherStaysConnected ShownAsRead
PROPERTIES MuteUntilAnswer ServerGoneEnds
CHECK_DEADLOCK FALSE
