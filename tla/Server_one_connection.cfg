CONSTANTS
  Clients = {c1, c2}
  NoConn = NoConn
  MaxCommands = 2
  MaxAnswers = 2
SPECIFICATION Spec
INVARIANTS OneConnection
CHECK_DEADLOCK FALSE
