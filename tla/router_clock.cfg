CONSTANTS
  Timings <- MCAnyTimings
  NSets = 3
  MaxTurn = 1
  MaxTime = 30
SPECIFICATION Spec
INVARIANTS
  NoSetLost
PROPERTIES
  SendingKeepsPace
