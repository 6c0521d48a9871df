CONSTANTS
  Client = {a, b}
  N = 2
  Window = 1
  DropPercent = 0
  Lossy = {a}
  HasTimeout = {a}
  MaxTime = 0
  MaxRuns <- MCAgain
SPECIFICATION FairSpec
CHECK_DEADLOCK FALSE
INVARIANTS
  CompleteReport
PROPERTIES
  ClientEnds
  AllAnswered
