CONSTANTS
  Client = {a, b}
  N = 2
  Window = 2
  DropPercent = 30
  Lossy = {}
  HasTimeout = {}
  MaxTime = 2
  MaxRuns <- MCOnce
SPECIFICATION Spec
CHECK_DEADLOCK FALSE
SYMMETRY Symmetry
PROPERTIES
  Remembers
