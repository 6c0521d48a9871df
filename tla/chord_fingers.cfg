CONSTANTS
  Node = {2, 7}
  Creator = 7
  R = 2
  M <- MCTwoDigits
  FingerStart <- MCTwoDigitStart
  Key <- MCNoKeys
  Timers <- MCAllTimers
  MaxKills = 1
SPECIFICATION FairSpec
CHECK_DEADLOCK FALSE
PROPERTIES
  FingersConverge
  RetryEnds
  CallEndsOrCycle
INVARIANTS
  FingerStartsNear
