CONSTANTS
  Node = {3, 6}
  Creator = 3
  R = 1
  M <- MCM
  FingerStart <- MCFingerStart
  Key <- MCNoKeys
  Timers <- MCStabilize
  MaxKills = 0
SPECIFICATION FairSpec
PROPERTIES
  CallsTimeOut
CHECK_DEADLOCK FALSE
