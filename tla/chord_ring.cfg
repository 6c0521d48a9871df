CONSTANTS
  Node = {1, 3, 6}
  Creator = 3
  R = 2
  M <- MCM
  FingerStart <- MCFingerStart
  Key <- MCNoKeys
  Timers <- MCStabilize
  MaxKills = 1
SPECIFICATION FairSpec
CHECK_DEADLOCK FALSE
INVARIANTS
  TypeOK
  CallDiscipline
  NoSelfCall
  OnlyCyclesBlock
  NoSpontaneousFailure
  PredecessorIsAnother
  PredecessorLeadsOn
PROPERTIES
  SuccessorOnlyCloser
  RingConverges
  DeadSuccessorDropped
