CONSTANTS
  Node = {1, 3, 6}
  Creator = 3
  R = 1
  M = 2
  FingerStart <- MCTwoFingers
  Key <- MCKeys
  Timers <- MCRepair
  MaxKills = 0
SPECIFICATION MCFirstAnswer
INVARIANTS
  OneRing
  RingOrdered
  LookupNeverSkips
  NoLookupLoop
PROPERTIES
  LookupsAtomic
CHECK_DEADLOCK FALSE
