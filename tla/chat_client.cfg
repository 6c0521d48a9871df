CONSTANTS
  Room = {r1, r2}
  NoRoom = NoRoom
  Period = 2
  MaxQueue = 2
SPECIFICATION FairSpec
INVARIANTS
  AlwaysOwed
  OwnAnswer
  RoomAgrees
  NeverSilent
  WholePeriod
PROPERTIES
  ReadsEnd
CHECK_DEADLOCK FALSE
