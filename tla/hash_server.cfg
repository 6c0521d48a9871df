CONSTANTS
  c1 = c1
  c2 = c2
  c3 = c3
  Client = {c1, c2, c3}
  hashnum <- MChashnum
  Size <- MCSize
  File <- MCFile
  Salt <- MCSalt
  Behind <- MCBehind
  SaltBytes = 2
  Chunk = 2
  Backlog = 1
  Room = 3
  Mortal = {c1, c2}
  None = None
SPECIFICATION FairSpec
INVARIANTS
  NoMutualWait
  OnlyKillsHurt
PROPERTIES
  Answers
  Served
CHECK_DEADLOCK FALSE
