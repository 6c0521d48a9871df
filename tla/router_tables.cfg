CONSTANTS
  Node = {1, 2, 3}
  Sets <- MCCut
  Byte = 3
  Wire = 10
  Wide = 18
  Limit = 6
  MaxQueue = 1
  Lossy = TRUE
SPECIFICATION Spec
INVARIANTS
  RoutesDescend
  UsesOwnLinks
