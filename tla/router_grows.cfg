CONSTANTS
  Node = {1, 2, 3}
  Sets <- MCGrows
  Byte = 8
  Wire = 32
  Wide = 64
  Limit = 20
  MaxQueue = 1
  Lossy = FALSE
SPECIFICATION FairSpec
PROPERTIES
  Converges
