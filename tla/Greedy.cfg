CONSTANTS
  NodeID = {0, 1, 2, 3}
  NetAddr = {0, 1, 2, 3}
  None = None
  TARGET_PEER_COUNT = 2
  TIMEOUT = 3
  MaxTraversed = 1
  MaxHops = 9
  Distances <- EarlyUphill
  Position <- Scattered
SPECIFICATION Spec
INVARIANTS SampleHonest HopBound NotLostAtEnd
PROPERTIES TwoHopsNearer
