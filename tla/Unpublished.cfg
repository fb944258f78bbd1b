CONSTANTS
  NodeID = {0, 1, 2, 3}
  NetAddr = {0, 1, 2, 3}
  None = None
  TARGET_PEER_COUNT = 2
  MAX_REQUEST_PINGS = 1
  RequestPingsInterval = 40
  AcceptWantPingInterval = 2
  Genesis <- Four
  Positions <- InUneven
  Commands <- LateJoin
  GenInterval = 12
  GenSettle = 16
  TestInterval = 36
  MaxRounds = 170
  MaxJitter = 0
SPECIFICATION Spec
INVARIANTS PublishedWhenFull
