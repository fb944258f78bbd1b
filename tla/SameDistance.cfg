CONSTANTS
  NodeID = {0, 1, 2}
  NetAddr = {0, 1, 2}
  None = None
  TARGET_PEER_COUNT = 2
  MAX_REQUEST_PINGS = 2
  RequestPingsInterval = 4
  AcceptWantPingInterval = 2
  Genesis <- Trio
  Positions <- InEven
  Commands <- BothJoin
  GenInterval = 12
  GenSettle = 16
  TestInterval = 36
  MaxRounds = 40
  MaxJitter = 0
SPECIFICATION Spec
INVARIANTS TestedListed
