CONSTANTS
  NodeID = {0, 1, 2, 3}
  NetAddr = {0, 1, 2, 3}
  None = None
  TARGET_PEER_COUNT = 4
  MAX_REQUEST_PINGS = 2
  RequestPingsInterval = 40
  AcceptWantPingInterval = 2
  Genesis <- Four
  Positions <- InStar
  Commands <- ManyJoin
  GenInterval = 12
  GenSettle = 16
  TestInterval = 36
  MaxRounds = 110
  MaxJitter = 0
SPECIFICATION FairSpec
INVARIANTS OutgoingIsPeer Orderly
PROPERTIES BootstrapJoins Introduced
