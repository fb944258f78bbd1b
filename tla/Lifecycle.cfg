CONSTANTS
  NodeID = {0, 1, 2}
  NetAddr = {0, 1, 2}
  None = None
  TARGET_PEER_COUNT = 1
  MAX_REQUEST_PINGS = 1
  RequestPingsInterval = 4
  AcceptWantPingInterval = 2
  Genesis <- Pair
  Positions <- InSpread
  Commands <- Lifecycle
  GenInterval = 12
  GenSettle = 16
  TestInterval = 5
  MaxRounds = 36
  MaxJitter = 0
SPECIFICATION Spec
INVARIANTS SessionPairing IndexedSessionExists
PROPERTIES InternetPromise TunnelPromise
