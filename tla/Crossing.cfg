CONSTANTS
  NodeID = {0, 1}
  NetAddr = {0, 1}
  None = None
  TARGET_PEER_COUNT = 1
  MAX_REQUEST_PINGS = 1
  RequestPingsInterval = 4
  AcceptWantPingInterval = 2
  Genesis <- Pair
  Positions <- InSpread
  Commands <- Crossing
  GenInterval = 12
  GenSettle = 16
  TestInterval = 36
  MaxRounds = 28
  MaxJitter = 2
SPECIFICATION Spec
INVARIANTS SessionPairing AddressCorrect
PROPERTIES CoordNeverForgotten InternetPromise TunnelPromise
