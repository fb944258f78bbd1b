CONSTANTS
  NodeID = {0, 1, 2}
  NetAddr = {0, 1, 2}
  None = None
  TARGET_PEER_COUNT = 3
  MAX_REQUEST_PINGS = 2
  RequestPingsInterval = 40
  AcceptWantPingInterval = 2
  Genesis <- Trio
  Positions <- InSpread
  Commands <- Raced
  GenInterval = 12
  GenSettle = 16
  TestInterval = 36
  MaxRounds = 90
  MaxJitter = 0
SPECIFICATION Spec
INVARIANTS TunnelAgreement
