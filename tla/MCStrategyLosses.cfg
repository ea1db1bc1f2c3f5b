CONSTANTS
  a1 = a1
  a2 = a2
  PieceCount = 2
  Addresses <- TwoAddresses
  MaxConnects = 2
  Bitfields <- SeedsOnly
  MaxLosses = 1
  MaxCorrupt = 1
  MaxFaults = 0
SYMMETRY EitherAddress
SPECIFICATION Spec
INVARIANTS
  MapsAgreeOnMissing
  AtMostTwo
  PoolMatchesConnections
  UndefinedHasACause
CHECK_DEADLOCK FALSE
