CONSTANTS
  a1 = a1
  a2 = a2
  PieceCount = 3
  Addresses <- TwoAddresses
  MaxConnects = 1
  Bitfields <- SeedsOnly
  MaxLosses = 0
  MaxCorrupt = 0
  MaxFaults = 0
SYMMETRY EitherAddress
SPECIFICATION Spec
INVARIANTS
  NeverClogged
CHECK_DEADLOCK FALSE
