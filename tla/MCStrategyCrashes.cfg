CONSTANTS
  a1 = a1
  a2 = a2
  PieceCount = 2
  Addresses <- TwoAddresses
  MaxConnects = 1
  Bitfields <- SeedsOnly
  MaxLosses = 0
  MaxCorrupt = 1
  MaxFaults = 2
SYMMETRY EitherAddress
SPECIFICATION Spec
INVARIANTS
  TypeOK
  MissingMatchesVault
  MergeReadsWholeFiles
PROPERTIES
  ImplementsDownload
  UsesPieceWork
CHECK_DEADLOCK FALSE
