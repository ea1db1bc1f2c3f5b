CONSTANTS
  a1 = a1
  a2 = a2
  PieceCount = 3
  Addresses <- OneAddress
  MaxConnects = 2
  Bitfields <- PartThenAll
  MaxLosses = 1
  MaxCorrupt = 0
  MaxFaults = 0
SPECIFICATION FairSpec
PROPERTIES
  DownloadFinishes
  EndedIsRevoked
CHECK_DEADLOCK FALSE
