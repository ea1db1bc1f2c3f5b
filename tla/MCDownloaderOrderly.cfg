CONSTANTS
  reactor = reactor
  tracker = tracker
  Clients <- MCClients
  ReceiveLoop = ReceiveLoop
  Capacity = 1
  Outgoing <- MCOutgoing
  Incoming <- MCIncoming
  MaxStarts = 1
  FileSize = 5
  PieceSize = 3
  PieceCount = 2
  MaxBlockBytes = 2
  MaxConcurrent = 2
  SecondCopies = FALSE
  MaxCalls = 2
  MaxChokes = 1
  MaxBad = 1
SPECIFICATION FairSpec
INVARIANTS
  TypeOK
  NoBlockForgotten
  ActiveIsUnderway
  CompleteIsWhole
PROPERTIES
  PeerSpec
  ImplementsPieceWork
  PieceArrives
CHECK_DEADLOCK FALSE
