CONSTANTS
  reactor = reactor
  tracker = tracker
  Clients <- MCClients
  ReceiveLoop = ReceiveLoop
  Capacity = 1
  Outgoing <- MCOutgoing
  Incoming <- MCIncoming
  MaxStarts = 1
  FileSize = 5
  PieceSize = 5
  PieceCount = 1
  MaxBlockBytes = 2
  MaxConcurrent = 1
  SecondCopies = TRUE
  MaxCalls = 3
  MaxChokes = 1
  MaxBad = 1
SPECIFICATION Spec
INVARIANTS
  LeakOnlyForStoredPieces
  StuckOnlyByOvershoot
  OnlyRepeatsFillGaps
CHECK_DEADLOCK FALSE
