CONSTANTS
  c1 = c1
  c2 = c2
  Clients <- MCClients
  ReceiveLoop = ReceiveLoop
  Capacity = 2
  Outgoing <- MCOutgoing
  Incoming <- MCIncoming
  MaxStarts = 2
SPECIFICATION PeerFairSpec
INVARIANTS
  InactiveMeansStopped
  StopIsHeard
  SentinelNeverWritten
PROPERTIES
  ThrownIsFinal
  StopCompletes
  DeadLinkReleasesClients
CHECK_DEADLOCK FALSE
