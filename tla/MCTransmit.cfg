CONSTANTS
  Messages <- MCMessages
  Frames <- MCFrames
  Handshakes <- MCHandshakes
  FreedBytes = {0, 9}
  MaxSent = 2
SPECIFICATION Spec
PROPERTIES
  ImplementsMessageStream
  ReadsToTheEnd
CHECK_DEADLOCK FALSE
