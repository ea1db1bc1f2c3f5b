CONSTANTS
  IntBits = 5
  SizeBits = 5
  MaxDepth = 3
  Alphabet <- MCAlphabet
  Openings <- MCOpenings
  MaxTyped = 5
SPECIFICATION Spec
INVARIANTS
  ThrowHasACause
  EncodesAsRead
CHECK_DEADLOCK FALSE
