CONSTANTS
  Indices = {0, 5, 7, 8, 15, 25}
  MaxBytes = 2
  Bytes <- MCBytes
SPECIFICATION Spec
PROPERTIES
  ImplementsPieceSet
CHECK_DEADLOCK FALSE
