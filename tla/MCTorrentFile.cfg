CONSTANTS
  TorrentFiles <- MCTorrentFiles
  Word32 = 16
  Word64 = 64
  max_block_bytes = 4
SPECIFICATION Spec
INVARIANTS
  AgreedIsWhole
  WrongEndHasACause
CHECK_DEADLOCK FALSE
