SPECIFICATION Spec
CONSTANTS
  Texts <- MCTexts
  Keys <- MCKeys
  Blocks <- MCBlocks
  Rounds = 8
  Delta = 31161
  ByteXor <- MCXor
INVARIANTS
  TextComesBack
  FitsBuffers
CHECK_DEADLOCK FALSE
