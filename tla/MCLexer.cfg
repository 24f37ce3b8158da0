SPECIFICATION FairSpec
CONSTANTS
  Letters = {"a", "b", "d", "e", "f", "h", "i", "l", "m", "n", "o", "r", "s", "t", "u", "v", "w"}
  Digits = {"1", "2"}
  Buffers <- MCBuffers
INVARIANT TypeOK
PROPERTIES
  CutsIntoTokens
  Termination
CHECK_DEADLOCK FALSE
