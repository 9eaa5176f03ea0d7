\* Values of aligned fields in the C reader.
SPECIFICATION CodecsSpec
CONSTANTS
  HalfWord = 8
  ByteBits = 2
  ShuffleBlock = 2
  FloatBits = {2, 4}
  Headers <- MCHeaders
  Blocks <- MCBlocks
  Areas <- MCAreas
INVARIANT ValuesFitLogicalBits
CHECK_DEADLOCK FALSE
