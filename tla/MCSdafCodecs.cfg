\* One record through both codecs.
SPECIFICATION CodecsSpec
CONSTANTS
  HalfWord = 8
  ByteBits = 2
  ShuffleBlock = 2
  FloatBits = {2, 4}
  Headers <- MCHeaders
  Blocks <- MCBlocks
  Areas <- MCAreas
INVARIANTS
  TransformsAreUndone
  ReadersAgree
  StorageIsInvisible
  TimesAreExact
  FractionIsKept
CHECK_DEADLOCK FALSE
