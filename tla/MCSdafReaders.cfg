\* Both readers on the same bytes, cut off and with one cell altered.
CONSTANTS
  narrow = narrow
  wide = wide
  bad = bad
  x = x
  spoilt = spoilt
  StreamIds <- MCStreamIds
  Layouts <- MCLayouts
  ValidLayouts <- MCValidLayouts
  StreamKind <- MCStreamKind
  RowCells <- MCRowCells
  Values <- MCValues
  Clean <- MCClean
  IndexMax = 6
  SequenceMod = 3
  SchemaCalls <- MCSchemaCalls
  DataCalls <- MCDataCalls
  TextCalls <- MCTextCalls
  BlobCalls <- MCBlobCalls
  NoteCalls <- MCNoteCalls
  PrivateCalls <- MCPrivateCalls
  IndexTrailers = {FALSE}
  StrayEntries <- MCStrayEntries
  HaveZstd = TRUE
  Careful = FALSE
  StopsOnError = FALSE
  MemoryFails = FALSE
  MaxCells = 5
  SizeBits = 8
  InitialCapacity = 3
  MaxPayload = 4
  MaxExcess = 1
  MaxDecoded = 3
  MaxUtf8 = 2
  MaxRecords = 9
  ReaderHasZstd = TRUE
  FixedBytes <- MCFixedBytes
  MaxDamage = 1
  WrongSizes = {0, 2, 5}
  MaxPayloadSize = 4
  MaxDecodedSize = 3
  MaxUtf8Bytes = 2
  MaxHeaderExcess = 1
  ReaderFindsZstd = TRUE

SPECIFICATION ReadersSpec
INVARIANTS SameRecords SameVerdict
INVARIANTS SchemasAgree ItemsIncrease EntriesPointBack DecodedByEarlierSchema
PROPERTY ImplementsLog

\* The application may stop at any point: after an error, or at the bound.
CHECK_DEADLOCK FALSE
