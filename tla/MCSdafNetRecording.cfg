\* A .NET writer and a .NET reader of the file it is writing.
CONSTANTS
  narrow = narrow
  wide = wide
  bad = bad
  x = x
  spoilt = spoilt
  StreamIds <- MCStreamIds
  Layouts <- MCLayouts
  ValidLayouts <- MCValidLayouts
  StreamKind <- MCStreamKind
  RowCells <- MCRowCells
  Values <- MCValues
  Clean <- MCClean
  IndexMax = 6
  SequenceMod = 3
  SchemaCalls <- MCSchemaCalls
  DataCalls <- MCDataCalls
  TextCalls <- MCTextCalls
  BlobCalls <- MCBlobCalls
  NoteCalls <- MCNoteCalls
  PrivateCalls <- MCPrivateCalls
  StrayEntries = {}
  EmptyIndexes = FALSE
  WriterHasZstd = TRUE
  StreamFails = TRUE
  MaxStream = 5
  MaxPayloadSize = 4
  MaxDecodedSize = 3
  MaxUtf8Bytes = 0
  MaxHeaderExcess = 1
  ReaderFindsZstd = TRUE

SPECIFICATION NetRecordingSpec
INVARIANTS StreamedInPlace StreamedCounts StreamedIsLawful YieldedIsPrefix EndMissesNothing OwnOutputAccepted
PROPERTIES NetImplementsLog EnumerationEnds

\* The writer may have died and the reader may be closed.
CHECK_DEADLOCK FALSE
