\* A recorder and a reader racing for one file.
CONSTANTS
  narrow = narrow
  wide = wide
  bad = bad
  x = x
  spoilt = spoilt
  StreamIds <- MCStreamIds
  Layouts <- MCLayouts
  ValidLayouts <- MCValidLayouts
  StreamKind <- MCStreamKind
  RowCells <- MCRowCells
  Values <- MCValues
  Clean <- MCClean
  IndexMax = 6
  SequenceMod = 3
  SchemaCalls <- MCSchemaCalls
  DataCalls <- MCDataCalls
  TextCalls = {}
  BlobCalls = {}
  NoteCalls <- MCNoteCalls
  PrivateCalls = {}
  IndexTrailers = {}
  StrayEntries = {}
  HaveZstd = TRUE
  Careful = TRUE
  StopsOnError = FALSE
  MemoryFails = TRUE
  MaxCells = 4
  SizeBits = 8
  InitialCapacity = 3
  MaxPayload = 4
  MaxExcess = 1
  MaxDecoded = 3
  MaxUtf8 = 2
  MaxRecords = 5
  ReaderHasZstd = TRUE
  FixedBytes <- MCFixedBytes

SPECIFICATION RecordingSpec
INVARIANTS BytesAreBeginnings DeliveredIsPrefix MeasuredIsDelivered RaceIsNotDamage
PROPERTY ReadEnds

\* The application may stop at any point: after an error, or at the bound.
CHECK_DEADLOCK FALSE
