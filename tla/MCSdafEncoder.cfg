\* The encoder on its own, called carelessly, with every call it has.
CONSTANTS
  narrow = narrow
  wide = wide
  bad = bad
  x = x
  spoilt = spoilt
  StreamIds <- MCStreamIds
  Layouts <- MCLayouts
  ValidLayouts <- MCValidLayouts
  StreamKind <- MCStreamKind
  RowCells <- MCRowCells
  Values <- MCValues
  Clean <- MCClean
  IndexMax = 6
  SequenceMod = 2
  SchemaCalls <- MCSchemaCalls
  DataCalls <- MCDataCalls
  TextCalls <- MCTextCalls
  BlobCalls <- MCBlobCalls
  NoteCalls <- MCNoteCalls
  PrivateCalls <- MCPrivateCalls
  IndexTrailers = {TRUE, FALSE}
  StrayEntries <- MCStrayEntries
  HaveZstd = FALSE
  Careful = FALSE
  StopsOnError = FALSE
  MemoryFails = TRUE
  MaxCells = 5
  SizeBits = 3
  InitialCapacity = 2

SPECIFICATION EncoderSpec
INVARIANTS EncoderTypeOK RecordsInPlace CapacityHolds TornIsRecorded CountsAreTrue
