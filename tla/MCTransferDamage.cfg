\* A careful application, and a medium that cuts and alters one cell.
CONSTANTS
  narrow = narrow
  wide = wide
  bad = bad
  x = x
  spoilt = spoilt
  StreamIds <- MCStreamIds
  Layouts <- MCLayouts
  ValidLayouts <- MCValidLayouts
  StreamKind <- MCStreamKind
  RowCells <- MCRowCells
  Values <- MCValues
  Clean <- MCClean
  IndexMax = 6
  SequenceMod = 3
  SchemaCalls <- CarefulSchemas
  DataCalls <- CarefulDatas
  TextCalls <- CarefulTexts
  BlobCalls <- CarefulBlobs
  NoteCalls <- CarefulNotes
  PrivateCalls <- CarefulPrivates
  IndexTrailers = {TRUE, FALSE}
  StrayEntries = {}
  HaveZstd = TRUE
  Careful = TRUE
  StopsOnError = TRUE
  MemoryFails = TRUE
  MaxCells = 6
  SizeBits = 8
  InitialCapacity = 3
  MaxPayload = 4
  MaxExcess = 0
  MaxDecoded = 3
  MaxUtf8 = 2
  MaxRecords = 3
  ReaderHasZstd = FALSE
  FixedBytes <- MCFixedBytes
  MaxDamage = 1
  WrongSizes = {0, 2, 5}

SPECIFICATION TransferSpec
INVARIANTS DeliveredIsPrefix BlameIsJust CutLosesOnlyTail

\* The application may stop at any point: after an error, or at the bound.
CHECK_DEADLOCK FALSE
