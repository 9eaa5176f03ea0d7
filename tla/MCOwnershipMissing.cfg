SPECIFICATION OwnershipSpec
CONSTANTS
  TransformCounts = {0, 1, 2}
  ObjectCounts = {2}
  TlvCounts = {0, 1}
  EntryCounts = {1}
  SampleCounts = {0, 2}
  LaneCounts = {2}
  MaxRecords = 2
INVARIANTS
  DecodeReturns
CHECK_DEADLOCK FALSE
