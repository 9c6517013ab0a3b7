\* The log under its eviction driver: appends, I/O errors, evictions, crashes and reopens.
SPECIFICATION EvictionSpec
CONSTANTS
  RecordSizes = {1, 2}
  MaxSegmentBytes = 3
  QuotaLimit = 5
  NoSegment = NoSegment
  IoFaults = TRUE
  MaxRecords = 4
  MaxSegments = 4
  MaxBoots = 3
  HighWaterPct = 80
  LowWaterPct = 50
  MaxEvictionsPerTick = 2
INVARIANTS
  AccountingExact
  QuotaRespected
  AcknowledgedIsKept
  ReceiptsNameRecords
PROPERTIES
  ImplementsLedger
  EvictsUnderPressure
  PressureIsRelieved
CHECK_DEADLOCK FALSE
