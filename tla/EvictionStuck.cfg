\* What a crash left in quarantine and the open segment fill the quota; no I/O error.
SPECIFICATION EvictionSpec
CONSTANTS
  RecordSizes = {2}
  MaxSegmentBytes = 4
  QuotaLimit = 7
  NoSegment = NoSegment
  IoFaults = FALSE
  MaxRecords = 4
  MaxSegments = 5
  MaxBoots = 3
  HighWaterPct = 80
  LowWaterPct = 50
  MaxEvictionsPerTick = 2
PROPERTY CaptureResumes
CHECK_DEADLOCK FALSE
