\* Commands read the segments while the daemon closes, loses, redacts and resumes them.
SPECIFICATION VerifySpec
CONSTANTS
  MaxRecordsPerSegment = 2
  WriteFaults = TRUE
  Redaction = TRUE
  MaxObserved = 6
  MaxOpens = 3
  MaxCommands = 1
INVARIANTS
  IntactIsVerifiable
  VerifiedIsComplete
  FailIsRight
  PassIsRight
PROPERTIES
  SegmentsAreFinal
  ImplementsTrail
CHECK_DEADLOCK FALSE
