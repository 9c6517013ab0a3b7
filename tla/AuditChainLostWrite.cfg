\* One failed write breaks the chain for good.
SPECIFICATION AuditSpec
CONSTANTS
  MaxRecordsPerSegment = 2
  WriteFaults = TRUE
  Redaction = FALSE
  MaxObserved = 5
  MaxOpens = 2
INVARIANT ChainIsVerifiable
CHECK_DEADLOCK FALSE
