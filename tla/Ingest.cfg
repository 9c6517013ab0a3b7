\* Refusals, failed writes, crashes, power failures, safe mode, shutdowns.
SPECIFICATION IngestSpec
CONSTANTS
  a = a
  b = b
  evaluation = evaluation
  event = event
  forged = forged
  query = query
  Connections = {a, b}
  Frames = {evaluation, event, forged, query}
  Queries = {query}
  Evaluations = {evaluation}
  Body <- MCBody
  NoFrame = NoFrame
  NoRecord = NoRecord
  MaxRecordsPerSegment = 2
  MaxSent = 2
  MaxBoots = 2
SYMMETRY Clients
INVARIANTS
  EvidenceBacksCommitments
  CommitmentsKeepUp
  AnsweredIsRecorded
  DropsAreReported
  EvidenceIsGenuine
PROPERTIES
  LittleIsLost
CHECK_DEADLOCK FALSE
