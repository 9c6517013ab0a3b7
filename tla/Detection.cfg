\* Two connections; trackers of two subjects out of three, of one target each.
SPECIFICATION MCSpec
CONSTANTS
  a = a
  b = b
  r1 = r1
  s1 = s1
  s2 = s2
  t1 = t1
  strict = strict
  lenient = lenient
  Connections = {a, b}
  Events <- MCEvents
  None = None
  FailedTypes = {"login.fail"}
  FailedOutcomes = {"failed"}
  WindowMs = 1
  MaxSubjects = 2
  MaxTargetsPerSubject = 1
  MaxClock = 3
  MaxLag = 1
  MaxWork = 3
  Configs = {strict, lenient}
  Default = strict
  Invalid = Invalid
  Missing = Missing
  NoMtime = NoMtime
  MaxEdits = 2
INVARIANTS
  TrackersBounded
  WindowsAreExact
  ReportedOnce
PROPERTIES
  PolicyConverges
CHECK_DEADLOCK FALSE
