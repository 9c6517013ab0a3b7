\* The default windows, 30, 10 and 15 s, in units of 10 s (15 rounded up).
SPECIFICATION GovSpec
CONSTANTS
  Percentages = {9, 12, 17, 100}
  Latencies = {1000, 1001, 2000, 5000}
  GoodNewsWindow = 3
  SustainedBreachWindow = 1
  ShimHeartbeatTimeout = 2
  MaxLag = 1
  Old = 4
  Never = Never
INVARIANTS
  SustainedBreachTrips
PROPERTIES
  RaisedLevelsLast
  CalmRestores
