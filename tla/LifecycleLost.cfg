\* A sweep writes a stale copy over an event just applied.
SPECIFICATION LifecycleSpec
CONSTANTS
  c1 = c1
  c2 = c2
  p1 = p1
  s1 = s1
  r1 = r1
  k1 = k1
  k2 = k2
  t1 = t1
  t2 = t2
  None = None
  Events <- Flow
  EventType <- MCType
  Tenant <- MCTenant
  Resource <- MCResource
  Operation <- MCOperation
  BusinessId <- MCBusinessId
  Parent <- MCParent
  Staleness = 1
  StoreFaults = FALSE
  ReadFaults = FALSE
  MaxDeliveries <- Once
  LastArrival = 1
  MaxClock = 2
  MaxCrashes = 0
INVARIANT EventsAreKept
CHECK_DEADLOCK FALSE
