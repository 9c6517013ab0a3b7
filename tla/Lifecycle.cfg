\* Applies, sweeps, duplicates, crashes, and reads and writes SQLite fails.
SPECIFICATION LifecycleSpec
CONSTANTS
  c1 = c1
  c2 = c2
  p1 = p1
  s1 = s1
  r1 = r1
  k1 = k1
  k2 = k2
  t1 = t1
  t2 = t2
  None = None
  Events <- Trio
  EventType <- MCType
  Tenant <- MCTenant
  Resource <- MCResource
  Operation <- MCOperation
  BusinessId <- MCBusinessId
  Parent <- MCParent
  Staleness = 1
  StoreFaults = TRUE
  ReadFaults = TRUE
  MaxDeliveries <- Twice
  LastArrival = 1
  MaxClock = 2
  MaxCrashes = 1
INVARIANTS
  KeptUntilTrouble
  BoundUntilTrouble
  StoresAgree
PROPERTIES
  ClosedIsFinal
  NoRowVanishes
  NothingStaysOpen
CHECK_DEADLOCK FALSE
