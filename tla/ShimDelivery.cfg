\* Two requests of up to three events, a buffer of two, one failure per file.
SPECIFICATION DeliverySpec
CONSTANTS
  p = p
  q = q
  Requests <- MCRequests
  NoRequest = NoRequest
  MaxFrames = 2
  MaxBytes = 2
  Size <- MCSize
  MaxObserved = 3
  MaxBoots = 2
  MaxTroubles = 1
INVARIANTS
  NothingVanishes
  NeverBoth
  IngestedOnce
PROPERTIES
  SpoolDrains
  ImplementsChannel
CHECK_DEADLOCK FALSE
