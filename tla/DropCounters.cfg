\* Two connections, both takers.
SPECIFICATION DropSpec
CONSTANTS
  Connections = {a, b}
  FrameBytes = 2
  MaxDrops = 3
  MaxChanges = 4
  MaxClock = 2
INVARIANTS
  DropsConserved
  ShutdownDrains
PROPERTIES
  KnownDropsAreTaken
CHECK_DEADLOCK FALSE
