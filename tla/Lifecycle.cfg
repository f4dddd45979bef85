SPECIFICATION Spec
CONSTANTS
  MaxCrashes = 1
  MaxDrops = 1
  MaxStops = 2
CHECK_DEADLOCK FALSE
INVARIANTS
  EndedIsTrue
  NobodyAlone
  NoOrphan
PROPERTY EndStays
