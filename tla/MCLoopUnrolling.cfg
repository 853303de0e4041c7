SPECIFICATION Spec
CONSTANTS
  NoMetadata = NoMetadata
  Counts <- MCCounts
  MaxLoops = 1
INVARIANT TripCountFirst
CHECK_DEADLOCK FALSE
