CONSTANTS
  MaxRows = 6
  SIZE_THRESHOLD = 2
  MaxAttempts = 4
  MaxLost = 1
SPECIFICATION FairSpec
CHECK_DEADLOCK FALSE
INVARIANTS InOrder ShutdownDrains
 
