CONSTANTS
  Devices = {d1, d2, d3, d4, d5}
  Parallelisms = {1, 2, 3}
  None = None
SPECIFICATION FairSpec
CHECK_DEADLOCK FALSE
INVARIANTS PoolCap EachOnce SweepReady
PROPERTY Returns
