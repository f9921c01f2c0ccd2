CONSTANTS
  i1 = i1
  i2 = i2
  Ips = {i1, i2}
  Assets = {a1}
  Requests = {w1, w2}
  Mixes <- Loads
  MaxRows = 6
  MaxWrites = 2
  MaxCrash = 1
  None = none
SPECIFICATION FairSpec
CHECK_DEADLOCK FALSE
PROPERTIES  MarkerReturns StaleGoes
