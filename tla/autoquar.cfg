CONSTANTS
  Fgts = {g1, g2}
  Macs = {m1, m2}
  Slots = {w1}
  Mixes <- Rediscovery
  MaxFaults = 0
  None = none
SPECIFICATION FairSpec
CHECK_DEADLOCK FALSE
PROPERTY AutoExtends
