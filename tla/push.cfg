CONSTANTS
  w1 = w1
  w2 = w2
  Rows = {r1, r2}
  Ips = {i1, i2}
  Macs = {m1, m2}
  Requests = {w1, w2}
  Tick = tick
  Mixes <- Loads
  Monitored = TRUE
  MaxEntry = 3
  MaxDisturb = 2
  Admin = admin
  None = none
SPECIFICATION Spec
SYMMETRY Symmetry
CHECK_DEADLOCK FALSE
INVARIANTS SyncedMacMatches   
