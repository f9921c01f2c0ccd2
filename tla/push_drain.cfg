CONSTANTS
  w1 = w1
  w2 = w2
  Rows = {r1, r2}
  Ips = {i1}
  Macs = {m1, m2}
  Requests = {w1}
  Tick = tick
  Mixes <- Retries
  Monitored = TRUE
  MaxEntry = 4
  MaxDisturb = 2
  Admin = admin
  None = none
SPECIFICATION FairSpec
CHECK_DEADLOCK FALSE
INVARIANTS OneRowPerStatus SyncedOnDevice
PROPERTY QueueDrains
