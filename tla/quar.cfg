CONSTANTS
  Fgts = {g1, g2}
  Macs = {m1, m2}
  Slots = {w1}
  Mixes <- Loads
  MaxFaults = 2
  None = none
SPECIFICATION Spec
SYMMETRY Symmetry
CHECK_DEADLOCK FALSE
INVARIANTS SyncedHeld 
