CONSTANTS
  HourLen = 2
  DayHours = 3
  DailyAt = 3
  Late = 1
  Retentions <- Settings
  Assets <- Kinds
  ChunkLen = 3
  MaxTime = 15
  MaxSamples = 3
SPECIFICATION Spec
CHECK_DEADLOCK FALSE
INVARIANTS NoDoubleCount  
