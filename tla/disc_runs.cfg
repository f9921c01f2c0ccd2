CONSTANTS
  k2 = k2
  k1 = k1
  push = push
  r2 = r2
  r1 = r1
  Runs = {r1, r2}
  Scheduled = {r2}
  RosterOf <- MCRosterOf
  DeviceOf <- MCDeviceOf
  PushCall = push
  Checkers = {k1, k2}
  Ops = {"abort", "testFails", "stampFails", "callFails", "restore", "slow"}
  Calls <- MCCalls
  NoSignal = NoSignal
  SignalOf <- MCSignalOf
  ProxyCalls <- MCProxyCalls
  None = None
SPECIFICATION FairSpec
CHECK_DEADLOCK FALSE
INVARIANTS OneSlowEvent PushUnharmed OneAtATime NotStranded
PROPERTIES LaneServes  AbortedNotSent RestoreAlone RunsEnd
