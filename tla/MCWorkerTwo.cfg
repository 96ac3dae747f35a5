SPECIFICATION Spec
CONSTANTS
  Jobs = {j1, j2}
  MaxQueueLength = 2
  Servers = {s1, s2}
  NumDetectors = 0
  MaxTools = 1
  MaxCrashes = 1
  Faults = {"slow_monitor"}
  NoJob = NoJob
  NoServer = NoServer
INVARIANTS NoDoubleClaim StoppedForItsOwnReason
SYMMETRY TwoSymmetry
CHECK_DEADLOCK FALSE
