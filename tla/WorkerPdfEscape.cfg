SPECIFICATION Spec
CONSTANTS
  Jobs = {j1, j2}
  MaxQueueLength = 1
  Servers = {s1}
  NumDetectors = 1
  MaxTools = 1
  MaxCrashes = 1
  Faults = {"pdf"}
  NoJob = NoJob
  NoServer = NoServer
INVARIANTS WorkerNeverDies
CHECK_DEADLOCK FALSE
