SPECIFICATION FairSpec
CONSTANTS
  Jobs = {j1, j2}
  MaxQueueLength = 2
  Servers = {s1}
  NumDetectors = 1
  MaxTools = 1
  MaxCrashes = 1
  Faults = {}
  NoJob = NoJob
  NoServer = NoServer
PROPERTIES ImplementsLifecycle RunningSettles QueueDrains
CHECK_DEADLOCK FALSE
