SPECIFICATION LiveSpec
CONSTANTS
  Jobs = {j1, j2}
  MaxQueueLength = 1
  Dirs = {"a", "b", "out"}
  MaxCollisions = 0
  MaxNesting = 0
  MaxContents = 1
  Watched = {"a", "b"}
  MaxDefer = 2
  NoPath = NoPath
  NoJob = NoJob
  Routes <- TwoFolders
  MoveModes = {"copy"}
  MaxTries = 1
  MaxMishaps = 2
  WriteKinds = {}
  Given = {"PASS", "ERROR"}
  Mishaps = {"crash", "share", "preset", "manual"}
PROPERTIES DeliveryAnswered OutageHeals
CHECK_DEADLOCK FALSE
