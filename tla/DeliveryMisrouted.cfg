SPECIFICATION Spec
CONSTANTS
  Jobs = {j1, j2}
  MaxQueueLength = 1
  Dirs = {"in", "out"}
  MaxCollisions = 1
  MaxNesting = 1
  MaxContents = 2
  Watched = {"in"}
  MaxDefer = 2
  NoPath = NoPath
  NoJob = NoJob
  Routes <- MoveBoth
  MoveModes = {"rename", "copy"}
  MaxTries = 2
  MaxMishaps = 0
  WriteKinds = {}
  Given = {"PASS"}
  Mishaps = {}
INVARIANT RedeliveryGetsItsJob
CHECK_DEADLOCK FALSE
