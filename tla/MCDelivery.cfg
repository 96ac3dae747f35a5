SPECIFICATION Spec
CONSTANTS
  Jobs = {j1, j2}
  MaxQueueLength = 1
  Dirs = {"in", "out"}
  MaxCollisions = 1
  MaxNesting = 1
  MaxContents = 2
  Watched = {"in"}
  MaxDefer = 2
  NoPath = NoPath
  NoJob = NoJob
  Routes <- MoveBoth
  MoveModes = {"rename", "copy"}
  MaxTries = 2
  MaxMishaps = 2
  WriteKinds = {"touch", "keep"}
  Given = {"PASS"}
  Mishaps = {"crash", "share", "preset", "store", "note", "prune", "manual", "cancel", "vanish", "redrop"}
INVARIANTS OneJobPerDelivery NeverWhileCopying NothingLost
  DeliveredNoteTrue DeliveryInv
SYMMETRY JobSymmetry
CHECK_DEADLOCK FALSE
