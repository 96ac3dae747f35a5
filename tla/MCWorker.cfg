SPECIFICATION Spec
CONSTANTS
  Jobs = {j1, j2}
  MaxQueueLength = 1
  Servers = {s1}
  NumDetectors = 2
  MaxTools = 2
  MaxCrashes = 1
  Faults = {"pdf", "store"}
  NoJob = NoJob
  NoServer = NoServer
INVARIANTS IndInv OutcomeConsistent
  KilledNeverGraded StopRequestHonoured CancelledHasNoReport
PROPERTIES OutcomeIsFinal
SYMMETRY JobSymmetry
CHECK_DEADLOCK FALSE
