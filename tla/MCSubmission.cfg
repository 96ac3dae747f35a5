SPECIFICATION Spec
CONSTANTS
  Jobs = {j1, j2, j3}
  MaxQueueLength = 2
  Handlers = {h1, h2}
  Names = {"master", "link", "outside"}
  Files = {"master", "elsewhere"}
  Target <- MCTarget
  InRoots = {"master"}
  Sizes = {1, 2}
  MaxFileSize = 1
  Presets = {"strict", "unknown"}
  Listed = {"strict"}
  Forms <- MCForms
  WatchNames = {"master"}
  Policy = "warn_confirm"
  MaxDeeds = 2
  Absent = Absent
INVARIANTS DuplicatesOnlyByRace
PROPERTIES PlacesFall
SYMMETRY MCSymmetry
CHECK_DEADLOCK FALSE
