SPECIFICATION Spec
CONSTANTS
  Jobs = {j1, j2}
  MaxQueueLength = 2
  Paths = {"root", "root/in", "root/in/done", "root/link", "outside"}
  Real <- MCReal
  Below <- MCBelow
  Presets = {"p1"}
  Configs <- MCConfigs
  Unset = Unset
  MaxStarts = 3
  MaxChanges = 1
  Browsers = {b1, b2, b3}
  Ids = {i1, i2, i3, i4}
  MaxSessions = 2
  Ttl = 2
  NoCookie = NoCookie
  Assets <- MCAssets
  MinSilence = 2
  Window = 2
  MinBlack = 1
  MinFreeze = 2
  MaxChannels = 2
  LastOverall = "whole"
  Unknown = Unknown
  Media <- MCMedia
  Canonical <- MCCanonical
  NoValue = NoValue
  Junk = Junk
  MaxAnalyses = 2
  RuleIds = {"black", "freeze"}
  Starts = {0, 40}
  FindingLists <- MCFindingLists
  NoTime = NoTime
  NoFile = NoFile
  MaxGrabRuns = 3
  MediaNames = {1, 2}
  None = None
  MaxCommands = 3
  Pairs <- MCPairs
  LoudnessTolerance = 1
  SpanTolerance = 1
  Missing = Missing
INVARIANTS CapHolds OneLossPerStart ServesWithinRoots SoundIsReal PictureIsReal
  ProbeIsHonest EvidenceShowsItsFinding SummaryMatchesReports ExitZeroMeansAgreement
PROPERTIES RefusedOnlyWhenFull
CHECK_DEADLOCK FALSE
