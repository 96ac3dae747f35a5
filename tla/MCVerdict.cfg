SPECIFICATION Spec
CONSTANTS
  Null = Null
  de = de
  ger = ger
  en = en
  Streams <- MCStreams
  Values <- MCValues
  Spellings <- MCSpellings
  Canonical <- MCCanonical
  Files <- MCFiles
  Rules <- MCRules
  MaxRules = 2
INVARIANTS PassIsTrue FailIsTrue FailedIsError OffenderIsReal
PROPERTY VerdictNeverImproves
CHECK_DEADLOCK FALSE
