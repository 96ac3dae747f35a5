SPECIFICATION Spec
CONSTANTS
  Pages = {g1}
  Calls = {a1}
  HandNames <- MCHandNames
  MaxVersion = 1
  MaxBodies = 3
  MaxHands = 0
  Absent = Absent
INVARIANT SavedStays
CHECK_DEADLOCK FALSE
