SPECIFICATION Spec
CONSTANTS
  Pages = {g1, g2}
  Calls = {}
  HandNames <- MCHandNames
  MaxVersion = 2
  MaxBodies = 3
  MaxHands = 2
  Absent = Absent
INVARIANTS SavedStays SavedIsOffered LibraryInv
PROPERTIES SaveIsNewest StaysVerified
SYMMETRY HandlerSymmetry
CHECK_DEADLOCK FALSE
