\* Two tabs, one row of two scores, three requests, a fault and a reload; see
\* OneTabOrSmall for what of it is explored.
SPECIFICATION Spec
CONSTANTS
  t1 = t1
  t2 = t2
  i1 = i1
  NoRequest = NoRequest
  NoRecord = NoRecord
  Tabs <- TwoTabs
  Items <- OneItem
  Scores <- TwoScores
  MaxRequests = 3
  MaxFaults = 1
  MaxReloads = 1
INVARIANTS
  IInv
  UnchangedRowsAreSaved
  EditsAreKept
  AloneIsNeverRefused
PROPERTIES
  NoBlindOverwrite
CONSTRAINT OneTabOrSmall
SYMMETRY TabSymmetry
CHECK_DEADLOCK FALSE
