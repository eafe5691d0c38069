\* One tab and no fault: a poll that is overtaken by a save.
SPECIFICATION Spec
CONSTANTS
  t1 = t1
  t2 = t2
  i1 = i1
  NoRequest = NoRequest
  NoRecord = NoRecord
  Tabs <- OneTab
  Items <- OneItem
  Scores <- OneScore
  MaxRequests = 2
  MaxFaults = 0
  MaxReloads = 0
INVARIANTS
  LockTellsTheTruth
CHECK_DEADLOCK FALSE
