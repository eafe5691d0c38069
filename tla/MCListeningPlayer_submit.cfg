\* One tab and one fault: a submission that has to be retried.
SPECIFICATION Spec
CONSTANTS
  t1 = t1
  t2 = t2
  i1 = i1
  NoRequest = NoRequest
  NoRecord = NoRecord
  Tabs <- OneTab
  Items <- OneItem
  Scores <- TwoScores
  MaxRequests = 2
  MaxFaults = 1
  MaxReloads = 0
INVARIANTS
  SubmissionIsComplete
CHECK_DEADLOCK FALSE
