\* One run of two equal nodes and no fault.
SPECIFICATION Spec
CONSTANTS
  r1 = r1
  r2 = r2
  q1 = q1
  q2 = q2
  q3 = q3
  n1 = n1
  n2 = n2
  i1 = i1
  NoRun = NoRun
  Runs <- OneRun
  Requests = {q1}
  RunOf <- OneCall
  NodesOf <- BothNodes
  IdOf <- EqualNodes
  Steps = 1
  MaxFaults = 0
  MaxInbox = 1
INVARIANTS
  FinalStatesAreReported
CHECK_DEADLOCK FALSE
