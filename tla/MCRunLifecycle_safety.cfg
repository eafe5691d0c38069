\* A human and an automated run, two workers, two handlers, one fault: claims,
\* finalization, deletion and redelivery against each other.
SPECIFICATION Spec
CONSTANTS
  h1 = h1
  h2 = h2
  a1 = a1
  w1 = w1
  w2 = w2
  c1 = c1
  c2 = c2
  NoRun = NoRun
  Runs <- OneOfEach
  HumanRuns <- OneHuman
  Workers <- TwoWorkers
  Handlers <- TwoHandlers
  MaxFaults = 1
INVARIANTS
  ExclusiveExecution
  ResultsBehindStatus
  AnnouncedSuccessIsFinal
  QueuedRunHasMessage
SYMMETRY ActorSymmetry
CHECK_DEADLOCK FALSE
