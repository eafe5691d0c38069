\* Two human runs, the second perhaps a retry of the first, one worker, one handler, one fault:
\* every queued or running run comes to rest.
SPECIFICATION FairSpec
CONSTANTS
  h1 = h1
  h2 = h2
  a1 = a1
  w1 = w1
  w2 = w2
  c1 = c1
  c2 = c2
  NoRun = NoRun
  Runs <- TwoHumans
  HumanRuns <- TwoHumans
  Workers <- OneWorker
  Handlers <- OneHandler
  MaxFaults = 1
INVARIANTS
  IInv
PROPERTIES
  ActiveRunSettles
CHECK_DEADLOCK FALSE
