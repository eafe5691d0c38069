\* A launch message delivered twice against a queued finalization.
SPECIFICATION Spec
CONSTANTS
  h1 = h1
  h2 = h2
  a1 = a1
  w1 = w1
  w2 = w2
  c1 = c1
  c2 = c2
  NoRun = NoRun
  Runs <- OneHuman
  HumanRuns <- OneHuman
  Workers <- OneWorker
  Handlers <- OneHandler
  MaxFaults = 1
PROPERTIES
  NeverRerunPLC
CHECK_DEADLOCK FALSE
