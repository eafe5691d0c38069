\* Two trials of four buffers, four loads, two faults.
SPECIFICATION Spec
CONSTANTS
  Trials = 2
  PLC = 2
  Sizes <- ThreeSizes
  Rates <- TwoRates
  Header = 1
  Allowance = 2
  Budget = 35
  MaxLoads = 4
  MaxFaults = 2
INVARIANTS
  IInv
  BudgetKept
  PreparedStudyLoads
  LoadsDoNotOverlap
  OnlyTheShownPageSounds
PROPERTIES
  LoadingEnds
CHECK_DEADLOCK FALSE
