\* Channels, nesting and combinations of modules.
SPECIFICATION Spec
CONSTANTS
  Configs <- AllConfigs
  Supported <- SmallSupported
  AnySize = AnySize
  Null = Null
  Omitted = Omitted
  MaxNestedDepth = 3
  MaxFrequency = 2
INVARIANTS
  SizesFit
  ValidConfigsAreBuilt
  ConditionsAreAlgorithms
CHECK_DEADLOCK FALSE
