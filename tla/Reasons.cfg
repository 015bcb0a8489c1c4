\* Every sign of seven attributions, four feature vectors.
SPECIFICATION Spec
CONSTANTS
  Shaps <- ThreeShaps
  Vectors <- FourVectors
  Drivers <- MixedDrivers
  MaxReasons = 3
  NotYet = NotYet
INVARIANT ColdStartDecidesNothing
INVARIANT RanksFollowRisk
INVARIANT MoreRiskKeepsReasons
CHECK_DEADLOCK FALSE
