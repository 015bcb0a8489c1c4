\* Three trainings of one version, two programs killed.
SPECIFICATION FairSpec
CONSTANTS
  Width <- ThreeTrainings
  MaxCrashes = 2
  None = None
  Torn = Torn
INVARIANT Calibrated
INVARIANT SchemaIsOldest
PROPERTY BothLoad
CHECK_DEADLOCK FALSE
