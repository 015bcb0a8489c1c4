\* Two exports, one replay, one fault, one tick of the clock, pipelines of two keys.
SPECIFICATION FairSpec
CONSTANTS
  u1 = u1
  u2 = u2
  d1 = d1
  a1 = a1
  y1 = y1
  t1 = t1
  t2 = t2
  Users = {u1, u2}
  Devices = {d1}
  Addresses = {a1}
  Payments = {y1}
  DataSets <- TwoExports
  BatchSize = 2
  MaxReplays = 1
  MaxFaults = 1
  MaxTime = 1
  None = None
INVARIANT NothingSkipped
INVARIANT AgeCoversTheReading
INVARIANT ScoresMissNothing
PROPERTY Converges
