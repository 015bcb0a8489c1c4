\* Three customers with overlapping entities, three orders of two categories, any returns, three ticks.
SPECIFICATION Spec
CONSTANTS
  Users = {u1, u2, u3}
  u1 = u1
  u2 = u2
  u3 = u3
  Categories = {"fashion", "books"}
  Devices = {d1, d2}
  d1 = d1
  d2 = d2
  Addresses = {a1, a2}
  a1 = a1
  a2 = a2
  Payments = {y1, y2, y3}
  y1 = y1
  y2 = y2
  y3 = y3
  Owns <- Household
  MaxTime = 2
  MaxOrders = 3
  Day = 0
  Week = 1
  Month = 1
  EnoughOrders = 1
  TrainShare = 34
  ValidationShare = 67
  NoEdge = NoEdge
SYMMETRY Mirror
INVARIANT TypeOK
INVARIANT PointInTime
INVARIANT CountsItselfOnce
INVARIANT GraphMatchesOrders
INVARIANT ReturnsTrailOrders
INVARIANT OnlineParity
INVARIANT ValidationPasses
INVARIANT OnlyBaselineLeaks
CHECK_DEADLOCK FALSE
