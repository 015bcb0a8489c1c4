\* Two customers and three orders; both, one or none of the candidates is flagged.
SPECIFICATION Spec
CONSTANTS
  d1 = d1
  d2 = d2
  a1 = a1
  y1 = y1
  Devices = {d1, d2}
  Addresses = {a1}
  Payments = {y1}
  Products <- CheapAndDear
  Populations <- OnePopulation
  NumCustomers = 2
  NumFamilies = 1
  Draws <- SomeDraws
  ClusterSize = 4
  MaxPerCustomer = 2
  MaxOrders = 3
  OrderTimes = {0, 1}
  ShipDelays = {1}
  DeliveryDelays = {2}
  ReturnDelays = {1}
  PickUp = 1
  Receipt = 2
  Refund = 3
  ReceiptByPost = 2
  Guess = 1
  None = None
INVARIANT LivesAreOrdered
INVARIANT LabelsTellTheFlags
INVARIANT RingsShare
PROPERTY ImplementsHistory
CHECK_DEADLOCK FALSE
