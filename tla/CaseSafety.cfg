\* Two processes that start, race and fail once, two cases, up to three recorded actions or seedings.
SPECIFICATION Spec
CONSTANTS
  Servers = {b1, b2}
  b1 = b1
  b2 = b2
  Cases = {c1, c2}
  c1 = c1
  c2 = c2
  Decided <- MixedDecided
  Refund <- MixedRefund
  Batches <- AnyFiles
  Listed = {"PENDING_REVIEW"}
  MaxActions = 3
  MaxFaults = 1
  None = None
INVARIANT TypeOK
INVARIANT AcknowledgedIsDurable
INVARIANT HistoriesAgree
INVARIANT DetailExplainsStatus
INVARIANT ViewsAgree
PROPERTY DecisionsAreKept
PROPERTY QueueOnlyShrinks
PROPERTY StartsServing
CHECK_DEADLOCK FALSE
