\* A request with a job and one without, two scorings, two workers, one fault of any kind but a repeated push.
SPECIFICATION Spec
CONSTANTS
  Requests = {r1, r2}
  r1 = r1
  r2 = r2
  FileIds = {r1, r2}
  Payloads = {p1, p2}
  p1 = p1
  p2 = p2
  Scorings = {s1, s2}
  s1 = s1
  s2 = s2
  Workers = {w1, w2}
  w1 = w1
  w2 = w2
  Api = api
  Readers = {bff}
  bff = bff
  SafeId <- OwnFile
  Unjobbable = {r2}
  MaxRetries = 1
  FaultKinds = {"redis", "flush", "disk", "compute", "crash", "restart"}
  MaxFaults = 1
  None = None
  Absent = Absent
  Empty = Empty
  Torn = Torn
PROPERTY KeepsPromise
PROPERTY EventuallyReady
CHECK_DEADLOCK FALSE
