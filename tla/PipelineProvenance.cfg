\* Two requests that share a file and one that does not, two scorings, two workers, up to three faults.
SPECIFICATION SafeSpec
CONSTANTS
  Requests = {r1, r2, r3}
  r1 = r1
  r2 = r2
  r3 = r3
  FileIds = {f1, f2}
  f1 = f1
  f2 = f2
  Payloads = {p1}
  p1 = p1
  Scorings = {s1, s2}
  s1 = s1
  s2 = s2
  Workers = {w1, w2}
  w1 = w1
  w2 = w2
  Api = api
  Readers = {}
  SafeId <- SharedFile
  Unjobbable = {}
  MaxRetries = 1
  FaultKinds = {"redis", "duplicate", "disk", "compute", "crash", "restart"}
  MaxFaults = 3
  None = None
  Absent = Absent
  Empty = Empty
  Torn = Torn
SYMMETRY SharedSymmetry
INVARIANT Provenance
CHECK_DEADLOCK FALSE
