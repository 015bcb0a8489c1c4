\* One job, one worker, no faults.
SPECIFICATION Spec
CONSTANTS
  Requests = {r1}
  r1 = r1
  FileIds = {r1}
  Payloads = {p1}
  p1 = p1
  Scorings = {s1}
  s1 = s1
  Workers = {w1}
  w1 = w1
  Api = api
  Readers = {bff}
  bff = bff
  SafeId <- OwnFile
  Unjobbable = {}
  MaxRetries = 1
  FaultKinds = {}
  MaxFaults = 0
  None = None
  Absent = Absent
  Empty = Empty
  Torn = Torn
PROPERTY ReadyIsFinal
CHECK_DEADLOCK FALSE
