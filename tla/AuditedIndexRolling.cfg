\* One request after the other within one minute.
SPECIFICATION Spec
CONSTANTS
  r1 = r1
  r2 = r2
  a1 = a1
  a2 = a2
  d1 = d1
  d2 = d2
  d3 = d3
  Request = {r1}
  RunId = {a1, a2}
  Window <- OneWindow
  Doc = {d1, d2, d3}
  BytesOf <- BytesOfDocs
  TokensOf <- Observed3
  CallsPerRun = 2
  InputBytesPerCall = 3
  RollingInputBytes = 4
  IntervalMs = 1
  MinuteMs = 3
  MaxTime = 5
  MaxCheckpoint = 1
  MaxFaults = 0
  None = None
SYMMETRY Symmetries
INVARIANTS
  RollingBytes
