\* Two requests, three windows, faults.
SPECIFICATION Spec
CONSTANTS
  r1 = r1
  r2 = r2
  a1 = a1
  a2 = a2
  d1 = d1
  d2 = d2
  d3 = d3
  Request = {r1, r2}
  RunId = {a1, a2}
  Window <- Reviewed
  Doc = {d1, d2}
  BytesOf <- BytesOfDocs
  TokensOf <- ObservedOr
  CallsPerRun = 2
  InputBytesPerCall = 3
  RollingInputBytes = 4
  IntervalMs = 1
  MinuteMs = 3
  MaxTime = 4
  MaxCheckpoint = 2
  MaxFaults = 1
  None = None
SYMMETRY Symmetries
INVARIANTS
  PaidOnce
  OneUnsettledCall
  IntervalKept
  WindowBudget
