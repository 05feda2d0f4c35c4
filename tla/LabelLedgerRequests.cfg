\* Two overlapping requests, groups of two calls, one fault and one resume.
SPECIFICATION FairSpec
CONSTANTS
  r1 = r1
  r2 = r2
  d1 = d1
  d2 = d2
  d3 = d3
  Request = {r1, r2}
  Doc = {d1, d2, d3}
  Concurrency = 2
  MaxCalls = 2
  TokensPerCall = 2
  TokenCap = 11
  Usage = {1, 2}
  MaxFaults = 1
  MaxResumes = 1
  None = None
INVARIANTS
  CapHolds
  HaltIsKept
PROPERTIES
  LabeledOnce
  EverythingIsLabeled
