\* Two clients that share the index lock and keep asking, two publications, two faults.
SPECIFICATION FairSpec
CONSTANTS
  i1 = i1
  i2 = i2
  d1 = d1
  d2 = d2
  Indexer = {i1, i2}
  Doc = {d1, d2}
  BatchSize = 1
  MaxFaults = 2
  MaxCatalogs = 2
  None = None
INVARIANTS
  NoLostVectors
  LiveIsNewest
PROPERTIES
  EverythingIsIndexed
