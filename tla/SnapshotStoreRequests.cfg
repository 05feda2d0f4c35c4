\* Two requests take over from one another once a first one has staged a page, on instances whose
\* clocks disagree by one tick; fair, so no symmetry.
SPECIFICATION MCSpec
CONSTANTS
  Source <- MCSource
  Stamp <- MCStamp
  Profile <- MCProfile
  Request <- MCRequests
  Revision <- MCRequests
  Job <- MCJob
  TTL = 1
  Skew = 1
  s1 = s1
  s2 = s2
  r1 = r1
  r2 = r2
  r3 = r3
  voyage = voyage
  other = other
  NoProfile = NoProfile
  NoPage = NoPage
  NoCatalog = NoCatalog
  NoLease = NoLease
  NoAttempt = NoAttempt
INVARIANTS
  AcknowledgedImportsStay
  ReferencedObjectsExist
  RecordTruthful
  AcknowledgedReportsStay
PROPERTIES
  AtomicPublication
  EveryRequestIsServed
CHECK_DEADLOCK FALSE
