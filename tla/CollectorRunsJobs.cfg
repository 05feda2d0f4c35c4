\* Three sources of two providers, lost runners, evicted caches and failing publications;
\* under the schedule alone, with collection cycles, and with replays.
SPECIFICATION Spec
CONSTANTS
  p1 = p1
  p2 = p2
  Source = {1, 2, 3}
  Providers <- MCProviders
  ProviderOf <- MCProviderOf
  MaxTime = 3
  Stamp <- MCStamp
  MaxDetails = 2
  Fresh = 2
  ImportAge = 1
  Recheck = 2
  MinForDrop = 2
  MaxEvictions = 1
  NoPage = NoPage
  NoEntry = NoEntry
  NoCycle = NoCycle
  NoArtifact = NoArtifact
  c1 = c1
  c2 = c2
  Cycle = {c1, c2}
  Usage <- MCUsage
INVARIANTS
  CompleteMeansSeen
  VerifiedIsPublished
  GateSeesCatalog
  ActivePagesRotate
PROPERTIES
  PublicationAdvances
\* The clock stands at its bound.
CHECK_DEADLOCK FALSE
