\* Four searches over two texts and a cache of one entry; fair timers and
\* provider, so no symmetry.
SPECIFICATION FairEmbedderSpec
CONSTANTS
  Caller = {c1, c2, c3, c4}
  Text = {a, b}
  NoCaller = NoCaller
  CallsPerWindow = 2
  WindowMs = 2
  MaxWaitMs = 1
  CooldownMs = 2
  CacheEntries = 1
  CacheTtlMs = 1
  Horizon = 2
INVARIANTS
  RollingWindow
  PaidOnce
PROPERTIES
  EverySearchIsAnswered
CHECK_DEADLOCK FALSE
