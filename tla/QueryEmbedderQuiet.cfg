\* A search that waits for its slot while another gets HTTP 429.
SPECIFICATION EmbedderSpec
CONSTANTS
  Caller = {c1, c2, c3}
  Text = {a, b, c}
  NoCaller = NoCaller
  CallsPerWindow = 2
  WindowMs = 3
  MaxWaitMs = 2
  CooldownMs = 3
  CacheEntries = 1
  CacheTtlMs = 2
  Horizon = 6
SYMMETRY Symmetry
PROPERTIES
  QuietAfter429
CHECK_DEADLOCK FALSE
