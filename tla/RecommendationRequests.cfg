\* Two requests of one visitor on one instance, with a change of the sources
\* and a second catalog on the way.
SPECIFICATION RecommendationSpec
CONSTANTS
  r1 = r1
  r2 = r2
  v = v
  s1 = s1
  s2 = s2
  None = None
  Request = {r1, r2}
  Visitor = {v}
  Minute = 1
  Hour = 2
  Day = 2
  PerMinute = 1
  PerHour = 2
  PerDay = 2
  MaxTime = 1
  MaxFaults = 1
  MaxFailures = 1
  Session = {s1, s2}
  Plan <- Plans
  Supported <- PlanSupports
  Searchable <- ValidPlan
  OnMood <- HasMoodPreferences
  Until <- LastTick
  CacheSize = 1
  MaxCatalogs = 2
  MaxRevision = 2
  MaxChanges = 1
SYMMETRY Symmetries
INVARIANTS
  GrantsWithinLimit
  CardsAreCurrent
  CatalogWasLive
  CardsAreProven
  JoinedLoadsRun
\* Requests end and the clock stands at its bound.
CHECK_DEADLOCK FALSE
