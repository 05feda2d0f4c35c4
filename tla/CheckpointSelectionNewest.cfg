\* All lists of up to three events of two ids on three pages.
SPECIFICATION SelectionSpec
CONSTANTS
  e1 = e1
  e2 = e2
  u1 = u1
  u2 = u2
  u3 = u3
  l1 = l1
  l2 = l2
  Id = {e1, e2}
  Url = {u1, u2, u3}
  Listing = {l1, l2}
  ObservedAt = {1, 2}
  Size = {1, 3}
  MaxEvents = 2
  MaxBytes = 7
  MaxStaged = 3
  NoListing = NoListing
  None = None
SYMMETRY Symmetries
INVARIANT NewestWins
\* The selection ends.
CHECK_DEADLOCK FALSE
