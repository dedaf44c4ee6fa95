\* Three rows on pages of one; up to two of three requests overlap, and one row changes.
SPECIFICATION Spec
CONSTANTS
  s1 = s1
  s2 = s2
  all = all
  open = open
  Slots = {s1, s2}
  Rows = {1, 2, 3}
  Keys = {1, 2, 3}
  Filters = {all, open}
  Limit = 1
  MaxChanges = 1
  MaxRequests = 3
  FirstTables <- MCFirstTables
SYMMETRY Interchangeable
INVARIANTS
  TypeOK
  WalkIsComplete
  KeysetNeverRepeats
  ShownIsAskedFor
CHECK_DEADLOCK FALSE
