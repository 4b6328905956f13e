\* Two browsers, one object that is made, edited and deleted.
SPECIFICATION PaneSpec
CONSTANTS
  Browsers = {1, 2}
  Tools = {}
  StartTime = 1
  Lags = {0}
  MaxUses = 3
  MaxMoves = 0
CHECK_DEADLOCK FALSE
INVARIANTS
  DeletionsSaved
