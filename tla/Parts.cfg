\* Six components side by side, each on a small instance of its own.
SPECIFICATION Spec
CONSTANTS
  a1 = a1
  a2 = a2
  s1 = s1
  s2 = s2
  b1 = b1
  m1 = m1
  f1 = f1
  \* ai
  Jobs = {a1, a2}
  MaxRows = 1
  MaxRuns = 2
  MaxQueued = 1
  \* timeline
  Clock <- MCClock
  Offsets = {0, 1, 4}
  MaxSegments = 3
  WindowMs = 2
  EpochMs = 3
  MaxInt = 5
  \* transcript
  Panels = {a1, a2}
  Phrases = {f1}
  MaxDispatches = 2
  MaxRetries = 2
  \* chat
  Servers = {s1, s2}
  Readers = {b1}
  Home <- MCHome
  Messages = {m1}
  MaxFaults = 1
  \* media
  MaxCalls = 2
  MaxMishaps = 1
  MaxSwitches = 1
  \* pane
  Browsers = {1, 2}
  Tools = {"stroke", "shape", "drag", "group"}
  StartTime = 1
  Lags = {1}
  MaxUses = 2
  MaxMoves = 1
SYMMETRY Symmetry
CHECK_DEADLOCK FALSE
INVARIANTS
  PartsTypeOK
  SummariesApart
  ChunksHold
  CopiesExplained
  ConfirmedKept
  ShownOnce
  RoomsWithinReach
  SavedIsShown
