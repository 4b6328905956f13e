\* A worker in each of two processes, failed transactions and an outage.
SPECIFICATION FairSpec
CONSTANTS
  p1 = p1
  p2 = p2
  w1 = w1
  w2 = w2
  Processes = {p1, p2}
  Workers = {w1, w2}
  ProcessOf <- OneEach
  MaxEvents = 3
  MaxFailures = 1
  MaxOutages = 1
  Times <- TimesMC
  Values <- ValuesMC
  Actors = {1}
  Keys = {"shape", "deleted"}
  Extras = {{}}
  Objs = {"o1"}
  EventKinds = {"UPDATE", "UNDO"}
CHECK_DEADLOCK FALSE
INVARIANTS
  ExactlyOnce
  NoEventLost
  SentAtMostOnce
  FlagsFollowMarkers
PROPERTIES
  EventuallySettled
