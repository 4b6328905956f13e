\* Two draws of one object at the same time.
SPECIFICATION Spec
CONSTANTS
  p1 = p1
  p2 = p2
  w1 = w1
  w2 = w2
  Processes = {p1}
  Workers = {w1, w2}
  ProcessOf <- SameProcess
  MaxEvents = 2
  MaxFailures = 0
  MaxOutages = 0
  Times <- TimesMC
  Values <- ValuesMC
  Actors = {1, 2}
  Keys = {"shape", "deleted"}
  Extras = {{}}
  Objs = {"o1"}
  EventKinds = {"UPDATE", "DELETE"}
CHECK_DEADLOCK FALSE
INVARIANTS
  ReplayReconstructs
