\* One delivery at a time implements CanvasHistory.
SPECIFICATION Spec
CONSTANTS
  p1 = p1
  p2 = p2
  w1 = w1
  w2 = w2
  Processes = {p1}
  Workers = {w1}
  ProcessOf <- OneWorker
  MaxEvents = 4
  MaxFailures = 1
  MaxOutages = 1
  Times <- TimesMC
  Values <- ValuesMC
  Actors = {1}
  Keys = {"shape", "deleted"}
  Extras = {{}}
  Objs = {"o1"}
  EventKinds = {"UPDATE", "TRANSLATE", "UNDO", "REDO"}
CHECK_DEADLOCK FALSE
PROPERTIES
  ImplementsHistory
