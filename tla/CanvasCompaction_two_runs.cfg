\* One user, one object; two compactors, whose locks may run out.
SPECIFICATION Spec
CONSTANTS
  MaxEvents = 3
  Times <- TimesMC
  Values <- ValuesMC
  Actors = {1}
  Keys = {"shape", "color", "width", "deleted"}
  Extras = {{}, {"color"}, {"width"}}
  Objs = {"o1"}
  EventKinds = {"UPDATE", "DELETE", "UNDO"}
  Compactors = {c1, c2}
  MinEvents = 2
SYMMETRY SymmetryMC
CHECK_DEADLOCK FALSE
INVARIANTS
  ReplayKeepsValues
  AloneUnderLock
  LoadShowsDrawn
PROPERTIES
  CompactionInvisible
