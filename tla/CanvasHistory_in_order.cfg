\* Two users, one object, no deletions, events handled in order.
SPECIFICATION InOrderSpec
CONSTANTS
  MaxEvents = 5
  Times <- TimesMC
  Values <- ValuesMC
  Actors = {1, 2}
  Keys = {"shape", "deleted"}
  Extras = {{}}
  Objs = {"o1"}
  EventKinds = {"CREATE", "TRANSLATE", "UNDO", "REDO"}
CHECK_DEADLOCK FALSE
INVARIANTS
  LoadShowsLive
  UndoInverts
