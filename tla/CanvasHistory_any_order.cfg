\* Two users, one object, events handled in any order; two replicas, two keys, patches of
\* two actors at two times, merged in any order.
SPECIFICATION OrderSpec
CONSTANTS
  MaxEvents = 4
  Times <- TimesMC
  Values <- ValuesMC
  Actors = {1, 2}
  Keys = {"shape", "deleted"}
  Extras = {{}}
  Objs = {"o1"}
  EventKinds = {"UPDATE", "DELETE", "UNDO", "REDO"}
  \* replicas
  r1 = r1
  r2 = r2
  Replicas = {r1, r2}
  MaxIssued = 3
SYMMETRY Symmetry
CHECK_DEADLOCK FALSE
INVARIANTS
  ReplayReconstructs
  NoRedoPastNewerDraw
  LatestWriteWins
