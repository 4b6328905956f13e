\* A guest waits on the page of a private room, nothing goes wrong, the host approves.
SPECIFICATION PageSpec
CONSTANTS
  Rooms = {a, b}
  NoRoom = NoRoom
  Private = {b}
  MaxVisits = 1
  MaxTroubles = 0
CHECK_DEADLOCK FALSE
INVARIANTS
  ApprovedComesIn
