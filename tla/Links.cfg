\* Clocks, the broker connection and the page's socket, each on a small instance.
SPECIFICATION LinksSpec
CONSTANTS
  room1 = room1
  room2 = room2
  \* clock
  Processes = {1, 2}
  Actors = {1, 2}
  MaxDrift = 3
  MaxBack = 1
  MaxSkew = 1
  MaxBurst = 2
  MaxTime = 3
  MaxStamps = 3
  \* broker
  MaxConns = 5
  MaxFaults = 1
  NumQueues = 2
  \* page
  Rooms = {room1, room2}
  NoRoom = NoRoom
  Private = {room2}
  MaxVisits = 2
  MaxTroubles = 1
CHECK_DEADLOCK FALSE
INVARIANTS
  LinksTypeOK
  MonotonicPerProcess
  ClampKeepsOrder
  NothingBeforeAuth
  PageNotStranded
PROPERTIES
  BrokerServes
  PageSettles
