\* Two tabs of alice and one of bob, two rooms.
SPECIFICATION Spec
CONSTANTS
  s1 = s1
  s2 = s2
  s3 = s3
  alice = alice
  bob = bob
  r1 = r1
  r2 = r2
  Sockets = {s1, s2, s3}
  Users = {alice, bob}
  Rooms = {r1, r2}
  UserOf <- TwoTabs
SYMMETRY RoomSymmetry
CHECK_DEADLOCK FALSE
INVARIANTS
  RegistryExact
PROPERTIES
  NoSilentDeparture
