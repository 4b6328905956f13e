\* Two requests at a time: three users and two seats, two tabs of a browser, three
\* verification links, a task between three users.
SPECIFICATION HttpSpec
CONSTANTS
  u1 = u1
  u2 = u2
  u3 = u3
  c1 = c1
  c2 = c2
  \* rooms
  Users = {u1, u2, u3}
  Nobody = Nobody
  Calls = {c1, c2}
  Cap = 2
  MaxJoins = 3
  \* sessions
  Tabs = {c1, c2}
  NoTab = NoTab
  Requests = {c1, c2}
  MaxLogins = 1
  MaxTokens = 3
  \* accounts
  Errands = {c1, c2}
  MaxLinks = 3
  \* planner
  People = {u1, u2, u3}
  NoPerson = NoPerson
  Works = {c1, c2}
SYMMETRY Symmetry
CHECK_DEADLOCK FALSE
INVARIANTS
  HttpTypeOK
  CountExact
  ExchangedOnce
  CookieFollows
  LinkWorks
  AssigneeKnows
PROPERTIES
  RoomKeepsPromise
  PrivateByApproval
