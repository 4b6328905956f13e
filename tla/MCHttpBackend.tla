--------------------------- MODULE MCHttpBackend ---------------------------
(***************************************************************************)
(* What the HTTP backend keeps in the database: the members of a room, the *)
(* sessions of an account, its address, a task and a meeting.  They share  *)
(* no row; the one chosen at the start is at work, the others stay where   *)
(* they begin.                                                             *)
(***************************************************************************)
EXTENDS RoomMembership, Sessions, Accounts, Planner, TLC

CONSTANTS u1, u2, u3, c1, c2

VARIABLE office

httpVars == <<office, roomVars, sessionVars, accountVars, plannerVars>>

Symmetry == Permutations(Users) \cup Permutations(Calls)

HttpInit ==
  /\ office \in {"rooms", "sessions", "accounts", "planner"}
  /\ RoomInit /\ SessionInit /\ AccountInit /\ PlannerInit

OfRooms(action) ==
  office = "rooms" /\ action /\ UNCHANGED <<office, sessionVars, accountVars, plannerVars>>
OfSessions(action) ==
  office = "sessions" /\ action /\ UNCHANGED <<office, roomVars, accountVars, plannerVars>>
OfAccounts(action) ==
  office = "accounts" /\ action /\ UNCHANGED <<office, roomVars, sessionVars, plannerVars>>
OfPlanner(action) ==
  office = "planner" /\ action /\ UNCHANGED <<office, roomVars, sessionVars, accountVars>>

HttpNext ==
  \/ OfRooms(RoomNext) \/ OfSessions(SessionNext)
  \/ OfAccounts(AccountNext) \/ OfPlanner(PlannerNext)

HttpSpec == HttpInit /\ [][HttpNext]_httpVars

\* Every row has its type, and every request under way.
HttpTypeOK ==
  CASE office = "rooms" -> RoomTypeOK
    [] office = "sessions" -> SessionTypeOK
    [] office = "accounts" -> AccountTypeOK
    [] office = "planner" -> PlannerTypeOK

=============================================================================
