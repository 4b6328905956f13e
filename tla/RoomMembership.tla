--------------------------- MODULE RoomMembership ---------------------------
(***************************************************************************)
(* The members of one room as the HTTP backend keeps them in the database: *)
(* services/room.service.ts and controller/admin.controller.ts, called by  *)
(* controller/room.controller.ts.                                          *)
(*                                                                         *)
(* A request reads and checks first, and writes later: between its two     *)
(* steps every other request may run.  What stands in one $transaction is  *)
(* one step, its statements lock the row of the room.  A kick is not in a  *)
(* transaction: its two writes are two steps.                              *)
(*                                                                         *)
(* The name of the room and what the reading operations return are left    *)
(* out.                                                                    *)
(***************************************************************************)
EXTENDS Integers, FiniteSets

CONSTANTS Users, Nobody,
          Calls,     \* HTTP requests that may be under way at a time
          Cap,       \* the seats of a room (100)
          MaxJoins   \* bound: memberships created in the life of the room

ASSUME RoomAssumption ==
  /\ IsFiniteSet(Users) /\ IsFiniteSet(Calls)
  /\ Cap \in Nat \ {0} /\ MaxJoins \in Nat
  /\ Nobody \notin Users

VARIABLES
  room,      \* the Room row: its stage, visibility, createdBy, memberCount, isArchived
  role,      \* RoomMember.role per user, "none" without a row
  joinedAt,  \* RoomMember.joinedAt
  joins,     \* the joins so far: the clock that joinedAt reads
  request,   \* JoinRequest.status per user
  call,      \* what each request has checked and read
  leaked     \* seats whose kick ended between its two writes

roomVars == <<room, role, joinedAt, joins, request, call, leaked>>

Ops == {"join", "leave", "delete", "approve", "reject", "remove", "kick",
        "decrement", "promote", "demote"}

\* What a request goes on to do to user of; owner is createdBy as a leave read it.
CallStates == [op : Ops \cup {"idle"}, of : Users \cup {Nobody},
             owner : Users \cup {Nobody}]

Idle == [op |-> "idle", of |-> Nobody, owner |-> Nobody]

Members == {u \in Users : role[u] # "none"}

Admins == {u \in Users : role[u] = "ADMIN"}

RoomTypeOK ==
  /\ room \in [stage : {"none", "open", "deleted"}, private : BOOLEAN,
               createdBy : Users \cup {Nobody}, count : Int, archived : BOOLEAN]
  /\ role \in [Users -> {"none", "MEMBER", "ADMIN"}]
  /\ joinedAt \in [Users -> Nat]
  /\ joins \in Nat
  /\ request \in [Users -> {"none", "PENDING", "APPROVED", "REJECTED"}]
  /\ call \in [Calls -> CallStates]
  /\ leaked \in Nat

RoomInit ==
  /\ room = [stage |-> "none", private |-> FALSE, createdBy |-> Nobody,
             count |-> 0, archived |-> FALSE]
  /\ role = [u \in Users |-> "none"]
  /\ joinedAt = [u \in Users |-> 0]
  /\ joins = 0
  /\ request = [u \in Users |-> "none"]
  /\ call = [c \in Calls |-> Idle]
  /\ leaked = 0

-----------------------------------------------------------------------------
(* A request reads the room and the rows of its users, and goes on if they *)
(* allow it.                                                               *)

Begin(c, op, u, owner) ==
  /\ call[c] = Idle
  /\ room.stage = "open"
  /\ call' = [call EXCEPT ![c] = [op |-> op, of |-> u, owner |-> owner]]
  /\ UNCHANGED <<room, role, joinedAt, joins, request, leaked>>

Ask(c, op, u) == Begin(c, op, u, Nobody)

AskJoin(c, u) == u \notin Members /\ Ask(c, "join", u)

AskLeave(c, u) == u \in Members /\ Begin(c, "leave", u, room.createdBy)

AskDelete(c, u) == u = room.createdBy /\ Ask(c, "delete", u)

\* Only the existence of the request is checked, whatever its status.
AskApprove(c, a, u) ==
  a \in Admins /\ request[u] # "none" /\ Ask(c, "approve", u)

AskReject(c, a, u) ==
  a \in Admins /\ request[u] # "none" /\ Ask(c, "reject", u)

\* removeMember looks for no owner.
AskRemove(c, a, u) == a \in Admins /\ a # u /\ Ask(c, "remove", u)

\* updateMemberRole takes any member, the caller and the owner too.
AskRole(c, a, u) ==
  a \in Admins /\ \E op \in {"promote", "demote"} : Ask(c, op, u)

AskKick(c, a, u) ==
  a \in Admins /\ u # room.createdBy /\ Ask(c, "kick", u)

AskPromote(c, a, u) ==
  a \in Admins /\ u # room.createdBy /\ Ask(c, "promote", u)

-----------------------------------------------------------------------------
(* The writes.                                                             *)

Done(c) == call' = [call EXCEPT ![c] = Idle]

Doing(c, op) == call[c].op = op /\ room.stage = "open"

CreateRoom(u) ==
  /\ room.stage = "none" /\ joins < MaxJoins
  /\ \E private \in BOOLEAN :
       room' = [stage |-> "open", private |-> private, createdBy |-> u,
                count |-> 1, archived |-> FALSE]
  /\ role' = [role EXCEPT ![u] = "ADMIN"]
  /\ joins' = joins + 1
  /\ joinedAt' = [joinedAt EXCEPT ![u] = joins + 1]
  /\ UNCHANGED <<request, call, leaked>>

\* Mutant of Admit: nobody looks whether there is a seat.
AdmitUncapped(u) ==
  /\ u \notin Members /\ joins < MaxJoins
  /\ room' = [room EXCEPT !.count = @ + 1]
  /\ role' = [role EXCEPT ![u] = "MEMBER"]
  /\ joins' = joins + 1
  /\ joinedAt' = [joinedAt EXCEPT ![u] = joins + 1]

\* One transaction: the seat is taken if there is one, then the row is created,
\* which fails, and gives the seat back, if the user has one by now.
Admit(u) ==
  /\ room.count < Cap /\ u \notin Members /\ joins < MaxJoins
  /\ room' = [room EXCEPT !.count = @ + 1]
  /\ role' = [role EXCEPT ![u] = "MEMBER"]
  /\ joins' = joins + 1
  /\ joinedAt' = [joinedAt EXCEPT ![u] = joins + 1]

\* Mutant of JoinPublic: a private room is joined like a public one.
JoinAnyRoom(c) ==
  /\ Doing(c, "join")
  /\ Admit(call[c].of)
  /\ Done(c)
  /\ UNCHANGED <<request, leaked>>

JoinPublic(c) ==
  /\ Doing(c, "join") /\ ~room.private
  /\ Admit(call[c].of)
  /\ Done(c)
  /\ UNCHANGED <<request, leaked>>

\* The upsert makes any earlier answer PENDING again.
JoinPrivate(c) ==
  /\ Doing(c, "join") /\ room.private
  /\ request' = [request EXCEPT ![call[c].of] = "PENDING"]
  /\ Done(c)
  /\ UNCHANGED <<room, role, joinedAt, joins, leaked>>

\* The row of u is deleted, and with it its date.
Gone(u) == joinedAt' = [joinedAt EXCEPT ![u] = 0]

\* The member who has been here longest.
Eldest(S) == CHOOSE v \in S : \A w \in S : joinedAt[v] <= joinedAt[w]

\* The last to leave archives the room; the owner, as read before, hands it over.
Leave(c) ==
  LET u == call[c].of
      rest == Members \ {u}
      left == room.count - 1
      hands == left # 0 /\ call[c].owner = u /\ rest # {}
  IN /\ Doing(c, "leave")
     /\ u \in Members /\ room.count > 0
     /\ room' = [room EXCEPT !.count = left,
                             !.archived = @ \/ left = 0,
                             !.createdBy = IF hands THEN Eldest(rest) ELSE @]
     /\ role' = [v \in Users |-> IF v = u THEN "none"
                                 ELSE IF hands /\ v = Eldest(rest) THEN "ADMIN"
                                 ELSE role[v]]
     /\ Gone(u)
     /\ Done(c)
     /\ UNCHANGED <<joins, request, leaked>>

\* The memberships and the requests go with the room.
Delete(c) ==
  /\ Doing(c, "delete")
  /\ room' = [room EXCEPT !.stage = "deleted"]
  /\ role' = [u \in Users |-> "none"]
  /\ joinedAt' = [u \in Users |-> 0]
  /\ request' = [u \in Users |-> "none"]
  /\ Done(c)
  /\ UNCHANGED <<joins, leaked>>

Approve(c) ==
  /\ Doing(c, "approve")
  /\ request' = [request EXCEPT ![call[c].of] = "APPROVED"]
  /\ \/ Admit(call[c].of)
     \/ call[c].of \in Members /\ UNCHANGED <<room, role, joinedAt, joins>>
  /\ Done(c)
  /\ UNCHANGED leaked

Reject(c) ==
  /\ Doing(c, "reject")
  /\ request' = [request EXCEPT ![call[c].of] = "REJECTED"]
  /\ Done(c)
  /\ UNCHANGED <<room, role, joinedAt, joins, leaked>>

\* Mutant of Remove: the seat is not given back.
RemoveUncounted(c) ==
  /\ Doing(c, "remove") /\ call[c].of \in Members
  /\ role' = [role EXCEPT ![call[c].of] = "none"]
  /\ Gone(call[c].of)
  /\ Done(c)
  /\ UNCHANGED <<room, joins, request, leaked>>

\* One transaction; the delete fails, and all of it, if the row is gone.
Remove(c) ==
  /\ Doing(c, "remove") /\ call[c].of \in Members
  /\ role' = [role EXCEPT ![call[c].of] = "none"]
  /\ room' = [room EXCEPT !.count = @ - 1]
  /\ Gone(call[c].of)
  /\ Done(c)
  /\ UNCHANGED <<joins, request, leaked>>

\* Mutant of SetRole: the role is written as the request words it.
SetRoleAsWorded(c) ==
  /\ room.stage = "open" /\ call[c].op \in {"promote", "demote"}
  /\ call[c].of \in Members
  /\ role' = [role EXCEPT ![call[c].of] = call[c].op]
  /\ Done(c)
  /\ UNCHANGED <<room, joinedAt, joins, request, leaked>>

SetRole(c) ==
  /\ room.stage = "open" /\ call[c].op \in {"promote", "demote"}
  /\ call[c].of \in Members
  /\ role' = [role EXCEPT ![call[c].of] =
                IF call[c].op = "promote" THEN "ADMIN" ELSE "MEMBER"]
  /\ Done(c)
  /\ UNCHANGED <<room, joinedAt, joins, request, leaked>>

Kick(c) ==
  /\ Doing(c, "kick") /\ call[c].of \in Members
  /\ role' = [role EXCEPT ![call[c].of] = "none"]
  /\ Gone(call[c].of)
  /\ call' = [call EXCEPT ![c].op = "decrement"]
  /\ UNCHANGED <<room, joins, request, leaked>>

KickDecrement(c) ==
  /\ Doing(c, "decrement")
  /\ room' = [room EXCEPT !.count = @ - 1]
  /\ Done(c)
  /\ UNCHANGED <<role, joinedAt, joins, request, leaked>>

\* A statement that finds its row changed or the room full or gone, the database
\* or the process fails: the request ends with what it has written.
Fail(c) ==
  /\ call[c] # Idle
  /\ leaked' = IF call[c].op = "decrement" THEN leaked + 1 ELSE leaked
  /\ Done(c)
  /\ UNCHANGED <<room, role, joinedAt, joins, request>>

Write(c) ==
  \/ JoinPublic(c) \/ JoinPrivate(c) \/ Leave(c) \/ Delete(c) \/ Approve(c)
  \/ Reject(c) \/ Remove(c) \/ SetRole(c) \/ Kick(c) \/ KickDecrement(c) \/ Fail(c)

RoomNext ==
  \/ \E u \in Users : CreateRoom(u)
  \/ \E c \in Calls, u \in Users : AskJoin(c, u) \/ AskLeave(c, u) \/ AskDelete(c, u)
  \/ \E c \in Calls, a, u \in Users :
       \/ AskApprove(c, a, u) \/ AskReject(c, a, u) \/ AskRemove(c, a, u)
       \/ AskRole(c, a, u) \/ AskKick(c, a, u) \/ AskPromote(c, a, u)
  \/ \E c \in Calls : Write(c)

RoomSpec == RoomInit /\ [][RoomNext]_roomVars

-----------------------------------------------------------------------------

Halfway == {c \in Calls : call[c].op = "decrement"}

\* memberCount counts the members, and the seats of kicks that have deleted the
\* membership and not (or never) decremented: two kicks of one member, a kick and a
\* leave, a join that finds itself joined take no seat twice.
CountExact ==
  room.stage = "open" =>
    room.count = Cardinality(Members) + Cardinality(Halfway) + leaked

\* The members are a set that never outgrows the room: joinRoom and
\* approveJoinRequest test a counter that other requests move.
Promise == INSTANCE BoundedRoom WITH present <- Members

RoomKeepsPromise == Promise!RoomPromise

\* Nobody enters a private room but its creator and who asked and was approved in
\* the same step, whatever joins, answers and retries overlap.
PrivateByApproval ==
  [][\A u \in Users : u \in Members' \ Members =>
       \/ room.stage = "none" \/ ~room.private
       \/ request[u] # "none" /\ request'[u] = "APPROVED"]_roomVars

=============================================================================
