---------------------------- MODULE RoomManager ----------------------------
(***************************************************************************)
(* The rooms of one ws-backend process: the three maps of RoomManager, the *)
(* life of the sockets in them (SocketManager) and the presence updates    *)
(* the process broadcasts.  Handlers interleave at their awaits: a join    *)
(* waits for the membership query of the database, and the disconnect loop *)
(* waits for a Redis publish between two rooms.                            *)
(*                                                                         *)
(* A key that the code deletes from a map is here a key with value {}.     *)
(***************************************************************************)
EXTENDS Naturals, FiniteSets

CONSTANTS Sockets,   \* connections accepted by this process, named by ws.id
          Users,
          Rooms,
          UserOf     \* the user whose token the socket's handshake carries

ASSUME UserOfAssumption == UserOf \in [Sockets -> Users]

VARIABLES
  maps,         \* RoomManager's roomSockets, socketRooms and roomUsers
  phase,        \* each socket's readyState, and who closes it
  named,        \* the sockets with a userId: their handshake succeeded
  userSockets,  \* SocketManager.userSockets
  joining,      \* joins that wait for assertRoomMember, as <<socket, room>>
  pending,      \* per socket, rooms its disconnect loop still has to tell
  out           \* the presence update broadcast by the last step, if any

vars == <<maps, phase, named, userSockets, joining, pending, out>>

\* "timedOut" is CLOSING by the authentication timeout: the server has sent its
\* close frame and still receives what the peer sent before.
Phase == {"new", "open", "timedOut", "closing", "closed"}

Maps == [roomSockets : [Rooms -> SUBSET Sockets],
         socketRooms : [Sockets -> SUBSET Rooms],
         roomUsers   : [Rooms -> [Users -> SUBSET Sockets]]]

Silent == [status |-> "none"]
Presence(u, r, st) == [status |-> st, user |-> u, room |-> r]
Presences == [status : {"online", "offline"}, user : Users, room : Rooms]

TypeOK ==
  /\ maps \in Maps
  /\ phase \in [Sockets -> Phase]
  /\ named \subseteq Sockets
  /\ userSockets \in [Users -> SUBSET Sockets]
  /\ joining \subseteq Sockets \X Rooms
  /\ pending \in [Sockets -> SUBSET Rooms]
  /\ out \in Presences \cup {Silent}

-----------------------------------------------------------------------------
(* RoomManager's methods, as functions of the three maps.                  *)

JoinRoom(m, r, s) ==
  [roomSockets |-> [m.roomSockets EXCEPT ![r] = @ \cup {s}],
   socketRooms |-> [m.socketRooms EXCEPT ![s] = @ \cup {r}],
   roomUsers   |-> [m.roomUsers EXCEPT ![r][UserOf[s]] = @ \cup {s}]]

WasFirstSocket(m, r, s) == m.roomUsers[r][UserOf[s]] = {}

LeaveRoom(m, r, s) ==
  [roomSockets |-> [m.roomSockets EXCEPT ![r] = @ \ {s}],
   socketRooms |-> [m.socketRooms EXCEPT ![s] = @ \ {r}],
   roomUsers   |-> [m.roomUsers EXCEPT ![r][UserOf[s]] = @ \ {s}]]

\* Mutant of WasLastSocket: looks before the socket is taken out.
WasLastSocketTooEarly(m, r, s) == m.roomUsers[r][UserOf[s]] = {}

\* The user had sockets in the room and s was the only one.
WasLastSocket(m, r, s) == m.roomUsers[r][UserOf[s]] = {s}

\* removeSocket for every socket of S: leaveRoom on each room that
\* socketRooms lists for it.
RemoveSockets(m, S) ==
  [roomSockets |-> [r \in Rooms |->
      {s \in m.roomSockets[r] : ~(s \in S /\ r \in m.socketRooms[s])}],
   socketRooms |-> [s \in Sockets |-> IF s \in S THEN {} ELSE m.socketRooms[s]],
   roomUsers   |-> [r \in Rooms |-> [u \in Users |->
      {s \in m.roomUsers[r][u] :
          ~(s \in S /\ r \in m.socketRooms[s] /\ UserOf[s] = u)}]]]

\* The rooms removeSocket(s) returns: those whose user left with s.
OfflineRooms(m, s) == {r \in m.socketRooms[s] : WasLastSocket(m, r, s)}

\* broadCast(r, _): every socket of r that is not OPEN is removed from all
\* its rooms, and what removeSocket returns is dropped.
Dead(m, r) == {s \in m.roomSockets[r] : phase[s] # "open"}
BroadCast(m, r) == RemoveSockets(m, Dead(m, r))

-----------------------------------------------------------------------------
Init ==
  /\ maps = [roomSockets |-> [r \in Rooms |-> {}],
             socketRooms |-> [s \in Sockets |-> {}],
             roomUsers   |-> [r \in Rooms |-> [u \in Users |-> {}]]]
  /\ phase = [s \in Sockets |-> "new"]
  /\ named = {}
  /\ userSockets = [u \in Users |-> {}]
  /\ joining = {}
  /\ pending = [s \in Sockets |-> {}]
  /\ out = Silent

Receiving(s) == phase[s] \in {"open", "timedOut"}

HandleConnection(s) ==
  /\ phase[s] = "new"
  /\ phase' = [phase EXCEPT ![s] = "open"]
  /\ out' = Silent
  /\ UNCHANGED <<maps, named, userSockets, joining, pending>>

\* Mutant of Authenticate: a second tab replaces the first in the registry.
AuthenticateReplacing(s) ==
  /\ Receiving(s)
  /\ s \notin named
  /\ named' = named \cup {s}
  /\ userSockets' = [userSockets EXCEPT ![UserOf[s]] = {s}]
  /\ out' = Silent
  /\ UNCHANGED <<maps, phase, joining, pending>>

\* The handshake verifies the token and registers the socket, in one turn of
\* the event loop.  The timeout may have started to close the socket.
Authenticate(s) ==
  /\ Receiving(s)
  /\ s \notin named
  /\ named' = named \cup {s}
  /\ userSockets' = [userSockets EXCEPT ![UserOf[s]] = @ \cup {s}]
  /\ out' = Silent
  /\ UNCHANGED <<maps, phase, joining, pending>>

\* No handshake within AUTH_TIMEOUT_MS.
AuthTimeout(s) ==
  /\ phase[s] = "open"
  /\ s \notin named
  /\ phase' = [phase EXCEPT ![s] = "timedOut"]
  /\ out' = Silent
  /\ UNCHANGED <<maps, named, userSockets, joining, pending>>

\* The socket starts to close and no message of it is handled any more: a bad
\* handshake (isAuthenticating stays set), the peer's close frame, a dropped
\* connection, the heartbeat's terminate.
StartClose(s) ==
  /\ Receiving(s)
  /\ phase' = [phase EXCEPT ![s] = "closing"]
  /\ out' = Silent
  /\ UNCHANGED <<maps, named, userSockets, joining, pending>>

RequestJoin(s, r) ==
  /\ Receiving(s)
  /\ s \in named
  /\ joining' = joining \cup {<<s, r>>}
  /\ out' = Silent
  /\ UNCHANGED <<maps, phase, named, userSockets, pending>>

\* assertRoomMember resolved.  The socket may have closed in the meantime:
\* nothing looks at its state before joinRoom.
JoinGranted(s, r) ==
  LET joined == JoinRoom(maps, r, s) IN
  /\ <<s, r>> \in joining
  /\ joining' = joining \ {<<s, r>>}
  /\ \/ /\ WasFirstSocket(maps, r, s)
        /\ maps' = BroadCast(joined, r)
        /\ out' = Presence(UserOf[s], r, "online")
     \/ /\ ~WasFirstSocket(maps, r, s)
        /\ maps' = joined
        /\ out' = Silent
  /\ UNCHANGED <<phase, named, userSockets, pending>>

\* assertRoomMember rejected: not a member, or the query failed.
JoinDenied(s, r) ==
  /\ <<s, r>> \in joining
  /\ joining' = joining \ {<<s, r>>}
  /\ out' = Silent
  /\ UNCHANGED <<maps, phase, named, userSockets, pending>>

HandleRoomLeave(s, r) ==
  LET left == LeaveRoom(maps, r, s) IN
  /\ Receiving(s)
  /\ s \in named
  /\ \/ /\ WasLastSocket(maps, r, s)
        /\ maps' = BroadCast(left, r)
        /\ out' = Presence(UserOf[s], r, "offline")
     \/ /\ ~WasLastSocket(maps, r, s)
        /\ maps' = left
        /\ out' = Silent
  /\ UNCHANGED <<phase, named, userSockets, joining, pending>>

\* Rooms told by handleDisconnect: those removeSocket returned or, when it
\* returned none, every room the socket was in.
RoomsToTell(m, s) ==
  IF OfflineRooms(m, s) # {} THEN OfflineRooms(m, s) ELSE m.socketRooms[s]

\* The close event: handleDisconnect up to its first await, which comes after
\* the first room's broadcast.  Without a userId it does not run.
HandleDisconnect(s) ==
  LET removed == RemoveSockets(maps, {s})
      rooms   == RoomsToTell(maps, s)
      u       == UserOf[s]
  IN
  /\ phase[s] \in {"closing", "timedOut"}
  /\ s \in named
  /\ phase' = [phase EXCEPT ![s] = "closed"]
  /\ userSockets' = [userSockets EXCEPT ![u] = @ \ {s}]
  /\ \/ /\ rooms = {}
        /\ maps' = removed
        /\ out' = Silent
        /\ UNCHANGED pending
     \/ \E r \in rooms :
          /\ maps' = BroadCast(removed, r)
          /\ out' = Presence(u, r, "offline")
          /\ pending' = [pending EXCEPT ![s] = rooms \ {r}]
  /\ UNCHANGED <<named, joining>>

CloseUnnamed(s) ==
  /\ phase[s] \in {"closing", "timedOut"}
  /\ s \notin named
  /\ phase' = [phase EXCEPT ![s] = "closed"]
  /\ out' = Silent
  /\ UNCHANGED <<maps, named, userSockets, joining, pending>>

\* The publish to Redis settled: the loop goes on with the next room.
ContinueDisconnect(s) ==
  /\ \E r \in pending[s] :
       /\ maps' = BroadCast(maps, r)
       /\ out' = Presence(UserOf[s], r, "offline")
       /\ pending' = [pending EXCEPT ![s] = @ \ {r}]
  /\ UNCHANGED <<phase, named, userSockets, joining>>

\* Any other event for the room: a drawing, a chat message, typing, an event
\* received from Redis.
BroadcastOther(r) ==
  /\ maps' = BroadCast(maps, r)
  /\ out' = Silent
  /\ UNCHANGED <<phase, named, userSockets, joining, pending>>

Next ==
  \/ \E s \in Sockets :
       \/ HandleConnection(s)
       \/ Authenticate(s)
       \/ AuthTimeout(s)
       \/ StartClose(s)
       \/ HandleDisconnect(s)
       \/ CloseUnnamed(s)
       \/ ContinueDisconnect(s)
       \/ \E r \in Rooms :
            \/ RequestJoin(s, r)
            \/ JoinGranted(s, r)
            \/ JoinDenied(s, r)
            \/ HandleRoomLeave(s, r)
  \/ \E r \in Rooms : BroadcastOther(r)

Spec == Init /\ [][Next]_vars

-----------------------------------------------------------------------------
(* What must hold.                                                         *)

\* roomSockets, socketRooms and roomUsers are three indexes of one relation,
\* updated one after the other by joinRoom, leaveRoom, removeSocket and the
\* purge inside broadCast: a socket is in all three or in none, and in
\* roomUsers only under its own user.
IndexesAgree ==
  \A r \in Rooms, s \in Sockets :
    /\ s \in maps.roomSockets[r] <=> r \in maps.socketRooms[s]
    /\ \A u \in Users :
         s \in maps.roomUsers[r][u] <=> s \in maps.roomSockets[r] /\ UserOf[s] = u

\* sendToUser reaches exactly the sockets that authenticated and whose close
\* event has not been handled, also when the handshake overtakes its timeout.
RegistryExact ==
  \A u \in Users :
    userSockets[u] = {s \in named : UserOf[s] = u /\ phase[s] # "closed"}

\* A socket without a userId is in no room and on its way into none: close
\* events skip handleDisconnect for it, so nobody would take it out.
UnnamedNowhere ==
  \A s \in Sockets \ named, r \in Rooms :
    /\ r \notin maps.socketRooms[s]
    /\ <<s, r>> \notin joining

\* The last socket of user u in room r goes away in this step.
Departs(r, u) == maps.roomUsers[r][u] # {} /\ maps'.roomUsers[r][u] = {}

\* The room is told, or the disconnect loop of a socket of u still has it to do.
Announced(r, u) ==
  \/ out' = Presence(u, r, "offline")
  \/ \E s \in Sockets : UserOf[s] = u /\ r \in pending'[s]

\* A user does not vanish from a room by his own act, leaving it or closing
\* the socket, without an offline update for the room, whatever other tabs,
\* ghosts and purges do.
NoSilentDeparture ==
  [][\A r \in Rooms, u \in Users :
       /\ Departs(r, u)
       /\ \E s \in maps.roomUsers[r][u] :
            \/ phase[s] = "open"
            \/ phase[s] # "closed" /\ phase'[s] = "closed"
       => Announced(r, u)]_vars

\* What the BUG-3 comment of broadCast is after: no purge of dead sockets may
\* orphan presence, i.e. whoever leaves a room is announced.
NoOrphanedPresence ==
  [][\A r \in Rooms, u \in Users : Departs(r, u) => Announced(r, u)]_vars

\* An offline update is true when it is broadcast: the user has no socket left
\* in the room, so in particular no other tab of the user receives it (what
\* the BUG-5 comment of handleDisconnect is after).
OfflineIsTrue ==
  out.status = "offline" => maps.roomUsers[out.room][out.user] = {}

=============================================================================
