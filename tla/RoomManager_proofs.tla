------------------------- MODULE RoomManager_proofs -------------------------
(***************************************************************************)
(* The three indexes of RoomManager agree, the registry is exact, and no   *)
(* user leaves a room in silence by his own act, for any number of         *)
(* sockets, users and rooms.                                               *)
(*                                                                         *)
(* The invariant is Inv, the conjunction of the invariants of the runs: it *)
(* is inductive as it stands.  RegistryExact needs that a closed socket    *)
(* never authenticates, IndexesAgree needs nothing but itself, and         *)
(* UnnamedNowhere needs that a join waits only for a named socket.         *)
(***************************************************************************)
EXTENDS RoomManager, TLAPS

Inv == TypeOK /\ IndexesAgree /\ RegistryExact /\ UnnamedNowhere

\* IndexesAgree, of any value of the three maps.
Agree(m) ==
  \A r \in Rooms, s \in Sockets :
    /\ s \in m.roomSockets[r] <=> r \in m.socketRooms[s]
    /\ \A u \in Users :
         s \in m.roomUsers[r][u] <=> s \in m.roomSockets[r] /\ UserOf[s] = u

-----------------------------------------------------------------------------
(* The methods of RoomManager.                                             *)

\* joinRoom keeps the indexes in agreement, and adds a pair at most.
LEMMA JoinRoomAgrees ==
  ASSUME NEW m \in Maps, Agree(m), NEW r \in Rooms, NEW s \in Sockets
  PROVE  /\ JoinRoom(m, r, s) \in Maps
         /\ Agree(JoinRoom(m, r, s))
         /\ \A t \in Sockets : \A q \in JoinRoom(m, r, s).socketRooms[t] :
              q \in m.socketRooms[t] \/ (t = s /\ q = r)
         /\ \A q \in Rooms, u \in Users :
              m.roomUsers[q][u] \subseteq JoinRoom(m, r, s).roomUsers[q][u]
<1>1. UserOf[s] \in Users
  BY UserOfAssumption
<1>2. JoinRoom(m, r, s) \in Maps
  BY <1>1 DEF JoinRoom, Maps
<1>3. Agree(JoinRoom(m, r, s))
  BY <1>1 DEF JoinRoom, Maps, Agree
<1>4. QED
  BY <1>1, <1>2, <1>3 DEF JoinRoom, Maps

\* leaveRoom keeps the indexes in agreement, and removes a pair at most.
LEMMA LeaveRoomAgrees ==
  ASSUME NEW m \in Maps, Agree(m), NEW r \in Rooms, NEW s \in Sockets
  PROVE  /\ LeaveRoom(m, r, s) \in Maps
         /\ Agree(LeaveRoom(m, r, s))
         /\ \A t \in Sockets :
              LeaveRoom(m, r, s).socketRooms[t] \subseteq m.socketRooms[t]
         /\ \A q \in Rooms, u \in Users :
              /\ ~(q = r /\ u = UserOf[s]) =>
                   LeaveRoom(m, r, s).roomUsers[q][u] = m.roomUsers[q][u]
              /\ m.roomUsers[q][u] \ {s} \subseteq LeaveRoom(m, r, s).roomUsers[q][u]
<1>1. UserOf[s] \in Users
  BY UserOfAssumption
<1>2. LeaveRoom(m, r, s) \in Maps
  BY <1>1 DEF LeaveRoom, Maps
<1>3. Agree(LeaveRoom(m, r, s))
  BY <1>1 DEF LeaveRoom, Maps, Agree
<1>4. QED
  BY <1>1, <1>2, <1>3 DEF LeaveRoom, Maps

\* removeSocket, on indexes in agreement, takes exactly the sockets given out
\* of every room, and the indexes still agree.
LEMMA RemoveSocketsAgrees ==
  ASSUME NEW m \in Maps, Agree(m), NEW S \in SUBSET Sockets
  PROVE  /\ RemoveSockets(m, S) \in Maps
         /\ Agree(RemoveSockets(m, S))
         /\ \A t \in Sockets :
              RemoveSockets(m, S).socketRooms[t] \subseteq m.socketRooms[t]
         /\ \A q \in Rooms :
              RemoveSockets(m, S).roomSockets[q] = m.roomSockets[q] \ S
         /\ \A q \in Rooms, u \in Users :
              RemoveSockets(m, S).roomUsers[q][u] = m.roomUsers[q][u] \ S
<1> DEFINE R == RemoveSockets(m, S)
<1>1. /\ m.roomSockets \in [Rooms -> SUBSET Sockets]
      /\ m.socketRooms \in [Sockets -> SUBSET Rooms]
      /\ m.roomUsers \in [Rooms -> [Users -> SUBSET Sockets]]
  BY DEF Maps
<1>2. R \in Maps
  BY <1>1 DEF RemoveSockets, Maps
<1>3. \A q \in Rooms : R.roomSockets[q] = m.roomSockets[q] \ S
  BY <1>1 DEF RemoveSockets, Agree
<1>4. \A q \in Rooms, u \in Users : R.roomUsers[q][u] = m.roomUsers[q][u] \ S
  <2> TAKE q \in Rooms, u \in Users
  <2>1. R.roomUsers[q][u] =
          {s \in m.roomUsers[q][u] : ~(s \in S /\ q \in m.socketRooms[s] /\ UserOf[s] = u)}
    BY DEF RemoveSockets
  <2>2. \A s \in m.roomUsers[q][u] : q \in m.socketRooms[s] /\ UserOf[s] = u
    BY <1>1 DEF Agree
  <2>3. QED
    BY <2>1, <2>2
<1>5. \A t \in Sockets : R.socketRooms[t] = IF t \in S THEN {} ELSE m.socketRooms[t]
  BY DEF RemoveSockets
<1>6. Agree(R)
  BY <1>1, <1>3, <1>4, <1>5 DEF Agree
<1>7. QED
  BY <1>1, <1>2, <1>3, <1>4, <1>5, <1>6

\* broadCast keeps the indexes in agreement and takes out sockets that are not
\* open, only those of the room it is for.
LEMMA BroadCastAgrees ==
  ASSUME NEW m \in Maps, Agree(m), NEW r \in Rooms
  PROVE  /\ BroadCast(m, r) \in Maps
         /\ Agree(BroadCast(m, r))
         /\ \A t \in Sockets : BroadCast(m, r).socketRooms[t] \subseteq m.socketRooms[t]
         /\ \A q \in Rooms, u \in Users :
              BroadCast(m, r).roomUsers[q][u] = m.roomUsers[q][u] \ Dead(m, r)
<1>1. Dead(m, r) \in SUBSET Sockets
  BY DEF Dead, Maps
<1>2. QED
  BY <1>1, RemoveSocketsAgrees DEF BroadCast

-----------------------------------------------------------------------------
(* The invariant.                                                          *)

LEMMA InitInv == Init => Inv
  BY UserOfAssumption DEF Init, Inv, TypeOK, Maps, Phase, Silent, IndexesAgree,
                          RegistryExact, UnnamedNowhere

\* Where the maps come from broadCast, joinRoom and leaveRoom, the indexes
\* stay in agreement and no socket without a name enters a room.
LEMMA MapsInv ==
  ASSUME TypeOK, IndexesAgree, [Next]_vars
  PROVE  maps' \in Maps /\ Agree(maps')
<1>1. maps \in Maps /\ Agree(maps)
  BY DEF TypeOK, IndexesAgree, Agree
<1>2. ASSUME NEW r \in Rooms, maps' = BroadCast(maps, r)
      PROVE  maps' \in Maps /\ Agree(maps')
  BY <1>1, <1>2, BroadCastAgrees
<1>3. ASSUME NEW s \in Sockets, NEW r \in Rooms, JoinGranted(s, r)
      PROVE  maps' \in Maps /\ Agree(maps')
  <2>1. JoinRoom(maps, r, s) \in Maps /\ Agree(JoinRoom(maps, r, s))
    BY <1>1, JoinRoomAgrees
  <2>2. QED
    BY <1>3, <2>1, BroadCastAgrees DEF JoinGranted
<1>4. ASSUME NEW s \in Sockets, NEW r \in Rooms, HandleRoomLeave(s, r)
      PROVE  maps' \in Maps /\ Agree(maps')
  <2>1. LeaveRoom(maps, r, s) \in Maps /\ Agree(LeaveRoom(maps, r, s))
    BY <1>1, LeaveRoomAgrees
  <2>2. QED
    BY <1>4, <2>1, BroadCastAgrees DEF HandleRoomLeave
<1>5. ASSUME NEW s \in Sockets, HandleDisconnect(s)
      PROVE  maps' \in Maps /\ Agree(maps')
  <2>1. RemoveSockets(maps, {s}) \in Maps /\ Agree(RemoveSockets(maps, {s}))
    BY <1>1, RemoveSocketsAgrees
  <2>2. RoomsToTell(maps, s) \subseteq Rooms
    BY <1>1 DEF RoomsToTell, OfflineRooms, Maps
  <2>3. QED
    BY <1>5, <2>1, <2>2, BroadCastAgrees DEF HandleDisconnect
<1>6. ASSUME NEW s \in Sockets, ContinueDisconnect(s)
      PROVE  maps' \in Maps /\ Agree(maps')
  <2>1. pending[s] \subseteq Rooms
    BY DEF TypeOK
  <2>2. QED
    BY <1>2, <1>6, <2>1 DEF ContinueDisconnect
<1>7. maps' = maps => maps' \in Maps /\ Agree(maps')
  BY <1>1
<1>8. QED
  BY <1>2, <1>3, <1>4, <1>5, <1>6, <1>7
     DEF Next, vars, HandleConnection, Authenticate, AuthTimeout, StartClose,
         CloseUnnamed, RequestJoin, JoinDenied, BroadcastOther

\* No step but a granted join lets a socket into a room.
LEMMA RoomsOnlyByJoin ==
  ASSUME TypeOK, IndexesAgree, [Next]_vars,
         NEW t \in Sockets, NEW q \in maps'.socketRooms[t] \ maps.socketRooms[t]
  PROVE  <<t, q>> \in joining
<1>1. maps \in Maps /\ Agree(maps)
  BY DEF TypeOK, IndexesAgree, Agree
<1>2. ASSUME NEW r \in Rooms, maps' = BroadCast(maps, r) PROVE FALSE
  BY <1>1, <1>2, BroadCastAgrees
<1>3. ASSUME NEW s \in Sockets, NEW r \in Rooms, JoinGranted(s, r)
      PROVE  <<t, q>> \in joining
  <2>1. /\ JoinRoom(maps, r, s) \in Maps /\ Agree(JoinRoom(maps, r, s))
        /\ \A x \in JoinRoom(maps, r, s).socketRooms[t] :
             x \in maps.socketRooms[t] \/ (t = s /\ x = r)
    BY <1>1, JoinRoomAgrees
  <2> DEFINE joined == JoinRoom(maps, r, s)
  <2>2. BroadCast(joined, r).socketRooms[t] \subseteq joined.socketRooms[t]
    BY <2>1, BroadCastAgrees
  <2>3. q \in joined.socketRooms[t]
    BY <1>3, <2>2 DEF JoinGranted
  <2>4. t = s /\ q = r
    BY <2>1, <2>3
  <2>5. QED
    BY <1>3, <2>4 DEF JoinGranted
<1>4. ASSUME NEW s \in Sockets, NEW r \in Rooms, HandleRoomLeave(s, r)
      PROVE  FALSE
  <2> DEFINE left == LeaveRoom(maps, r, s)
  <2>1. left \in Maps /\ Agree(left) /\ left.socketRooms[t] \subseteq maps.socketRooms[t]
    BY <1>1, LeaveRoomAgrees
  <2>2. BroadCast(left, r).socketRooms[t] \subseteq left.socketRooms[t]
    BY <2>1, BroadCastAgrees
  <2>3. QED
    BY <1>4, <2>1, <2>2 DEF HandleRoomLeave
<1>5. ASSUME NEW s \in Sockets, HandleDisconnect(s) PROVE FALSE
  <2> DEFINE removed == RemoveSockets(maps, {s})
  <2>1. /\ removed \in Maps /\ Agree(removed)
        /\ removed.socketRooms[t] \subseteq maps.socketRooms[t]
    BY <1>1, RemoveSocketsAgrees
  <2>2. RoomsToTell(maps, s) \subseteq Rooms
    BY <1>1 DEF RoomsToTell, OfflineRooms, Maps
  <2>3. \A r \in Rooms : BroadCast(removed, r).socketRooms[t] \subseteq removed.socketRooms[t]
    BY <2>1, BroadCastAgrees
  <2>4. QED
    BY <1>5, <2>1, <2>2, <2>3 DEF HandleDisconnect
<1>6. ASSUME NEW s \in Sockets, ContinueDisconnect(s) PROVE FALSE
  <2>1. pending[s] \subseteq Rooms
    BY DEF TypeOK
  <2>2. QED
    BY <1>2, <1>6, <2>1 DEF ContinueDisconnect
<1>7. QED
  BY <1>2, <1>3, <1>4, <1>5, <1>6
     DEF Next, vars, HandleConnection, Authenticate, AuthTimeout, StartClose,
         CloseUnnamed, RequestJoin, JoinDenied, BroadcastOther

-----------------------------------------------------------------------------
\* Every step keeps every part of the invariant.
LEMMA StepInv == Inv /\ [Next]_vars => Inv'
<1> SUFFICES ASSUME Inv, [Next]_vars PROVE Inv'
  OBVIOUS
<1> USE DEF Inv
<1>1. maps' \in Maps /\ Agree(maps')
  BY MapsInv
<1>2. TypeOK'
  <2> USE UserOfAssumption DEF TypeOK
  <2> DEFINE Typed == TypeOK'
  <2>1. ASSUME NEW s \in Sockets, HandleConnection(s) \/ AuthTimeout(s) \/ StartClose(s)
        PROVE  Typed
    BY <1>1, <2>1 DEF HandleConnection, AuthTimeout, StartClose, Phase
  <2>2. ASSUME NEW s \in Sockets, Authenticate(s) PROVE Typed
    BY <1>1, <2>2 DEF Authenticate
  <2>3. ASSUME NEW s \in Sockets, HandleDisconnect(s) PROVE Typed
    <3>1. RoomsToTell(maps, s) \subseteq Rooms
      BY DEF Maps, RoomsToTell, OfflineRooms
    <3>2. out' \in Presences \cup {Silent} /\ pending' \in [Sockets -> SUBSET Rooms]
      BY <2>3, <3>1 DEF HandleDisconnect, Presence, Presences
    <3>3. phase' \in [Sockets -> Phase] /\ userSockets' \in [Users -> SUBSET Sockets]
      BY <2>3 DEF HandleDisconnect, Phase
    <3>4. QED
      BY <1>1, <2>3, <3>2, <3>3 DEF HandleDisconnect
  <2>4. ASSUME NEW s \in Sockets, CloseUnnamed(s) PROVE Typed
    BY <1>1, <2>4 DEF CloseUnnamed, Phase
  <2>5. ASSUME NEW s \in Sockets, ContinueDisconnect(s) PROVE Typed
    BY <1>1, <2>5 DEF ContinueDisconnect, Presence, Presences
  <2>6. ASSUME NEW s \in Sockets, NEW r \in Rooms, RequestJoin(s, r) PROVE Typed
    BY <1>1, <2>6 DEF RequestJoin
  <2>7. ASSUME NEW s \in Sockets, NEW r \in Rooms, JoinGranted(s, r) PROVE Typed
    BY <1>1, <2>7 DEF JoinGranted, Presence, Presences
  <2>8. ASSUME NEW s \in Sockets, NEW r \in Rooms, JoinDenied(s, r) PROVE Typed
    BY <1>1, <2>8 DEF JoinDenied
  <2>9. ASSUME NEW s \in Sockets, NEW r \in Rooms, HandleRoomLeave(s, r) PROVE Typed
    BY <1>1, <2>9 DEF HandleRoomLeave, Presence, Presences
  <2>10. ASSUME NEW r \in Rooms, BroadcastOther(r) PROVE Typed
    BY <1>1, <2>10 DEF BroadcastOther
  <2>11. CASE UNCHANGED vars
    BY <2>11 DEF vars
  <2>12. QED
    BY <2>1, <2>2, <2>3, <2>4, <2>5, <2>6, <2>7, <2>8, <2>9, <2>10, <2>11 DEF Next
<1>3. IndexesAgree'
  BY <1>1 DEF Agree, IndexesAgree
<1>4. RegistryExact'
  <2> SUFFICES ASSUME NEW u \in Users
               PROVE  userSockets'[u] =
                        {s \in named' : UserOf[s] = u /\ phase'[s] # "closed"}
    BY DEF RegistryExact
  <2> USE UserOfAssumption DEF TypeOK, RegistryExact
  <2>1. CASE named' = named /\ userSockets' = userSockets /\ phase' = phase
    BY <2>1
  <2>2. ASSUME NEW s \in Sockets, HandleConnection(s) \/ AuthTimeout(s) \/ StartClose(s)
        PROVE  userSockets'[u] = {x \in named' : UserOf[x] = u /\ phase'[x] # "closed"}
    BY <2>2 DEF HandleConnection, AuthTimeout, StartClose, Receiving
  <2>3. ASSUME NEW s \in Sockets, Authenticate(s)
        PROVE  userSockets'[u] = {x \in named' : UserOf[x] = u /\ phase'[x] # "closed"}
    BY <2>3 DEF Authenticate, Receiving
  <2>4. ASSUME NEW s \in Sockets, HandleDisconnect(s)
        PROVE  userSockets'[u] = {x \in named' : UserOf[x] = u /\ phase'[x] # "closed"}
    BY <2>4 DEF HandleDisconnect
  <2>5. ASSUME NEW s \in Sockets, CloseUnnamed(s)
        PROVE  userSockets'[u] = {x \in named' : UserOf[x] = u /\ phase'[x] # "closed"}
    BY <2>5 DEF CloseUnnamed
  <2>6. QED
    BY <2>1, <2>2, <2>3, <2>4, <2>5
       DEF Next, vars, ContinueDisconnect, RequestJoin, JoinGranted, JoinDenied,
           HandleRoomLeave, BroadcastOther
<1>5. UnnamedNowhere'
  <2>1. named \subseteq named'
    BY DEF Next, vars, HandleConnection, Authenticate, AuthTimeout, StartClose,
           HandleDisconnect, CloseUnnamed, ContinueDisconnect, RequestJoin,
           JoinGranted, JoinDenied, HandleRoomLeave, BroadcastOther
  <2>2. \A s \in Sockets, r \in Rooms :
          <<s, r>> \in joining' \ joining => s \in named
    BY DEF Next, vars, HandleConnection, Authenticate, AuthTimeout, StartClose,
           HandleDisconnect, CloseUnnamed, ContinueDisconnect, RequestJoin,
           JoinGranted, JoinDenied, HandleRoomLeave, BroadcastOther
  <2>3. \A s \in Sockets \ named, r \in Rooms : r \notin maps'.socketRooms[s]
    BY RoomsOnlyByJoin DEF UnnamedNowhere
  <2>4. QED
    BY <2>1, <2>2, <2>3 DEF UnnamedNowhere
<1>6. QED
  BY <1>2, <1>3, <1>4, <1>5

\* Type correctness.
THEOREM TypeCorrect == Spec => []TypeOK
<1>1. Inv => TypeOK
  BY DEF Inv
<1> QED
  BY <1>1, InitInv, StepInv, PTL DEF Spec

\* roomSockets, socketRooms and roomUsers always describe one relation.
THEOREM IndexesAlwaysAgree == Spec => []IndexesAgree
<1>1. Inv => IndexesAgree
  BY DEF Inv
<1> QED
  BY <1>1, InitInv, StepInv, PTL DEF Spec

\* SocketManager's registry lists exactly the live, authenticated sockets.
THEOREM RegistryAlwaysExact == Spec => []RegistryExact
<1>1. Inv => RegistryExact
  BY DEF Inv
<1> QED
  BY <1>1, InitInv, StepInv, PTL DEF Spec

\* A socket that never authenticated is in no room.
THEOREM UnnamedAlwaysNowhere == Spec => []UnnamedNowhere
<1>1. Inv => UnnamedNowhere
  BY DEF Inv
<1> QED
  BY <1>1, InitInv, StepInv, PTL DEF Spec

-----------------------------------------------------------------------------
(* No silent departure.                                                    *)

\* In a broadcast only sockets that are not open leave, so a user who has an
\* open socket in the room stays.
LEMMA OpenSurvivesBroadCast ==
  ASSUME NEW m \in Maps, Agree(m), NEW r \in Rooms,
         NEW q \in Rooms, NEW u \in Users, NEW t \in m.roomUsers[q][u], phase[t] = "open"
  PROVE  t \in BroadCast(m, r).roomUsers[q][u]
  BY BroadCastAgrees DEF Dead

\* The close event of socket s: either it has other company of its user in the
\* room, which the broadcast of this step does not purge, or the room is told.
LEMMA CloseIsAnnounced ==
  ASSUME TypeOK, IndexesAgree, NEW s \in Sockets, HandleDisconnect(s),
         NEW q \in Rooms, NEW u \in Users,
         s \in maps.roomUsers[q][u], maps'.roomUsers[q][u] = {}
  PROVE  Announced(q, u)
<1> DEFINE removed == RemoveSockets(maps, {s})
           rooms == RoomsToTell(maps, s)
<1>1. maps \in Maps /\ Agree(maps)
  BY DEF TypeOK, IndexesAgree, Agree
<1>2. UserOf[s] = u /\ q \in maps.socketRooms[s] /\ RoomsToTell(maps, s) \subseteq Rooms
  BY <1>1 DEF Agree, Maps, RoomsToTell, OfflineRooms
<1>3. /\ removed \in Maps /\ Agree(removed)
      /\ \A x \in Rooms : removed.roomSockets[x] = maps.roomSockets[x] \ {s}
      /\ \A x \in Rooms, y \in Users : removed.roomUsers[x][y] = maps.roomUsers[x][y] \ {s}
  BY <1>1, RemoveSocketsAgrees
<1> HIDE DEF removed
<1>4. q \in rooms
  <2>1. CASE OfflineRooms(maps, s) = {}
    BY <1>2, <2>1 DEF RoomsToTell
  <2>2. CASE OfflineRooms(maps, s) # {}
    <3>1. rooms = OfflineRooms(maps, s)
      BY <2>2 DEF RoomsToTell
    <3>2. PICK r \in rooms : maps' = BroadCast(removed, r)
      BY <2>2, <3>1 DEF HandleDisconnect, removed
    <3>3. r \in Rooms /\ maps.roomUsers[r][u] = {s}
      BY <1>2, <3>1 DEF OfflineRooms, WasLastSocket
    <3>4. \A t \in Dead(removed, r) : UserOf[t] # u
      BY <1>1, <1>3, <3>3 DEF Dead, Agree, Maps
    <3>5. \A t \in removed.roomUsers[q][u] : UserOf[t] = u
      BY <1>3 DEF Agree, Maps
    <3>6. maps'.roomUsers[q][u] = removed.roomUsers[q][u] \ Dead(removed, r)
      BY <1>3, <3>2, <3>3, BroadCastAgrees
    <3>7. maps.roomUsers[q][u] = {s}
      BY <1>3, <3>4, <3>5, <3>6
    <3>8. QED
      BY <1>2, <3>1, <3>7 DEF OfflineRooms, WasLastSocket
  <2>3. QED
    BY <2>1, <2>2
<1>5. PICK r \in rooms : /\ out' = Presence(UserOf[s], r, "offline")
                         /\ pending' = [pending EXCEPT ![s] = rooms \ {r}]
  BY <1>4 DEF HandleDisconnect
<1>6. pending'[s] = rooms \ {r}
  BY <1>5 DEF TypeOK
<1>7. QED
  BY <1>2, <1>4, <1>5, <1>6 DEF Announced

\* Leaving a room: the user stays if another socket of his is in it, open or
\* not, and the room is told if there is none.
LEMMA LeaveIsAnnounced ==
  ASSUME TypeOK, IndexesAgree, NEW s \in Sockets, NEW r \in Rooms, HandleRoomLeave(s, r),
         NEW q \in Rooms, NEW u \in Users,
         NEW t \in maps.roomUsers[q][u], phase[t] = "open", maps'.roomUsers[q][u] = {}
  PROVE  Announced(q, u)
<1>1. maps \in Maps /\ Agree(maps)
  BY DEF TypeOK, IndexesAgree, Agree
<1>2. /\ LeaveRoom(maps, r, s) \in Maps /\ Agree(LeaveRoom(maps, r, s))
      /\ \A x \in Rooms, y \in Users :
           /\ ~(x = r /\ y = UserOf[s]) =>
                LeaveRoom(maps, r, s).roomUsers[x][y] = maps.roomUsers[x][y]
           /\ maps.roomUsers[x][y] \ {s} \subseteq LeaveRoom(maps, r, s).roomUsers[x][y]
  BY <1>1, LeaveRoomAgrees
<1> DEFINE left == LeaveRoom(maps, r, s)
<1>3. t \notin left.roomUsers[q][u]
  BY <1>2, OpenSurvivesBroadCast DEF HandleRoomLeave
<1>4. t = s /\ q = r /\ u = UserOf[s]
  BY <1>2, <1>3
<1>5. CASE WasLastSocket(maps, r, s)
  BY <1>4, <1>5 DEF HandleRoomLeave, Announced
<1>6. CASE ~WasLastSocket(maps, r, s)
  <2>1. maps' = left
    BY <1>6 DEF HandleRoomLeave
  <2>2. maps.roomUsers[q][u] \ {s} = {}
    BY <1>2, <1>4, <2>1
  <2>3. QED
    BY <1>4, <1>6, <2>2 DEF WasLastSocket
<1>7. QED
  BY <1>5, <1>6

\* No user vanishes from a room by his own act without an offline update.
THEOREM NeverDepartsSilently == Spec => NoSilentDeparture
<1> DEFINE OwnAct(r, u) ==
      \E s \in maps.roomUsers[r][u] :
        \/ phase[s] = "open"
        \/ phase[s] # "closed" /\ phase'[s] = "closed"
<1>1. ASSUME Inv, [Next]_vars, NEW q \in Rooms, NEW u \in Users,
             Departs(q, u), OwnAct(q, u)
      PROVE  Announced(q, u)
  <2>1. maps \in Maps /\ Agree(maps) /\ TypeOK /\ IndexesAgree
    BY <1>1 DEF Inv, TypeOK, IndexesAgree, Agree
  <2>2. maps.roomUsers[q][u] \subseteq Sockets /\ maps'.roomUsers[q][u] = {}
    BY <1>1, <2>1 DEF Maps, Departs
  <2>3. CASE maps' = maps
    BY <1>1, <2>3 DEF Departs
  <2>4. CASE \E r \in Rooms : maps' = BroadCast(maps, r) /\ phase' = phase
    BY <1>1, <2>1, <2>2, <2>4, OpenSurvivesBroadCast
  <2>5. ASSUME NEW s \in Sockets, NEW r \in Rooms, JoinGranted(s, r)
        PROVE  FALSE
    <3> DEFINE joined == JoinRoom(maps, r, s)
    <3>1. PICK t \in maps.roomUsers[q][u] : phase[t] = "open"
      BY <1>1, <2>5 DEF JoinGranted
    <3>2. joined \in Maps /\ Agree(joined) /\ t \in joined.roomUsers[q][u]
      BY <2>1, JoinRoomAgrees
    <3>3. QED
      BY <2>2, <2>5, <3>1, <3>2, OpenSurvivesBroadCast DEF JoinGranted
  <2>6. ASSUME NEW s \in Sockets, NEW r \in Rooms, HandleRoomLeave(s, r)
        PROVE  Announced(q, u)
    BY <1>1, <2>1, <2>2, <2>6, LeaveIsAnnounced DEF HandleRoomLeave
  <2>7. ASSUME NEW s \in Sockets, HandleDisconnect(s)
        PROVE  Announced(q, u)
    <3>1. CASE s \in maps.roomUsers[q][u]
      BY <2>1, <2>2, <2>7, <3>1, CloseIsAnnounced
    <3>2. CASE s \notin maps.roomUsers[q][u]
      <4> DEFINE removed == RemoveSockets(maps, {s})
      <4>1. PICK t \in maps.roomUsers[q][u] : t # s /\ phase[t] = "open"
        BY <1>1, <2>1, <2>2, <2>7, <3>2 DEF HandleDisconnect, TypeOK
      <4>2. removed \in Maps /\ Agree(removed) /\ t \in removed.roomUsers[q][u]
        BY <2>1, <4>1, RemoveSocketsAgrees
      <4>3. RoomsToTell(maps, s) \subseteq Rooms
        BY <2>1 DEF RoomsToTell, OfflineRooms, Maps
      <4>4. t \in maps'.roomUsers[q][u]
        BY <2>7, <4>1, <4>2, <4>3, OpenSurvivesBroadCast DEF HandleDisconnect
      <4>5. QED
        BY <2>2, <4>4
    <3>3. QED
      BY <3>1, <3>2
  <2>8. ASSUME NEW s \in Sockets, ContinueDisconnect(s)
        PROVE  \E r \in Rooms : maps' = BroadCast(maps, r) /\ phase' = phase
    BY <2>1, <2>8 DEF ContinueDisconnect, TypeOK
  <2>9. QED
    BY <1>1, <2>3, <2>4, <2>5, <2>6, <2>7, <2>8
       DEF Next, vars, HandleConnection, Authenticate, AuthTimeout, StartClose,
           CloseUnnamed, RequestJoin, JoinDenied, BroadcastOther
<1>2. Inv /\ [Next]_vars =>
      [\A r \in Rooms, u \in Users :
         /\ Departs(r, u)
         /\ \E s \in maps.roomUsers[r][u] :
              \/ phase[s] = "open"
              \/ phase[s] # "closed" /\ phase'[s] = "closed"
         => Announced(r, u)]_vars
  BY <1>1
<1>3. QED
  BY <1>2, InitInv, StepInv, PTL DEF Spec, NoSilentDeparture

=============================================================================
