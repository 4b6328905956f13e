------------------------------ MODULE RoomPage ------------------------------
(***************************************************************************)
(* A browser tab that shows one room after the other: the socket client    *)
(* (apps/web/src/lib/ws.ts), which all pages share, and the room page      *)
(* (app/room/[roomId]/page.tsx), with the server's side of the socket      *)
(* (socketManager.ts, room.handler.ts) and of membership as the page meets *)
(* it.                                                                     *)
(*                                                                         *)
(* Calls that refresh the token, calls of the join endpoint and reconnect  *)
(* timers outlive the page that made them, and go on for the room it       *)
(* showed; a token at hand is used at once.  The frames of a handshake are *)
(* the join and one read of what the room holds.                           *)
(***************************************************************************)
EXTENDS Sequences, Integers

CONSTANTS Rooms,
          NoRoom,
          Private,     \* the rooms that ask for the host's approval
          MaxVisits,   \* bound: pages opened
          MaxTroubles  \* bound: connections lost or refused, tokens not had, and so on

ASSUME PageAssumption == NoRoom \notin Rooms /\ MaxVisits \in Nat /\ MaxTroubles \in Nat

VARIABLES
  page,      \* the room whose page is mounted
  waiting,   \* isWaiting: the page waits for the host
  approved,  \* the host has approved the user while this page was open
  crossed,   \* a call of a page that had gone opened this socket, or sent on it
  retried,   \* wsAuthRetryRef
  notice,    \* canvasError, as far as it matters here
  status,    \* what is shown of the connection
  client,    \* WSClient: currentRoomId, isAuthorized, pendingMessages
  ws,        \* WSClient: the socket as the browser has it
  toServer, toClient,  \* the frames of that socket on their way
  peer,      \* the server's end: authenticated, and the rooms it has joined
  tokens,    \* the pages for which connectSocket waits for a new token
  timers,    \* the pages that have set a reconnect timer
  joining,   \* the pages that have called the join endpoint
  member,    \* per room, the user's standing at the backend
  visits, troubles

pageVars == <<page, waiting, approved, crossed, retried, notice, status, client, ws, toServer,
              toClient, peer, tokens, timers, joining, member, visits, troubles>>

NoClient == [room |-> NoRoom, authorized |-> FALSE, queue |-> <<>>]
NoPeer == [authenticated |-> FALSE, rooms |-> {}]

Pages == [room : Rooms, visit : 1..MaxVisits]
Here == [room |-> page, visit |-> visits]

Frames ==
  [type : {"auth"}, room : {NoRoom}] \cup [type : {"room:join", "canvas:sync"}, room : Rooms]

PageTypeOK ==
  /\ page \in Rooms \cup {NoRoom} /\ waiting \in BOOLEAN /\ approved \in BOOLEAN
  /\ crossed \in BOOLEAN /\ retried \in BOOLEAN
  /\ notice \in {"none", "join failed", "sign in"}
  /\ status \in {"disconnected", "connecting", "connected"}
  /\ client \in [room : Rooms \cup {NoRoom}, authorized : BOOLEAN, queue : Seq(Frames)]
  /\ ws \in {"none", "connecting", "open", "closed"}
  /\ toServer \in Seq(Frames)
  /\ toClient \in Seq({"auth:ok", "room:joined", "canvas:load", "not a member", "closed",
                       "closed 4401"})
  /\ peer \in [authenticated : BOOLEAN, rooms : SUBSET Rooms]
  /\ tokens \subseteq Pages /\ timers \subseteq Pages /\ joining \subseteq Pages
  /\ member \in [Rooms -> {"no", "pending", "yes"}]
  /\ visits \in 0..MaxVisits /\ troubles \in 0..MaxTroubles

PageInit ==
  /\ page = NoRoom /\ waiting = FALSE /\ approved = FALSE /\ crossed = FALSE
  /\ retried = FALSE /\ notice = "none" /\ status = "disconnected"
  /\ client = NoClient /\ ws = "none" /\ peer = NoPeer
  /\ toServer = <<>> /\ toClient = <<>>
  /\ tokens = {} /\ timers = {} /\ joining = {}
  /\ member = [r \in Rooms |-> "no"]
  /\ visits = 0 /\ troubles = 0

callVars == <<tokens, timers, joining>>
viewVars == <<page, waiting, approved, crossed, retried, notice, status>>
socketVars == <<client, ws, toServer, toClient, peer>>

Trouble == troubles < MaxTroubles /\ troubles' = troubles + 1

-----------------------------------------------------------------------------
(* WSClient.                                                               *)

Handshake(r) == << [type |-> "room:join", room |-> r], [type |-> "canvas:sync", room |-> r] >>

\* Mutant of SendAll: an open socket is taken for an authorized one.
SendAllOpen(frames) ==
  IF ws = "open"
  THEN toServer' = toServer \o frames /\ UNCHANGED client
  ELSE client' = [client EXCEPT !.queue = @ \o frames] /\ UNCHANGED toServer

\* send(): what cannot be sent yet waits for auth:ok; the cap of 100 is not reached here.
SendAll(frames) ==
  IF client.authorized /\ ws = "open"
  THEN toServer' = toServer \o frames /\ UNCHANGED client
  ELSE client' = [client EXCEPT !.queue = @ \o frames] /\ UNCHANGED toServer

\* connect(): nothing to do when a socket for this room is open or opening.
Connect(r) ==
  IF ws \in {"connecting", "open"} /\ client.room = r
  THEN UNCHANGED socketVars
  ELSE /\ client' = [room |-> r, authorized |-> FALSE, queue |-> <<>>]
       /\ ws' = "connecting" /\ peer' = NoPeer
       /\ toServer' = <<>> /\ toClient' = <<>>

Disconnect ==
  /\ client' = NoClient /\ ws' = "none" /\ peer' = NoPeer
  /\ toServer' = <<>> /\ toClient' = <<>>

\* connectSocket() with the token there is, or without.
ConnectSocket(p) ==
  \/ /\ Connect(p.room)
     /\ status' = "connecting"
     /\ UNCHANGED troubles
  \/ /\ Trouble
     /\ status' = "disconnected"
     /\ UNCHANGED socketVars

-----------------------------------------------------------------------------
(* The page.                                                               *)

OpenPage(r) ==
  /\ page = NoRoom /\ notice # "sign in" /\ visits < MaxVisits
  /\ visits' = visits + 1
  /\ page' = r
  /\ waiting' = FALSE /\ approved' = FALSE /\ retried' = FALSE
  /\ ConnectSocket(Here')
  /\ UNCHANGED <<crossed, notice, callVars, member>>

LeavePage ==
  /\ page # NoRoom /\ page' = NoRoom
  /\ Disconnect
  /\ waiting' = FALSE /\ approved' = FALSE /\ crossed' = FALSE /\ notice' = "none"
  /\ UNCHANGED <<retried, status, callVars, member, visits, troubles>>

\* The refresh has ended; the page that asked for it may have gone.
TokenArrives(p) ==
  /\ p \in tokens /\ tokens' = tokens \ {p}
  /\ ConnectSocket(p)
  /\ crossed' = (crossed \/ (page # p.room /\ ws' = "connecting"))
  /\ UNCHANGED <<page, waiting, approved, retried, notice, timers, joining, member, visits>>

\* The timer asks whether the client still has this room and has no socket open.
ReconnectTimer(p) ==
  /\ p \in timers /\ timers' = timers \ {p}
  /\ IF client.room = p.room /\ ws # "open" THEN ConnectSocket(p)
     ELSE UNCHANGED <<status, socketVars, troubles>>
  /\ UNCHANGED <<page, waiting, approved, crossed, retried, notice, tokens, joining, member,
                 visits>>

\* The answer of the join endpoint; a handshake follows when the user is a member now.
JoinAnswered(p) ==
  /\ p \in joining /\ joining' = joining \ {p}
  /\ \/ /\ p.room \in Private /\ member[p.room] # "yes"
        /\ member' = [member EXCEPT ![p.room] = "pending"]
        /\ waiting' = (waiting \/ p = Here)
        /\ UNCHANGED <<crossed, notice, socketVars, troubles>>
     \/ /\ p.room \notin Private \/ member[p.room] = "yes"
        /\ member' = [member EXCEPT ![p.room] = "yes"]
        /\ SendAll(Handshake(p.room))
        /\ crossed' = (crossed \/ page \notin {NoRoom, p.room})
        /\ notice' = IF p = Here THEN "none" ELSE notice
        /\ UNCHANGED <<waiting, ws, toClient, peer, troubles>>
     \/ /\ Trouble
        /\ notice' = IF p = Here THEN "join failed" ELSE notice
        /\ UNCHANGED <<waiting, crossed, socketVars, member>>
  /\ UNCHANGED <<page, approved, retried, status, tokens, timers, visits>>

\* The poll of the waiting page finds the room among the user's.
PollRooms ==
  /\ waiting /\ member[page] = "yes"
  /\ waiting' = FALSE
  /\ tokens' = tokens \cup {Here}
  /\ UNCHANGED <<page, approved, crossed, retried, notice, status, socketVars, timers, joining,
                 member, visits, troubles>>

\* Bound: the user presses Retry when nothing is on its way.
RetryConnection ==
  /\ toServer = <<>> /\ toClient = <<>> /\ client.queue = <<>>
  /\ page # NoRoom /\ ~waiting /\ (status = "disconnected" \/ notice = "join failed")
  /\ notice' = "none"
  /\ IF ws = "open"
     THEN SendAll(Handshake(page)) /\ UNCHANGED <<ws, toClient, peer, status, troubles>>
     ELSE ConnectSocket(Here)
  /\ UNCHANGED <<page, waiting, approved, crossed, retried, callVars, member, visits>>

-----------------------------------------------------------------------------
(* What the socket brings.                                                 *)

SocketOpens ==
  /\ ws = "connecting" /\ ws' = "open"
  /\ toServer' = << [type |-> "auth", room |-> NoRoom] >>
  /\ UNCHANGED <<viewVars, client, toClient, peer, callVars, member, visits, troubles>>

\* A lost socket is tried again after two seconds, if it is still the page's room.
Reconnects ==
  /\ timers' = IF page # NoRoom /\ client.room = page THEN timers \cup {Here} ELSE timers
  /\ status' = IF page # NoRoom THEN "disconnected" ELSE status
  /\ UNCHANGED <<page, waiting, approved, crossed, retried, notice>>

\* onerror and onclose one after the other.
SocketFails ==
  /\ ws = "connecting" /\ ws' = "closed" /\ Trouble
  /\ client' = [client EXCEPT !.authorized = FALSE]
  /\ Reconnects
  /\ UNCHANGED <<toServer, toClient, peer, tokens, joining, member, visits>>

Receives(frame) == toClient # <<>> /\ Head(toClient) = frame /\ toClient' = Tail(toClient)

AuthOk ==
  /\ Receives("auth:ok")
  /\ client' = [client EXCEPT !.authorized = TRUE, !.queue = <<>>]
  /\ toServer' = toServer \o client.queue \o IF page = NoRoom THEN <<>> ELSE Handshake(page)
  /\ IF page = NoRoom THEN UNCHANGED <<retried, notice, status>>
     ELSE retried' = FALSE /\ notice' = "none" /\ status' = "connected"
  /\ UNCHANGED <<page, waiting, approved, crossed, ws, peer, callVars, member, visits, troubles>>

\* Mutant of CanvasLoad: having joined, the page joins.
JoinedJoins ==
  \/ /\ Receives("room:joined")
     /\ SendAll(IF page = NoRoom THEN <<>> ELSE Handshake(page))
     /\ UNCHANGED <<viewVars, ws, peer, callVars, member, visits, troubles>>
  \/ /\ Receives("canvas:load") /\ notice' = "none"
     /\ UNCHANGED <<page, waiting, approved, crossed, retried, status, client, ws, toServer, peer,
                    callVars, member, visits, troubles>>

CanvasLoad ==
  /\ Receives("room:joined") \/ Receives("canvas:load")
  /\ notice' = IF Head(toClient) = "canvas:load" THEN "none" ELSE notice
  /\ UNCHANGED <<page, waiting, approved, crossed, retried, status, client, ws, toServer, peer,
                 callVars, member, visits, troubles>>

\* Mutant of NotAMember: the page takes the error for one it cannot help.
NotAMemberShrugged ==
  /\ Receives("not a member")
  /\ UNCHANGED <<viewVars, client, ws, toServer, peer, callVars, member, visits, troubles>>

\* One call at a time: further errors of a handshake find it in flight.
NotAMember ==
  /\ Receives("not a member")
  /\ joining' = IF page = NoRoom THEN joining ELSE joining \cup {Here}
  /\ UNCHANGED <<viewVars, client, ws, toServer, peer, tokens, timers, member, visits, troubles>>

SocketCloses ==
  /\ Receives("closed")
  /\ ws' = "closed" /\ client' = [client EXCEPT !.authorized = FALSE] /\ toServer' = <<>>
  /\ Reconnects
  /\ UNCHANGED <<peer, tokens, joining, member, visits, troubles>>

\* A refused token is refreshed once; then the browser goes to the sign-in page, and what
\* was under way is gone.
AuthRefused ==
  /\ Receives("closed 4401")
  /\ ws' = "closed" /\ toServer' = <<>>
  /\ IF page # NoRoom /\ retried
     THEN /\ client' = NoClient
          /\ page' = NoRoom /\ notice' = "sign in" /\ waiting' = FALSE /\ approved' = FALSE
          /\ tokens' = {} /\ timers' = {} /\ joining' = {}
          /\ UNCHANGED retried
     ELSE /\ client' = [client EXCEPT !.authorized = FALSE]
          /\ retried' = (retried \/ page # NoRoom)
          /\ tokens' = IF page = NoRoom THEN tokens ELSE tokens \cup {Here}
          /\ UNCHANGED <<page, notice, waiting, approved, timers, joining>>
  /\ UNCHANGED <<crossed, status, peer, member, visits, troubles>>

-----------------------------------------------------------------------------
(* The server.                                                             *)

\* The socket is gone, and the client is about to hear of it.
Dead == \E i \in DOMAIN toClient : toClient[i] \in {"closed", "closed 4401"}

Answer(f) ==
  IF member[f.room] # "yes" THEN "not a member"
  ELSE IF f.type = "room:join" THEN "room:joined" ELSE "canvas:load"

\* The first frame must be the authentication; the socket is closed when it is refused.
ServerReads ==
  /\ ws = "open" /\ ~Dead /\ toServer # <<>>
  /\ LET f == Head(toServer) IN
     \/ /\ f.type = "auth"
        /\ peer' = [peer EXCEPT !.authenticated = TRUE]
        /\ toClient' = Append(toClient, "auth:ok") /\ toServer' = Tail(toServer)
        /\ UNCHANGED troubles
     \/ /\ f.type = "auth" /\ Trouble
        /\ peer' = NoPeer
        /\ toClient' = Append(toClient, "closed 4401") /\ toServer' = <<>>
     \/ /\ f.type # "auth" /\ peer.authenticated
        /\ peer' = [peer EXCEPT !.rooms =
                      IF f.type = "room:join" /\ member[f.room] = "yes"
                      THEN @ \cup {f.room} ELSE @]
        /\ toClient' = Append(toClient, Answer(f)) /\ toServer' = Tail(toServer)
        /\ UNCHANGED troubles
  /\ UNCHANGED <<viewVars, client, ws, callVars, member, visits>>

SocketLost ==
  /\ ws = "open" /\ ~Dead /\ Trouble
  /\ toClient' = Append(toClient, "closed") /\ toServer' = <<>> /\ peer' = NoPeer
  /\ UNCHANGED <<viewVars, client, ws, callVars, member, visits>>

Approve(r) ==
  /\ member[r] = "pending" /\ member' = [member EXCEPT ![r] = "yes"]
  /\ approved' = (approved \/ page = r)
  /\ UNCHANGED <<page, waiting, crossed, retried, notice, status, socketVars, callVars, visits,
                 troubles>>

\* A kick ends the membership; the socket is not told.
Kick(r) ==
  /\ member[r] = "yes" /\ Trouble
  /\ member' = [member EXCEPT ![r] = "no"]
  /\ UNCHANGED <<viewVars, socketVars, callVars, visits>>

PageStep ==
  \/ PollRooms \/ SocketOpens \/ AuthOk \/ CanvasLoad \/ NotAMember \/ SocketCloses
  \/ AuthRefused \/ ServerReads
  \/ \E p \in Pages : TokenArrives(p) \/ ReconnectTimer(p) \/ JoinAnswered(p)

PageNext ==
  \/ PageStep \/ LeavePage \/ RetryConnection \/ SocketFails \/ SocketLost
  \/ \E r \in Rooms : OpenPage(r) \/ Approve(r) \/ Kick(r)

\* Frames, answers and timers come; nobody has to open a page, press a button or approve.
PageFairness == WF_pageVars(PageStep)

PageSpec == PageInit /\ [][PageNext]_pageVars /\ PageFairness

-----------------------------------------------------------------------------

\* Nothing but the authentication reaches the server before it has accepted it: what
\* pages and timers send too early waits, and is not sent on a socket that came later.
NothingBeforeAuth ==
  ~Dead => \A i \in DOMAIN toServer : toServer[i].type # "auth" => peer.authenticated

AtRest ==
  /\ tokens = {} /\ timers = {} /\ joining = {}
  /\ toServer = <<>> /\ toClient = <<>> /\ ws # "connecting"

\* The room is on the screen, and nothing tells the user to do something.
Shown == page # NoRoom /\ ~waiting /\ notice = "none" /\ status # "disconnected"

InRoom == ws = "open" /\ page \in peer.rooms

\* When nothing is under way a page is in its room, or waits for the host, or says what
\* is wrong.  Two cases are left out, for there it may not be: the host approves while the
\* page is open (ApprovedComesIn), and a call of an earlier page has meddled.
PageNotStranded ==
  AtRest /\ Shown /\ ~approved /\ ~crossed => InRoom

\* A guest who stays on the page until the host approves comes into the room.
ApprovedComesIn ==
  AtRest /\ Shown /\ approved /\ ~crossed => InRoom

\* Timers, refreshes and errors come to an end when what goes wrong does, unless the user
\* presses Retry for ever.
PageSettles == []<>AtRest \/ []<><<RetryConnection>>_pageVars

=============================================================================
