---------------------------- MODULE MediaSession ----------------------------
(***************************************************************************)
(* The audio and video session of a room page (MediaPanel.tsx,             *)
(* media.store.ts, livekit.ts): joining, leaving, the devices.             *)
(*                                                                         *)
(* joinMedia awaits the closing of the room it finds, a token, the         *)
(* connection and each device; leaveMedia and the unmounting of the panel  *)
(* await nothing before they clear roomRef, and stop no join under way.    *)
(* Every room object made stays bound to the panel's store.  A call of     *)
(* joinMedia makes at most one room, and the two share a name, 0 is none.  *)
(* The room objects are LiveKit's: they close some time after they are     *)
(* asked to, tell so, and refuse devices once they have.                   *)
(***************************************************************************)
EXTENDS Integers

CONSTANTS MaxCalls,    \* bound: calls of joinMedia
          MaxMishaps,  \* bound: refusals, connections lost, devices that fail
          MaxSwitches  \* bound: uses of the device buttons

ASSUME MediaAssumption == MaxCalls \in Nat /\ MaxMishaps \in Nat /\ MaxSwitches \in Nat

VARIABLES
  phase,      \* per call, what it awaits
  closes,     \* per call, the room whose closing it awaits
  crossed,    \* calls during which the user joined again, left or went, and such joins
  conn,       \* per room, its connection
  devices,    \* per room, the devices that are on
  roomRef,
  view,       \* the store: room, status, and the devices shown
  autoJoin,   \* the browser's note to join when the panel is next mounted
  blocked,    \* audioResumeNeeded
  denoise,    \* noiseSuppression
  mounted, attempted,
  switching,  \* device buttons whose effect is awaited
  mishaps, switches

mediaVars == <<phase, closes, crossed, conn, devices, roomRef, view, autoJoin, blocked,
               denoise, mounted, attempted, switching, mishaps, switches>>

Joins == 1..MaxCalls
Devices == {"mic", "cam", "screen"}
Buttons == [room : Joins, device : Devices, on : BOOLEAN,
            of : {"toggle", "resume", "denoise"}, next : BOOLEAN]

MediaTypeOK ==
  /\ phase \in [Joins -> {"none", "closing", "token", "connecting", "audio", "video",
                          "failing", "done"}]
  /\ closes \in [Joins -> 0..MaxCalls] /\ crossed \subseteq Joins
  /\ conn \in [Joins -> {"none", "connecting", "connected", "reconnecting", "closing",
                         "closed"}]
  /\ devices \in [Joins -> SUBSET Devices]
  /\ roomRef \in 0..MaxCalls
  /\ view \in [room : 0..MaxCalls, devices : SUBSET Devices,
               status : {"idle", "joining", "connected", "reconnecting", "disconnected",
                         "failed"}]
  /\ autoJoin \in BOOLEAN /\ blocked \in BOOLEAN /\ denoise \in BOOLEAN
  /\ mounted \in BOOLEAN /\ attempted \in BOOLEAN
  /\ switching \subseteq Buttons
  /\ mishaps \in 0..MaxMishaps /\ switches \in 0..MaxSwitches

MediaInit ==
  /\ phase = [j \in Joins |-> "none"] /\ closes = [j \in Joins |-> 0] /\ crossed = {}
  /\ conn = [j \in Joins |-> "none"] /\ devices = [j \in Joins |-> {}]
  /\ roomRef = 0 /\ view = [room |-> 0, status |-> "idle", devices |-> {}]
  /\ autoJoin \in BOOLEAN /\ blocked = FALSE /\ denoise = FALSE
  /\ mounted = TRUE /\ attempted = FALSE /\ switching = {}
  /\ mishaps = 0 /\ switches = 0

UnderWay(j) == phase[j] \notin {"none", "done"}
Live(r) == conn[r] \in {"connecting", "connected", "reconnecting"}

\* What connectionStateToMediaStatus makes of a connection.
MediaStatus(c) ==
  CASE c \in {"connected", "closing"} -> "connected"
    [] c = "reconnecting" -> "reconnecting"
    [] c = "connecting" -> "joining"
    [] c \in {"none", "closed"} -> "disconnected"

IsInSession == view.status \in {"connected", "joining", "reconnecting"}

Mishap == mishaps < MaxMishaps /\ mishaps' = mishaps + 1

----------------------------------------------------------------------------
(* The room objects.                                                       *)

\* What disconnect(true) leaves at once; a room that is closed already stays so.
DisconnectRoom(c, r) ==
  [s \in Joins |-> IF s = r /\ c[s] \in {"connecting", "connected", "reconnecting"}
                   THEN "closing" ELSE c[s]]

\* What the store shows after a room has told that it is disconnected.
AfterDisconnected == [room |-> 0, status |-> "disconnected", devices |-> {}]

SyncRoomState(r, c, d) == [view EXCEPT !.status = MediaStatus(c), !.devices = d]

\* Rooms close when they were asked to, or because the connection is lost for good.
RoomCloses(r) ==
  /\ \/ conn[r] = "closing" /\ UNCHANGED mishaps
     \/ conn[r] \in {"connected", "reconnecting"} /\ Mishap
  /\ conn' = [conn EXCEPT ![r] = "closed"] /\ devices' = [devices EXCEPT ![r] = {}]
  /\ view' = AfterDisconnected
  /\ UNCHANGED <<phase, closes, crossed, roomRef, autoJoin, blocked, denoise, mounted,
                 attempted, switching, switches>>

ConnectionWavers(r) ==
  /\ \/ conn[r] = "connected" /\ conn' = [conn EXCEPT ![r] = "reconnecting"] /\ Mishap
     \/ conn[r] = "reconnecting" /\ conn' = [conn EXCEPT ![r] = "connected"]
        /\ UNCHANGED mishaps
  /\ view' = SyncRoomState(r, conn'[r], devices[r])
  /\ UNCHANGED <<phase, closes, crossed, devices, roomRef, autoJoin, blocked, denoise,
                 mounted, attempted, switching, switches>>

\* Participants and tracks come and go: each such event of any room shows that room.
Refresh(r) ==
  /\ conn[r] \in {"connected", "reconnecting", "closing"}
  /\ view' = SyncRoomState(r, conn[r], devices[r])
  /\ UNCHANGED <<phase, closes, crossed, conn, devices, roomRef, autoJoin, blocked, denoise,
                 mounted, attempted, switching, mishaps, switches>>

MediaDevicesError(r) ==
  /\ conn[r] = "connected" /\ Mishap
  /\ view' = [view EXCEPT !.status = "failed"]
  /\ UNCHANGED <<phase, closes, crossed, conn, devices, roomRef, autoJoin, blocked, denoise,
                 mounted, attempted, switching, switches>>

----------------------------------------------------------------------------
(* joinMedia, from the button or when the panel is mounted.                *)

\* What is under way, rooms that close included, is crossed, and so is a join that finds some.
Cross(joining) ==
  LET under == {j \in Joins : UnderWay(j) \/ conn[j] = "closing"}
  IN crossed' = IF under = {} THEN crossed ELSE crossed \cup under \cup joining

JoinMedia(j) ==
  /\ mounted /\ phase[j] = "none" /\ \A i \in Joins : i < j => phase[i] # "none"
  /\ \/ ~attempted /\ autoJoin
     \/ attempted /\ ~IsInSession
  /\ attempted' = TRUE /\ autoJoin' = TRUE /\ Cross({j})
  /\ view' = [view EXCEPT !.status = "joining"]
  /\ conn' = DisconnectRoom(conn, roomRef)
  /\ phase' = [phase EXCEPT ![j] = IF roomRef = 0 THEN "token" ELSE "closing"]
  /\ closes' = [closes EXCEPT ![j] = roomRef]
  /\ UNCHANGED <<devices, roomRef, blocked, denoise, mounted, switching, mishaps, switches>>

\* With nothing noted, mounting the panel joins nothing.
Mounted ==
  /\ ~attempted /\ ~autoJoin /\ attempted' = TRUE
  /\ UNCHANGED <<phase, closes, crossed, conn, devices, roomRef, view, autoJoin, blocked,
                 denoise, mounted, switching, mishaps, switches>>

OldRoomClosed(j) ==
  /\ phase[j] = "closing" /\ conn[closes[j]] = "closed"
  /\ roomRef' = 0 /\ phase' = [phase EXCEPT ![j] = "token"]
  /\ UNCHANGED <<closes, crossed, conn, devices, view, autoJoin, blocked, denoise, mounted,
                 attempted, switching, mishaps, switches>>

\* A room is made, takes roomRef, is bound, and starts to connect.
CreateMediaRoom(j) ==
  /\ phase[j] = "token"
  /\ phase' = [phase EXCEPT ![j] = "connecting"] /\ conn' = [conn EXCEPT ![j] = "connecting"]
  /\ roomRef' = j /\ view' = [view EXCEPT !.room = j, !.status = "joining"]
  /\ UNCHANGED <<closes, crossed, devices, autoJoin, blocked, denoise, mounted, attempted,
                 switching, mishaps, switches>>

RoomConnects(j) ==
  /\ phase[j] = "connecting" /\ conn[j] = "connecting"
  /\ phase' = [phase EXCEPT ![j] = "audio"] /\ conn' = [conn EXCEPT ![j] = "connected"]
  /\ view' = SyncRoomState(j, "connected", {})
  /\ UNCHANGED <<closes, crossed, devices, roomRef, autoJoin, blocked, denoise, mounted,
                 attempted, switching, mishaps, switches>>

\* The microphone, which the browser may refuse for want of a click, then the camera.
DeviceStarts(j) ==
  /\ conn[j] \in {"connected", "reconnecting"}
  /\ \/ /\ phase[j] = "audio" /\ phase' = [phase EXCEPT ![j] = "video"]
        /\ devices' = [devices EXCEPT ![j] = @ \cup {"mic"}]
        /\ view' = SyncRoomState(j, conn[j], devices'[j]) /\ UNCHANGED <<blocked, mishaps>>
     \/ /\ phase[j] = "audio" /\ phase' = [phase EXCEPT ![j] = "video"]
        /\ blocked' = TRUE /\ Mishap /\ UNCHANGED <<devices, view>>
     \/ /\ phase[j] = "video" /\ phase' = [phase EXCEPT ![j] = "done"]
        /\ devices' = [devices EXCEPT ![j] = @ \cup {"cam"}]
        /\ view' = SyncRoomState(j, conn[j], devices'[j])
        /\ blocked' = (blocked /\ "mic" \notin devices[j]) /\ UNCHANGED mishaps
  /\ UNCHANGED <<closes, crossed, conn, roomRef, autoJoin, denoise, mounted, attempted,
                 switching, switches>>

\* The catch: the room closed is the one in roomRef, whichever call put it there.
JoinFails(j) ==
  LET refused == phase[j] = "connecting" /\ conn[j] = "connecting"
      c == IF refused THEN [conn EXCEPT ![j] = "closed"] ELSE conn
      v == IF refused THEN AfterDisconnected ELSE [view EXCEPT !.room = 0]
  IN /\ \/ phase[j] = "token" /\ Mishap
        \/ phase[j] \in {"connecting", "audio", "video"} /\ Live(j) /\ Mishap
        \/ phase[j] \in {"connecting", "audio", "video"} /\ ~Live(j) /\ UNCHANGED mishaps
     /\ conn' = DisconnectRoom(c, roomRef)
     /\ phase' = [phase EXCEPT ![j] = IF roomRef = 0 THEN "done" ELSE "failing"]
     /\ view' = IF roomRef = 0 THEN [v EXCEPT !.status = "failed"] ELSE v
     /\ closes' = [closes EXCEPT ![j] = roomRef] /\ roomRef' = 0
     /\ UNCHANGED <<crossed, devices, autoJoin, blocked, denoise, mounted, attempted,
                    switching, switches>>

FailedRoomClosed(j) ==
  /\ phase[j] = "failing" /\ conn[closes[j]] = "closed"
  /\ phase' = [phase EXCEPT ![j] = "done"] /\ view' = [view EXCEPT !.status = "failed"]
  /\ UNCHANGED <<closes, crossed, conn, devices, roomRef, autoJoin, blocked, denoise,
                 mounted, attempted, switching, mishaps, switches>>

----------------------------------------------------------------------------
(* Leaving, by the button or by unmounting the panel.                      *)

\* Mutant of ResetPanel: the room is forgotten, not disconnected.
ForgetRoom ==
  /\ Cross({}) /\ roomRef' = 0
  /\ view' = [room |-> 0, status |-> "idle", devices |-> {}] /\ denoise' = FALSE
  /\ UNCHANGED <<phase, closes, conn, devices, attempted, switching, mishaps, switches>>

ResetPanel ==
  /\ Cross({}) /\ conn' = DisconnectRoom(conn, roomRef) /\ roomRef' = 0
  /\ view' = [room |-> 0, status |-> "idle", devices |-> {}] /\ denoise' = FALSE
  /\ UNCHANGED <<phase, closes, devices, attempted, switching, mishaps, switches>>

LeaveMedia ==
  /\ mounted /\ IsInSession /\ autoJoin' = FALSE /\ blocked' = FALSE
  /\ ResetPanel /\ UNCHANGED mounted

Unmount == mounted /\ mounted' = FALSE /\ ResetPanel /\ UNCHANGED <<autoJoin, blocked>>

----------------------------------------------------------------------------
(* The device buttons: what is wanted is settled when they are pressed.    *)

Press(device, of, on, next) ==
  /\ mounted /\ IsInSession /\ roomRef # 0
  /\ switches < MaxSwitches /\ switches' = switches + 1
  /\ switching' = switching \cup
       {[room |-> roomRef, device |-> device, on |-> on, of |-> of, next |-> next]}
  /\ UNCHANGED <<phase, closes, crossed, conn, devices, roomRef, view, autoJoin, blocked,
                 denoise, mounted, attempted, mishaps>>

Toggle(device) ==
  roomRef # 0 /\ Press(device, "toggle", device \notin devices[roomRef], FALSE)

ResumeAudio == blocked /\ Press("mic", "resume", TRUE, FALSE)

\* Noise suppression is put on by a call that also turns the microphone on.
ToggleNoiseSuppression ==
  roomRef # 0 /\ Press("mic", "denoise", ~denoise \/ "mic" \in devices[roomRef], ~denoise)

Switched(b) ==
  /\ switching' = switching \ {b}
  /\ \/ /\ conn[b.room] \in {"connected", "reconnecting"}
        /\ devices' = [devices EXCEPT ![b.room] = IF b.on THEN @ \cup {b.device}
                                                  ELSE @ \ {b.device}]
        /\ view' = SyncRoomState(b.room, conn[b.room], devices'[b.room])
        /\ blocked' = (blocked /\ b.of # "resume")
        /\ denoise' = IF b.of = "denoise" THEN b.next ELSE denoise
        /\ UNCHANGED mishaps
     \/ Live(b.room) /\ Mishap /\ UNCHANGED <<devices, view, blocked, denoise>>
     \/ ~Live(b.room) /\ UNCHANGED <<devices, view, blocked, denoise, mishaps>>
  /\ UNCHANGED <<phase, closes, crossed, conn, roomRef, autoJoin, mounted, attempted,
                 switches>>

MediaNext ==
  \/ \E r \in Joins : RoomCloses(r) \/ ConnectionWavers(r) \/ Refresh(r) \/ MediaDevicesError(r)
  \/ \E j \in Joins : \/ JoinMedia(j) \/ OldRoomClosed(j) \/ CreateMediaRoom(j)
                      \/ RoomConnects(j) \/ DeviceStarts(j) \/ JoinFails(j)
                      \/ FailedRoomClosed(j)
  \/ Mounted \/ LeaveMedia \/ Unmount
  \/ \E d \in Devices : Toggle(d)
  \/ ResumeAudio \/ ToggleNoiseSuppression
  \/ \E b \in switching : Switched(b)

MediaSpec == MediaInit /\ [][MediaNext]_mediaVars

----------------------------------------------------------------------------
(* Properties.                                                             *)

\* The panel can close every room that is connected, so that leaving the session ends
\* it: a room no longer in roomRef is on its way out, unless its join crossed with
\* another one, with leaving or with the panel's end.
RoomsWithinReach == \A r \in Joins : Live(r) => roomRef = r \/ r \in crossed

=============================================================================
