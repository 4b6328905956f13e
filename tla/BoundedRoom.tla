---------------------------- MODULE BoundedRoom ----------------------------
(***************************************************************************)
(* What the membership of a room promises: a set of users that never       *)
(* outgrows the room, whatever the requests of its members do to each      *)
(* other.  How the seats are counted, who may do what, and how a request   *)
(* is split into statements is RoomMembership's business.                  *)
(***************************************************************************)
EXTENDS Integers, FiniteSets

CONSTANTS Users, Cap

VARIABLE present

RoomStart == present = {}

Enter(u) ==
  /\ u \notin present
  /\ Cardinality(present) < Cap
  /\ present' = present \cup {u}

Exit(u) ==
  /\ u \in present
  /\ present' = present \ {u}

Close == present' = {}

RoomStep == Close \/ \E u \in Users : Enter(u) \/ Exit(u)

RoomPromise == RoomStart /\ [][RoomStep]_present

=============================================================================
