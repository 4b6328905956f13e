------------------------- MODULE HttpBackend_proofs -------------------------
(***************************************************************************)
(* What holds of the rows of the HTTP backend for every number of users,   *)
(* seats, tabs, tokens and requests under way.  The components share no    *)
(* row, and each is proved about under its own specification.              *)
(*                                                                         *)
(* Rooms: CountExact is inductive once it is known that the requests under *)
(* way name users, that nobody is in a room that is not open, and that the *)
(* counter stays within the seats.  That a request that is being approved  *)
(* was asked for (Asked) is what PrivateByApproval adds.                   *)
(* Sessions: a token that was exchanged is in no row; and as long as the   *)
(* requests follow each other, at most one is under way, and its answer    *)
(* brings what the newest row holds.  Accounts: a token never vanishes     *)
(* between the request, the queue, the consumer and the mailbox.  Tasks:   *)
(* what a request remembers of an assignee has been told.                  *)
(***************************************************************************)
EXTENDS MCHttpBackend, FiniteSetTheorems, WellFoundedInduction, TLAPS

-----------------------------------------------------------------------------
(* Rooms: the inductive invariant.                                         *)

\* The counter stays within the seats.
Seated == room.stage = "open" => room.count <= Cap

\* Nobody is in a room that is not open.
Vacant == room.stage # "open" => Members = {}

\* Before the room there are no requests.
Unborn == room.stage = "none" => leaked = 0 /\ \A c \in Calls : call[c] = Idle

\* A request under way is about a user.
Named == \A c \in Calls : call[c].op # "idle" => call[c].of \in Users

\* What is being approved was asked for.
Asked ==
  \A c \in Calls :
    call[c].op = "approve" /\ room.stage = "open" => request[call[c].of] # "none"

RoomInv ==
  RoomTypeOK /\ CountExact /\ Seated /\ Vacant /\ Unborn /\ Named /\ Asked

-----------------------------------------------------------------------------
(* Sets and numbers.                                                       *)

LEMMA IdleOp == Idle.op = "idle" /\ Idle.of = Nobody /\ Idle \in CallStates
  BY DEF Idle, CallStates, Ops

LEMMA MembersFinite == IsFiniteSet(Members) /\ Cardinality(Members) \in Nat
<1>1. Members \in SUBSET Users
  BY DEF Members
<1> QED
  BY <1>1, RoomAssumption, FS_Subset, FS_CardinalityType

LEMMA HalfwayFinite == IsFiniteSet(Halfway) /\ Cardinality(Halfway) \in Nat
<1>1. Halfway \in SUBSET Calls
  BY DEF Halfway
<1> QED
  BY <1>1, RoomAssumption, FS_Subset, FS_CardinalityType

\* Some member has been in the room longest.
LEMMA EldestExists ==
  ASSUME RoomTypeOK, NEW S, S \subseteq Users, S # {}
  PROVE  Eldest(S) \in S
<1> DEFINE Dates == {joinedAt[u] : u \in S}
<1>1. Dates \subseteq Nat /\ Dates # {}
  BY DEF RoomTypeOK
<1>2. PICK d \in Dates : \A e \in Dates : ~ (<<e, d>> \in OpToRel(<, Nat))
  BY <1>1, NatLessThanWellFounded, WFMin
<1>3. \A e \in Dates : d <= e
  <2>1. \A e \in Dates : e \in Nat /\ d \in Nat
    BY <1>1
  <2>2. \A e \in Dates : <<e, d>> \in Nat \X Nat
    BY <2>1
  <2>3. \A e \in Dates : <<e, d>>[1] = e /\ <<e, d>>[2] = d
    OBVIOUS
  <2>4. \A e \in Dates : e < d => <<e, d>> \in OpToRel(<, Nat)
    BY <2>2, <2>3, Zenon DEF OpToRel
  <2>5. \A e \in Dates : ~(e < d)
    BY <1>2, <2>4, Zenon
  <2> QED
    BY <2>1, <2>5
<1>4. PICK u \in S : joinedAt[u] = d
  OBVIOUS
<1>5. \A w \in S : joinedAt[u] <= joinedAt[w]
  BY <1>3, <1>4
<1> QED
  BY <1>5 DEF Eldest

-----------------------------------------------------------------------------
(* What the steps have in common.                                          *)

\* A request that ends is no longer halfway, the others are where they were.
LEMMA DoneEnds ==
  ASSUME RoomTypeOK, NEW c \in Calls, Done(c)
  PROVE  /\ Halfway' = Halfway \ {c}
         /\ call' \in [Calls -> CallStates]
         /\ Named => Named'
         /\ call'[c] = Idle /\ \A d \in Calls \ {c} : call'[d] = call[d]
<1>1. /\ call \in [Calls -> CallStates] /\ call' = [call EXCEPT ![c] = Idle]
  BY DEF RoomTypeOK, Done
<1>2. /\ call'[c] = Idle /\ \A d \in Calls \ {c} : call'[d] = call[d]
  BY <1>1
<1>3. Halfway' = Halfway \ {c}
  BY <1>2, IdleOp DEF Halfway
<1>4. call' \in [Calls -> CallStates]
  BY <1>1, IdleOp
<1>5. Named => Named'
  BY <1>2, IdleOp DEF Named
<1> QED
  BY <1>2, <1>3, <1>4, <1>5

\* With as many members and halfway kicks as before the count stays what it was.
LEMMA SameSeats ==
  ASSUME CountExact, Seated, Members' = Members, Halfway' = Halfway,
         room' = room, leaked' = leaked
  PROVE  CountExact' /\ Seated'
  BY DEF CountExact, Seated

\* A user comes in.
LEMMA SeatTaken ==
  ASSUME RoomTypeOK, CountExact, Halfway' = Halfway, leaked' = leaked,
         NEW u \in Users, Admit(u), room.stage = "open"
  PROVE  /\ Members' = Members \cup {u} /\ u \notin Members
         /\ Cardinality(Members) < Cap
         /\ room'.stage = "open" /\ room'.private = room.private
         /\ CountExact' /\ Seated' /\ Vacant' /\ Unborn'
         /\ role' \in [Users -> {"none", "MEMBER", "ADMIN"}]
         /\ room' \in [stage : {"none", "open", "deleted"}, private : BOOLEAN,
                       createdBy : Users \cup {Nobody}, count : Int, archived : BOOLEAN]
         /\ joins' \in Nat /\ joinedAt' \in [Users -> Nat]
<1>1. /\ Members' = Members \cup {u} /\ u \notin Members
  BY DEF Admit, Members, RoomTypeOK
<1>2. /\ room'.stage = "open" /\ room'.count = room.count + 1
      /\ room'.private = room.private /\ room.count < Cap
  BY DEF Admit, RoomTypeOK
<1>3. Cardinality(Members') = Cardinality(Members) + 1
  BY <1>1, MembersFinite, FS_AddElement
<1>4. CountExact' /\ Seated'
  BY <1>2, <1>3, MembersFinite, HalfwayFinite, RoomAssumption
     DEF CountExact, Seated, RoomTypeOK
<1>5. Cardinality(Members) < Cap
  BY <1>2, MembersFinite, HalfwayFinite, RoomAssumption DEF CountExact, RoomTypeOK
<1>6. Vacant' /\ Unborn'
  BY <1>2 DEF Vacant, Unborn
<1> QED
  BY <1>1, <1>2, <1>4, <1>5, <1>6 DEF Admit, RoomTypeOK

\* A user goes and his seat is given back.
LEMMA SeatFreed ==
  ASSUME RoomTypeOK, CountExact, Seated, Halfway' = Halfway, leaked' = leaked,
         NEW u \in Members, Members' = Members \ {u}, room.stage = "open",
         room'.stage = "open", room'.count = room.count - 1
  PROVE  CountExact' /\ Seated' /\ Vacant' /\ Unborn'
<1>1. Cardinality(Members') = Cardinality(Members) - 1
  BY MembersFinite, FS_RemoveElement
<1> QED
  BY <1>1, MembersFinite, HalfwayFinite, RoomAssumption
     DEF CountExact, Seated, Vacant, Unborn, RoomTypeOK

\* The write of a request that has ended leaves Asked true, as no request is forgotten.
LEMMA AskedStays ==
  ASSUME RoomTypeOK, Asked, NEW c \in Calls, Done(c),
         room'.stage = "open" => room.stage = "open",
         \A u \in Users : request[u] # "none" => request'[u] # "none",
         Named
  PROVE  Asked'
  BY DoneEnds, IdleOp DEF Asked, Named

-----------------------------------------------------------------------------
(* The invariant.                                                          *)

LEMMA InitKeeps == RoomInit => RoomInv
<1> SUFFICES ASSUME RoomInit
             PROVE  RoomInv
  OBVIOUS
<1>1. Members = {}
  BY DEF RoomInit, Members
<1> QED
  BY <1>1, IdleOp, RoomAssumption
     DEF RoomInit, RoomInv, RoomTypeOK, CountExact, Seated, Vacant, Unborn, Named, Asked

\* A request that begins has written nothing yet.
LEMMA BeginKeeps ==
  ASSUME RoomInv, NEW c \in Calls, NEW op \in Ops \ {"decrement"}, NEW u \in Users,
         NEW owner \in Users \cup {Nobody}, Begin(c, op, u, owner),
         op = "approve" => request[u] # "none"
  PROVE  RoomInv'
<1> DEFINE new == [op |-> op, of |-> u, owner |-> owner]
<1>1. /\ UNCHANGED <<room, role, joinedAt, joins, request, leaked>>
      /\ call' = [call EXCEPT ![c] = new] /\ call[c] = Idle /\ room.stage = "open"
  BY DEF Begin
<1>2. new \in CallStates /\ new.op = op /\ new.of = u
  BY DEF CallStates
<1> HIDE DEF new
<1>3. RoomTypeOK'
  BY <1>1, <1>2 DEF RoomInv, RoomTypeOK
<1>4. /\ call'[c] = new /\ \A d \in Calls \ {c} : call'[d] = call[d]
  BY <1>1 DEF RoomInv, RoomTypeOK
<1>5. Members' = Members
  BY <1>1 DEF Members
<1>6. Halfway' = Halfway
  BY <1>1, <1>2, <1>4, IdleOp DEF Halfway
<1>7. CountExact' /\ Seated'
  BY <1>1, <1>5, <1>6, SameSeats DEF RoomInv
<1>8. Vacant' /\ Unborn'
  BY <1>1, <1>5 DEF RoomInv, Vacant, Unborn
<1>9. Named' /\ Asked'
  BY <1>1, <1>2, <1>4 DEF RoomInv, Named, Asked
<1> QED
  BY <1>3, <1>7, <1>8, <1>9 DEF RoomInv

LEMMA CreateKeeps ==
  ASSUME RoomInv, NEW u \in Users, CreateRoom(u)
  PROVE  RoomInv'
<1>1. PICK private \in BOOLEAN :
        room' = [stage |-> "open", private |-> private, createdBy |-> u,
                 count |-> 1, archived |-> FALSE]
  BY DEF CreateRoom
<1>2. Members = {} /\ leaked = 0 /\ Halfway = {}
  BY IdleOp DEF CreateRoom, RoomInv, Vacant, Unborn, Halfway
<1>3. Members' = {u}
  BY <1>2 DEF CreateRoom, RoomInv, RoomTypeOK, Members
<1>4. Halfway' = {} /\ leaked' = 0 /\ call' = call
  BY <1>2 DEF CreateRoom, Halfway
<1>5. CountExact' /\ Seated'
  BY <1>1, <1>3, <1>4, FS_Singleton, FS_EmptySet, RoomAssumption DEF CountExact, Seated
<1>6. RoomTypeOK'
  BY <1>1 DEF CreateRoom, RoomInv, RoomTypeOK
<1>7. Vacant' /\ Unborn' /\ Named' /\ Asked'
  BY <1>1, <1>4, IdleOp DEF CreateRoom, RoomInv, Vacant, Unborn, Named, Asked
<1> QED
  BY <1>5, <1>6, <1>7 DEF RoomInv

\* Who joins is the user the request names.
LEMMA JoinKeeps ==
  ASSUME RoomInv, NEW c \in Calls, Done(c), UNCHANGED leaked, room.stage = "open",
         call[c].op \in {"join", "approve"}, Admit(call[c].of),
         request' \in [Users -> {"none", "PENDING", "APPROVED", "REJECTED"}],
         \A u \in Users : request[u] # "none" => request'[u] # "none"
  PROVE  RoomInv'
<1>1. call[c].of \in Users /\ c \notin Halfway
  BY DEF RoomInv, Named, Halfway
<1>2. /\ Halfway' = Halfway /\ call' \in [Calls -> CallStates] /\ Named'
  BY <1>1, DoneEnds DEF RoomInv
<1>3. /\ room'.stage = "open" /\ CountExact' /\ Seated' /\ Vacant' /\ Unborn'
      /\ role' \in [Users -> {"none", "MEMBER", "ADMIN"}]
      /\ room' \in [stage : {"none", "open", "deleted"}, private : BOOLEAN,
                    createdBy : Users \cup {Nobody}, count : Int, archived : BOOLEAN]
      /\ joins' \in Nat /\ joinedAt' \in [Users -> Nat]
  BY <1>1, <1>2, SeatTaken DEF RoomInv
<1>4. RoomTypeOK'
  BY <1>2, <1>3 DEF RoomInv, RoomTypeOK
<1>5. Asked'
  BY AskedStays DEF RoomInv
<1> QED
  BY <1>2, <1>3, <1>4, <1>5 DEF RoomInv

\* A request is written, or a role, and nobody comes or goes.
LEMMA AnswerKeeps ==
  ASSUME RoomInv, NEW c \in Calls, Done(c), UNCHANGED <<room, joinedAt, joins, leaked>>,
         room.stage = "open", call[c].op # "decrement",
         request' \in [Users -> {"none", "PENDING", "APPROVED", "REJECTED"}],
         role' \in [Users -> {"none", "MEMBER", "ADMIN"}], Members' = Members,
         \A u \in Users : request[u] # "none" => request'[u] # "none"
  PROVE  RoomInv'
<1>1. Halfway' = Halfway /\ call' \in [Calls -> CallStates] /\ Named'
  BY DoneEnds DEF RoomInv, Halfway
<1>2. CountExact' /\ Seated'
  BY <1>1, SameSeats DEF RoomInv
<1>3. RoomTypeOK'
  BY <1>1 DEF RoomInv, RoomTypeOK
<1>4. Vacant' /\ Unborn'
  BY DEF RoomInv, Vacant, Unborn
<1>5. Asked'
  BY AskedStays DEF RoomInv
<1> QED
  BY <1>1, <1>2, <1>3, <1>4, <1>5 DEF RoomInv

LEMMA LeaveKeeps ==
  ASSUME RoomInv, NEW c \in Calls, Leave(c)
  PROVE  RoomInv' /\ Members' = Members \ {call[c].of} /\ call[c].of \in Members
<1> DEFINE u == call[c].of
           rest == Members \ {u}
           left == room.count - 1
           hands == left # 0 /\ call[c].owner = u /\ rest # {}
<1>1. /\ call[c].op = "leave" /\ room.stage = "open" /\ u \in Members /\ Done(c)
      /\ room' = [room EXCEPT !.count = left,
                              !.archived = @ \/ left = 0,
                              !.createdBy = IF hands THEN Eldest(rest) ELSE @]
      /\ role' = [v \in Users |-> IF v = u THEN "none"
                                  ELSE IF hands /\ v = Eldest(rest) THEN "ADMIN"
                                  ELSE role[v]]
      /\ Gone(u) /\ UNCHANGED <<joins, request, leaked>>
  BY DEF Leave, Doing
<1>2. hands => Eldest(rest) \in rest
  BY EldestExists DEF RoomInv, Members
<1>3. u \in Users /\ rest \subseteq Users
  BY <1>1 DEF Members
<1>4. /\ room'.stage = "open" /\ room'.count = room.count - 1
      /\ room' \in [stage : {"none", "open", "deleted"}, private : BOOLEAN,
                    createdBy : Users \cup {Nobody}, count : Int, archived : BOOLEAN]
  <2> DEFINE owner == IF hands THEN Eldest(rest) ELSE room.createdBy
  <2>1. owner \in Users \cup {Nobody}
    BY <1>2, <1>3 DEF RoomInv, RoomTypeOK
  <2>2. room.count \in Int /\ left \in Int
    BY DEF RoomInv, RoomTypeOK
  <2>3. room' = [room EXCEPT !.count = left, !.archived = @ \/ left = 0, !.createdBy = owner]
    BY <1>1 DEF RoomInv, RoomTypeOK
  <2> HIDE DEF owner, left
  <2>4. /\ room'.stage = "open" /\ room'.count = left
        /\ room' \in [stage : {"none", "open", "deleted"}, private : BOOLEAN,
                      createdBy : Users \cup {Nobody}, count : Int, archived : BOOLEAN]
    BY <1>1, <2>1, <2>2, <2>3 DEF RoomInv, RoomTypeOK
  <2> QED
    BY <2>4 DEF left
<1>5. role' \in [Users -> {"none", "MEMBER", "ADMIN"}] /\ Members' = Members \ {u}
  <2> HIDE DEF u, rest, hands
  <2>1. \A v \in Users : role'[v] = IF v = u THEN "none"
                                    ELSE IF hands /\ v = Eldest(rest) THEN "ADMIN" ELSE role[v]
    BY <1>1
  <2>2. role' \in [Users -> {"none", "MEMBER", "ADMIN"}]
    BY <1>1 DEF RoomInv, RoomTypeOK
  <2>3. hands => Eldest(rest) # u /\ role[Eldest(rest)] # "none"
    BY <1>2 DEF Members, rest
  <2>4. \A v \in Users : role'[v] # "none" <=> role[v] # "none" /\ v # u
    BY <2>1, <2>3
  <2> QED
    BY <2>2, <2>4 DEF Members
<1> HIDE DEF u
<1>6. Halfway' = Halfway /\ call' \in [Calls -> CallStates] /\ Named'
  BY <1>1, DoneEnds DEF RoomInv, Halfway
<1>7. CountExact' /\ Seated' /\ Vacant' /\ Unborn'
  BY <1>1, <1>4, <1>5, <1>6, SeatFreed DEF RoomInv
<1>8. RoomTypeOK'
  BY <1>1, <1>3, <1>4, <1>5, <1>6 DEF RoomInv, RoomTypeOK, Gone
<1>9. Asked'
  BY <1>1, AskedStays DEF RoomInv
<1> QED
  BY <1>1, <1>5, <1>6, <1>7, <1>8, <1>9 DEF RoomInv, u

\* A row of the member is deleted: its user is a member no longer, the others are.
LEMMA RowDeleted ==
  ASSUME RoomTypeOK, NEW u \in Members, role' = [role EXCEPT ![u] = "none"], Gone(u)
  PROVE  /\ Members' = Members \ {u} /\ role' \in [Users -> {"none", "MEMBER", "ADMIN"}]
         /\ joinedAt' \in [Users -> Nat]
  BY DEF RoomTypeOK, Members, Gone

LEMMA RemoveKeeps ==
  ASSUME RoomInv, NEW c \in Calls, Remove(c)
  PROVE  RoomInv' /\ Members' = Members \ {call[c].of} /\ call[c].of \in Members
<1> DEFINE u == call[c].of
<1>1. /\ call[c].op = "remove" /\ room.stage = "open" /\ u \in Members /\ Done(c)
      /\ role' = [role EXCEPT ![u] = "none"] /\ room' = [room EXCEPT !.count = @ - 1]
      /\ Gone(u) /\ UNCHANGED <<joins, request, leaked>>
  BY DEF Remove, Doing
<1> HIDE DEF u
<1>2. /\ Members' = Members \ {u} /\ role' \in [Users -> {"none", "MEMBER", "ADMIN"}]
      /\ joinedAt' \in [Users -> Nat]
  BY <1>1, RowDeleted DEF RoomInv
<1>3. Halfway' = Halfway /\ call' \in [Calls -> CallStates] /\ Named'
  BY <1>1, DoneEnds DEF RoomInv, Halfway
<1>4. /\ room'.stage = "open" /\ room'.count = room.count - 1
      /\ room' \in [stage : {"none", "open", "deleted"}, private : BOOLEAN,
                    createdBy : Users \cup {Nobody}, count : Int, archived : BOOLEAN]
  BY <1>1 DEF RoomInv, RoomTypeOK
<1>5. CountExact' /\ Seated' /\ Vacant' /\ Unborn'
  BY <1>1, <1>2, <1>3, <1>4, SeatFreed DEF RoomInv
<1>6. RoomTypeOK'
  BY <1>1, <1>2, <1>3, <1>4 DEF RoomInv, RoomTypeOK
<1>7. Asked'
  BY <1>1, AskedStays DEF RoomInv
<1> QED
  BY <1>1, <1>2, <1>3, <1>5, <1>6, <1>7 DEF RoomInv, u

\* A kick has deleted the membership: the seat moves from the members to the kicks
\* that are halfway.
LEMMA KickKeeps ==
  ASSUME RoomInv, NEW c \in Calls, Kick(c)
  PROVE  RoomInv' /\ Members' = Members \ {call[c].of} /\ call[c].of \in Members
<1> DEFINE u == call[c].of
<1>1. /\ call[c].op = "kick" /\ room.stage = "open" /\ u \in Members
      /\ role' = [role EXCEPT ![u] = "none"] /\ call' = [call EXCEPT ![c].op = "decrement"]
      /\ Gone(u) /\ UNCHANGED <<room, joins, request, leaked>>
  BY DEF Kick, Doing
<1>2. /\ call' \in [Calls -> CallStates]
      /\ call'[c].op = "decrement" /\ call'[c].of = u
      /\ \A d \in Calls \ {c} : call'[d] = call[d]
  BY <1>1 DEF RoomInv, RoomTypeOK, CallStates, Ops
<1> HIDE DEF u
<1>3. /\ Members' = Members \ {u} /\ role' \in [Users -> {"none", "MEMBER", "ADMIN"}]
      /\ joinedAt' \in [Users -> Nat]
  BY <1>1, RowDeleted DEF RoomInv
<1>4. Halfway' = Halfway \cup {c} /\ c \notin Halfway
  BY <1>1, <1>2 DEF Halfway
<1>5. /\ Cardinality(Members') = Cardinality(Members) - 1
      /\ Cardinality(Halfway') = Cardinality(Halfway) + 1
  BY <1>1, <1>3, <1>4, MembersFinite, HalfwayFinite, FS_RemoveElement, FS_AddElement
<1>6. CountExact' /\ Seated'
  BY <1>1, <1>5, MembersFinite, HalfwayFinite DEF RoomInv, CountExact, Seated, RoomTypeOK
<1>7. RoomTypeOK'
  BY <1>1, <1>2, <1>3 DEF RoomInv, RoomTypeOK
<1>8. Vacant' /\ Unborn' /\ Named' /\ Asked'
  BY <1>1, <1>2, <1>3 DEF RoomInv, Vacant, Unborn, Named, Asked, Members
<1> QED
  BY <1>1, <1>3, <1>6, <1>7, <1>8 DEF RoomInv, u

LEMMA DecrementKeeps ==
  ASSUME RoomInv, NEW c \in Calls, KickDecrement(c)
  PROVE  RoomInv' /\ Members' = Members
<1>1. /\ call[c].op = "decrement" /\ room.stage = "open" /\ Done(c)
      /\ room' = [room EXCEPT !.count = @ - 1]
      /\ UNCHANGED <<role, joinedAt, joins, request, leaked>>
  BY DEF KickDecrement, Doing
<1>2. Members' = Members
  BY <1>1 DEF Members
<1>3. c \in Halfway /\ Halfway' = Halfway \ {c} /\ call' \in [Calls -> CallStates] /\ Named'
  BY <1>1, DoneEnds DEF RoomInv, Halfway
<1>4. Cardinality(Halfway') = Cardinality(Halfway) - 1
  BY <1>3, HalfwayFinite, FS_RemoveElement
<1>5. /\ room'.stage = "open" /\ room'.count = room.count - 1
      /\ room' \in [stage : {"none", "open", "deleted"}, private : BOOLEAN,
                    createdBy : Users \cup {Nobody}, count : Int, archived : BOOLEAN]
  BY <1>1 DEF RoomInv, RoomTypeOK
<1>6. CountExact' /\ Seated'
  BY <1>1, <1>2, <1>4, <1>5, MembersFinite, HalfwayFinite, RoomAssumption
     DEF RoomInv, CountExact, Seated, RoomTypeOK
<1>7. RoomTypeOK'
  BY <1>1, <1>3, <1>5 DEF RoomInv, RoomTypeOK
<1>8. Vacant' /\ Unborn' /\ Asked'
  BY <1>1, <1>5, AskedStays DEF RoomInv, Vacant, Unborn
<1> QED
  BY <1>2, <1>3, <1>6, <1>7, <1>8 DEF RoomInv

LEMMA DeleteKeeps ==
  ASSUME RoomInv, NEW c \in Calls, Delete(c)
  PROVE  RoomInv' /\ Members' = {}
<1>1. /\ room' = [room EXCEPT !.stage = "deleted"] /\ Done(c)
      /\ role' = [u \in Users |-> "none"] /\ joinedAt' = [u \in Users |-> 0]
      /\ request' = [u \in Users |-> "none"] /\ UNCHANGED <<joins, leaked>>
  BY DEF Delete
<1>2. Members' = {}
  BY <1>1 DEF Members
<1>3. room'.stage = "deleted"
  BY <1>1 DEF RoomInv, RoomTypeOK
<1>4. call' \in [Calls -> CallStates] /\ Named'
  BY <1>1, DoneEnds DEF RoomInv
<1>5. RoomTypeOK'
  BY <1>1, <1>4 DEF RoomInv, RoomTypeOK
<1>6. CountExact' /\ Seated' /\ Vacant' /\ Unborn' /\ Asked'
  BY <1>2, <1>3 DEF CountExact, Seated, Vacant, Unborn, Asked
<1> QED
  BY <1>2, <1>4, <1>5, <1>6 DEF RoomInv

LEMMA FailKeeps ==
  ASSUME RoomInv, NEW c \in Calls, Fail(c)
  PROVE  RoomInv' /\ Members' = Members
<1>1. /\ leaked' = IF call[c].op = "decrement" THEN leaked + 1 ELSE leaked
      /\ Done(c) /\ call[c] # Idle /\ UNCHANGED <<room, role, joinedAt, joins, request>>
  BY DEF Fail
<1>2. Members' = Members
  BY <1>1 DEF Members
<1>3. Halfway' = Halfway \ {c} /\ call' \in [Calls -> CallStates] /\ Named'
  BY <1>1, DoneEnds DEF RoomInv
<1>4. /\ leaked' \in Nat
      /\ Cardinality(Halfway') + leaked' = Cardinality(Halfway) + leaked
  <2>1. c \in Halfway <=> call[c].op = "decrement"
    BY DEF Halfway
  <2>2. Cardinality(Halfway') = IF c \in Halfway THEN Cardinality(Halfway) - 1
                                                 ELSE Cardinality(Halfway)
    BY <1>3, HalfwayFinite, FS_RemoveElement
  <2>3. leaked \in Nat
    BY DEF RoomInv, RoomTypeOK
  <2> QED
    BY <1>1, <2>1, <2>2, <2>3, HalfwayFinite
<1>5. CountExact' /\ Seated'
  <2>1. CASE room.stage # "open"
    BY <1>1, <2>1 DEF CountExact, Seated
  <2>2. CASE room.stage = "open"
    <3>1. room.count = Cardinality(Members) + (Cardinality(Halfway) + leaked)
      <4>1. leaked \in Nat /\ room.count = Cardinality(Members) + Cardinality(Halfway) + leaked
        BY <2>2 DEF RoomInv, CountExact, RoomTypeOK
      <4> QED
        BY <4>1, MembersFinite, HalfwayFinite
    <3>2. IsFiniteSet(Halfway') /\ Cardinality(Halfway') \in Nat
      <4>1. Halfway' \in SUBSET Halfway
        BY <1>3
      <4> QED
        BY <4>1, HalfwayFinite, FS_Subset, FS_CardinalityType
    <3>3. room.count = Cardinality(Members) + Cardinality(Halfway') + leaked'
      BY <1>4, <3>1, <3>2, MembersFinite
    <3> QED
      BY <1>1, <1>2, <3>3 DEF RoomInv, CountExact, Seated
  <2> QED
    BY <2>1, <2>2
<1>6. RoomTypeOK'
  BY <1>1, <1>3, <1>4 DEF RoomInv, RoomTypeOK
<1>7. Vacant' /\ Unborn' /\ Asked'
  BY <1>1, <1>2, AskedStays DEF RoomInv, Vacant, Unborn
<1> QED
  BY <1>2, <1>3, <1>5, <1>6, <1>7 DEF RoomInv

LEMMA StepKeeps == RoomInv /\ [RoomNext]_roomVars => RoomInv'
<1> SUFFICES ASSUME RoomInv, [RoomNext]_roomVars
             PROVE  RoomInv'
  OBVIOUS
<1>1. ASSUME NEW u \in Users, CreateRoom(u)
      PROVE  RoomInv'
  BY <1>1, CreateKeeps
<1>2. ASSUME NEW c \in Calls, NEW u \in Users,
             AskJoin(c, u) \/ AskLeave(c, u) \/ AskDelete(c, u)
      PROVE  RoomInv'
  <2>1. room.createdBy \in Users \cup {Nobody} /\ {"join", "leave", "delete"} \subseteq Ops
    BY DEF RoomInv, RoomTypeOK, Ops
  <2> QED
    BY <1>2, <2>1, BeginKeeps DEF AskJoin, AskLeave, AskDelete, Ask
<1>3. ASSUME NEW c \in Calls, NEW a \in Users, NEW u \in Users,
             \/ AskApprove(c, a, u) \/ AskReject(c, a, u) \/ AskRemove(c, a, u)
             \/ AskRole(c, a, u) \/ AskKick(c, a, u) \/ AskPromote(c, a, u)
      PROVE  RoomInv'
  <2>1. {"approve", "reject", "remove", "kick", "promote", "demote"} \subseteq Ops
    BY DEF Ops
  <2> QED
    BY <1>3, <2>1, BeginKeeps
       DEF AskApprove, AskReject, AskRemove, AskRole, AskKick, AskPromote, Ask
<1>4. ASSUME NEW c \in Calls, Write(c)
      PROVE  RoomInv'
  <2>1. CASE JoinPublic(c)
    BY <2>1, JoinKeeps DEF JoinPublic, Doing, RoomInv, RoomTypeOK
  <2>2. CASE JoinPrivate(c)
    <3>1. Members' = Members
      BY <2>2 DEF JoinPrivate, Members
    <3> QED
      BY <2>2, <3>1, AnswerKeeps DEF JoinPrivate, Doing, RoomInv, RoomTypeOK
  <2>3. CASE Approve(c)
    <3>1. /\ request' \in [Users -> {"none", "PENDING", "APPROVED", "REJECTED"}]
          /\ \A u \in Users : request[u] # "none" => request'[u] # "none"
      BY <2>3 DEF Approve, RoomInv, RoomTypeOK
    <3>2. CASE Admit(call[c].of)
      BY <2>3, <3>1, <3>2, JoinKeeps DEF Approve, Doing
    <3>3. CASE UNCHANGED <<room, role, joinedAt, joins>>
      <4>1. Members' = Members
        BY <3>3 DEF Members
      <4> QED
        BY <2>3, <3>1, <3>3, <4>1, AnswerKeeps DEF Approve, Doing, RoomInv, RoomTypeOK
    <3> QED
      BY <2>3, <3>2, <3>3 DEF Approve
  <2>4. CASE Reject(c)
    <3>1. Members' = Members
      BY <2>4 DEF Reject, Members
    <3> QED
      BY <2>4, <3>1, AnswerKeeps DEF Reject, Doing, RoomInv, RoomTypeOK
  <2>5. CASE SetRole(c)
    <3>1. Members' = Members
      BY <2>5 DEF SetRole, Members, RoomInv, RoomTypeOK
    <3> QED
      BY <2>5, <3>1, AnswerKeeps DEF SetRole, RoomInv, RoomTypeOK
  <2> QED
    BY <1>4, <2>1, <2>2, <2>3, <2>4, <2>5, LeaveKeeps, RemoveKeeps, KickKeeps,
       DecrementKeeps, DeleteKeeps, FailKeeps DEF Write
<1>5. CASE UNCHANGED roomVars
  BY <1>5 DEF roomVars, RoomInv, RoomTypeOK, CountExact, Members, Halfway, Seated, Vacant,
              Unborn, Named, Asked
<1> QED
  BY <1>1, <1>2, <1>3, <1>4, <1>5 DEF RoomNext

LEMMA Invariance == RoomSpec => []RoomInv
  BY InitKeeps, StepKeeps, PTL DEF RoomSpec

-----------------------------------------------------------------------------
(* What holds of every room.                                               *)

\* Every state has the types of RoomMembership: rows of the room, its members and
\* requests, and requests under way that name users.
THEOREM TypeCorrect == RoomSpec => []RoomTypeOK
<1>1. RoomInv => RoomTypeOK
  BY DEF RoomInv
<1> QED
  BY <1>1, Invariance, PTL

\* memberCount is the number of members, but for the kicks between their two writes
\* and those that ended there, for every number of users and of requests under way.
THEOREM CountAlwaysExact == RoomSpec => []CountExact
<1>1. RoomInv => CountExact
  BY DEF RoomInv
<1> QED
  BY <1>1, Invariance, PTL

\* The abstract room counts as this one does.
LEMMA SameCount == \A S : Promise!Cardinality(S) = Cardinality(S)
  BY Zenon DEF Promise!Cardinality, Cardinality

\* A step lets one user in where there is a seat, lets one out, empties the room, or
\* leaves its members alone.
LEMMA StepPromises == RoomInv /\ [RoomNext]_roomVars => [Promise!RoomStep]_Members
<1> SUFFICES ASSUME RoomInv, [RoomNext]_roomVars
             PROVE  [Promise!RoomStep]_Members
  OBVIOUS
<1> USE DEF Promise!RoomStep, Promise!Enter, Promise!Exit, Promise!Close
<1>1. ASSUME role' = role
      PROVE  Members' = Members
  BY <1>1 DEF Members
<1>2. ASSUME NEW u \in Users, CreateRoom(u)
      PROVE  [Promise!RoomStep]_Members
  <2>1. Members = {} /\ Members' = {u}
    BY <1>2 DEF CreateRoom, RoomInv, Vacant, RoomTypeOK, Members
  <2>2. Cardinality(Members) < Cap
    BY <2>1, FS_EmptySet, RoomAssumption
  <2> QED
    BY <2>1, <2>2, SameCount
<1>3. ASSUME NEW c \in Calls, NEW op, NEW u, NEW owner, Begin(c, op, u, owner)
      PROVE  [Promise!RoomStep]_Members
  BY <1>1, <1>3 DEF Begin
<1>4. ASSUME NEW c \in Calls, Write(c)
      PROVE  [Promise!RoomStep]_Members
  <2>1. ASSUME call[c].op \in {"join", "approve"}, room.stage = "open", Done(c),
               Admit(call[c].of), UNCHANGED leaked
        PROVE  [Promise!RoomStep]_Members
    <3>1. call[c].of \in Users /\ c \notin Halfway
      BY <2>1 DEF RoomInv, Named, Halfway
    <3>2. Halfway' = Halfway
      BY <2>1, <3>1, DoneEnds DEF RoomInv
    <3>3. /\ Members' = Members \cup {call[c].of} /\ call[c].of \notin Members
          /\ Cardinality(Members) < Cap
      BY <2>1, <3>1, <3>2, SeatTaken DEF RoomInv
    <3> QED
      BY <3>1, <3>3, SameCount
  <2>2. CASE JoinPublic(c)
    BY <2>1, <2>2 DEF JoinPublic, Doing
  <2>3. CASE Approve(c)
    BY <1>1, <2>1, <2>3 DEF Approve, Doing
  <2>4. CASE JoinPrivate(c) \/ Reject(c)
    BY <1>1, <2>4 DEF JoinPrivate, Reject
  <2>5. CASE SetRole(c)
    BY <2>5 DEF SetRole, Members, RoomInv, RoomTypeOK
  <2>6. CASE Leave(c) \/ Remove(c) \/ Kick(c)
    <3>1. Members' = Members \ {call[c].of} /\ call[c].of \in Members
      BY <2>6, LeaveKeeps, RemoveKeeps, KickKeeps
    <3>2. call[c].of \in Users
      BY <3>1 DEF Members
    <3> QED
      BY <3>1, <3>2
  <2>7. CASE Delete(c) \/ KickDecrement(c) \/ Fail(c)
    BY <2>7, DeleteKeeps, DecrementKeeps, FailKeeps
  <2> QED
    BY <1>4, <2>2, <2>3, <2>4, <2>5, <2>6, <2>7 DEF Write
<1>5. CASE UNCHANGED roomVars
  BY <1>1, <1>5 DEF roomVars
<1> QED
  BY <1>2, <1>3, <1>4, <1>5
     DEF RoomNext, AskJoin, AskLeave, AskDelete, AskApprove, AskReject, AskRemove,
         AskRole, AskKick, AskPromote, Ask

\* The members of a room are a bounded set, whatever requests overlap: joins and
\* approvals that test memberCount implement a room that tests its members.
THEOREM KeepsPromise == RoomSpec => RoomKeepsPromise
<1>1. RoomInit => Promise!RoomStart
  BY DEF RoomInit, Members, Promise!RoomStart
<1> QED
  BY <1>1, StepPromises, Invariance, PTL
     DEF RoomSpec, RoomKeepsPromise, Promise!RoomPromise

\* Who enters a private room that exists had asked, and is approved as he enters.
THEOREM ApprovalHolds == RoomSpec => PrivateByApproval
<1>1. ASSUME RoomInv, [RoomNext]_roomVars, NEW u \in Users, u \in Members' \ Members
      PROVE  \/ room.stage = "none" \/ ~room.private
             \/ request[u] # "none" /\ request'[u] = "APPROVED"
  <2>1. role' # role
    BY <1>1 DEF Members
  <2>2. ASSUME NEW c \in Calls, Write(c)
        PROVE  \/ ~room.private
               \/ request[u] # "none" /\ request'[u] = "APPROVED"
    <3>1. CASE JoinPublic(c)
      BY <3>1 DEF JoinPublic
    <3>2. CASE Approve(c)
      <4>1. Admit(call[c].of) /\ call[c].op = "approve" /\ room.stage = "open"
        BY <2>1, <3>2 DEF Approve, Doing
      <4>2. call[c].of \in Users
        BY <1>1, <4>1 DEF RoomInv, Named
      <4>3. u = call[c].of
        BY <1>1, <4>1, <4>2 DEF Admit, Members, RoomInv, RoomTypeOK
      <4>4. request[u] # "none"
        BY <1>1, <4>1, <4>3 DEF RoomInv, Asked
      <4>5. request'[u] = "APPROVED"
        BY <1>1, <3>2, <4>3 DEF Approve, RoomInv, RoomTypeOK
      <4> QED
        BY <4>4, <4>5
    <3>3. CASE JoinPrivate(c) \/ Reject(c) \/ KickDecrement(c) \/ Fail(c)
      BY <2>1, <3>3 DEF JoinPrivate, Reject, KickDecrement, Fail
    <3>4. CASE SetRole(c)
      <4>1. Members' = Members
        BY <1>1, <3>4 DEF SetRole, Members, RoomInv, RoomTypeOK
      <4> QED
        BY <1>1, <4>1
    <3>5. CASE Leave(c) \/ Remove(c) \/ Kick(c) \/ Delete(c)
      BY <1>1, <3>5, LeaveKeeps, RemoveKeeps, KickKeeps, DeleteKeeps
    <3> QED
      BY <2>2, <3>1, <3>2, <3>3, <3>4, <3>5 DEF Write
  <2>3. ASSUME NEW v \in Users, CreateRoom(v)
        PROVE  room.stage = "none"
    BY <2>3 DEF CreateRoom
  <2>4. ASSUME NEW c, NEW op, NEW v, NEW owner, Begin(c, op, v, owner)
        PROVE  FALSE
    BY <2>1, <2>4 DEF Begin
  <2>5. ~ UNCHANGED roomVars
    BY <2>1 DEF roomVars
  <2> QED
    BY <1>1, <2>2, <2>3, <2>4, <2>5
       DEF RoomNext, AskJoin, AskLeave, AskDelete, AskApprove, AskReject, AskRemove,
           AskRole, AskKick, AskPromote, Ask
<1>2. RoomInv /\ [RoomNext]_roomVars =>
        [\A u \in Users : u \in Members' \ Members =>
           \/ room.stage = "none" \/ ~room.private
           \/ request[u] # "none" /\ request'[u] = "APPROVED"]_roomVars
  BY <1>1
<1> QED
  BY <1>2, Invariance, PTL DEF RoomSpec, PrivateByApproval

-----------------------------------------------------------------------------
(* Sessions: a token that was exchanged is in no row any more, and no two  *)
(* rows hold one token.                                                    *)

\* A row holds 0 or a token that was created.
RowsTyped ==
  /\ logins \in 0..MaxLogins /\ issued \in 0..MaxTokens
  /\ row \in [Sessions -> 0..issued] /\ spent \in [Tokens -> Nat]

\* No token is in two rows.
RowsDiffer == \A s, q \in Sessions : row[s] # 0 /\ row[s] = row[q] => s = q

\* An exchanged token was created, and is in no row.
SpentGone == \A k \in Tokens : spent[k] # 0 => k <= issued /\ \A s \in Sessions : row[s] # k

SessionInv == RowsTyped /\ RowsDiffer /\ SpentGone /\ ExchangedOnce

LEMMA SessionInitInv == SessionInit => SessionInv
  BY SessionAssumption
  DEF SessionInit, SessionInv, RowsTyped, RowsDiffer, SpentGone, ExchangedOnce, Sessions, Tokens

\* Rows that are emptied are no matter.
LEMMA EmptiedRows ==
  ASSUME SessionInv, UNCHANGED <<logins, issued, spent>>, row' \in [Sessions -> 0..issued],
         \A s \in Sessions : row'[s] \in {0, row[s]}
  PROVE  SessionInv'
<1>1. RowsTyped'
  BY DEF SessionInv, RowsTyped
<1>2. RowsDiffer'
  BY DEF SessionInv, RowsDiffer
<1>3. SpentGone'
  BY DEF SessionInv, SpentGone, Tokens
<1>4. ExchangedOnce'
  BY DEF SessionInv, ExchangedOnce
<1> QED
  BY <1>1, <1>2, <1>3, <1>4 DEF SessionInv

LEMMA CreateSessionInv ==
  ASSUME SessionInv, NEW r \in Requests, CreateSession(r)
  PROVE  SessionInv'
<1> USE SessionAssumption DEF Sessions, Tokens
<1>1. /\ logins' = logins + 1 /\ issued' = issued + 1 /\ spent' = spent
      /\ logins < MaxLogins /\ issued < MaxTokens
      /\ row' = [row EXCEPT ![logins + 1] = issued + 1]
  BY DEF CreateSession
<1>2. RowsTyped
  BY DEF SessionInv
<1>3. \A s \in Sessions : row'[s] = IF s = logins + 1 THEN issued + 1 ELSE row[s]
  BY <1>1, <1>2 DEF RowsTyped
<1>4. RowsTyped'
  BY <1>1, <1>2, <1>3 DEF RowsTyped
<1>5. RowsDiffer'
  <2> SUFFICES ASSUME NEW s \in Sessions, NEW q \in Sessions, row'[s] # 0, row'[s] = row'[q]
               PROVE  s = q
    BY DEF RowsDiffer
  <2>1. row[s] # issued + 1 /\ row[q] # issued + 1
    BY <1>2 DEF RowsTyped
  <2> QED
    BY <1>3, <2>1 DEF SessionInv, RowsDiffer
<1>6. SpentGone'
  BY <1>1, <1>2, <1>3 DEF SessionInv, SpentGone, RowsTyped
<1>7. ExchangedOnce'
  BY <1>1 DEF SessionInv, ExchangedOnce
<1> QED
  BY <1>4, <1>5, <1>6, <1>7 DEF SessionInv

\* The token given away was in a row, so it had not been exchanged before.
LEMMA RotateInv ==
  ASSUME SessionInv, NEW r \in Requests, Rotate(r)
  PROVE  SessionInv'
<1> USE SessionAssumption DEF Sessions, Tokens
<1>1. CASE UNCHANGED <<row, issued, spent>>
  <2>1. /\ UNCHANGED <<logins, issued, spent>> /\ row' \in [Sessions -> 0..issued]
        /\ \A s \in Sessions : row'[s] \in {0, row[s]}
    BY <1>1 DEF SessionInv, RowsTyped, Rotate
  <2> QED
    BY <2>1, EmptiedRows
<1>2. CASE ~UNCHANGED <<row, issued, spent>>
  <2> DEFINE k == sent[r].token
  <2>1. PICK s \in Holder(k) : /\ issued' = issued + 1 /\ row' = [row EXCEPT ![s] = issued']
                               /\ spent' = [spent EXCEPT ![k] = @ + 1]
    BY <1>2 DEF Rotate
  <2>2. RowsTyped /\ logins' = logins /\ issued < MaxTokens
    BY DEF SessionInv, Rotate
  <2>3. s \in Sessions /\ row[s] = k /\ k # 0 /\ k \in Tokens /\ k <= issued
    BY <2>1, <2>2 DEF Holder, RowsTyped
  <2>4. \A q \in Sessions : row'[q] = IF q = s THEN issued + 1 ELSE row[q]
    BY <2>1, <2>2 DEF RowsTyped
  <2>5. \A j \in Tokens : spent'[j] = IF j = k THEN spent[k] + 1 ELSE spent[j]
    BY <2>1, <2>2, <2>3 DEF RowsTyped
  <2>6. spent[k] = 0
    BY <2>3 DEF SessionInv, SpentGone
  <2> HIDE DEF k
  <2>7. RowsTyped'
    <3>1. spent' \in [Tokens -> Nat]
      BY <2>1, <2>2, <2>3 DEF RowsTyped
    <3>2. row' \in [Sessions -> 0..issued']
      BY <2>1, <2>2, <2>3 DEF RowsTyped
    <3> QED
      BY <2>1, <2>2, <3>1, <3>2 DEF RowsTyped
  <2>8. RowsDiffer'
    <3> SUFFICES ASSUME NEW p \in Sessions, NEW q \in Sessions, row'[p] # 0, row'[p] = row'[q]
                 PROVE  p = q
      BY DEF RowsDiffer
    <3>1. row[p] # issued + 1 /\ row[q] # issued + 1
      BY <2>2 DEF RowsTyped
    <3> QED
      BY <2>4, <3>1 DEF SessionInv, RowsDiffer
  <2>9. SpentGone'
    BY <2>1, <2>2, <2>3, <2>4, <2>5 DEF SessionInv, SpentGone, RowsDiffer, RowsTyped
  <2>10. ExchangedOnce'
    BY <2>5, <2>6 DEF SessionInv, ExchangedOnce
  <2> QED
    BY <2>7, <2>8, <2>9, <2>10 DEF SessionInv
<1> QED
  BY <1>1, <1>2

LEMMA SessionStep == SessionInv /\ [SessionNext]_sessionVars => SessionInv'
<1> SUFFICES ASSUME SessionInv, [SessionNext]_sessionVars PROVE SessionInv'
  OBVIOUS
<1>0. RowsTyped
  BY DEF SessionInv
<1>1. ASSUME UNCHANGED <<row, logins, issued, spent>> PROVE SessionInv'
  BY <1>0, <1>1, EmptiedRows DEF RowsTyped
<1>2. CASE UNCHANGED sessionVars
  BY <1>1, <1>2 DEF sessionVars
<1>3. ASSUME NEW t \in Tabs,
             \/ SignIn(t) \/ InitApiAuth(t) \/ FetchX(t) \/ LogoutAllRequest(t)
             \/ LogoutRequest(t) \/ LoadPage(t) \/ SignOut(t) \/ Unblock(t)
             \/ \E s \in Sessions : Revoke(t, s)
      PROVE  SessionInv'
  BY <1>1, <1>3 DEF SignIn, InitApiAuth, FetchX, LogoutAllRequest, LogoutRequest, LoadPage,
                    SignOut, Unblock, Revoke, RefreshAccessToken, Send
<1>4. ASSUME NEW r \in Requests PROVE
        (Refuse(r) \/ Limit(r) \/ Receive(r) \/ Lose(r)) => SessionInv'
  BY <1>1 DEF Refuse, Limit, Receive, Lose
<1>5. ASSUME NEW r \in Requests,
             FindSession(r) \/ Logout(r) \/ LogoutAll(r) \/ DeleteSession(r)
      PROVE  SessionInv'
  <2>1. UNCHANGED <<logins, issued, spent>>
    BY <1>5 DEF FindSession, Logout, LogoutAll, DeleteSession
  <2>2. /\ row' \in [Sessions -> 0..issued]
        /\ \A s \in Sessions : row'[s] \in {0, row[s]}
    <3>1. CASE FindSession(r)
      BY <3>1, <1>0 DEF FindSession, RowsTyped
    <3>2. CASE Logout(r)
      BY <3>2, <1>0 DEF Logout, RowsTyped
    <3>3. CASE LogoutAll(r)
      BY <3>3, <1>0 DEF LogoutAll, RowsTyped
    <3>4. CASE DeleteSession(r)
      <4> DEFINE of == sent[r].of
      <4>1. row' = [row EXCEPT ![of] = 0] /\ row \in [Sessions -> 0..issued] /\ issued \in Nat
        BY <3>4, <1>0, SessionAssumption DEF DeleteSession, RowsTyped
      <4> HIDE DEF of
      <4>2. row' = [s \in Sessions |-> IF s = of THEN 0 ELSE row[s]]
        BY <4>1
      <4>3. ASSUME NEW s \in Sessions PROVE row'[s] \in 0..issued /\ row'[s] \in {0, row[s]}
        BY <4>1, <4>2
      <4> QED
        BY <4>2, <4>3
    <3> QED
      BY <1>5, <3>1, <3>2, <3>3, <3>4
  <2> QED
    BY <2>1, <2>2, EmptiedRows
<1> QED
  BY <1>2, <1>3, <1>4, <1>5, CreateSessionInv, RotateInv DEF SessionNext

\* No refresh token is exchanged twice, whatever requests of however many tabs overlap.
THEOREM OneExchange == SessionSpec => []ExchangedOnce
<1>1. SessionSpec => []SessionInv
  BY SessionInitInv, SessionStep, PTL DEF SessionSpec
<1>2. SessionInv => ExchangedOnce
  BY DEF SessionInv
<1> QED
  BY <1>1, <1>2, PTL

-----------------------------------------------------------------------------
(* Sessions: the cookie is the newest session's token, or the answer under *)
(* way brings it.                                                          *)

Sents ==
  [op : {"none", "signin", "refresh", "logout", "logoutAll", "revoke"},
   from : Tabs \cup {NoTab}, token : 0..MaxTokens, of : 0..MaxLogins,
   answer : {"none", "ok", "refused", "limited"}, fresh : 0..MaxTokens]

\* What is under way, and the cookie, name tokens that were created.
SentTyped ==
  /\ sent \in [Requests -> Sents] /\ cookie \in 0..issued
  /\ \A r \in Requests : sent[r].fresh <= issued

\* The newest session is there.
Lives == logins > 0 /\ row[logins] # 0

\* One request at a time, of a page that waits for it, with the cookie there is.
Orderly ==
  /\ \A r, q \in Requests : sent[r] # Free /\ sent[q] # Free => r = q
  /\ \A r \in Requests : sent[r] # Free =>
       /\ sent[r].from # NoTab
       /\ sent[r].answer = "none" => sent[r].token = cookie
       /\ sent[r].answer \in {"refused", "limited"} => sent[r].op = "refresh"

\* The answer brings the token of the newest session, or else the cookie is it.
Brings ==
  Lives =>
    /\ \A r \in Requests : sent[r].answer = "ok" => sent[r].fresh = row[logins]
    /\ (\A r \in Requests : sent[r].answer # "ok") => cookie = row[logins]

CookieInv == SessionInv /\ SentTyped /\ (smooth => Orderly /\ Brings)

LEMMA FreeSent == Free \in Sents /\ Free.answer = "none" /\ Free.op = "none" /\ Free.fresh = 0
  BY SessionAssumption DEF Free, Sents

LEMMA CookieInitInv == SessionInit => CookieInv
  BY SessionInitInv, FreeSent
  DEF SessionInit, CookieInv, SentTyped, Orderly, Brings, Lives, SessionInv, RowsTyped

LEMMA AnswerEffect ==
  ASSUME SentTyped, NEW r \in Requests, NEW a \in {"ok", "refused", "limited"},
         NEW f \in 0..MaxTokens, Answer(r, a, f)
  PROVE  /\ sent' \in [Requests -> Sents]
         /\ \A q \in Requests : q # r => sent'[q] = sent[q]
         /\ sent[r].from = NoTab => sent'[r] = Free
         /\ sent[r].from # NoTab =>
              /\ sent'[r].answer = a /\ sent'[r].fresh = f
              /\ sent'[r].op = sent[r].op /\ sent'[r].from = sent[r].from
         /\ sent'[r].fresh \in {0, f}
<1> DEFINE c == [sent[r] EXCEPT !.answer = a, !.fresh = f]
<1>1. sent[r] \in Sents
  BY DEF SentTyped
<1>2. /\ c \in Sents /\ c.answer = a /\ c.fresh = f
      /\ c.op = sent[r].op /\ c.from = sent[r].from
  BY <1>1 DEF Sents
<1>3. sent' = [sent EXCEPT ![r] = IF sent[r].from = NoTab THEN Free ELSE c]
  BY DEF Answer
<1> HIDE DEF c
<1>4. \A q \in Requests :
        sent'[q] = IF q = r THEN IF sent[r].from = NoTab THEN Free ELSE c ELSE sent[q]
  BY <1>3 DEF SentTyped
<1>5. sent' \in [Requests -> Sents]
  BY <1>2, <1>3, FreeSent DEF SentTyped
<1> QED
  BY <1>2, <1>4, <1>5, FreeSent

\* A request that ends leaves nothing.
LEMMA EndsEffect ==
  ASSUME SentTyped, NEW r \in Requests, sent' = [sent EXCEPT ![r] = Free]
  PROVE  /\ sent' \in [Requests -> Sents] /\ sent'[r] = Free
         /\ \A q \in Requests : q # r => sent'[q] = sent[q]
  BY FreeSent DEF SentTyped

\* Orderly means that the others are free.
LEMMA OthersFree ==
  ASSUME Orderly, NEW r \in Requests, sent[r] # Free
  PROVE  \A q \in Requests : q # r => sent[q] = Free
  BY DEF Orderly

\* The server answers a request of a page that waits: what it brings is what counts.
LEMMA Answered ==
  ASSUME Orderly, SentTyped, NEW r \in Requests, sent[r] # Free,
         NEW a \in {"ok", "refused", "limited"}, NEW f \in 0..MaxTokens, Answer(r, a, f),
         a \in {"refused", "limited"} => sent[r].op = "refresh",
         UNCHANGED cookie,
         Lives' => IF a = "ok" THEN f = row'[logins'] ELSE cookie = row'[logins']
  PROVE  Orderly' /\ Brings'
<1>1. sent[r].from # NoTab
  BY DEF Orderly
<1>2. \A q \in Requests : q # r => sent'[q] = Free
  BY AnswerEffect, OthersFree
<1>3. /\ sent'[r].answer = a /\ sent'[r].fresh = f
      /\ sent'[r].op = sent[r].op /\ sent'[r].from = sent[r].from
  BY AnswerEffect, <1>1
<1>4. Orderly'
  BY <1>1, <1>2, <1>3 DEF Orderly
<1>5. Brings'
  <2> SUFFICES ASSUME Lives'
               PROVE  /\ \A q \in Requests :
                            sent'[q].answer = "ok" => sent'[q].fresh = row'[logins']
                      /\ (\A q \in Requests : sent'[q].answer # "ok") =>
                           cookie' = row'[logins']
    BY DEF Brings
  <2>1. \A q \in Requests : q # r => sent'[q].answer = "none"
    BY <1>2, FreeSent
  <2> QED
    BY <1>3, <2>1
<1> QED
  BY <1>4, <1>5

\* Nothing is under way after the step.
LEMMA AllFree ==
  ASSUME Orderly, SentTyped, NEW r \in Requests, sent[r] # Free,
         sent' = [sent EXCEPT ![r] = Free], Lives' => cookie' = row'[logins']
  PROVE  Orderly' /\ Brings'
<1>1. \A q \in Requests : sent'[q] = Free
  BY OthersFree, EndsEffect
<1> QED
  BY <1>1, FreeSent DEF Orderly, Brings

\* A request under way that is not answered has the newest token, if there is one.
LEMMA Unfulfilled ==
  ASSUME Orderly, Brings, NEW r \in Requests, sent[r] # Free, sent[r].answer # "ok"
  PROVE  Lives => cookie = row[logins]
  BY OthersFree, FreeSent DEF Brings

LEMMA SendCookie ==
  ASSUME CookieInv, NEW t \in Tabs,
         NEW op \in {"signin", "refresh", "logout", "logoutAll", "revoke"},
         NEW s \in 0..MaxLogins, Send(t, op, s)
  PROVE  CookieInv'
<1>1. PICK r \in Requests :
        /\ sent[r] = Free
        /\ sent' = [sent EXCEPT ![r] = [Free EXCEPT !.op = op, !.from = t, !.token = cookie,
                                                    !.of = s]]
  BY DEF Send
<1>2. /\ UNCHANGED <<row, logins, issued, cookie, marker, spent>>
      /\ smooth' = (smooth /\ \A q \in Requests : sent[q] = Free)
  BY DEF Send
<1> DEFINE c == [Free EXCEPT !.op = op, !.from = t, !.token = cookie, !.of = s]
<1>3. /\ c \in Sents /\ c.from = t /\ c.token = cookie /\ c.answer = "none" /\ c.fresh = 0
  <2>1. cookie \in 0..MaxTokens
    BY SessionAssumption DEF CookieInv, SentTyped, SessionInv, RowsTyped
  <2>2. /\ Free \in Sents /\ Free.answer = "none" /\ Free.fresh = 0
        /\ op \in {"none", "signin", "refresh", "logout", "logoutAll", "revoke"}
    BY FreeSent
  <2> QED
    BY <2>1, <2>2 DEF Sents
<1> HIDE DEF c
<1>4. /\ sent' \in [Requests -> Sents] /\ sent'[r] = c
      /\ \A q \in Requests : q # r => sent'[q] = sent[q]
  BY <1>1, <1>3 DEF CookieInv, SentTyped, c
<1>5. SentTyped'
  BY <1>2, <1>3, <1>4, SessionAssumption DEF CookieInv, SentTyped, SessionInv, RowsTyped
<1>6. SessionInv'
  BY <1>2, EmptiedRows DEF CookieInv, SessionInv, RowsTyped
<1>7. ASSUME smooth' PROVE Orderly' /\ Brings'
  <2>1. smooth /\ \A q \in Requests : sent[q] = Free
    BY <1>2, <1>7
  <2>2. \A q \in Requests : q # r => sent'[q] = Free
    BY <1>4, <2>1
  <2>3. Orderly'
    BY <1>2, <1>3, <1>4, <2>2, SessionAssumption DEF Orderly
  <2>4. \A q \in Requests : sent[q].answer = "none" /\ sent'[q].answer = "none"
    BY <2>1, <2>2, <1>3, <1>4, FreeSent
  <2>5. Brings'
    BY <1>2, <2>1, <2>4 DEF CookieInv, Brings, Lives
  <2> QED
    BY <2>3, <2>5
<1> QED
  BY <1>5, <1>6, <1>7 DEF CookieInv

\* A page goes, and with it the answers it was waiting for.
LEMMA OrphanedTyped ==
  ASSUME SentTyped, NEW t \in Tabs, sent' = Orphaned(t), UNCHANGED <<cookie, issued>>,
         RowsTyped
  PROVE  SentTyped'
<1>1. ASSUME NEW r \in Requests
      PROVE  sent'[r] \in Sents /\ sent'[r].fresh <= issued
  <2>1. sent[r] \in Sents /\ sent[r].fresh <= issued /\ issued \in Nat
    BY SessionAssumption DEF SentTyped, RowsTyped
  <2> DEFINE c == [sent[r] EXCEPT !.from = NoTab]
  <2>2. c \in Sents /\ c.fresh = sent[r].fresh
    BY <2>1 DEF Sents
  <2> HIDE DEF c
  <2>3. sent'[r] = sent[r] \/ sent'[r] = c \/ sent'[r] = Free
    BY DEF Orphaned, c
  <2> QED
    BY <2>1, <2>2, <2>3, FreeSent
<1>2. sent' = [r \in Requests |-> sent'[r]]
  BY DEF Orphaned
<1> QED
  BY <1>1, <1>2 DEF SentTyped

LEMMA PageCookie ==
  ASSUME CookieInv, NEW t \in Tabs, LoadPage(t) \/ SignOut(t) \/ Unblock(t)
  PROVE  CookieInv'
<1>1. UNCHANGED <<row, logins, issued, cookie, spent>>
  BY DEF LoadPage, SignOut, Unblock
<1>2. SessionInv'
  BY <1>1, EmptiedRows DEF CookieInv, SessionInv, RowsTyped
<1>3. SentTyped'
  BY <1>1, OrphanedTyped DEF LoadPage, SignOut, Unblock, CookieInv, SentTyped, SessionInv
<1>4. smooth' => smooth /\ sent' = sent
  BY DEF LoadPage, SignOut, Unblock
<1>5. ASSUME smooth' PROVE Orderly' /\ Brings'
  BY <1>1, <1>4, <1>5 DEF CookieInv, Orderly, Brings, Lives
<1> QED
  BY <1>2, <1>3, <1>5 DEF CookieInv

\* What a step of the server leaves alone.
LEMMA ServerTyped ==
  ASSUME SentTyped, RowsTyped, NEW r \in Requests, NEW a \in {"ok", "refused", "limited"},
         NEW f \in 0..MaxTokens, Answer(r, a, f), UNCHANGED cookie,
         issued' \in Nat, issued <= issued', f <= issued'
  PROVE  SentTyped'
<1>1. issued \in Nat
  BY SessionAssumption DEF RowsTyped
<1>2. sent' \in [Requests -> Sents] /\ sent'[r].fresh \in {0, f}
  BY AnswerEffect
<1>3. \A q \in Requests : q # r => sent'[q] = sent[q]
  BY AnswerEffect
<1>4. \A q \in Requests : sent[q].fresh \in Nat
  BY SessionAssumption DEF SentTyped, Sents
<1>5. cookie' \in 0..issued'
  BY <1>1 DEF SentTyped
<1> QED
  BY <1>1, <1>2, <1>3, <1>4, <1>5 DEF SentTyped

LEMMA RefuseCookie ==
  ASSUME CookieInv, NEW r \in Requests, Refuse(r) \/ Limit(r)
  PROVE  SentTyped' /\ (smooth' => Orderly' /\ Brings')
<1>1. /\ UNCHANGED <<row, logins, issued, cookie, smooth>>
      /\ sent[r] # Free /\ sent[r].answer = "none"
  BY FreeSent DEF Refuse, Limit, Unanswered
<1>2. issued \in Nat /\ SentTyped /\ RowsTyped
  BY SessionAssumption DEF CookieInv, SessionInv, RowsTyped
<1>3. smooth => Orderly /\ Brings /\ (Lives' => cookie' = row'[logins'])
  BY <1>1, Unfulfilled DEF CookieInv, Lives
<1>4. ASSUME NEW a \in {"refused", "limited"}, Answer(r, a, 0), sent[r].op = "refresh"
      PROVE  SentTyped' /\ (smooth' => Orderly' /\ Brings')
  <2>1. 0 \in 0..MaxTokens
    BY SessionAssumption
  <2>2. SentTyped'
    BY <1>1, <1>2, <1>4, <2>1, ServerTyped
  <2> QED
    BY <1>1, <1>2, <1>3, <1>4, <2>1, <2>2, Answered
<1>5. ASSUME sent' = [sent EXCEPT ![r] = Free]
      PROVE  SentTyped' /\ (smooth' => Orderly' /\ Brings')
  <2>1. SentTyped'
    BY <1>1, <1>2, <1>5, EndsEffect, FreeSent DEF SentTyped
  <2> QED
    BY <1>1, <1>2, <1>3, <1>5, <2>1, AllFree
<1> QED
  BY <1>4, <1>5 DEF Refuse, Limit, Unanswered

LEMMA CreateCookie ==
  ASSUME CookieInv, NEW r \in Requests, CreateSession(r)
  PROVE  SentTyped' /\ (smooth' => Orderly' /\ Brings')
<1>1. /\ UNCHANGED <<cookie, smooth>> /\ logins' = logins + 1 /\ issued' = issued + 1
      /\ logins < MaxLogins /\ issued < MaxTokens
      /\ row' = [row EXCEPT ![logins + 1] = issued + 1]
      /\ sent[r] # Free /\ Answer(r, "ok", issued + 1)
  BY FreeSent DEF CreateSession, Unanswered
<1>2. SentTyped /\ RowsTyped
  BY DEF CookieInv, SessionInv
<1>3. issued \in Nat /\ issued + 1 \in 0..MaxTokens /\ row'[logins'] = issued + 1
  BY <1>1, <1>2, SessionAssumption DEF RowsTyped, Sessions
<1>4. SentTyped'
  BY <1>1, <1>2, <1>3, ServerTyped
<1>5. smooth' => Orderly' /\ Brings'
  BY <1>1, <1>2, <1>3, Answered DEF CookieInv
<1> QED
  BY <1>4, <1>5

LEMMA FindCookie ==
  ASSUME CookieInv, NEW r \in Requests, FindSession(r)
  PROVE  SentTyped' /\ (smooth' => Orderly' /\ Brings')
<1>1. /\ UNCHANGED <<logins, issued, cookie, smooth>>
      /\ sent[r] # Free /\ sent[r].answer = "none" /\ sent[r].op = "refresh"
  BY FreeSent DEF FindSession, Unanswered
<1>2. SentTyped /\ RowsTyped /\ issued \in Nat /\ 0 \in 0..MaxTokens
  BY SessionAssumption DEF CookieInv, SessionInv, RowsTyped
<1>3. smooth => Orderly /\ Brings /\ (Lives => cookie = row[logins])
  BY <1>1, Unfulfilled DEF CookieInv
<1>4. CASE /\ row' = [s \in Sessions |-> IF s \in Holder(sent[r].token) THEN 0 ELSE row[s]]
           /\ Answer(r, "refused", 0)
  <2>1. SentTyped'
    BY <1>1, <1>2, <1>4, ServerTyped
  <2>2. Lives' => Lives /\ row'[logins'] = row[logins]
    BY <1>1, <1>2, <1>4, SessionAssumption DEF Lives, RowsTyped, Sessions
  <2> QED
    BY <1>1, <1>2, <1>3, <1>4, <2>1, <2>2, Answered
<1>5. CASE /\ \E s \in Holder(sent[r].token) : sent' = [sent EXCEPT ![r].of = s]
           /\ UNCHANGED row
  <2>1. PICK s \in Sessions : sent' = [sent EXCEPT ![r].of = s]
    BY <1>5 DEF Holder
  <2> DEFINE c == [sent[r] EXCEPT !.of = s]
  <2>2. sent[r] \in Sents /\ s \in 0..MaxLogins
    BY <1>2, SessionAssumption DEF SentTyped, Sessions
  <2>3. /\ c \in Sents /\ c.op = sent[r].op /\ c.from = sent[r].from
        /\ c.token = sent[r].token /\ c.answer = sent[r].answer /\ c.fresh = sent[r].fresh
    BY <2>2 DEF Sents
  <2>4. sent' = [sent EXCEPT ![r] = c]
    BY <2>1
  <2> HIDE DEF c
  <2>5. /\ sent' \in [Requests -> Sents] /\ sent'[r] = c
        /\ \A q \in Requests : q # r => sent'[q] = sent[q]
    BY <1>2, <2>3, <2>4 DEF SentTyped
  <2>6. SentTyped'
    BY <1>1, <1>2, <2>3, <2>5 DEF SentTyped
  <2>7. \A q \in Requests : sent'[q].answer = sent[q].answer /\ sent'[q].fresh = sent[q].fresh
    BY <2>3, <2>5
  <2>8. ASSUME smooth' PROVE Orderly'
    <3>1. Orderly
      BY <1>1, <1>3, <2>8
    <3> QED
      BY <1>1, <3>1, <2>3, <2>5, OthersFree DEF Orderly
  <2>9. ASSUME smooth' PROVE Brings'
    BY <1>1, <1>3, <1>5, <2>7, <2>9 DEF Brings, Lives
  <2> QED
    BY <2>6, <2>8, <2>9
<1> QED
  BY <1>4, <1>5 DEF FindSession

LEMMA RotateCookie ==
  ASSUME CookieInv, NEW r \in Requests, Rotate(r)
  PROVE  SentTyped' /\ (smooth' => Orderly' /\ Brings')
<1>1. /\ UNCHANGED <<logins, cookie, smooth>> /\ issued < MaxTokens
      /\ sent[r] # Free /\ sent[r].answer = "none" /\ sent[r].op = "refresh"
  BY FreeSent DEF Rotate, Unanswered
<1>2. SentTyped /\ RowsTyped /\ issued \in Nat /\ 0 \in 0..MaxTokens
  BY SessionAssumption DEF CookieInv, SessionInv, RowsTyped
<1>3. smooth => Orderly /\ Brings /\ (Lives => cookie = row[logins])
  BY <1>1, Unfulfilled DEF CookieInv
<1>4. CASE Answer(r, "refused", 0) /\ UNCHANGED <<row, issued, spent>>
  <2>1. SentTyped'
    BY <1>1, <1>2, <1>4, ServerTyped
  <2> QED
    BY <1>1, <1>2, <1>3, <1>4, <2>1, Answered DEF Lives
<1>5. ASSUME NEW s \in Holder(sent[r].token), issued' = issued + 1,
             row' = [row EXCEPT ![s] = issued'], Answer(r, "ok", issued')
      PROVE  SentTyped' /\ (smooth' => Orderly' /\ Brings')
  <2>1. issued + 1 \in 0..MaxTokens /\ Answer(r, "ok", issued + 1)
    BY <1>1, <1>2, <1>5, SessionAssumption
  <2>2. SentTyped'
    BY <1>1, <1>2, <1>5, <2>1, ServerTyped
  <2>3. ASSUME smooth, Lives' PROVE issued + 1 = row'[logins']
    <3>1. s \in Sessions /\ row[s] = sent[r].token /\ row[s] # 0
      BY <1>5 DEF Holder
    <3>2. logins \in Sessions
      BY <1>1, <1>2, <2>3, SessionAssumption DEF Lives, RowsTyped, Sessions
    <3>3. \A q \in Sessions : row'[q] = IF q = s THEN issued + 1 ELSE row[q]
      BY <1>2, <1>5 DEF RowsTyped
    <3>4. CASE logins = s
      BY <1>1, <3>2, <3>3, <3>4
    <3>5. CASE logins # s
      <4>1. Lives
        BY <1>1, <2>3, <3>2, <3>3, <3>5 DEF Lives
      <4>2. cookie = row[logins] /\ sent[r].token = cookie
        BY <1>1, <1>3, <2>3, <4>1 DEF Orderly
      <4> QED
        BY <3>1, <3>2, <3>5, <4>2 DEF CookieInv, SessionInv, RowsDiffer
    <3> QED
      BY <3>4, <3>5
  <2> QED
    BY <1>1, <1>2, <1>3, <2>1, <2>2, <2>3, Answered
<1> QED
  BY <1>4, <1>5 DEF Rotate

LEMMA EndCookie ==
  ASSUME CookieInv, NEW r \in Requests, Logout(r) \/ LogoutAll(r) \/ DeleteSession(r)
  PROVE  SentTyped' /\ (smooth' => Orderly' /\ Brings')
<1>1. /\ UNCHANGED <<logins, issued, cookie, smooth>>
      /\ sent[r] # Free /\ sent[r].answer = "none"
  BY FreeSent DEF Logout, LogoutAll, DeleteSession, Unanswered
<1>2. SentTyped /\ RowsTyped /\ issued \in Nat /\ 0 \in 0..MaxTokens
  BY SessionAssumption DEF CookieInv, SessionInv, RowsTyped
<1>3. smooth => Orderly /\ Brings /\ (Lives => cookie = row[logins])
  BY <1>1, Unfulfilled DEF CookieInv
<1>4. logins > 0 => logins \in Sessions
  BY <1>2, SessionAssumption DEF RowsTyped, Sessions
<1>5. CASE Logout(r) \/ LogoutAll(r)
  <2>1. Answer(r, "ok", 0)
    BY <1>5 DEF Logout, LogoutAll
  <2>2. SentTyped'
    BY <1>1, <1>2, <2>1, ServerTyped
  <2>3. ASSUME smooth, Lives' PROVE FALSE
    <3>1. logins \in Sessions /\ row'[logins] # 0
      BY <1>1, <1>4, <2>3 DEF Lives
    <3>2. CASE LogoutAll(r)
      BY <3>1, <3>2 DEF LogoutAll
    <3>3. CASE Logout(r)
      <4>1. row'[logins] = row[logins] /\ logins \notin Holder(sent[r].token)
        BY <3>1, <3>3 DEF Logout
      <4>2. Lives
        BY <1>1, <2>3, <3>1, <4>1 DEF Lives
      <4>3. cookie = row[logins] /\ sent[r].token = cookie
        BY <1>1, <1>3, <2>3, <4>2 DEF Orderly
      <4> QED
        BY <3>1, <4>1, <4>3 DEF Holder
    <3> QED
      BY <1>5, <3>2, <3>3
  <2> QED
    BY <1>1, <1>2, <1>3, <2>1, <2>2, <2>3, Answered
<1>6. CASE DeleteSession(r)
  <2>1. sent' = [sent EXCEPT ![r] = Free]
    BY <1>6 DEF DeleteSession
  <2>2. SentTyped'
    BY <1>1, <1>2, <2>1, EndsEffect, FreeSent DEF SentTyped
  <2> DEFINE of == sent[r].of
  <2>3. row' = [row EXCEPT ![of] = 0]
    BY <1>6 DEF DeleteSession
  <2> HIDE DEF of
  <2>4. \A s \in Sessions : row'[s] = IF s = of THEN 0 ELSE row[s]
    BY <1>2, <2>3 DEF RowsTyped
  <2>5. Lives' => Lives /\ row'[logins'] = row[logins]
    BY <1>1, <1>4, <2>4 DEF Lives
  <2> QED
    BY <1>1, <1>2, <1>3, <2>1, <2>2, <2>5, AllFree
<1> QED
  BY <1>5, <1>6

LEMMA ReceiveCookie ==
  ASSUME CookieInv, NEW r \in Requests, Receive(r)
  PROVE  SentTyped' /\ (smooth' => Orderly' /\ Brings')
<1>1. /\ UNCHANGED <<row, logins, issued, smooth>> /\ sent' = [sent EXCEPT ![r] = Free]
      /\ sent[r].answer # "none" /\ sent[r] # Free
  BY FreeSent DEF Receive
<1>2. SentTyped /\ RowsTyped /\ issued \in Nat /\ sent[r] \in Sents
  BY SessionAssumption DEF CookieInv, SessionInv, RowsTyped, SentTyped
<1>3. sent[r].answer \in {"ok", "refused", "limited"}
  BY <1>1, <1>2 DEF Sents
<1>4. \/ cookie' = cookie /\ sent[r].op = "refresh" /\ sent[r].answer \in {"refused", "limited"}
      \/ cookie' = sent[r].fresh /\ ~(sent[r].op = "refresh" /\ sent[r].answer # "ok")
  BY <1>3 DEF Receive, Cookies
<1>5. sent[r].fresh \in 0..issued
  BY <1>2, SessionAssumption DEF SentTyped, Sents
<1>6. SentTyped'
  BY <1>1, <1>2, <1>4, <1>5, EndsEffect, FreeSent DEF SentTyped
<1>7. ASSUME smooth PROVE Orderly' /\ Brings'
  <2>1. Orderly /\ Brings
    BY <1>7 DEF CookieInv
  <2>2. sent[r].op # "refresh" => sent[r].answer = "ok"
    BY <1>1, <1>3, <2>1 DEF Orderly
  <2>3. Lives' => cookie' = row'[logins']
    <3>1. Lives' => Lives
      BY <1>1 DEF Lives
    <3>2. CASE sent[r].answer = "ok"
      BY <1>1, <1>4, <2>1, <3>1, <3>2 DEF Brings
    <3>3. CASE sent[r].answer # "ok"
      BY <1>1, <1>4, <2>1, <2>2, <3>1, <3>3, Unfulfilled
    <3> QED
      BY <3>2, <3>3
  <2> QED
    BY <1>1, <1>2, <2>1, <2>3, AllFree
<1> QED
  BY <1>1, <1>6, <1>7

LEMMA LoseCookie ==
  ASSUME CookieInv, NEW r \in Requests, Lose(r)
  PROVE  SentTyped' /\ (smooth' => Orderly' /\ Brings')
<1>1. UNCHANGED <<issued, cookie>> /\ sent' = [sent EXCEPT ![r] = Free] /\ ~smooth'
  BY DEF Lose
<1>2. SentTyped /\ issued \in Nat
  BY SessionAssumption DEF CookieInv, SessionInv, RowsTyped
<1> QED
  BY <1>1, <1>2, EndsEffect, FreeSent DEF SentTyped

LEMMA CookieStep == CookieInv /\ [SessionNext]_sessionVars => CookieInv'
<1> SUFFICES ASSUME CookieInv, [SessionNext]_sessionVars PROVE CookieInv'
  OBVIOUS
<1>1. SessionInv'
  BY SessionStep DEF CookieInv
<1>2. CASE UNCHANGED sessionVars
  BY <1>1, <1>2 DEF sessionVars, CookieInv, SentTyped, Orderly, Brings, Lives
<1>3. ASSUME NEW t \in Tabs,
             SignIn(t) \/ InitApiAuth(t) \/ FetchX(t) \/ LogoutAllRequest(t) \/ LogoutRequest(t)
      PROVE  CookieInv'
  <2>1. 0 \in 0..MaxLogins
    BY SessionAssumption
  <2> QED
    BY <1>3, <2>1, SendCookie
    DEF SignIn, InitApiAuth, FetchX, LogoutAllRequest, LogoutRequest, RefreshAccessToken
<1>4. ASSUME NEW t \in Tabs, NEW s \in Sessions, Revoke(t, s) PROVE CookieInv'
  <2>1. s \in 0..MaxLogins
    BY SessionAssumption DEF Sessions
  <2> QED
    BY <1>4, <2>1, SendCookie DEF Revoke
<1>5. ASSUME NEW r \in Requests,
             \/ Refuse(r) \/ Limit(r) \/ CreateSession(r) \/ FindSession(r) \/ Rotate(r)
             \/ Logout(r) \/ LogoutAll(r) \/ DeleteSession(r) \/ Receive(r) \/ Lose(r)
      PROVE  CookieInv'
  <2>1. SentTyped' /\ (smooth' => Orderly' /\ Brings')
    BY <1>5, RefuseCookie, CreateCookie, FindCookie, RotateCookie, EndCookie, ReceiveCookie,
       LoseCookie
  <2> QED
    BY <1>1, <2>1 DEF CookieInv
<1> QED
  BY <1>2, <1>3, <1>4, <1>5, PageCookie DEF SessionNext

\* As long as requests follow each other and none is lost, the cookie is the token that
\* the newest session holds, whenever nothing is under way.
THEOREM CookieAlwaysFollows == SessionSpec => []CookieFollows
<1>1. CookieInv => CookieFollows
  BY FreeSent DEF CookieInv, Brings, Lives, CookieFollows
<1> QED
  BY <1>1, CookieInitInv, CookieStep, PTL DEF SessionSpec
-----------------------------------------------------------------------------
(* Sessions: the types.                                                    *)

\* What a tab's page keeps.
TabStates == [access : BOOLEAN, flight : BOOLEAN, blocked : BOOLEAN]

TabTyped == tab \in [Tabs -> TabStates] /\ marker \in BOOLEAN /\ smooth \in BOOLEAN

LEMMA FreshTyped == FreshPage \in TabStates
  BY DEF FreshPage, TabStates

LEMMA TabSet ==
  ASSUME TabTyped, NEW t, NEW c, t \in Tabs => c \in TabStates, tab' = [tab EXCEPT ![t] = c]
  PROVE  tab' \in [Tabs -> TabStates]
  BY DEF TabTyped

LEMMA TabFields ==
  ASSUME NEW c \in TabStates, NEW x \in BOOLEAN, NEW y \in BOOLEAN
  PROVE  /\ [c EXCEPT !.access = x] \in TabStates
         /\ [c EXCEPT !.flight = x] \in TabStates
         /\ [c EXCEPT !.blocked = x] \in TabStates
         /\ [c EXCEPT !.flight = x, !.access = y] \in TabStates
         /\ [c EXCEPT !.flight = x, !.blocked = y] \in TabStates
  BY DEF TabStates

LEMMA TabStep == TabTyped /\ [SessionNext]_sessionVars => TabTyped'
<1> SUFFICES ASSUME TabTyped, [SessionNext]_sessionVars PROVE TabTyped'
  OBVIOUS
<1>1. \A t \in Tabs : tab[t] \in TabStates
  BY DEF TabTyped
<1>2. ASSUME NEW t \in Tabs,
             \/ SignIn(t) \/ InitApiAuth(t) \/ FetchX(t) \/ LogoutAllRequest(t)
             \/ LogoutRequest(t) \/ \E s \in Sessions : Revoke(t, s)
      PROVE  TabTyped'
  <2>1. marker' = marker /\ smooth' \in BOOLEAN
    BY <1>2 DEF SignIn, InitApiAuth, FetchX, LogoutAllRequest, LogoutRequest, Revoke,
                RefreshAccessToken, Send, TabTyped
  <2>2. tab' = tab \/ tab' = [tab EXCEPT ![t] = [tab[t] EXCEPT !.flight = TRUE]]
    BY <1>2 DEF SignIn, InitApiAuth, FetchX, LogoutAllRequest, LogoutRequest, Revoke,
                RefreshAccessToken, Send
  <2>3. tab' \in [Tabs -> TabStates]
    <3>1. [tab[t] EXCEPT !.flight = TRUE] \in TabStates
      BY <1>1, TabFields
    <3> QED
      BY <2>2, <3>1, TabSet DEF TabTyped
  <2> QED
    BY <2>1, <2>3 DEF TabTyped
<1>3. ASSUME NEW t \in Tabs, LoadPage(t) \/ SignOut(t) \/ Unblock(t) PROVE TabTyped'
  <2>1. marker' \in BOOLEAN /\ smooth' \in BOOLEAN
    BY <1>3 DEF LoadPage, SignOut, Unblock, TabTyped
  <2>2. \/ tab' = [tab EXCEPT ![t] = FreshPage]
        \/ tab' = [tab EXCEPT ![t] = [tab[t] EXCEPT !.blocked = FALSE]]
    BY <1>3 DEF LoadPage, SignOut, Unblock
  <2>3. tab' \in [Tabs -> TabStates]
    <3>1. [tab[t] EXCEPT !.blocked = FALSE] \in TabStates
      BY <1>1, TabFields
    <3> QED
      BY <2>2, <3>1, TabSet, FreshTyped
  <2> QED
    BY <2>1, <2>3 DEF TabTyped
<1>4. ASSUME NEW r \in Requests,
             \/ Refuse(r) \/ Limit(r) \/ CreateSession(r) \/ FindSession(r) \/ Rotate(r)
             \/ Logout(r) \/ LogoutAll(r) \/ DeleteSession(r)
      PROVE  TabTyped'
  BY <1>4 DEF Refuse, Limit, CreateSession, FindSession, Rotate, Logout, LogoutAll,
              DeleteSession, TabTyped
<1>5. ASSUME NEW r \in Requests, Receive(r) PROVE TabTyped'
  <2>1. marker' \in BOOLEAN /\ smooth' = smooth
    BY <1>5 DEF Receive, Cookies, TabTyped
  <2> DEFINE t == sent[r].from
             c == tab[t]
  <2>2. \/ tab' = tab
        \/ tab' = [tab EXCEPT ![t] = [c EXCEPT !.flight = FALSE, !.access = FALSE]]
        \/ tab' = [tab EXCEPT ![t] = [c EXCEPT !.flight = FALSE, !.blocked = TRUE]]
        \/ tab' = [tab EXCEPT ![t] = [c EXCEPT !.flight = FALSE, !.access = TRUE]]
        \/ tab' = [tab EXCEPT ![t] = [c EXCEPT !.access = TRUE]]
    BY <1>5 DEF Receive
  <2>3. t \in Tabs => c \in TabStates
    BY <1>1
  <2> HIDE DEF t, c
  <2>4. tab' \in [Tabs -> TabStates]
    BY <2>2, <2>3, TabSet, TabFields DEF TabTyped
  <2> QED
    BY <2>1, <2>4 DEF TabTyped
<1>6. ASSUME NEW r \in Requests, Lose(r) PROVE TabTyped'
  <2>1. marker' = marker /\ smooth' = FALSE
    BY <1>6 DEF Lose
  <2> DEFINE t == sent[r].from
             c == tab[t]
             x == c.flight /\ sent[r].op # "refresh"
  <2>2. tab' = [tab EXCEPT ![t] = [c EXCEPT !.flight = x]]
    BY <1>6 DEF Lose
  <2>3. t \in Tabs => c \in TabStates
    BY <1>1
  <2>4. x \in BOOLEAN
    OBVIOUS
  <2> HIDE DEF t, c, x
  <2>5. tab' \in [Tabs -> TabStates]
    BY <2>2, <2>3, <2>4, TabSet, TabFields
  <2> QED
    BY <2>1, <2>5 DEF TabTyped
<1>7. CASE UNCHANGED sessionVars
  BY <1>7 DEF sessionVars, TabTyped
<1> QED
  BY <1>2, <1>3, <1>4, <1>5, <1>6, <1>7 DEF SessionNext

\* The tokens of the rows, the cookie, the requests under way: they keep their types.
LEMMA SessionTypedStep ==
  CookieInv /\ TabTyped /\ [SessionNext]_sessionVars => (CookieInv /\ TabTyped)'
  BY CookieStep, TabStep

LEMMA SessionInitTyped == SessionInit => CookieInv /\ TabTyped
  BY CookieInitInv, FreshTyped DEF SessionInit, TabTyped

LEMMA SessionTypes == CookieInv /\ TabTyped => SessionTypeOK
<1> SUFFICES ASSUME CookieInv, TabTyped PROVE SessionTypeOK
  OBVIOUS
<1>1. row \in [Sessions -> 0..MaxTokens] /\ logins \in 0..MaxLogins /\ issued \in 0..MaxTokens
  <2>1. RowsTyped
    BY DEF CookieInv, SessionInv
  <2>2. \A s \in Sessions : row[s] \in 0..MaxTokens
    BY <2>1, SessionAssumption DEF RowsTyped
  <2> QED
    BY <2>1, <2>2 DEF RowsTyped
<1>2. spent \in [Tokens -> Nat]
  BY DEF CookieInv, SessionInv, RowsTyped
<1>3. cookie \in 0..issued /\ sent \in [Requests -> Sents]
  BY DEF CookieInv, SentTyped
<1>4. marker \in BOOLEAN /\ smooth \in BOOLEAN /\ tab \in [Tabs -> TabStates]
  BY DEF TabTyped
<1> QED
  BY <1>1, <1>2, <1>3, <1>4 DEF SessionTypeOK, Sents, TabStates
-----------------------------------------------------------------------------
(* Accounts: the token of a row goes from the request that stored it       *)
(* through the queue and the consumer to the mailbox, or is lost.          *)

\* A user who is not verified has a token.
HasToken == account.exists /\ ~account.verified => account.token # 0

\* What is published is a token.
Published == \A e \in Errands : errand[e].op = "publish" => errand[e].link # 0

\* What the consumer has mailed arrived.
Mailed == desk.mailed => desk.link \in mailbox

AccountInv == AccountTypeOK /\ HasToken /\ Published /\ Mailed /\ LinkWorks

\* Where a link can be, from its publication on.
Queued(k) == \E i \in 1..Len(mailQueue) : mailQueue[i] = k
Somewhere(k) ==
  \/ k \in mailbox \cup lost \cup {desk.link}
  \/ Queued(k)
  \/ \E e \in Errands : errand[e].op = "publish" /\ errand[e].link = k

LEMMA AccountInitInv == AccountInit => AccountInv
  BY AccountAssumption
  DEF AccountInit, AccountInv, AccountTypeOK, HasToken, Published, Mailed, LinkWorks, Links,
      NoErrand, EmptyDesk

\* A consumer that has a message has a token to mail.
LEMMA DeskHolds ==
  ASSUME AccountTypeOK, Mailed, desk # EmptyDesk
  PROVE  desk.link \in Links
<1>1. CASE desk.link = 0
  <2>1. ~desk.mailed
    BY <1>1, AccountAssumption DEF AccountTypeOK, Mailed, Links
  <2>2. desk = [link |-> 0, mailed |-> FALSE]
    BY <1>1, <2>1 DEF AccountTypeOK
  <2> QED
    BY <2>2 DEF EmptyDesk
<1>2. CASE desk.link # 0
  BY <1>2, AccountAssumption DEF AccountTypeOK, Links
<1> QED
  BY <1>1, <1>2

\* A request that ends.
LEMMA FinishEnds ==
  ASSUME AccountTypeOK, NEW e \in Errands, Finish(e)
  PROVE  /\ errand' \in [Errands ->
              [op : {"none", "create", "store", "publish", "mark", "upsert"},
               link : 0..MaxLinks, found : BOOLEAN]]
         /\ errand'[e].op = "none"
         /\ \A f \in Errands \ {e} : errand'[f] = errand[f]
  BY AccountAssumption DEF AccountTypeOK, Finish, NoErrand

\* A new token is stored.
LEMMA NewToken ==
  ASSUME AccountTypeOK, NEW e \in Errands, WithNewToken(e)
  PROVE  /\ AccountTypeOK' /\ links' \in Links
         /\ account'.token = links' /\ account'.exists
         /\ errand'[e].op = "publish" /\ errand'[e].link = links'
         /\ \A f \in Errands \ {e} : errand'[f] = errand[f]
         /\ UNCHANGED <<mailQueue, desk, mailbox, lost>>
<1>1. links' = links + 1 /\ links' \in Links /\ links' \in 0..MaxLinks
  BY AccountAssumption DEF WithNewToken, AccountTypeOK, Links
<1>2. /\ account' = [exists |-> TRUE, verified |-> account.verified, token |-> links']
      /\ errand' = [errand EXCEPT ![e] = [op |-> "publish", link |-> links', found |-> TRUE]]
      /\ UNCHANGED <<mailQueue, desk, mailbox, lost>>
  BY <1>1 DEF WithNewToken
<1>3. AccountTypeOK'
  BY <1>1, <1>2 DEF AccountTypeOK
<1> QED
  BY <1>1, <1>2, <1>3 DEF AccountTypeOK

\* What every step leaves true of the types, and what may become of the links: a step
\* stores one, or every link of an errand, of the queue or the desk goes on or is lost.
LEMMA AccountTypeStep ==
  ASSUME AccountTypeOK, Published, Mailed, [AccountNext]_accountVars
  PROVE  AccountTypeOK'
<1> USE AccountAssumption
<1>1. ASSUME NEW e \in Errands, NEW op \in {"create", "store", "mark", "upsert"},
             Undertake(e, op)
      PROVE  AccountTypeOK'
  BY <1>1 DEF Undertake, AccountTypeOK
<1>2. ASSUME NEW e \in Errands,
             Signup(e) \/ ResendVerification(e) \/ UpsertOAuthUser(e) \/ VerifyEmail(e)
      PROVE  AccountTypeOK'
  BY <1>1, <1>2 DEF Signup, ResendVerification, UpsertOAuthUser, VerifyEmail
<1>3. ASSUME NEW e \in Errands, CreateUser(e) \/ StoreToken(e) PROVE AccountTypeOK'
  BY <1>3, NewToken DEF CreateUser, StoreToken
<1>4. ASSUME NEW e \in Errands, MarkVerified(e) \/ WriteOAuthUser(e) PROVE AccountTypeOK'
  <2>1. account' \in [exists : BOOLEAN, verified : BOOLEAN, token : 0..MaxLinks]
    <3>1. CASE MarkVerified(e)
      BY <3>1 DEF MarkVerified
    <3>2. CASE WriteOAuthUser(e)
      BY <3>2 DEF WriteOAuthUser, AccountTypeOK
    <3> QED
      BY <1>4, <3>1, <3>2
  <2>2. Finish(e) /\ UNCHANGED <<links, mailQueue, desk, mailbox, lost>>
    BY <1>4 DEF MarkVerified, WriteOAuthUser
  <2> QED
    BY <2>1, <2>2, FinishEnds DEF AccountTypeOK
<1>5. ASSUME NEW e \in Errands, PublishEmailTask(e) PROVE AccountTypeOK'
  <2>1. errand[e].link \in Links
    BY <1>5 DEF PublishEmailTask, Published, AccountTypeOK, Links
  <2>2. CASE mailQueue' = Append(mailQueue, errand[e].link) /\ UNCHANGED lost
    <3>1. mailQueue' \in Seq(Links)
      BY <2>1, <2>2 DEF AccountTypeOK
    <3> QED
      BY <1>5, <2>2, <3>1, FinishEnds DEF PublishEmailTask, AccountTypeOK
  <2>3. CASE lost' = lost \cup {errand[e].link} /\ UNCHANGED mailQueue
    BY <1>5, <2>1, <2>3, FinishEnds DEF PublishEmailTask, AccountTypeOK
  <2> QED
    BY <1>5, <2>2, <2>3 DEF PublishEmailTask
<1>6. ASSUME NEW e \in Errands, Abandon(e) PROVE AccountTypeOK'
  <2>1. errand[e].op = "publish" => errand[e].link \in Links
    BY DEF Published, AccountTypeOK, Links
  <2>2. lost' \subseteq Links
    BY <1>6, <2>1 DEF Abandon, AccountTypeOK
  <2> QED
    BY <1>6, <2>2, FinishEnds DEF Abandon, AccountTypeOK
<1>7. CASE Fetch
  <2>1. Head(mailQueue) \in Links /\ mailQueue' \in Seq(Links)
    BY <1>7 DEF Fetch, AccountTypeOK
  <2>2. Links \subseteq 0..MaxLinks
    BY DEF Links
  <2>3. desk' \in [link : 0..MaxLinks, mailed : BOOLEAN]
    BY <1>7, <2>1, <2>2 DEF Fetch
  <2> QED
    BY <1>7, <2>1, <2>3 DEF Fetch, AccountTypeOK
<1>8. CASE SendVerificationEmail
  BY <1>8, DeskHolds DEF SendVerificationEmail, AccountTypeOK
<1>9. CASE AckMail
  BY <1>9, DeskHolds DEF AckMail, AccountTypeOK, EmptyDesk
<1>10. CASE LoseConsumer
  <2>1. <<desk.link>> \in Seq(Links)
    BY <1>10, DeskHolds DEF LoseConsumer
  <2>2. mailQueue' \in Seq(Links)
    BY <1>10, <2>1 DEF LoseConsumer, AccountTypeOK
  <2> QED
    BY <1>10, <2>2 DEF LoseConsumer, AccountTypeOK, EmptyDesk
<1>11. CASE UNCHANGED accountVars
  BY <1>11 DEF accountVars, AccountTypeOK
<1> QED
  BY <1>2, <1>3, <1>4, <1>5, <1>6, <1>7, <1>8, <1>9, <1>10, <1>11 DEF AccountNext

\* A link that is somewhere stays somewhere.
LEMMA NeverVanishes ==
  ASSUME AccountInv, [AccountNext]_accountVars, NEW k \in Links, Somewhere(k)
  PROVE  Somewhere(k)'
<1> USE AccountAssumption
<1>0. AccountTypeOK /\ Published /\ Mailed /\ k # 0
  BY DEF AccountInv, Links
<1>1. ASSUME UNCHANGED <<mailQueue, desk, mailbox, lost>>,
             \A e \in Errands : errand[e].op = "publish" => errand'[e] = errand[e]
      PROVE  Somewhere(k)'
  BY <1>1 DEF Somewhere, Queued
<1>2. ASSUME NEW e \in Errands,
             Signup(e) \/ ResendVerification(e) \/ UpsertOAuthUser(e) \/ VerifyEmail(e)
      PROVE  Somewhere(k)'
  <2>1. UNCHANGED <<mailQueue, desk, mailbox, lost>> /\ errand[e] = NoErrand
    BY <1>2 DEF Signup, ResendVerification, UpsertOAuthUser, VerifyEmail, Undertake
  <2>2. \A f \in Errands \ {e} : errand'[f] = errand[f]
    BY <1>0, <1>2 DEF Signup, ResendVerification, UpsertOAuthUser, VerifyEmail, Undertake,
                      AccountTypeOK
  <2>3. errand[e].op # "publish"
    BY <2>1 DEF NoErrand
  <2> QED
    BY <1>1, <2>1, <2>2, <2>3
<1>3. ASSUME NEW e \in Errands, CreateUser(e) \/ StoreToken(e) PROVE Somewhere(k)'
  <2>1. errand[e].op # "publish" /\ WithNewToken(e)
    BY <1>3 DEF CreateUser, StoreToken
  <2> QED
    BY <1>0, <1>1, <2>1, NewToken
<1>4. ASSUME NEW e \in Errands, MarkVerified(e) \/ WriteOAuthUser(e) PROVE Somewhere(k)'
  <2>1. errand[e].op # "publish" /\ Finish(e) /\ UNCHANGED <<mailQueue, desk, mailbox, lost>>
    BY <1>4 DEF MarkVerified, WriteOAuthUser
  <2> QED
    BY <1>0, <1>1, <2>1, FinishEnds
<1>5. ASSUME NEW e \in Errands, PublishEmailTask(e) PROVE Somewhere(k)'
  <2>1. /\ \A f \in Errands \ {e} : errand'[f] = errand[f]
        /\ UNCHANGED <<desk, mailbox>>
    BY <1>0, <1>5, FinishEnds DEF PublishEmailTask
  <2>2. CASE mailQueue' = Append(mailQueue, errand[e].link) /\ UNCHANGED lost
    <3> DEFINE n == Len(mailQueue) x == errand[e].link
    <3>1. /\ mailQueue \in Seq(Links) /\ n \in Nat
          /\ Len(mailQueue') = n + 1 /\ mailQueue'[n + 1] = x
          /\ \A i \in 1..n : mailQueue'[i] = mailQueue[i]
      BY <1>0, <2>2 DEF AccountTypeOK
    <3> HIDE DEF n, x
    <3>2. Queued(k) => Queued(k)'
      BY <3>1 DEF Queued, n
    <3>3. k = x => Queued(k)'
      BY <3>1 DEF Queued
    <3> QED
      BY <2>1, <2>2, <3>2, <3>3 DEF Somewhere, x
  <2>3. CASE lost' = lost \cup {errand[e].link} /\ UNCHANGED mailQueue
    BY <2>1, <2>3 DEF Somewhere, Queued
  <2> QED
    BY <1>5, <2>2, <2>3 DEF PublishEmailTask
<1>6. ASSUME NEW e \in Errands, Abandon(e) PROVE Somewhere(k)'
  <2>1. /\ \A f \in Errands \ {e} : errand'[f] = errand[f]
        /\ UNCHANGED <<mailQueue, desk, mailbox>>
        /\ lost \subseteq lost' /\ (errand[e].op = "publish" => errand[e].link \in lost')
    BY <1>0, <1>6, FinishEnds DEF Abandon
  <2> QED
    BY <2>1 DEF Somewhere, Queued
<1>7. CASE Fetch
  <2> DEFINE n == Len(mailQueue)
  <2>1. /\ mailQueue \in Seq(Links) /\ n \in Nat
        /\ desk.link = 0 /\ desk'.link = mailQueue[1]
        /\ UNCHANGED <<errand, mailbox, lost>>
    BY <1>0, <1>7 DEF Fetch, AccountTypeOK, EmptyDesk
  <2>2. /\ Len(mailQueue') = n - 1
        /\ \A i \in 1..(n - 1) : mailQueue'[i] = mailQueue[i + 1]
    BY <1>7, <2>1 DEF Fetch
  <2> HIDE DEF n
  <2>3. ASSUME NEW i \in 1..n, mailQueue[i] = k, i # 1
        PROVE  Queued(k)'
    <3>1. i - 1 \in 1..(n - 1) /\ mailQueue'[i - 1] = k
      BY <2>1, <2>2, <2>3
    <3> QED
      BY <2>2, <3>1 DEF Queued
  <2>4. Queued(k) => k = desk'.link \/ Queued(k)'
    BY <2>1, <2>3 DEF Queued, n
  <2> QED
    BY <1>0, <2>1, <2>4 DEF Somewhere
<1>8. CASE SendVerificationEmail
  <2>1. /\ desk'.link = desk.link /\ mailbox \subseteq mailbox'
        /\ UNCHANGED <<errand, mailQueue, lost>>
    BY <1>8 DEF SendVerificationEmail
  <2> QED
    BY <2>1 DEF Somewhere, Queued
<1>9. CASE AckMail
  <2>1. /\ desk.link \in mailbox' \cup lost' /\ mailbox \subseteq mailbox' /\ lost \subseteq lost'
        /\ UNCHANGED <<errand, mailQueue>>
    BY <1>0, <1>9 DEF AckMail, Mailed
  <2> QED
    BY <2>1 DEF Somewhere, Queued
<1>10. CASE LoseConsumer
  <2> DEFINE n == Len(mailQueue)
  <2>1. /\ mailQueue \in Seq(Links) /\ n \in Nat /\ desk.link \in Links
        /\ mailQueue' = <<desk.link>> \o mailQueue
        /\ UNCHANGED <<errand, mailbox, lost>>
    BY <1>0, <1>10, DeskHolds DEF LoseConsumer, AccountTypeOK
  <2>2. /\ Len(mailQueue') = n + 1 /\ mailQueue'[1] = desk.link
        /\ \A i \in 1..n : mailQueue'[i + 1] = mailQueue[i]
    BY <2>1
  <2> HIDE DEF n
  <2>3. ASSUME NEW i \in 1..n, mailQueue[i] = k
        PROVE  Queued(k)'
    <3>1. i + 1 \in 1..(n + 1) /\ mailQueue'[i + 1] = k
      BY <2>1, <2>2, <2>3
    <3> QED
      BY <2>2, <3>1 DEF Queued
  <2>4. k = desk.link => Queued(k)'
    BY <2>1, <2>2 DEF Queued
  <2>5. Queued(k) => Queued(k)'
    BY <2>3 DEF Queued, n
  <2> QED
    BY <2>1, <2>4, <2>5 DEF Somewhere
<1>11. CASE UNCHANGED accountVars
  BY <1>1, <1>11 DEF accountVars
<1> QED
  BY <1>2, <1>3, <1>4, <1>5, <1>6, <1>7, <1>8, <1>9, <1>10, <1>11 DEF AccountNext

\* A row that is not verified had its token before, or it is to be published now.
LEMMA TokenStep ==
  ASSUME AccountInv, [AccountNext]_accountVars, account'.exists, ~account'.verified
  PROVE  \/ account.exists /\ ~account.verified /\ account'.token = account.token
         \/ /\ account'.token \in Links
            /\ \E e \in Errands : errand'[e].op = "publish" /\ errand'[e].link = account'.token
<1>0. AccountTypeOK
  BY DEF AccountInv
<1>1. ASSUME NEW e \in Errands, CreateUser(e) \/ StoreToken(e)
      PROVE  /\ account'.token \in Links
             /\ errand'[e].op = "publish" /\ errand'[e].link = account'.token
  BY <1>0, <1>1, NewToken DEF CreateUser, StoreToken
<1>2. ASSUME NEW e \in Errands, MarkVerified(e) \/ WriteOAuthUser(e)
      PROVE  FALSE
  <2>1. account'.verified
    BY <1>2 DEF MarkVerified, WriteOAuthUser
  <2> QED
    BY <2>1
<1>3. CASE account' = account
  BY <1>3
<1> QED
  BY <1>1, <1>2, <1>3
  DEF AccountNext, Signup, ResendVerification, UpsertOAuthUser, VerifyEmail, Undertake,
      PublishEmailTask, Abandon, Fetch, SendVerificationEmail, AckMail, LoseConsumer, accountVars

LEMMA PublishedStep ==
  ASSUME AccountTypeOK, Published, [AccountNext]_accountVars
  PROVE  Published'
<1>1. ASSUME NEW e \in Errands, NEW op \in {"create", "store", "mark", "upsert"},
             Undertake(e, op)
      PROVE  Published'
  BY <1>1 DEF Undertake, Published, AccountTypeOK
<1>2. ASSUME NEW e \in Errands, CreateUser(e) \/ StoreToken(e) PROVE Published'
  BY <1>2, NewToken, AccountAssumption DEF CreateUser, StoreToken, Published, Links
<1>3. ASSUME NEW e \in Errands, Finish(e) PROVE Published'
  BY <1>3, FinishEnds DEF Published
<1>4. CASE UNCHANGED errand
  BY <1>4 DEF Published
<1> QED
  BY <1>1, <1>2, <1>3, <1>4
  DEF AccountNext, Signup, ResendVerification, UpsertOAuthUser, VerifyEmail, MarkVerified,
      WriteOAuthUser, PublishEmailTask, Abandon, Fetch, SendVerificationEmail, AckMail,
      LoseConsumer, accountVars

LEMMA MailedStep ==
  ASSUME AccountTypeOK, Mailed, [AccountNext]_accountVars
  PROVE  Mailed'
<1>1. CASE UNCHANGED <<desk, mailbox>>
  BY <1>1 DEF Mailed
<1>2. CASE Fetch \/ AckMail \/ LoseConsumer
  BY <1>2 DEF Fetch, AckMail, LoseConsumer, EmptyDesk, Mailed
<1>3. CASE SendVerificationEmail
  BY <1>3 DEF SendVerificationEmail, Mailed
<1>4. ASSUME NEW e \in Errands, CreateUser(e) \/ StoreToken(e) PROVE UNCHANGED <<desk, mailbox>>
  BY <1>4 DEF CreateUser, StoreToken, WithNewToken
<1> QED
  BY <1>1, <1>2, <1>3, <1>4
  DEF AccountNext, Signup, ResendVerification, UpsertOAuthUser, VerifyEmail, Undertake,
      MarkVerified, WriteOAuthUser, PublishEmailTask, Abandon, accountVars

LEMMA AccountStep == AccountInv /\ [AccountNext]_accountVars => AccountInv'
<1> SUFFICES ASSUME AccountInv, [AccountNext]_accountVars PROVE AccountInv'
  OBVIOUS
<1>1. AccountTypeOK' /\ Published' /\ Mailed'
  BY AccountTypeStep, PublishedStep, MailedStep DEF AccountInv
<1>2. ASSUME account'.exists, ~account'.verified
      PROVE  \E k \in Links : account'.token = k /\ Somewhere(k)'
  <2>1. CASE account.exists /\ ~account.verified /\ account'.token = account.token
    <3>1. PICK k \in Links : account.token = k
      BY <2>1, AccountAssumption DEF AccountInv, AccountTypeOK, HasToken, Links
    <3>2. Somewhere(k)
      BY <2>1, <3>1 DEF AccountInv, LinkWorks, Somewhere, Queued
    <3>3. Somewhere(k)'
      BY <3>2, NeverVanishes
    <3> QED
      BY <2>1, <3>1, <3>3
  <2>2. CASE /\ account'.token \in Links
             /\ \E e \in Errands : errand'[e].op = "publish" /\ errand'[e].link = account'.token
    <3>1. PICK k \in Links : account'.token = k
      BY <2>2
    <3>2. Somewhere(k)'
      BY <2>2, <3>1 DEF Somewhere
    <3> QED
      BY <3>1, <3>2
  <2> QED
    BY <1>2, <2>1, <2>2, TokenStep
<1>3. HasToken'
  BY <1>2, AccountAssumption DEF HasToken, Links
<1>4. LinkWorks'
  BY <1>2 DEF LinkWorks, Somewhere, Queued
<1> QED
  BY <1>1, <1>3, <1>4 DEF AccountInv

\* For every number of requests and tokens: the token of a user who is not verified is in
\* his mailbox or on its way to it, or it was lost with a publish or a mail that failed.
THEOREM LinkNeverDead == AccountSpec => []LinkWorks
<1>1. AccountSpec => []AccountInv
  BY AccountInitInv, AccountStep, PTL DEF AccountSpec
<1>2. AccountInv => LinkWorks
  BY DEF AccountInv
<1> QED
  BY <1>1, <1>2, PTL

-----------------------------------------------------------------------------
(* Tasks: who is or was assigned, as far as a request remembers, is known  *)
(* to have been told.                                                      *)

\* He has been told, is being told, or there is nobody to tell.
Told(p) == p = NoPerson \/ p \in aware \/ \E w \in Works : work[w].op = "notify" /\ work[w].to = p

\* Whoever a request has read as the assignee is told, as he was then.
SeenTold == \A w \in Works : work[w].op = "update" => Told(work[w].seen)

PlannerInv == PlannerTypeOK /\ Told(todo.assignee) /\ SeenTold

LEMMA PlannerInitInv == PlannerInit => PlannerInv
<1> SUFFICES ASSUME PlannerInit PROVE PlannerInv
  OBVIOUS
<1>1. todo \in [stage : {"none", "open", "deleted"}, owner : People \cup {NoPerson},
                assignee : People \cup {NoPerson}, tied : BOOLEAN]
  BY DEF PlannerInit, Nothing
<1>2. PlannerTypeOK
  BY <1>1 DEF PlannerInit, PlannerTypeOK, NoWork, Chore
<1>3. Told(todo.assignee) /\ SeenTold
  BY DEF PlannerInit, Told, SeenTold, Nothing, NoWork, Chore
<1> QED
  BY <1>2, <1>3 DEF PlannerInv

LEMMA AssignType ==
  ASSUME PlannerTypeOK, NEW w \in Works, NEW u, NEW v \in People \cup {NoPerson},
         NEW news \in BOOLEAN, Assign(w, u, v, news)
  PROVE  /\ aware' \subseteq People \cup {NoPerson}
         /\ work' \in [Works ->
               [op : {"none", "update", "notify", "delete", "invite", "cancel"},
                by : People \cup {NoPerson}, to : People \cup {NoPerson},
                seen : People \cup {NoPerson}]]
<1>1. CASE news /\ v \notin {NoPerson, u}
  BY <1>1 DEF Assign, PlannerTypeOK, Chore
<1>2. CASE ~(news /\ v \notin {NoPerson, u})
  BY <1>2 DEF Assign, EndWork, PlannerTypeOK, NoWork, Chore
<1> QED
  BY <1>1, <1>2

LEMMA PlannerTypeStep == PlannerTypeOK /\ [PlannerNext]_plannerVars => PlannerTypeOK'
<1> SUFFICES ASSUME PlannerTypeOK, [PlannerNext]_plannerVars PROVE PlannerTypeOK'
  OBVIOUS
<1> USE DEF PlannerTypeOK, NoWork, Chore
<1>1. ASSUME NEW w \in Works, NEW u \in People, NEW v \in People \cup {NoPerson},
             CreateTask(w, u, v)
      PROVE  PlannerTypeOK'
  <2>1. Assign(w, u, v, TRUE)
    BY <1>1 DEF CreateTask
  <2>2. todo' \in [stage : {"none", "open", "deleted"}, owner : People \cup {NoPerson},
                   assignee : People \cup {NoPerson}, tied : BOOLEAN]
    BY <1>1 DEF CreateTask
  <2> QED
    BY <1>1, <2>1, <2>2, AssignType DEF CreateTask
<1>2. ASSUME NEW w \in Works, UpdateTask(w) PROVE PlannerTypeOK'
  <2>1. Assign(w, work[w].by, work[w].to, work[w].to # work[w].seen)
    BY <1>2 DEF UpdateTask
  <2>2. todo' \in [stage : {"none", "open", "deleted"}, owner : People \cup {NoPerson},
                   assignee : People \cup {NoPerson}, tied : BOOLEAN]
    BY <1>2 DEF UpdateTask
  <2> QED
    BY <1>2, <2>1, <2>2, AssignType DEF UpdateTask
<1>3. ASSUME NEW w \in Works, NEW u \in People, NEW v \in People \cup {NoPerson},
             AskUpdate(w, u, v)
      PROVE  PlannerTypeOK'
  BY <1>3 DEF AskUpdate
<1>4. ASSUME NEW w \in Works, CreateNotification(w) \/ GiveUp(w) PROVE PlannerTypeOK'
  BY <1>4 DEF CreateNotification, GiveUp, EndWork
<1>5. ASSUME NEW w \in Works, NEW u \in People, AskDeleteTask(w, u) \/ ScheduleMeeting(w, u)
      PROVE  PlannerTypeOK'
  <2>1. CASE AskDeleteTask(w, u)
    BY <2>1 DEF AskDeleteTask
  <2>2. CASE ScheduleMeeting(w, u)
    <3>1. todo' \in [stage : {"none", "open", "deleted"}, owner : People \cup {NoPerson},
                     assignee : People \cup {NoPerson}, tied : BOOLEAN]
      <4>1. CASE todo' = todo
        BY <4>1
      <4>2. CASE todo' = [stage |-> "open", owner |-> u, assignee |-> NoPerson, tied |-> TRUE]
        BY <4>2
      <4> QED
        BY <2>2, <4>1, <4>2 DEF ScheduleMeeting
    <3>2. work' \in [Works ->
               [op : {"none", "update", "notify", "delete", "invite", "cancel"},
                by : People \cup {NoPerson}, to : People \cup {NoPerson},
                seen : People \cup {NoPerson}]]
      BY <2>2 DEF ScheduleMeeting
    <3> QED
      BY <2>2, <3>1, <3>2 DEF ScheduleMeeting
  <2> QED
    BY <1>5, <2>1, <2>2
<1>6. ASSUME NEW w \in Works, DeleteTask(w) \/ DeleteMeeting(w) PROVE PlannerTypeOK'
  BY <1>6 DEF DeleteTask, DeleteMeeting, CancelMeeting, EndWork
<1>7. ASSUME NEW w \in Works, Invite(w) \/ AskDeleteMeeting(w) PROVE PlannerTypeOK'
  BY <1>7 DEF Invite, AskDeleteMeeting, EndWork
<1>8. CASE CascadeRoom
  BY <1>8 DEF CascadeRoom, CancelMeeting
<1>9. CASE UNCHANGED plannerVars
  BY <1>9 DEF plannerVars
<1> QED
  BY <1>1, <1>2, <1>3, <1>4, <1>5, <1>6, <1>7, <1>8, <1>9 DEF PlannerNext

\* Who is told stays so: a notification ends with him aware of it.
LEMMA ToldForGood ==
  ASSUME NEW p, Told(p), aware \subseteq aware',
         \A w \in Works : work[w].op = "notify" => work'[w] = work[w] \/ work[w].to \in aware'
  PROVE  Told(p)'
  BY DEF Told

\* Assign tells v, unless he is nobody, or the one who assigns, or told already; all
\* others stay told.
LEMMA AssignTells ==
  ASSUME PlannerInv, NEW w \in Works, work[w].op # "notify",
         NEW u, NEW v, Assign(w, u, v, TRUE) \/ (Assign(w, u, v, FALSE) /\ Told(v))
  PROVE  SeenTold' /\ Told(v)'
<1>1. /\ aware \subseteq aware'
      /\ \A x \in Works \ {w} : work'[x] = work[x]
      /\ work'[w].op # "update"
  <2>1. CASE work' = [work EXCEPT ![w] = Chore("notify", v)] /\ UNCHANGED aware
    BY <2>1 DEF PlannerInv, PlannerTypeOK, Chore
  <2>2. CASE EndWork(w) /\ aware' = aware \cup ({v} \cap {u})
    BY <2>2 DEF EndWork, PlannerInv, PlannerTypeOK, NoWork, Chore
  <2> QED
    BY <2>1, <2>2 DEF Assign
<1>2. ASSUME NEW p, Told(p) PROVE Told(p)'
  BY <1>1, <1>2, ToldForGood
<1>3. SeenTold'
  BY <1>1, <1>2 DEF SeenTold, PlannerInv
<1>4. Told(v)'
  <2>1. CASE work' = [work EXCEPT ![w] = Chore("notify", v)]
    <3>1. work'[w] = Chore("notify", v)
      BY <2>1 DEF PlannerInv, PlannerTypeOK
    <3> QED
      BY <3>1 DEF Told, Chore
  <2>2. CASE v \in {NoPerson, u} /\ aware' = aware \cup ({v} \cap {u})
    BY <2>2 DEF Told
  <2>3. CASE Told(v)
    BY <2>3, <1>2
  <2> QED
    BY <2>1, <2>2, <2>3 DEF Assign
<1> QED
  BY <1>3, <1>4

\* What assigns nobody and takes no notification away.
LEMMA NobodyAssigned ==
  ASSUME PlannerInv, NEW w \in Works, aware \subseteq aware',
         \A x \in Works \ {w} : work'[x] = work[x],
         work[w].op = "notify" => work'[w] = work[w] \/ work[w].to \in aware',
         work'[w].op = "update" => work'[w] = work[w] \/ work'[w].seen = todo.assignee,
         todo'.assignee \in {todo.assignee, NoPerson}
  PROVE  Told(todo.assignee)' /\ SeenTold'
<1>1. ASSUME NEW p, Told(p) PROVE Told(p)'
  BY <1>1, ToldForGood DEF PlannerInv
<1>2. Told(todo.assignee)' 
  BY <1>1 DEF PlannerInv, Told
<1>3. SeenTold'
  BY <1>1 DEF SeenTold, PlannerInv
<1> QED
  BY <1>2, <1>3

LEMMA PlannerStep == PlannerInv /\ [PlannerNext]_plannerVars => PlannerInv'
<1> SUFFICES ASSUME PlannerInv, [PlannerNext]_plannerVars PROVE PlannerInv'
  OBVIOUS
<1>0. PlannerTypeOK /\ PlannerTypeOK'
  BY PlannerTypeStep DEF PlannerInv
<1> SUFFICES Told(todo.assignee)' /\ SeenTold'
  BY <1>0 DEF PlannerInv
<1>1. ASSUME NEW w \in Works, NEW u \in People, NEW v \in People \cup {NoPerson},
             CreateTask(w, u, v)
      PROVE  Told(todo.assignee)' /\ SeenTold'
  <2>1. work[w].op # "notify" /\ todo'.assignee = v /\ Assign(w, u, v, TRUE)
    <3>1. work[w] = NoWork /\ Assign(w, u, v, TRUE)
      BY <1>1 DEF CreateTask
    <3>2. todo'.assignee = v
      BY <1>1 DEF CreateTask
    <3>3. work[w].op # "notify"
      BY <3>1 DEF NoWork, Chore
    <3> QED
      BY <3>1, <3>2, <3>3
  <2>2. SeenTold' /\ Told(v)'
    BY <2>1, AssignTells
  <2> QED
    BY <2>1, <2>2 DEF Told
<1>2. ASSUME NEW w \in Works, UpdateTask(w) PROVE Told(todo.assignee)' /\ SeenTold'
  <2>1. PICK u, v : u = work[w].by /\ v = work[w].to
    OBVIOUS
  <2>2. /\ work[w].op = "update" /\ todo'.assignee = v
        /\ Assign(w, u, v, v # work[w].seen)
    BY <1>0, <1>2, <2>1 DEF UpdateTask, PlannerTypeOK
  <2>3. Told(work[w].seen)
    BY <2>2 DEF PlannerInv, SeenTold
  <2>4. Assign(w, u, v, TRUE) \/ (Assign(w, u, v, FALSE) /\ Told(v))
    BY <2>2, <2>3 DEF Assign
  <2>5. work[w].op # "notify"
    BY <2>2
  <2>6. SeenTold' /\ Told(v)'
    BY <2>4, <2>5, AssignTells
  <2> QED
    BY <2>2, <2>6 DEF Told
<1>3. ASSUME NEW w \in Works, NEW u \in People, NEW v \in People \cup {NoPerson},
             AskUpdate(w, u, v)
      PROVE  Told(todo.assignee)' /\ SeenTold'
  BY <1>0, <1>3, NobodyAssigned DEF AskUpdate, PlannerTypeOK, NoWork, Chore
<1>4. ASSUME NEW w \in Works, CreateNotification(w) \/ GiveUp(w)
      PROVE  Told(todo.assignee)' /\ SeenTold'
  BY <1>0, <1>4, NobodyAssigned
  DEF CreateNotification, GiveUp, EndWork, PlannerTypeOK, NoWork, Chore
<1>5. ASSUME NEW w \in Works, NEW u \in People, AskDeleteTask(w, u) \/ ScheduleMeeting(w, u)
      PROVE  Told(todo.assignee)' /\ SeenTold'
  BY <1>0, <1>5, NobodyAssigned DEF AskDeleteTask, ScheduleMeeting, PlannerTypeOK, NoWork, Chore
<1>6. ASSUME NEW w \in Works, DeleteTask(w) \/ DeleteMeeting(w)
      PROVE  Told(todo.assignee)' /\ SeenTold'
  BY <1>0, <1>6, NobodyAssigned
  DEF DeleteTask, DeleteMeeting, CancelMeeting, EndWork, PlannerTypeOK, NoWork, Chore
<1>7. ASSUME NEW w \in Works, Invite(w) \/ AskDeleteMeeting(w)
      PROVE  Told(todo.assignee)' /\ SeenTold'
  BY <1>0, <1>7, NobodyAssigned
  DEF Invite, AskDeleteMeeting, EndWork, PlannerTypeOK, NoWork, Chore
<1>8. CASE CascadeRoom
  <2>1. todo'.assignee = todo.assignee /\ UNCHANGED <<work, aware>>
    BY <1>0, <1>8 DEF CascadeRoom, CancelMeeting, PlannerTypeOK
  <2> QED
    BY <2>1 DEF PlannerInv, Told, SeenTold
<1>9. CASE UNCHANGED plannerVars
  BY <1>0, <1>9 DEF plannerVars, PlannerInv, Told, SeenTold
<1> QED
  BY <1>0, <1>1, <1>2, <1>3, <1>4, <1>5, <1>6, <1>7, <1>8, <1>9 DEF PlannerNext

\* Whoever a task is assigned to has been told, for any people and any number of requests.
THEOREM AssigneesTold == PlannerSpec => []AssigneeKnows
<1>1. PlannerSpec => []PlannerInv
  BY PlannerInitInv, PlannerStep, PTL DEF PlannerSpec
<1>2. PlannerInv => AssigneeKnows
  BY DEF PlannerInv, AssigneeKnows, Told
<1> QED
  BY <1>1, <1>2, PTL

-----------------------------------------------------------------------------
(* All of them, as they are checked.                                       *)

Chosen == office \in {"rooms", "sessions", "accounts", "planner"}

HttpInv ==
  Chosen /\ RoomInv /\ CookieInv /\ TabTyped /\ AccountInv /\ PlannerTypeOK

\* Every row and every request under way has its type in the model that runs one of the
\* components.
THEOREM HttpTypes == HttpSpec => []HttpTypeOK
<1>1. HttpInit => HttpInv
  <2>1. PlannerInit => PlannerTypeOK
    BY PlannerInitInv DEF PlannerInv
  <2> QED
    BY <2>1, InitKeeps, SessionInitTyped, AccountInitInv DEF HttpInit, HttpInv, Chosen
<1>2. HttpInv /\ [HttpNext]_httpVars => HttpInv'
  <2>1. [HttpNext]_httpVars =>
          /\ [RoomNext]_roomVars /\ [SessionNext]_sessionVars
          /\ [AccountNext]_accountVars /\ [PlannerNext]_plannerVars
    BY DEF HttpNext, OfRooms, OfSessions, OfAccounts, OfPlanner, httpVars
  <2>2. Chosen /\ [HttpNext]_httpVars => Chosen'
    BY DEF HttpNext, OfRooms, OfSessions, OfAccounts, OfPlanner, httpVars, Chosen
  <2> QED
    BY <2>1, <2>2, StepKeeps, SessionTypedStep, AccountStep, PlannerTypeStep DEF HttpInv
<1>3. HttpInv => HttpTypeOK
  BY SessionTypes DEF HttpInv, HttpTypeOK, RoomInv, AccountInv, Chosen
<1> QED
  BY <1>1, <1>2, <1>3, PTL DEF HttpSpec

=============================================================================
