---------------------- MODULE CanvasCompaction_proofs ----------------------
(***************************************************************************)
(* The lock of the compaction, and what compactions leave readable in the  *)
(* log, for any number of compactors, events, users and objects.           *)
(*                                                                         *)
(* CompactionInv holds whatever becomes of the locks: the lock is its      *)
(* holder's, rows carry the stamps of processed events, plans hold rows    *)
(* the snapshot covers, and a complete snapshot with the rows after it     *)
(* reads what is drawn.  SingleOK needs one compactor at a time: rows have *)
(* times of their own, and each part of a plan stands for its rows.        *)
(***************************************************************************)
EXTENDS CanvasCompaction, CanvasStore_proofs, TLAPS

Works(c) == compactor[c].stage # "idle"

HoldsLock == \A c \in Compactors : c \notin expired /\ Works(c) => lock = c

IInv ==
  /\ compactor = [c \in Compactors |-> compactor[c]]
  /\ HoldsLock

LEMMA IdleState == Idle.stage = "idle" /\ Idle = [stage |-> "idle", cutoff |-> 0, plan |-> {}]
  BY DEF Idle

LEMMA InitKeeps == Init => IInv
  BY IdleState DEF Init, IInv, HoldsLock, Works

\* A compactor goes on: it stays at work, and the lock and its expiry are as
\* they were.
LEMMA GoesOn ==
  ASSUME IInv, NEW c \in Compactors, NEW x, Works(c),
         compactor' = [compactor EXCEPT ![c] = x], UNCHANGED <<lock, expired>>
  PROVE  IInv'
  BY DEF IInv, HoldsLock, Works

\* A compactor ends and is taken off the expired ones.
LEMMA Ends ==
  ASSUME IInv, NEW c \in Compactors, compactor' = [compactor EXCEPT ![c] = Idle],
         expired' = expired \ {c}, lock' = lock \/ lock = c
  PROVE  IInv'
  BY IdleState DEF IInv, HoldsLock, Works

LEMMA StepKeeps == IInv /\ [Next]_vars => IInv'
<1> SUFFICES ASSUME IInv, [Next]_vars
             PROVE  IInv'
  OBVIOUS
<1>1. CASE UNCHANGED <<lock, compactor, expired>>
  BY <1>1 DEF IInv, HoldsLock, Works
<1>2. CASE LockExpires
  <2>1. /\ compactor' = compactor /\ lock' = Free
        /\ expired' = IF compactor[lock].stage = "idle" THEN expired ELSE expired \cup {lock}
    BY <1>2 DEF LockExpires
  <2> QED
    BY <2>1 DEF IInv, HoldsLock, Works
<1>3. ASSUME NEW c \in Compactors, Begin(c)
      PROVE  IInv'
  <2>1. PICK x : compactor' = [compactor EXCEPT ![c] = x]
    BY <1>3 DEF Begin
  <2>2. \A d \in Compactors : d \notin expired => ~Works(d)
    BY <1>3, CompactionAssumption DEF Begin, IInv, HoldsLock
  <2> QED
    BY <1>3, <2>1, <2>2 DEF Begin, IInv, HoldsLock, Works
<1>4. ASSUME NEW c \in Compactors, ReadLog(c) \/ Rewrite(c) \/ Throws(c)
      PROVE  IInv'
  <2>1. Works(c) /\ UNCHANGED <<lock, expired>>
    BY <1>4 DEF ReadLog, Rewrite, Throws, Works
  <2>2. PICK x : compactor' = [compactor EXCEPT ![c] = x]
    BY <1>4 DEF ReadLog, Rewrite, Throws
  <2> QED
    BY <2>1, <2>2, GoesOn
<1>5. ASSUME NEW c \in Compactors, Release(c) \/ Dies(c)
      PROVE  IInv'
  <2>1. compactor' = [compactor EXCEPT ![c] = Idle] /\ expired' = expired \ {c}
    BY <1>5 DEF Release, Dies
  <2>2. lock' = lock \/ lock = c
    BY <1>5 DEF Release, Dies
  <2> QED
    BY <2>1, <2>2, Ends
<1>6. CASE Publish \/ ReadObjects \/ CreateSnapshot \/ SnapshotFails
  BY <1>1, <1>6 DEF Publish, ReadObjects, CreateSnapshot, SnapshotFails
<1>7. CASE \E n \in DOMAIN events : Handle(n)
  BY <1>1, <1>7 DEF Handle
<1>8. CASE UNCHANGED vars
  BY <1>1, <1>8 DEF vars
<1> QED
  BY <1>2, <1>3, <1>4, <1>5, <1>6, <1>7, <1>8 DEF Next

\* Of any number of compactors only one is at work under a lock that has not
\* run out: acquireRoomLock and releaseDistributedLock with their tokens.
THEOREM AloneUnderLockHolds == Spec => []AloneUnderLock
<1>1. IInv => AloneUnderLock
  BY DEF IInv, HoldsLock, Works, AloneUnderLock
<1> QED
  BY <1>1, InitKeeps, StepKeeps, PTL DEF Spec

-----------------------------------------------------------------------------
(* The operators of the log under the name Log are those of CanvasStore.   *)

LEMMA LogNames ==
  /\ Log!Objects = Objects /\ Log!Rows = Rows /\ Log!Kinds = Kinds
  /\ Log!Deleted = Deleted /\ Log!NoObject = NoObject
<1>1. Log!Objects = Objects
  BY DEF Log!Objects, Log!Cells, Log!Timestamps, Objects, Cells, Timestamps
<1>2. Log!Rows = Rows
  BY <1>1 DEF Log!Rows, Log!Draws, Log!Props, Log!Timestamps, Rows, Draws, Props, Timestamps
<1> QED
  BY <1>1, <1>2 DEF Log!Kinds, Log!Draws, Kinds, Draws, Log!Deleted, Deleted,
                    Log!NoObject, NoObject

LEMMA LogQueries ==
  /\ \A h, u : Log!DrawRows(h, u) = DrawRows(h, u)
  /\ \A h, u : Log!UndoTarget(h, u) = UndoTarget(h, u)
  /\ \A h, u : Log!Redoable(h, u) = Redoable(h, u)
  /\ \A h, u : Log!RedoTarget(h, u) = RedoTarget(h, u)
<1>1. \A h, S : Log!Newest(h, S) = Newest(h, S)
  BY Zenon DEF Log!Newest, Newest, Log!Later, Later
<1>2. \A h, u : Log!DrawRows(h, u) = DrawRows(h, u)
  BY DEF Log!DrawRows, DrawRows, Log!Draws, Draws
<1>3. \A h, u : Log!UndoTarget(h, u) = UndoTarget(h, u)
  BY <1>1, <1>2, Zenon DEF Log!UndoTarget, UndoTarget
<1>4. \A h, u : Log!Redoable(h, u) = Redoable(h, u)
  BY <1>2 DEF Log!Redoable, Redoable
<1>5. \A h, i : Log!UndoMarker(h, i) = UndoMarker(h, i)
  BY <1>1, Zenon DEF Log!UndoMarker, UndoMarker
<1>6. \A h, i : Log!RedoBlocked(h, i) = RedoBlocked(h, i)
  BY <1>5, Zenon DEF Log!RedoBlocked, RedoBlocked
<1>7. \A h, u : Log!RedoTarget(h, u) = RedoTarget(h, u)
  BY <1>1, <1>4, <1>6, Zenon DEF Log!RedoTarget, RedoTarget
<1> QED
  BY <1>2, <1>3, <1>4, <1>7

LEMMA LogWrites ==
  /\ \A f, o, r, p, t : Log!WriteObject(f, o, r, p, t) = WriteObject(f, o, r, p, t)
  /\ \A n, u, k, o, r, p, t : Log!DrawRow(n, u, k, o, r, p, t) = DrawRow(n, u, k, o, r, p, t)
  /\ \A n, u, k, i, h, p, t :
       Log!MarkerRow(n, u, k, i, h, p, t) = MarkerRow(n, u, k, i, h, p, t)
  /\ \A h, i : Log!MarkUndone(h, i) = MarkUndone(h, i)
  /\ \A h, i : Log!MarkRedone(h, i) = MarkRedone(h, i)
  /\ \A h, S : Log!Invalidate(h, S) = Invalidate(h, S)
  /\ \A row : Log!InverseProps(row) = InverseProps(row)
<1>1. \A o, p, t : Log!MergeCRDT(o, p, t) = MergeCRDT(o, p, t)
  BY Zenon DEF Log!MergeCRDT, MergeCRDT, Log!Later, Later
<1>2. \A f, o, r, p, t : Log!WriteObject(f, o, r, p, t) = WriteObject(f, o, r, p, t)
  BY <1>1 DEF Log!WriteObject, WriteObject
<1>3. \A n, u, k, o, r, p, t : Log!DrawRow(n, u, k, o, r, p, t) = DrawRow(n, u, k, o, r, p, t)
  BY DEF Log!DrawRow, DrawRow
<1>4. \A n, u, k, i, h, p, t :
        Log!MarkerRow(n, u, k, i, h, p, t) = MarkerRow(n, u, k, i, h, p, t)
  BY LogNames DEF Log!MarkerRow, MarkerRow
<1>5. \A h, i : Log!MarkUndone(h, i) = MarkUndone(h, i)
  BY DEF Log!MarkUndone, MarkUndone
<1>6. \A h, i : Log!MarkRedone(h, i) = MarkRedone(h, i)
  BY DEF Log!MarkRedone, MarkRedone
<1>7. \A h, S : Log!Invalidate(h, S) = Invalidate(h, S)
  BY DEF Log!Invalidate, Invalidate
<1>8. \A row : Log!InverseProps(row) = InverseProps(row)
  BY LogNames DEF Log!InverseProps, InverseProps, Log!MaterializeCRDT, MaterializeCRDT
<1> QED
  BY <1>2, <1>3, <1>4, <1>5, <1>6, <1>7, <1>8

-----------------------------------------------------------------------------
(* The invariant.                                                          *)

RowsOf(h, o) == {i \in DOMAIN h : h[i].obj = o}

\* A row carries the timestamp of an event that is processed.
Numbered(row) == row.ts.time \in processed /\ row.ts = Log!Stamp(row.ts.time)

LogTypes ==
  /\ events \in Seq(Log!Events) /\ Len(events) <= MaxEvents
  /\ processed \subseteq DOMAIN events
  /\ objects \in [Objs -> Objects]
  /\ history \in Seq(Rows \cup {Gone})

\* Every row is one of an event that is processed; what is to come is later.
LogOK ==
  /\ LogTypes
  /\ \A i \in DOMAIN history : history[i] # Gone => Numbered(history[i])
  /\ \A p \in processed, n \in DOMAIN events \ processed : p < n
  /\ \A o \in Objs : \A k \in DOMAIN objects[o] : objects[o][k].ts.time \in processed

\* An undone row has an UNDO of its object, which no compaction removes.
FlagsOK ==
  \A i \in DOMAIN history :
    /\ history[i].invalidated => history[i].undone
    /\ history[i].undone => \E j \in DOMAIN history :
                              history[j].kind = "UNDO" /\ history[j].obj = history[i].obj

-----------------------------------------------------------------------------
(* What an event does to the log and the objects.                          *)

LEMMA GoneIsNoRow ==
  /\ Gone \notin Rows /\ Gone.obj \notin Objs /\ Gone.kind = "GONE" /\ Gone.kind \notin Draws
  /\ ~Gone.undone /\ ~Gone.invalidated /\ DOMAIN Gone.after = {} /\ Gone.ts.time = 0
  BY CompactionAssumption DEF Gone, Rows, Draws, NoObject

LEMMA DeletedType == Deleted \in Props
<1>1. {"deleted"} \in SUBSET Keys /\ 0 \in Values
  BY CompactionAssumption
<1>2. Deleted \in [{"deleted"} -> Values]
  BY <1>1 DEF Deleted
<1> QED
  BY <1>1, <1>2 DEF Props

\* The log, its rows and the events.
LEMMA LogFacts ==
  ASSUME LogOK
  PROVE  /\ Len(history) \in Nat /\ DOMAIN history = 1..Len(history)
         /\ Len(events) \in 0..MaxEvents /\ DOMAIN events = 1..Len(events)
         /\ processed \subseteq DOMAIN events
         /\ \A n \in DOMAIN events : events[n].user \in Actors /\ events[n].kind \in Kinds
                                     /\ events[n].obj \in Objs
                                     /\ events[n].keys \in Extras
         /\ \A i \in DOMAIN history : history[i] # Gone =>
              /\ history[i] \in Rows /\ history[i].ts \in Timestamps
              /\ history[i].ts.time \in processed
         /\ \A i \in DOMAIN history : history[i].obj \in Objs => history[i] # Gone
         /\ \A i \in DOMAIN history : history[i].ts.time \in 0..Len(events)
         /\ \A i, j \in DOMAIN history :
              /\ history[i] # Gone /\ history[j] # Gone
              /\ history[i].ts.time = history[j].ts.time
              => history[i].ts = history[j].ts
<1>1. /\ events \in Seq(Log!Events) /\ Len(events) <= MaxEvents
      /\ processed \subseteq DOMAIN events
      /\ history \in Seq(Rows \cup {Gone})
  BY DEF LogOK, LogTypes
<1>2. /\ Len(events) \in 0..MaxEvents /\ DOMAIN events = 1..Len(events)
      /\ \A n \in DOMAIN events : events[n] \in Log!Events
  BY <1>1, CompactionAssumption
<1>3. Len(history) \in Nat /\ DOMAIN history = 1..Len(history)
      /\ \A i \in DOMAIN history : history[i] \in Rows \cup {Gone}
  BY <1>1
<1>4. \A n \in DOMAIN events : events[n].user \in Actors /\ events[n].kind \in Kinds
                               /\ events[n].obj \in Objs /\ events[n].keys \in Extras
  BY <1>2, LogNames DEF Log!Events
<1>5. \A i \in DOMAIN history : history[i] # Gone =>
        /\ history[i] \in Rows /\ history[i].ts \in Timestamps
        /\ history[i].ts.time \in processed
        /\ history[i].ts = Log!Stamp(history[i].ts.time)
  BY <1>3 DEF LogOK, Numbered, Rows
<1>6. \A i \in DOMAIN history : history[i].ts.time \in 0..Len(events)
  BY <1>1, <1>2, <1>5, GoneIsNoRow
<1>7. ASSUME NEW i \in DOMAIN history, NEW j \in DOMAIN history,
             history[i] # Gone, history[j] # Gone, history[i].ts.time = history[j].ts.time
      PROVE  history[i].ts = history[j].ts
  <2>1. /\ history[i].ts = Log!Stamp(history[i].ts.time)
        /\ history[j].ts = Log!Stamp(history[j].ts.time)
    BY <1>5, <1>7
  <2> QED
    BY <1>7, <2>1
<1> QED
  BY <1>1, <1>2, <1>3, <1>4, <1>5, <1>6, <1>7, GoneIsNoRow

LEMMA StampAndPatchTypes ==
  ASSUME LogOK, NEW n \in DOMAIN events
  PROVE  /\ Log!Stamp(n) \in Timestamps /\ Log!Stamp(n).time = n
         /\ Log!Patch(n) \in Props
<1>1. n \in 1..MaxEvents /\ events[n].user \in Actors /\ events[n].keys \in Extras
  BY LogFacts, CompactionAssumption
<1>2. Log!Stamp(n) \in Timestamps /\ Log!Stamp(n).time = n
  BY <1>1, CompactionAssumption DEF Log!Stamp, Timestamps
<1> DEFINE K == {"shape"} \cup events[n].keys
<1>3. K \in SUBSET Keys /\ n \in Values
  BY <1>1, CompactionAssumption
<1>4. [k \in K |-> n] \in [K -> Values]
  BY <1>3
<1>5. [k \in K |-> n] \in Props
  BY <1>3, <1>4 DEF Props
<1> QED
  BY <1>2, <1>5, DeletedType, LogNames DEF Log!Patch

\* The rows r and s differ in their flags only, as far as it matters here.
Alike(r, s) ==
  /\ r.kind = s.kind /\ r.obj = s.obj /\ r.after = s.after /\ r.ts = s.ts
  /\ s = Gone => r = Gone
  /\ r = Gone => s = Gone

\* The log grows by a row, and undoes none or rows of the row's object.
Grows(h, row) ==
  /\ history' \in Seq(Rows \cup {Gone}) /\ Len(history') = Len(h) + 1
  /\ history'[Len(h) + 1] = row
  /\ \A i \in DOMAIN h :
       /\ Alike(history'[i], h[i])
       /\ history'[i].invalidated => history'[i].undone
       /\ history'[i].undone => h[i].undone \/ (row.kind = "UNDO" /\ row.obj = h[i].obj)

\* Event n is written as a row and merged into the row's object.
Writes(n, row) ==
  /\ row \in Rows /\ row.ts = Log!Stamp(n) /\ ~row.undone /\ ~row.invalidated
  /\ Grows(history, row)
  /\ objects' = [objects EXCEPT ![row.obj] = MergeCRDT(objects[row.obj], row.after, row.ts)]

\* The log g with a row behind it, where g is the log h with flags changed.
LEMMA GrowsByRow ==
  ASSUME NEW h \in Seq(Rows \cup {Gone}), NEW row \in Rows,
         NEW g \in Seq(Rows \cup {Gone}), Len(g) = Len(h), history' = Append(g, row),
         \A i \in DOMAIN h :
           /\ Alike(g[i], h[i])
           /\ g[i].invalidated => g[i].undone
           /\ g[i].undone => h[i].undone \/ (row.kind = "UNDO" /\ row.obj = h[i].obj)
  PROVE  Grows(h, row)
<1>1. Len(h) \in Nat /\ DOMAIN h = 1..Len(h)
  OBVIOUS
<1>2. /\ history' \in Seq(Rows \cup {Gone}) /\ Len(history') = Len(h) + 1
      /\ history'[Len(h) + 1] = row
      /\ \A i \in DOMAIN h : history'[i] = g[i]
  BY <1>1
<1> QED
  BY <1>1, <1>2 DEF Grows

\* The flags of a row are set.
LEMMA FlagsSet ==
  ASSUME NEW r \in Rows, NEW b \in BOOLEAN, NEW c \in BOOLEAN
  PROVE  LET s == [r EXCEPT !.undone = b, !.invalidated = c]
         IN  s \in Rows /\ Alike(s, r) /\ s.undone = b /\ s.invalidated = c
<1> DEFINE s == [r EXCEPT !.undone = b, !.invalidated = c]
<1>1. s \in Rows
  BY DEF Rows
<1>2. s.undone = b /\ s.invalidated = c
      /\ s.kind = r.kind /\ s.obj = r.obj /\ s.after = r.after /\ s.ts = r.ts
  BY DEF Rows
<1> HIDE DEF s
<1>3. Alike(s, r)
  BY <1>1, <1>2, GoneIsNoRow DEF Alike
<1> QED
  BY <1>1, <1>2, <1>3 DEF s

LEMMA AlikeItself ==
  ASSUME NEW r
  PROVE  Alike(r, r)
  BY DEF Alike

\* What an undo and a redo act on is a draw.
LEMMA TargetsAreDraws ==
  ASSUME LogOK, NEW u
  PROVE  /\ UndoTarget(history, u) # 0 =>
              /\ UndoTarget(history, u) \in DOMAIN history
              /\ history[UndoTarget(history, u)] # Gone
         /\ RedoTarget(history, u) # 0 =>
              /\ RedoTarget(history, u) \in DOMAIN history
              /\ history[RedoTarget(history, u)] # Gone
<1>1. ASSUME NEW S \in SUBSET DrawRows(history, u), Newest(history, S) # 0
      PROVE  Newest(history, S) \in S
  <2>1. S # {}
    BY <1>1 DEF Newest
  <2>2. \A i \in S : i \in DOMAIN history /\ history[i] # Gone
    BY GoneIsNoRow DEF DrawRows
  <2>3. /\ \A i \in S : history[i].ts \in Timestamps
        /\ \A i, j \in S : history[i].ts.time = history[j].ts.time
                           => history[i].ts = history[j].ts
    BY <2>2, LogFacts
  <2>4. MaxEvents \in Nat /\ Times \subseteq 0..MaxEvents
    BY CompactionAssumption
  <2> QED
    BY <2>1, <2>3, <2>4, NewestAmong
<1>2. \A i \in DrawRows(history, u) : i \in DOMAIN history /\ history[i] # Gone
  BY GoneIsNoRow DEF DrawRows
<1>3. UndoTarget(history, u) # 0 => UndoTarget(history, u) \in DrawRows(history, u)
  BY <1>1 DEF UndoTarget
<1>4. RedoTarget(history, u) # 0 => RedoTarget(history, u) \in DrawRows(history, u)
  <2>1. RedoTarget(history, u) # 0 => RedoTarget(history, u) = Newest(history, Redoable(history, u))
    BY DEF RedoTarget
  <2>2. Redoable(history, u) \in SUBSET DrawRows(history, u)
    BY DEF Redoable
  <2> QED
    BY <1>1, <2>1, <2>2
<1> QED
  BY <1>2, <1>3, <1>4

LEMMA HandleWrites ==
  ASSUME LogOK, FlagsOK, NEW n \in DOMAIN events, Log!Handle(n)
  PROVE  /\ n \notin processed /\ processed' = processed \cup {n} /\ UNCHANGED events
         /\ UNCHANGED <<objects, history>> \/ \E row : Writes(n, row)
<1> DEFINE u == events[n].user
<1>1. n \notin processed /\ processed' = processed \cup {n} /\ UNCHANGED events
  BY DEF Log!Handle
<1>2. /\ history \in Seq(Rows \cup {Gone}) /\ objects \in [Objs -> Objects]
      /\ n \in Nat /\ u \in Actors /\ events[n].obj \in Objs
      /\ Log!Stamp(n) \in Timestamps /\ Log!Patch(n) \in Props
  BY LogFacts, StampAndPatchTypes DEF LogOK, LogTypes
<1>3. \A i \in DOMAIN history : history[i].invalidated => history[i].undone
  BY DEF FlagsOK
<1>4. ASSUME NEW i \in DOMAIN history, history[i] # Gone, NEW props \in Props,
             NEW kind \in {"UNDO", "REDO"}, NEW s \in Rows, NEW g,
             Alike(s, history[i]), ~s.invalidated, s.undone => kind = "UNDO",
             g = [history EXCEPT ![i] = s],
             objects' = WriteObject(objects, history[i].obj, objects[history[i].obj], props,
                                    Log!Stamp(n)),
             history' = Append(g, MarkerRow(n, u, kind, i, history, props, Log!Stamp(n)))
      PROVE  \E row : Writes(n, row)
  <2>1. history[i] \in Rows /\ history[i].obj \in Objs /\ i \in Nat
    BY <1>2, <1>4 DEF Rows
  <2> DEFINE row == MarkerRow(n, u, kind, i, history, props, Log!Stamp(n))
  <2>2. /\ row \in Rows /\ row.ts = Log!Stamp(n) /\ ~row.undone /\ ~row.invalidated
        /\ row.kind = kind /\ row.obj = history[i].obj /\ row.after = props
    <3>1. row = [event |-> n, user |-> u, kind |-> kind, obj |-> history[i].obj,
                 before |-> NoObject, after |-> props, ts |-> Log!Stamp(n),
                 undone |-> FALSE, invalidated |-> FALSE, ref |-> i]
      BY DEF MarkerRow
    <3>2. row \in Rows
      BY <1>2, <2>1, <3>1, NoObjectType DEF Rows
    <3> QED
      BY <3>1, <3>2
  <2> HIDE DEF row
  <2>3. /\ g \in Seq(Rows \cup {Gone}) /\ Len(g) = Len(history) /\ g[i] = s
        /\ \A j \in DOMAIN history \ {i} : g[j] = history[j]
    BY <1>2, <1>4
  <2>4. ASSUME NEW j \in DOMAIN history
        PROVE  /\ Alike(g[j], history[j])
               /\ g[j].invalidated => g[j].undone
               /\ g[j].undone => history[j].undone
                                 \/ (row.kind = "UNDO" /\ row.obj = history[j].obj)
    <3>1. CASE j = i
      BY <1>4, <2>2, <2>3, <3>1
    <3>2. CASE j # i
      BY <1>3, <2>3, <3>2, AlikeItself
    <3> QED
      BY <3>1, <3>2
  <2>5. history' = Append(g, row)
    BY <1>4 DEF row
  <2>6. Grows(history, row)
    BY <1>2, <2>2, <2>3, <2>4, <2>5, GrowsByRow
  <2>7. objects' = [objects EXCEPT ![row.obj] = MergeCRDT(objects[row.obj], row.after, row.ts)]
    BY <1>4, <2>2 DEF WriteObject
  <2> QED
    BY <2>2, <2>6, <2>7 DEF Writes
<1>5. CASE Log!Draw(n)
  <2> DEFINE S == Redoable(history, u)
             g == Invalidate(history, S)
             row == DrawRow(n, u, events[n].kind, events[n].obj, objects[events[n].obj],
                            Log!Patch(n), Log!Stamp(n))
  <2>1. /\ events[n].kind \in Draws
        /\ objects' = WriteObject(objects, events[n].obj, objects[events[n].obj],
                                  Log!Patch(n), Log!Stamp(n))
        /\ history' = Append(g, row)
    BY <1>5, LogQueries, LogWrites DEF Log!Draw, Log!Draws, Draws
  <2>2. /\ row \in Rows /\ row.ts = Log!Stamp(n) /\ ~row.undone /\ ~row.invalidated
        /\ row.obj = events[n].obj /\ row.after = Log!Patch(n)
    <3>1. row = [event |-> n, user |-> u, kind |-> events[n].kind, obj |-> events[n].obj,
                 before |-> objects[events[n].obj], after |-> Log!Patch(n),
                 ts |-> Log!Stamp(n), undone |-> FALSE, invalidated |-> FALSE, ref |-> 0]
      BY DEF DrawRow
    <3>2. objects[events[n].obj] \in Objects
      BY <1>2
    <3>3. row \in Rows
      BY <1>2, <2>1, <3>1, <3>2 DEF Rows
    <3> QED
      BY <3>1, <3>3
  <2> HIDE DEF row
  <2>3. \A j \in S : j \in DOMAIN history /\ history[j] # Gone /\ history[j].undone
    BY GoneIsNoRow DEF Redoable, DrawRows
  <2> HIDE DEF S
  <2>4. ASSUME NEW j \in DOMAIN history
        PROVE  /\ g[j] \in Rows \cup {Gone}
               /\ Alike(g[j], history[j])
               /\ g[j].invalidated => g[j].undone
               /\ g[j].undone => history[j].undone
    <3>1. g[j] = IF j \in S THEN [history[j] EXCEPT !.invalidated = TRUE] ELSE history[j]
      BY DEF Invalidate
    <3>2. history[j] \in Rows \cup {Gone}
      BY <1>2
    <3>3. CASE j \in S
      <4>1. history[j] \in Rows /\ history[j].undone = TRUE
        BY <2>3, <3>2, <3>3 DEF Rows
      <4>2. g[j] = [history[j] EXCEPT !.undone = TRUE, !.invalidated = TRUE]
        BY <3>1, <3>3, <4>1 DEF Rows
      <4> QED
        BY <4>1, <4>2, FlagsSet
    <3>4. CASE j \notin S
      BY <1>3, <3>1, <3>2, <3>4, AlikeItself
    <3> QED
      BY <3>3, <3>4
  <2>5. g \in Seq(Rows \cup {Gone}) /\ Len(g) = Len(history)
    <3>1. g = [j \in 1..Len(history) |-> g[j]] /\ Len(history) \in Nat
               /\ DOMAIN history = 1..Len(history)
      BY LogFacts DEF Invalidate
    <3> HIDE DEF g
    <3> QED
      BY <2>4, <3>1
  <2>6. Grows(history, row)
    <3> HIDE DEF g
    <3> QED
      BY <1>2, <2>1, <2>2, <2>4, <2>5, GrowsByRow
  <2>7. objects' = [objects EXCEPT ![row.obj] = MergeCRDT(objects[row.obj], row.after, row.ts)]
    BY <2>1, <2>2 DEF WriteObject
  <2>8. Writes(n, row)
    BY <2>2, <2>6, <2>7 DEF Writes
  <2> QED
    BY <1>1, <2>8
<1>6. CASE Log!HandleUndo(n)
  <2> DEFINE i == UndoTarget(history, u)
  <2>1. /\ i # 0
        /\ objects' = WriteObject(objects, history[i].obj, objects[history[i].obj],
                                  InverseProps(history[i]), Log!Stamp(n))
        /\ history' = Append(MarkUndone(history, i),
                             MarkerRow(n, u, "UNDO", i, history, InverseProps(history[i]),
                                       Log!Stamp(n)))
    BY <1>6, LogQueries, LogWrites DEF Log!HandleUndo
  <2>2. i \in DOMAIN history /\ history[i] # Gone
    BY <2>1, TargetsAreDraws
  <2> HIDE DEF i
  <2>3. InverseProps(history[i]) \in Props
    BY <2>2, LogFacts, InversePropsType, DeletedType
  <2>4. PICK s : s = [history[i] EXCEPT !.undone = TRUE, !.invalidated = FALSE]
    OBVIOUS
  <2>5. MarkUndone(history, i) = [history EXCEPT ![i] = s]
    BY <2>4 DEF MarkUndone
  <2>6. s \in Rows /\ Alike(s, history[i]) /\ s.undone = TRUE /\ ~s.invalidated
    BY <2>2, <2>4, LogFacts, FlagsSet
  <2> QED
    BY <1>1, <1>4, <2>1, <2>2, <2>3, <2>5, <2>6
<1>7. CASE Log!HandleRedo(n)
  <2> DEFINE i == RedoTarget(history, u)
  <2>1. /\ i # 0
        /\ objects' = WriteObject(objects, history[i].obj, objects[history[i].obj],
                                  history[i].after, Log!Stamp(n))
        /\ history' = Append(MarkRedone(history, i),
                             MarkerRow(n, u, "REDO", i, history, history[i].after,
                                       Log!Stamp(n)))
    BY <1>7, LogQueries, LogWrites DEF Log!HandleRedo
  <2>2. i \in DOMAIN history /\ history[i] # Gone
    BY <2>1, TargetsAreDraws
  <2> HIDE DEF i
  <2>3. history[i].after \in Props
    BY <2>2, LogFacts DEF Rows
  <2>4. PICK s : s = [history[i] EXCEPT !.undone = FALSE, !.invalidated = FALSE]
    OBVIOUS
  <2>5. MarkRedone(history, i) = [history EXCEPT ![i] = s]
    BY <2>4 DEF MarkRedone
  <2>6. s \in Rows /\ Alike(s, history[i]) /\ s.undone = FALSE /\ ~s.invalidated
    BY <2>2, <2>4, LogFacts, FlagsSet
  <2> QED
    BY <1>1, <1>4, <2>1, <2>2, <2>3, <2>5, <2>6
<1>8. CASE Log!HandleNothing(n)
  BY <1>1, <1>8 DEF Log!HandleNothing
<1> QED
  BY <1>1, <1>5, <1>6, <1>7, <1>8 DEF Log!Handle

-----------------------------------------------------------------------------
(* What a log reads, over an object.                                       *)

IsMap(f) == f = [x \in DOMAIN f |-> f[x]]

\* The values f are what the rows S of h, merged into base, leave.
Reads(base, h, S, f) ==
  /\ IsMap(f)
  /\ DOMAIN f = DOMAIN base \cup UNION {DOMAIN h[i].after : i \in S}
  /\ \A k \in DOMAIN f :
       \/ Setters(h, S, k) = {} /\ f[k] = base[k].val
       \/ \E i \in Setters(h, S, k) :
            h[i].after[k] = f[k] /\ \A j \in Setters(h, S, k) : h[j].ts.time <= h[i].ts.time

\* Rows that can be merged into an object: each with a time of its own, and
\* later than every property of the object.
Ripe(base, h, S) ==
  /\ Legible(h, S) /\ Stamped(base)
  /\ \A i \in S, k \in DOMAIN base : base[k].ts.time < h[i].ts.time

LEMMA ReadsMerged ==
  ASSUME NEW base, NEW h, NEW S, Ripe(base, h, S), NEW f
  PROVE  Reads(base, h, S, f) <=> f = MaterializeCRDT(MergedInto(base, h, S))
<1> DEFINE m == LatestOver(base, h, S)
           E == DOMAIN base \cup UNION {DOMAIN h[i].after : i \in S}
           v(k) == IF Setters(h, S, k) = {} THEN base[k].val
                   ELSE h[Newest(h, Setters(h, S, k))].after[k]
<1>1. MergedInto(base, h, S) = m
  BY MergedIsLatest DEF Ripe
<1>2. /\ \A i \in S : h[i].ts \in Timestamps /\ h[i].ts.time \in Nat
      /\ \A k \in DOMAIN base : base[k].ts \in Timestamps /\ base[k].ts.time \in Nat
  BY TimestampsAssumption DEF Ripe, Legible, Stamped, Timestamps
<1>3. ASSUME NEW k, NEW T, T = Setters(h, S, k), T # {}
      PROVE  /\ Newest(h, T) \in T
             /\ \A j \in T : h[j].ts.time <= h[Newest(h, T)].ts.time
             /\ \A i \in T : (\A j \in T : h[j].ts.time <= h[i].ts.time) => i = Newest(h, T)
  <2>1. T \in SUBSET S /\ Legible(h, S)
    BY <1>3 DEF Setters, Ripe
  <2>2. PICK x \in T : x = Newest(h, T) /\ \A j \in T \ {x} : h[j].ts.time < h[x].ts.time
    BY <1>3, <2>1, NewestIsNewer
  <2>3. \A j \in T : h[j].ts.time \in Nat
    BY <1>2, <2>1
  <2> QED
    BY <2>2, <2>3
<1>4. ASSUME NEW k \in E PROVE m[k].val = v(k)
  <2>1. m[k] = IF Kept(base, h, S, k) THEN base[k] ELSE Written(h, Newest(h, Setters(h, S, k)), k)
    BY DEF LatestOver
  <2>2. CASE Setters(h, S, k) = {}
    <3>1. k \in DOMAIN base
      BY <2>2 DEF Setters
    <3>2. Kept(base, h, S, k)
      BY <2>2, <3>1 DEF Kept
    <3> QED
      BY <2>1, <2>2, <3>2
  <2>3. CASE Setters(h, S, k) # {}
    <3>1. PICK i \in Setters(h, S, k) : TRUE
      BY <2>3
    <3>2. i \in S
      BY DEF Setters
    <3>3. ~Kept(base, h, S, k)
      <4>1. k \in DOMAIN base => Later(h[i].ts, base[k].ts)
        BY <1>2, <3>2 DEF Ripe, Later
      <4> QED
        BY <3>1, <4>1 DEF Kept
    <3> QED
      BY <2>1, <2>3, <3>3 DEF Written
  <2> QED
    BY <2>2, <2>3
<1>5. DOMAIN m = E
  BY DEF LatestOver
<1>6. MaterializeCRDT(m) = [k \in E |-> m[k].val]
  BY <1>5 DEF MaterializeCRDT
<1> HIDE DEF m
<1>7. Reads(base, h, S, f) <=>
        f = [k \in DOMAIN f |-> f[k]] /\ DOMAIN f = E /\ \A k \in E : f[k] = v(k)
  <2>1. ASSUME NEW k \in E
        PROVE  (\/ Setters(h, S, k) = {} /\ f[k] = base[k].val
                \/ \E i \in Setters(h, S, k) :
                     /\ h[i].after[k] = f[k]
                     /\ \A j \in Setters(h, S, k) : h[j].ts.time <= h[i].ts.time)
               <=> f[k] = v(k)
    <3> DEFINE T == Setters(h, S, k)
    <3>1. T # {} =>
             /\ Newest(h, T) \in T
             /\ \A j \in T : h[j].ts.time <= h[Newest(h, T)].ts.time
             /\ \A i \in T : (\A j \in T : h[j].ts.time <= h[i].ts.time) => i = Newest(h, T)
      BY <1>3
    <3> HIDE DEF T
    <3>2. v(k) = IF T = {} THEN base[k].val ELSE h[Newest(h, T)].after[k]
      BY DEF T
    <3> HIDE DEF v
    <3>3. (\/ T = {} /\ f[k] = base[k].val
           \/ \E i \in T : /\ h[i].after[k] = f[k]
                           /\ \A j \in T : h[j].ts.time <= h[i].ts.time)
          <=> f[k] = v(k)
      BY <3>1, <3>2
    <3> QED
      BY <3>3 DEF T
  <2> HIDE DEF v
  <2> QED
    BY <2>1 DEF Reads, IsMap
<1> HIDE DEF E, v
<1>8. f = MaterializeCRDT(m) <=>
        f = [k \in DOMAIN f |-> f[k]] /\ DOMAIN f = E /\ \A k \in E : f[k] = v(k)
  BY <1>4, <1>6
<1> QED
  BY <1>1, <1>7, <1>8

\* What is read depends on the patches and timestamps of the rows only.
LEMMA SameReads ==
  ASSUME NEW base, NEW h, NEW S, NEW f, Reads(base, h, S, f), NEW g,
         \A i \in S : g[i].after = h[i].after /\ g[i].ts = h[i].ts
  PROVE  Reads(base, g, S, f)
<1>1. UNION {DOMAIN g[i].after : i \in S} = UNION {DOMAIN h[i].after : i \in S}
  OBVIOUS
<1>2. \A k : Setters(g, S, k) = Setters(h, S, k) /\ Setters(h, S, k) \subseteq S
  BY DEF Setters
<1>3. ASSUME NEW k \in DOMAIN f
      PROVE  \/ Setters(g, S, k) = {} /\ f[k] = base[k].val
             \/ \E i \in Setters(g, S, k) :
                  g[i].after[k] = f[k] /\ \A j \in Setters(g, S, k) : g[j].ts.time <= g[i].ts.time
  <2>1. CASE Setters(h, S, k) = {}
    BY <1>2, <2>1 DEF Reads
  <2>2. ASSUME NEW i \in Setters(h, S, k), h[i].after[k] = f[k],
               \A j \in Setters(h, S, k) : h[j].ts.time <= h[i].ts.time
        PROVE  \E l \in Setters(g, S, k) :
                 g[l].after[k] = f[k] /\ \A j \in Setters(g, S, k) : g[j].ts.time <= g[l].ts.time
    BY <1>2, <2>2
  <2> QED
    BY <2>1, <2>2 DEF Reads
<1> QED
  BY <1>1, <1>3 DEF Reads

\* f are the values of obj with those of props over them.
Overlaid(f, obj, props) ==
  /\ IsMap(f)
  /\ DOMAIN f = DOMAIN obj \cup DOMAIN props
  /\ \A k \in DOMAIN f : f[k] = IF k \in DOMAIN props THEN props[k] ELSE obj[k]

\* A merge that is newer than all of an object leaves its own values.
LEMMA NewerMerge ==
  ASSUME NEW obj, NEW props, NEW ts, ts.time \in Nat,
         \A k \in DOMAIN obj : obj[k].ts.time \in Nat /\ obj[k].ts.time < ts.time,
         NEW f, f = MaterializeCRDT(MergeCRDT(obj, props, ts))
  PROVE  Overlaid(f, MaterializeCRDT(obj), props)
<1> DEFINE m == MergeCRDT(obj, props, ts)
           E == DOMAIN obj \cup DOMAIN props
<1>1. DOMAIN m = E
  BY DEF MergeCRDT
<1>2. ASSUME NEW k \in E
      PROVE  m[k].val = IF k \in DOMAIN props THEN props[k] ELSE MaterializeCRDT(obj)[k]
  <2>1. k \in DOMAIN obj => Later(ts, obj[k].ts)
    BY DEF Later
  <2>2. m[k] = IF k \in DOMAIN props /\ (k \in DOMAIN obj => Later(ts, obj[k].ts))
               THEN [val |-> props[k], ts |-> ts] ELSE obj[k]
    BY DEF MergeCRDT
  <2>3. k \in DOMAIN obj => MaterializeCRDT(obj)[k] = obj[k].val
    BY DEF MaterializeCRDT
  <2> QED
    BY <2>1, <2>2, <2>3
<1>3. MaterializeCRDT(m) = [k \in E |-> m[k].val]
  BY <1>1 DEF MaterializeCRDT
<1>4. DOMAIN MaterializeCRDT(obj) = DOMAIN obj
  BY DEF MaterializeCRDT
<1> HIDE DEF m
<1> QED
  BY <1>2, <1>3, <1>4 DEF m, IsMap, Overlaid

\* A row newer than the others, and than the object, is read over them.
LEMMA EventReads ==
  ASSUME NEW base, NEW h, NEW S, NEW obj, Reads(base, h, S, MaterializeCRDT(obj)),
         NEW g, NEW m, m \notin S,
         \A i \in S : g[i].after = h[i].after /\ g[i].ts = h[i].ts,
         g[m].ts.time \in Nat,
         \A i \in S : h[i].ts.time \in Nat /\ h[i].ts.time < g[m].ts.time,
         \A k \in DOMAIN obj : obj[k].ts.time \in Nat /\ obj[k].ts.time < g[m].ts.time
  PROVE  Reads(base, g, S \cup {m}, MaterializeCRDT(MergeCRDT(obj, g[m].after, g[m].ts)))
<1> DEFINE f == MaterializeCRDT(obj)
           e == MaterializeCRDT(MergeCRDT(obj, g[m].after, g[m].ts))
           U == S \cup {m}
<1>1. Reads(base, g, S, f)
  BY SameReads
<1>2. Overlaid(e, f, g[m].after)
  <2>1. PICK props, ts : props = g[m].after /\ ts = g[m].ts
    OBVIOUS
  <2>2. /\ ts.time \in Nat
        /\ \A k \in DOMAIN obj : obj[k].ts.time \in Nat /\ obj[k].ts.time < ts.time
    BY <2>1
  <2>3. PICK d : d = MaterializeCRDT(MergeCRDT(obj, props, ts))
    OBVIOUS
  <2>4. Overlaid(d, MaterializeCRDT(obj), props)
    BY ONLY <2>2, <2>3, NewerMerge
  <2> QED
    BY <2>1, <2>3, <2>4
<1> HIDE DEF e, f
<1>3. /\ IsMap(e) /\ DOMAIN e = DOMAIN f \cup DOMAIN g[m].after
      /\ \A k \in DOMAIN e : e[k] = IF k \in DOMAIN g[m].after THEN g[m].after[k] ELSE f[k]
  BY <1>2 DEF Overlaid
<1>4. DOMAIN e = DOMAIN base \cup UNION {DOMAIN g[i].after : i \in U}
  <2>1. DOMAIN f = DOMAIN base \cup UNION {DOMAIN g[i].after : i \in S}
    BY <1>1 DEF Reads
  <2>2. UNION {DOMAIN g[i].after : i \in U} =
          (UNION {DOMAIN g[i].after : i \in S}) \cup DOMAIN g[m].after
    OBVIOUS
  <2> QED
    BY <1>3, <2>1, <2>2
<1>5. ASSUME NEW k \in DOMAIN e
      PROVE  \/ Setters(g, U, k) = {} /\ e[k] = base[k].val
             \/ \E i \in Setters(g, U, k) :
                  g[i].after[k] = e[k] /\ \A j \in Setters(g, U, k) : g[j].ts.time <= g[i].ts.time
  <2>1. CASE k \in DOMAIN g[m].after
    <3>1. m \in Setters(g, U, k)
      BY <2>1 DEF Setters
    <3>2. \A j \in Setters(g, U, k) : g[j].ts.time <= g[m].ts.time
      BY DEF Setters
    <3> QED
      BY <1>3, <2>1, <3>1, <3>2
  <2>2. CASE k \notin DOMAIN g[m].after
    <3>1. Setters(g, U, k) = Setters(g, S, k)
      BY <2>2 DEF Setters
    <3>2. k \in DOMAIN f /\ e[k] = f[k]
      BY <1>3, <2>2
    <3> QED
      BY <1>1, <3>1, <3>2 DEF Reads
  <2> QED
    BY <2>1, <2>2
<1>6. Reads(base, g, U, e)
  BY <1>3, <1>4, <1>5 DEF Reads
<1> QED
  BY <1>6 DEF e

\* What an event that is taken in order is later than.
LEMMA EventIsNewest ==
  ASSUME LogOK, NEW n \in DOMAIN events \ processed, Log!Oldest(n)
  PROVE  /\ n \in Nat /\ \A p \in processed : p \in Nat /\ p < n
         /\ \A i \in DOMAIN history : history[i].ts.time \in Nat /\ history[i].ts.time < n
         /\ \A o \in Objs : \A k \in DOMAIN objects[o] :
              objects[o][k].ts.time \in Nat /\ objects[o][k].ts.time < n
<1>1. n \in Nat /\ n > 0 /\ \A p \in processed : p \in Nat /\ p < n
  BY LogFacts DEF LogOK
<1>2. ASSUME NEW i \in DOMAIN history
      PROVE  history[i].ts.time \in Nat /\ history[i].ts.time < n
  BY <1>1, LogFacts, GoneIsNoRow
<1>3. ASSUME NEW o \in Objs, NEW k \in DOMAIN objects[o]
      PROVE  objects[o][k].ts.time \in Nat /\ objects[o][k].ts.time < n
  BY <1>1 DEF LogOK
<1> QED
  BY <1>1, <1>2, <1>3

\* Rows keep their numbers: events are never taken back.
LEMMA StaysNumbered ==
  ASSUME NEW row, Numbered(row), processed \subseteq processed', processed \subseteq DOMAIN events,
         \A n \in DOMAIN events : events'[n] = events[n]
  PROVE  Numbered(row)'
  BY DEF Numbered, Log!Stamp

LEMMA WriteKeepsLog ==
  ASSUME LogOK, FlagsOK, NEW n \in DOMAIN events \ processed, Log!Oldest(n),
         processed' = processed \cup {n}, UNCHANGED events, NEW row, Writes(n, row)
  PROVE  LogOK' /\ FlagsOK'
<1> DEFINE m == Len(history) + 1
<1>1. /\ Len(history) \in Nat /\ DOMAIN history = 1..Len(history)
      /\ processed \subseteq DOMAIN events
  BY LogFacts
<1>2. /\ row \in Rows /\ row.ts = Log!Stamp(n) /\ ~row.undone /\ ~row.invalidated
      /\ Grows(history, row)
      /\ objects' = [objects EXCEPT ![row.obj] = MergeCRDT(objects[row.obj], row.after, row.ts)]
      /\ row.obj \in Objs /\ row.after \in Props /\ row.ts \in Timestamps /\ row.ts.time = n
  BY StampAndPatchTypes DEF Writes, Rows
<1>3. /\ history' \in Seq(Rows \cup {Gone}) /\ DOMAIN history' = 1..m /\ history'[m] = row
      /\ \A i \in DOMAIN history :
           /\ Alike(history'[i], history[i])
           /\ history'[i].invalidated => history'[i].undone
           /\ history'[i].undone =>
                history[i].undone \/ (row.kind = "UNDO" /\ row.obj = history[i].obj)
  BY <1>1, <1>2 DEF Grows
<1>4. LogTypes'
  <2>1. objects \in [Objs -> Objects] /\ objects[row.obj] \in Objects
    BY <1>2 DEF LogOK, LogTypes
  <2>2. objects' \in [Objs -> Objects]
    BY <1>2, <2>1, MergeType
  <2> QED
    BY <1>3, <2>2 DEF LogOK, LogTypes
<1>5. ASSUME NEW i \in DOMAIN history', history'[i] # Gone PROVE Numbered(history[i])'
  <2>1. CASE i = m
    BY <1>2, <1>3, <2>1 DEF Numbered, Log!Stamp
  <2>2. CASE i \in DOMAIN history
    <3>1. history[i] # Gone /\ history'[i].ts = history[i].ts
      BY <1>3, <1>5, <2>2 DEF Alike
    <3>2. Numbered(history[i])
      BY <2>2, <3>1 DEF LogOK
    <3> QED
      BY <3>1, <3>2 DEF Numbered, Log!Stamp
  <2> QED
    BY <1>1, <1>3, <2>1, <2>2
<1>6. \A p \in processed', x \in DOMAIN events' \ processed' : p < x
  <2> SUFFICES ASSUME NEW p \in processed', NEW x \in DOMAIN events' \ processed' PROVE p < x
    OBVIOUS
  <2>1. x \in DOMAIN events \ processed /\ x # n
    OBVIOUS
  <2>2. n <= x /\ n \in Nat /\ x \in Nat
    BY <2>1, LogFacts DEF Log!Oldest
  <2> QED
    BY <2>1, <2>2 DEF LogOK
<1>7. ASSUME NEW o \in Objs, NEW k \in DOMAIN objects'[o]
      PROVE  objects'[o][k].ts.time \in processed'
  <2>1. objects \in [Objs -> Objects]
    BY DEF LogOK, LogTypes
  <2>2. CASE o # row.obj
    BY <1>2, <1>7, <2>1, <2>2 DEF LogOK
  <2>3. CASE o = row.obj
    <3>1. objects'[o] = MergeCRDT(objects[o], row.after, row.ts)
      BY <1>2, <2>1, <2>3
    <3>2. objects'[o][k].ts = row.ts \/ (k \in DOMAIN objects[o] /\ objects'[o][k] = objects[o][k])
      BY <1>7, <3>1 DEF MergeCRDT
    <3> QED
      BY <1>2, <3>2 DEF LogOK
  <2> QED
    BY <2>2, <2>3
<1>8. ASSUME NEW i \in DOMAIN history'
      PROVE  /\ history'[i].invalidated => history'[i].undone
             /\ history'[i].undone => \E j \in DOMAIN history' :
                  history'[j].kind = "UNDO" /\ history'[j].obj = history'[i].obj
  <2>1. CASE i = m
    BY <1>2, <1>3, <2>1
  <2>2. CASE i \in DOMAIN history
    <3>1. history'[i].invalidated => history'[i].undone
      BY <1>3, <2>2
    <3>2. ASSUME history'[i].undone
          PROVE  \E j \in DOMAIN history' :
                   history'[j].kind = "UNDO" /\ history'[j].obj = history'[i].obj
      <4>1. history'[i].obj = history[i].obj
        BY <1>3, <2>2 DEF Alike
      <4>2. CASE row.kind = "UNDO" /\ row.obj = history[i].obj
        BY <1>1, <1>3, <4>1, <4>2
      <4>3. CASE history[i].undone
        <5>1. PICK j \in DOMAIN history : history[j].kind = "UNDO" /\ history[j].obj = history[i].obj
          BY <2>2, <4>3 DEF FlagsOK
        <5>2. j \in DOMAIN history' /\ history'[j].kind = "UNDO" /\ history'[j].obj = history[i].obj
          BY <1>1, <1>3, <5>1 DEF Alike
        <5> QED
          BY <4>1, <5>2
      <4> QED
        BY <1>3, <2>2, <3>2, <4>2, <4>3
    <3> QED
      BY <3>1, <3>2
  <2> QED
    BY <1>1, <1>3, <2>1, <2>2
<1> QED
  BY <1>4, <1>5, <1>6, <1>7, <1>8 DEF LogOK, FlagsOK

LEMMA PublishKeepsLog ==
  ASSUME LogOK, FlagsOK, Log!PublishSome
  PROVE  /\ LogOK' /\ FlagsOK' /\ UNCHANGED <<processed, objects, history>>
         /\ Len(events') = Len(events) + 1
         /\ \A n \in DOMAIN events : events'[n] = events[n]
<1>1. PICK e \in Log!Events : /\ Len(events) < MaxEvents /\ events' = Append(events, e)
                              /\ UNCHANGED <<processed, objects, history>>
  BY DEF Log!PublishSome, Log!Publish
<1>2. /\ Len(events) \in Nat /\ DOMAIN events = 1..Len(events)
      /\ processed \subseteq DOMAIN events /\ events \in Seq(Log!Events)
  BY LogFacts DEF LogOK, LogTypes
<1>3. /\ events' \in Seq(Log!Events) /\ Len(events') = Len(events) + 1
      /\ DOMAIN events' = 1..(Len(events) + 1)
      /\ \A n \in DOMAIN events : events'[n] = events[n]
  BY <1>1, <1>2
<1>4. LogTypes'
  BY <1>1, <1>2, <1>3, CompactionAssumption DEF LogOK, LogTypes
<1>5. \A i \in DOMAIN history' : history'[i] # Gone => Numbered(history[i])'
  BY <1>1, <1>2, <1>3 DEF LogOK, Numbered, Log!Stamp
<1>6. \A p \in processed', n \in DOMAIN events' \ processed' : p < n
  <2> SUFFICES ASSUME NEW p \in processed', NEW n \in DOMAIN events' \ processed' PROVE p < n
    OBVIOUS
  <2>1. p \in processed /\ p \in 1..Len(events)
    BY <1>1, <1>2
  <2>2. n \in DOMAIN events \ processed \/ n = Len(events) + 1
    BY <1>1, <1>2, <1>3
  <2> QED
    BY <1>2, <2>1, <2>2 DEF LogOK
<1>7. \A o \in Objs : \A k \in DOMAIN objects'[o] : objects'[o][k].ts.time \in processed'
  BY <1>1 DEF LogOK
<1>8. FlagsOK'
  BY <1>1 DEF FlagsOK
<1> QED
  BY <1>1, <1>3, <1>4, <1>5, <1>6, <1>7, <1>8 DEF LogOK

-----------------------------------------------------------------------------
(* The plan of a compaction.                                               *)

\* Rows in the order compareLogicalTimestamp and their ids give them.
Sortable(h, S) ==
  /\ \A i \in S : h[i].ts \in Timestamps
  /\ \A i, j \in S : h[i].ts.time = h[j].ts.time => h[i].ts = h[j].ts
  /\ \E n \in Nat : S \subseteq 0..n /\ Times \subseteq 0..n

LEMMA SortablePart ==
  ASSUME NEW h, NEW R, Sortable(h, R), NEW S \in SUBSET R
  PROVE  Sortable(h, S)
  BY DEF Sortable

\* A bounded function has a smallest value.
LEMMA SmallestValue ==
  ASSUME NEW S, S # {}, NEW n \in Nat, NEW f \in [S -> Nat], \A i \in S : f[i] <= n
  PROVE  \E i \in S : \A j \in S : f[i] <= f[j]
<1> DEFINE g == [i \in S |-> n - f[i]]
<1>1. g \in [S -> Nat] /\ \A i \in S : g[i] <= n
  OBVIOUS
<1>2. PICK i \in S : \A j \in S : g[j] <= g[i]
  <2> HIDE DEF g
  <2> QED
    BY <1>1, LargestValue
<1>3. ASSUME NEW j \in S PROVE f[i] <= f[j]
  <2>1. g[j] <= g[i] /\ f[i] \in Nat /\ f[j] \in Nat
    BY <1>2
  <2> QED
    BY <2>1
<1> QED
  BY <1>3

LEMMA LastExists ==
  ASSUME NEW h, NEW S, Sortable(h, S), S # {}
  PROVE  LastOf(h, S) \in S /\ \A j \in S : h[j].ts.time <= h[LastOf(h, S)].ts.time
<1> DEFINE P(i) == \A j \in S \ {i} : Before(h, j, i)
           time == [i \in S |-> h[i].ts.time]
<1>1. PICK n \in Nat : S \subseteq 0..n /\ Times \subseteq 0..n
  BY DEF Sortable
<1>2. \A i \in S : i \in 0..n /\ h[i].ts \in Timestamps /\ h[i].ts.time \in 0..n
  BY <1>1 DEF Sortable, Timestamps
<1>3. PICK i \in S : \A j \in S : h[j].ts.time <= h[i].ts.time
  <2>1. time \in [S -> Nat] /\ \A j \in S : time[j] <= n
    BY <1>2
  <2>2. PICK i \in S : \A j \in S : time[j] <= time[i]
    <3> HIDE DEF time
    <3> QED
      BY <2>1, LargestValue
  <2> QED
    BY <2>2
<1> DEFINE T == {j \in S : h[j].ts.time = h[i].ts.time}
           id == [j \in T |-> j]
<1>4. PICK l \in T : \A j \in T : j <= l
  <2>1. id \in [T -> Nat] /\ T # {} /\ \A j \in T : id[j] <= n
    BY <1>2
  <2>2. PICK l \in T : \A j \in T : id[j] <= id[l]
    <3> HIDE DEF id, T
    <3> QED
      BY <2>1, LargestValue
  <2> QED
    BY <2>2
<1>5. P(l)
  <2> SUFFICES ASSUME NEW j \in S \ {l} PROVE Before(h, j, l)
    OBVIOUS
  <2>1. CASE j \in T
    BY <1>2, <1>4, <2>1 DEF Before, Sortable
  <2>2. CASE j \notin T
    BY <1>2, <1>3, <1>4, <2>2 DEF Before, Later
  <2> QED
    BY <2>1, <2>2
<1>6. LastOf(h, S) = CHOOSE x \in S : P(x)
  BY DEF LastOf
<1>7. LastOf(h, S) \in S /\ P(LastOf(h, S))
  <2> HIDE DEF P
  <2> QED
    BY <1>4, <1>5, <1>6
<1>8. ASSUME NEW x \in S, P(x), NEW j \in S PROVE h[j].ts.time <= h[x].ts.time
  BY <1>2, <1>8 DEF Before, Later
<1> QED
  BY <1>7, <1>8

LEMMA FirstExists ==
  ASSUME NEW h, NEW S, Sortable(h, S), S # {}
  PROVE  FirstOf(h, S) \in S
<1> DEFINE P(i) == \A j \in S \ {i} : Before(h, i, j)
           time == [i \in S |-> h[i].ts.time]
<1>1. PICK n \in Nat : S \subseteq 0..n /\ Times \subseteq 0..n
  BY DEF Sortable
<1>2. \A i \in S : i \in 0..n /\ h[i].ts \in Timestamps /\ h[i].ts.time \in 0..n
  BY <1>1 DEF Sortable, Timestamps
<1>3. PICK i \in S : \A j \in S : h[i].ts.time <= h[j].ts.time
  <2>1. time \in [S -> Nat] /\ \A j \in S : time[j] <= n
    BY <1>2
  <2>2. PICK i \in S : \A j \in S : time[i] <= time[j]
    <3> HIDE DEF time
    <3> QED
      BY <2>1, SmallestValue
  <2> QED
    BY <2>2
<1> DEFINE T == {j \in S : h[j].ts.time = h[i].ts.time}
           id == [j \in T |-> j]
<1>4. PICK l \in T : \A j \in T : l <= j
  <2>1. id \in [T -> Nat] /\ T # {} /\ \A j \in T : id[j] <= n
    BY <1>2
  <2>2. PICK l \in T : \A j \in T : id[l] <= id[j]
    <3> HIDE DEF id, T
    <3> QED
      BY <2>1, SmallestValue
  <2> QED
    BY <2>2
<1>5. P(l)
  <2> SUFFICES ASSUME NEW j \in S \ {l} PROVE Before(h, l, j)
    OBVIOUS
  <2>1. CASE j \in T
    BY <1>2, <1>4, <2>1 DEF Before, Sortable
  <2>2. CASE j \notin T
    BY <1>2, <1>3, <1>4, <2>2 DEF Before, Later
  <2> QED
    BY <2>1, <2>2
<1>6. FirstOf(h, S) = CHOOSE x \in S : P(x)
  BY DEF FirstOf
<1> QED
  <2> HIDE DEF P
  <2> QED
    BY <1>4, <1>5, <1>6

\* What collapseEvents makes of some rows.
LEMMA CollapsedRow ==
  ASSUME NEW h, NEW S, Sortable(h, S), S # {}, \A i \in S : h[i] \in Rows,
         NEW row, row = Collapsed(h, S)
  PROVE  /\ row \in Rows /\ row.ts = h[LastOf(h, S)].ts /\ row.obj = h[LastOf(h, S)].obj
         /\ row.kind = "UPDATE" /\ ~row.undone /\ ~row.invalidated
         /\ DOMAIN row.after = UNION {DOMAIN h[i].after : i \in S}
         /\ \A k \in DOMAIN row.after :
              row.after[k] = h[LastOf(h, Setting(h, S, k))].after[k]
<1> DEFINE K == UNION {DOMAIN h[i].after : i \in S}
           v(k) == h[LastOf(h, Setting(h, S, k))].after[k]
           after == [k \in K |-> v(k)]
<1>1. PICK l, r : l = LastOf(h, S) /\ r = h[LastOf(h, S)]
  OBVIOUS
<1>2. r \in Rows
  BY <1>1, LastExists
<1>3. PICK b : b = h[FirstOf(h, S)].before
  OBVIOUS
<1>4. b \in Objects
  BY <1>3, FirstExists DEF Rows
<1>5. after \in Props
  <2>1. ASSUME NEW i \in S
        PROVE  DOMAIN h[i].after \subseteq Keys
               /\ \A k \in DOMAIN h[i].after : h[i].after[k] \in Values
    <3>1. h[i].after \in Props
      BY DEF Rows
    <3> QED
      BY <3>1 DEF Props
  <2>2. K \in SUBSET Keys
    BY <2>1
  <2>3. ASSUME NEW k \in K PROVE v(k) \in Values
    <3> DEFINE T == Setting(h, S, k)
    <3>1. T \in SUBSET S /\ T # {} /\ \A i \in T : k \in DOMAIN h[i].after
      BY DEF Setting
    <3> HIDE DEF T
    <3>2. LastOf(h, T) \in T
      BY <3>1, SortablePart, LastExists
    <3> QED
      BY <2>1, <3>1, <3>2 DEF T
  <2> HIDE DEF v, K
  <2>4. after \in [K -> Values]
    BY <2>3
  <2> QED
    BY <2>2, <2>4 DEF Props
<1>6. row = [r EXCEPT !.event = 0, !.kind = "UPDATE", !.before = b, !.undone = FALSE,
                      !.invalidated = FALSE, !.ref = 0, !.after = after]
  BY <1>1, <1>3 DEF Collapsed
<1>7. DOMAIN after = K /\ \A k \in K : after[k] = v(k)
  OBVIOUS
<1> HIDE DEF after, K, v
<1>8. row = [event |-> 0, user |-> r.user, kind |-> "UPDATE", obj |-> r.obj, before |-> b,
             after |-> after, ts |-> r.ts, undone |-> FALSE, invalidated |-> FALSE, ref |-> 0]
  BY <1>2, <1>6 DEF Rows
<1>9. row \in Rows
  <2>1. r.user \in Actors /\ r.obj \in Objs /\ r.ts \in Timestamps /\ "UPDATE" \in Draws /\ 0 \in Nat
    BY <1>2 DEF Rows, Draws
  <2> QED
    BY <1>4, <1>5, <1>8, <2>1 DEF Rows
<1>10. /\ row.ts = r.ts /\ row.obj = r.obj /\ row.kind = "UPDATE"
       /\ ~row.undone /\ ~row.invalidated /\ row.after = after
  BY <1>8
<1> QED
  BY <1>1, <1>7, <1>9, <1>10 DEF K, v

\* The rows a compaction reads.
Below(h, t) == {i \in DOMAIN h : h[i] # Gone /\ h[i].ts.time <= t}

LEMMA BelowSortable ==
  ASSUME LogOK, NEW t
  PROVE  /\ Sortable(history, Below(history, t)) /\ IsFiniteSet(Below(history, t))
         /\ \A i \in Below(history, t) :
              i \in DOMAIN history /\ history[i] \in Rows /\ history[i].obj \in Objs
<1> DEFINE S == Below(history, t)
<1>1. \A i \in S : i \in DOMAIN history /\ history[i] # Gone
  BY DEF Below
<1>2. Len(history) \in Nat /\ DOMAIN history = 1..Len(history)
  BY LogFacts
<1>3. \A i \in S : history[i] \in Rows /\ history[i].ts \in Timestamps /\ history[i].obj \in Objs
  BY <1>1, LogFacts DEF Rows
<1>4. \A i, j \in S : history[i].ts.time = history[j].ts.time => history[i].ts = history[j].ts
  BY <1>1, LogFacts
<1>5. IsFiniteSet(S)
  <2>1. IsFiniteSet(1..Len(history)) /\ S \subseteq 1..Len(history)
    BY <1>1, <1>2, FS_Interval
  <2> QED
    BY <2>1, FS_Subset
<1>6. S \subseteq 0..(Len(history) + MaxEvents) /\ Times \subseteq 0..(Len(history) + MaxEvents)
      /\ Len(history) + MaxEvents \in Nat
  BY <1>1, <1>2, CompactionAssumption
<1> QED
  BY <1>1, <1>3, <1>4, <1>5, <1>6 DEF Sortable

\* The rows of a segment that stand for it.
LEMMA SquashedPart ==
  ASSUME NEW h, NEW seg, Sortable(h, seg)
  PROVE  /\ Squashed(h, seg) \subseteq seg
         /\ \A k : Setting(h, seg, k) # {} =>
              /\ LastOf(h, Setting(h, seg, k)) \in Squashed(h, seg)
              /\ LastOf(h, Setting(h, seg, k)) \in Setting(h, seg, k)
              /\ \A j \in Setting(h, seg, k) :
                   h[j].ts.time <= h[LastOf(h, Setting(h, seg, k))].ts.time
<1>1. Squashed(h, seg) \subseteq seg
  BY DEF Squashed
<1>2. ASSUME NEW k, Setting(h, seg, k) # {}
      PROVE  /\ LastOf(h, Setting(h, seg, k)) \in Squashed(h, seg)
             /\ LastOf(h, Setting(h, seg, k)) \in Setting(h, seg, k)
             /\ \A j \in Setting(h, seg, k) :
                  h[j].ts.time <= h[LastOf(h, Setting(h, seg, k))].ts.time
  <2> DEFINE T == Setting(h, seg, k)
  <2>1. T \in SUBSET seg /\ \A i \in T : k \in DOMAIN h[i].after
    BY DEF Setting
  <2> HIDE DEF T
  <2>2. LastOf(h, T) \in T /\ \A j \in T : h[j].ts.time <= h[LastOf(h, T)].ts.time
    BY <1>2, <2>1, SortablePart, LastExists DEF T
  <2>3. LastOf(h, T) \in Squashed(h, seg)
    BY <2>1, <2>2 DEF Squashed, T
  <2> QED
    BY <2>2, <2>3 DEF T
<1> QED
  BY <1>1, <1>2

\* What a part of a plan consists of.
LEMMA PlanPart ==
  ASSUME LogOK, NEW t, NEW p \in Plan(history, Below(history, t))
  PROVE  \E a \in Below(history, t), seg \in SUBSET Below(history, t) :
           /\ seg = Segment(history, Below(history, t), a) /\ ~Boundary(history[a])
           /\ p = [old |-> [i \in seg |-> history[i]], new |-> Collapsed(history, Squashed(history, seg))]
           /\ Squashed(history, seg) # {} /\ Squashed(history, seg) \subseteq seg
<1> DEFINE S == Below(history, t)
<1>1. PICK seg \in Segments(history, S) :
        /\ Cardinality(Squashed(history, seg)) > 1
        /\ p = [old |-> [i \in seg |-> history[i]], new |-> Collapsed(history, Squashed(history, seg))]
  BY DEF Plan
<1>2. PICK a \in S : ~Boundary(history[a]) /\ seg = Segment(history, S, a)
  BY DEF Segments
<1>3. seg \in SUBSET S
  BY <1>2 DEF Segment
<1>4. Squashed(history, seg) # {}
  BY <1>1, FS_EmptySet
<1>5. Squashed(history, seg) \subseteq seg
  BY DEF Squashed
<1> QED
  BY <1>1, <1>2, <1>3, <1>4, <1>5

LEMMA PlanIsFinite ==
  ASSUME NEW h, NEW S, IsFiniteSet(S)
  PROVE  IsFiniteSet(Plan(h, S))
<1> DEFINE A == {i \in S : ~Boundary(h[i])}
           f == [i \in A |-> Segment(h, S, i)]
           B == {g \in Segments(h, S) : Cardinality(Squashed(h, g)) > 1}
           x(seg) == [old |-> [i \in seg |-> h[i]], new |-> Collapsed(h, Squashed(h, seg))]
           e == [seg \in B |-> x(seg)]
<1>1. IsFiniteSet(A)
  BY FS_Subset
<1>2. Segments(h, S) = {f[i] : i \in A}
  BY DEF Segments
<1>3. IsFiniteSet(Segments(h, S))
  <2>1. f \in Surjection(A, Segments(h, S))
    <3> DEFINE C == Segments(h, S)
    <3>1. f = [i \in A |-> f[i]] /\ C = {f[i] : i \in A}
      BY <1>2
    <3> HIDE DEF f, C, A
    <3> QED
      BY <3>1 DEF Surjection, C
  <2> HIDE DEF f, A
  <2> QED
    BY <1>1, <2>1, FS_Surjection
<1>4. IsFiniteSet(B)
  BY <1>3, FS_Subset
<1>5. Plan(h, S) = {e[seg] : seg \in B}
  BY DEF Plan
<1>6. e \in Surjection(B, Plan(h, S))
  <2> DEFINE C == Plan(h, S)
  <2>1. e = [seg \in B |-> e[seg]] /\ C = {e[seg] : seg \in B}
    BY <1>5
  <2> HIDE DEF e, C, B
  <2> QED
    BY <2>1 DEF Surjection, C
<1> HIDE DEF e, B
<1> QED
  BY <1>4, <1>6, FS_Surjection

-----------------------------------------------------------------------------
(* What a compaction makes of the log.                                     *)

LEMMA AsSequence ==
  ASSUME NEW S, IsFiniteSet(S), NEW s, s = SetToSeq(S)
  PROVE  /\ s \in Seq(S) /\ Len(s) \in Nat /\ DOMAIN s = 1..Len(s)
         /\ \A x \in S : \E i \in DOMAIN s : s[i] = x
         /\ \A i, j \in DOMAIN s : s[i] = s[j] => i = j
<1> DEFINE D == 1..Cardinality(S)
<1>1. Cardinality(S) \in Nat /\ ExistsBijection(D, S)
  BY FS_CardinalityType
<1>2. PICK f \in [D -> S] : IsInjective(f)
  BY <1>1 DEF ExistsBijection, Bijection, Injection, IsInjective
<1>3. s \in [D -> S] /\ IsInjective(s)
  <2>1. s = CHOOSE g \in [D -> S] : IsInjective(g)
    BY DEF SetToSeq
  <2> HIDE DEF D
  <2> QED
    BY <1>2, <2>1
<1>4. \A i, j \in D : s[i] = s[j] => i = j
  BY <1>3 DEF IsInjective
<1>5. s \in Injection(D, S)
  BY <1>3, <1>4 DEF Injection, IsInjective
<1>6. Cardinality(D) = Cardinality(S)
  BY <1>1, FS_Interval
<1>7. s \in Surjection(D, S)
  BY <1>5, <1>6, FS_Injection
<1>8. \A x \in S : \E i \in D : s[i] = x
  BY <1>7 DEF Surjection
<1>9. s \in Seq(S) /\ Len(s) = Cardinality(S) /\ DOMAIN s = D
  BY <1>1, <1>3
<1> QED
  BY <1>1, <1>4, <1>8, <1>9

Ids(plan) == UNION {DOMAIN p.old : p \in plan}

\* The log after the transaction of a compaction.
Rewritten(h, plan) ==
  [i \in DOMAIN h |-> IF i \in Ids(plan) THEN Gone ELSE h[i]] \o SetToSeq({p.new : p \in plan})

LEMMA RewrittenRows ==
  ASSUME NEW h \in Seq(Rows \cup {Gone}), NEW plan, IsFiniteSet(plan),
         \A p \in plan : p.new \in Rows, NEW g, g = Rewritten(h, plan)
  PROVE  /\ g \in Seq(Rows \cup {Gone}) /\ DOMAIN h \subseteq DOMAIN g
         /\ \A i \in DOMAIN h : g[i] = IF i \in Ids(plan) THEN Gone ELSE h[i]
         /\ \A i \in DOMAIN g \ DOMAIN h : g[i] \in {p.new : p \in plan}
         /\ \A p \in plan : \E i \in DOMAIN g \ DOMAIN h : g[i] = p.new
         /\ \A i, j \in DOMAIN g \ DOMAIN h : g[i] = g[j] => i = j
<1> DEFINE News == {p.new : p \in plan}
           x(i) == IF i \in Ids(plan) THEN Gone ELSE h[i]
           old == [i \in DOMAIN h |-> x(i)]
<1>1. PICK s : s = SetToSeq(News)
  OBVIOUS
<1>2. IsFiniteSet(News)
  <2> DEFINE f == [p \in plan |-> p.new]
  <2>1. f \in Surjection(plan, News)
    BY DEF Surjection
  <2> HIDE DEF f, News
  <2> QED
    BY <2>1, FS_Surjection
<1>3. /\ s \in Seq(News) /\ Len(s) \in Nat /\ DOMAIN s = 1..Len(s)
      /\ \A y \in News : \E i \in DOMAIN s : s[i] = y
      /\ \A i, j \in DOMAIN s : s[i] = s[j] => i = j
  <2> HIDE DEF News
  <2> QED
    BY <1>1, <1>2, AsSequence
<1>4. DOMAIN h = 1..Len(h) /\ Len(h) \in Nat /\ \A i \in DOMAIN h : x(i) \in Rows \cup {Gone}
  OBVIOUS
<1>5. /\ old \in Seq(Rows \cup {Gone}) /\ Len(old) = Len(h) /\ \A i \in DOMAIN h : old[i] = x(i)
  <2> HIDE DEF x
  <2> QED
    BY <1>4
<1>6. News \subseteq Rows /\ s \in Seq(Rows \cup {Gone})
  <2>1. News \subseteq Rows
    OBVIOUS
  <2> HIDE DEF News
  <2> QED
    BY <1>3, <2>1
<1>7. g = old \o s
  BY <1>1 DEF Rewritten
<1> DEFINE n == Len(h)
<1> HIDE DEF old
<1>8. /\ g \in Seq(Rows \cup {Gone}) /\ DOMAIN g = 1..(n + Len(s))
      /\ \A i \in 1..n : g[i] = old[i]
      /\ \A i \in (n + 1)..(n + Len(s)) : g[i] = s[i - n]
  <2> DEFINE X == Rows \cup {Gone}
  <2>1. /\ old \in Seq(X) /\ s \in Seq(X) /\ g = old \o s /\ Len(old) = n
        /\ n \in Nat /\ Len(s) \in Nat
    BY <1>3, <1>4, <1>5, <1>6, <1>7
  <2> HIDE DEF X, n
  <2>2. g \in Seq(X) /\ Len(g) = n + Len(s)
    <3>1. ASSUME NEW a \in Seq(X), NEW b \in Seq(X)
          PROVE  a \o b \in Seq(X) /\ Len(a \o b) = Len(a) + Len(b)
      OBVIOUS
    <3> QED
      BY <2>1, <3>1
  <2>3. DOMAIN g = 1..(n + Len(s))
    BY <2>2
  <2>4. \A i \in 1..n : g[i] = old[i]
    BY <2>1
  <2>5. \A i \in (n + 1)..(n + Len(s)) : g[i] = s[i - n]
    BY <2>1
  <2> QED
    BY <2>2, <2>3, <2>4, <2>5 DEF X
<1>9. \A i \in DOMAIN g \ DOMAIN h : i \in (n + 1)..(n + Len(s)) /\ g[i] = s[i - n]
                                     /\ i - n \in DOMAIN s
  BY <1>3, <1>4, <1>8
<1>10. \A i \in DOMAIN s : n + i \in DOMAIN g \ DOMAIN h /\ g[n + i] = s[i]
  <2> SUFFICES ASSUME NEW i \in DOMAIN s PROVE n + i \in DOMAIN g \ DOMAIN h /\ g[n + i] = s[i]
    OBVIOUS
  <2>1. i \in 1..Len(s) /\ n + i \in (n + 1)..(n + Len(s)) /\ (n + i) - n = i
    BY <1>3, <1>4
  <2> QED
    BY <1>3, <1>4, <1>8, <2>1
<1>11. ASSUME NEW i \in DOMAIN g \ DOMAIN h PROVE \E p \in plan : g[i] = p.new
  <2>1. s[i - n] \in News
    BY <1>3, <1>9
  <2> QED
    BY <1>9, <2>1
<1>12. ASSUME NEW p \in plan PROVE \E i \in DOMAIN g \ DOMAIN h : g[i] = p.new
  <2>1. PICK i \in DOMAIN s : s[i] = p.new
    BY <1>3
  <2> QED
    BY <1>10, <2>1
<1>13. ASSUME NEW i \in DOMAIN g \ DOMAIN h, NEW j \in DOMAIN g \ DOMAIN h, g[i] = g[j]
       PROVE  i = j
  <2>1. i - n = j - n
    BY <1>3, <1>9, <1>13
  <2>2. i \in Int /\ j \in Int /\ n \in Int
    BY <1>4, <1>9
  <2> QED
    BY <2>1, <2>2
<1>14. DOMAIN h \subseteq DOMAIN g /\ \A i \in DOMAIN h : g[i] = x(i)
  BY <1>3, <1>4, <1>5, <1>8
<1> QED
  BY <1>8, <1>11, <1>12, <1>13, <1>14

-----------------------------------------------------------------------------
(* Plans and snapshots.                                                    *)

\* A part of a plan removes rows no later than the snapshot, if they are still
\* there, never an UNDO or a REDO, and adds one that is as old.
PartOK(p) ==
  /\ p.new \in Rows /\ Numbered(p.new) /\ p.new.ts.time <= snapshot.createdAt
  /\ ~p.new.undone /\ ~p.new.invalidated
  /\ \A i \in DOMAIN p.old :
       /\ i \in DOMAIN history
       /\ history[i] = Gone \/ (/\ history[i].ts.time <= snapshot.createdAt
                                /\ history[i].kind # "UNDO")

PlanOK(x) ==
  /\ x.cutoff \in Nat /\ x.cutoff <= snapshot.createdAt
  /\ x.plan # {} => x.stage = "read"
  /\ IsFiniteSet(x.plan) /\ \A p \in x.plan : PartOK(p)

PlansOK == \A c \in Compactors : PlanOK(compactor[c])

\* The rows of object o after time t.
After(h, o, t) == {i \in DOMAIN h : h[i].obj = o /\ h[i].ts.time > t}

SnapTypes(s) ==
  /\ s.createdAt \in Nat /\ s.createdAt <= Len(events) /\ s.seen \subseteq processed
  /\ \A o \in DOMAIN s.objects : o \in Objs /\ s.objects[o] \in Objects

\* The snapshot read all that was stamped before it was dated.
Complete(s) == 1..s.createdAt \subseteq s.seen

\* No two rows after the snapshot have the same time, and what is drawn of an
\* object of a complete snapshot are the rows after it over the object.
SnapOK ==
  /\ SnapTypes(snapshot)
  /\ \A i \in DOMAIN history : \A j \in DOMAIN history :
       history[i].ts.time > snapshot.createdAt /\ history[i].ts.time = history[j].ts.time => i = j
  /\ Complete(snapshot) =>
       \A o \in DOMAIN snapshot.objects :
         /\ \A k \in DOMAIN snapshot.objects[o] :
              snapshot.objects[o][k].ts.time <= snapshot.createdAt
         /\ Reads(snapshot.objects[o], history, After(history, o, snapshot.createdAt),
                  MaterializeCRDT(objects[o]))

MakingOK ==
  /\ making = [stage |-> making.stage, version |-> making.version,
               objects |-> making.objects, seen |-> making.seen]
  /\ making.stage = "read" =>
       /\ making.seen \subseteq processed
       /\ \A o \in DOMAIN making.objects : o \in Objs /\ making.objects[o] \in Objects
       /\ making.seen = processed =>
            \A o \in DOMAIN making.objects : making.objects[o] = objects[o]

CompactionInv ==
  /\ IInv /\ LogOK /\ FlagsOK /\ PlansOK /\ SnapOK /\ MakingOK

LEMMA CompactionInit == Init => CompactionInv
<1> SUFFICES ASSUME Init PROVE CompactionInv
  OBVIOUS
<1>1. /\ events = << >> /\ processed = {} /\ history = << >> /\ objects = [o \in Objs |-> NoObject]
      /\ making = NotMaking /\ snapshot = NoSnapshot /\ compactor = [c \in Compactors |-> Idle]
  BY LogNames DEF Init, Log!Init
<1>2. LogOK
  <2>1. objects \in [Objs -> Objects]
    BY <1>1, NoObjectType
  <2>2. \A o \in Objs : DOMAIN objects[o] = {}
    BY <1>1 DEF NoObject
  <2> QED
    BY <1>1, <2>1, <2>2, CompactionAssumption DEF LogOK, LogTypes
<1>3. FlagsOK
  BY <1>1 DEF FlagsOK
<1>4. snapshot.createdAt = 0 /\ snapshot.seen = {} /\ DOMAIN snapshot.objects = {}
  BY <1>1 DEF NoSnapshot
<1>5. PlansOK
  BY <1>1, <1>4, IdleState, FS_EmptySet DEF PlansOK, PlanOK
<1>6. SnapOK
  BY <1>1, <1>4 DEF SnapOK, SnapTypes
<1>7. MakingOK
  BY <1>1 DEF MakingOK, NotMaking
<1> QED
  BY <1>2, <1>3, <1>5, <1>6, <1>7, InitKeeps DEF CompactionInv

\* An event is written.
LEMMA WriteKeepsPlans ==
  ASSUME CompactionInv, NEW n \in DOMAIN events \ processed,
         processed' = processed \cup {n}, UNCHANGED <<events, snapshot, compactor>>,
         NEW row, Writes(n, row)
  PROVE  PlansOK'
<1>1. /\ Len(history) \in Nat /\ DOMAIN history = 1..Len(history)
      /\ processed \subseteq DOMAIN events
  BY LogFacts DEF CompactionInv
<1>2. /\ DOMAIN history \subseteq DOMAIN history'
      /\ \A i \in DOMAIN history : Alike(history'[i], history[i])
  BY <1>1 DEF Writes, Grows
<1>3. ASSUME NEW c \in Compactors, NEW p \in compactor[c].plan
      PROVE  PartOK(p)'
  <2>1. PartOK(p)
    BY <1>3 DEF CompactionInv, PlansOK, PlanOK
  <2>2. Numbered(p.new)'
    BY <1>1, <2>1, StaysNumbered DEF PartOK
  <2>3. ASSUME NEW i \in DOMAIN p.old
        PROVE  /\ i \in DOMAIN history'
               /\ \/ history'[i] = Gone
                  \/ history'[i].ts.time <= snapshot.createdAt /\ history'[i].kind # "UNDO"
    BY <1>2, <2>1, <2>3 DEF PartOK, Alike
  <2> QED
    BY <2>1, <2>2, <2>3 DEF PartOK
<1> QED
  BY <1>3 DEF CompactionInv, PlansOK, PlanOK

LEMMA WriteKeepsSnapshot ==
  ASSUME CompactionInv, NEW n \in DOMAIN events \ processed, Log!Oldest(n),
         processed' = processed \cup {n}, UNCHANGED <<events, snapshot>>,
         NEW row, Writes(n, row)
  PROVE  SnapOK'
<1> DEFINE m == Len(history) + 1
           t == snapshot.createdAt
<1>1. Len(history) \in Nat /\ DOMAIN history = 1..Len(history)
  BY LogFacts DEF CompactionInv
<1>2. /\ n \in Nat /\ \A p \in processed : p < n
      /\ \A i \in DOMAIN history : history[i].ts.time \in Nat /\ history[i].ts.time < n
      /\ \A o \in Objs : \A k \in DOMAIN objects[o] :
           objects[o][k].ts.time \in Nat /\ objects[o][k].ts.time < n
  BY EventIsNewest DEF CompactionInv
<1>3. /\ row \in Rows /\ row.ts.time = n /\ row.obj \in Objs
      /\ objects' = [objects EXCEPT ![row.obj] = MergeCRDT(objects[row.obj], row.after, row.ts)]
      /\ objects \in [Objs -> Objects]
  BY StampAndPatchTypes DEF Writes, Rows, CompactionInv, LogOK, LogTypes
<1>4. /\ DOMAIN history' = 1..m /\ history'[m] = row
      /\ \A i \in DOMAIN history :
           /\ history'[i].ts = history[i].ts /\ history'[i].obj = history[i].obj
           /\ history'[i].after = history[i].after
  BY <1>1 DEF Writes, Grows, Alike
<1>5. SnapTypes(snapshot) /\ t \in Nat
  BY DEF CompactionInv, SnapOK, SnapTypes
<1>6. SnapTypes(snapshot)'
  BY <1>5 DEF SnapTypes
<1>7. ASSUME NEW i \in DOMAIN history', NEW j \in DOMAIN history',
             history'[i].ts.time > t, history'[i].ts.time = history'[j].ts.time
      PROVE  i = j
  <2>1. CASE i \in DOMAIN history /\ j \in DOMAIN history
    BY <1>4, <1>7, <2>1 DEF CompactionInv, SnapOK
  <2>2. (i = m \/ i \in DOMAIN history) /\ (j = m \/ j \in DOMAIN history)
    BY <1>1, <1>4
  <2>3. \A l \in DOMAIN history : history'[l].ts.time # n
    BY <1>2, <1>4
  <2> QED
    BY <1>3, <1>4, <1>7, <2>1, <2>2, <2>3
<1>8. ASSUME Complete(snapshot), NEW o \in DOMAIN snapshot.objects
      PROVE  /\ \A k \in DOMAIN snapshot.objects[o] : snapshot.objects[o][k].ts.time <= t
             /\ Reads(snapshot.objects[o], history', After(history', o, t),
                      MaterializeCRDT(objects'[o]))
  <2>1. n > t
    <3>1. n \in 1..t => n \in processed
      BY <1>5, <1>8 DEF Complete, SnapTypes
    <3>2. n \in DOMAIN events /\ n >= 1
      BY LogFacts DEF CompactionInv
    <3> QED
      BY <1>2, <1>5, <3>1, <3>2
  <2> DEFINE S == After(history, o, t)
  <2>2. /\ \A k \in DOMAIN snapshot.objects[o] : snapshot.objects[o][k].ts.time <= t
        /\ Reads(snapshot.objects[o], history, S, MaterializeCRDT(objects[o]))
        /\ o \in Objs
    BY <1>8 DEF CompactionInv, SnapOK, SnapTypes
  <2>3. S \subseteq DOMAIN history /\ m \notin S
    BY <1>1 DEF After
  <2>4. After(history', o, t) = IF o = row.obj THEN S \cup {m} ELSE S
    BY <1>1, <1>3, <1>4, <2>1 DEF After
  <2> HIDE DEF S, m
  <2>5. CASE o # row.obj
    <3>1. objects'[o] = objects[o]
      BY <1>3, <2>2, <2>5
    <3>2. \A i \in S : history'[i].after = history[i].after /\ history'[i].ts = history[i].ts
      BY <1>4, <2>3
    <3>3. Reads(snapshot.objects[o], history', S, MaterializeCRDT(objects[o]))
      BY <2>2, <3>2, SameReads
    <3> QED
      BY <2>2, <2>4, <2>5, <3>1, <3>3
  <2>6. CASE o = row.obj
    <3>1. objects'[o] = MergeCRDT(objects[o], history'[m].after, history'[m].ts)
      BY <1>3, <1>4, <2>2, <2>6
    <3>2. \A i \in S : history'[i].after = history[i].after /\ history'[i].ts = history[i].ts
      BY <1>4, <2>3
    <3>3. /\ history'[m].ts.time \in Nat
          /\ \A i \in S : history[i].ts.time \in Nat /\ history[i].ts.time < history'[m].ts.time
          /\ \A k \in DOMAIN objects[o] :
               objects[o][k].ts.time \in Nat /\ objects[o][k].ts.time < history'[m].ts.time
      BY <1>2, <1>3, <1>4, <2>2, <2>3
    <3>4. PICK obj : obj = objects[o]
      OBVIOUS
    <3>5. Reads(snapshot.objects[o], history', S \cup {m},
                MaterializeCRDT(MergeCRDT(obj, history'[m].after, history'[m].ts)))
      BY <2>2, <2>3, <3>2, <3>3, <3>4, EventReads
    <3> QED
      BY <2>2, <2>4, <2>6, <3>1, <3>4, <3>5
  <2> QED
    BY <2>5, <2>6
<1> QED
  BY <1>6, <1>7, <1>8 DEF SnapOK, Complete

\* An event is published, or taken without a row.
LEMMA NothingKeepsPlans ==
  ASSUME CompactionInv, UNCHANGED <<objects, history, snapshot, compactor>>,
         Len(events) <= Len(events'), Len(events') \in Nat, processed \subseteq processed',
         \A n \in DOMAIN events : events'[n] = events[n]
  PROVE  PlansOK' /\ SnapOK'
<1>1. processed \subseteq DOMAIN events /\ Len(events) \in Nat
  BY LogFacts DEF CompactionInv
<1>2. ASSUME NEW c \in Compactors, NEW p \in compactor[c].plan
      PROVE  PartOK(p)'
  <2>1. PartOK(p)
    BY <1>2 DEF CompactionInv, PlansOK, PlanOK
  <2>2. Numbered(p.new)'
    BY <1>1, <2>1, StaysNumbered DEF PartOK
  <2> QED
    BY <2>1, <2>2 DEF PartOK
<1>3. PlansOK'
  BY <1>2 DEF CompactionInv, PlansOK, PlanOK
<1>4. SnapTypes(snapshot)'
  BY <1>1 DEF CompactionInv, SnapOK, SnapTypes
<1>5. SnapOK'
  BY <1>4 DEF CompactionInv, SnapOK, Complete
<1> QED
  BY <1>3, <1>5

LEMMA HandleKeepsCompaction ==
  ASSUME CompactionInv, NEW n \in DOMAIN events, Handle(n)
  PROVE  CompactionInv'
<1>1. /\ Log!Oldest(n) /\ Log!Handle(n) /\ UNCHANGED <<snapshot, lock, compactor, expired>>
      /\ Trigger(n) \/ UNCHANGED making
  BY DEF Handle
<1>2. /\ n \notin processed /\ processed' = processed \cup {n} /\ UNCHANGED events
      /\ UNCHANGED <<objects, history>> \/ \E row : Writes(n, row)
  BY <1>1, HandleWrites DEF CompactionInv
<1>3. IInv'
  BY <1>1 DEF CompactionInv, IInv, HoldsLock, Works
<1>4. MakingOK'
  <2>1. CASE Trigger(n)
    BY <2>1 DEF Trigger, NotMaking, MakingOK
  <2>2. CASE UNCHANGED making
    BY <1>2, <2>2 DEF CompactionInv, MakingOK
  <2> QED
    BY <1>1, <2>1, <2>2
<1>5. ASSUME NEW row, Writes(n, row) PROVE LogOK' /\ FlagsOK' /\ PlansOK' /\ SnapOK'
  BY <1>1, <1>2, <1>5, WriteKeepsLog, WriteKeepsPlans, WriteKeepsSnapshot DEF CompactionInv
<1>6. ASSUME UNCHANGED <<objects, history>> PROVE LogOK' /\ FlagsOK' /\ PlansOK' /\ SnapOK'
  <2>1. LogTypes'
    BY <1>2, <1>6 DEF CompactionInv, LogOK, LogTypes
  <2>2. \A p \in processed', x \in DOMAIN events' \ processed' : p < x
    <3> SUFFICES ASSUME NEW p \in processed', NEW x \in DOMAIN events' \ processed' PROVE p < x
      OBVIOUS
    <3>1. x \in DOMAIN events \ processed /\ x # n
      BY <1>2
    <3>2. n <= x /\ n \in Nat /\ x \in Nat
      BY <1>1, <3>1, LogFacts DEF CompactionInv, Log!Oldest
    <3> QED
      BY <1>2, <3>1, <3>2 DEF CompactionInv, LogOK
  <2>3. LogOK'
    BY <1>2, <1>6, <2>1, <2>2 DEF CompactionInv, LogOK, Numbered, Log!Stamp
  <2>4. FlagsOK'
    BY <1>6 DEF CompactionInv, FlagsOK
  <2>5. Len(events) \in Nat
    BY LogFacts DEF CompactionInv
  <2> QED
    BY <1>1, <1>2, <1>6, <2>3, <2>4, <2>5, NothingKeepsPlans
<1> QED
  BY <1>2, <1>3, <1>4, <1>5, <1>6 DEF CompactionInv

\* A compactor gets to stage x, and all else is as it was.
LEMMA PlansStayOK ==
  ASSUME CompactionInv, UNCHANGED <<events, processed, objects, history, making, snapshot>>,
         NEW c \in Compactors, NEW x, PlanOK(x), compactor' = [compactor EXCEPT ![c] = x], IInv'
  PROVE  CompactionInv'
<1>1. LogOK' /\ FlagsOK' /\ SnapOK' /\ MakingOK'
  BY DEF CompactionInv, LogOK, LogTypes, Numbered, Log!Stamp, FlagsOK, SnapOK, SnapTypes,
         Complete, MakingOK
<1>2. ASSUME NEW d \in Compactors PROVE PlanOK(compactor[d])'
  <2>1. PlanOK(compactor'[d])
    BY DEF CompactionInv, IInv, PlansOK
  <2>2. PICK y : y = compactor'[d]
    OBVIOUS
  <2>3. PlanOK(y)'
    BY <2>1, <2>2 DEF PlanOK, PartOK, Numbered, Log!Stamp
  <2> QED
    BY <2>2, <2>3 DEF PlanOK, PartOK, Numbered, Log!Stamp
<1> QED
  BY <1>1, <1>2 DEF CompactionInv, PlansOK

LEMMA ReadLogKeepsCompaction ==
  ASSUME CompactionInv, NEW c \in Compactors, ReadLog(c), IInv'
  PROVE  CompactionInv'
<1> DEFINE t == compactor[c].cutoff
           S == Below(history, t)
           plan == IF Cardinality(S) < MinEvents THEN {} ELSE Plan(history, S)
<1>1. PICK x : x = [Idle EXCEPT !.stage = IF plan = {} THEN "done" ELSE "read", !.plan = plan]
  OBVIOUS
<1>2. /\ compactor' = [compactor EXCEPT ![c] = x]
      /\ UNCHANGED <<events, processed, objects, history, making, snapshot>>
  BY <1>1 DEF ReadLog, Below, store
<1>3. PlanOK(compactor[c]) /\ SnapTypes(snapshot) /\ LogOK
  BY DEF CompactionInv, PlansOK, SnapOK
<1>4. t \in Nat /\ t <= snapshot.createdAt /\ snapshot.createdAt \in Nat
  BY <1>3 DEF PlanOK, SnapTypes
<1>5. ASSUME NEW p \in Plan(history, S) PROVE PartOK(p)
  <2>1. PICK a \in S, seg \in SUBSET S :
          /\ seg = Segment(history, S, a)
          /\ p = [old |-> [i \in seg |-> history[i]], new |-> Collapsed(history, Squashed(history, seg))]
          /\ Squashed(history, seg) # {} /\ Squashed(history, seg) \subseteq seg
    BY <1>3, PlanPart
  <2> DEFINE T == Squashed(history, seg)
  <2>2. Sortable(history, S) /\ \A i \in S : i \in DOMAIN history /\ history[i] \in Rows
    BY <1>3, BelowSortable
  <2>3. \A i \in S : history[i] # Gone /\ history[i].ts.time <= t
    BY DEF Below
  <2>4. T \in SUBSET S /\ T # {} /\ Sortable(history, T)
    BY <2>1, <2>2, SortablePart
  <2>5. p.old = [i \in seg |-> history[i]] /\ p.new = Collapsed(history, T) /\ DOMAIN p.old = seg
    BY <2>1
  <2> HIDE DEF T, S
  <2>6. LastOf(history, T) \in T
    BY <2>4, LastExists
  <2>7. /\ p.new \in Rows /\ p.new.ts = history[LastOf(history, T)].ts
        /\ ~p.new.undone /\ ~p.new.invalidated
    BY <2>2, <2>4, <2>5, CollapsedRow
  <2>8. PICK l \in S : p.new.ts = history[l].ts
    BY <2>4, <2>6, <2>7
  <2>9. Numbered(p.new)
    BY <1>3, <2>2, <2>3, <2>8 DEF LogOK, Numbered
  <2>10. p.new.ts.time <= snapshot.createdAt
    BY <1>3, <1>4, <2>2, <2>3, <2>8, LogFacts
  <2>11. ASSUME NEW i \in seg
         PROVE  i \in DOMAIN history /\ history[i].ts.time <= snapshot.createdAt
                /\ history[i].kind # "UNDO"
    <3>1. i \in S /\ history[i].ts.time <= t /\ i \in DOMAIN history
      BY <2>2, <2>3
    <3>2. ~Boundary(history[i])
      BY <2>1, <2>11 DEF Segment
    <3>3. history[i].ts.time \in Nat
      BY <1>3, <3>1, LogFacts
    <3> QED
      BY <1>4, <3>1, <3>2, <3>3 DEF Boundary
  <2> QED
    BY <2>5, <2>7, <2>9, <2>10, <2>11 DEF PartOK
<1>6. IsFiniteSet(Plan(history, S))
  BY <1>3, BelowSortable, PlanIsFinite
<1>7. plan = {} \/ plan = Plan(history, S)
  OBVIOUS
<1> HIDE DEF plan, S
<1>8. x.cutoff = 0 /\ x.plan = plan /\ (plan # {} => x.stage = "read")
  BY <1>1 DEF Idle
<1>9. PlanOK(x)
  BY <1>4, <1>5, <1>6, <1>7, <1>8, FS_EmptySet DEF PlanOK
<1> QED
  BY <1>2, <1>9, PlansStayOK

\* The transaction of a compaction, as far as the parts of its plan go.
LEMMA RewriteEffect ==
  ASSUME CompactionInv, NEW c \in Compactors, Rewrite(c)
  PROVE  /\ history' = Rewritten(history, compactor[c].plan)
         /\ history' \in Seq(Rows \cup {Gone}) /\ DOMAIN history \subseteq DOMAIN history'
         /\ \A i \in DOMAIN history :
              history'[i] = IF i \in Ids(compactor[c].plan) THEN Gone ELSE history[i]
         /\ \A i \in DOMAIN history' \ DOMAIN history :
              \E p \in compactor[c].plan : history'[i] = p.new
         /\ \A p \in compactor[c].plan :
              \E i \in DOMAIN history' \ DOMAIN history : history'[i] = p.new
         /\ \A i, j \in DOMAIN history' \ DOMAIN history : history'[i] = history'[j] => i = j
         /\ \A p \in compactor[c].plan : PartOK(p)
         /\ \A i \in Ids(compactor[c].plan) :
              history[i] = Gone \/ (/\ history[i].ts.time <= snapshot.createdAt
                                    /\ history[i].kind # "UNDO")
<1>1. PICK plan : plan = compactor[c].plan
  OBVIOUS
<1>2. history' = Rewritten(history, plan)
  BY <1>1 DEF Rewrite, Rewritten, Ids
<1>3. IsFiniteSet(plan) /\ \A p \in plan : PartOK(p)
  BY <1>1 DEF CompactionInv, PlansOK, PlanOK
<1>4. history \in Seq(Rows \cup {Gone}) /\ \A p \in plan : p.new \in Rows
  BY <1>3 DEF CompactionInv, LogOK, LogTypes, PartOK
<1>5. /\ history' \in Seq(Rows \cup {Gone}) /\ DOMAIN history \subseteq DOMAIN history'
      /\ \A i \in DOMAIN history : history'[i] = IF i \in Ids(plan) THEN Gone ELSE history[i]
      /\ \A i \in DOMAIN history' \ DOMAIN history : \E p \in plan : history'[i] = p.new
      /\ \A p \in plan : \E i \in DOMAIN history' \ DOMAIN history : history'[i] = p.new
      /\ \A i, j \in DOMAIN history' \ DOMAIN history : history'[i] = history'[j] => i = j
  <2>1. PICK g, h : g = history' /\ h = history
    OBVIOUS
  <2>2. /\ h \in Seq(Rows \cup {Gone}) /\ IsFiniteSet(plan) /\ \A p \in plan : p.new \in Rows
        /\ g = Rewritten(h, plan)
    BY <1>2, <1>3, <1>4, <2>1
  <2>3. g \in Seq(Rows \cup {Gone}) /\ DOMAIN h \subseteq DOMAIN g
    BY ONLY <2>2, RewrittenRows
  <2>4. \A i \in DOMAIN h : g[i] = IF i \in Ids(plan) THEN Gone ELSE h[i]
    BY ONLY <2>2, RewrittenRows
  <2>5. \A i \in DOMAIN g \ DOMAIN h : g[i] \in {p.new : p \in plan}
    BY ONLY <2>2, RewrittenRows
  <2>6. \A p \in plan : \E i \in DOMAIN g \ DOMAIN h : g[i] = p.new
    BY ONLY <2>2, RewrittenRows
  <2>7. \A i, j \in DOMAIN g \ DOMAIN h : g[i] = g[j] => i = j
    BY ONLY <2>2, RewrittenRows
  <2> QED
    BY <2>1, <2>3, <2>4, <2>5, <2>6, <2>7
<1>6. \A i \in Ids(plan) :
        history[i] = Gone \/ (/\ history[i].ts.time <= snapshot.createdAt
                              /\ history[i].kind # "UNDO")
  BY <1>3 DEF Ids, PartOK
<1> QED
  BY <1>1, <1>2, <1>3, <1>5, <1>6

LEMMA RewriteKeepsCompaction ==
  ASSUME CompactionInv, NEW c \in Compactors, Rewrite(c), IInv'
  PROVE  CompactionInv'
<1> DEFINE t == snapshot.createdAt
<1>1. PICK plan : plan = compactor[c].plan
  OBVIOUS
<1>2. PICK x : x = [Idle EXCEPT !.stage = "done"]
  OBVIOUS
<1>3. /\ compactor' = [compactor EXCEPT ![c] = x]
      /\ UNCHANGED <<events, processed, objects, making, snapshot>>
  BY <1>2 DEF Rewrite
<1>4. /\ history' \in Seq(Rows \cup {Gone}) /\ DOMAIN history \subseteq DOMAIN history'
      /\ \A i \in DOMAIN history : history'[i] = IF i \in Ids(plan) THEN Gone ELSE history[i]
      /\ \A i \in DOMAIN history' \ DOMAIN history : \E p \in plan : history'[i] = p.new
      /\ \A p \in plan : PartOK(p)
      /\ \A i \in Ids(plan) :
           history[i] = Gone \/ (/\ history[i].ts.time <= t /\ history[i].kind # "UNDO")
  BY <1>1, RewriteEffect
<1>5. \A i \in DOMAIN history' \ DOMAIN history :
        /\ history'[i] \in Rows /\ Numbered(history'[i]) /\ history'[i].ts.time <= t
        /\ ~history'[i].undone /\ ~history'[i].invalidated
  BY <1>4 DEF PartOK
<1>6. LogOK'
  <2>1. LogTypes'
    BY <1>3, <1>4 DEF CompactionInv, LogOK, LogTypes
  <2>2. ASSUME NEW i \in DOMAIN history', history'[i] # Gone PROVE Numbered(history[i])'
    <3>1. Numbered(history'[i])
      BY <1>4, <1>5, <2>2 DEF CompactionInv, LogOK
    <3> QED
      BY <1>3, <3>1 DEF Numbered, Log!Stamp
  <2> QED
    BY <1>3, <2>1, <2>2 DEF CompactionInv, LogOK
<1>7. FlagsOK'
  <2> SUFFICES ASSUME NEW i \in DOMAIN history'
               PROVE  /\ history'[i].invalidated => history'[i].undone
                      /\ history'[i].undone => \E j \in DOMAIN history' :
                           history'[j].kind = "UNDO" /\ history'[j].obj = history'[i].obj
    BY DEF FlagsOK
  <2>1. CASE i \notin DOMAIN history
    BY <1>5, <2>1
  <2>2. CASE i \in DOMAIN history /\ i \in Ids(plan)
    BY <1>4, <2>2, GoneIsNoRow
  <2>3. CASE i \in DOMAIN history /\ i \notin Ids(plan)
    <3>1. history'[i] = history[i]
      BY <1>4, <2>3
    <3>2. history[i].invalidated => history[i].undone
      BY <2>3 DEF CompactionInv, FlagsOK
    <3>3. ASSUME history[i].undone
          PROVE  \E j \in DOMAIN history' : history'[j].kind = "UNDO" /\ history'[j].obj = history[i].obj
      <4>1. PICK j \in DOMAIN history : history[j].kind = "UNDO" /\ history[j].obj = history[i].obj
        BY <2>3, <3>3 DEF CompactionInv, FlagsOK
      <4>2. j \notin Ids(plan)
        BY <1>4, <4>1, GoneIsNoRow
      <4> QED
        BY <1>4, <4>1, <4>2
    <3> QED
      BY <3>1, <3>2, <3>3
  <2> QED
    BY <2>1, <2>2, <2>3
<1>8. SnapTypes(snapshot) /\ t \in Nat
  BY DEF CompactionInv, SnapOK, SnapTypes
<1>9. PlansOK'
  <2>1. ASSUME NEW d \in Compactors, d # c, NEW p \in compactor[d].plan PROVE PartOK(p)'
    <3>1. PartOK(p)
      BY <2>1 DEF CompactionInv, PlansOK, PlanOK
    <3>2. Numbered(p.new)'
      BY <1>3, <3>1 DEF PartOK, Numbered, Log!Stamp
    <3>3. ASSUME NEW i \in DOMAIN p.old
          PROVE  /\ i \in DOMAIN history'
                 /\ history'[i] = Gone \/ (/\ history'[i].ts.time <= t
                                           /\ history'[i].kind # "UNDO")
      BY <1>4, <3>1, <3>3 DEF PartOK
    <3> QED
      BY <1>3, <3>1, <3>2, <3>3 DEF PartOK
  <2>2. ASSUME NEW d \in Compactors, d # c PROVE PlanOK(compactor[d])'
    <3>1. compactor'[d] = compactor[d] /\ PlanOK(compactor[d])
      BY <1>3, <2>2 DEF CompactionInv, PlansOK, IInv
    <3> QED
      BY <1>3, <2>1, <2>2, <3>1 DEF PlanOK
  <2>3. PlanOK(compactor[c])'
    <3>1. compactor'[c] = x
      BY <1>3 DEF CompactionInv, IInv
    <3>2. x.cutoff = 0 /\ x.plan = {}
      BY <1>2 DEF Idle
    <3> QED
      BY <1>3, <1>8, <3>1, <3>2, FS_EmptySet DEF PlanOK
  <2> QED
    BY <2>2, <2>3 DEF PlansOK
<1>10. \A i \in DOMAIN history' : history'[i].ts.time > t =>
         i \in DOMAIN history /\ i \notin Ids(plan) /\ history'[i] = history[i]
  <2> SUFFICES ASSUME NEW i \in DOMAIN history', history'[i].ts.time > t
               PROVE  i \in DOMAIN history /\ i \notin Ids(plan)
    BY <1>4
  <2>1. i \in DOMAIN history
    <3>1. ASSUME i \notin DOMAIN history PROVE FALSE
      <4>1. history'[i].ts.time <= t /\ history'[i].ts.time \in Nat
        BY <1>5, <3>1, LogFacts DEF Numbered, CompactionInv
      <4> QED
        BY <1>8, <4>1
    <3> QED
      BY <3>1
  <2>2. history'[i] # Gone
    BY <1>8, GoneIsNoRow
  <2> QED
    BY <1>4, <2>1, <2>2
<1>11. SnapOK'
  <2>1. SnapTypes(snapshot)'
    BY <1>3, <1>8 DEF SnapTypes
  <2>2. ASSUME NEW i \in DOMAIN history', NEW j \in DOMAIN history',
               history'[i].ts.time > t, history'[i].ts.time = history'[j].ts.time
        PROVE  i = j
    <3>1. /\ i \in DOMAIN history /\ history'[i] = history[i]
          /\ j \in DOMAIN history /\ history'[j] = history[j]
      BY <1>10, <2>2
    <3> QED
      BY <2>2, <3>1 DEF CompactionInv, SnapOK
  <2>3. ASSUME Complete(snapshot), NEW o \in DOMAIN snapshot.objects
        PROVE  /\ \A k \in DOMAIN snapshot.objects[o] : snapshot.objects[o][k].ts.time <= t
               /\ Reads(snapshot.objects[o], history', After(history', o, t),
                        MaterializeCRDT(objects[o]))
    <3> DEFINE S == After(history, o, t)
    <3>1. o \in Objs
      BY <1>8 DEF SnapTypes
    <3>2. After(history', o, t) = S
      <4>1. ASSUME NEW i \in S PROVE i \in After(history', o, t)
        <5>1. i \in DOMAIN history /\ history[i].obj = o /\ history[i].ts.time > t
          BY DEF After
        <5>2. history[i] # Gone /\ history[i].ts.time \in Nat
          BY <3>1, <5>1, LogFacts DEF CompactionInv
        <5>3. i \notin Ids(plan)
          BY <1>4, <1>8, <5>1, <5>2
        <5> QED
          BY <1>4, <5>1, <5>3 DEF After
      <4>2. ASSUME NEW i \in After(history', o, t) PROVE i \in S
        BY <1>10 DEF After
      <4> QED
        BY <4>1, <4>2
    <3>3. \A i \in S : history'[i].after = history[i].after /\ history'[i].ts = history[i].ts
      BY <1>10, <3>2 DEF After
    <3>4. /\ \A k \in DOMAIN snapshot.objects[o] : snapshot.objects[o][k].ts.time <= t
          /\ Reads(snapshot.objects[o], history, S, MaterializeCRDT(objects[o]))
      BY <2>3 DEF CompactionInv, SnapOK
    <3>5. Reads(snapshot.objects[o], history', S, MaterializeCRDT(objects[o]))
      <4> HIDE DEF S
      <4> QED
        BY <3>3, <3>4, SameReads
    <3> QED
      BY <3>2, <3>4, <3>5
  <2> QED
    BY <1>3, <2>1, <2>2, <2>3 DEF SnapOK, Complete
<1>12. MakingOK'
  BY <1>3 DEF CompactionInv, MakingOK
<1> QED
  BY <1>6, <1>7, <1>9, <1>11, <1>12 DEF CompactionInv

\* What is read of no rows is the object itself.
LEMMA ReadsNothing ==
  ASSUME NEW h, NEW obj
  PROVE  Reads(obj, h, {}, MaterializeCRDT(obj))
<1>1. \A k : Setters(h, {}, k) = {}
  BY DEF Setters
<1> QED
  BY <1>1 DEF Reads, IsMap, MaterializeCRDT

LEMMA CreateSnapshotKeepsCompaction ==
  ASSUME CompactionInv, CreateSnapshot
  PROVE  CompactionInv'
<1>1. /\ making.stage = "read" /\ making' = NotMaking
      /\ snapshot' = [version |-> making.version, createdAt |-> Len(events),
                      objects |-> making.objects, seen |-> making.seen]
      /\ UNCHANGED <<events, processed, objects, history, version, lock, compactor, expired>>
  BY DEF CreateSnapshot, store
<1>2. /\ snapshot'.createdAt = Len(events) /\ snapshot'.objects = making.objects
      /\ snapshot'.seen = making.seen
  BY <1>1
<1>3. /\ making.seen \subseteq processed
      /\ \A o \in DOMAIN making.objects : o \in Objs /\ making.objects[o] \in Objects
      /\ making.seen = processed =>
           \A o \in DOMAIN making.objects : making.objects[o] = objects[o]
  BY <1>1 DEF CompactionInv, MakingOK
<1>4. /\ Len(events) \in Nat /\ DOMAIN events = 1..Len(events) /\ processed \subseteq DOMAIN events
      /\ \A i \in DOMAIN history : history[i].ts.time \in 0..Len(events)
  BY LogFacts DEF CompactionInv
<1>5. LogOK' /\ FlagsOK' /\ IInv'
  BY <1>1 DEF CompactionInv, LogOK, LogTypes, Numbered, Log!Stamp, FlagsOK, IInv, HoldsLock, Works
<1>6. SnapTypes(snapshot)'
  BY <1>1, <1>2, <1>3, <1>4 DEF SnapTypes
<1>7. ASSUME Complete(snapshot)', NEW o \in DOMAIN making.objects
      PROVE  /\ \A k \in DOMAIN making.objects[o] : making.objects[o][k].ts.time <= Len(events)
             /\ Reads(making.objects[o], history, After(history, o, Len(events)),
                      MaterializeCRDT(objects[o]))
  <2>1. making.seen = processed
    BY <1>2, <1>3, <1>4, <1>7 DEF Complete
  <2>2. making.objects[o] = objects[o] /\ o \in Objs
    BY <1>3, <2>1
  <2>3. After(history, o, Len(events)) = {}
    BY <1>4 DEF After
  <2>4. \A k \in DOMAIN objects[o] : objects[o][k].ts.time <= Len(events)
    BY <1>4, <2>2 DEF CompactionInv, LogOK
  <2> QED
    BY <2>2, <2>3, <2>4, ReadsNothing
<1>8. \A i \in DOMAIN history : \A j \in DOMAIN history :
        history[i].ts.time > Len(events) /\ history[i].ts.time = history[j].ts.time => i = j
  BY <1>4
<1>9. SnapOK'
  BY <1>1, <1>2, <1>6, <1>7, <1>8 DEF SnapOK
<1>10. PlansOK'
  <2>1. snapshot.createdAt \in Nat /\ snapshot.createdAt <= Len(events)
    BY DEF CompactionInv, SnapOK, SnapTypes
  <2>2. ASSUME NEW c \in Compactors, NEW p \in compactor[c].plan PROVE PartOK(p)'
    <3>1. PartOK(p)
      BY <2>2 DEF CompactionInv, PlansOK, PlanOK
    <3>2. Numbered(p.new)' /\ p.new.ts.time \in Nat
      BY <1>1, <1>4, <3>1 DEF PartOK, Numbered, Log!Stamp
    <3>3. ASSUME NEW i \in DOMAIN p.old
          PROVE  history[i] = Gone \/ (/\ history[i].ts.time <= Len(events)
                                       /\ history[i].kind # "UNDO")
      BY <1>4, <3>1, <3>3 DEF PartOK
    <3> QED
      BY <1>1, <1>2, <1>4, <2>1, <3>1, <3>2, <3>3 DEF PartOK
  <2> QED
    BY <1>1, <1>2, <1>4, <2>1, <2>2 DEF CompactionInv, PlansOK, PlanOK
<1>11. MakingOK'
  BY <1>1 DEF MakingOK, NotMaking
<1> QED
  BY <1>5, <1>9, <1>10, <1>11 DEF CompactionInv

\* The log, the objects and the snapshot are as they were.
LEMMA RestKeepsCompaction ==
  ASSUME CompactionInv, UNCHANGED <<events, processed, objects, history, snapshot>>,
         IInv', MakingOK', \A c \in Compactors : compactor'[c] = compactor[c] \/ compactor'[c] = Idle
  PROVE  CompactionInv'
<1>1. LogOK' /\ FlagsOK' /\ SnapOK'
  BY DEF CompactionInv, LogOK, LogTypes, Numbered, Log!Stamp, FlagsOK, SnapOK, SnapTypes, Complete
<1>2. snapshot.createdAt \in Nat
  BY DEF CompactionInv, SnapOK, SnapTypes
<1>3. ASSUME NEW c \in Compactors PROVE PlanOK(compactor[c])'
  <2>1. CASE compactor'[c] = Idle
    <3>1. compactor'[c].cutoff = 0 /\ compactor'[c].plan = {}
      BY <2>1 DEF Idle
    <3> QED
      BY <1>2, <3>1, FS_EmptySet DEF PlanOK
  <2>2. CASE compactor'[c] = compactor[c]
    BY <2>2 DEF CompactionInv, PlansOK, PlanOK, PartOK, Numbered, Log!Stamp
  <2> QED
    BY <2>1, <2>2
<1> QED
  BY <1>1, <1>3 DEF CompactionInv, PlansOK

LEMMA CompactionStep == CompactionInv /\ [Next]_vars => CompactionInv'
<1> SUFFICES ASSUME CompactionInv, [Next]_vars PROVE CompactionInv'
  OBVIOUS
<1>1. IInv'
  BY StepKeeps DEF CompactionInv
<1>2. snapshot.createdAt \in Nat /\ compactor = [c \in Compactors |-> compactor[c]]
  BY DEF CompactionInv, SnapOK, SnapTypes, IInv
<1>3. CASE Publish
  <2>1. /\ Log!PublishSome
        /\ UNCHANGED <<version, making, snapshot, lock, compactor, expired>>
    BY <1>3 DEF Publish
  <2>2. /\ LogOK' /\ FlagsOK' /\ UNCHANGED <<processed, objects, history>>
        /\ Len(events') = Len(events) + 1
        /\ \A n \in DOMAIN events : events'[n] = events[n]
    BY <2>1, PublishKeepsLog DEF CompactionInv
  <2>3. Len(events) \in Nat
    BY LogFacts DEF CompactionInv
  <2>4. PlansOK' /\ SnapOK'
    BY <2>1, <2>2, <2>3, NothingKeepsPlans
  <2>5. MakingOK'
    BY <2>1, <2>2 DEF CompactionInv, MakingOK
  <2> QED
    BY <1>1, <2>2, <2>4, <2>5 DEF CompactionInv
<1>4. ASSUME NEW n \in DOMAIN events, Handle(n) PROVE CompactionInv'
  BY <1>4, HandleKeepsCompaction
<1>5. CASE ReadObjects
  <2> DEFINE O == {p \in Objs : version[p] <= making.version}
  <2>1. /\ making' = [making EXCEPT !.stage = "read", !.seen = processed,
                                    !.objects = [o \in O |-> objects[o]]]
        /\ UNCHANGED <<events, processed, objects, history, snapshot, lock, compactor, expired>>
    BY <1>5 DEF ReadObjects, store
  <2>2. /\ making' = [stage |-> "read", version |-> making.version,
                      objects |-> [o \in O |-> objects[o]], seen |-> processed]
        /\ objects \in [Objs -> Objects]
    BY <2>1 DEF CompactionInv, MakingOK, LogOK, LogTypes
  <2>3. PICK d : d = [o \in O |-> objects[o]]
    OBVIOUS
  <2>4. \A o \in DOMAIN d : o \in Objs /\ d[o] = objects[o] /\ d[o] \in Objects
    BY <2>2, <2>3
  <2>5. making' = [stage |-> "read", version |-> making.version, objects |-> d, seen |-> processed]
    BY <2>2, <2>3
  <2>6. /\ making'.stage = "read" /\ making'.version = making.version
        /\ making'.objects = d /\ making'.seen = processed
    BY <2>5
  <2>7. MakingOK'
    BY <2>1, <2>4, <2>5, <2>6 DEF MakingOK
  <2> QED
    BY <1>1, <2>1, <2>7, RestKeepsCompaction
<1>6. CASE CreateSnapshot
  BY <1>6, CreateSnapshotKeepsCompaction
<1>7. CASE SnapshotFails
  <2>1. making' = NotMaking /\ UNCHANGED <<events, processed, objects, history, snapshot, compactor>>
    BY <1>7 DEF SnapshotFails, store
  <2>2. MakingOK'
    BY <2>1 DEF MakingOK, NotMaking
  <2> QED
    BY <1>1, <2>1, <2>2, RestKeepsCompaction
<1>8. CASE LockExpires
  <2>1. UNCHANGED <<events, processed, objects, history, making, snapshot, compactor>>
    BY <1>8 DEF LockExpires, store
  <2>2. MakingOK'
    BY <2>1 DEF CompactionInv, MakingOK
  <2> QED
    BY <1>1, <2>1, <2>2, RestKeepsCompaction
<1>9. ASSUME NEW c \in Compactors, Begin(c) PROVE CompactionInv'
  <2>1. PICK x : x = [Idle EXCEPT !.stage = "begun", !.cutoff = snapshot.createdAt]
    OBVIOUS
  <2>2. /\ compactor' = [compactor EXCEPT ![c] = x]
        /\ UNCHANGED <<events, processed, objects, history, making, snapshot>>
    BY <1>9, <2>1 DEF Begin, store
  <2>3. PlanOK(x)
    <3>1. x.cutoff = snapshot.createdAt /\ x.plan = {}
      BY <2>1 DEF Idle
    <3> QED
      BY <1>2, <3>1, FS_EmptySet DEF PlanOK
  <2> QED
    BY <1>1, <2>2, <2>3, PlansStayOK
<1>10. ASSUME NEW c \in Compactors, ReadLog(c) PROVE CompactionInv'
  BY <1>1, <1>10, ReadLogKeepsCompaction
<1>11. ASSUME NEW c \in Compactors, Rewrite(c) PROVE CompactionInv'
  BY <1>1, <1>11, RewriteKeepsCompaction
<1>12. ASSUME NEW c \in Compactors, Throws(c) PROVE CompactionInv'
  <2>1. PICK x : x = [Idle EXCEPT !.stage = "done"]
    OBVIOUS
  <2>2. /\ compactor' = [compactor EXCEPT ![c] = x]
        /\ UNCHANGED <<events, processed, objects, history, making, snapshot>>
    BY <1>12, <2>1 DEF Throws, store
  <2>3. PlanOK(x)
    <3>1. x.cutoff = 0 /\ x.plan = {}
      BY <2>1 DEF Idle
    <3> QED
      BY <1>2, <3>1, FS_EmptySet DEF PlanOK
  <2> QED
    BY <1>1, <2>2, <2>3, PlansStayOK
<1>13. ASSUME NEW c \in Compactors, Release(c) \/ Dies(c) PROVE CompactionInv'
  <2>1. /\ compactor' = [compactor EXCEPT ![c] = Idle]
        /\ UNCHANGED <<events, processed, objects, history, making, snapshot>>
    BY <1>13 DEF Release, Dies, store
  <2>2. \A d \in Compactors : compactor'[d] = compactor[d] \/ compactor'[d] = Idle
    BY <1>2, <2>1
  <2>3. MakingOK'
    BY <2>1 DEF CompactionInv, MakingOK
  <2> QED
    BY <1>1, <2>1, <2>2, <2>3, RestKeepsCompaction
<1>14. CASE UNCHANGED vars
  <2>1. UNCHANGED <<events, processed, objects, history, making, snapshot, compactor>>
    BY <1>14 DEF vars, store
  <2>2. MakingOK'
    BY <2>1 DEF CompactionInv, MakingOK
  <2> QED
    BY <1>1, <2>1, <2>2, RestKeepsCompaction
<1> QED
  BY <1>3, <1>4, <1>5, <1>6, <1>7, <1>8, <1>9, <1>10, <1>11, <1>12, <1>13, <1>14 DEF Next

LEMMA CompactionInvariant == Spec => []CompactionInv
  BY CompactionInit, CompactionStep, PTL DEF Spec

\* What is shown depends on the values only.
LEMMA ShownOfSame ==
  ASSUME NEW a, NEW b, MaterializeCRDT(a) = MaterializeCRDT(b)
  PROVE  Shown(a) = Shown(b)
<1>1. DOMAIN a = DOMAIN b
  <2>1. DOMAIN MaterializeCRDT(a) = DOMAIN a /\ DOMAIN MaterializeCRDT(b) = DOMAIN b
    BY DEF MaterializeCRDT
  <2> QED
    BY <2>1
<1> QED
  BY <1>1 DEF Shown

LEMMA StampedObject ==
  ASSUME NEW obj \in Objects
  PROVE  Stamped(obj)
<1>1. PICK K \in SUBSET Keys : obj \in [K -> Cells]
  BY DEF Objects
<1> QED
  BY <1>1 DEF Stamped, Cells

\* A load from the latest snapshot shows what is drawn, whatever compactions by any number
\* of compactors did to the log, whether their locks outlived them or not, if the snapshot
\* read all that was stamped before it was dated.
THEOREM LoadAlwaysShowsDrawn == Spec => []LoadShowsDrawn
<1>1. CompactionInv => LoadShowsDrawn
  <2> SUFFICES ASSUME CompactionInv, 1..snapshot.createdAt \subseteq snapshot.seen,
                      NEW o \in DOMAIN snapshot.objects, OnlyDrawn(o)
               PROVE  Shown(LoadedFrom(snapshot, o)) = Shown(objects[o])
    BY DEF LoadShowsDrawn
  <2> DEFINE t == snapshot.createdAt
             base == snapshot.objects[o]
             S == After(history, o, t)
  <2>1. /\ \A k \in DOMAIN base : base[k].ts.time <= t
        /\ Reads(base, history, S, MaterializeCRDT(objects[o]))
        /\ o \in Objs /\ base \in Objects /\ t \in Nat
    BY DEF CompactionInv, SnapOK, SnapTypes, Complete
  <2>2. /\ Len(history) \in Nat /\ DOMAIN history = 1..Len(history)
        /\ \A i \in S : i \in DOMAIN history /\ history[i] # Gone /\ history[i].obj = o
                        /\ history[i].ts.time > t /\ history[i].ts \in Timestamps
                        /\ history[i].ts.time \in Nat
    <3>1. \A i \in S : i \in DOMAIN history /\ history[i].obj = o /\ history[i].ts.time > t
      BY DEF After
    <3> HIDE DEF S
    <3> QED
      BY <2>1, <3>1, LogFacts DEF CompactionInv
  <2>3. Legible(history, S)
    <3>1. IsFiniteSet(S)
      <4>1. IsFiniteSet(1..Len(history)) /\ S \subseteq 1..Len(history)
        BY <2>2, FS_Interval
      <4> QED
        BY <4>1, FS_Subset
    <3>2. \A i, j \in S : history[i].ts.time = history[j].ts.time => i = j
      BY <2>2 DEF CompactionInv, SnapOK
    <3>3. MaxEvents \in Nat /\ Times \subseteq 0..MaxEvents
      BY CompactionAssumption
    <3> HIDE DEF S
    <3> QED
      BY <2>2, <3>1, <3>2, <3>3 DEF Legible
  <2>4. Ripe(base, history, S)
    <3>1. Stamped(base)
      BY <2>1, StampedObject
    <3>2. \A i \in S, k \in DOMAIN base : base[k].ts.time < history[i].ts.time
      <4> SUFFICES ASSUME NEW i \in S, NEW k \in DOMAIN base
                   PROVE  base[k].ts.time < history[i].ts.time
        OBVIOUS
      <4>1. base[k].ts \in Timestamps
        BY <3>1 DEF Stamped
      <4>2. base[k].ts.time \in Nat
        BY <4>1, TimestampsAssumption DEF Timestamps
      <4>3. base[k].ts.time <= t /\ t < history[i].ts.time /\ history[i].ts.time \in Nat
        BY <2>1, <2>2
      <4> HIDE DEF base, t
      <4> QED
        BY <2>1, <4>2, <4>3
    <3> QED
      BY <2>3, <3>1, <3>2 DEF Ripe
  <2>5. {i \in DOMAIN history : /\ history[i].obj = o
                                /\ ~history[i].undone /\ ~history[i].invalidated
                                /\ history[i].ts.time > t} = S
    <3>1. ASSUME NEW i \in DOMAIN history, history[i].obj = o
          PROVE  ~history[i].undone /\ ~history[i].invalidated
      <4>1. \A j \in DOMAIN history : history[j].obj = o => history[j].kind # "UNDO"
        BY DEF OnlyDrawn, Draws
      <4> QED
        BY <3>1, <4>1 DEF CompactionInv, FlagsOK
    <3> QED
      BY <3>1 DEF After
  <2>6. LoadedFrom(snapshot, o) = MergedInto(base, history, S)
    BY <2>5 DEF LoadedFrom
  <2> HIDE DEF S, base, t
  <2>7. MaterializeCRDT(objects[o]) = MaterializeCRDT(MergedInto(base, history, S))
    BY <2>1, <2>4, ReadsMerged
  <2> QED
    BY <2>6, <2>7, ShownOfSame
<1> QED
  BY <1>1, CompactionInvariant, PTL

-----------------------------------------------------------------------------
(* While no lock runs out under its holder, one compactor works at a time. *)
(* No two rows of the log have the same time then, and a part of a plan    *)
(* stands, property by property, for the rows it replaces.                 *)

Distinct ==
  \A i \in DOMAIN history : \A j \in DOMAIN history :
    /\ history[i] # Gone /\ history[j] # Gone
    /\ history[i].ts.time = history[j].ts.time
    => i = j

\* Of the rows that p replaces in the log h, r is the last to set property k,
\* and no other row of the object sets k between r and the time of the new row.
Decides(h, p, r, k) ==
  /\ k \in DOMAIN h[r].after /\ h[r].after[k] = p.new.after[k]
  /\ h[r].ts.time <= p.new.ts.time
  /\ \A j \in DOMAIN h :
       h[j].obj = p.new.obj /\ k \in DOMAIN h[j].after =>
         \/ h[j].ts.time <= h[r].ts.time
         \/ j \notin DOMAIN p.old /\ h[j].ts.time > p.new.ts.time

Collapses(h, p) ==
  /\ \A i \in DOMAIN p.old : i \in DOMAIN h /\ h[i].obj = p.new.obj
  /\ \E i \in DOMAIN p.old : p.new.ts = h[i].ts
  /\ DOMAIN p.new.after = UNION {DOMAIN h[i].after : i \in DOMAIN p.old}
  /\ \A k \in DOMAIN p.new.after : \E r \in DOMAIN p.old : Decides(h, p, r, k)

\* No row is in two parts of a plan.
Apart(plan) ==
  \A p \in plan : \A q \in plan : \A i \in DOMAIN p.old : i \in DOMAIN q.old => p = q

\* The rows are read live, and none by two parts of the plan.
Disjoint(plan) ==
  /\ \A p \in plan : \A i \in DOMAIN p.old : ~p.old[i].undone /\ ~p.old[i].invalidated
  /\ Apart(plan)

SingleOK ==
  /\ Distinct
  /\ \A o \in Objs : Reads(NoObject, history, RowsOf(history, o), MaterializeCRDT(objects[o]))
  /\ \A c \in Compactors :
       /\ \A p \in compactor[c].plan : Collapses(history, p)
       /\ Disjoint(compactor[c].plan)

\* Rows with times of their own are in the order of their times.
LEMMA InOrderOfTimes ==
  ASSUME LogOK, Distinct, NEW t, NEW i \in Below(history, t), NEW j \in Below(history, t)
  PROVE  /\ history[i].ts.time \in Nat /\ history[j].ts.time \in Nat
         /\ Before(history, i, j) <=> history[i].ts.time < history[j].ts.time
         /\ history[i].ts.time = history[j].ts.time => i = j
<1>1. /\ i \in DOMAIN history /\ history[i] # Gone /\ j \in DOMAIN history /\ history[j] # Gone
  BY DEF Below
<1>2. history[i].ts.time \in Nat /\ history[j].ts.time \in Nat /\ i \in Nat
  BY <1>1, LogFacts
<1>3. history[i].ts.time = history[j].ts.time => i = j
  BY <1>1 DEF Distinct
<1>4. history[i].ts \in Timestamps /\ history[j].ts \in Timestamps
  BY <1>1, LogFacts
<1>5. history[i].ts.time # history[j].ts.time =>
        (Before(history, i, j) <=> history[i].ts.time < history[j].ts.time)
  BY <1>2 DEF Before, Later
<1>6. i = j => ~Before(history, i, j)
  BY <1>2, <1>4, LaterIsStrictTotalOrder DEF Before
<1> QED
  BY <1>2, <1>3, <1>5, <1>6

LEMMA SegmentByTimes ==
  ASSUME LogOK, Distinct, NEW t, NEW a \in Below(history, t), NEW seg,
         seg = Segment(history, Below(history, t), a)
  PROVE  \A j : j \in seg <=>
           /\ j \in Below(history, t) /\ history[j].obj = history[a].obj
           /\ ~Boundary(history[j])
           /\ \A k \in Below(history, t) :
                history[k].obj = history[a].obj /\ Boundary(history[k]) =>
                  /\ ~(/\ history[a].ts.time < history[k].ts.time
                       /\ history[k].ts.time < history[j].ts.time)
                  /\ ~(/\ history[j].ts.time < history[k].ts.time
                       /\ history[k].ts.time < history[a].ts.time)
<1> DEFINE S == Below(history, t)
<1>1. \A i \in S : \A j \in S :
        Before(history, i, j) <=> history[i].ts.time < history[j].ts.time
  BY InOrderOfTimes
<1> HIDE DEF S
<1>2. seg = {j \in S : /\ history[j].obj = history[a].obj
                       /\ ~Boundary(history[j])
                       /\ ~\E k \in S :
                            /\ history[k].obj = history[a].obj /\ Boundary(history[k])
                            /\ \/ Before(history, a, k) /\ Before(history, k, j)
                               \/ Before(history, j, k) /\ Before(history, k, a)}
  BY DEF Segment, S
<1> QED
  BY <1>1, <1>2 DEF S

LEMMA PlanCollapses ==
  ASSUME LogOK, FlagsOK, Distinct, NEW t \in Nat, NEW p \in Plan(history, Below(history, t))
  PROVE  /\ Collapses(history, p)
         /\ \A i : i \in DOMAIN p.old => ~p.old[i].undone /\ ~p.old[i].invalidated
<1> DEFINE S == Below(history, t)
           time(i) == history[i].ts.time
<1>1. PICK a \in S, seg \in SUBSET S :
        /\ seg = Segment(history, S, a) /\ ~Boundary(history[a])
        /\ p = [old |-> [i \in seg |-> history[i]], new |-> Collapsed(history, Squashed(history, seg))]
        /\ Squashed(history, seg) # {} /\ Squashed(history, seg) \subseteq seg
  BY PlanPart
<1> DEFINE T == Squashed(history, seg)
           top == LastOf(history, T)
           o == history[a].obj
<1>2. Sortable(history, S) /\ \A i \in S : i \in DOMAIN history /\ history[i] \in Rows
                                          /\ history[i].obj \in Objs
  BY BelowSortable
<1>3. /\ seg \subseteq S /\ T \subseteq seg /\ T # {} /\ Sortable(history, seg)
      /\ Sortable(history, T) /\ \A i \in T : history[i] \in Rows
  BY <1>1, <1>2, SortablePart
<1>4. DOMAIN p.old = seg /\ p.new = Collapsed(history, T) /\ \A i \in seg : p.old[i] = history[i]
  BY <1>1
<1>5. \A j : j \in seg <=>
           /\ j \in S /\ history[j].obj = o /\ ~Boundary(history[j])
           /\ \A k \in S : history[k].obj = o /\ Boundary(history[k]) =>
                             ~(time(a) < time(k) /\ time(k) < time(j))
                             /\ ~(time(j) < time(k) /\ time(k) < time(a))
  BY <1>1, SegmentByTimes
<1>6. \A i \in S : \A j \in S : time(i) \in Nat /\ (time(i) = time(j) => i = j)
  BY InOrderOfTimes
<1>7. /\ \A k : Setting(history, seg, k) # {} =>
           /\ LastOf(history, Setting(history, seg, k)) \in T
           /\ LastOf(history, Setting(history, seg, k)) \in Setting(history, seg, k)
           /\ \A j \in Setting(history, seg, k) :
                time(j) <= time(LastOf(history, Setting(history, seg, k)))
  BY <1>3, SquashedPart
<1>8. a \in S /\ (\A i \in S : time(i) <= t) /\ \A i \in DOMAIN history : history[i] # Gone /\ time(i) <= t => i \in S
  BY DEF Below
<1> HIDE DEF T, S
<1>9. top \in T /\ \A j \in T : time(j) <= time(top)
  BY <1>3, LastExists
<1>10. /\ p.new.ts = history[top].ts /\ p.new.obj = history[top].obj
       /\ DOMAIN p.new.after = UNION {DOMAIN history[i].after : i \in T}
       /\ \A k \in DOMAIN p.new.after :
            p.new.after[k] = history[LastOf(history, Setting(history, T, k))].after[k]
  BY <1>3, <1>4, CollapsedRow
<1> HIDE DEF top
<1>11. p.new.obj = o /\ top \in seg /\ top \in S /\ o \in Objs
  BY <1>2, <1>3, <1>5, <1>8, <1>9, <1>10
<1>12. \A i \in DOMAIN p.old : i \in DOMAIN history /\ history[i].obj = p.new.obj
  BY <1>2, <1>3, <1>4, <1>5, <1>11
<1>13. DOMAIN p.new.after = UNION {DOMAIN history[i].after : i \in DOMAIN p.old}
  <2>1. ASSUME NEW i \in seg, NEW k \in DOMAIN history[i].after
        PROVE  \E l \in T : k \in DOMAIN history[l].after
    <3>1. i \in Setting(history, seg, k)
      BY <2>1 DEF Setting
    <3>2. PICK l \in T : l \in Setting(history, seg, k)
      BY <1>7, <3>1
    <3> QED
      BY <3>2 DEF Setting
  <2> QED
    BY <1>3, <1>4, <1>10, <2>1
<1>14. ASSUME NEW k \in DOMAIN p.new.after
       PROVE  \E r \in DOMAIN p.old : Decides(history, p, r, k)
  <2>1. Setting(history, seg, k) # {}
    BY <1>4, <1>13, <1>14 DEF Setting
  <2>2. PICK l : l = LastOf(history, Setting(history, seg, k))
    OBVIOUS
  <2>3. /\ l \in T /\ l \in seg /\ l \in S /\ k \in DOMAIN history[l].after
        /\ \A j \in seg : k \in DOMAIN history[j].after => time(j) <= time(l)
    <3>1. l \in T /\ l \in Setting(history, seg, k)
          /\ \A j \in Setting(history, seg, k) : time(j) <= time(l)
      BY <1>7, <2>1, <2>2
    <3> QED
      BY <1>3, <3>1 DEF Setting
  <2>4. p.new.after[k] = history[l].after[k]
    <3> DEFINE U == Setting(history, T, k)
    <3>1. U \subseteq T /\ l \in U /\ \A j \in U : j \in seg /\ j \in S /\ k \in DOMAIN history[j].after
      BY <1>3, <2>3 DEF Setting
    <3> HIDE DEF U
    <3>2. LastOf(history, U) \in U /\ \A j \in U : time(j) <= time(LastOf(history, U))
      BY <1>3, <3>1, SortablePart, LastExists
    <3>3. PICK x : x = LastOf(history, U)
      OBVIOUS
    <3>4. x \in S /\ time(l) <= time(x) /\ time(x) <= time(l)
      BY <2>3, <3>1, <3>2, <3>3
    <3>5. x = l
      BY <1>6, <2>3, <3>4
    <3> QED
      BY <1>10, <1>14, <3>3, <3>5 DEF U
  <2>5. ASSUME NEW j \in DOMAIN history, history[j].obj = o, k \in DOMAIN history[j].after,
               ~(time(j) <= time(l)), ~(j \notin seg /\ time(j) > time(top))
        PROVE  FALSE
    <3>1. j \notin seg
      BY <2>3, <2>5
    <3>2. history[j] # Gone /\ time(j) \in Nat
      BY <1>11, <2>5, LogFacts
    <3>3. /\ time(l) \in Nat /\ time(top) \in Nat /\ time(a) \in Nat
          /\ time(l) < time(j) /\ time(j) <= time(top) /\ time(top) <= t
      BY <1>6, <1>8, <1>11, <2>3, <2>5, <3>1, <3>2
    <3>4. j \in S
      <4>1. time(j) <= t
        BY <3>2, <3>3
      <4> QED
        BY <1>8, <2>5, <3>2, <4>1
    <3>5. j # top /\ time(j) < time(top)
      BY <1>6, <1>11, <3>1, <3>2, <3>3, <3>4
    <3>6. ASSUME NEW b \in S, history[b].obj = o, Boundary(history[b]),
                 time(l) < time(b), time(b) < time(top)
          PROVE  FALSE
      <4>1. time(b) \in Nat /\ b # a /\ time(b) # time(a)
        BY <1>1, <1>6, <1>8, <3>6
      <4>2. ~(time(a) < time(b) /\ time(b) < time(top))
            /\ ~(time(l) < time(b) /\ time(b) < time(a))
        BY <1>5, <1>11, <2>3, <3>6
      <4> QED
        BY <3>3, <3>6, <4>1, <4>2
    <3>7. ~Boundary(history[j])
      BY <2>5, <3>3, <3>4, <3>5, <3>6
    <3>8. PICK b \in S : /\ history[b].obj = o /\ Boundary(history[b])
                         /\ \/ time(a) < time(b) /\ time(b) < time(j)
                            \/ time(j) < time(b) /\ time(b) < time(a)
      BY <1>5, <2>5, <3>1, <3>4, <3>7
    <3>9. time(b) \in Nat /\ ~(time(l) < time(b) /\ time(b) < time(top))
      BY <1>6, <3>6, <3>8
    <3>10. ~(time(a) < time(b) /\ time(b) < time(top))
           /\ ~(time(l) < time(b) /\ time(b) < time(a))
      BY <1>5, <1>11, <2>3, <3>8
    <3> QED
      BY <3>2, <3>3, <3>5, <3>8, <3>9, <3>10
  <2>6. time(l) <= time(top) /\ p.new.ts.time = time(top)
    BY <1>9, <1>10, <2>3
  <2>7. Decides(history, p, l, k)
    <3> HIDE DEF o
    <3> QED
      BY <1>4, <1>11, <2>3, <2>4, <2>5, <2>6 DEF Decides
  <2> QED
    BY <1>4, <2>3, <2>7
<1>15. ASSUME NEW i, i \in DOMAIN p.old PROVE ~p.old[i].undone /\ ~p.old[i].invalidated
  <2>1. p.old[i] = history[i] /\ i \in DOMAIN history /\ ~Boundary(history[i])
    BY <1>2, <1>3, <1>4, <1>5, <1>15
  <2> QED
    BY <2>1 DEF Boundary, FlagsOK
<1> QED
  BY <1>4, <1>10, <1>11, <1>12, <1>13, <1>14, <1>15 DEF Collapses

\* A row stands in one segment only.
LEMMA PlanDisjoint ==
  ASSUME LogOK, Distinct, NEW t, NEW p \in Plan(history, Below(history, t)),
         NEW q \in Plan(history, Below(history, t)), NEW i, i \in DOMAIN p.old, i \in DOMAIN q.old
  PROVE  p = q
<1> DEFINE S == Below(history, t)
           time(j) == history[j].ts.time
           Within(j, x) ==
             \A k \in S : history[k].obj = history[x].obj /\ Boundary(history[k]) =>
                            ~(time(x) < time(k) /\ time(k) < time(j))
                            /\ ~(time(j) < time(k) /\ time(k) < time(x))
<1>1. PICK a \in S, seg \in SUBSET S :
        /\ seg = Segment(history, S, a) /\ ~Boundary(history[a])
        /\ p = [old |-> [j \in seg |-> history[j]], new |-> Collapsed(history, Squashed(history, seg))]
  BY PlanPart
<1>2. PICK b \in S, gem \in SUBSET S :
        /\ gem = Segment(history, S, b) /\ ~Boundary(history[b])
        /\ q = [old |-> [j \in gem |-> history[j]], new |-> Collapsed(history, Squashed(history, gem))]
  BY PlanPart
<1>3. i \in seg /\ i \in gem
  BY <1>1, <1>2
<1>4. \A j : j \in seg <=> j \in S /\ history[j].obj = history[a].obj /\ ~Boundary(history[j])
                           /\ Within(j, a)
  BY <1>1, SegmentByTimes
<1>5. \A j : j \in gem <=> j \in S /\ history[j].obj = history[b].obj /\ ~Boundary(history[j])
                           /\ Within(j, b)
  BY <1>2, SegmentByTimes
<1>6. \A j \in S : \A k \in S : time(j) \in Nat /\ (time(j) = time(k) => j = k)
  BY InOrderOfTimes
<1>7. ASSUME NEW x \in S, NEW y \in S, NEW z \in S, history[x].obj = history[y].obj,
             history[y].obj = history[z].obj, ~Boundary(history[y]), ~Boundary(history[x]),
             Within(y, x), Within(z, x)
      PROVE  Within(z, y)
  <2> SUFFICES ASSUME NEW k \in S, history[k].obj = history[y].obj, Boundary(history[k])
               PROVE  ~(time(y) < time(k) /\ time(k) < time(z))
                      /\ ~(time(z) < time(k) /\ time(k) < time(y))
    OBVIOUS
  <2>1. /\ time(k) \in Nat /\ time(x) \in Nat /\ time(y) \in Nat /\ time(z) \in Nat
        /\ time(k) # time(x)
    BY <1>6, <1>7
  <2>2. /\ ~(time(x) < time(k) /\ time(k) < time(y)) /\ ~(time(y) < time(k) /\ time(k) < time(x))
        /\ ~(time(x) < time(k) /\ time(k) < time(z)) /\ ~(time(z) < time(k) /\ time(k) < time(x))
    BY <1>7
  <2> QED
    BY <2>1, <2>2
<1>8. ASSUME NEW x \in S, NEW y \in S, Within(y, x), history[x].obj = history[y].obj
      PROVE  Within(x, y)
  BY <1>8
<1> HIDE DEF Within, S
<1>9. i \in S /\ history[i].obj = history[a].obj /\ history[i].obj = history[b].obj
      /\ ~Boundary(history[i]) /\ Within(i, a) /\ Within(i, b)
  BY <1>3, <1>4, <1>5
<1>10. ASSUME NEW x \in S, NEW y \in S, NEW j \in S, ~Boundary(history[x]),
              history[x].obj = history[i].obj, history[y].obj = history[i].obj,
              history[j].obj = history[i].obj, Within(i, x), Within(i, y), Within(j, x),
              ~Boundary(history[y])
       PROVE  Within(j, y)
  <2>1. Within(j, i)
    BY <1>7, <1>9, <1>10
  <2>2. Within(y, i)
    BY <1>8, <1>9, <1>10
  <2> QED
    BY <1>7, <1>9, <1>10, <2>1, <2>2
<1>11. seg = gem
  <2>1. ASSUME NEW j \in seg PROVE j \in gem
    BY <1>1, <1>2, <1>4, <1>5, <1>9, <1>10
  <2>2. ASSUME NEW j \in gem PROVE j \in seg
    BY <1>1, <1>2, <1>4, <1>5, <1>9, <1>10
  <2> QED
    BY <2>1, <2>2
<1> QED
  BY <1>1, <1>2, <1>11

\* The log g has the new rows N of the parts P for those of the rows S of h that they hold.
Replaces(h, g, o, S, P, N) ==
  /\ \A i \in S : i \in DOMAIN h /\ h[i].obj = o /\ h[i].ts.time \in Nat
  /\ \A i \in S : \A j \in S : h[i].ts.time = h[j].ts.time => i = j
  /\ \A p \in P : Collapses(h, p) /\ p.new.obj = o /\ DOMAIN p.old \subseteq S
  /\ Apart(P)
  /\ \A i \in S \ Ids(P) : g[i] = h[i]
  /\ \A i \in N : g[i] \in {p.new : p \in P}
  /\ \A p \in P : \E i \in N : g[i] = p.new

\* Where the parts of a plan stand for the rows they replace, the log reads as before.
LEMMA RewriteReads ==
  ASSUME NEW h, NEW g, NEW o, NEW S, NEW P, NEW N, NEW T, NEW f,
         Replaces(h, g, o, S, P, N), Reads(NoObject, h, S, f), T = (S \ Ids(P)) \cup N
  PROVE  Reads(NoObject, g, T, f)
<1> USE DEF Replaces
<1> DEFINE time(i) == h[i].ts.time
<1>1. \A p \in P : /\ p.new.ts.time \in Nat
                   /\ DOMAIN p.new.after = UNION {DOMAIN h[i].after : i \in DOMAIN p.old}
                   /\ \A i \in DOMAIN p.old : i \in S /\ i \in Ids(P)
  <2> SUFFICES ASSUME NEW p \in P
               PROVE  /\ p.new.ts.time \in Nat
                      /\ DOMAIN p.new.after = UNION {DOMAIN h[i].after : i \in DOMAIN p.old}
                      /\ \A i \in DOMAIN p.old : i \in S /\ i \in Ids(P)
    OBVIOUS
  <2>1. PICK i \in DOMAIN p.old : p.new.ts = h[i].ts
    BY DEF Collapses
  <2>2. i \in S /\ \A j \in DOMAIN p.old : j \in S /\ j \in Ids(P)
    BY <2>1 DEF Ids
  <2> QED
    BY <2>1, <2>2 DEF Collapses
<1>2. ASSUME NEW p \in P, NEW k \in DOMAIN p.new.after
      PROVE  \E d \in S :
               /\ d \in DOMAIN p.old /\ d \in Ids(P) /\ k \in DOMAIN h[d].after
               /\ h[d].after[k] = p.new.after[k] /\ time(d) <= p.new.ts.time
               /\ \A j \in S : k \in DOMAIN h[j].after =>
                    time(j) <= time(d) \/ (j \notin DOMAIN p.old /\ time(j) > p.new.ts.time)
  <2>1. PICK d \in DOMAIN p.old : Decides(h, p, d, k)
    BY <1>2 DEF Collapses
  <2>2. d \in S /\ d \in Ids(P) /\ p.new.obj = o
    BY <1>1, <1>2, <2>1
  <2> QED
    BY <2>1, <2>2 DEF Decides
<1>3. ASSUME NEW i \in T
      PROVE  \/ i \in S /\ i \notin Ids(P) /\ g[i] = h[i]
             \/ i \in N /\ \E p \in P : g[i] = p.new
  BY <1>3
<1>4. IsMap(f) /\ DOMAIN f = UNION {DOMAIN h[i].after : i \in S}
  BY DEF Reads, NoObject
<1>5. DOMAIN f = UNION {DOMAIN g[i].after : i \in T}
  <2>1. ASSUME NEW i \in T, NEW k \in DOMAIN g[i].after
        PROVE  \E j \in S : k \in DOMAIN h[j].after
    <3>1. CASE i \in S /\ g[i] = h[i]
      BY <2>1, <3>1
    <3>2. CASE \E p \in P : g[i] = p.new
      <4>1. PICK p \in P : g[i] = p.new
        BY <3>2
      <4>2. PICK j \in DOMAIN p.old : k \in DOMAIN h[j].after
        BY <1>1, <2>1, <4>1
      <4> QED
        BY <1>1, <4>2
    <3> QED
      BY <1>3, <3>1, <3>2
  <2>2. ASSUME NEW j \in S, NEW k \in DOMAIN h[j].after
        PROVE  \E i \in T : k \in DOMAIN g[i].after
    <3>1. CASE j \notin Ids(P)
      BY <2>2, <3>1
    <3>2. CASE j \in Ids(P)
      <4>1. PICK p \in P : j \in DOMAIN p.old
        BY <3>2 DEF Ids
      <4>2. k \in DOMAIN p.new.after
        BY <1>1, <2>2, <4>1
      <4>3. PICK i \in N : g[i] = p.new
        OBVIOUS
      <4> QED
        BY <4>2, <4>3
    <3> QED
      BY <3>1, <3>2
  <2> QED
    BY <1>4, <2>1, <2>2
<1>6. ASSUME NEW k \in DOMAIN f
      PROVE  \E i \in Setters(g, T, k) :
               g[i].after[k] = f[k] /\ \A j \in Setters(g, T, k) : g[j].ts.time <= g[i].ts.time
  <2>1. Setters(h, S, k) # {}
    BY <1>4, <1>6 DEF Setters
  <2>2. PICK r \in Setters(h, S, k) :
          h[r].after[k] = f[k] /\ \A j \in Setters(h, S, k) : time(j) <= time(r)
    BY <1>6, <2>1 DEF Reads
  <2>3. /\ r \in S /\ k \in DOMAIN h[r].after /\ time(r) \in Nat
        /\ \A j \in S : k \in DOMAIN h[j].after => time(j) \in Nat /\ time(j) <= time(r)
    BY <2>2 DEF Setters
  \* A new row that does not stand for r is older than r.
  <2>4. ASSUME NEW p \in P, k \in DOMAIN p.new.after, r \notin DOMAIN p.old
        PROVE  p.new.ts.time < time(r)
    <3>1. PICK d \in S :
            /\ d \in DOMAIN p.old /\ k \in DOMAIN h[d].after
            /\ time(r) <= time(d) \/ (r \notin DOMAIN p.old /\ time(r) > p.new.ts.time)
      BY <1>2, <2>3, <2>4
    <3>2. d # r /\ time(d) <= time(r) /\ time(d) \in Nat
      BY <2>3, <2>4, <3>1
    <3>3. time(d) # time(r)
      BY <2>3, <3>1, <3>2
    <3>4. p.new.ts.time \in Nat /\ time(r) \in Nat
      BY <1>1, <2>3
    <3>5. PICK x \in Nat, y \in Nat : x = time(r) /\ y = time(d)
      BY <3>2, <3>4
    <3>6. ~(x <= y)
      BY <3>2, <3>3, <3>5
    <3>7. x > p.new.ts.time
      BY <3>1, <3>5, <3>6
    <3> QED
      BY <3>4, <3>5, <3>7
  <2>5. CASE r \notin Ids(P)
    <3>1. r \in T /\ g[r] = h[r]
      BY <2>3, <2>5
    <3>2. ASSUME NEW j \in Setters(g, T, k) PROVE g[j].ts.time <= g[r].ts.time
      <4>1. j \in T /\ k \in DOMAIN g[j].after
        BY DEF Setters
      <4>2. CASE j \in S /\ g[j] = h[j]
        BY <2>3, <3>1, <4>1, <4>2
      <4>3. CASE \E p \in P : g[j] = p.new
        <5>1. PICK p \in P : g[j] = p.new
          BY <4>3
        <5>2. r \notin DOMAIN p.old
          BY <2>5 DEF Ids
        <5>3. p.new.ts.time < time(r) /\ p.new.ts.time \in Nat
          BY <1>1, <2>4, <4>1, <5>1, <5>2
        <5> QED
          BY <2>3, <3>1, <5>1, <5>3
      <4> QED
        BY <1>3, <4>1, <4>2, <4>3
    <3> QED
      BY <2>2, <2>3, <3>1, <3>2 DEF Setters
  <2>6. CASE r \in Ids(P)
    <3>1. PICK p \in P : r \in DOMAIN p.old
      BY <2>6 DEF Ids
    <3>2. k \in DOMAIN p.new.after /\ p.new.ts.time \in Nat
      BY <1>1, <2>3, <3>1
    <3>3. PICK d \in S :
            /\ d \in DOMAIN p.old /\ k \in DOMAIN h[d].after
            /\ h[d].after[k] = p.new.after[k] /\ time(d) <= p.new.ts.time
            /\ time(r) <= time(d) \/ (r \notin DOMAIN p.old /\ time(r) > p.new.ts.time)
      BY <1>2, <2>3, <3>2
    <3>4. time(d) = time(r)
      <4>1. time(d) \in Nat /\ time(d) <= time(r) /\ time(r) \in Nat
        BY <2>3, <3>3
      <4>2. time(r) <= time(d)
        BY <3>1, <3>3
      <4> QED
        BY <4>1, <4>2
    <3>5. d = r
      BY <2>3, <3>3, <3>4
    <3>6. p.new.after[k] = f[k] /\ time(r) <= p.new.ts.time
      BY <2>2, <3>3, <3>5
    <3>7. PICK m \in N : g[m] = p.new
      OBVIOUS
    <3>8. m \in Setters(g, T, k) /\ g[m].after[k] = f[k]
      BY <3>2, <3>6, <3>7 DEF Setters
    <3>9. ASSUME NEW j \in Setters(g, T, k) PROVE g[j].ts.time <= g[m].ts.time
      <4>1. j \in T /\ k \in DOMAIN g[j].after
        BY DEF Setters
      <4>2. CASE j \in S /\ g[j] = h[j]
        <5>1. time(j) \in Nat /\ time(j) <= time(r)
          BY <2>3, <4>1, <4>2
        <5> QED
          BY <2>3, <3>2, <3>6, <3>7, <4>2, <5>1
      <4>3. CASE \E q \in P : g[j] = q.new
        <5>1. PICK q \in P : g[j] = q.new
          BY <4>3
        <5>2. CASE q = p
          BY <3>2, <3>7, <5>1, <5>2
        <5>3. CASE q # p
          <6>1. r \notin DOMAIN q.old
            BY <3>1, <5>3 DEF Apart
          <6>2. q.new.ts.time < time(r) /\ q.new.ts.time \in Nat
            BY <1>1, <2>4, <4>1, <5>1, <6>1
          <6> QED
            BY <2>3, <3>2, <3>6, <3>7, <5>1, <6>2
        <5> QED
          BY <5>2, <5>3
      <4> QED
        BY <1>3, <4>1, <4>2, <4>3
    <3> QED
      BY <3>8, <3>9
  <2> QED
    BY <2>5, <2>6
<1> QED
  BY <1>4, <1>5, <1>6 DEF Reads, NoObject

LEMMA SingleInit == Init => SingleOK
<1> SUFFICES ASSUME Init PROVE SingleOK
  OBVIOUS
<1>1. /\ history = << >> /\ objects = [o \in Objs |-> NoObject]
      /\ compactor = [c \in Compactors |-> Idle]
  BY LogNames DEF Init, Log!Init
<1>2. ASSUME NEW o \in Objs
      PROVE  Reads(NoObject, history, RowsOf(history, o), MaterializeCRDT(objects[o]))
  <2>1. objects[o] = NoObject /\ RowsOf(history, o) = {}
    BY <1>1 DEF RowsOf
  <2> QED
    BY <2>1, ReadsNothing
<1>3. \A c \in Compactors : compactor[c].plan = {}
  BY <1>1, IdleState
<1> QED
  BY <1>1, <1>2, <1>3 DEF SingleOK, Distinct, Disjoint, Apart

\* A part of a plan goes on standing for its rows when an event is written.
LEMMA WriteKeepsCollapses ==
  ASSUME NEW h, NEW g, NEW m, NEW p, Collapses(h, p),
         DOMAIN g = DOMAIN h \cup {m}, m \notin DOMAIN h,
         \A i \in DOMAIN h : /\ g[i].ts = h[i].ts /\ g[i].obj = h[i].obj
                             /\ g[i].after = h[i].after,
         p.new.ts.time < g[m].ts.time
  PROVE  Collapses(g, p)
<1>1. \A i \in DOMAIN p.old : i \in DOMAIN h /\ i \in DOMAIN g /\ i # m
                              /\ g[i].after = h[i].after /\ g[i].ts = h[i].ts
                              /\ g[i].obj = p.new.obj
  BY DEF Collapses
<1>2. UNION {DOMAIN g[i].after : i \in DOMAIN p.old} = UNION {DOMAIN h[i].after : i \in DOMAIN p.old}
  BY <1>1
<1>3. \E i \in DOMAIN p.old : p.new.ts = g[i].ts
  BY <1>1 DEF Collapses
<1>4. ASSUME NEW k \in DOMAIN p.new.after PROVE \E r \in DOMAIN p.old : Decides(g, p, r, k)
  <2>1. PICK r \in DOMAIN p.old : Decides(h, p, r, k)
    BY DEF Collapses
  <2>2. ASSUME NEW j \in DOMAIN g, g[j].obj = p.new.obj, k \in DOMAIN g[j].after
        PROVE  \/ g[j].ts.time <= g[r].ts.time
               \/ j \notin DOMAIN p.old /\ g[j].ts.time > p.new.ts.time
    <3>1. CASE j = m
      BY <1>1, <3>1
    <3>2. CASE j \in DOMAIN h
      BY <1>1, <2>1, <2>2, <3>2 DEF Decides
    <3> QED
      BY <3>1, <3>2
  <2> QED
    BY <1>1, <2>1, <2>2 DEF Decides
<1> QED
  BY <1>1, <1>2, <1>3, <1>4 DEF Collapses

LEMMA WriteKeepsSingle ==
  ASSUME CompactionInv, SingleOK, NEW n \in DOMAIN events \ processed, Log!Oldest(n),
         UNCHANGED compactor, NEW row, Writes(n, row)
  PROVE  SingleOK'
<1> DEFINE m == Len(history) + 1
<1>1. Len(history) \in Nat /\ DOMAIN history = 1..Len(history)
  BY LogFacts DEF CompactionInv
<1>2. /\ n \in Nat /\ \A p \in processed : p < n
      /\ \A i \in DOMAIN history : history[i].ts.time \in Nat /\ history[i].ts.time < n
      /\ \A o \in Objs : \A k \in DOMAIN objects[o] :
           objects[o][k].ts.time \in Nat /\ objects[o][k].ts.time < n
  BY EventIsNewest DEF CompactionInv
<1>3. /\ row \in Rows /\ row.ts.time = n /\ row.obj \in Objs
      /\ objects' = [objects EXCEPT ![row.obj] = MergeCRDT(objects[row.obj], row.after, row.ts)]
      /\ objects \in [Objs -> Objects]
  BY StampAndPatchTypes DEF Writes, Rows, CompactionInv, LogOK, LogTypes
<1>4. /\ DOMAIN history' = 1..m /\ history'[m] = row
      /\ DOMAIN history' = DOMAIN history \cup {m} /\ m \notin DOMAIN history
      /\ \A i \in DOMAIN history :
           /\ history'[i].ts = history[i].ts /\ history'[i].obj = history[i].obj
           /\ history'[i].after = history[i].after
           /\ history'[i] # Gone => history[i] # Gone
  BY <1>1 DEF Writes, Grows, Alike
<1> HIDE DEF m
<1>5. Distinct'
  <2> SUFFICES ASSUME NEW i \in DOMAIN history', NEW j \in DOMAIN history',
                      history'[i] # Gone, history'[j] # Gone,
                      history'[i].ts.time = history'[j].ts.time
               PROVE  i = j
    BY DEF Distinct
  <2>1. CASE i \in DOMAIN history /\ j \in DOMAIN history
    BY <1>4, <2>1 DEF SingleOK, Distinct
  <2>2. \A l \in DOMAIN history : history'[l].ts.time # n
    BY <1>2, <1>4
  <2> QED
    BY <1>3, <1>4, <2>1, <2>2
<1>6. ASSUME NEW o \in Objs
      PROVE  Reads(NoObject, history', RowsOf(history', o), MaterializeCRDT(objects'[o]))
  <2> DEFINE S == RowsOf(history, o)
  <2>1. Reads(NoObject, history, S, MaterializeCRDT(objects[o]))
    BY DEF SingleOK
  <2>2. S \subseteq DOMAIN history /\ m \notin S
    BY <1>4 DEF RowsOf
  <2>3. RowsOf(history', o) = IF o = row.obj THEN S \cup {m} ELSE S
    BY <1>4 DEF RowsOf
  <2> HIDE DEF S
  <2>4. \A i \in S : history'[i].after = history[i].after /\ history'[i].ts = history[i].ts
    BY <1>4, <2>2
  <2>5. CASE o # row.obj
    <3>1. objects'[o] = objects[o]
      BY <1>3, <2>5
    <3>2. Reads(NoObject, history', S, MaterializeCRDT(objects[o]))
      BY <2>1, <2>4, SameReads
    <3> QED
      BY <2>3, <2>5, <3>1, <3>2
  <2>6. CASE o = row.obj
    <3>1. objects'[o] = MergeCRDT(objects[o], history'[m].after, history'[m].ts)
      BY <1>3, <1>4, <2>6
    <3>2. /\ history'[m].ts.time \in Nat
          /\ \A i \in S : history[i].ts.time \in Nat /\ history[i].ts.time < history'[m].ts.time
          /\ \A k \in DOMAIN objects[o] :
               objects[o][k].ts.time \in Nat /\ objects[o][k].ts.time < history'[m].ts.time
      BY <1>2, <1>3, <1>4, <2>2
    <3>3. PICK obj : obj = objects[o]
      OBVIOUS
    <3>4. Reads(NoObject, history', S \cup {m},
                MaterializeCRDT(MergeCRDT(obj, history'[m].after, history'[m].ts)))
      BY <2>1, <2>2, <2>4, <3>2, <3>3, EventReads
    <3> QED
      BY <2>3, <2>6, <3>1, <3>3, <3>4
  <2> QED
    BY <2>5, <2>6
<1>7. ASSUME NEW c \in Compactors, NEW p \in compactor[c].plan PROVE Collapses(history', p)
  <2>1. Collapses(history, p)
    BY <1>7 DEF SingleOK
  <2>2. PartOK(p)
    BY <1>7 DEF CompactionInv, PlansOK, PlanOK
  <2>3. p.new.ts.time < history'[m].ts.time
    BY <1>2, <1>3, <1>4, <2>2 DEF PartOK, Numbered
  <2>4. PICK g : g = history'
    OBVIOUS
  <2> QED
    BY <1>4, <2>1, <2>3, <2>4, WriteKeepsCollapses
<1> QED
  BY <1>5, <1>6, <1>7 DEF SingleOK

\* A compactor reads the log.
LEMMA ReadLogKeepsSingle ==
  ASSUME CompactionInv, SingleOK, NEW c \in Compactors, ReadLog(c)
  PROVE  SingleOK'
<1> DEFINE t == compactor[c].cutoff
           S == Below(history, t)
           plan == IF Cardinality(S) < MinEvents THEN {} ELSE Plan(history, S)
<1>1. PICK x : x = [Idle EXCEPT !.stage = IF plan = {} THEN "done" ELSE "read", !.plan = plan]
  OBVIOUS
<1>2. /\ compactor' = [compactor EXCEPT ![c] = x] /\ UNCHANGED <<objects, history>>
  BY <1>1 DEF ReadLog, Below, store
<1>3. PlanOK(compactor[c]) /\ LogOK /\ FlagsOK /\ Distinct
  BY DEF CompactionInv, PlansOK, SingleOK
<1>4. t \in Nat
  BY <1>3 DEF PlanOK
<1>5. \A p \in Plan(history, S) :
        /\ Collapses(history, p)
        /\ \A i : i \in DOMAIN p.old => ~p.old[i].undone /\ ~p.old[i].invalidated
  BY <1>3, <1>4, PlanCollapses
<1>6. Apart(Plan(history, S))
  BY <1>3, PlanDisjoint DEF Apart
<1>7. plan = {} \/ plan = Plan(history, S)
  OBVIOUS
<1> HIDE DEF plan, S
<1>8. x.plan = plan
  BY <1>1 DEF Idle
<1>9. Disjoint(plan) /\ \A p \in plan : Collapses(history, p)
  BY <1>5, <1>6, <1>7 DEF Disjoint, Apart
<1>10. ASSUME NEW d \in Compactors
       PROVE  /\ \A p \in compactor'[d].plan : Collapses(history, p)
              /\ Disjoint(compactor'[d].plan)
  <2>1. compactor = [b \in Compactors |-> compactor[b]]
    BY DEF CompactionInv, IInv
  <2>2. compactor'[d] = IF d = c THEN x ELSE compactor[d]
    BY <1>2, <2>1
  <2> QED
    BY <1>8, <1>9, <2>2 DEF SingleOK
<1> QED
  BY <1>2, <1>10 DEF SingleOK, Distinct

\* Neither the log nor the objects change, and no plan but to be given up.
LEMMA RestKeepsSingle ==
  ASSUME SingleOK, UNCHANGED <<objects, history>>,
         \A c \in Compactors : compactor'[c].plan = compactor[c].plan \/ compactor'[c].plan = {}
  PROVE  SingleOK'
<1>1. Disjoint({})
  BY DEF Disjoint, Apart
<1>2. Distinct'
  BY DEF SingleOK, Distinct
<1>3. \A o \in Objs : Reads(NoObject, history', RowsOf(history', o), MaterializeCRDT(objects'[o]))
  BY DEF SingleOK
<1>4. ASSUME NEW c \in Compactors
      PROVE  /\ \A p \in compactor'[c].plan : Collapses(history', p)
             /\ Disjoint(compactor'[c].plan)
  BY <1>1 DEF SingleOK
<1> QED
  BY <1>2, <1>3, <1>4 DEF SingleOK

\* What the transaction of a compaction makes of rows that include those of its plan.
LEMMA RewriteKeepsReads ==
  ASSUME CompactionInv, SingleOK, NEW c \in Compactors, Rewrite(c), NEW o \in Objs,
         NEW S \in SUBSET RowsOf(history, o), NEW f, Reads(NoObject, history, S, f),
         \A p \in compactor[c].plan : p.new.obj = o => DOMAIN p.old \subseteq S
  PROVE  Reads(NoObject, history',
               (S \ Ids(compactor[c].plan))
                 \cup {i \in DOMAIN history' \ DOMAIN history : history'[i].obj = o}, f)
<1> DEFINE plan == compactor[c].plan
           P == {p \in plan : p.new.obj = o}
           N == {i \in DOMAIN history' \ DOMAIN history : history'[i].obj = o}
           T == (S \ Ids(plan)) \cup N
<1>1. /\ \A i \in DOMAIN history :
           history'[i] = IF i \in Ids(compactor[c].plan) THEN Gone ELSE history[i]
      /\ \A i \in DOMAIN history' \ DOMAIN history :
           \E p \in compactor[c].plan : history'[i] = p.new
      /\ \A p \in compactor[c].plan :
           \E i \in DOMAIN history' \ DOMAIN history : history'[i] = p.new
  BY RewriteEffect
<1>2. \A i \in S : i \in DOMAIN history /\ history[i].obj = o /\ history[i] # Gone
                   /\ history[i].ts.time \in Nat
  <2>1. \A i \in S : i \in DOMAIN history /\ history[i].obj = o
    BY DEF RowsOf
  <2> QED
    BY <2>1, LogFacts DEF CompactionInv
<1>3. \A i \in S : \A j \in S : history[i].ts.time = history[j].ts.time => i = j
  BY <1>2 DEF SingleOK, Distinct
<1>4. \A p \in P : Collapses(history, p) /\ p.new.obj = o /\ DOMAIN p.old \subseteq S
  BY DEF SingleOK
<1>5. Apart(P)
  BY DEF SingleOK, Disjoint, Apart
<1>6. \A i \in S : i \in Ids(plan) <=> i \in Ids(P)
  <2> SUFFICES ASSUME NEW i \in S PROVE i \in Ids(plan) <=> i \in Ids(P)
    OBVIOUS
  <2>1. ASSUME i \in Ids(plan) PROVE i \in Ids(P)
    <3>1. PICK p \in plan : i \in DOMAIN p.old
      BY <2>1 DEF Ids
    <3>2. Collapses(history, p)
      BY DEF SingleOK
    <3>3. p.new.obj = o
      BY <1>2, <3>1, <3>2 DEF Collapses
    <3> QED
      BY <3>1, <3>3 DEF Ids
  <2>2. ASSUME i \in Ids(P) PROVE i \in Ids(plan)
    BY <2>2 DEF Ids
  <2> QED
    BY <2>1, <2>2
<1>7. T = (S \ Ids(P)) \cup N
  BY <1>6
<1>8. \A i \in S \ Ids(P) : history'[i] = history[i]
  BY <1>1, <1>2, <1>6
<1>9. \A i \in N : history'[i] \in {p.new : p \in P}
  BY <1>1
<1>10. \A p \in P : \E i \in N : history'[i] = p.new
  BY <1>1
<1>11. PICK g : g = history'
  OBVIOUS
<1>12. PICK n, u : n = N /\ u = T
  OBVIOUS
<1>13. PICK q : q = P
  OBVIOUS
<1> HIDE DEF P, N, T, plan
<1>14. Replaces(history, g, o, S, q, n)
  BY <1>2, <1>3, <1>4, <1>5, <1>8, <1>9, <1>10, <1>11, <1>12, <1>13 DEF Replaces
<1>15. u = (S \ Ids(q)) \cup n
  BY <1>7, <1>12, <1>13
<1>16. Reads(NoObject, g, u, f)
  BY <1>14, <1>15, RewriteReads
<1> QED
  BY <1>11, <1>12, <1>16 DEF T, N, plan

LEMMA RewriteKeepsSingle ==
  ASSUME CompactionInv, SingleOK, expired = {}, NEW c \in Compactors, Rewrite(c)
  PROVE  SingleOK'
<1> DEFINE plan == compactor[c].plan
<1>1. /\ history' \in Seq(Rows \cup {Gone}) /\ DOMAIN history \subseteq DOMAIN history'
      /\ \A i \in DOMAIN history :
           history'[i] = IF i \in Ids(compactor[c].plan) THEN Gone ELSE history[i]
      /\ \A i \in DOMAIN history' \ DOMAIN history :
           \E p \in compactor[c].plan : history'[i] = p.new
      /\ \A i, j \in DOMAIN history' \ DOMAIN history : history'[i] = history'[j] => i = j
  BY RewriteEffect
<1>2. PICK x : x = [Idle EXCEPT !.stage = "done"]
  OBVIOUS
<1>3. /\ compactor[c].stage = "read" /\ compactor' = [compactor EXCEPT ![c] = x]
      /\ UNCHANGED objects
  BY <1>2 DEF Rewrite
<1>4. x.plan = {}
  BY <1>2 DEF Idle
<1>5. \A p \in plan : Collapses(history, p)
  BY DEF SingleOK
<1>6. Disjoint(plan)
  BY DEF SingleOK
\* The lock is c's, so nobody else is at work.
<1>7. \A d \in Compactors : compactor'[d].plan = {}
  <2> SUFFICES ASSUME NEW d \in Compactors, d # c PROVE compactor[d].plan = {}
    <3>1. compactor = [b \in Compactors |-> compactor[b]]
      BY DEF CompactionInv, IInv
    <3> QED
      BY <1>3, <1>4, <3>1
  <2>1. lock = c
    BY <1>3 DEF CompactionInv, IInv, HoldsLock, Works
  <2>2. compactor[d].stage = "idle"
    BY <2>1 DEF CompactionInv, IInv, HoldsLock, Works
  <2> QED
    BY <2>2 DEF CompactionInv, PlansOK, PlanOK
\* A new row has the time of a row that is deleted.
<1>8. ASSUME NEW i \in DOMAIN history', history'[i] # Gone, i \notin DOMAIN history
      PROVE  \E p \in plan, l \in DOMAIN history :
               /\ history'[i] = p.new /\ l \in DOMAIN p.old /\ l \in Ids(plan)
               /\ history[l] # Gone /\ history[l].ts = p.new.ts
  <2>1. PICK p \in plan : history'[i] = p.new
    BY <1>1, <1>8
  <2>2. PICK l \in DOMAIN p.old : p.new.ts = history[l].ts
    BY <1>5 DEF Collapses
  <2>3. l \in DOMAIN history /\ history[l].obj = p.new.obj /\ l \in Ids(plan)
    BY <1>5, <2>2 DEF Collapses, Ids
  <2>4. p.new.obj \in Objs
    <3>1. PartOK(p)
      BY DEF CompactionInv, PlansOK, PlanOK
    <3> QED
      BY <3>1 DEF PartOK, Rows
  <2>5. history[l] # Gone
    BY <2>3, <2>4, GoneIsNoRow
  <2> QED
    BY <2>1, <2>2, <2>3, <2>5
<1>9. \A i \in DOMAIN history : history'[i] # Gone => history'[i] = history[i] /\ i \notin Ids(plan)
  BY <1>1
<1>10. Distinct'
  <2> SUFFICES ASSUME NEW i \in DOMAIN history', NEW j \in DOMAIN history',
                      history'[i] # Gone, history'[j] # Gone,
                      history'[i].ts.time = history'[j].ts.time
               PROVE  i = j
    BY DEF Distinct
  <2>1. ASSUME NEW a \in DOMAIN history, NEW b \in DOMAIN history, history[a] # Gone,
               history[b] # Gone, history[a].ts.time = history[b].ts.time
        PROVE  a = b
    BY <2>1 DEF SingleOK, Distinct
  <2>2. CASE i \in DOMAIN history /\ j \in DOMAIN history
    BY <1>9, <2>1, <2>2
  <2>3. CASE i \notin DOMAIN history /\ j \in DOMAIN history
    <3>1. PICK p \in plan, l \in DOMAIN history :
            history'[i] = p.new /\ l \in Ids(plan) /\ history[l] # Gone /\ history[l].ts = p.new.ts
      BY <1>8, <2>3
    <3> QED
      BY <1>9, <2>1, <2>3, <3>1
  <2>4. CASE i \in DOMAIN history /\ j \notin DOMAIN history
    <3>1. PICK p \in plan, l \in DOMAIN history :
            history'[j] = p.new /\ l \in Ids(plan) /\ history[l] # Gone /\ history[l].ts = p.new.ts
      BY <1>8, <2>4
    <3> QED
      BY <1>9, <2>1, <2>4, <3>1
  <2>5. CASE i \notin DOMAIN history /\ j \notin DOMAIN history
    <3>1. PICK p \in plan, l \in DOMAIN history :
            /\ history'[i] = p.new /\ l \in DOMAIN p.old
            /\ history[l] # Gone /\ history[l].ts = p.new.ts
      BY <1>8, <2>5
    <3>2. PICK q \in plan, r \in DOMAIN history :
            /\ history'[j] = q.new /\ r \in DOMAIN q.old
            /\ history[r] # Gone /\ history[r].ts = q.new.ts
      BY <1>8, <2>5
    <3>3. l = r
      BY <2>1, <3>1, <3>2
    <3>4. p = q
      BY <1>6, <3>1, <3>2, <3>3 DEF Disjoint, Apart
    <3> QED
      BY <1>1, <2>5, <3>1, <3>2, <3>4
  <2> QED
    BY <2>2, <2>3, <2>4, <2>5
<1>11. ASSUME NEW o \in Objs
       PROVE  Reads(NoObject, history', RowsOf(history', o), MaterializeCRDT(objects'[o]))
  <2> DEFINE S == RowsOf(history, o)
             N == {i \in DOMAIN history' \ DOMAIN history : history'[i].obj = o}
  <2>1. Reads(NoObject, history, S, MaterializeCRDT(objects[o]))
    BY DEF SingleOK
  <2>2. \A p \in plan : p.new.obj = o => DOMAIN p.old \subseteq S
    BY <1>5 DEF Collapses, RowsOf
  <2>3. Reads(NoObject, history', (S \ Ids(plan)) \cup N, MaterializeCRDT(objects[o]))
    BY <2>1, <2>2, RewriteKeepsReads
  <2>4. RowsOf(history', o) = (S \ Ids(plan)) \cup N
    <3>1. Gone.obj # o
      BY GoneIsNoRow
    <3> QED
      BY <1>1, <3>1 DEF RowsOf
  <2> QED
    BY <1>3, <2>3, <2>4
<1>12. Disjoint({})
  BY DEF Disjoint, Apart
<1> QED
  BY <1>7, <1>10, <1>11, <1>12 DEF SingleOK

LEMMA SingleStep == CompactionInv /\ SingleOK /\ expired = {} /\ [Next]_vars => SingleOK'
<1> SUFFICES ASSUME CompactionInv, SingleOK, expired = {}, [Next]_vars PROVE SingleOK'
  OBVIOUS
<1>1. compactor = [c \in Compactors |-> compactor[c]]
  BY DEF CompactionInv, IInv
<1>2. ASSUME NEW c \in Compactors, NEW x, x.plan = {}, compactor' = [compactor EXCEPT ![c] = x],
             UNCHANGED <<objects, history>>
      PROVE  SingleOK'
  <2>1. \A d \in Compactors : compactor'[d].plan = compactor[d].plan \/ compactor'[d].plan = {}
    BY <1>1, <1>2
  <2> QED
    BY <1>2, <2>1, RestKeepsSingle
<1>3. CASE Publish
  <2>1. UNCHANGED <<objects, history, compactor>>
    BY <1>3, PublishKeepsLog DEF Publish, CompactionInv
  <2> QED
    BY <2>1, RestKeepsSingle
<1>4. ASSUME NEW n \in DOMAIN events, Handle(n) PROVE SingleOK'
  <2>1. Log!Oldest(n) /\ Log!Handle(n) /\ UNCHANGED compactor
    BY <1>4 DEF Handle
  <2>2. /\ n \notin processed
        /\ UNCHANGED <<objects, history>> \/ \E row : Writes(n, row)
    BY <2>1, HandleWrites DEF CompactionInv
  <2>3. CASE UNCHANGED <<objects, history>>
    BY <2>1, <2>3, RestKeepsSingle
  <2>4. CASE \E row : Writes(n, row)
    BY <2>1, <2>2, <2>4, WriteKeepsSingle
  <2> QED
    BY <2>2, <2>3, <2>4
<1>5. CASE ReadObjects \/ CreateSnapshot \/ SnapshotFails \/ LockExpires \/ UNCHANGED vars
  <2>1. UNCHANGED <<objects, history, compactor>>
    BY <1>5 DEF ReadObjects, CreateSnapshot, SnapshotFails, LockExpires, vars, store
  <2> QED
    BY <2>1, RestKeepsSingle
<1>6. ASSUME NEW c \in Compactors, Begin(c) PROVE SingleOK'
  <2>1. PICK x : x = [Idle EXCEPT !.stage = "begun", !.cutoff = snapshot.createdAt]
    OBVIOUS
  <2>2. x.plan = {}
    BY <2>1 DEF Idle
  <2> QED
    BY <1>2, <1>6, <2>1, <2>2 DEF Begin, store
<1>7. ASSUME NEW c \in Compactors, ReadLog(c) PROVE SingleOK'
  BY <1>7, ReadLogKeepsSingle
<1>8. ASSUME NEW c \in Compactors, Rewrite(c) PROVE SingleOK'
  BY <1>8, RewriteKeepsSingle
<1>9. ASSUME NEW c \in Compactors, Throws(c) PROVE SingleOK'
  <2>1. PICK x : x = [Idle EXCEPT !.stage = "done"]
    OBVIOUS
  <2>2. x.plan = {}
    BY <2>1 DEF Idle
  <2> QED
    BY <1>2, <1>9, <2>1, <2>2 DEF Throws, store
<1>10. ASSUME NEW c \in Compactors, Release(c) \/ Dies(c) PROVE SingleOK'
  <2>1. Idle.plan = {} /\ compactor' = [compactor EXCEPT ![c] = Idle] /\ UNCHANGED <<objects, history>>
    BY <1>10, IdleState DEF Release, Dies, store
  <2> QED
    BY <1>2, <2>1
<1> QED
  BY <1>3, <1>4, <1>5, <1>6, <1>7, <1>8, <1>9, <1>10 DEF Next

\* The rows of an object can be merged into nothing.
LEMMA RowsAreRipe ==
  ASSUME LogOK, Distinct, NEW o \in Objs, NEW S \in SUBSET RowsOf(history, o)
  PROVE  Ripe(NoObject, history, S)
<1>1. Len(history) \in Nat /\ DOMAIN history = 1..Len(history)
  BY LogFacts
<1>2. \A i \in S : i \in DOMAIN history /\ history[i] # Gone /\ history[i].ts \in Timestamps
  <2>1. \A i \in S : i \in DOMAIN history /\ history[i].obj = o
    BY DEF RowsOf
  <2> QED
    BY <2>1, LogFacts
<1>3. \A i, j \in S : history[i].ts.time = history[j].ts.time => i = j
  BY <1>2 DEF Distinct
<1>4. IsFiniteSet(S)
  <2>1. IsFiniteSet(1..Len(history)) /\ S \subseteq 1..Len(history)
    BY <1>1, <1>2, FS_Interval
  <2> QED
    BY <2>1, FS_Subset
<1>5. MaxEvents \in Nat /\ Times \subseteq 0..MaxEvents
  BY CompactionAssumption
<1>6. Legible(history, S)
  BY <1>2, <1>3, <1>4, <1>5 DEF Legible
<1>7. Stamped(NoObject) /\ DOMAIN NoObject = {}
  BY DEF Stamped, NoObject
<1> QED
  BY <1>6, <1>7 DEF Ripe

LEMMA ReplaysValues ==
  ASSUME LogOK, SingleOK, NEW o \in Objs
  PROVE  MaterializeCRDT(Replayed(history, o)) = MaterializeCRDT(objects[o])
<1> DEFINE S == RowsOf(history, o)
<1>1. Replayed(history, o) = MergedInto(NoObject, history, S)
  BY DEF Replayed, Merged, RowsOf
<1>2. Ripe(NoObject, history, S)
  BY RowsAreRipe DEF SingleOK
<1>3. Reads(NoObject, history, S, MaterializeCRDT(objects[o]))
  BY DEF SingleOK
<1> HIDE DEF S
<1>4. MaterializeCRDT(objects[o]) = MaterializeCRDT(MergedInto(NoObject, history, S))
  BY <1>2, <1>3, ReadsMerged
<1> QED
  BY <1>1, <1>4

\* What a load reads of object o.
LiveRows(h, o) == {i \in DOMAIN h : h[i].obj = o /\ ~h[i].undone /\ ~h[i].invalidated}

LoadsRipe == \A o \in Objs : Ripe(NoObject, history, LiveRows(history, o))

LEMMA ReplaysNow == LogOK /\ SingleOK => ReplayKeepsValues /\ LoadsRipe
<1> SUFFICES ASSUME LogOK, SingleOK PROVE ReplayKeepsValues /\ LoadsRipe
  OBVIOUS
<1>1. ReplayKeepsValues
  BY ReplaysValues DEF ReplayKeepsValues
<1>2. ASSUME NEW o \in Objs PROVE Ripe(NoObject, history, LiveRows(history, o))
  <2>1. LiveRows(history, o) \in SUBSET RowsOf(history, o)
    BY DEF LiveRows, RowsOf
  <2> QED
    BY <2>1, RowsAreRipe DEF SingleOK
<1> QED
  BY <1>1, <1>2 DEF LoadsRipe

LEMMA SingleInvariant == Spec /\ [](expired = {}) => [](CompactionInv /\ SingleOK)
  BY SingleInit, SingleStep, CompactionInvariant, PTL DEF Spec

\* As long as no lock runs out under a compactor at work, the log replays to the values
\* the objects hold, whatever was compacted and however events, snapshots, failures and
\* deaths of compactors fall between the steps of a compaction.
THEOREM ReplayAlwaysKeepsValues == Spec /\ [](expired = {}) => []ReplayKeepsValues
<1>1. CompactionInv /\ SingleOK => ReplayKeepsValues
  BY ReplaysNow DEF CompactionInv
<1> QED
  BY <1>1, SingleInvariant, PTL

\* A compaction of rows that nobody has touched shows in neither reading of the log.
LEMMA RewriteShowsSame ==
  ASSUME CompactionInv, SingleOK, ReplayKeepsValues, ReplayKeepsValues', LoadsRipe, LoadsRipe',
         NEW c \in Compactors, Rewrite(c),
         \A p \in compactor[c].plan : \A i \in DOMAIN p.old : history[i] = p.old[i],
         NEW o \in Objs
  PROVE  /\ Shown(Loaded(history', o)) = Shown(Loaded(history, o))
         /\ Shown(Replayed(history', o)) = Shown(Replayed(history, o))
<1> DEFINE plan == compactor[c].plan
           S == LiveRows(history, o)
           N == {i \in DOMAIN history' \ DOMAIN history : history'[i].obj = o}
           f == MaterializeCRDT(Loaded(history, o))
<1>1. /\ DOMAIN history \subseteq DOMAIN history'
      /\ \A i \in DOMAIN history :
           history'[i] = IF i \in Ids(compactor[c].plan) THEN Gone ELSE history[i]
      /\ \A i \in DOMAIN history' \ DOMAIN history :
           \E p \in compactor[c].plan : history'[i] = p.new
      /\ \A p \in compactor[c].plan : PartOK(p)
  BY RewriteEffect
<1>2. \A p \in plan : Collapses(history, p)
  BY DEF SingleOK
<1>3. Disjoint(plan)
  BY DEF SingleOK
<1>4. S \in SUBSET RowsOf(history, o)
  BY DEF LiveRows, RowsOf
<1>5. \A p \in plan : p.new.obj = o => DOMAIN p.old \subseteq S
  <2> SUFFICES ASSUME NEW p \in plan, p.new.obj = o, NEW i \in DOMAIN p.old
               PROVE  i \in S
    OBVIOUS
  <2>1. i \in DOMAIN history /\ history[i].obj = o
    BY <1>2 DEF Collapses
  <2>2. history[i] = p.old[i]
    OBVIOUS
  <2>3. ~p.old[i].undone /\ ~p.old[i].invalidated
    BY <1>3 DEF Disjoint
  <2> QED
    BY <2>1, <2>2, <2>3 DEF LiveRows
<1>6. Loaded(history, o) = MergedInto(NoObject, history, S)
  BY DEF Loaded, Merged, LiveRows
<1>7. Reads(NoObject, history, S, f)
  <2>1. Ripe(NoObject, history, S)
    BY DEF LoadsRipe
  <2> HIDE DEF S
  <2> QED
    BY <1>6, <2>1, ReadsMerged
<1> HIDE DEF f
<1>8. Reads(NoObject, history', (S \ Ids(plan)) \cup N, f)
  <2> HIDE DEF S
  <2> QED
    BY <1>4, <1>5, <1>7, RewriteKeepsReads
<1>9. LiveRows(history', o) = (S \ Ids(plan)) \cup N
  <2>1. Gone.obj # o
    BY GoneIsNoRow
  <2>2. \A i \in DOMAIN history' \ DOMAIN history : ~history'[i].undone /\ ~history'[i].invalidated
    BY <1>1 DEF PartOK
  <2>3. \A i \in DOMAIN history : i \in LiveRows(history', o) <=> i \in S /\ i \notin Ids(plan)
    BY <1>1, <2>1 DEF LiveRows
  <2>4. \A i \in DOMAIN history' \ DOMAIN history : i \in LiveRows(history', o) <=> i \in N
    BY <2>2 DEF LiveRows
  <2>5. LiveRows(history', o) \subseteq DOMAIN history' /\ S \subseteq DOMAIN history
    BY DEF LiveRows
  <2> HIDE DEF S
  <2> QED
    BY <1>1, <2>3, <2>4, <2>5
<1>10. Loaded(history', o) = MergedInto(NoObject, history', LiveRows(history', o))
  BY DEF Loaded, Merged, LiveRows
<1>11. Ripe(NoObject, history', LiveRows(history', o))
  BY DEF LoadsRipe
<1>12. f = MaterializeCRDT(Loaded(history', o))
  <2>1. PICK g, U : g = history' /\ U = LiveRows(history', o)
    OBVIOUS
  <2>2. Ripe(NoObject, g, U) /\ Reads(NoObject, g, U, f)
    BY <1>8, <1>9, <1>11, <2>1
  <2>3. f = MaterializeCRDT(MergedInto(NoObject, g, U))
    BY ONLY <2>2, ReadsMerged
  <2> QED
    BY <1>10, <2>1, <2>3
<1>13. Shown(Loaded(history', o)) = Shown(Loaded(history, o))
  <2>1. PICK a, b : a = Loaded(history', o) /\ b = Loaded(history, o)
    OBVIOUS
  <2>2. MaterializeCRDT(a) = MaterializeCRDT(b)
    BY <1>12, <2>1 DEF f
  <2> QED
    BY <2>1, <2>2, ShownOfSame
<1>14. Shown(Replayed(history', o)) = Shown(Replayed(history, o))
  <2>1. MaterializeCRDT(Replayed(history, o)) = MaterializeCRDT(objects[o])
    BY DEF ReplayKeepsValues
  <2>2. MaterializeCRDT(Replayed(history', o)) = MaterializeCRDT(objects'[o])
    BY DEF ReplayKeepsValues
  <2>3. objects' = objects
    BY DEF Rewrite
  <2>4. PICK a, b : a = Replayed(history', o) /\ b = Replayed(history, o)
    OBVIOUS
  <2>5. MaterializeCRDT(a) = MaterializeCRDT(b)
    BY <2>1, <2>2, <2>3, <2>4
  <2> QED
    BY <2>4, <2>5, ShownOfSame
<1> QED
  BY <1>13, <1>14

\* No other step changes both the log and a plan.
LEMMA OnlyRewrites ==
  ASSUME CompactionInv, [Next]_vars, NEW c \in Compactors, history' # history,
         compactor'[c] # compactor[c]
  PROVE  Rewrite(c)
<1>1. ASSUME UNCHANGED compactor \/ UNCHANGED history PROVE FALSE
  BY <1>1
<1>2. compactor = [d \in Compactors |-> compactor[d]]
  BY DEF CompactionInv, IInv
<1>3. ~(Publish \/ ReadObjects \/ CreateSnapshot \/ SnapshotFails \/ LockExpires \/ UNCHANGED vars)
  BY <1>1 DEF Publish, ReadObjects, CreateSnapshot, SnapshotFails, LockExpires, vars, store
<1>4. ~\E n \in DOMAIN events : Handle(n)
  BY <1>1 DEF Handle
<1>5. PICK d \in Compactors :
        Begin(d) \/ ReadLog(d) \/ Rewrite(d) \/ Throws(d) \/ Release(d) \/ Dies(d)
  BY <1>3, <1>4 DEF Next
<1>6. ~(Begin(d) \/ ReadLog(d) \/ Throws(d) \/ Release(d) \/ Dies(d))
  BY <1>1 DEF Begin, ReadLog, Throws, Release, Dies, store
<1>7. Rewrite(d)
  BY <1>5, <1>6
<1>8. PICK x : compactor' = [compactor EXCEPT ![d] = x]
  BY <1>7 DEF Rewrite
<1>9. c = d
  BY <1>2, <1>8
<1> QED
  BY <1>7, <1>9

\* As long as no lock runs out under a compactor at work, a compaction of rows that nobody
\* has touched since it read them changes neither what a load nor what a replay shows.
THEOREM CompactionAlwaysInvisible == Spec /\ [](expired = {}) => CompactionInvisible
<1> DEFINE Untouched(c) ==
             \A p \in compactor[c].plan : \A i \in DOMAIN p.old : history[i] = p.old[i]
<1>1. /\ CompactionInv /\ SingleOK /\ ReplayKeepsValues /\ LoadsRipe
      /\ (ReplayKeepsValues /\ LoadsRipe)' /\ [Next]_vars
      => [\A c \in Compactors :
            LET untouched == \A p \in compactor[c].plan :
                               \A i \in DOMAIN p.old : history[i] = p.old[i]
            IN  history' # history /\ compactor[c] # compactor'[c] /\ untouched =>
                  \A o \in Objs :
                    /\ Shown(Loaded(history, o))' = Shown(Loaded(history, o))
                    /\ Shown(Replayed(history, o))' = Shown(Replayed(history, o))]_vars
  <2> SUFFICES ASSUME CompactionInv, SingleOK, ReplayKeepsValues, LoadsRipe, ReplayKeepsValues',
                      LoadsRipe', [Next]_vars, NEW c \in Compactors, history' # history,
                      compactor[c] # compactor'[c], Untouched(c), NEW o \in Objs
               PROVE  /\ Shown(Loaded(history, o))' = Shown(Loaded(history, o))
                      /\ Shown(Replayed(history, o))' = Shown(Replayed(history, o))
    OBVIOUS
  <2>1. Rewrite(c)
    BY OnlyRewrites
  <2>2. /\ Shown(Loaded(history', o)) = Shown(Loaded(history, o))
        /\ Shown(Replayed(history', o)) = Shown(Replayed(history, o))
    BY <2>1, RewriteShowsSame
  <2> QED
    BY <2>2
<1>2. CompactionInv /\ SingleOK => ReplayKeepsValues /\ LoadsRipe
  BY ReplaysNow DEF CompactionInv
<1> QED
  BY <1>1, <1>2, SingleInvariant, PTL DEF Spec, CompactionInvisible

=============================================================================
