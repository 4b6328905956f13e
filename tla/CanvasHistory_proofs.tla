------------------------- MODULE CanvasHistory_proofs -------------------------
(***************************************************************************)
(* What the canvas of a room promises, for any number of users, objects,   *)
(* properties and events.                                                  *)
(*                                                                         *)
(* The log can be read back: the stored objects are, property by property, *)
(* the newest writes of the log (Stored), and so is a replay, since merges *)
(* in the order of the timestamps have that closed form (MergedIsLatest of *)
(* CanvasStore_proofs).  A redo is validated: an undone row has an undo of *)
(* its own user (OwnMarkers).  With events in order and without deletions  *)
(* the draws of a user are undone like a stack (Stacked), which makes a    *)
(* load show the live objects and an undo bring back what was shown.       *)
(*                                                                         *)
(* At the end, what holds of merges in any order: CanvasConvergence.       *)
(***************************************************************************)
EXTENDS CanvasHistory, CanvasConvergence, CanvasStore_proofs, TLAPS

LEMMA DeletedType == Deleted \in Props
<1>1. {"deleted"} \in SUBSET Keys /\ 0 \in Values
  BY HistoryAssumption
<1>2. Deleted \in [{"deleted"} -> Values]
  BY <1>1 DEF Deleted
<1> QED
  BY <1>1, <1>2 DEF Props

LEMMA EventTypes ==
  ASSUME TypeOK
  PROVE  /\ events \in Seq(Events) /\ Len(events) \in 0..MaxEvents
         /\ DOMAIN events = 1..Len(events)
         /\ DOMAIN events \subseteq 1..MaxEvents
         /\ \A n \in DOMAIN events : events[n].user \in Actors /\ events[n].kind \in Kinds
                                     /\ events[n].obj \in Objs
                                     /\ events[n].keys \in Extras
<1>1. events \in Seq(Events) /\ Len(events) <= MaxEvents
  BY DEF TypeOK
<1>2. \A n \in DOMAIN events : events[n] \in Events
  BY <1>1
<1> QED
  BY <1>1, <1>2, HistoryAssumption DEF Events

LEMMA StampAndPatchTypes ==
  ASSUME TypeOK, NEW n \in DOMAIN events
  PROVE  Stamp(n) \in Timestamps /\ Patch(n) \in Props
<1>1. n \in 1..MaxEvents /\ events[n].user \in Actors
  BY EventTypes
<1>2. Stamp(n) \in Timestamps
  BY <1>1, HistoryAssumption DEF Stamp, Timestamps
<1> DEFINE K == {"shape"} \cup events[n].keys
<1>3. K \in SUBSET Keys /\ n \in Values
  BY <1>1, EventTypes, HistoryAssumption
<1>4. [k \in K |-> n] \in [K -> Values]
  BY <1>3
<1>5. [k \in K |-> n] \in Props
  BY <1>3, <1>4 DEF Props
<1> QED
  BY <1>2, <1>5, DeletedType DEF Patch

-----------------------------------------------------------------------------
(* The invariant.                                                          *)

\* Every row carries the timestamp of its event, which is processed and has no other row,
\* and its flags follow its markers.
LogInv ==
  /\ \A i \in DOMAIN history :
       history[i].event \in processed /\ history[i].ts = Stamp(history[i].event)
  /\ \A i, j \in DOMAIN history : history[i].event = history[j].event => i = j
  /\ Consistent(history)

RowsOf(h, o) == {i \in DOMAIN h : h[i].obj = o}

\* The stored objects hold the newest writes of the log.
Stored == \A o \in Objs : objects[o] = Latest(history, RowsOf(history, o))

\* Undos and redos reference rows of their own user.
OwnMarkers ==
  \A j \in DOMAIN history :
    history[j].ref # 0 => history[j].user = history[history[j].ref].user

NoRedoPast(j) ==
  \E k \in 1..(j - 1) :
    /\ history[k].kind = "UNDO" /\ history[k].ref = history[j].ref
    /\ \A d \in DrawRows(history, history[j].user) :
         d < j => ~(/\ history[k].ts.time < history[d].ts.time
                    /\ history[d].ts.time < history[j].ts.time)

HistoryInv ==
  /\ TypeOK /\ LogInv /\ Stored /\ OwnMarkers
  /\ \A j \in DOMAIN history : history[j].kind = "REDO" => NoRedoPast(j)

LEMMA NumberedIsLegible ==
  ASSUME NEW h \in Seq(Rows),
         \A i \in DOMAIN h : h[i].ts.time = h[i].event,
         \A i, j \in DOMAIN h : h[i].event = h[j].event => i = j
  PROVE  Legible(h, DOMAIN h)
<1>1. IsFiniteSet(DOMAIN h)
  <2>1. DOMAIN h = 1..Len(h) /\ Len(h) \in Nat
    OBVIOUS
  <2> QED
    BY <2>1, FS_Interval
<1>2. \E n \in Nat : Times \subseteq 0..n
  <2>1. Times \subseteq 0..MaxEvents /\ MaxEvents \in Nat
    BY HistoryAssumption
  <2> QED
    BY <2>1
<1>3. \A i \in DOMAIN h : h[i].ts \in Timestamps
  <2>1. \A i \in DOMAIN h : h[i] \in Rows
    OBVIOUS
  <2> QED
    BY <2>1 DEF Rows
<1> QED
  BY <1>1, <1>2, <1>3 DEF Legible

\* The log and what undo and redo find in it.
LEMMA LogTypes ==
  ASSUME HistoryInv
  PROVE  /\ history \in Seq(Rows) /\ Len(history) \in Nat
         /\ DOMAIN history = 1..Len(history)
         /\ \A i \in DOMAIN history : history[i].ts.time = history[i].event
         /\ Legible(history, DOMAIN history) /\ TimesAreDistinct(history)
         /\ Times \subseteq 0..MaxEvents /\ MaxEvents \in Nat
<1>1. history \in Seq(Rows)
  BY DEF HistoryInv, TypeOK
<1>2. Len(history) \in Nat /\ DOMAIN history = 1..Len(history)
  BY <1>1, RowTypes
<1>3. \A i \in DOMAIN history : history[i].ts.time = history[i].event
  <2>1. \A n : Stamp(n).time = n
    BY DEF Stamp
  <2>2. \A i \in DOMAIN history : history[i].ts = Stamp(history[i].event)
    BY DEF HistoryInv, LogInv
  <2> QED
    BY <2>1, <2>2
<1>4. Legible(history, DOMAIN history)
  BY <1>1, <1>3, NumberedIsLegible DEF HistoryInv, LogInv
<1>5. Times \subseteq 0..MaxEvents /\ MaxEvents \in Nat
  BY HistoryAssumption
<1>6. TimesAreDistinct(history)
  BY <1>4 DEF Legible, TimesAreDistinct
<1> QED
  BY <1>1, <1>2, <1>3, <1>4, <1>5, <1>6

LEMMA HistoryInitInv == Init => HistoryInv
<1> SUFFICES ASSUME Init PROVE HistoryInv
  OBVIOUS
<1>1. events = << >> /\ processed = {} /\ history = << >>
  BY DEF Init
<1>2. TypeOK
  <2>1. objects \in [Objs -> Objects]
    BY NoObjectType DEF Init
  <2> QED
    BY <1>1, <2>1, HistoryAssumption DEF TypeOK
<1>3. Stored
  <2> SUFFICES ASSUME NEW o \in Objs PROVE objects[o] = Latest(history, RowsOf(history, o))
    BY DEF Stored
  <2>1. objects[o] = NoObject /\ RowsOf(history, o) = {}
    BY <1>1 DEF Init, RowsOf
  <2> QED
    BY <2>1 DEF Latest, NoObject
<1> QED
  BY <1>1, <1>2, <1>3 DEF HistoryInv, LogInv, Consistent, RefsGoBack, OwnMarkers

\* An event becomes a row, in a log that differs in flags only.
LEMMA RowAdded ==
  ASSUME HistoryInv, NEW n \in DOMAIN events \ processed,
         NEW g \in Seq(Rows), NEW row \in Rows,
         SameButFlags(g, history), Consistent(Append(g, row)),
         row.event = n, row.ts = Stamp(n),
         row.ref # 0 => row.ref \in DOMAIN history /\ row.user = history[row.ref].user,
         history' = Append(g, row), processed' = processed \cup {n}, UNCHANGED events,
         objects' = WriteObject(objects, row.obj, objects[row.obj], row.after, row.ts),
         row.kind = "REDO" =>
           \E k \in DOMAIN history :
             /\ history[k].kind = "UNDO" /\ history[k].ref = row.ref
             /\ \A d \in DrawRows(history, row.user) :
                  ~(history[k].ts.time < history[d].ts.time)
  PROVE  HistoryInv'
<1> DEFINE m == Len(history) + 1
<1>1. history \in Seq(Rows) /\ Len(history) \in Nat /\ DOMAIN history = 1..Len(history)
  BY LogTypes
<1>2. /\ history' \in Seq(Rows) /\ DOMAIN history' = 1..m
      /\ history'[m] = row /\ \A i \in DOMAIN history : history'[i] = g[i]
  BY <1>1 DEF SameButFlags
<1>3. \A i \in DOMAIN history :
        /\ history'[i].event = history[i].event /\ history'[i].ts = history[i].ts
        /\ history'[i].user = history[i].user /\ history'[i].kind = history[i].kind
        /\ history'[i].ref = history[i].ref /\ history'[i].obj = history[i].obj
        /\ history'[i].after = history[i].after
  BY <1>1, <1>2 DEF SameButFlags
<1>4. TypeOK'
  <2>1. /\ row.obj \in Objs /\ row.after \in Props /\ row.ts \in Timestamps
        /\ objects \in [Objs -> Objects] /\ objects[row.obj] \in Objects
    BY DEF Rows, HistoryInv, TypeOK
  <2>2. objects' \in [Objs -> Objects]
    BY <2>1, WriteObjectType
  <2> QED
    BY <1>2, <2>2 DEF HistoryInv, TypeOK
<1>5. LogInv'
  <2>1. ASSUME NEW i \in DOMAIN history'
        PROVE  /\ history'[i].event \in processed'
               /\ history'[i].ts = Stamp(history[i].event)'
    <3>1. CASE i = m
      BY <1>2, <3>1 DEF Stamp
    <3>2. CASE i \in DOMAIN history
      BY <1>3, <3>2 DEF HistoryInv, LogInv, Stamp
    <3> QED
      BY <1>1, <1>2, <3>1, <3>2
  <2>2. Consistent(history')
    OBVIOUS
  <2>3. ASSUME NEW i \in DOMAIN history', NEW j \in DOMAIN history',
               history'[i].event = history'[j].event
        PROVE  i = j
    <3>1. \A l \in DOMAIN history : history'[l].event \in processed /\ n \notin processed
      BY <1>3 DEF HistoryInv, LogInv
    <3>2. history'[m].event = n /\ \A l \in DOMAIN history' : l = m \/ l \in DOMAIN history
      BY <1>1, <1>2
    <3>3. \A k, l \in DOMAIN history : history'[k].event = history'[l].event => k = l
      BY <1>3 DEF HistoryInv, LogInv
    <3> QED
      BY <2>3, <3>1, <3>2, <3>3
  <2> QED
    BY <2>1, <2>2, <2>3 DEF LogInv
<1>6. RefsGoBack(history)
  BY DEF HistoryInv, LogInv, Consistent
<1>7. \A i \in DOMAIN history : history[i].ref # 0 => history[i].ref \in DOMAIN history
  <2> SUFFICES ASSUME NEW i \in DOMAIN history, history[i].ref # 0
               PROVE  history[i].ref \in DOMAIN history
    OBVIOUS
  <2>1. history[i].ref \in Nat /\ history[i].ref < i
    BY <1>1, <1>6, RowTypes DEF RefsGoBack
  <2> QED
    BY <1>1, <2>1
<1>8. OwnMarkers'
  <2> SUFFICES ASSUME NEW i \in DOMAIN history', history'[i].ref # 0
               PROVE  history'[i].user = history'[history'[i].ref].user
    BY DEF OwnMarkers
  <2>1. CASE i = m
    BY <1>2, <1>3, <2>1
  <2>2. CASE i \in DOMAIN history
    <3>1. history[i].ref # 0 /\ history[i].ref \in DOMAIN history
      BY <1>3, <1>7, <2>2
    <3>2. history[i].user = history[history[i].ref].user
      BY <2>2, <3>1 DEF HistoryInv, OwnMarkers
    <3> QED
      BY <1>3, <2>2, <3>1, <3>2
  <2>3. i = m \/ i \in DOMAIN history
    BY <1>1, <1>2
  <2> QED
    BY <2>1, <2>2, <2>3
<1>9. ASSUME NEW u, NEW d \in DrawRows(history', u), d # m
      PROVE  d \in DOMAIN history /\ d \in DrawRows(history, u)
  BY <1>1, <1>2, <1>3, <1>9 DEF DrawRows
<1>10. ASSUME NEW j \in DOMAIN history', history'[j].kind = "REDO" PROVE NoRedoPast(j)'
  <2>1. CASE j \in DOMAIN history
    <3>1. PICK k \in 1..(j - 1) :
            /\ history[k].kind = "UNDO" /\ history[k].ref = history[j].ref
            /\ \A d \in DrawRows(history, history[j].user) :
                 d < j => ~(/\ history[k].ts.time < history[d].ts.time
                            /\ history[d].ts.time < history[j].ts.time)
      BY <1>3, <1>10, <2>1 DEF HistoryInv, NoRedoPast
    <3>2. k \in DOMAIN history
      BY <1>1, <2>1
    <3>3. ASSUME NEW d \in DrawRows(history', history[j].user), d < j
          PROVE  ~(/\ history'[k].ts.time < history'[d].ts.time
                   /\ history'[d].ts.time < history'[j].ts.time)
      <4>1. d # m
        BY <1>1, <2>1, <3>3
      <4>2. d \in DOMAIN history /\ d \in DrawRows(history, history[j].user)
        BY <1>9, <4>1
      <4> QED
        BY <1>3, <2>1, <3>1, <3>2, <3>3, <4>2
    <3>4. /\ k \in 1..(j - 1)
          /\ history'[k].kind = "UNDO" /\ history'[k].ref = history'[j].ref
          /\ history'[k].ts = history[k].ts /\ history'[j].ts = history[j].ts
          /\ history'[j].user = history[j].user
      BY <1>3, <2>1, <3>1, <3>2
    <3>5. \A d \in DrawRows(history', history'[j].user) :
            d < j => ~(/\ history'[k].ts.time < history'[d].ts.time
                       /\ history'[d].ts.time < history'[j].ts.time)
      BY <3>3, <3>4
    <3> QED
      BY <3>4, <3>5 DEF NoRedoPast, DrawRows
  <2>2. CASE j = m
    <3>1. PICK k \in DOMAIN history :
            /\ history[k].kind = "UNDO" /\ history[k].ref = row.ref
            /\ \A d \in DrawRows(history, row.user) :
                 ~(history[k].ts.time < history[d].ts.time)
      BY <1>2, <1>10, <2>2
    <3>2. k \in 1..(j - 1)
      BY <1>1, <2>2
    <3>3. ASSUME NEW d \in DrawRows(history', row.user), d < j
          PROVE  ~(history'[k].ts.time < history'[d].ts.time)
      <4>1. d # m
        BY <2>2, <3>3, <1>1, <1>2 DEF DrawRows
      <4>2. d \in DOMAIN history /\ d \in DrawRows(history, row.user)
        BY <1>9, <4>1
      <4> QED
        BY <1>3, <3>1, <4>2
    <3>4. /\ history'[k].kind = "UNDO" /\ history'[k].ref = history'[j].ref
          /\ history'[j].user = row.user
      BY <1>2, <1>3, <2>2, <3>1
    <3>5. \A d \in DrawRows(history', history'[j].user) :
            d < j => ~(/\ history'[k].ts.time < history'[d].ts.time
                       /\ history'[d].ts.time < history'[j].ts.time)
      BY <3>3, <3>4
    <3> QED
      BY <3>2, <3>4, <3>5 DEF NoRedoPast, DrawRows
  <2>3. j = m \/ j \in DOMAIN history
    BY <1>1, <1>2
  <2> QED
    BY <2>1, <2>2, <2>3
<1>11. Stored'
  <2>1. Legible(history', DOMAIN history')
    <3>1. \A i \in DOMAIN history' : history'[i].ts.time = history'[i].event
      <4>1. ASSUME NEW x PROVE Stamp(x)'.time = x
        BY DEF Stamp
      <4>2. ASSUME NEW i \in DOMAIN history' PROVE history'[i].ts = Stamp(history[i].event)'
        BY <1>5 DEF LogInv
      <4> QED
        BY <4>1, <4>2
    <3>2. \A i, j \in DOMAIN history' : history'[i].event = history'[j].event => i = j
      BY <1>5 DEF LogInv
    <3> QED
      BY <1>2, <3>1, <3>2, NumberedIsLegible
  <2>2. Legible(history, DOMAIN history)
    BY LogTypes
  <2>3. ASSUME NEW o \in Objs
        PROVE  /\ RowsOf(history, o) \in SUBSET (DOMAIN history)
               /\ Latest(history', RowsOf(history, o)) = objects[o]
    <3>1. RowsOf(history, o) \in SUBSET (DOMAIN history)
      BY DEF RowsOf
    <3>2. \A i \in RowsOf(history, o) : /\ history'[i].after = history[i].after
                                        /\ history'[i].ts = history[i].ts
      BY <1>3, <3>1
    <3>3. Latest(history', RowsOf(history, o)) = Latest(history, RowsOf(history, o))
      BY <2>2, <3>1, <3>2, LatestOfSame
    <3> QED
      BY <3>1, <3>3 DEF HistoryInv, Stored
  <2>4. ASSUME NEW o \in Objs
        PROVE  RowsOf(history', o) = IF o = row.obj THEN RowsOf(history, o) \cup {m}
                                     ELSE RowsOf(history, o)
    BY <1>1, <1>2, <1>3 DEF RowsOf
  <2>5. ASSUME NEW o \in Objs PROVE objects'[o] = Latest(history', RowsOf(history', o))
    <3>1. CASE o # row.obj
      <4>1. objects'[o] = objects[o]
        BY <3>1 DEF WriteObject, HistoryInv, TypeOK
      <4> QED
        BY <2>3, <2>4, <3>1, <4>1
    <3>2. CASE o = row.obj
      <4>1. objects'[o] = MergeCRDT(objects[o], row.after, row.ts)
        BY <3>2 DEF WriteObject, HistoryInv, TypeOK
      <4>2. /\ RowsOf(history, o) \in SUBSET (DOMAIN history')
            /\ m \in DOMAIN history' \ RowsOf(history, o)
        BY <1>1, <1>2, <2>3
      <4>3. Latest(history', RowsOf(history, o) \cup {m}) =
              MergeCRDT(Latest(history', RowsOf(history, o)), history'[m].after, history'[m].ts)
        <5> DEFINE D == DOMAIN history'
                   S == RowsOf(history, o)
        <5>1. Legible(history', D) /\ S \in SUBSET D /\ m \in D \ S
          BY <2>1, <4>2
        <5> HIDE DEF D, S, m
        <5>2. Latest(history', S \cup {m}) =
                MergeCRDT(Latest(history', S), history'[m].after, history'[m].ts)
          BY <5>1, LatestGrows
        <5> QED
          BY <5>2 DEF S
      <4> QED
        BY <1>2, <2>3, <2>4, <3>2, <4>1, <4>3
    <3> QED
      BY <3>1, <3>2
  <2> QED
    BY <2>5 DEF Stored
<1> QED
  BY <1>4, <1>5, <1>8, <1>10, <1>11 DEF HistoryInv

LEMMA DrawKeepsHistory ==
  ASSUME HistoryInv, NEW n \in DOMAIN events \ processed, Draw(n),
         processed' = processed \cup {n}, UNCHANGED events
  PROVE  HistoryInv'
<1> DEFINE e == events[n]
           S == Redoable(history, e.user)
<1>1. PICK row : row = DrawRow(n, e.user, e.kind, e.obj, objects[e.obj], Patch(n),
                               Stamp(n))
  OBVIOUS
<1>2. PICK g : g = Invalidate(history, S)
  OBVIOUS
<1>3. /\ e.kind \in Draws /\ history' = Append(g, row)
      /\ objects' = WriteObject(objects, e.obj, objects[e.obj], Patch(n), Stamp(n))
  BY <1>1, <1>2 DEF Draw
<1>4. /\ n \in Nat /\ e.user \in Actors /\ e.obj \in Objs
      /\ Patch(n) \in Props /\ Stamp(n) \in Timestamps
      /\ objects \in [Objs -> Objects] /\ objects[e.obj] \in Objects
  BY EventTypes, StampAndPatchTypes DEF HistoryInv, TypeOK
<1>5. /\ row \in Rows /\ row.event = n /\ row.ts = Stamp(n)
      /\ row.obj = e.obj /\ row.after = Patch(n)
      /\ row.ref = 0 /\ ~row.undone /\ ~row.invalidated /\ row.kind # "REDO"
  <2> HIDE DEF e
  <2>1. row \in Rows
    BY <1>1, <1>3, <1>4, DrawRowType
  <2> QED
    BY <1>1, <1>3, <2>1 DEF DrawRow, Draws
<1>6. history \in Seq(Rows) /\ Consistent(history) /\ \A i \in S : history[i].undone
  BY LogTypes DEF HistoryInv, LogInv, Redoable
<1> HIDE DEF S
<1>7. g \in Seq(Rows) /\ SameButFlags(g, history) /\ Consistent(Append(g, row))
  BY <1>2, <1>5, <1>6, InvalidateRows, DrawKeepsConsistent
<1> QED
  BY <1>3, <1>5, <1>7, RowAdded

\* An undo or a redo of the row i of its user.
LEMMA MarkerKeepsHistory ==
  ASSUME HistoryInv, NEW n \in DOMAIN events \ processed, NEW kind \in {"UNDO", "REDO"},
         NEW i \in DOMAIN history, history[i].user = events[n].user,
         NEW props \in Props, NEW g \in Seq(Rows), SameButFlags(g, history),
         ~g[i].invalidated, \A j \in DOMAIN history \ {i} : g[j] = history[j],
         \/ kind = "UNDO" /\ ~history[i].undone /\ g[i].undone
         \/ kind = "REDO" /\ history[i].undone /\ ~g[i].undone,
         objects' = WriteObject(objects, history[i].obj, objects[history[i].obj], props,
                                Stamp(n)),
         history' = Append(g, MarkerRow(n, events[n].user, kind, i, history, props,
                                        Stamp(n))),
         processed' = processed \cup {n}, UNCHANGED events,
         kind = "REDO" =>
           \E k \in DOMAIN history :
             /\ history[k].kind = "UNDO" /\ history[k].ref = i
             /\ \A d \in DrawRows(history, events[n].user) :
                  ~(history[k].ts.time < history[d].ts.time)
  PROVE  HistoryInv'
<1>1. PICK row : row = MarkerRow(n, events[n].user, kind, i, history, props, Stamp(n))
  OBVIOUS
<1>2. /\ n \in Nat /\ events[n].user \in Actors /\ Stamp(n) \in Timestamps
      /\ history \in Seq(Rows) /\ history[i] \in Rows /\ objects \in [Objs -> Objects]
  BY EventTypes, StampAndPatchTypes, LogTypes, RowTypes
  DEF HistoryInv, TypeOK
<1>3. i # 0 /\ history[i].obj \in Objs /\ objects[history[i].obj] \in Objects
  BY <1>2, RowTypes DEF Rows
<1>4. /\ row \in Rows /\ row.event = n /\ row.ts = Stamp(n) /\ row.kind = kind
      /\ row.ref = i /\ row.user = events[n].user /\ ~row.undone /\ ~row.invalidated
      /\ row.obj = history[i].obj /\ row.after = props
  <2>1. row \in Rows
    BY <1>1, <1>2, MarkerRowType
  <2> QED
    BY <1>1, <2>1 DEF MarkerRow
<1>5. Consistent(Append(g, row))
  BY <1>2, <1>4, MarkerKeepsConsistent DEF HistoryInv, LogInv
<1> QED
  BY <1>1, <1>2, <1>3, <1>4, <1>5, RowAdded

\* Who undoes and redoes, and with which marker a redo is validated.
LEMMA TargetsOwned ==
  ASSUME HistoryInv, NEW u
  PROVE  /\ UndoTarget(history, u) # 0 =>
              /\ UndoTarget(history, u) \in DOMAIN history
              /\ history[UndoTarget(history, u)].user = u
              /\ ~history[UndoTarget(history, u)].undone
         /\ RedoTarget(history, u) # 0 =>
              /\ RedoTarget(history, u) \in DOMAIN history
              /\ history[RedoTarget(history, u)].user = u
              /\ history[RedoTarget(history, u)].undone
              /\ ~RedoBlocked(history, RedoTarget(history, u))
<1>1. /\ history \in Seq(Rows) /\ TimesAreDistinct(history)
      /\ Times \subseteq 0..MaxEvents /\ MaxEvents \in Nat
  BY LogTypes DEF HistoryInv
<1>2. ASSUME NEW S \in SUBSET (DOMAIN history), Newest(history, S) # 0
      PROVE  Newest(history, S) \in S
  BY <1>1, <1>2, NewestIsMatch DEF Newest
<1>3. UndoTarget(history, u) # 0 =>
        UndoTarget(history, u) \in {i \in DrawRows(history, u) : ~history[i].undone}
  BY <1>2 DEF UndoTarget, DrawRows
<1>4. RedoTarget(history, u) # 0 =>
        /\ RedoTarget(history, u) \in Redoable(history, u)
        /\ ~RedoBlocked(history, RedoTarget(history, u))
  BY <1>2 DEF RedoTarget, Redoable, DrawRows
<1> QED
  BY <1>3, <1>4 DEF Redoable, DrawRows

LEMMA MarkerExists ==
  ASSUME HistoryInv, NEW i \in DOMAIN history, history[i].undone, ~RedoBlocked(history, i)
  PROVE  \E k \in DOMAIN history :
           /\ history[k].kind = "UNDO" /\ history[k].ref = i
           /\ \A d \in DrawRows(history, history[i].user) :
                ~(history[k].ts.time < history[d].ts.time)
<1> DEFINE S == {j \in DOMAIN history : /\ history[j].user = history[i].user
                                        /\ history[j].kind = "UNDO" /\ history[j].ref = i}
           k == UndoMarker(history, i)
<1>1. /\ history \in Seq(Rows) /\ TimesAreDistinct(history)
      /\ Times \subseteq 0..MaxEvents /\ MaxEvents \in Nat
      /\ DOMAIN history = 1..Len(history) /\ Len(history) \in Nat
  BY LogTypes
<1>2. S # {}
  <2>1. RowFollows(history, i)
    BY DEF HistoryInv, LogInv, Consistent
  <2>2. PICK j \in DOMAIN history : history[j].ref = i /\ history[j].kind = "UNDO"
    BY <2>1 DEF RowFollows
  <2>3. history[j].user = history[i].user
    BY <1>1, <2>2 DEF HistoryInv, OwnMarkers
  <2> QED
    BY <2>2, <2>3
<1>3. k \in S
  <2>1. k = Newest(history, S)
    BY DEF UndoMarker
  <2> HIDE DEF S, k
  <2>2. S \in SUBSET (DOMAIN history)
    BY DEF S
  <2> QED
    BY <1>1, <1>2, <2>1, <2>2, NewestIsMatch
<1>4. k # 0
  BY <1>1, <1>3
<1>5. ASSUME NEW d \in DrawRows(history, history[i].user)
      PROVE  ~(history[k].ts.time < history[d].ts.time)
  <2>1. d # k /\ d \in DOMAIN history /\ history[d].user = history[i].user
    BY <1>3 DEF DrawRows, Draws
  <2>2. ~(history[d].ts.time > history[k].ts.time)
    BY <1>4, <2>1 DEF RedoBlocked
  <2>3. history[d].ts.time \in Nat /\ history[k].ts.time \in Nat
    <3>1. history[d] \in Rows /\ history[k] \in Rows
      BY <1>1, <1>3, <2>1, RowTypes
    <3> HIDE DEF k
    <3> QED
      BY <3>1, TimestampsAssumption DEF Rows, Timestamps
  <2> QED
    BY <2>2, <2>3
<1> QED
  BY <1>3, <1>5

LEMMA HandleKeepsHistory ==
  ASSUME HistoryInv, NEW n \in DOMAIN events, Handle(n)
  PROVE  HistoryInv'
<1> DEFINE u == events[n].user
<1>1. processed' = processed \cup {n} /\ UNCHANGED events /\ n \notin processed
  BY DEF Handle
<1>2. CASE Draw(n)
  BY <1>1, <1>2, DrawKeepsHistory
<1>3. CASE HandleUndo(n)
  <2> DEFINE i == UndoTarget(history, u)
  <2>1. /\ i # 0
        /\ objects' = WriteObject(objects, history[i].obj, objects[history[i].obj],
                                  InverseProps(history[i]), Stamp(n))
        /\ history' = Append(MarkUndone(history, i),
                             MarkerRow(n, u, "UNDO", i, history, InverseProps(history[i]),
                                       Stamp(n)))
    BY <1>3 DEF HandleUndo
  <2>2. i \in DOMAIN history /\ history[i].user = u /\ ~history[i].undone
    BY <2>1, TargetsOwned
  <2> HIDE DEF i
  <2>3. history \in Seq(Rows) /\ history[i] \in Rows
    BY <2>2, LogTypes, RowTypes DEF HistoryInv
  <2>4. InverseProps(history[i]) \in Props
    BY <2>3, InversePropsType, DeletedType
  <2>5. /\ MarkUndone(history, i) \in Seq(Rows)
        /\ SameButFlags(MarkUndone(history, i), history)
        /\ MarkUndone(history, i)[i].undone /\ ~MarkUndone(history, i)[i].invalidated
        /\ \A j \in DOMAIN history \ {i} : MarkUndone(history, i)[j] = history[j]
    BY <2>2, <2>3, MarkUndoneRows
  <2> QED
    BY <1>1, <2>1, <2>2, <2>4, <2>5, MarkerKeepsHistory
<1>4. CASE HandleRedo(n)
  <2> DEFINE i == RedoTarget(history, u)
  <2>1. /\ i # 0
        /\ objects' = WriteObject(objects, history[i].obj, objects[history[i].obj],
                                  history[i].after, Stamp(n))
        /\ history' = Append(MarkRedone(history, i),
                             MarkerRow(n, u, "REDO", i, history, history[i].after,
                                       Stamp(n)))
    BY <1>4 DEF HandleRedo
  <2>2. /\ i \in DOMAIN history /\ history[i].user = u /\ history[i].undone
        /\ ~RedoBlocked(history, i)
    BY <2>1, TargetsOwned
  <2> HIDE DEF i
  <2>3. history \in Seq(Rows) /\ history[i] \in Rows
    BY <2>2, LogTypes, RowTypes DEF HistoryInv
  <2>4. history[i].after \in Props
    BY <2>3 DEF Rows
  <2>5. /\ MarkRedone(history, i) \in Seq(Rows)
        /\ SameButFlags(MarkRedone(history, i), history)
        /\ ~MarkRedone(history, i)[i].undone /\ ~MarkRedone(history, i)[i].invalidated
        /\ \A j \in DOMAIN history \ {i} : MarkRedone(history, i)[j] = history[j]
    BY <2>2, <2>3, MarkRedoneRows
  <2>6. \E k \in DOMAIN history :
          /\ history[k].kind = "UNDO" /\ history[k].ref = i
          /\ \A d \in DrawRows(history, u) : ~(history[k].ts.time < history[d].ts.time)
    BY <2>2, MarkerExists
  <2> QED
    BY <1>1, <2>1, <2>2, <2>4, <2>5, <2>6, MarkerKeepsHistory
<1>5. CASE HandleNothing(n)
  <2>1. UNCHANGED <<events, objects, history>>
    BY <1>1, <1>5 DEF HandleNothing
  <2> QED
    BY <1>1, <2>1
    DEF HistoryInv, TypeOK, LogInv, Stored, OwnMarkers, NoRedoPast, Stamp
<1> QED
  BY <1>2, <1>3, <1>4, <1>5 DEF Handle

LEMMA HistoryStep == HistoryInv /\ [Next]_(vars) => HistoryInv'
<1> SUFFICES ASSUME HistoryInv, [Next]_(vars) PROVE HistoryInv'
  OBVIOUS
<1>1. ASSUME NEW n \in DOMAIN events, Handle(n) PROVE HistoryInv'
  BY <1>1, HandleKeepsHistory
<1>2. CASE PublishSome
  <2>1. PICK e \in Events :
          events' = Append(events, e) /\ Len(events) < MaxEvents
          /\ UNCHANGED <<processed, objects, history>>
    BY <1>2 DEF PublishSome, Publish
  <2>2. /\ events \in Seq(Events) /\ Len(events) \in Nat
        /\ DOMAIN events = 1..Len(events)
    BY EventTypes DEF HistoryInv
  <2>3. /\ events' \in Seq(Events) /\ Len(events') = Len(events) + 1
        /\ DOMAIN events' = 1..(Len(events) + 1)
        /\ \A n \in DOMAIN events : events'[n] = events[n]
    BY <2>1, <2>2
  <2>4. processed \subseteq DOMAIN events
    BY DEF HistoryInv, TypeOK
  <2>5. (TypeOK)'
    BY <2>1, <2>2, <2>3, <2>4, HistoryAssumption DEF HistoryInv, TypeOK
  <2>6. LogInv'
    BY <2>1, <2>3, <2>4 DEF HistoryInv, LogInv, Stamp
  <2> QED
    BY <2>1, <2>5, <2>6 DEF HistoryInv, Stored, OwnMarkers, NoRedoPast
<1>3. CASE UNCHANGED vars
  BY <1>3
  DEF HistoryInv, TypeOK, LogInv, Stored, OwnMarkers, NoRedoPast, Stamp, vars
<1> QED
  BY <1>1, <1>2, <1>3 DEF Next

LEMMA HistoryAlways == HistoryInv => NoRedoPastNewerDraw
<1> SUFFICES ASSUME HistoryInv, NEW j \in DOMAIN history, history[j].kind = "REDO"
             PROVE  LET i == history[j].ref
                        undos == {k \in 1..(j - 1) :
                                    history[k].kind = "UNDO" /\ history[k].ref = i}
                    IN  \E k \in undos :
                          \A d \in DrawRows(history, history[j].user) :
                            d < j => ~(/\ history[k].ts.time < history[d].ts.time
                                       /\ history[d].ts.time < history[j].ts.time)
  BY DEF NoRedoPastNewerDraw
<1>1. NoRedoPast(j)
  BY DEF HistoryInv
<1> QED
  BY <1>1 DEF NoRedoPast

\* Whatever order the events of any number of users are handled in, a redo is not accepted
\* once the user drew between the undo and the redo, by the user's own clock.
THEOREM NoRedoPastHolds == Spec => []NoRedoPastNewerDraw
<1> QED
  BY HistoryInitInv, HistoryStep, HistoryAlways, PTL DEF Spec

-----------------------------------------------------------------------------
(* Reading the log back.                                                   *)

LEMMA HistoryInvariant == Spec => []HistoryInv
  BY HistoryInitInv, HistoryStep, PTL DEF Spec

\* What replayCanvas rebuilds from the log is what the CanvasObject table holds, whatever
\* order the events of any number of users and objects are handled in, and whatever was
\* undone and redone.
THEOREM ReplayAlwaysReconstructs == Spec => []ReplayReconstructs
<1>1. HistoryInv => ReplayReconstructs
  <2> SUFFICES ASSUME HistoryInv, NEW o \in Objs PROVE Replayed(history, o) = objects[o]
    BY DEF ReplayReconstructs
  <2>1. Legible(history, DOMAIN history) /\ RowsOf(history, o) \in SUBSET (DOMAIN history)
    BY LogTypes DEF RowsOf
  <2>2. Merged(history, RowsOf(history, o)) = Latest(history, RowsOf(history, o))
    BY <2>1, MergedRows
  <2> QED
    BY <2>2 DEF Replayed, RowsOf, HistoryInv, Stored
<1> QED
  BY <1>1, HistoryInvariant, PTL

-----------------------------------------------------------------------------
(* Events in order, without deletions and optional properties: what a load *)
(* shows, and what an undo brings back.  An object is deleted only when a  *)
(* creation was undone (PlainRow), and the draws of a user are undone like *)
(* a stack: whoever undoes a draw below an undone one never gets back to   *)
(* the latter (Stacked).                                                   *)

PlainEvents == \A n \in DOMAIN events : events[n].kind # "DELETE" /\ events[n].keys = {}

\* Timestamps follow the order of the log, and what is to come is later.
Ordered ==
  /\ \A p \in processed, n \in DOMAIN events \ processed : p < n
  /\ \A i, j \in DOMAIN history : i < j => history[i].event < history[j].event

SetsDeleted(h, i) == "deleted" \in DOMAIN h[i].after

\* A draw, and the object before it.
PlainDraw(h, i) ==
  /\ DOMAIN h[i].after = {"shape"}
  /\ DOMAIN h[i].before \subseteq {"shape", "deleted"}
  /\ h[i].before # NoObject => "shape" \in DOMAIN h[i].before
  /\ h[i].before = NoObject => \A j \in 1..(i - 1) : h[j].obj # h[i].obj
  /\ "deleted" \in DOMAIN h[i].before <=>
       \E j \in 1..(i - 1) : h[j].obj = h[i].obj /\ SetsDeleted(h, j)

\* An undo or a redo is of a draw.
PlainMarker(h, i) ==
  /\ h[i].ref \in 1..(i - 1) /\ h[h[i].ref].kind \in Draws /\ h[h[i].ref].obj = h[i].obj
  /\ h[i].after = IF h[i].kind = "UNDO" THEN InverseProps(h[h[i].ref]) ELSE h[h[i].ref].after

\* The undo of the draw that created the object.
UndoesCreation(h, i) == h[i].kind = "UNDO" /\ h[h[i].ref].before = NoObject

PlainRow(h, i) ==
  /\ h[i].kind \in {"CREATE", "UPDATE"} => PlainDraw(h, i)
  /\ h[i].kind \in {"UNDO", "REDO"} => PlainMarker(h, i)
  /\ h[i].kind # "DELETE"
  /\ SetsDeleted(h, i) =>
       \E j \in 1..i : h[j].obj = h[i].obj /\ UndoesCreation(h, j)

PlainLog(h) == \A i \in DOMAIN h : PlainRow(h, i)

\* The user of the draw i went on with an undo, j, of an earlier draw.
PassedBy(h, i, j) ==
  /\ h[j].kind = "UNDO" /\ h[i].kind \in Draws /\ h[i].user = h[j].user
  /\ h[j].ref < i /\ i < j

Stacked(h) ==
  \A i, j \in DOMAIN h :
    PassedBy(h, i, j) => h[i].undone /\ \A k \in DOMAIN h : k > j => h[k].ref # i

PlainInv == HistoryInv /\ PlainEvents /\ Ordered /\ PlainLog(history) /\ Stacked(history)

\* Which properties the rows of a plain log set.
LEMMA PlainAfter ==
  ASSUME NEW h \in Seq(Rows), PlainLog(h), NEW i \in DOMAIN h
  PROVE  /\ DOMAIN h[i].after \subseteq {"shape", "deleted"}
         /\ DOMAIN h[i].after # {}
         /\ h[i].kind # "UNDO" => DOMAIN h[i].after = {"shape"}
<1>1. h[i] \in Rows /\ DOMAIN h = 1..Len(h) /\ Len(h) \in Nat
  OBVIOUS
<1>2. h[i].kind \in {"CREATE", "UPDATE", "UNDO", "REDO"}
  BY <1>1 DEF Rows, Draws, PlainLog, PlainRow
<1>3. ASSUME NEW d \in DOMAIN h, h[d].kind \in Draws
      PROVE  PlainDraw(h, d)
  BY <1>3 DEF PlainLog, PlainRow, Draws
<1>4. CASE h[i].kind \in {"CREATE", "UPDATE"}
  BY <1>4 DEF PlainLog, PlainRow, PlainDraw
<1>5. CASE h[i].kind \in {"UNDO", "REDO"}
  <2> DEFINE d == h[i].ref
  <2>1. PlainMarker(h, i)
    BY <1>5 DEF PlainLog, PlainRow
  <2>2. d \in DOMAIN h /\ h[d].kind \in Draws
    BY <1>1, <2>1 DEF PlainMarker
  <2>3. PlainDraw(h, d)
    BY <1>3, <2>2
  <2>4. CASE h[i].kind = "REDO"
    BY <2>1, <2>3, <2>4 DEF PlainMarker, PlainDraw
  <2>5. CASE h[i].kind = "UNDO"
    <3>1. h[i].after = InverseProps(h[d])
      BY <2>1, <2>5 DEF PlainMarker
    <3>2. CASE h[d].before = NoObject
      BY <2>5, <3>1, <3>2 DEF InverseProps, Deleted
    <3>3. CASE h[d].before # NoObject
      BY <2>3, <2>5, <3>1, <3>3 DEF InverseProps, MaterializeCRDT, PlainDraw
    <3> QED
      BY <3>2, <3>3
  <2> QED
    BY <1>5, <2>4, <2>5
<1> QED
  BY <1>2, <1>4, <1>5

\* One more row, in a log that is the same but for the flags.
LEMMA PlainGrows ==
  ASSUME NEW h \in Seq(Rows), PlainLog(h), NEW g \in Seq(Rows), SameButFlags(g, h),
         NEW row \in Rows, NEW f, f = Append(g, row), PlainRow(f, Len(h) + 1)
  PROVE  PlainLog(f)
<1>1. /\ Len(h) \in Nat /\ DOMAIN h = 1..Len(h) /\ DOMAIN f = 1..(Len(h) + 1)
      /\ \A j \in 1..Len(h) : f[j] = g[j]
  BY DEF SameButFlags
<1>2. \A j \in 1..Len(h) :
        /\ f[j].kind = h[j].kind /\ f[j].obj = h[j].obj /\ f[j].before = h[j].before
        /\ f[j].after = h[j].after /\ f[j].ref = h[j].ref
  BY <1>1 DEF SameButFlags
<1>3. ASSUME NEW i \in 1..Len(h) PROVE PlainRow(f, i)
  <2>1. PlainRow(h, i) /\ \A j \in 1..i : j \in 1..Len(h)
    BY <1>1 DEF PlainLog
  <2>2. ASSUME NEW j \in 1..Len(h) PROVE SetsDeleted(f, j) <=> SetsDeleted(h, j)
    BY <1>2 DEF SetsDeleted
  <2>3. h[i].kind \in {"CREATE", "UPDATE"} => PlainDraw(f, i)
    <3> SUFFICES ASSUME h[i].kind \in {"CREATE", "UPDATE"} PROVE PlainDraw(f, i)
      OBVIOUS
    <3>1. PlainDraw(h, i)
      BY <2>1 DEF PlainRow
    <3>2. \A j \in 1..(i - 1) : /\ j \in 1..Len(h) /\ f[j].obj = h[j].obj
                                /\ SetsDeleted(f, j) <=> SetsDeleted(h, j)
      BY <1>1, <1>2, <2>2
    <3>3. f[i].after = h[i].after /\ f[i].before = h[i].before /\ f[i].obj = h[i].obj
      BY <1>2
    <3> HIDE DEF SetsDeleted
    <3>4. (\A j \in 1..(i - 1) : h[j].obj # h[i].obj) =>
            \A j \in 1..(i - 1) : f[j].obj # f[i].obj
      BY <3>2, <3>3
    <3>5. (\E j \in 1..(i - 1) : h[j].obj = h[i].obj /\ SetsDeleted(h, j)) <=>
            \E j \in 1..(i - 1) : f[j].obj = f[i].obj /\ SetsDeleted(f, j)
      BY <3>2, <3>3
    <3> QED
      BY <3>1, <3>3, <3>4, <3>5 DEF PlainDraw
  <2>4. ASSUME NEW j \in 1..Len(h), h[j].kind \in {"UNDO", "REDO"}
        PROVE  PlainMarker(h, j) /\ h[j].ref \in 1..(j - 1) /\ h[j].ref \in 1..Len(h)
    <3>1. PlainMarker(h, j)
      BY <1>1, <2>4 DEF PlainLog, PlainRow
    <3> QED
      BY <1>1, <3>1 DEF PlainMarker
  <2>5. h[i].kind \in {"UNDO", "REDO"} => PlainMarker(f, i)
    <3> SUFFICES ASSUME h[i].kind \in {"UNDO", "REDO"} PROVE PlainMarker(f, i)
      OBVIOUS
    <3>1. PICK r \in 1..Len(h) : r = h[i].ref
      BY <2>4
    <3>2. /\ f[i].ref = r /\ f[i].after = h[i].after /\ f[i].kind = h[i].kind
          /\ f[i].obj = h[i].obj /\ f[r].kind = h[r].kind /\ f[r].obj = h[r].obj
          /\ f[r].after = h[r].after /\ f[r].before = h[r].before
      BY <1>2, <3>1
    <3>3. InverseProps(f[r]) = InverseProps(h[r])
      BY <3>2 DEF InverseProps
    <3>4. PlainMarker(h, i)
      BY <2>4
    <3> QED
      BY <3>1, <3>2, <3>3, <3>4 DEF PlainMarker
  <2>6. ASSUME NEW j \in 1..Len(h), UndoesCreation(h, j) PROVE UndoesCreation(f, j)
    <3>1. PICK r \in 1..Len(h) : r = h[j].ref
      BY <2>4, <2>6 DEF UndoesCreation
    <3> QED
      BY <1>2, <2>6, <3>1 DEF UndoesCreation
  <2>7. SetsDeleted(f, i) => \E j \in 1..i : f[j].obj = f[i].obj /\ UndoesCreation(f, j)
    <3> SUFFICES ASSUME SetsDeleted(f, i)
                 PROVE  \E j \in 1..i : f[j].obj = f[i].obj /\ UndoesCreation(f, j)
      OBVIOUS
    <3>1. PICK j \in 1..i : h[j].obj = h[i].obj /\ UndoesCreation(h, j)
      BY <2>1, <2>2 DEF PlainRow
    <3>2. f[j].obj = f[i].obj /\ UndoesCreation(f, j)
      BY <1>2, <2>1, <2>6, <3>1
    <3> QED
      BY <3>2
  <2>8. f[i].kind = h[i].kind
    BY <1>2
  <2> QED
    BY <2>1, <2>3, <2>5, <2>7, <2>8 DEF PlainRow
<1> QED
  BY <1>1, <1>3 DEF PlainLog

\* What is stored of an object of a plain log.
LEMMA PlainObject ==
  ASSUME PlainInv, NEW o \in Objs
  PROVE  /\ DOMAIN objects[o] \subseteq {"shape", "deleted"}
         /\ objects[o] # NoObject => "shape" \in DOMAIN objects[o]
         /\ objects[o] = NoObject => \A j \in DOMAIN history : history[j].obj # o
         /\ "deleted" \in DOMAIN objects[o] <=>
              \E j \in DOMAIN history : history[j].obj = o /\ SetsDeleted(history, j)
<1> DEFINE R == RowsOf(history, o)
<1>1. history \in Seq(Rows) /\ PlainLog(history) /\ DOMAIN history = 1..Len(history)
      /\ Len(history) \in Nat
  BY LogTypes DEF PlainInv
<1>2. DOMAIN objects[o] = UNION {DOMAIN history[i].after : i \in R}
  BY DEF PlainInv, HistoryInv, Stored, Latest
<1>3. \A i \in R : /\ i \in DOMAIN history /\ history[i].obj = o
                   /\ DOMAIN history[i].after \subseteq {"shape", "deleted"}
                   /\ DOMAIN history[i].after # {}
  BY <1>1, PlainAfter DEF RowsOf
<1>4. objects[o] = NoObject <=> DOMAIN objects[o] = {}
  <2>1. objects[o] = Latest(history, R)
    BY DEF PlainInv, HistoryInv, Stored
  <2> QED
    BY <2>1 DEF Latest, NoObject
<1>5. R # {} => "shape" \in DOMAIN objects[o]
  <2> SUFFICES ASSUME NEW i \in R PROVE \E j \in R : "shape" \in DOMAIN history[j].after
    BY <1>2
  <2>1. CASE history[i].kind # "UNDO"
    BY <1>1, <1>3, <2>1, PlainAfter
  <2>2. CASE history[i].kind = "UNDO"
    <3> DEFINE d == history[i].ref
    <3>1. d \in DOMAIN history /\ history[d].kind \in Draws /\ history[d].obj = o
      BY <1>1, <1>3, <2>2 DEF PlainLog, PlainRow, PlainMarker
    <3>2. DOMAIN history[d].after = {"shape"} /\ d \in R
      <4> HIDE DEF d
      <4>1. history[d].kind # "UNDO"
        BY <3>1 DEF Draws
      <4> QED
        BY <1>1, <3>1, <4>1, PlainAfter DEF RowsOf
    <3> QED
      BY <3>2
  <2> QED
    BY <2>1, <2>2
<1>6. DOMAIN objects[o] \subseteq {"shape", "deleted"}
  BY <1>2, <1>3
<1>7. objects[o] = NoObject => R = {}
  BY <1>4, <1>5
<1>8. objects[o] # NoObject => "shape" \in DOMAIN objects[o]
  BY <1>2, <1>4, <1>5
<1>9. "deleted" \in DOMAIN objects[o] <=>
        \E j \in DOMAIN history : history[j].obj = o /\ SetsDeleted(history, j)
  BY <1>2 DEF RowsOf, SetsDeleted
<1> QED
  BY <1>6, <1>7, <1>8, <1>9 DEF RowsOf

\* A marker of a draw nobody went past, in a log that is the same but for flags: a draw
\* is marked as done again only by the row itself.
LEMMA StackedGrows ==
  ASSUME NEW h \in Seq(Rows), Stacked(h), NEW g \in Seq(Rows), SameButFlags(g, h),
         NEW row \in Rows,
         \A i \in DOMAIN h : h[i].undone => g[i].undone \/ i = row.ref,
         \A i, j \in DOMAIN h : PassedBy(h, i, j) => row.ref # i,
         row.kind = "UNDO" =>
           \A i \in DOMAIN h :
             h[i].kind \in Draws /\ h[i].user = row.user /\ row.ref < i => g[i].undone
  PROVE  Stacked(Append(g, row))
<1> DEFINE m == Len(h) + 1
<1>1. PICK f : f = Append(g, row)
  OBVIOUS
<1>2. /\ Len(h) \in Nat /\ DOMAIN h = 1..Len(h) /\ DOMAIN f = 1..m
      /\ f[m] = row /\ \A j \in 1..Len(h) : f[j] = g[j]
  BY <1>1 DEF SameButFlags
<1>3. \A j \in 1..Len(h) :
        f[j].kind = h[j].kind /\ f[j].user = h[j].user /\ f[j].ref = h[j].ref
  BY <1>2 DEF SameButFlags
<1>4. ASSUME NEW i \in DOMAIN f, NEW j \in DOMAIN f, PassedBy(f, i, j)
      PROVE  f[i].undone /\ \A k \in DOMAIN f : k > j => f[k].ref # i
  <2>1. i \in 1..Len(h)
    BY <1>2, <1>4 DEF PassedBy
  <2>2. CASE j = m
    <3>1. row.kind = "UNDO" /\ h[i].kind \in Draws /\ h[i].user = row.user /\ row.ref < i
      BY <1>2, <1>3, <1>4, <2>1, <2>2 DEF PassedBy
    <3>2. g[i].undone
      BY <1>2, <2>1, <3>1
    <3> QED
      BY <1>2, <2>1, <2>2, <3>2
  <2>3. CASE j \in 1..Len(h)
    <3>1. PassedBy(h, i, j)
      BY <1>2, <1>3, <1>4, <2>1, <2>3 DEF PassedBy
    <3>2. /\ h[i].undone /\ row.ref # i
          /\ \A k \in DOMAIN h : k > j => h[k].ref # i
      BY <1>2, <2>1, <2>3, <3>1 DEF Stacked
    <3>3. f[i].undone
      BY <1>2, <2>1, <3>2
    <3>4. ASSUME NEW k \in DOMAIN f, k > j PROVE f[k].ref # i
      <4>1. CASE k = m
        BY <1>2, <3>2, <4>1
      <4>2. CASE k \in 1..Len(h)
        BY <1>2, <1>3, <3>2, <3>4, <4>2
      <4> QED
        BY <1>2, <4>1, <4>2
    <3> QED
      BY <3>3, <3>4
  <2> QED
    BY <1>2, <2>2, <2>3
<1> QED
  BY <1>1, <1>4 DEF Stacked

\* An event, handled in its turn, becomes a row.
LEMMA PlainRowAdded ==
  ASSUME PlainInv, HistoryInv', NEW n \in DOMAIN events \ processed, Oldest(n),
         NEW g \in Seq(Rows), NEW row \in Rows, SameButFlags(g, history), row.event = n,
         history' = Append(g, row), processed' = processed \cup {n}, UNCHANGED events,
         PlainRow(history', Len(history) + 1), Stacked(history')
  PROVE  PlainInv'
<1>1. /\ history \in Seq(Rows) /\ Len(history) \in Nat
      /\ DOMAIN history = 1..Len(history) /\ PlainLog(history)
  BY LogTypes DEF PlainInv
<1>2. /\ DOMAIN history' = 1..(Len(history) + 1) /\ history'[Len(history) + 1].event = n
      /\ \A i \in DOMAIN history : history'[i].event = history[i].event
  BY <1>1 DEF SameButFlags
<1>3. \A i \in DOMAIN history : history[i].event \in processed
  BY DEF PlainInv, HistoryInv, LogInv
<1>4. DOMAIN events \subseteq Nat /\ processed \subseteq DOMAIN events
  <2>1. TypeOK
    BY DEF PlainInv, HistoryInv
  <2> QED
    BY <2>1, EventTypes DEF TypeOK
<1>5. \A p \in processed : p < n
  BY DEF PlainInv, Ordered
<1>6. Ordered'
  <2>1. \A p \in processed', q \in DOMAIN events' \ processed' : p < q
    <3> TAKE p \in processed', q \in DOMAIN events' \ processed'
    <3>1. q \in DOMAIN events \ processed /\ q # n
      OBVIOUS
    <3>2. CASE p = n
      BY <1>4, <3>1, <3>2 DEF Oldest
    <3>3. CASE p \in processed
      BY <3>1, <3>3 DEF PlainInv, Ordered
    <3> QED
      BY <3>2, <3>3
  <2>2. \A i, j \in DOMAIN history' : i < j => history'[i].event < history'[j].event
    <3> SUFFICES ASSUME NEW i \in DOMAIN history', NEW j \in DOMAIN history', i < j
                 PROVE  history'[i].event < history'[j].event
      OBVIOUS
    <3>1. i \in DOMAIN history
      BY <1>1, <1>2
    <3>2. CASE j = Len(history) + 1
      BY <1>2, <1>3, <1>5, <3>1, <3>2
    <3>3. CASE j \in DOMAIN history
      BY <1>2, <3>1, <3>3 DEF PlainInv, Ordered
    <3> QED
      BY <1>1, <1>2, <3>2, <3>3
  <2> QED
    BY <2>1, <2>2 DEF Ordered
<1>7. PlainLog(history')
  BY <1>1, PlainGrows
<1> QED
  BY <1>6, <1>7 DEF PlainInv, PlainEvents

LEMMA DrawKeepsPlain ==
  ASSUME PlainInv, HistoryInv', NEW n \in DOMAIN events \ processed, Oldest(n), Draw(n),
         processed' = processed \cup {n}, UNCHANGED events
  PROVE  PlainInv'
<1> DEFINE e == events[n]
           S == Redoable(history, e.user)
           m == Len(history) + 1
<1>1. PICK row : row = DrawRow(n, e.user, e.kind, e.obj, objects[e.obj], Patch(n), Stamp(n))
  OBVIOUS
<1>2. PICK g : g = Invalidate(history, S)
  OBVIOUS
<1>3. e.kind \in Draws /\ history' = Append(g, row)
  BY <1>1, <1>2 DEF Draw
<1>4. TypeOK /\ n \in Nat /\ e.user \in Actors /\ e.obj \in Objs
      /\ Patch(n) \in Props /\ Stamp(n) \in Timestamps /\ objects[e.obj] \in Objects
  BY EventTypes, StampAndPatchTypes DEF PlainInv, HistoryInv, TypeOK
<1>5. /\ row \in Rows /\ row.event = n /\ row.kind = e.kind /\ row.obj = e.obj
      /\ row.before = objects[e.obj] /\ row.after = Patch(n) /\ row.ref = 0
  <2> HIDE DEF e
  <2>1. row \in Rows
    BY <1>1, <1>3, <1>4, DrawRowType
  <2> QED
    BY <1>1, <2>1 DEF DrawRow
<1>6. /\ history \in Seq(Rows) /\ Len(history) \in Nat
      /\ DOMAIN history = 1..Len(history)
  BY LogTypes DEF PlainInv
<1> HIDE DEF S
<1>7. /\ g \in Seq(Rows) /\ SameButFlags(g, history)
      /\ \A j \in DOMAIN history : g[j].undone = history[j].undone
  BY <1>2, <1>6, InvalidateRows
<1>8. /\ history'[m] = row
      /\ \A j \in 1..(m - 1) : /\ j \in DOMAIN history
                               /\ history'[j].obj = history[j].obj
                               /\ history'[j].after = history[j].after
  BY <1>3, <1>6, <1>7 DEF SameButFlags
<1>9. e.kind \in {"CREATE", "UPDATE"} /\ DOMAIN Patch(n) = {"shape"}
  <2>1. e.kind # "DELETE" /\ e.keys = {}
    BY DEF PlainInv, PlainEvents
  <2> QED
    BY <1>3, <2>1 DEF Draws, Patch
<1>10. PlainDraw(history', m)
  <2> DEFINE o == e.obj
  <2>1. /\ DOMAIN objects[o] \subseteq {"shape", "deleted"}
        /\ objects[o] # NoObject => "shape" \in DOMAIN objects[o]
        /\ objects[o] = NoObject => \A j \in DOMAIN history : history[j].obj # o
        /\ "deleted" \in DOMAIN objects[o] <=>
             \E j \in DOMAIN history : history[j].obj = o /\ SetsDeleted(history, j)
    BY <1>4, PlainObject
  <2> HIDE DEF e
  <2>2. /\ history'[m].after = Patch(n) /\ history'[m].before = objects[o]
        /\ history'[m].obj = o
    BY <1>5, <1>8
  <2>3. \A j \in 1..(m - 1) :
          /\ j \in DOMAIN history /\ history'[j].obj = history[j].obj
          /\ SetsDeleted(history', j) <=> SetsDeleted(history, j)
    BY <1>8 DEF SetsDeleted
  <2>4. \A j \in DOMAIN history : j \in 1..(m - 1)
    BY <1>6
  <2> HIDE DEF SetsDeleted, m, o
  <2>5. history'[m].before = NoObject => \A j \in 1..(m - 1) : history'[j].obj # history'[m].obj
    BY <2>1, <2>2, <2>3
  <2>6. "deleted" \in DOMAIN history'[m].before <=>
          \E j \in 1..(m - 1) : history'[j].obj = history'[m].obj /\ SetsDeleted(history', j)
    BY <2>1, <2>2, <2>3, <2>4
  <2> QED
    BY <1>9, <2>1, <2>2, <2>5, <2>6 DEF PlainDraw
<1>11. PlainRow(history', m)
  <2>1. history'[m].kind \in {"CREATE", "UPDATE"} /\ ~SetsDeleted(history', m)
    BY <1>5, <1>8, <1>9 DEF SetsDeleted
  <2> QED
    BY <1>10, <2>1 DEF PlainRow
<1>12. Stacked(history')
  <2>1. row.kind # "UNDO" /\ \A i \in DOMAIN history : row.ref # i
    BY <1>5, <1>6, <1>9
  <2>2. Stacked(Append(g, row))
    BY <1>5, <1>6, <1>7, <2>1, StackedGrows DEF PlainInv
  <2> QED
    BY <1>3, <2>2
<1> QED
  BY <1>3, <1>5, <1>7, <1>11, <1>12, PlainRowAdded

\* An undo or a redo of the draw i.
LEMMA MarkerKeepsPlain ==
  ASSUME PlainInv, HistoryInv', NEW n \in DOMAIN events \ processed, Oldest(n),
         NEW kind \in {"UNDO", "REDO"}, NEW i \in DOMAIN history, history[i].kind \in Draws,
         history[i].user = events[n].user,
         NEW props, NEW g \in Seq(Rows), SameButFlags(g, history),
         props = IF kind = "UNDO" THEN InverseProps(history[i]) ELSE history[i].after,
         \A j \in DOMAIN history : history[j].undone => g[j].undone \/ i = j,
         \A j, k \in DOMAIN history : PassedBy(history, j, k) => i # j,
         kind = "UNDO" =>
           \A j \in DOMAIN history :
             history[j].kind \in Draws /\ history[j].user = events[n].user /\ i < j
             => g[j].undone,
         history' = Append(g, MarkerRow(n, events[n].user, kind, i, history, props,
                                        Stamp(n))),
         processed' = processed \cup {n}, UNCHANGED events
  PROVE  PlainInv'
<1> DEFINE m == Len(history) + 1
<1>1. PICK row : row = MarkerRow(n, events[n].user, kind, i, history, props, Stamp(n))
  OBVIOUS
<1>2. /\ n \in Nat /\ events[n].user \in Actors /\ Stamp(n) \in Timestamps
      /\ history \in Seq(Rows) /\ history[i] \in Rows
      /\ Len(history) \in Nat /\ DOMAIN history = 1..Len(history) /\ PlainLog(history)
  BY EventTypes, StampAndPatchTypes, LogTypes, RowTypes DEF PlainInv, HistoryInv, TypeOK
<1>3. props \in Props
  BY <1>2, InversePropsType, DeletedType DEF Rows
<1>4. /\ row \in Rows /\ row.event = n /\ row.kind = kind
      /\ row.ref = i /\ row.user = events[n].user
      /\ row.obj = history[i].obj /\ row.after = props
  <2>1. row \in Rows
    BY <1>1, <1>2, <1>3, MarkerRowType
  <2> QED
    BY <1>1, <2>1 DEF MarkerRow
<1>5. /\ history'[m] = row
      /\ \A j \in 1..(m - 1) : /\ j \in DOMAIN history
                               /\ history'[j].kind = history[j].kind
                               /\ history'[j].obj = history[j].obj
                               /\ history'[j].ref = history[j].ref
                               /\ history'[j].before = history[j].before
                               /\ history'[j].after = history[j].after
  BY <1>1, <1>2 DEF SameButFlags
<1>6. PlainDraw(history, i)
  BY <1>2 DEF PlainLog, PlainRow, Draws
<1>7. i \in 1..(m - 1) /\ m \in DOMAIN history' /\ \A j \in 1..(m - 1) : j \in 1..m
  BY <1>1, <1>2 DEF SameButFlags
<1> HIDE DEF m
<1>8. PlainMarker(history', m)
  <2>1. InverseProps(history'[i]) = InverseProps(history[i])
    BY <1>5, <1>7 DEF InverseProps
  <2> QED
    BY <1>4, <1>5, <1>7, <2>1 DEF PlainMarker
<1>9. ASSUME SetsDeleted(history', m)
      PROVE  \E j \in 1..m : history'[j].obj = history'[m].obj /\ UndoesCreation(history', j)
  <2>1. "deleted" \in DOMAIN props
    BY <1>4, <1>5, <1>9 DEF SetsDeleted
  <2>2. kind = "UNDO"
    BY <1>6, <2>1 DEF PlainDraw
  <2>3. CASE history[i].before = NoObject
    <3>1. UndoesCreation(history', m) /\ m \in 1..m
      BY <1>4, <1>5, <1>7, <2>2, <2>3, <1>2 DEF UndoesCreation, m
    <3> QED
      BY <3>1
  <2>4. CASE history[i].before # NoObject
    <3>1. "deleted" \in DOMAIN history[i].before
      BY <2>1, <2>2, <2>4 DEF InverseProps, MaterializeCRDT
    <3>2. PICK j \in 1..(i - 1) : history[j].obj = history[i].obj /\ SetsDeleted(history, j)
      BY <1>6, <3>1 DEF PlainDraw
    <3>3. j \in DOMAIN history
      BY <1>2, <3>2
    <3>4. PlainRow(history, j)
      BY <1>2, <3>3 DEF PlainLog
    <3>5. PICK k \in 1..j : history[k].obj = history[j].obj /\ UndoesCreation(history, k)
      BY <3>2, <3>4 DEF PlainRow
    <3>6. k \in DOMAIN history /\ k \in 1..(m - 1)
      BY <1>2, <1>7, <3>3 DEF m
    <3>7. PlainMarker(history, k)
      BY <1>2, <3>5, <3>6 DEF PlainLog, PlainRow, UndoesCreation
    <3>8. PICK r \in 1..(m - 1) : r = history[k].ref
      BY <1>2, <3>6, <3>7 DEF PlainMarker, m
    <3>9. UndoesCreation(history', k) /\ history'[k].obj = history'[m].obj
      <4>1. /\ history'[k].kind = history[k].kind /\ history'[k].obj = history[k].obj
            /\ history'[k].ref = r /\ history'[r].before = history[r].before
        BY <1>5, <3>6, <3>8
      <4>2. UndoesCreation(history', k)
        BY <3>5, <3>8, <4>1 DEF UndoesCreation
      <4>3. history'[m].obj = history[i].obj
        BY <1>4, <1>5
      <4> QED
        BY <3>2, <3>5, <4>1, <4>2, <4>3
    <3> QED
      BY <1>7, <3>6, <3>9
  <2> QED
    BY <2>3, <2>4
<1>10. PlainRow(history', m)
  <2>1. history'[m].kind \in {"UNDO", "REDO"}
    BY <1>4, <1>5
  <2> QED
    BY <1>8, <1>9, <2>1 DEF PlainRow
<1>11. Stacked(history')
  <2>1. Stacked(Append(g, row))
    BY <1>2, <1>4, StackedGrows DEF PlainInv
  <2> QED
    BY <1>1, <2>1
<1>12. history' = Append(g, row)
  BY <1>1
<1> QED
  BY <1>4, <1>10, <1>11, <1>12, PlainRowAdded DEF m

\* An undo takes the newest draw of its user that is not undone: later ones are.
LEMMA UndoKeepsPlain ==
  ASSUME PlainInv, HistoryInv', NEW n \in DOMAIN events \ processed, Oldest(n),
         HandleUndo(n), processed' = processed \cup {n}, UNCHANGED events
  PROVE  PlainInv'
<1> DEFINE u == events[n].user
           S == {j \in DrawRows(history, u) : ~history[j].undone}
           i == UndoTarget(history, u)
<1>1. /\ i # 0
      /\ history' = Append(MarkUndone(history, i),
                           MarkerRow(n, u, "UNDO", i, history, InverseProps(history[i]),
                                     Stamp(n)))
  BY DEF HandleUndo
<1>2. /\ history \in Seq(Rows) /\ Legible(history, DOMAIN history) /\ S \in SUBSET (DOMAIN history)
      /\ DOMAIN history = 1..Len(history) /\ Len(history) \in Nat
  BY LogTypes DEF PlainInv, DrawRows
<1>3. /\ i \in S /\ i \in DOMAIN history /\ history[i].kind \in Draws /\ history[i].user = u
      /\ ~history[i].undone
      /\ \A j \in S \ {i} : Later(history[i].ts, history[j].ts)
  <2>1. i = Newest(history, S) /\ S # {}
    BY <1>1 DEF UndoTarget, Newest
  <2> HIDE DEF i, S
  <2>2. i \in S /\ \A j \in S \ {i} : Later(history[i].ts, history[j].ts)
    BY <1>2, <2>1, NewestIsNewer
  <2> QED
    BY <2>2 DEF S, DrawRows
<1> DEFINE g == MarkUndone(history, i)
<1> HIDE DEF i
<1>4. /\ g \in Seq(Rows) /\ SameButFlags(g, history) /\ g[i].undone
      /\ \A j \in DOMAIN history \ {i} : g[j] = history[j]
  BY <1>2, <1>3, MarkUndoneRows
<1> HIDE DEF g
<1>5. \A j \in DOMAIN history : history[j].undone => g[j].undone \/ i = j
  BY <1>4
<1>6. \A j, k \in DOMAIN history : PassedBy(history, j, k) => i # j
  BY <1>3 DEF PlainInv, Stacked
<1>7. ASSUME NEW j \in DOMAIN history, history[j].kind \in Draws, history[j].user = u, i < j
      PROVE  g[j].undone
  <2>1. i # j /\ (j \notin S => history[j].undone)
    BY <1>2, <1>3, <1>7 DEF DrawRows
  <2>2. ~Later(history[i].ts, history[j].ts)
    <3>1. history[i].event < history[j].event
      BY <1>3, <1>7 DEF PlainInv, Ordered
    <3>2. history[i].event \in Nat /\ history[j].event \in Nat
      BY <1>2, <1>3, RowTypes DEF Rows
    <3>3. history[i].ts.time = history[i].event /\ history[j].ts.time = history[j].event
      BY <1>3, LogTypes DEF PlainInv
    <3> QED
      BY <3>1, <3>2, <3>3 DEF Later
  <2>3. history[j].undone
    BY <1>3, <2>1, <2>2
  <2> QED
    BY <1>4, <2>1, <2>3
<1> QED
  BY <1>1, <1>3, <1>4, <1>5, <1>6, <1>7, MarkerKeepsPlain DEF g

\* A redo of a draw its user went past would be blocked.
LEMMA RedoKeepsPlain ==
  ASSUME PlainInv, HistoryInv', NEW n \in DOMAIN events \ processed, Oldest(n),
         HandleRedo(n), processed' = processed \cup {n}, UNCHANGED events
  PROVE  PlainInv'
<1> DEFINE u == events[n].user
           S == Redoable(history, u)
           i == RedoTarget(history, u)
<1>1. /\ i # 0
      /\ history' = Append(MarkRedone(history, i),
                           MarkerRow(n, u, "REDO", i, history, history[i].after, Stamp(n)))
  BY DEF HandleRedo
<1>2. /\ history \in Seq(Rows) /\ Legible(history, DOMAIN history) /\ S \in SUBSET (DOMAIN history)
      /\ DOMAIN history = 1..Len(history) /\ Len(history) \in Nat
  BY LogTypes DEF PlainInv, Redoable, DrawRows
<1>3. /\ i \in DOMAIN history /\ history[i].kind \in Draws /\ history[i].user = u
      /\ history[i].undone /\ ~RedoBlocked(history, i)
  <2>1. i = Newest(history, S) /\ ~RedoBlocked(history, i) /\ S # {}
    BY <1>1 DEF RedoTarget, Newest
  <2> HIDE DEF i, S
  <2>2. i \in S
    BY <1>2, <2>1, NewestIsNewer
  <2> QED
    BY <2>1, <2>2 DEF S, Redoable, DrawRows
<1> HIDE DEF i
<1>4. \A j, k \in DOMAIN history : PassedBy(history, j, k) => i # j
  <2> SUFFICES ASSUME NEW k \in DOMAIN history, PassedBy(history, i, k) PROVE FALSE
    OBVIOUS
  <2> DEFINE T == {j \in DOMAIN history : /\ history[j].user = history[i].user
                                          /\ history[j].kind = "UNDO" /\ history[j].ref = i}
             k0 == UndoMarker(history, i)
  <2>1. k0 = Newest(history, T)
    BY DEF UndoMarker
  <2>2. T # {} /\ T \in SUBSET (DOMAIN history)
    <3>1. PICK j \in DOMAIN history : history[j].ref = i /\ history[j].kind = "UNDO"
      BY <1>3, MarkerExists DEF PlainInv
    <3>2. i # 0
      BY <1>2, <1>3
    <3>3. history[j].user = history[i].user
      BY <3>1, <3>2 DEF PlainInv, HistoryInv, OwnMarkers
    <3> QED
      BY <3>1, <3>3
  <2>3. k0 \in T
    <3> HIDE DEF T, k0
    <3> QED
      BY <1>2, <2>1, <2>2, NewestIsNewer
  <2>4. /\ k0 \in DOMAIN history /\ history[k0].ref = i /\ k0 # 0
        /\ history[k].ref # i /\ history[k].user = history[i].user
    <3>1. history[k].ref < i /\ history[k].user = history[i].user
      BY DEF PassedBy
    <3>2. history[k].ref # i
      BY <1>2, <1>3, <3>1, RowTypes
    <3>3. k0 \in DOMAIN history /\ history[k0].ref = i
      BY <2>3
    <3> HIDE DEF T, k0
    <3> QED
      BY <1>2, <3>1, <3>2, <3>3
  <2>5. \A l \in DOMAIN history : l > k => history[l].ref # i
    BY <1>3 DEF PlainInv, Stacked
  <2> HIDE DEF T, k0
  <2>6. k0 < k
    BY <1>2, <2>4, <2>5
  <2>7. history[k].ts.time > history[k0].ts.time
    <3>1. history[k0].event < history[k].event
      BY <2>4, <2>6 DEF PlainInv, Ordered
    <3>2. history[k0].event \in Nat /\ history[k].event \in Nat
      BY <1>2, <2>4, RowTypes DEF Rows
    <3>3. /\ history[k0].ts.time = history[k0].event
          /\ history[k].ts.time = history[k].event
      BY <2>4, LogTypes DEF PlainInv
    <3> QED
      BY <3>1, <3>2, <3>3
  <2>8. k \in DOMAIN history \ {k0}
    BY <2>4
  <2>9. RedoBlocked(history, i)
    BY <2>4, <2>7, <2>8 DEF RedoBlocked, k0
  <2> QED
    BY <1>3, <2>9
<1> DEFINE g == MarkRedone(history, i)
<1>5. /\ g \in Seq(Rows) /\ SameButFlags(g, history)
      /\ \A j \in DOMAIN history \ {i} : g[j] = history[j]
  BY <1>2, <1>3, MarkRedoneRows
<1> HIDE DEF g
<1>6. \A j \in DOMAIN history : history[j].undone => g[j].undone \/ i = j
  BY <1>5
<1> QED
  BY <1>1, <1>3, <1>4, <1>5, <1>6, MarkerKeepsPlain DEF g

\* Clients delete nothing and set no optional properties.
PlainClients == "DELETE" \notin EventKinds /\ Extras = {{}}

LEMMA PlainStep ==
  ASSUME PlainClients
  PROVE  PlainInv /\ [NextInOrder]_vars => PlainInv'
<1> SUFFICES ASSUME PlainInv, [NextInOrder]_vars PROVE PlainInv'
  OBVIOUS
<1>1. HistoryInv'
  <2>1. [Next]_vars
    BY DEF NextInOrder, Next
  <2> QED
    BY <2>1, HistoryStep DEF PlainInv
<1>2. CASE PublishSome
  <2>1. PICK e \in Events :
          /\ e.kind \in EventKinds /\ events' = Append(events, e)
          /\ UNCHANGED <<processed, objects, history>>
    BY <1>2 DEF PublishSome, Publish
  <2>2. e.kind # "DELETE" /\ e.keys = {}
    BY <2>1 DEF PlainClients, Events
  <2>3. /\ events \in Seq(Events) /\ Len(events) \in Nat
        /\ DOMAIN events = 1..Len(events) /\ processed \subseteq DOMAIN events
    BY EventTypes DEF PlainInv, HistoryInv, TypeOK
  <2>4. /\ DOMAIN events' = 1..(Len(events) + 1) /\ events'[Len(events) + 1] = e
        /\ \A n \in DOMAIN events : events'[n] = events[n]
    BY <2>1, <2>3
  <2>5. PlainEvents'
    BY <2>2, <2>3, <2>4 DEF PlainInv, PlainEvents
  <2>6. Ordered'
    BY <2>1, <2>3, <2>4 DEF PlainInv, Ordered
  <2> QED
    BY <1>1, <2>1, <2>5, <2>6 DEF PlainInv
<1>3. ASSUME NEW n \in DOMAIN events, Oldest(n), Handle(n) PROVE PlainInv'
  <2>1. /\ n \in DOMAIN events \ processed /\ processed' = processed \cup {n}
        /\ UNCHANGED events
    BY <1>3 DEF Handle
  <2>2. CASE Draw(n)
    BY <1>1, <1>3, <2>1, <2>2, DrawKeepsPlain
  <2>3. CASE HandleUndo(n)
    BY <1>1, <1>3, <2>1, <2>3, UndoKeepsPlain
  <2>4. CASE HandleRedo(n)
    BY <1>1, <1>3, <2>1, <2>4, RedoKeepsPlain
  <2>5. CASE HandleNothing(n)
    <3>1. UNCHANGED <<events, objects, history>>
      BY <2>1, <2>5 DEF HandleNothing
    <3>2. Ordered'
      <4>1. DOMAIN events \subseteq Nat /\ processed \subseteq DOMAIN events
        BY EventTypes DEF PlainInv, HistoryInv, TypeOK
      <4>2. \A p \in processed', q \in DOMAIN events' \ processed' : p < q
        BY <1>3, <2>1, <4>1 DEF PlainInv, Ordered, Oldest
      <4> QED
        BY <3>1, <4>2 DEF PlainInv, Ordered
    <3> QED
      BY <1>1, <3>1, <3>2 DEF PlainInv, PlainEvents
  <2> QED
    BY <1>3, <2>2, <2>3, <2>4, <2>5 DEF Handle
<1>4. CASE UNCHANGED vars
  BY <1>1, <1>4 DEF PlainInv, PlainEvents, Ordered, vars
<1> QED
  BY <1>2, <1>3, <1>4 DEF NextInOrder

LEMMA PlainInvariant ==
  ASSUME PlainClients
  PROVE  InOrderSpec => []PlainInv
<1>1. Init => PlainInv
  <2> SUFFICES ASSUME Init PROVE PlainInv
    OBVIOUS
  <2>1. events = << >> /\ processed = {} /\ history = << >>
    BY DEF Init
  <2>2. PlainEvents /\ Ordered /\ PlainLog(history) /\ Stacked(history)
    BY <2>1 DEF PlainEvents, Ordered, PlainLog, Stacked
  <2> QED
    BY <2>2, HistoryInitInv DEF PlainInv
<1> QED
  BY <1>1, PlainStep, PTL DEF InOrderSpec

\* The rows of a plain log are in the order of their timestamps.
LEMMA RowsInOrder ==
  ASSUME PlainInv, NEW i \in DOMAIN history, NEW j \in DOMAIN history, i < j
  PROVE  Later(history[j].ts, history[i].ts) /\ ~Later(history[i].ts, history[j].ts)
<1>1. history[i].event < history[j].event
  BY DEF PlainInv, Ordered
<1>2. history[i].event \in Nat /\ history[j].event \in Nat
  BY LogTypes, RowTypes DEF PlainInv, Rows
<1>3. history[i].ts.time = history[i].event /\ history[j].ts.time = history[j].event
  BY LogTypes DEF PlainInv
<1> QED
  BY <1>1, <1>2, <1>3 DEF Later

\* An undone row is a draw, and its undo is a later row of the same object.
LEMMA UndoneHasUndo ==
  ASSUME PlainInv, NEW i \in DOMAIN history, history[i].undone
  PROVE  /\ history[i].kind \in Draws
         /\ \E j \in DOMAIN history : i < j /\ history[j].obj = history[i].obj
<1>1. RowFollows(history, i)
  BY DEF PlainInv, HistoryInv, LogInv, Consistent
<1>2. PICK j \in DOMAIN history : history[j].ref = i /\ history[j].kind = "UNDO"
  BY <1>1 DEF RowFollows
<1>3. PlainMarker(history, j)
  BY <1>2 DEF PlainInv, PlainLog, PlainRow
<1>4. i \in 1..(j - 1) /\ history[i].kind \in Draws /\ history[i].obj = history[j].obj
  BY <1>2, <1>3 DEF PlainMarker
<1>5. i < j
  BY <1>4, LogTypes DEF PlainInv
<1> QED
  BY <1>2, <1>4, <1>5

\* A row that undoes a creation deletes, and is never undone itself.
LEMMA UndoOfCreationDeletes ==
  ASSUME PlainInv, NEW i \in DOMAIN history, UndoesCreation(history, i)
  PROVE  SetsDeleted(history, i) /\ ~history[i].undone
<1>1. PlainMarker(history, i)
  BY DEF PlainInv, PlainLog, PlainRow, UndoesCreation
<1>2. history[i].after = Deleted
  BY <1>1 DEF PlainMarker, UndoesCreation, InverseProps
<1>3. ~history[i].undone
  BY UndoneHasUndo DEF UndoesCreation, Draws
<1> QED
  BY <1>2, <1>3 DEF SetsDeleted, Deleted

\* A deletion goes back to the undo of a creation.
LEMMA DeletionIsUndo ==
  ASSUME PlainInv, NEW i \in DOMAIN history, SetsDeleted(history, i)
  PROVE  \E j \in 1..i : /\ j \in DOMAIN history /\ history[j].obj = history[i].obj
                         /\ UndoesCreation(history, j)
<1>1. DOMAIN history = 1..Len(history) /\ Len(history) \in Nat
  BY LogTypes DEF PlainInv
<1>2. PICK j \in 1..i : history[j].obj = history[i].obj /\ UndoesCreation(history, j)
  BY DEF PlainInv, PlainLog, PlainRow
<1> QED
  BY <1>1, <1>2

\* Without deletions and optional properties, and with the events handled in order, a
\* client that loads the room is shown what the clients in it are shown: the undone draws a
\* load leaves out are hidden under what their undos wrote.
THEOREM LoadAlwaysShowsLive ==
  ASSUME PlainClients
  PROVE  InOrderSpec => []LoadShowsLive
<1>1. PlainInv => LoadShowsLive
  <2> SUFFICES ASSUME PlainInv, NEW o \in Objs
               PROVE  Shown(Loaded(history, o)) = Shown(objects[o])
    BY DEF LoadShowsLive
  <2> DEFINE R == RowsOf(history, o)
             L == {i \in DOMAIN history :
                     history[i].obj = o /\ ~history[i].undone /\ ~history[i].invalidated}
  <2>1. /\ history \in Seq(Rows) /\ Legible(history, DOMAIN history) /\ PlainLog(history)
        /\ DOMAIN history = 1..Len(history) /\ Len(history) \in Nat
    BY LogTypes DEF PlainInv
  <2>2. R \in SUBSET (DOMAIN history) /\ L \in SUBSET (DOMAIN history)
        /\ \A i \in R : i \in DOMAIN history /\ history[i].obj = o
    BY DEF RowsOf
  <2>3. \A i \in DOMAIN history : i \in L <=> i \in R /\ ~history[i].undone
    BY DEF PlainInv, HistoryInv, LogInv, Consistent, RowFollows, RowsOf
  <2>4. Loaded(history, o) = Merged(history, L)
    BY DEF Loaded
  <2>5. objects[o] = Latest(history, R)
    BY DEF PlainInv, HistoryInv, Stored
  <2> HIDE DEF L, R
  <2>6. Loaded(history, o) = Latest(history, L)
    BY <2>1, <2>2, <2>4, MergedRows
  <2>7. CASE \E j \in R : SetsDeleted(history, j)
    <3>1. PICK j \in R : SetsDeleted(history, j)
      BY <2>7
    <3>2. PICK k \in DOMAIN history : history[k].obj = o /\ UndoesCreation(history, k)
      BY <2>2, <3>1, DeletionIsUndo
    <3>3. SetsDeleted(history, k) /\ ~history[k].undone
      BY <3>2, UndoOfCreationDeletes
    <3>4. k \in R /\ k \in L
      BY <2>3, <3>2, <3>3 DEF R, RowsOf
    <3>5. "deleted" \in DOMAIN Latest(history, L) /\ "deleted" \in DOMAIN Latest(history, R)
      BY <3>3, <3>4 DEF Latest, SetsDeleted
    <3> QED
      BY <2>5, <2>6, <3>5 DEF Shown
  <2>8. CASE ~\E j \in R : SetsDeleted(history, j)
    <3>1. \A i \in R : DOMAIN history[i].after = {"shape"}
      BY <2>1, <2>2, <2>8, PlainAfter DEF SetsDeleted
    <3>2. CASE R = {}
      <4>1. L = {}
        BY <2>2, <2>3, <3>2
      <4> QED
        BY <2>5, <2>6, <3>2, <4>1
    <3>3. CASE R # {}
      <4>1. PICK m \in R : m = Newest(history, R)
                           /\ \A j \in R \ {m} : Later(history[m].ts, history[j].ts)
        BY <2>1, <2>2, <3>3, NewestIsNewer
      <4>2. ~history[m].undone
        <5> SUFFICES ASSUME history[m].undone PROVE FALSE
          OBVIOUS
        <5>1. PICK j \in DOMAIN history : m < j /\ history[j].obj = history[m].obj
          BY <2>2, UndoneHasUndo
        <5>2. j \in R /\ j # m
          BY <2>1, <2>2, <5>1 DEF R, RowsOf
        <5> QED
          BY <2>2, <4>1, <5>1, <5>2, RowsInOrder
      <4>3. m \in L /\ \A j \in L : j \in R
        BY <2>2, <2>3, <4>2
      <4>4. Newest(history, L) = m
        <5>1. \A j \in L \ {m} : Later(history[m].ts, history[j].ts)
          BY <4>1, <4>3
        <5> QED
          BY <2>1, <2>2, <4>3, <5>1, NewestIsUnique
      <4>5. ASSUME NEW T \in {R, L}
            PROVE  Latest(history, T) = [k \in {"shape"} |-> Written(history, m, k)]
        <5>1. /\ m \in T /\ Newest(history, T) = m
              /\ \A i \in T : DOMAIN history[i].after = {"shape"}
          BY <3>1, <4>1, <4>3, <4>4
        <5>2. UNION {DOMAIN history[i].after : i \in T} = {"shape"}
          BY <5>1
        <5>3. Setters(history, T, "shape") = T
          BY <5>1 DEF Setters
        <5> QED
          BY <5>1, <5>2, <5>3 DEF Latest
      <4> QED
        BY <2>5, <2>6, <4>5
    <3> QED
      BY <3>2, <3>3
  <2> QED
    BY <2>7, <2>8
<1> QED
  BY <1>1, PlainInvariant, PTL

\* Under the same conditions an undo brings the object back to what was shown before the
\* undone draw, as long as nobody else has acted on the object in between: the user cannot
\* have undone the object's creation on the way, as the undone draw would be out of reach.
THEOREM UndoAlwaysInverts ==
  ASSUME PlainClients
  PROVE  InOrderSpec => []UndoInverts
<1>1. PlainInv => UndoInverts
  <2> DEFINE m == Len(history)
             i == history[m].ref
             b == history[i].before
             o == history[m].obj
  <2> SUFFICES ASSUME PlainInv, history # << >>, history[m].kind = "UNDO",
                      \A j \in (i + 1)..m :
                        history[j].obj = o => history[j].user = history[m].user
               PROVE  Shown(objects[o]) = Shown(b)
    BY DEF UndoInverts, Last
  <2>1. /\ history \in Seq(Rows) /\ Legible(history, DOMAIN history) /\ PlainLog(history)
        /\ DOMAIN history = 1..Len(history) /\ Len(history) \in Nat /\ m \in DOMAIN history
    BY LogTypes DEF PlainInv
  <2>2. PlainMarker(history, m)
    BY <2>1 DEF PlainLog, PlainRow
  <2>3. /\ i \in DOMAIN history /\ i < m /\ history[i].kind \in Draws /\ history[i].obj = o
        /\ history[m].after = InverseProps(history[i])
    BY <2>1, <2>2 DEF PlainMarker
  <2>4. history[i].user = history[m].user
    BY <2>1, <2>3 DEF PlainInv, HistoryInv, OwnMarkers
  <2>5. PlainDraw(history, i)
    BY <2>1, <2>3 DEF PlainLog, PlainRow, Draws
  <2>6. o \in Objs /\ objects[o] = Latest(history, RowsOf(history, o))
    <3>1. o \in Objs
      BY <2>1, RowTypes DEF Rows
    <3> QED
      BY <3>1 DEF PlainInv, HistoryInv, Stored
  <2> HIDE DEF m, i
  <2>7. m \in RowsOf(history, o) /\ \A j \in RowsOf(history, o) : j \in DOMAIN history
                                                                /\ history[j].obj = o
    BY <2>1 DEF RowsOf
  <2>8. CASE b = NoObject
    <3>1. "deleted" \in DOMAIN history[m].after
      BY <2>3, <2>8 DEF InverseProps, Deleted
    <3>2. "deleted" \in DOMAIN objects[o]
      BY <2>6, <2>7, <3>1 DEF Latest
    <3> QED
      BY <2>8, <3>2 DEF Shown, NoObject
  <2>9. CASE "deleted" \in DOMAIN b
    <3>1. PICK j \in 1..(i - 1) : history[j].obj = history[i].obj /\ SetsDeleted(history, j)
      BY <2>5, <2>9 DEF PlainDraw
    <3>2. j \in RowsOf(history, o)
      BY <2>1, <2>3, <3>1 DEF RowsOf
    <3>3. "deleted" \in DOMAIN objects[o]
      BY <2>6, <3>1, <3>2 DEF Latest, SetsDeleted
    <3> QED
      BY <2>9, <3>3 DEF Shown
  <2>10. CASE b # NoObject /\ "deleted" \notin DOMAIN b
    <3>1. DOMAIN b = {"shape"}
      BY <2>5, <2>10 DEF PlainDraw
    <3>2. history[m].after = MaterializeCRDT(b)
      BY <2>3, <2>10 DEF InverseProps
    <3>3. ASSUME NEW j \in DOMAIN history, history[j].obj = o, SetsDeleted(history, j)
          PROVE  FALSE
      <4>1. PICK k \in DOMAIN history : history[k].obj = o /\ UndoesCreation(history, k)
        BY <3>3, DeletionIsUndo
      <4>2. SetsDeleted(history, k)
        BY <4>1, UndoOfCreationDeletes
      <4> DEFINE c == history[k].ref
      <4>3. PlainMarker(history, k) /\ history[k].kind = "UNDO"
        BY <2>1, <4>1 DEF PlainLog, PlainRow, UndoesCreation
      <4>4. /\ c \in DOMAIN history /\ c < k /\ history[c].obj = o /\ history[c].before = NoObject
            /\ history[c].kind \in Draws /\ history[k].user = history[c].user
        BY <2>1, <4>1, <4>3
        DEF PlainMarker, UndoesCreation, PlainInv, HistoryInv, OwnMarkers
      <4> HIDE DEF c
      <4>5. c # i
        BY <2>10, <4>4
      <4>6. ~(i < c)
        <5>1. PlainDraw(history, c)
          BY <2>1, <4>4 DEF PlainLog, PlainRow, Draws
        <5>2. \A l \in 1..(c - 1) : history[l].obj # o
          BY <4>4, <5>1 DEF PlainDraw
        <5> QED
          BY <2>1, <2>3, <4>4, <5>2
      <4>7. ~(k < i)
        <5>1. \A l \in 1..(i - 1) : ~(history[l].obj = o /\ SetsDeleted(history, l))
          BY <2>3, <2>5, <2>10 DEF PlainDraw
        <5> QED
          BY <2>1, <2>3, <4>1, <4>2, <5>1
      <4>8. k # i /\ k # m
        <5>1. k # i
          BY <2>3, <4>3 DEF Draws
        <5>2. k # m
          BY <4>5 DEF c, i
        <5> QED
          BY <5>1, <5>2
      <4>9. c < i /\ i < k /\ k < m
        BY <2>1, <2>3, <4>4, <4>5, <4>6, <4>7, <4>8 DEF m
      <4>10. history[k].user = history[m].user
        BY <2>1, <2>3, <4>1, <4>9
      <4>11. PassedBy(history, i, k)
        BY <2>3, <2>4, <4>3, <4>9, <4>10 DEF PassedBy, c
      <4>12. history[m].ref # i
        BY <2>1, <2>3, <4>9, <4>11 DEF PlainInv, Stacked
      <4> QED
        BY <4>12 DEF i
    <3> DEFINE S == RowsOf(history, o)
    <3>4. \A j \in S : DOMAIN history[j].after = {"shape"}
      <4> SUFFICES ASSUME NEW j \in S PROVE DOMAIN history[j].after = {"shape"}
        OBVIOUS
      <4>1. ~SetsDeleted(history, j) /\ j \in DOMAIN history
        BY <2>7, <3>3
      <4> QED
        BY <2>1, <4>1, PlainAfter DEF SetsDeleted
    <3>5. Newest(history, S) = m
      <4>1. \A j \in S \ {m} : j \in DOMAIN history /\ j < m
        BY <2>1, <2>7 DEF m
      <4>2. \A j \in S \ {m} : Later(history[m].ts, history[j].ts)
        BY <2>1, <4>1, RowsInOrder
      <4>3. S \in SUBSET (DOMAIN history) /\ m \in S
        BY <2>7
      <4> HIDE DEF S
      <4> QED
        BY <2>1, <4>2, <4>3, NewestIsUnique
    <3>6. objects[o] = [k \in {"shape"} |-> Written(history, m, k)]
      <4>1. UNION {DOMAIN history[j].after : j \in S} = {"shape"}
        BY <2>7, <3>4
      <4>2. Setters(history, S, "shape") = S
        BY <3>4 DEF Setters
      <4> QED
        BY <2>6, <3>5, <4>1, <4>2 DEF Latest
    <3>7. Shown(objects[o]) = [k \in {"shape"} |-> history[m].after[k]]
      BY <3>6 DEF Shown, MaterializeCRDT, Written
    <3>8. Shown(b) = MaterializeCRDT(b)
      BY <2>10 DEF Shown
    <3> QED
      BY <3>1, <3>2, <3>7, <3>8 DEF MaterializeCRDT
  <2> QED
    BY <2>8, <2>9, <2>10
<1> QED
  BY <1>1, PlainInvariant, PTL

-----------------------------------------------------------------------------
(* Convergence of the replicas of an object, for any sets of keys, values, *)
(* actors, times and replicas.                                             *)

ReplicaInv == ReplicaTypeOK /\ LatestWriteWins

LEMMA ReplicaInitInv == ReplicaInit => ReplicaInv
<1> SUFFICES ASSUME ReplicaInit PROVE ReplicaInv
  OBVIOUS
<1>2. ReplicaTypeOK
  BY NoObjectType DEF ReplicaInit, ReplicaTypeOK
<1>3. DOMAIN NoObject = {}
  BY DEF NoObject
<1> QED
  BY <1>2, <1>3 DEF ReplicaInit, ReplicaInv, LatestWriteWins

LEMMA IssueKeepsReplicas ==
  ASSUME ReplicaInv, NEW p \in Patches, Issue(p)
  PROVE  ReplicaInv'
<1>1. ReplicaTypeOK'
  BY DEF ReplicaInv, ReplicaTypeOK, Issue
<1>2. LatestWriteWins'
  BY DEF ReplicaInv, LatestWriteWins, Issue
<1> QED
  BY <1>1, <1>2 DEF ReplicaInv

LEMMA ApplyKeepsReplicas ==
  ASSUME ReplicaInv, NEW r \in Replicas, NEW p \in issued, Apply(r, p)
  PROVE  ReplicaInv'
<1> DEFINE o == object[r]
<1> DEFINE m == MergeCRDT(o, p.props, p.ts)
<1>1. p.props \in Props /\ p.ts \in Timestamps /\ o \in Objects
  BY DEF ReplicaInv, ReplicaTypeOK, Patches
<1>2. m \in Objects /\ DOMAIN m = DOMAIN o \cup DOMAIN p.props
  BY <1>1, MergeType
<1>3. /\ issued' = issued
      /\ applied' = [applied EXCEPT ![r] = @ \cup {p}]
      /\ object' = [object EXCEPT ![r] = m]
  BY DEF Apply
<1>4. ReplicaTypeOK'
  BY <1>2, <1>3 DEF ReplicaInv, ReplicaTypeOK
<1>5. LatestWriteWins'
  <2> SUFFICES ASSUME NEW q \in Replicas
               PROVE
                 /\ \A x \in applied'[q] : DOMAIN x.props \subseteq DOMAIN object'[q]
                 /\ \A k \in DOMAIN object'[q] :
                      /\ \E x \in applied'[q] :
                           /\ k \in DOMAIN x.props
                           /\ object'[q][k] = [val |-> x.props[k], ts |-> x.ts]
                      /\ \A x \in applied'[q] :
                           k \in DOMAIN x.props => ~Later(x.ts, object'[q][k].ts)
    BY DEF LatestWriteWins
  <2>1. CASE q # r
    BY <2>1, <1>3 DEF ReplicaInv, ReplicaTypeOK, LatestWriteWins
  <2>2. CASE q = r
    <3>1. applied'[r] = applied[r] \cup {p} /\ object'[r] = m
      BY <1>3 DEF ReplicaInv, ReplicaTypeOK
    <3>2. \A x \in applied[r] : x.ts \in Timestamps /\ DOMAIN x.props \subseteq DOMAIN o
      BY DEF ReplicaInv, ReplicaTypeOK, LatestWriteWins, Patches
    <3>3. \A x \in applied'[r] : DOMAIN x.props \subseteq DOMAIN m
      BY <1>2, <3>1, <3>2
    <3>4. ASSUME NEW k \in DOMAIN m
          PROVE  /\ \E x \in applied'[r] :
                      k \in DOMAIN x.props /\ m[k] = [val |-> x.props[k], ts |-> x.ts]
                 /\ \A x \in applied'[r] : k \in DOMAIN x.props => ~Later(x.ts, m[k].ts)
      <4>1. CASE k \in DOMAIN p.props /\ (k \in DOMAIN o => Later(p.ts, o[k].ts))
        <5>1. m[k] = [val |-> p.props[k], ts |-> p.ts]
          BY <1>2, <4>1 DEF MergeCRDT
        <5>2. ASSUME NEW x \in applied'[r], k \in DOMAIN x.props
              PROVE  ~Later(x.ts, p.ts)
          <6>1. CASE x = p
            BY <6>1, <1>1, LaterIsStrictTotalOrder
          <6>2. CASE x \in applied[r]
            <7>1. k \in DOMAIN o /\ ~Later(x.ts, o[k].ts)
              BY <3>2, <5>2, <6>2 DEF ReplicaInv, LatestWriteWins
            <7>2. o[k].ts \in Timestamps
              BY <7>1, <1>1 DEF Objects, Cells
            <7> QED
              BY <7>1, <7>2, <4>1, <3>2, <6>2, <1>1, LaterIsStrictTotalOrder
          <6> QED
            BY <6>1, <6>2, <5>2, <3>1
        <5> QED
          BY <5>1, <5>2, <4>1, <3>1
      <4>2. CASE ~(k \in DOMAIN p.props /\ (k \in DOMAIN o => Later(p.ts, o[k].ts)))
        <5>1. k \in DOMAIN o /\ m[k] = o[k]
          BY <1>2, <4>2 DEF MergeCRDT
        <5>2. k \in DOMAIN p.props => ~Later(p.ts, o[k].ts)
          BY <4>2, <5>1
        <5>3. PICK x \in applied[r] :
                k \in DOMAIN x.props /\ o[k] = [val |-> x.props[k], ts |-> x.ts]
          BY <5>1 DEF ReplicaInv, LatestWriteWins
        <5>4. \A y \in applied[r] : k \in DOMAIN y.props => ~Later(y.ts, o[k].ts)
          BY <5>1 DEF ReplicaInv, LatestWriteWins
        <5> QED
          BY <5>1, <5>2, <5>3, <5>4, <3>1
      <4> QED
        BY <4>1, <4>2
    <3> QED
      BY <2>2, <3>1, <3>3, <3>4
  <2> QED
    BY <2>1, <2>2
<1> QED
  BY <1>4, <1>5 DEF ReplicaInv

LEMMA ReplicaStep == ReplicaInv /\ [ReplicaNext]_replicaVars => ReplicaInv'
<1> SUFFICES ASSUME ReplicaInv, [ReplicaNext]_replicaVars PROVE ReplicaInv'
  OBVIOUS
<1>1. ASSUME NEW p \in Patches, Issue(p) PROVE ReplicaInv'
  BY <1>1, IssueKeepsReplicas
<1>2. ASSUME NEW r \in Replicas, NEW p \in issued, Apply(r, p) PROVE ReplicaInv'
  BY <1>2, ApplyKeepsReplicas
<1>3. CASE UNCHANGED replicaVars
  BY <1>3 DEF replicaVars, ReplicaInv, ReplicaTypeOK, LatestWriteWins
<1> QED
  BY <1>1, <1>2, <1>3 DEF ReplicaNext

\* The types of the replicas and, at every replica, the latest write of every
\* key: for any number of replicas, patches, keys and actors.
THEOREM LatestWriteWinsHolds == ReplicaSpec => [](ReplicaTypeOK /\ LatestWriteWins)
<1>1. ReplicaInv => ReplicaTypeOK /\ LatestWriteWins
  BY DEF ReplicaInv
<1> QED
  BY ReplicaInitInv, ReplicaStep, <1>1, PTL DEF ReplicaSpec

LEMMA ReplicasConverge == ReplicaInv => Convergence
<1> SUFFICES ASSUME ReplicaInv, NEW r \in Replicas, NEW q \in Replicas,
                    applied[r] = applied[q]
             PROVE  /\ DOMAIN object[r] = DOMAIN object[q]
                    /\ \A k \in DOMAIN object[r] :
                         /\ object[r][k].ts = object[q][k].ts
                         /\ \/ object[r][k] = object[q][k]
                            \/ \E p1, p2 \in LastWrites(r, k) : p1.props[k] # p2.props[k]
  BY DEF Convergence
<1>1. DOMAIN object[r] = DOMAIN object[q]
  BY DEF ReplicaInv, LatestWriteWins
<1>2. ASSUME NEW k \in DOMAIN object[r]
      PROVE  /\ object[r][k].ts = object[q][k].ts
             /\ \/ object[r][k] = object[q][k]
                \/ \E p1, p2 \in LastWrites(r, k) : p1.props[k] # p2.props[k]
  <2>1. PICK x \in applied[r] :
          k \in DOMAIN x.props /\ object[r][k] = [val |-> x.props[k], ts |-> x.ts]
    BY DEF ReplicaInv, LatestWriteWins
  <2>2. PICK y \in applied[q] :
          k \in DOMAIN y.props /\ object[q][k] = [val |-> y.props[k], ts |-> y.ts]
    BY <1>1 DEF ReplicaInv, LatestWriteWins
  <2>3. ~Later(x.ts, y.ts) /\ ~Later(y.ts, x.ts)
    BY <1>1, <2>1, <2>2 DEF ReplicaInv, LatestWriteWins
  <2>4. x.ts \in Timestamps /\ y.ts \in Timestamps
    BY DEF ReplicaInv, ReplicaTypeOK, Patches
  <2>5. x.ts = y.ts
    BY <2>3, <2>4, LaterIsStrictTotalOrder
  <2>6. x \in LastWrites(r, k) /\ y \in LastWrites(r, k)
    BY <2>1, <2>2, <2>5 DEF LastWrites
  <2> QED
    BY <2>1, <2>2, <2>5, <2>6
<1> QED
  BY <1>1, <1>2

\* Conflict-free replication: in whatever order and however often replicas merge
\* the same patches, they end with the same keys at the same timestamps, and with
\* the same values but where two of the patches tie for the last write of a key.
THEOREM ConvergenceHolds == ReplicaSpec => []Convergence
  BY ReplicaInitInv, ReplicaStep, ReplicasConverge, PTL DEF ReplicaSpec

\* No merge takes a key away or replaces a write by an older one.
THEOREM NeverBackwardsHolds == ReplicaSpec => NeverBackwards
<1>1. ReplicaInv /\ [ReplicaNext]_replicaVars => [KeysMoveForward]_replicaVars
  <2> SUFFICES ASSUME ReplicaInv, ReplicaNext,
                      NEW r \in Replicas, NEW k \in DOMAIN object[r]
               PROVE  /\ k \in DOMAIN object'[r]
                      /\ ~Later(object[r][k].ts, object'[r][k].ts)
    BY DEF KeysMoveForward
  <2>1. object[r] \in Objects /\ object[r][k].ts \in Timestamps
    BY DEF ReplicaInv, ReplicaTypeOK, Objects, Cells
  <2>2. CASE object'[r] = object[r]
    BY <2>1, <2>2, LaterIsStrictTotalOrder
  <2>3. ASSUME NEW p \in issued, Apply(r, p)
        PROVE  /\ k \in DOMAIN object'[r]
               /\ ~Later(object[r][k].ts, object'[r][k].ts)
    <3>1. object'[r] = MergeCRDT(object[r], p.props, p.ts)
      BY <2>3 DEF ReplicaInv, ReplicaTypeOK, Apply
    <3>2. p.ts \in Timestamps
      BY DEF ReplicaInv, ReplicaTypeOK, Patches
    <3>3. k \in DOMAIN object'[r]
      BY <3>1 DEF MergeCRDT
    <3>4. \/ object'[r][k].ts = object[r][k].ts
          \/ object'[r][k].ts = p.ts /\ Later(p.ts, object[r][k].ts)
      BY <3>1 DEF MergeCRDT
    <3> QED
      BY <2>1, <3>2, <3>3, <3>4, LaterIsStrictTotalOrder
  <2>4. ASSUME NEW q \in Replicas, NEW p \in issued, Apply(q, p), q # r
        PROVE  object'[r] = object[r]
    BY <2>4 DEF ReplicaInv, ReplicaTypeOK, Apply
  <2>5. ASSUME NEW p \in Patches, Issue(p)
        PROVE  object'[r] = object[r]
    BY <2>5 DEF Issue
  <2> QED
    BY <2>2, <2>3, <2>4, <2>5 DEF ReplicaNext
<1> QED
  BY <1>1, ReplicaInitInv, ReplicaStep, PTL DEF ReplicaSpec, NeverBackwards

=============================================================================
