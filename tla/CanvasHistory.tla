--------------------------- MODULE CanvasHistory ---------------------------
(***************************************************************************)
(* What the canvas of a room promises: clients publish draws, undos and    *)
(* redos, and each published event takes effect on the objects and the log *)
(* at once and only once.  The consumer that gets there through a queue,   *)
(* transactions, redelivery and crashes is CanvasConsumer.                 *)
(*                                                                         *)
(* Events are numbered in the order of their logical timestamps; a user's  *)
(* clock and the order of users on equal times are in Hlc and CanvasCRDT.  *)
(***************************************************************************)
EXTENDS CanvasStore

CONSTANTS EventKinds,  \* bound: the kinds of event clients publish
          MaxEvents    \* bound: the events of a behaviour

ASSUME HistoryAssumption ==
  /\ MaxEvents \in Nat /\ Times = 1..MaxEvents
  /\ EventKinds \subseteq Kinds
  /\ {"shape", "deleted"} \subseteq Keys /\ Extras \subseteq SUBSET Keys
  /\ 0..MaxEvents \subseteq Values

VARIABLES events,     \* what clients published
          processed,  \* the ids in ProcessedEvent
          objects,    \* CanvasObject
          history     \* CanvasActionHistory

vars == <<events, processed, objects, history>>

Events == [user : Actors, kind : Kinds, obj : Objs, keys : Extras]

TypeOK ==
  /\ events \in Seq(Events) /\ Len(events) <= MaxEvents
  /\ processed \subseteq DOMAIN events
  /\ objects \in [Objs -> Objects]
  /\ history \in Seq(Rows)

Stamp(n) == [time |-> n, actorId |-> events[n].user]

\* A draw always has the properties that make a shape (its type among them)
\* and may have optional ones, all under a value of its own.
Patch(n) ==
  IF events[n].kind = "DELETE" THEN Deleted
  ELSE [k \in {"shape"} \cup events[n].keys |-> n]

Init ==
  /\ events = << >>
  /\ processed = {}
  /\ objects = [o \in Objs |-> NoObject]
  /\ history = << >>

Publish(e) ==
  /\ Len(events) < MaxEvents
  /\ events' = Append(events, e)
  /\ UNCHANGED <<processed, objects, history>>

Draw(n) ==
  LET e == events[n] IN
  /\ e.kind \in Draws
  /\ objects' = WriteObject(objects, e.obj, objects[e.obj], Patch(n), Stamp(n))
  /\ history' = Append(Invalidate(history, Redoable(history, e.user)),
                       DrawRow(n, e.user, e.kind, e.obj, objects[e.obj], Patch(n), Stamp(n)))

HandleUndo(n) ==
  LET u == events[n].user
      i == UndoTarget(history, u)
      inverse == InverseProps(history[i])
  IN
  /\ events[n].kind = "UNDO"
  /\ i # 0
  /\ LET o == history[i].obj
     IN  objects' = WriteObject(objects, o, objects[o], inverse, Stamp(n))
  /\ history' = Append(MarkUndone(history, i),
                       MarkerRow(n, u, "UNDO", i, history, inverse, Stamp(n)))

HandleRedo(n) ==
  LET u == events[n].user
      i == RedoTarget(history, u)
      forward == history[i].after
  IN
  /\ events[n].kind = "REDO"
  /\ i # 0
  /\ LET o == history[i].obj
     IN  objects' = WriteObject(objects, o, objects[o], forward, Stamp(n))
  /\ history' = Append(MarkRedone(history, i),
                       MarkerRow(n, u, "REDO", i, history, forward, Stamp(n)))

\* Drags in progress are only broadcast; an undo or a redo may have nothing to
\* act on.
HandleNothing(n) ==
  /\ \/ events[n].kind = "TRANSLATE"
     \/ events[n].kind = "UNDO" /\ UndoTarget(history, events[n].user) = 0
     \/ events[n].kind = "REDO" /\ RedoTarget(history, events[n].user) = 0
  /\ UNCHANGED <<objects, history>>

Handle(n) ==
  /\ n \in DOMAIN events \ processed
  /\ processed' = processed \cup {n}
  /\ UNCHANGED events
  /\ \/ Draw(n)
     \/ HandleUndo(n)
     \/ HandleRedo(n)
     \/ HandleNothing(n)

PublishSome ==
  \E e \in Events :
    /\ e.kind \in EventKinds
    /\ e.kind \in {"CREATE", "UPDATE"} \/ e.keys = {}
    /\ Publish(e)

\* Events may overtake each other: two publishes of one socket wait for the
\* queue check side by side, and consumers take several messages at a time.
Next == PublishSome \/ \E n \in DOMAIN events : Handle(n)

Spec == Init /\ [][Next]_vars

\* The next event in the order of their timestamps.
Oldest(n) == \A m \in DOMAIN events \ processed : n <= m

NextInOrder == PublishSome \/ \E n \in DOMAIN events : Oldest(n) /\ Handle(n)

InOrderSpec == Init /\ [][NextInOrder]_vars

-----------------------------------------------------------------------------
(* What must hold.                                                         *)

\* "Every state change is backed by an event log, allowing for full state
\* reconstruction": what replayCanvas rebuilds from the log is what the
\* CanvasObject table holds, the check of runReplayCheck.
ReplayReconstructs == \A o \in Objs : Replayed(history, o) = objects[o]

\* isUndone and isRedoInvalidated agree with the UNDO and REDO rows: a draw is
\* undone exactly when the last row that references it is an UNDO, markers
\* alternate, and only an undone draw is invalidated.
FlagsFollowMarkers ==
  \A i \in DOMAIN history :
    LET markers == {j \in DOMAIN history : history[j].ref = i}
        last(j) == \A k \in markers : k <= j
    IN  /\ history[i].undone <=> \E j \in markers : last(j) /\ history[j].kind = "UNDO"
        /\ history[i].invalidated => history[i].undone
        /\ \A j, k \in markers :
             j < k /\ (\A l \in markers : l <= j \/ l >= k) => history[j].kind # history[k].kind

\* "Reject redo when user performed newer actions after the undo marker": no
\* REDO row comes after a draw of the user that lies, in the user's own time,
\* between the undo of the same action and this redo.
NoRedoPastNewerDraw ==
  \A j \in DOMAIN history : history[j].kind = "REDO" =>
    LET i == history[j].ref
        undos == {k \in 1..(j - 1) : history[k].kind = "UNDO" /\ history[k].ref = i}
    IN  \E k \in undos :
          \A d \in DrawRows(history, history[j].user) :
            d < j => ~(/\ history[k].ts.time < history[d].ts.time
                       /\ history[d].ts.time < history[j].ts.time)

\* A client that loads the room sees what the clients in the room see.
LoadShowsLive ==
  \A o \in Objs : Shown(Loaded(history, o)) = Shown(objects[o])

\* "Apply inverse": an undo brings the object back to what was shown before the
\* undone action, as long as nobody else has acted on the object in between.
UndoInverts ==
  history # << >> =>
    LET row == Last(history)
        alone == \A j \in (row.ref + 1)..Len(history) :
                   history[j].obj = row.obj => history[j].user = row.user
    IN  row.kind = "UNDO" /\ alone => Shown(objects[row.obj]) = Shown(history[row.ref].before)

\* "Reapply forward": after a redo the object is shown with the properties of
\* the action that was done again.
RedoReapplies ==
  history # << >> =>
    LET row == Last(history)
        forward == history[row.ref].after
    IN  row.kind = "REDO" /\ forward # Deleted => Shown(objects[row.obj]) = forward

\* "Find last undone action": a redo takes the action that was undone last.
RedoTakesLastUndone ==
  [][\A n \in processed' \ processed :
       LET u == events[n].user
           undos == {j \in DOMAIN history : history[j].kind = "UNDO"
                                            /\ history[j].ref \in Redoable(history, u)}
       IN  events[n].kind = "REDO" /\ undos # {} =>
             /\ Last(history').kind = "REDO"
             /\ Last(history').ref = history[Newest(history, undos)].ref]_vars

=============================================================================
