---------------------------- MODULE CanvasStore ----------------------------
(***************************************************************************)
(* The two tables a canvas event changes, CanvasObject and                 *)
(* CanvasActionHistory, for one room: the objects are a function from      *)
(* their ids, the history is the sequence of its rows in insertion order,  *)
(* and a row's id is its index.                                            *)
(*                                                                         *)
(* The operators are the queries and writes of canvas.history.service.ts,  *)
(* canvas.consumer.ts and the services that read the log back.  A merge    *)
(* and a write take the object they were computed from as a parameter: the *)
(* code reads it in a statement of its own.                                *)
(***************************************************************************)
EXTENDS CanvasCRDT, SequencesExt

CONSTANTS Objs,
          Extras  \* what draws may set besides a shape: sets of property names

Draws == {"CREATE", "UPDATE", "DELETE"}

\* What a client can ask for.  TRANSLATE is an UPDATE_OBJECT that carries
\* _translate.  UNSUPPORTED is an action the socket handler lets through and
\* mapCanvasActionToHistoryAction throws on.
Kinds == Draws \cup {"TRANSLATE", "UNDO", "REDO", "UNSUPPORTED"}

\* before: the object row at the time of a draw, NoObject for null.  The
\* before column of UNDO and REDO rows is never read and left out.
\* ref: referenceActionId, 0 for null.
Rows == [event : Nat, user : Actors, kind : Draws \cup {"UNDO", "REDO"},
         obj : Objs, before : Objects, after : Props, ts : Timestamps,
         undone : BOOLEAN, invalidated : BOOLEAN, ref : Nat]

Deleted == [k \in {"deleted"} |-> 0]

-----------------------------------------------------------------------------
(* Queries of the log.                                                     *)

\* orderBy [time desc, actorId desc], first row; 0 when there is none.
Newest(h, S) ==
  IF S = {} THEN 0
  ELSE CHOOSE i \in S : \A j \in S : ~Later(h[j].ts, h[i].ts)

DrawRows(h, u) == {i \in DOMAIN h : h[i].user = u /\ h[i].kind \in Draws}

UndoTarget(h, u) == Newest(h, {i \in DrawRows(h, u) : ~h[i].undone})

Redoable(h, u) == {i \in DrawRows(h, u) : h[i].undone /\ ~h[i].invalidated}

\* The latest UNDO row that references row i.
UndoMarker(h, i) ==
  Newest(h, {j \in DOMAIN h : h[j].user = h[i].user /\ h[j].kind = "UNDO" /\ h[j].ref = i})

\* The user has a row, of any kind, later than the undo of row i.
RedoBlocked(h, i) ==
  LET marker == UndoMarker(h, i)
      since  == IF marker = 0 THEN h[i].ts.time ELSE h[marker].ts.time
  IN  \E j \in DOMAIN h \ {marker} : h[j].user = h[i].user /\ h[j].ts.time > since

\* Mutant of RedoTarget: the redo chain is not validated.
RedoTargetUnchecked(h, u) == Newest(h, Redoable(h, u))

RedoTarget(h, u) ==
  LET i == Newest(h, Redoable(h, u))
  IN  IF i # 0 /\ RedoBlocked(h, i) THEN 0 ELSE i

-----------------------------------------------------------------------------
(* Writes.                                                                 *)

\* The upsert of an object, merged from the row that was read.
WriteObject(objects, o, read, props, ts) ==
  [objects EXCEPT ![o] = MergeCRDT(read, props, ts)]

\* saveHistory
DrawRow(n, u, kind, o, read, props, ts) ==
  [event |-> n, user |-> u, kind |-> kind, obj |-> o, before |-> read,
   after |-> props, ts |-> ts, undone |-> FALSE, invalidated |-> FALSE, ref |-> 0]

\* Mutant of MarkerRow: an undo or a redo is logged without its patch.
MarkerRowEmpty(n, u, kind, i, h, props, ts) ==
  [event |-> n, user |-> u, kind |-> kind, obj |-> h[i].obj, before |-> NoObject,
   after |-> NoObject, ts |-> ts, undone |-> FALSE, invalidated |-> FALSE, ref |-> i]

MarkerRow(n, u, kind, i, h, props, ts) ==
  [event |-> n, user |-> u, kind |-> kind, obj |-> h[i].obj, before |-> NoObject,
   after |-> props, ts |-> ts, undone |-> FALSE, invalidated |-> FALSE, ref |-> i]

MarkUndone(h, i) == [h EXCEPT ![i].undone = TRUE, ![i].invalidated = FALSE]

MarkRedone(h, i) == [h EXCEPT ![i].undone = FALSE, ![i].invalidated = FALSE]

\* REDO INVALIDATION of the rows S.
Invalidate(h, S) ==
  [i \in DOMAIN h |-> IF i \in S THEN [h[i] EXCEPT !.invalidated = TRUE] ELSE h[i]]

\* Mutant of InverseProps: an undo always deletes.
InversePropsDelete(row) == Deleted

\* applyInverse: every property the object had, or a deletion when the undone
\* row created it.
InverseProps(row) ==
  IF row.before = NoObject THEN Deleted ELSE MaterializeCRDT(row.before)

-----------------------------------------------------------------------------
(* Reading the log back.                                                   *)

\* The rows S merged into obj in the order of their timestamps.
MergedInto(obj, h, S) ==
  LET merged[T \in SUBSET S] ==
        IF T = {} THEN obj
        ELSE LET i == Newest(h, T)
             IN  MergeCRDT(merged[T \ {i}], h[i].after, h[i].ts)
  IN  merged[S]

Merged(h, S) == MergedInto(NoObject, h, S)

\* replayCanvas: all rows of the object.
Replayed(h, o) == Merged(h, {i \in DOMAIN h : h[i].obj = o})

\* Mutant of Loaded: only draws are read.
LoadedDraws(h, o) ==
  Merged(h, {i \in DOMAIN h : h[i].obj = o /\ ~h[i].undone /\ h[i].kind \in Draws})

\* buildCanvasLoadPayload without a snapshot: the rows that are not undone.
Loaded(h, o) ==
  Merged(h, {i \in DOMAIN h : h[i].obj = o /\ ~h[i].undone /\ ~h[i].invalidated})

\* materialize: what a client is shown of an object, nothing once it has the
\* deleted property.
Shown(obj) ==
  IF "deleted" \in DOMAIN obj THEN MaterializeCRDT(NoObject) ELSE MaterializeCRDT(obj)

=============================================================================
