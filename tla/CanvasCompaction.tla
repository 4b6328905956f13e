------------------------- MODULE CanvasCompaction -------------------------
(***************************************************************************)
(* What happens to the log of a room behind the consumer: snapshots of the *)
(* objects (snapshot/createBase.ts, utils/canvas.util.ts), the compaction  *)
(* of the log up to the latest snapshot (compaction/), and loads that      *)
(* start from a snapshot (canvasRead.service.ts).                          *)
(*                                                                         *)
(* Events are applied atomically and in order, as in CanvasHistory.  A     *)
(* deleted row leaves Gone at its index, which no query matches, so a row  *)
(* keeps its id.  The wall clock that dates a snapshot stands between the  *)
(* last stamp given and the next one.                                      *)
(***************************************************************************)
EXTENDS CanvasStore

CONSTANTS EventKinds,  \* bound: the kinds of event clients publish
          MaxEvents,   \* bound: the events of a behaviour
          Compactors,  \* runs of the scheduler, in one process or several
          MinEvents    \* a shorter log is left alone

\* No token is in lock:compaction.
Free == "free"

ASSUME CompactionAssumption ==
  /\ MaxEvents \in Nat /\ Times = 1..MaxEvents
  /\ EventKinds \subseteq Kinds
  /\ {"shape", "deleted"} \subseteq Keys /\ Extras \subseteq SUBSET Keys
  /\ 0..MaxEvents \subseteq Values
  /\ MinEvents \in Nat
  /\ 0 \notin Actors /\ "none" \notin Objs /\ Free \notin Compactors

VARIABLES
  events, processed, objects, history,  \* as in CanvasHistory
  version,    \* CanvasObject.version: the stamp of the last event applied
  making,     \* the snapshot being taken, with what it has read
  snapshot,   \* the latest CanvasSnapshot
  lock,       \* the compactor whose token lock:compaction holds
  compactor,  \* what each compactor does
  expired     \* compactors at work whose lock ran out

store == <<events, processed, objects, history, version>>
vars == <<store, making, snapshot, lock, compactor, expired>>

Log == INSTANCE CanvasHistory

Gone == [event |-> 0, user |-> 0, kind |-> "GONE", obj |-> "none",
         before |-> NoObject, after |-> NoObject, ts |-> [time |-> 0, actorId |-> 0],
         undone |-> FALSE, invalidated |-> FALSE, ref |-> 0]

NoSnapshot == [version |-> 0, createdAt |-> 0, objects |-> << >>, seen |-> {}]

\* plan: per segment to collapse, the rows to delete, as they were read, and the
\* row to create.
Idle == [stage |-> "idle", cutoff |-> 0, plan |-> {}]

\* seen: the events that were applied when the objects were read.
Snapshots ==
  [version : Nat, createdAt : Nat, seen : SUBSET (1..MaxEvents),
   objects : UNION {[S -> Objects] : S \in SUBSET Objs}]

TypeOK ==
  /\ events \in Seq(Log!Events) /\ processed \subseteq DOMAIN events
  /\ objects \in [Objs -> Objects]
  /\ history \in Seq(Rows \cup {Gone})
  /\ version \in [Objs -> 0..MaxEvents]
  /\ making.stage \in {"none", "due", "read"}
  /\ snapshot \in Snapshots
  /\ lock = Free \/ lock \in Compactors
  /\ \A c \in Compactors :
       /\ compactor[c].stage \in {"idle", "begun", "read", "done"}
       /\ \A p \in compactor[c].plan : DOMAIN p.old \subseteq DOMAIN history /\ p.new \in Rows
  /\ expired \subseteq {c \in Compactors : compactor[c].stage # "idle"}

NotMaking == [stage |-> "none", version |-> 0, objects |-> << >>, seen |-> {}]

Init ==
  /\ Log!Init
  /\ version = [o \in Objs |-> 0]
  /\ making = NotMaking
  /\ snapshot = NoSnapshot
  /\ lock = Free
  /\ compactor = [c \in Compactors |-> Idle]
  /\ expired = {}

-----------------------------------------------------------------------------
(* The consumer, and the snapshots it triggers.                            *)

Publish == Log!PublishSome /\ UNCHANGED <<version, making, snapshot, lock, compactor, expired>>

\* Any draw may be the one that brings its process to SNAPSHOT_EVERY_EVENTS.
\* Bound: a snapshot is triggered once the one before is made.
Trigger(n) ==
  /\ events[n].kind \in Draws
  /\ making = NotMaking
  /\ making' = [NotMaking EXCEPT !.stage = "due", !.version = n]

Handle(n) ==
  /\ Log!Oldest(n)
  /\ Log!Handle(n)
  /\ version' = IF Len(history') = Len(history) THEN version
                ELSE [version EXCEPT ![Last(history').obj] = n]
  /\ Trigger(n) \/ UNCHANGED making
  /\ UNCHANGED <<snapshot, lock, compactor, expired>>

\* createBaseSnapshot: the objects whose version is at most that of the event
\* that triggered it.  An object that does not exist yet is as good as read.
ReadObjects ==
  /\ making.stage = "due"
  /\ making' = [making EXCEPT !.stage = "read", !.seen = processed,
                  !.objects = [o \in {p \in Objs : version[p] <= making.version} |-> objects[o]]]
  /\ UNCHANGED <<store, snapshot, lock, compactor, expired>>

\* The row is dated when it is written, and loads take the row of the highest
\* version, which the retention never deletes.
CreateSnapshot ==
  /\ making.stage = "read"
  /\ making' = NotMaking
  /\ snapshot' = [version |-> making.version, createdAt |-> Len(events),
                  objects |-> making.objects, seen |-> making.seen]
  /\ UNCHANGED <<store, lock, compactor, expired>>

\* The database fails; the error is logged.
SnapshotFails ==
  /\ making # NotMaking
  /\ making' = NotMaking
  /\ UNCHANGED <<store, snapshot, lock, compactor, expired>>

-----------------------------------------------------------------------------
(* Compaction.  S are the rows it has read, h the log they stand in.       *)

\* Sorted by (time, actorId); rows of equal time keep their order.
Before(h, i, j) == Later(h[j].ts, h[i].ts) \/ (h[i].ts = h[j].ts /\ i < j)

\* Mutant of Boundary: undone rows are not protected.
BoundaryMarkersOnly(row) == row.kind \in {"UNDO", "REDO"} \/ "deleted" \in DOMAIN row.after

\* isBoundaryEvent; the rows that reference another one are the markers.
Boundary(row) ==
  row.kind \in {"UNDO", "REDO"} \/ row.undone \/ "deleted" \in DOMAIN row.after

\* splitByBoundaries: what stands with row i between two boundaries.
Segment(h, S, i) ==
  {j \in S : /\ h[j].obj = h[i].obj
             /\ ~Boundary(h[j])
             /\ ~\E k \in S : /\ h[k].obj = h[i].obj /\ Boundary(h[k])
                              /\ \/ Before(h, i, k) /\ Before(h, k, j)
                                 \/ Before(h, j, k) /\ Before(h, k, i)}

Segments(h, S) == {Segment(h, S, i) : i \in {j \in S : ~Boundary(h[j])}}

FirstOf(h, S) == CHOOSE i \in S : \A j \in S \ {i} : Before(h, i, j)
LastOf(h, S)  == CHOOSE i \in S : \A j \in S \ {i} : Before(h, j, i)

\* The rows of S that set property k.
Setting(h, S, k) == {i \in S : k \in DOMAIN h[i].after}

\* squashEvents: the rows that are the last of the segment to set a property.
Squashed(h, seg) ==
  {i \in seg : \E k \in DOMAIN h[i].after : i = LastOf(h, Setting(h, seg, k))}

\* Mutant of Collapsed: the earliest value of a property wins.
CollapsedEarliest(h, S) ==
  [h[LastOf(h, S)] EXCEPT !.kind = "UPDATE",
     !.after = [k \in UNION {DOMAIN h[i].after : i \in S} |->
                  h[FirstOf(h, Setting(h, S, k))].after[k]]]

\* collapseEvents: the latest value of every property, under the time and the
\* user of the last row, and with what was there before the first.
Collapsed(h, S) ==
  [h[LastOf(h, S)] EXCEPT
     !.event = 0, !.kind = "UPDATE", !.before = h[FirstOf(h, S)].before,
     !.undone = FALSE, !.invalidated = FALSE, !.ref = 0,
     !.after = [k \in UNION {DOMAIN h[i].after : i \in S} |->
                  h[LastOf(h, Setting(h, S, k))].after[k]]]

\* A segment that one row stands for already is left alone.
Plan(h, S) ==
  {[old |-> [i \in seg |-> h[i]], new |-> Collapsed(h, Squashed(h, seg))] :
     seg \in {g \in Segments(h, S) : Cardinality(Squashed(h, g)) > 1}}

Begin(c) ==
  /\ compactor[c].stage = "idle"
  /\ lock = Free
  /\ snapshot # NoSnapshot
  /\ lock' = c
  /\ compactor' = [compactor EXCEPT ![c] = [Idle EXCEPT !.stage = "begun",
                                                        !.cutoff = snapshot.createdAt]]
  /\ UNCHANGED <<store, making, snapshot, expired>>

\* The pages of the log up to the cutoff, as one read.
ReadLog(c) ==
  LET rows == {i \in DOMAIN history : history[i] # Gone
                                      /\ history[i].ts.time <= compactor[c].cutoff}
      plan == IF Cardinality(rows) < MinEvents THEN {} ELSE Plan(history, rows)
  IN
  /\ compactor[c].stage = "begun"
  /\ compactor' = [compactor EXCEPT
       ![c] = [Idle EXCEPT !.stage = IF plan = {} THEN "done" ELSE "read", !.plan = plan]]
  /\ UNCHANGED <<store, making, snapshot, lock, expired>>

\* One transaction: deleteMany on the ids, whatever has become of the rows,
\* and createMany.
Rewrite(c) ==
  LET ids == UNION {DOMAIN p.old : p \in compactor[c].plan}
      rows == SetToSeq({p.new : p \in compactor[c].plan})
  IN
  /\ compactor[c].stage = "read"
  /\ history' = [i \in DOMAIN history |-> IF i \in ids THEN Gone ELSE history[i]] \o rows
  /\ compactor' = [compactor EXCEPT ![c] = [Idle EXCEPT !.stage = "done"]]
  /\ UNCHANGED <<events, processed, objects, version, making, snapshot, lock, expired>>

\* The database fails on the way.
Throws(c) ==
  /\ compactor[c].stage \in {"begun", "read"}
  /\ compactor' = [compactor EXCEPT ![c] = [Idle EXCEPT !.stage = "done"]]
  /\ UNCHANGED <<store, making, snapshot, lock, expired>>

\* Mutant of Release: the token is not compared.
ReleaseAny(c) ==
  /\ compactor[c].stage = "done"
  /\ lock' = Free
  /\ compactor' = [compactor EXCEPT ![c] = Idle]
  /\ expired' = expired \ {c}
  /\ UNCHANGED <<store, making, snapshot>>

\* finally: releaseLock deletes the key only if it holds the token.
Release(c) ==
  /\ compactor[c].stage = "done"
  /\ lock' = IF lock = c THEN Free ELSE lock
  /\ compactor' = [compactor EXCEPT ![c] = Idle]
  /\ expired' = expired \ {c}
  /\ UNCHANGED <<store, making, snapshot>>

\* The time to live of the key passes, with its holder at work or dead.
LockExpires ==
  /\ lock # Free
  /\ lock' = Free
  /\ expired' = IF compactor[lock].stage = "idle" THEN expired ELSE expired \cup {lock}
  /\ UNCHANGED <<store, making, snapshot, compactor>>

\* The process of a compactor ends; its lock stays until it expires.
Dies(c) ==
  /\ compactor[c].stage # "idle"
  /\ compactor' = [compactor EXCEPT ![c] = Idle]
  /\ expired' = expired \ {c}
  /\ UNCHANGED <<store, making, snapshot, lock>>

\* Mutant of LoadedFrom: the snapshot does not parse, and its cutoff is kept.
LoadedFromNothing(s, o) ==
  MergedInto(NoObject, history,
             {i \in DOMAIN history : /\ history[i].obj = o
                                     /\ ~history[i].undone /\ ~history[i].invalidated
                                     /\ history[i].ts.time > s.createdAt})

\* buildCanvasLoadPayload: the objects of the snapshot with the log after it.
LoadedFrom(s, o) ==
  MergedInto(IF o \in DOMAIN s.objects THEN s.objects[o] ELSE NoObject, history,
             {i \in DOMAIN history : /\ history[i].obj = o
                                     /\ ~history[i].undone /\ ~history[i].invalidated
                                     /\ history[i].ts.time > s.createdAt})

-----------------------------------------------------------------------------
Next ==
  \/ Publish
  \/ \E n \in DOMAIN events : Handle(n)
  \/ ReadObjects
  \/ CreateSnapshot
  \/ SnapshotFails
  \/ LockExpires
  \/ \E c \in Compactors :
       Begin(c) \/ ReadLog(c) \/ Rewrite(c) \/ Throws(c) \/ Release(c) \/ Dies(c)

Spec == Init /\ [][Next]_vars

-----------------------------------------------------------------------------
(* What must hold.                                                         *)

\* The check of runReplayCheck as far as a client can see it: compacted or not,
\* by one compactor or by two, the log replays to the values the objects hold.
ReplayKeepsValues ==
  \A o \in Objs : MaterializeCRDT(Replayed(history, o)) = MaterializeCRDT(objects[o])

\* Compaction of rows nobody has touched since they were read changes neither
\* what a replay nor what a load from the log shows.
CompactionInvisible ==
  [][\A c \in Compactors :
       LET untouched == \A p \in compactor[c].plan :
                          \A i \in DOMAIN p.old : history[i] = p.old[i]
       IN  history' # history /\ compactor[c] # compactor'[c] /\ untouched =>
             \A o \in Objs :
               /\ Shown(Loaded(history, o))' = Shown(Loaded(history, o))
               /\ Shown(Replayed(history, o))' = Shown(Replayed(history, o))]_vars

\* Of the compactors whose lock has not run out only one is at work.
AloneUnderLock ==
  \A c, d \in {b \in Compactors \ expired : compactor[b].stage # "idle"} : c = d

OnlyDrawn(o) == \A i \in DOMAIN history : history[i].obj = o => history[i].kind \in Draws

\* A load from the latest snapshot shows what is drawn, if every event stamped
\* before the snapshot was dated had been applied when its objects were read,
\* and none of them had passed the version the snapshot was taken for.
LoadShowsDrawn ==
  1..snapshot.createdAt \subseteq snapshot.seen =>
    \A o \in DOMAIN snapshot.objects :
      OnlyDrawn(o) => Shown(LoadedFrom(snapshot, o)) = Shown(objects[o])

\* "Simultaneous drawing without data loss": a load from the latest snapshot
\* shows what is drawn.
LoadLosesNothing ==
  \A o \in Objs : OnlyDrawn(o) => Shown(LoadedFrom(snapshot, o)) = Shown(objects[o])

=============================================================================
