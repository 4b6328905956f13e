--------------------------- MODULE CanvasConsumer ---------------------------
(***************************************************************************)
(* startCanvasConsumer: the handlers that take the events of canvas.queue  *)
(* and apply each in a database transaction, dedup row included, then      *)
(* broadcast and acknowledge it.  A worker is a delivery slot of a         *)
(* ws-backend process (prefetch gives each process several), so handlers   *)
(* of one process and of several interleave at their awaits.               *)
(*                                                                         *)
(* A transaction is READ COMMITTED, as Prisma opens it: a statement sees   *)
(* what is committed when it runs, a written row stays locked until the    *)
(* transaction ends, and a conditional update tests its condition again    *)
(* once it has the lock.  It has up to three steps here: what it reads     *)
(* first, the rows it marks, and its last writes with the commit.          *)
(***************************************************************************)
EXTENDS CanvasStore

CONSTANTS Processes,   \* ws-backend processes
          Workers,
          ProcessOf,   \* the process of each worker
          EventKinds,  \* bound: the kinds of event clients publish
          MaxEvents,   \* bound: the events of a behaviour
          MaxFailures, \* bound: the failed transactions per event
          MaxOutages   \* bound: crashes and lost connections

ASSUME ConsumerAssumption ==
  /\ ProcessOf \in [Workers -> Processes]
  /\ MaxEvents \in Nat /\ Times = 1..MaxEvents
  /\ EventKinds \subseteq Kinds
  /\ {"shape", "deleted"} \subseteq Keys /\ Extras \subseteq SUBSET Keys
  /\ 0..MaxEvents \subseteq Values
  /\ MaxFailures \in Nat /\ MaxOutages \in Nat

VARIABLES
  events, processed, objects, history,  \* as in CanvasHistory
  ready,    \* the messages in canvas.queue that are not delivered
  worker,   \* what each worker does
  lost,     \* workers whose channel closed after the delivery
  failures, \* per event, its failed transactions, each one requeued
  sent,     \* per event, how often it was broadcast
  outages   \* how many crashes and lost connections there were

store == <<events, processed, objects, history>>
vars == <<store, ready, worker, lost, failures, sent, outages>>

\* What the consumer is to implement, and the events and patches it defines.
History == INSTANCE CanvasHistory

\* taken -> read -> locked -> committed -> done; the transaction is open in
\* "read" and "locked".
Stages == {"idle", "taken", "read", "locked", "committed", "done"}

\* read: the object row the patch will be merged into; target: the history row
\* an undo or a redo acts on; rows: the history rows that are locked.
States == [stage : Stages, ev : 0..MaxEvents, target : Nat,
           rows : SUBSET Nat, read : Objects]

Idle == [stage |-> "idle", ev |-> 0, target |-> 0, rows |-> {}, read |-> NoObject]

TypeOK ==
  /\ History!TypeOK
  /\ ready \subseteq DOMAIN events
  /\ worker \in [Workers -> States]
  /\ lost \subseteq Workers
  /\ failures \in [1..MaxEvents -> 0..MaxFailures]
  /\ sent \in [1..MaxEvents -> Nat]
  /\ outages \in 0..MaxOutages

Init ==
  /\ History!Init
  /\ ready = {}
  /\ worker = [w \in Workers |-> Idle]
  /\ lost = {}
  /\ failures = [n \in 1..MaxEvents |-> 0]
  /\ sent = [n \in 1..MaxEvents |-> 0]
  /\ outages = 0

-----------------------------------------------------------------------------
(* Messages.                                                               *)

Publish ==
  /\ History!PublishSome
  /\ ready' = ready \cup {Len(events')}
  /\ UNCHANGED <<worker, lost, failures, sent, outages>>

\* The queue is first in, first out; a requeued message gets its place back.
Take(w) ==
  \E n \in ready :
    /\ worker[w].stage = "idle"
    /\ \A m \in ready : n <= m
    /\ ready' = ready \ {n}
    /\ worker' = [worker EXCEPT ![w] = [Idle EXCEPT !.stage = "taken", !.ev = n]]
    /\ UNCHANGED <<store, lost, failures, sent, outages>>

Ack(w) ==
  /\ worker[w].stage = "done"
  /\ w \notin lost
  /\ worker' = [worker EXCEPT ![w] = Idle]
  /\ UNCHANGED <<store, ready, lost, failures, sent, outages>>

-----------------------------------------------------------------------------
(* The transaction.                                                        *)

Open == {w \in Workers : worker[w].stage \in {"read", "locked"}}
User(w) == events[worker[w].ev].user
Kind(w) == events[worker[w].ev].kind

\* The insert into ProcessedEvent waits for an open transaction that inserted
\* the same id, and then goes through only if that one rolled back.
Begins(w) ==
  /\ worker[w].stage = "taken"
  /\ \A v \in Open : worker[v].ev # worker[w].ev

\* Mutant of Fresh: the dedup row is not unique.
FreshAlways(w) == TRUE

Fresh(w) == worker[w].ev \notin processed

\* Mutant of Skip: a duplicate is broadcast again.
SkipButSend(w) ==
  /\ Begins(w)
  /\ ~Fresh(w)
  /\ worker' = [worker EXCEPT ![w].stage = "committed"]
  /\ UNCHANGED <<store, ready, lost, failures, sent, outages>>

Skip(w) ==
  /\ Begins(w)
  /\ ~Fresh(w)
  /\ worker' = [worker EXCEPT ![w].stage = "done"]
  /\ UNCHANGED <<store, ready, lost, failures, sent, outages>>

\* A transaction that leaves nothing but its dedup row.
CommitOnlyDedup(w, stage) ==
  /\ processed' = processed \cup {worker[w].ev}
  /\ worker' = [worker EXCEPT ![w].stage = stage]
  /\ UNCHANGED <<events, objects, history, ready, lost, failures, sent, outages>>

Translate(w) ==
  /\ Begins(w)
  /\ Fresh(w)
  /\ Kind(w) = "TRANSLATE"
  /\ CommitOnlyDedup(w, "committed")

\* The object is read before anything is locked.
ReadObject(w) ==
  /\ Begins(w)
  /\ Fresh(w)
  /\ Kind(w) \in Draws \cup {"UNSUPPORTED"}
  /\ worker' = [worker EXCEPT ![w].stage = "read",
                              ![w].read = objects[events[worker[w].ev].obj]]
  /\ UNCHANGED <<store, ready, lost, failures, sent, outages>>

Target(w) ==
  IF Kind(w) = "UNDO" THEN UndoTarget(history, User(w)) ELSE RedoTarget(history, User(w))

FindTarget(w) ==
  /\ Begins(w)
  /\ Fresh(w)
  /\ Kind(w) \in {"UNDO", "REDO"}
  /\ IF Target(w) = 0
     THEN CommitOnlyDedup(w, "done")
     ELSE /\ worker' = [worker EXCEPT ![w].stage = "read", ![w].target = Target(w)]
          /\ UNCHANGED <<store, ready, lost, failures, sent, outages>>

\* No other transaction holds a row of R.
Unlocked(w, R) == \A v \in Workers \ {w} : worker[v].rows \cap R = {}

InvalidateRedo(w) ==
  LET R == Redoable(history, User(w)) IN
  /\ worker[w].stage = "read"
  /\ Kind(w) \in Draws \cup {"UNSUPPORTED"}
  /\ Unlocked(w, R)
  /\ worker' = [worker EXCEPT ![w].stage = "locked", ![w].rows = R]
  /\ UNCHANGED <<store, ready, lost, failures, sent, outages>>

\* Mutant of StillThere: the update is not conditional on isUndone.
StillThereAlways(w) == TRUE

\* The condition of the updateMany: the row is undone for a redo, not undone
\* for an undo.
StillThere(w) == history[worker[w].target].undone = (Kind(w) = "REDO")

MarkTarget(w) ==
  LET i == worker[w].target IN
  /\ worker[w].stage = "read"
  /\ Kind(w) \in {"UNDO", "REDO"}
  /\ Unlocked(w, {i})
  /\ IF StillThere(w)
     THEN /\ worker' = [worker EXCEPT ![w].stage = "locked", ![w].rows = {i},
                                      ![w].read = objects[history[i].obj]]
          /\ UNCHANGED <<store, ready, lost, failures, sent, outages>>
     ELSE CommitOnlyDedup(w, "done")

\* The last writes of a transaction, and its commit: the patch props merged
\* into the object as it was read, and what becomes of the log.
Commit(w, o, props, log) ==
  LET n == worker[w].ev IN
  /\ objects' = WriteObject(objects, o, worker[w].read, props, History!Stamp(n))
  /\ history' = log
  /\ processed' = processed \cup {n}
  /\ worker' = [worker EXCEPT ![w].stage = "committed", ![w].rows = {}]
  /\ UNCHANGED <<events, ready, lost, failures, sent, outages>>

\* Mutant of CommitDraw: what the user could redo is not invalidated.
CommitDrawKeepingRedo(w) ==
  LET n == worker[w].ev
      e == events[n]
      row == DrawRow(n, e.user, e.kind, e.obj, worker[w].read,
                     History!Patch(n), History!Stamp(n))
  IN
  /\ worker[w].stage = "locked"
  /\ Kind(w) \in Draws
  /\ Commit(w, e.obj, History!Patch(n), Append(history, row))

CommitDraw(w) ==
  LET n == worker[w].ev
      e == events[n]
      row == DrawRow(n, e.user, e.kind, e.obj, worker[w].read,
                     History!Patch(n), History!Stamp(n))
  IN
  /\ worker[w].stage = "locked"
  /\ Kind(w) \in Draws
  /\ Commit(w, e.obj, History!Patch(n),
            Append(Invalidate(history, worker[w].rows), row))

CommitUndo(w) ==
  LET n == worker[w].ev
      i == worker[w].target
      props == InverseProps(history[i])
  IN
  /\ worker[w].stage = "locked"
  /\ Kind(w) = "UNDO"
  /\ Commit(w, history[i].obj, props,
            Append(MarkUndone(history, i),
                   MarkerRow(n, User(w), "UNDO", i, history, props, History!Stamp(n))))

CommitRedo(w) ==
  LET n == worker[w].ev
      i == worker[w].target
      props == history[i].after
  IN
  /\ worker[w].stage = "locked"
  /\ Kind(w) = "REDO"
  /\ Commit(w, history[i].obj, props,
            Append(MarkRedone(history, i),
                   MarkerRow(n, User(w), "REDO", i, history, props, History!Stamp(n))))

\* To the sockets of this process and, through Redis, to the other processes.
Broadcast(w) ==
  /\ worker[w].stage = "committed"
  /\ sent' = [sent EXCEPT ![worker[w].ev] = @ + 1]
  /\ worker' = [worker EXCEPT ![w].stage = "done"]
  /\ UNCHANGED <<store, ready, lost, failures, outages>>

-----------------------------------------------------------------------------
(* Failures.                                                               *)

\* Mutant of TxFails: the message is dropped.
TxFailsDropping(w) ==
  LET n == worker[w].ev IN
  /\ worker[w].stage \in {"taken", "read", "locked"}
  /\ w \notin lost
  /\ failures[n] < MaxFailures
  /\ failures' = [failures EXCEPT ![n] = @ + 1]
  /\ worker' = [worker EXCEPT ![w] = Idle]
  /\ UNCHANGED <<store, ready, lost, sent, outages>>

\* The transaction fails and rolls back: a database error, its timeout, or
\* saveHistory's caller on an unsupported action.  The message is requeued:
\* nothing that comes from canvas.queue was ever dead-lettered, so the
\* x-death header is missing and retryCount is 0 each time.
TxFails(w) ==
  LET n == worker[w].ev IN
  /\ worker[w].stage \in {"taken", "read", "locked"}
  /\ w \notin lost
  /\ failures[n] < MaxFailures
  /\ failures' = [failures EXCEPT ![n] = @ + 1]
  /\ ready' = ready \cup {n}
  /\ worker' = [worker EXCEPT ![w] = Idle]
  /\ UNCHANGED <<store, lost, sent, outages>>

Busy(p) == {w \in Workers : ProcessOf[w] = p /\ worker[w].stage # "idle"}

\* The broker takes the unacknowledged deliveries of a process back.
Redeliver(p) == ready' = ready \cup {worker[w].ev : w \in Busy(p) \ lost}

\* The connection of a process closes; its handlers run on.
LoseConnection(p) ==
  /\ outages < MaxOutages
  /\ Busy(p) # {}
  /\ outages' = outages + 1
  /\ lost' = lost \cup Busy(p)
  /\ Redeliver(p)
  /\ UNCHANGED <<store, worker, failures, sent>>

Dies(p) ==
  /\ worker' = [w \in Workers |-> IF ProcessOf[w] = p THEN Idle ELSE worker[w]]
  /\ lost' = {w \in lost : ProcessOf[w] # p}
  /\ Redeliver(p)
  /\ UNCHANGED <<store, sent>>

Crash(p) ==
  /\ outages < MaxOutages
  /\ outages' = outages + 1
  /\ Dies(p)
  /\ UNCHANGED failures

\* ack on a closed channel throws, nack in the error path throws again, and
\* the rejection nobody handles ends the process.
AckOnClosedChannel(w) ==
  /\ worker[w].stage = "done"
  /\ w \in lost
  /\ Dies(ProcessOf[w])
  /\ UNCHANGED <<failures, outages>>

\* The same from the error path of a failed transaction.
NackOnClosedChannel(w) ==
  LET n == worker[w].ev IN
  /\ worker[w].stage \in {"taken", "read", "locked"}
  /\ w \in lost
  /\ failures[n] < MaxFailures
  /\ failures' = [failures EXCEPT ![n] = @ + 1]
  /\ Dies(ProcessOf[w])
  /\ UNCHANGED outages

-----------------------------------------------------------------------------
Step(w) ==
  \/ Take(w)
  \/ Skip(w)
  \/ Translate(w)
  \/ ReadObject(w)
  \/ FindTarget(w)
  \/ InvalidateRedo(w)
  \/ MarkTarget(w)
  \/ CommitDraw(w)
  \/ CommitUndo(w)
  \/ CommitRedo(w)
  \/ Broadcast(w)
  \/ Ack(w)
  \/ AckOnClosedChannel(w)

Next ==
  \/ Publish
  \/ \E w \in Workers : Step(w) \/ TxFails(w) \/ NackOnClosedChannel(w)
  \/ \E p \in Processes : LoseConnection(p) \/ Crash(p)

Spec == Init /\ [][Next]_vars

\* The broker delivers while a worker is free, the database answers, and the
\* event loop resumes every handler.
FairSpec == Spec /\ \A w \in Workers : WF_vars(Step(w))

-----------------------------------------------------------------------------
(* What must hold.                                                         *)

\* Whatever is redelivered, retried or handled twice at once, an event has one
\* row in the log at most, and a draw has one exactly when its dedup row says
\* that it was processed: the transaction is all or nothing.
ExactlyOnce ==
  /\ \A i, j \in DOMAIN history : history[i].event = history[j].event => i = j
  /\ \A n \in DOMAIN events :
       events[n].kind \in Draws =>
         (n \in processed <=> \E i \in DOMAIN history : history[i].event = n)

\* A message is acknowledged only once its event is processed: until then the
\* queue or a worker the broker waits for has it.
NoEventLost ==
  \A n \in DOMAIN events \ processed :
    \/ n \in ready
    \/ \E w \in Workers \ lost : worker[w].ev = n

\* No client is told twice of an event, also when two handlers run for it.
SentAtMostOnce == \A n \in 1..MaxEvents : sent[n] <= 1

\* Two transactions never hold the same history row, so an undo, a redo and a
\* draw that invalidates agree on what became of it: the flags of a row follow
\* its markers under any interleaving.
FlagsFollowMarkers == History!FlagsFollowMarkers

\* One delivery at a time is a history of events handled at once, in order,
\* through failures, redelivery and crashes.
ImplementsHistory == History!InOrderSpec

\* Every published event is applied, and its message leaves the queue.
EventuallySettled ==
  \A n \in 1..MaxEvents :
    n \in DOMAIN events ~>
      /\ n \in processed
      /\ n \notin ready
      /\ \A w \in Workers : worker[w].ev # n

\* "Full state reconstruction" and "without data loss", with several workers.
ReplayReconstructs == History!ReplayReconstructs

\* "Reject redo when user performed newer actions after the undo marker".
NoRedoPastNewerDraw == History!NoRedoPastNewerDraw

\* "Event fan-out": what is applied is broadcast.
DrawsAreSent ==
  \A n \in 1..MaxEvents :
    n \in processed /\ events[n].kind \in Draws ~> sent[n] > 0

\* "Requeue once, then dead-letter".
RequeueOnce == \A n \in 1..MaxEvents : failures[n] <= 1

=============================================================================
