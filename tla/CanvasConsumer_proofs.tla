------------------------ MODULE CanvasConsumer_proofs ------------------------
(***************************************************************************)
(* The consumer applies every event once, loses none, broadcasts none      *)
(* twice and keeps the flags of the log in step with its markers, for any  *)
(* number of processes, workers, events, failures and outages; and with    *)
(* one delivery at a time it implements CanvasHistory.                     *)
(*                                                                         *)
(* The argument: the unique dedup row makes transactions of one event      *)
(* exclude each other (Exclusive), so the event of an open transaction is  *)
(* not processed and has no row in the log; and the lock on a history row  *)
(* keeps what its holder found there true until it commits (Locks).        *)
(*                                                                         *)
(* For the refinement: with one slot nothing changes between the reads of  *)
(* a transaction and its commit (Serial), so the commit is the whole step  *)
(* of its event.                                                           *)
(***************************************************************************)
EXTENDS CanvasConsumer, CanvasStore_proofs, TLAPS

\* The event of a worker: 0 when idle, processed once committed, and not
\* processed while its transaction is open.
EventInv ==
  \A w \in Workers :
    /\ worker[w].stage = "idle" <=> worker[w].ev = 0
    /\ worker[w].stage # "idle" => worker[w].ev \in DOMAIN events
    /\ worker[w].stage \in {"committed", "done"} => worker[w].ev \in processed
    /\ w \in Open => worker[w].ev \notin processed

\* Two workers never hold one dedup row, nor one history row, and never have
\* the same event still to broadcast.
Exclusive ==
  \A v, w \in Workers :
    v # w =>
      /\ v \in Open /\ w \in Open => worker[v].ev # worker[w].ev
      /\ worker[v].stage = "committed" /\ worker[w].stage = "committed" =>
           worker[v].ev # worker[w].ev
      /\ worker[v].rows \cap worker[w].rows = {}

\* What a worker has locked is still as it found it.
Locks ==
  \A w \in Workers :
    /\ worker[w].rows \subseteq DOMAIN history
    /\ worker[w].stage # "locked" => worker[w].rows = {}
    /\ w \in Open /\ Kind(w) \in {"UNDO", "REDO"} => worker[w].target \in DOMAIN history
    /\ worker[w].stage = "locked" /\ Kind(w) \in {"UNDO", "REDO"} =>
         /\ worker[w].rows = {worker[w].target}
         /\ history[worker[w].target].undone <=> Kind(w) = "REDO"
    /\ worker[w].stage = "locked" /\ Kind(w) \notin {"UNDO", "REDO"} =>
         \A i \in worker[w].rows : history[i].undone

\* Every row carries the timestamp of its event, which is processed, and its
\* flags follow its markers.
LogInv ==
  /\ \A i \in DOMAIN history :
       history[i].event \in processed /\ history[i].ts = History!Stamp(history[i].event)
  /\ Consistent(history)

\* What was broadcast once has nobody left to broadcast it again.
SentInv ==
  \A n \in 1..MaxEvents :
    sent[n] # 0 =>
      /\ sent[n] = 1 /\ n \in processed
      /\ \A w \in Workers : worker[w].ev = n => worker[w].stage # "committed"

\* A handler whose delivery is lost still runs.
LostInv == \A w \in lost : worker[w].stage # "idle"

IInv == /\ TypeOK /\ EventInv /\ Exclusive /\ Locks /\ LostInv
        /\ LogInv /\ ExactlyOnce /\ NoEventLost /\ SentInv

-----------------------------------------------------------------------------
(* Types.                                                                  *)

\* CanvasHistory's names for the tables are those of this module.
LEMMA HistoryNames ==
  /\ History!Objects = Objects /\ History!Rows = Rows /\ History!Kinds = Kinds
  /\ History!Deleted = Deleted
<1>1. History!Objects = Objects
  BY DEF History!Objects, History!Cells, History!Timestamps, Objects, Cells, Timestamps
<1>2. History!Rows = Rows
  BY <1>1 DEF History!Rows, History!Draws, History!Props, History!Timestamps,
              Rows, Draws, Props, Timestamps
<1> QED
  BY <1>1, <1>2 DEF History!Kinds, History!Draws, Kinds, Draws, History!Deleted, Deleted

LEMMA DeletedType == Deleted \in Props
<1>1. {"deleted"} \in SUBSET Keys /\ 0 \in Values
  BY ConsumerAssumption
<1>2. Deleted \in [{"deleted"} -> Values]
  BY <1>1 DEF Deleted
<1> QED
  BY <1>1, <1>2 DEF Props

LEMMA EventTypes ==
  ASSUME History!TypeOK
  PROVE  /\ events \in Seq(History!Events) /\ Len(events) \in 0..MaxEvents
         /\ DOMAIN events = 1..Len(events)
         /\ DOMAIN events \subseteq 1..MaxEvents
         /\ \A n \in DOMAIN events : events[n].user \in Actors /\ events[n].kind \in Kinds
                                     /\ events[n].obj \in Objs
                                     /\ events[n].keys \in Extras
<1>1. events \in Seq(History!Events) /\ Len(events) <= MaxEvents
  BY DEF History!TypeOK
<1>2. \A n \in DOMAIN events : events[n] \in History!Events
  BY <1>1
<1> QED
  BY <1>1, <1>2, ConsumerAssumption, HistoryNames DEF History!Events

LEMMA StampAndPatchTypes ==
  ASSUME History!TypeOK, NEW n \in DOMAIN events
  PROVE  History!Stamp(n) \in Timestamps /\ History!Patch(n) \in Props
<1>1. n \in 1..MaxEvents /\ events[n].user \in Actors
  BY EventTypes
<1>2. History!Stamp(n) \in Timestamps
  BY <1>1, ConsumerAssumption DEF History!Stamp, Timestamps
<1> DEFINE K == {"shape"} \cup events[n].keys
<1>3. K \in SUBSET Keys /\ n \in Values
  BY <1>1, EventTypes, ConsumerAssumption
<1>4. [k \in K |-> n] \in [K -> Values]
  BY <1>3
<1>5. [k \in K |-> n] \in Props
  BY <1>3, <1>4 DEF Props
<1> QED
  BY <1>2, <1>5, DeletedType, HistoryNames DEF History!Patch

\* The log and what undo and redo find in it.
LEMMA LogTypes ==
  ASSUME History!TypeOK, LogInv
  PROVE  /\ history \in Seq(Rows)
         /\ TimesAreDistinct(history)
         /\ Times \subseteq 0..MaxEvents /\ MaxEvents \in Nat
<1>1. history \in Seq(Rows)
  BY HistoryNames DEF History!TypeOK
<1>2. TimesAreDistinct(history)
  <2> SUFFICES ASSUME NEW i \in DOMAIN history, NEW j \in DOMAIN history,
                      history[i].ts.time = history[j].ts.time
               PROVE  history[i].ts = history[j].ts
    BY DEF TimesAreDistinct
  <2>1. /\ history[i].ts = History!Stamp(history[i].event)
        /\ history[j].ts = History!Stamp(history[j].event)
    BY DEF LogInv
  <2>2. history[i].event = history[j].event
    BY <2>1 DEF History!Stamp
  <2> QED
    BY <2>1, <2>2
<1> QED
  BY <1>1, <1>2, ConsumerAssumption

LEMMA IdleState == Idle \in States
  BY NoObjectType, ConsumerAssumption DEF Idle, States, Stages

-----------------------------------------------------------------------------
(* Steps that change one worker and no table.                              *)

\* The state x may be the new state of worker w.
Allowed(w, x) ==
  /\ x.stage = "idle" <=> x.ev = 0
  /\ x.stage # "idle" => x.ev \in DOMAIN events
  /\ x.stage \in {"committed", "done"} => x.ev \in processed
  /\ x.stage \in {"read", "locked"} =>
       /\ x.ev \notin processed
       /\ \A v \in Open \ {w} : worker[v].ev # x.ev
  /\ x.stage = "committed" => worker[w] = x
  /\ x.rows \subseteq DOMAIN history
  /\ x.rows # {} => x.stage = "locked" /\ Unlocked(w, x.rows)
  /\ x.stage \in {"read", "locked"} /\ events[x.ev].kind \in {"UNDO", "REDO"} =>
       x.target \in DOMAIN history
  /\ x.stage = "locked" /\ events[x.ev].kind \in {"UNDO", "REDO"} =>
       /\ x.rows = {x.target}
       /\ history[x.target].undone <=> events[x.ev].kind = "REDO"
  /\ x.stage = "locked" /\ events[x.ev].kind \notin {"UNDO", "REDO"} =>
       \A i \in x.rows : history[i].undone

LEMMA OneWorker ==
  ASSUME IInv, UNCHANGED store, NEW w \in Workers, NEW x \in States, Allowed(w, x),
         worker' = [worker EXCEPT ![w] = x]
  PROVE  /\ worker' \in [Workers -> States]
         /\ EventInv' /\ Exclusive' /\ Locks'
<1>1. worker \in [Workers -> States]
  BY DEF IInv, TypeOK
<1>2. /\ worker' \in [Workers -> States] /\ worker'[w] = x
      /\ \A v \in Workers \ {w} : worker'[v] = worker[v]
  BY <1>1
<1>3. UNCHANGED <<events, processed, history>>
  BY DEF store
<1>4. EventInv'
  BY <1>2, <1>3 DEF IInv, EventInv, Allowed, Open
<1>5. Exclusive'
  <2> SUFFICES ASSUME NEW v \in Workers, NEW u \in Workers, v # u
               PROVE  /\ v \in Open' /\ u \in Open' => worker'[v].ev # worker'[u].ev
                      /\ worker'[v].stage = "committed" /\ worker'[u].stage = "committed" =>
                           worker'[v].ev # worker'[u].ev
                      /\ worker'[v].rows \cap worker'[u].rows = {}
    BY DEF Exclusive
  <2>1. CASE v # w /\ u # w
    BY <1>2, <2>1 DEF IInv, Exclusive, Open
  <2>2. CASE v = w
    BY <1>2, <2>2 DEF IInv, Exclusive, Open, Allowed, Unlocked
  <2>3. CASE u = w
    BY <1>2, <2>3 DEF IInv, Exclusive, Open, Allowed, Unlocked
  <2> QED
    BY <2>1, <2>2, <2>3
<1>6. Locks'
  <2> SUFFICES ASSUME NEW v \in Workers
               PROVE  /\ worker'[v].rows \subseteq DOMAIN history
                      /\ worker'[v].stage # "locked" => worker'[v].rows = {}
                      /\ v \in Open' /\ Kind(v)' \in {"UNDO", "REDO"} =>
                           worker'[v].target \in DOMAIN history
                      /\ worker'[v].stage = "locked" /\ Kind(v)' \in {"UNDO", "REDO"} =>
                           /\ worker'[v].rows = {worker'[v].target}
                           /\ history[worker'[v].target].undone <=> Kind(v)' = "REDO"
                      /\ worker'[v].stage = "locked" /\ Kind(v)' \notin {"UNDO", "REDO"} =>
                           \A i \in worker'[v].rows : history[i].undone
    BY <1>3 DEF Locks
  <2>1. CASE v # w
    BY <1>2, <1>3, <2>1 DEF IInv, Locks, Open, Kind
  <2>2. CASE v = w
    BY <1>2, <1>3, <2>2 DEF Allowed, Open, Kind
  <2> QED
    BY <2>1, <2>2
<1> QED
  BY <1>2, <1>4, <1>5, <1>6

\* What does not mention the workers stays as it is with the tables.
LEMMA StoreUnchanged ==
  ASSUME IInv, UNCHANGED store
  PROVE  (History!TypeOK)' /\ LogInv' /\ ExactlyOnce'
  BY DEF IInv, TypeOK, History!TypeOK, LogInv, ExactlyOnce, store, History!Stamp

\* A worker ends without a trace: an acknowledgement or a requeue.
LEMMA IdleAllowed == ASSUME NEW w PROVE Allowed(w, Idle)
  BY DEF Allowed, Idle

LEMMA TakeKeeps ==
  ASSUME IInv, NEW w \in Workers, Take(w)
  PROVE  IInv'
<1> USE DEF IInv
<1>1. PICK n \in ready :
        /\ worker[w].stage = "idle" /\ ready' = ready \ {n}
        /\ worker' = [worker EXCEPT ![w] = [Idle EXCEPT !.stage = "taken", !.ev = n]]
        /\ UNCHANGED <<store, lost, failures, sent, outages>>
  BY DEF Take
<1>2. n \in DOMAIN events /\ n \in 1..MaxEvents /\ n \in 0..MaxEvents
  BY EventTypes, LogTypes DEF TypeOK
<1>0. PICK x : x = [Idle EXCEPT !.stage = "taken", !.ev = n]
  OBVIOUS
<1>3. x \in States /\ x.stage = "taken" /\ x.ev = n /\ x.rows = {}
  <2>1. Idle.rows = {}
    BY DEF Idle
  <2> QED
    BY <1>0, <1>2, <2>1, IdleState DEF States, Stages
<1>4. Allowed(w, x)
  BY <1>2, <1>3 DEF Allowed
<1>5. worker' \in [Workers -> States] /\ EventInv' /\ Exclusive' /\ Locks'
  <2> HIDE DEF IInv
  <2> QED
    BY <1>0, <1>1, <1>3, <1>4, OneWorker
<1>6. (History!TypeOK)' /\ LogInv' /\ ExactlyOnce'
  BY <1>1, StoreUnchanged
<1>7. /\ worker \in [Workers -> States] /\ worker'[w].ev = n /\ worker'[w].stage = "taken"
      /\ w \notin lost /\ \A v \in Workers \ {w} : worker'[v] = worker[v]
  BY <1>0, <1>1, <1>3 DEF TypeOK, LostInv
<1>8. TypeOK'
  BY <1>1, <1>5, <1>6 DEF TypeOK, store
<1>9. NoEventLost' /\ LostInv' /\ SentInv'
  <2>1. NoEventLost'
    <3> SUFFICES ASSUME NEW m \in DOMAIN events \ processed
                 PROVE  m \in ready' \/ \E v \in Workers \ lost : worker'[v].ev = m
      BY <1>1 DEF NoEventLost, store
    <3>1. CASE m = n
      BY <1>7, <3>1
    <3>2. CASE m # n /\ m \in ready
      BY <1>1, <3>2
    <3>3. CASE \E v \in Workers \ lost : worker[v].ev = m
      <4>1. PICK v \in Workers \ lost : worker[v].ev = m
        BY <3>3
      <4>2. v # w
        BY <1>1, <1>2, <4>1, EventTypes DEF TypeOK, EventInv
      <4> QED
        BY <1>7, <4>1, <4>2
    <3> QED
      BY <3>1, <3>2, <3>3 DEF NoEventLost
  <2>2. LostInv' /\ SentInv'
    BY <1>1, <1>7 DEF LostInv, SentInv, store
  <2> QED
    BY <2>1, <2>2
<1> QED
  BY <1>5, <1>6, <1>8, <1>9

\* The worker changes but keeps its event, or drops one that is processed.
LEMMA WorkerStep ==
  ASSUME IInv, NEW w \in Workers, NEW x \in States, Allowed(w, x), x.stage # "committed",
         x.ev = worker[w].ev \/ (x.ev = 0 /\ worker[w].ev \in processed /\ w \notin lost),
         worker' = [worker EXCEPT ![w] = x],
         UNCHANGED <<store, ready, lost, failures, sent, outages>>
  PROVE  IInv'
<1>1. worker' \in [Workers -> States] /\ EventInv' /\ Exclusive' /\ Locks'
  BY OneWorker
<1>2. (History!TypeOK)' /\ LogInv' /\ ExactlyOnce'
  BY StoreUnchanged
<1> USE DEF IInv
<1>3. /\ worker \in [Workers -> States] /\ worker'[w] = x
      /\ \A v \in Workers \ {w} : worker'[v] = worker[v]
  BY DEF TypeOK
<1>4. TypeOK'
  BY <1>1, <1>2 DEF TypeOK, store
<1>5. NoEventLost'
  BY <1>3 DEF NoEventLost, store
<1>6. LostInv'
  BY <1>3 DEF LostInv, Allowed, EventInv, TypeOK
<1>7. SentInv'
  BY <1>3 DEF SentInv, store
<1> QED
  BY <1>1, <1>2, <1>4, <1>5, <1>6, <1>7

\* What every action on a transaction needs to know of its worker.
LEMMA WorkerTypes ==
  ASSUME IInv, NEW w \in Workers
  PROVE  /\ worker[w] \in States /\ worker \in [Workers -> States]
         /\ worker[w].stage # "idle" =>
              /\ worker[w].ev \in DOMAIN events /\ worker[w].ev # 0
              /\ User(w) \in Actors /\ Kind(w) \in Kinds
              /\ events[worker[w].ev].obj \in Objs
  BY EventTypes DEF IInv, TypeOK, EventInv, User, Kind

LEMMA AckKeeps ==
  ASSUME IInv, NEW w \in Workers, Ack(w)
  PROVE  IInv'
<1>1. Idle.ev = 0 /\ Idle.stage # "committed" /\ worker[w].ev \in processed
  BY DEF IInv, EventInv, Idle, Ack
<1> QED
  BY <1>1, IdleState, IdleAllowed, WorkerStep DEF Ack

LEMMA SkipKeeps ==
  ASSUME IInv, NEW w \in Workers, Skip(w)
  PROVE  IInv'
<1>1. PICK x : x = [worker[w] EXCEPT !.stage = "done"]
  OBVIOUS
<1>2. /\ x \in States /\ x.stage = "done" /\ x.ev = worker[w].ev /\ x.rows = worker[w].rows
  BY <1>1, WorkerTypes DEF States, Stages
<1>3. worker[w].stage = "taken" /\ worker[w].ev \in processed /\ worker[w].rows = {}
  BY DEF Skip, Begins, Fresh, IInv, Locks
<1>4. Allowed(w, x)
  BY <1>2, <1>3, WorkerTypes DEF Allowed
<1>5. worker' = [worker EXCEPT ![w] = x]
  BY <1>1 DEF Skip
<1> QED
  BY <1>2, <1>4, <1>5, WorkerStep DEF Skip

LEMMA ReadObjectKeeps ==
  ASSUME IInv, NEW w \in Workers, ReadObject(w)
  PROVE  IInv'
<1>1. PICK x : x = [worker[w] EXCEPT !.stage = "read",
                                     !.read = objects[events[worker[w].ev].obj]]
  OBVIOUS
<1>2. /\ worker[w].stage = "taken" /\ worker[w].ev \notin processed /\ worker[w].rows = {}
      /\ \A v \in Open : worker[v].ev # worker[w].ev
      /\ events[worker[w].ev].kind \notin {"UNDO", "REDO"}
  BY DEF ReadObject, Begins, Fresh, IInv, Locks, Kind, Draws
<1>3. objects[events[worker[w].ev].obj] \in Objects
  BY <1>2, WorkerTypes, HistoryNames DEF IInv, TypeOK, History!TypeOK
<1>4. x \in States /\ x.stage = "read" /\ x.ev = worker[w].ev /\ x.rows = worker[w].rows
  BY <1>1, <1>3, WorkerTypes DEF States, Stages
<1>5. Allowed(w, x)
  BY <1>2, <1>4, WorkerTypes DEF Allowed
<1>6. worker' = [worker EXCEPT ![w] = x]
  BY <1>1 DEF ReadObject
<1> QED
  BY <1>4, <1>5, <1>6, WorkerStep DEF ReadObject

LEMMA InvalidateRedoKeeps ==
  ASSUME IInv, NEW w \in Workers, InvalidateRedo(w)
  PROVE  IInv'
<1> DEFINE R == Redoable(history, User(w))
<1>1. PICK x : x = [worker[w] EXCEPT !.stage = "locked", !.rows = R]
  OBVIOUS
<1>2. /\ worker[w].stage = "read" /\ worker[w].ev \notin processed /\ Unlocked(w, R)
      /\ \A v \in Open \ {w} : worker[v].ev # worker[w].ev
      /\ events[worker[w].ev].kind \notin {"UNDO", "REDO"}
  BY DEF InvalidateRedo, IInv, EventInv, Exclusive, Open, Kind, Draws
<1>3. R \subseteq DOMAIN history /\ R \in SUBSET Nat /\ \A i \in R : history[i].undone
  BY LogTypes DEF TypeOK, IInv, Redoable, DrawRows
<1>4. x \in States /\ x.stage = "locked" /\ x.ev = worker[w].ev /\ x.rows = R
  <2> HIDE DEF R
  <2> QED
    BY <1>1, <1>3, WorkerTypes DEF States, Stages
<1>5. Allowed(w, x)
  <2> HIDE DEF R
  <2> QED
    BY <1>2, <1>3, <1>4, WorkerTypes DEF Allowed
<1>6. worker' = [worker EXCEPT ![w] = x]
  BY <1>1 DEF InvalidateRedo
<1> QED
  BY <1>4, <1>5, <1>6, WorkerStep DEF InvalidateRedo

-----------------------------------------------------------------------------
(* Commits.                                                                *)

\* A transaction that may commit: its event is not processed and no other
\* worker has it in a transaction or waits to broadcast it.
CanCommit(w) ==
  /\ worker[w].stage \in {"taken", "read", "locked"}
  /\ worker[w].ev \in DOMAIN events \ processed
  /\ \A v \in Open \ {w} : worker[v].ev # worker[w].ev

LEMMA OpenCanCommit ==
  ASSUME IInv, NEW w \in Workers, w \in Open
  PROVE  CanCommit(w)
  BY DEF CanCommit, IInv, EventInv, Exclusive, Open

LEMMA BeginnerCanCommit ==
  ASSUME IInv, NEW w \in Workers, Begins(w), Fresh(w)
  PROVE  CanCommit(w)
  BY DEF CanCommit, IInv, EventInv, Begins, Fresh

\* A commit that keeps undone of the rows others have locked: what the workers
\* know stays true.
LEMMA CommitWorkers ==
  ASSUME IInv, NEW w \in Workers, CanCommit(w), NEW x \in States,
         x.stage \in {"committed", "done"}, x.ev = worker[w].ev, x.rows = {},
         worker' = [worker EXCEPT ![w] = x],
         processed' = processed \cup {worker[w].ev},
         DOMAIN history \subseteq DOMAIN history',
         \A v \in Workers \ {w} :
           \A i \in worker[v].rows : history'[i].undone = history[i].undone,
         UNCHANGED <<events, ready, lost, failures, sent, outages>>
  PROVE  /\ worker' \in [Workers -> States]
         /\ EventInv' /\ Exclusive' /\ Locks' /\ LostInv' /\ NoEventLost' /\ SentInv'
<1> USE DEF IInv
<1>1. /\ worker \in [Workers -> States] /\ worker' \in [Workers -> States]
      /\ worker'[w] = x /\ \A v \in Workers \ {w} : worker'[v] = worker[v]
  BY WorkerTypes
<1>2. EventInv'
  BY <1>1, EventTypes DEF EventInv, CanCommit, Open, TypeOK
<1>3. Exclusive'
  BY <1>1 DEF Exclusive, EventInv, CanCommit, Open
<1>4. Locks'
  <2> SUFFICES ASSUME NEW v \in Workers
               PROVE  /\ worker'[v].rows \subseteq DOMAIN history'
                      /\ worker'[v].stage # "locked" => worker'[v].rows = {}
                      /\ v \in Open' /\ Kind(v)' \in {"UNDO", "REDO"} =>
                           worker'[v].target \in DOMAIN history'
                      /\ worker'[v].stage = "locked" /\ Kind(v)' \in {"UNDO", "REDO"} =>
                           /\ worker'[v].rows = {worker'[v].target}
                           /\ history'[worker'[v].target].undone <=> Kind(v)' = "REDO"
                      /\ worker'[v].stage = "locked" /\ Kind(v)' \notin {"UNDO", "REDO"} =>
                           \A i \in worker'[v].rows : history'[i].undone
    BY DEF Locks
  <2>1. CASE v = w
    BY <1>1, <2>1 DEF Open
  <2>2. CASE v # w
    <3>1. worker'[v] = worker[v] /\ Kind(v)' = Kind(v) /\ (v \in Open' <=> v \in Open)
      BY <1>1, <2>2 DEF Kind, Open
    <3>2. \A i \in worker[v].rows : history'[i].undone = history[i].undone
      BY <2>2
    <3> QED
      BY <3>1, <3>2 DEF Locks
  <2> QED
    BY <2>1, <2>2
<1>5. LostInv' /\ NoEventLost'
  BY <1>1 DEF LostInv, NoEventLost
<1>6. SentInv'
  BY <1>1 DEF SentInv, CanCommit
<1> QED
  BY <1>1, <1>2, <1>3, <1>4, <1>5, <1>6

\* A commit of nothing but the dedup row: for a drag, and for an undo or a redo
\* with nothing to act on.
LEMMA CommitOnlyDedupKeeps ==
  ASSUME IInv, NEW w \in Workers, CanCommit(w), worker[w].rows = {},
         Kind(w) \notin Draws, NEW stage \in {"committed", "done"},
         CommitOnlyDedup(w, stage)
  PROVE  IInv'
<1>1. PICK x : x = [worker[w] EXCEPT !.stage = stage]
  OBVIOUS
<1>2. x \in States /\ x.stage = stage /\ x.ev = worker[w].ev /\ x.rows = {}
  BY <1>1, WorkerTypes DEF States, Stages
<1>3. worker' = [worker EXCEPT ![w] = x]
  BY <1>1 DEF CommitOnlyDedup
<1>4. /\ worker' \in [Workers -> States]
      /\ EventInv' /\ Exclusive' /\ Locks' /\ LostInv' /\ NoEventLost' /\ SentInv'
  BY <1>2, <1>3, CommitWorkers DEF CommitOnlyDedup
<1> USE DEF IInv
<1>5. TypeOK'
  BY <1>4 DEF TypeOK, History!TypeOK, CommitOnlyDedup, CanCommit
<1>6. LogInv'
  BY DEF LogInv, CommitOnlyDedup, History!Stamp
<1>7. ExactlyOnce'
  BY DEF ExactlyOnce, LogInv, CommitOnlyDedup, Kind, CanCommit
<1> QED
  BY <1>4, <1>5, <1>6, <1>7

LEMMA TranslateKeeps ==
  ASSUME IInv, NEW w \in Workers, Translate(w)
  PROVE  IInv'
<1>1. CanCommit(w)
  BY BeginnerCanCommit DEF Translate
<1>2. worker[w].rows = {} /\ Kind(w) \notin Draws
  BY DEF Translate, Begins, IInv, Locks, Draws
<1> QED
  BY <1>1, <1>2, CommitOnlyDedupKeeps DEF Translate

LEMMA FindTargetKeeps ==
  ASSUME IInv, NEW w \in Workers, FindTarget(w)
  PROVE  IInv'
<1>1. CanCommit(w)
  BY BeginnerCanCommit DEF FindTarget
<1>2. /\ worker[w].stage = "taken" /\ worker[w].rows = {} /\ Kind(w) \notin Draws
  BY DEF FindTarget, Begins, IInv, Locks, Draws
<1>3. CASE Target(w) = 0
  BY <1>1, <1>2, <1>3, CommitOnlyDedupKeeps DEF FindTarget
<1>4. CASE Target(w) # 0
  <2>1. Target(w) \in DOMAIN history /\ Target(w) \in Nat
    <3>1. DOMAIN history \subseteq Nat
      BY LogTypes DEF TypeOK, IInv
    <3>2. Target(w) \in DOMAIN history
      BY <1>4, LogTypes, TargetsExist DEF TypeOK, IInv, Target
    <3> QED
      BY <3>1, <3>2
  <2>2. PICK x : x = [worker[w] EXCEPT !.stage = "read", !.target = Target(w)]
    OBVIOUS
  <2>3. /\ x \in States /\ x.stage = "read" /\ x.ev = worker[w].ev
        /\ x.rows = {} /\ x.target = Target(w)
    BY <1>2, <2>1, <2>2, WorkerTypes DEF States, Stages
  <2>4. Allowed(w, x)
    BY <1>1, <2>1, <2>3, WorkerTypes DEF Allowed, CanCommit
  <2>5. worker' = [worker EXCEPT ![w] = x]
    BY <1>4, <2>2 DEF FindTarget
  <2> QED
    BY <1>4, <2>3, <2>4, <2>5, WorkerStep DEF FindTarget
<1> QED
  BY <1>3, <1>4

LEMMA MarkTargetKeeps ==
  ASSUME IInv, NEW w \in Workers, MarkTarget(w)
  PROVE  IInv'
<1> DEFINE i == worker[w].target
<1>1. CanCommit(w)
  BY OpenCanCommit DEF MarkTarget, Open
<1>2. /\ worker[w].stage = "read" /\ worker[w].rows = {} /\ Kind(w) \notin Draws
      /\ Kind(w) \in {"UNDO", "REDO"} /\ i \in DOMAIN history /\ Unlocked(w, {i})
  BY DEF MarkTarget, IInv, Locks, Draws, Open
<1>3. CASE ~StillThere(w)
  BY <1>1, <1>2, <1>3, CommitOnlyDedupKeeps DEF MarkTarget
<1>4. CASE StillThere(w)
  <2>1. PICK x : x = [worker[w] EXCEPT !.stage = "locked", !.rows = {i},
                                       !.read = objects[history[i].obj]]
    OBVIOUS
  <2>2. history[i] \in Rows /\ i \in Nat
    BY <1>2, LogTypes, RowTypes DEF TypeOK, IInv
  <2>3. objects[history[i].obj] \in Objects
    BY <2>2, HistoryNames DEF IInv, TypeOK, History!TypeOK, Rows
  <2>4. /\ x \in States /\ x.stage = "locked" /\ x.ev = worker[w].ev
        /\ x.rows = {i} /\ x.target = i
    BY <2>1, <2>2, <2>3, WorkerTypes DEF States, Stages
  <2>5. history[i].undone <=> Kind(w) = "REDO"
    BY <1>4, <2>2 DEF StillThere, Rows
  <2>6. Allowed(w, x)
    BY <1>1, <1>2, <2>4, <2>5, WorkerTypes DEF Allowed, CanCommit, Kind
  <2>7. worker' = [worker EXCEPT ![w] = x]
    BY <1>4, <2>1 DEF MarkTarget
  <2> QED
    BY <1>4, <2>4, <2>6, <2>7, WorkerStep DEF MarkTarget
<1> QED
  BY <1>3, <1>4

\* A commit with a row for its event.
LEMMA CommitKeeps ==
  ASSUME IInv, NEW w \in Workers, worker[w].stage = "locked",
         NEW o \in Objs, NEW props \in Props, NEW g \in Seq(Rows), NEW row \in Rows,
         SameButFlags(g, history),
         row.event = worker[w].ev, row.ts = History!Stamp(worker[w].ev),
         Consistent(Append(g, row)),
         \A i \in DOMAIN history \ worker[w].rows : g[i].undone = history[i].undone,
         Commit(w, o, props, Append(g, row))
  PROVE  IInv'
<1> DEFINE n == worker[w].ev
<1>1. CanCommit(w)
  BY OpenCanCommit DEF Open
<1>2. PICK x : x = [worker[w] EXCEPT !.stage = "committed", !.rows = {}]
  OBVIOUS
<1>3. x \in States /\ x.stage = "committed" /\ x.ev = n /\ x.rows = {}
  BY <1>2, WorkerTypes DEF States, Stages
<1>4. worker' = [worker EXCEPT ![w] = x]
  BY <1>2 DEF Commit
<1>5. history \in Seq(Rows) /\ history' = Append(g, row)
  BY LogTypes DEF TypeOK, IInv, Commit
<1>6. /\ DOMAIN history = 1..Len(history) /\ Len(history) \in Nat
      /\ DOMAIN history' = 1..(Len(history) + 1)
      /\ history'[Len(history) + 1] = row
      /\ \A i \in DOMAIN history : history'[i] = g[i]
  BY <1>5 DEF SameButFlags
<1>7. \A v \in Workers \ {w} : \A i \in worker[v].rows : history'[i].undone = history[i].undone
  BY <1>6 DEF IInv, Exclusive, Locks
<1>8. /\ worker' \in [Workers -> States]
      /\ EventInv' /\ Exclusive' /\ Locks' /\ LostInv' /\ NoEventLost' /\ SentInv'
  <2>1. DOMAIN history \subseteq DOMAIN history'
    BY <1>6
  <2> QED
    BY <1>1, <1>3, <1>4, <1>7, <2>1, CommitWorkers DEF Commit
<1>9. /\ history' \in Seq(Rows)
      /\ \A i \in DOMAIN history' :
           IF i \in DOMAIN history
           THEN history'[i].event = history[i].event /\ history'[i].ts = history[i].ts
           ELSE history'[i].event = n /\ history'[i].ts = History!Stamp(n)
  BY <1>5, <1>6 DEF SameButFlags
<1>10. TypeOK'
  <2>1. /\ worker[w].read \in Objects /\ History!Stamp(n) \in Timestamps
        /\ objects \in [Objs -> Objects]
    BY <1>1, WorkerTypes, StampAndPatchTypes, HistoryNames
       DEF IInv, TypeOK, History!TypeOK, States, CanCommit
  <2>2. objects' \in [Objs -> Objects]
    BY <2>1, WriteObjectType DEF Commit
  <2> QED
    BY <1>1, <1>8, <1>9, <2>2, HistoryNames DEF IInv, TypeOK, History!TypeOK, Commit, CanCommit
<1>11. LogInv'
  BY <1>5, <1>9 DEF IInv, LogInv, Commit, History!Stamp
<1>12. ExactlyOnce'
  <2>1. \A i \in DOMAIN history : history[i].event # n
    BY <1>1 DEF IInv, LogInv, CanCommit
  <2>2. \A i, j \in DOMAIN history' : history'[i].event = history'[j].event => i = j
    BY <1>6, <1>9, <2>1 DEF IInv, ExactlyOnce
  <2>3. ASSUME NEW m \in DOMAIN events, events[m].kind \in Draws
        PROVE  m \in processed' <=> \E i \in DOMAIN history' : history'[i].event = m
    BY <1>6, <1>9, <2>3 DEF IInv, ExactlyOnce, Commit
  <2> QED
    BY <2>2, <2>3 DEF ExactlyOnce, Commit
<1> QED
  BY <1>8, <1>10, <1>11, <1>12 DEF IInv

LEMMA CommitDrawKeeps ==
  ASSUME IInv, NEW w \in Workers, CommitDraw(w)
  PROVE  IInv'
<1> DEFINE n == worker[w].ev
           e == events[n]
           R == worker[w].rows
<1>1. PICK row : row = DrawRow(n, e.user, e.kind, e.obj, worker[w].read,
                               History!Patch(n), History!Stamp(n))
  OBVIOUS
<1>2. /\ worker[w].stage = "locked" /\ e.kind \in Draws
      /\ n \in DOMAIN events /\ n \in Nat /\ e.user \in Actors /\ e.obj \in Objs
      /\ worker[w].read \in Objects
  BY WorkerTypes DEF CommitDraw, Kind, IInv, States, User
<1>3. History!Patch(n) \in Props /\ History!Stamp(n) \in Timestamps
  BY <1>2, StampAndPatchTypes DEF TypeOK, IInv
<1>4. row \in Rows /\ row.event = n /\ row.ts = History!Stamp(n)
      /\ row.ref = 0 /\ ~row.undone /\ ~row.invalidated
  <2> HIDE DEF n, e
  <2>1. row \in Rows
    BY <1>1, <1>2, <1>3, DrawRowType
  <2> QED
    BY <1>1, <2>1 DEF DrawRow
<1>5. history \in Seq(Rows) /\ Consistent(history) /\ \A i \in R : history[i].undone
  BY <1>2, LogTypes DEF TypeOK, IInv, LogInv, Locks, Kind, Draws
<1>6. PICK g : g = Invalidate(history, R)
  OBVIOUS
<1>7. /\ g \in Seq(Rows) /\ SameButFlags(g, history)
      /\ \A i \in DOMAIN history : g[i].undone = history[i].undone
  BY <1>5, <1>6, InvalidateRows
<1>8. Consistent(Append(g, row))
  <2> HIDE DEF R
  <2> QED
    BY <1>4, <1>5, <1>6, DrawKeepsConsistent
<1>9. Commit(w, e.obj, History!Patch(n), Append(g, row))
  BY <1>1, <1>6 DEF CommitDraw
<1> QED
  BY <1>2, <1>3, <1>4, <1>7, <1>8, <1>9, CommitKeeps

\* An undo and a redo, of the row that is locked.
LEMMA CommitMarkerKeeps ==
  ASSUME IInv, NEW w \in Workers, worker[w].stage = "locked",
         NEW kind \in {"UNDO", "REDO"}, Kind(w) = kind,
         NEW props \in Props, NEW g \in Seq(Rows), SameButFlags(g, history),
         worker[w].target \in DOMAIN history =>
           /\ ~g[worker[w].target].invalidated
           /\ g[worker[w].target].undone <=> kind = "UNDO"
           /\ \A j \in DOMAIN history \ {worker[w].target} : g[j] = history[j],
         Commit(w, history[worker[w].target].obj, props,
                Append(g, MarkerRow(worker[w].ev, User(w), kind, worker[w].target, history,
                                    props, History!Stamp(worker[w].ev))))
  PROVE  IInv'
<1> DEFINE n == worker[w].ev
           i == worker[w].target
<1>1. PICK row : row = MarkerRow(n, User(w), kind, i, history, props, History!Stamp(n))
  OBVIOUS
<1>2. /\ i \in DOMAIN history /\ worker[w].rows = {i}
      /\ history[i].undone <=> kind = "REDO"
  BY DEF IInv, Locks, Open
<1>3. /\ n \in DOMAIN events /\ n \in Nat /\ User(w) \in Actors
      /\ history \in Seq(Rows) /\ Consistent(history) /\ history[i] \in Rows
  <2>1. history \in Seq(Rows) /\ Consistent(history)
    BY LogTypes DEF TypeOK, IInv, LogInv
  <2> HIDE DEF i
  <2>2. history[i] \in Rows
    BY <1>2, <2>1, RowTypes
  <2>3. n \in DOMAIN events /\ n \in Nat /\ User(w) \in Actors
    BY WorkerTypes, EventTypes DEF TypeOK, IInv
  <2> QED
    BY <2>1, <2>2, <2>3
<1>4. History!Stamp(n) \in Timestamps
  BY <1>3, StampAndPatchTypes DEF TypeOK, IInv
<1>5. /\ row \in Rows /\ row.event = n /\ row.ts = History!Stamp(n) /\ row.kind = kind
      /\ row.ref = i /\ ~row.undone /\ ~row.invalidated
  <2> HIDE DEF n, i
  <2>1. row \in Rows
    BY <1>1, <1>2, <1>3, <1>4, MarkerRowType
  <2> QED
    BY <1>1, <2>1 DEF MarkerRow
<1>6. Consistent(Append(g, row))
  <2> HIDE DEF n, i
  <2>1. ~g[i].invalidated /\ \A j \in DOMAIN history \ {i} : g[j] = history[j]
    BY <1>2 DEF i
  <2>2. \/ row.kind = "UNDO" /\ ~history[i].undone /\ g[i].undone
        \/ row.kind = "REDO" /\ history[i].undone /\ ~g[i].undone
    BY <1>2, <1>5 DEF i
  <2> QED
    BY <1>2, <1>3, <1>5, <2>1, <2>2, MarkerKeepsConsistent
<1>7. history[i].obj \in Objs
  BY <1>3 DEF Rows
<1>8. \A j \in DOMAIN history \ worker[w].rows : g[j].undone = history[j].undone
  BY <1>2
<1>9. Commit(w, history[i].obj, props, Append(g, row))
  BY <1>1
<1> QED
  BY <1>5, <1>6, <1>7, <1>8, <1>9, CommitKeeps

LEMMA CommitUndoKeeps ==
  ASSUME IInv, NEW w \in Workers, CommitUndo(w)
  PROVE  IInv'
<1> DEFINE i == worker[w].target
<1>1. i \in DOMAIN history /\ history \in Seq(Rows) /\ history[i] \in Rows
  BY LogTypes, RowTypes DEF TypeOK, CommitUndo, IInv, Locks, Open
<1>2. InverseProps(history[i]) \in Props
  BY <1>1, InversePropsType, DeletedType
<1>3. PICK g : g = MarkUndone(history, i)
  OBVIOUS
<1>4. /\ g \in Seq(Rows) /\ SameButFlags(g, history) /\ g[i].undone /\ ~g[i].invalidated
      /\ \A j \in DOMAIN history \ {i} : g[j] = history[j]
  BY <1>1, <1>3, MarkUndoneRows
<1> QED
  BY <1>2, <1>3, <1>4, CommitMarkerKeeps DEF CommitUndo

LEMMA CommitRedoKeeps ==
  ASSUME IInv, NEW w \in Workers, CommitRedo(w)
  PROVE  IInv'
<1> DEFINE i == worker[w].target
<1>1. i \in DOMAIN history /\ history \in Seq(Rows) /\ history[i] \in Rows
  BY LogTypes, RowTypes DEF TypeOK, CommitRedo, IInv, Locks, Open
<1>2. history[i].after \in Props
  BY <1>1 DEF Rows
<1>3. PICK g : g = MarkRedone(history, i)
  OBVIOUS
<1>4. /\ g \in Seq(Rows) /\ SameButFlags(g, history) /\ ~g[i].undone /\ ~g[i].invalidated
      /\ \A j \in DOMAIN history \ {i} : g[j] = history[j]
  BY <1>1, <1>3, MarkRedoneRows
<1> QED
  BY <1>2, <1>3, <1>4, CommitMarkerKeeps DEF CommitRedo

-----------------------------------------------------------------------------
(* The other steps.                                                        *)

LEMMA InitIInv == Init => IInv
<1> SUFFICES ASSUME Init PROVE IInv
  OBVIOUS
<1>1. /\ events = << >> /\ processed = {} /\ history = << >>
      /\ worker = [w \in Workers |-> Idle] /\ ready = {} /\ lost = {}
      /\ sent = [n \in 1..MaxEvents |-> 0]
  BY DEF Init, History!Init
<1>2. (History!TypeOK)
  <2>1. objects \in [Objs -> Objects]
    BY NoObjectType DEF Init, History!Init, History!NoObject, NoObject
  <2> QED
    BY <1>1, <2>1, ConsumerAssumption, HistoryNames DEF History!TypeOK
<1>3. TypeOK
  BY <1>1, <1>2, IdleState, ConsumerAssumption DEF Init, TypeOK
<1>4. EventInv /\ Exclusive /\ Locks /\ LostInv
  BY <1>1 DEF EventInv, Exclusive, Locks, LostInv, Idle, Open
<1>5. LogInv /\ ExactlyOnce /\ NoEventLost /\ SentInv
  BY <1>1 DEF LogInv, Consistent, RefsGoBack, ExactlyOnce, NoEventLost, SentInv
<1> QED
  BY <1>3, <1>4, <1>5 DEF IInv

LEMMA PublishKeeps ==
  ASSUME IInv, Publish
  PROVE  IInv'
<1> USE DEF IInv
<1>1. PICK e \in History!Events :
        Len(events) < MaxEvents /\ events' = Append(events, e)
        /\ UNCHANGED <<processed, objects, history, worker, lost, failures, sent, outages>>
        /\ ready' = ready \cup {Len(events')}
  BY DEF Publish, History!PublishSome, History!Publish
<1>2. /\ events \in Seq(History!Events) /\ Len(events) \in Nat
      /\ DOMAIN events = 1..Len(events) /\ Len(events) \in 0..MaxEvents
  BY EventTypes DEF TypeOK
<1>3. /\ events' \in Seq(History!Events) /\ Len(events') = Len(events) + 1
      /\ DOMAIN events' = 1..(Len(events) + 1)
      /\ \A n \in DOMAIN events : events'[n] = events[n]
  BY <1>1, <1>2
<1>4. MaxEvents \in Nat
  BY ConsumerAssumption
<1>5. TypeOK'
  BY <1>1, <1>2, <1>3, <1>4 DEF TypeOK, History!TypeOK
<1>6. processed \subseteq DOMAIN events
  BY DEF TypeOK, History!TypeOK
<1>7. EventInv' /\ Exclusive' /\ LostInv'
  BY <1>1, <1>2, <1>3 DEF EventInv, Exclusive, LostInv, Open
<1>8. Locks'
  <2>1. \A w \in Workers : worker[w].stage # "idle" => Kind(w)' = Kind(w)
    BY <1>1, <1>3 DEF Kind, EventInv
  <2>2. \A w \in Workers : /\ worker[w].stage = "locked" => worker[w].stage # "idle"
                           /\ w \in Open => worker[w].stage # "idle"
                           /\ w \in Open' <=> w \in Open
    BY <1>1 DEF Open
  <2> QED
    BY <1>1, <2>1, <2>2 DEF Locks
<1>9. LogInv'
  BY <1>1, <1>3, <1>6 DEF LogInv, History!Stamp
<1>10. ExactlyOnce'
  <2> SUFFICES ASSUME NEW n \in DOMAIN events', events'[n].kind \in Draws
               PROVE  n \in processed <=> \E i \in DOMAIN history : history[i].event = n
    BY <1>1 DEF ExactlyOnce
  <2>1. CASE n \in DOMAIN events
    BY <1>3, <2>1 DEF ExactlyOnce
  <2>2. CASE n \notin DOMAIN events
    BY <1>6, <2>2 DEF LogInv
  <2> QED
    BY <2>1, <2>2
<1>11. NoEventLost'
  BY <1>1, <1>2, <1>3 DEF NoEventLost
<1>12. SentInv'
  BY <1>1 DEF SentInv
<1> QED
  BY <1>5, <1>7, <1>8, <1>9, <1>10, <1>11, <1>12

LEMMA BroadcastKeeps ==
  ASSUME IInv, NEW w \in Workers, Broadcast(w)
  PROVE  IInv'
<1> DEFINE n == worker[w].ev
<1>1. PICK x : x = [worker[w] EXCEPT !.stage = "done"]
  OBVIOUS
<1>2. /\ worker[w].stage = "committed" /\ n \in processed /\ worker[w].rows = {}
      /\ n \in DOMAIN events /\ n \in 1..MaxEvents
  BY WorkerTypes, EventTypes DEF TypeOK, Broadcast, IInv, EventInv, Locks
<1>3. x \in States /\ x.stage = "done" /\ x.ev = n /\ x.rows = {}
  BY <1>1, <1>2, WorkerTypes DEF States, Stages
<1>4. Allowed(w, x)
  BY <1>2, <1>3, WorkerTypes DEF Allowed
<1>5. worker' = [worker EXCEPT ![w] = x]
  BY <1>1 DEF Broadcast
<1>6. worker' \in [Workers -> States] /\ EventInv' /\ Exclusive' /\ Locks'
  BY <1>3, <1>4, <1>5, OneWorker DEF Broadcast
<1>7. (History!TypeOK)' /\ LogInv' /\ ExactlyOnce'
  BY StoreUnchanged DEF Broadcast
<1> USE DEF IInv
<1>8. /\ worker'[w] = x /\ \A v \in Workers \ {w} : worker'[v] = worker[v]
  BY <1>5, WorkerTypes
<1>9. sent[n] = 0
  BY <1>2 DEF SentInv
<1>10. /\ sent'[n] = 1 /\ sent' \in [1..MaxEvents -> Nat]
       /\ \A m \in (1..MaxEvents) \ {n} : sent'[m] = sent[m]
  BY <1>2, <1>9 DEF Broadcast, TypeOK
<1>11. TypeOK'
  BY <1>6, <1>7, <1>10 DEF TypeOK, Broadcast, store
<1>12. NoEventLost' /\ LostInv'
  BY <1>3, <1>8 DEF NoEventLost, LostInv, Broadcast, store
<1>13. SentInv'
  <2> SUFFICES ASSUME NEW m \in 1..MaxEvents, sent'[m] # 0
               PROVE  /\ sent'[m] = 1 /\ m \in processed
                      /\ \A v \in Workers : worker'[v].ev = m => worker'[v].stage # "committed"
    BY DEF SentInv, Broadcast, store
  <2>1. CASE m = n
    BY <1>2, <1>3, <1>8, <1>10, <2>1 DEF Exclusive
  <2>2. CASE m # n
    BY <1>3, <1>8, <1>10, <2>2 DEF SentInv
  <2> QED
    BY <2>1, <2>2
<1> QED
  BY <1>6, <1>7, <1>11, <1>12, <1>13

LEMMA TxFailsKeeps ==
  ASSUME IInv, NEW w \in Workers, TxFails(w)
  PROVE  IInv'
<1> DEFINE n == worker[w].ev
<1>1. /\ n \in DOMAIN events /\ n \in 1..MaxEvents
      /\ worker' = [worker EXCEPT ![w] = Idle]
      /\ ready' = ready \cup {n} /\ UNCHANGED store
  BY WorkerTypes, EventTypes DEF TypeOK, TxFails, IInv
<1>2. worker' \in [Workers -> States] /\ EventInv' /\ Exclusive' /\ Locks'
  BY <1>1, IdleState, IdleAllowed, OneWorker
<1>3. (History!TypeOK)' /\ LogInv' /\ ExactlyOnce'
  BY <1>1, StoreUnchanged
<1> USE DEF IInv
<1>4. worker'[w] = Idle /\ \A v \in Workers \ {w} : worker'[v] = worker[v]
  BY <1>1, WorkerTypes
<1>5. failures' \in [1..MaxEvents -> 0..MaxFailures]
  BY <1>1, ConsumerAssumption DEF TxFails, TypeOK
<1>6. TypeOK'
  BY <1>1, <1>2, <1>3, <1>5 DEF TypeOK, TxFails, store
<1>7. NoEventLost'
  BY <1>1, <1>4 DEF NoEventLost, TxFails, store
<1>8. LostInv' /\ SentInv'
  BY <1>4 DEF LostInv, SentInv, TxFails, store, Idle
<1> QED
  BY <1>2, <1>3, <1>6, <1>7, <1>8

\* A process ends: its transactions roll back and the broker takes back what
\* it held.
LEMMA DiesKeeps ==
  ASSUME IInv, NEW p \in Processes, Dies(p),
         failures' \in [1..MaxEvents -> 0..MaxFailures], outages' \in 0..MaxOutages
  PROVE  IInv'
<1>1. /\ worker' = [w \in Workers |-> IF ProcessOf[w] = p THEN Idle ELSE worker[w]]
      /\ lost' = {w \in lost : ProcessOf[w] # p}
      /\ ready' = ready \cup {worker[w].ev : w \in Busy(p) \ lost}
      /\ UNCHANGED <<events, processed, objects, history, sent>>
  BY DEF Dies, Redeliver, store
<1>2. \A w \in Workers : worker'[w] = worker[w] \/ worker'[w] = Idle
  BY <1>1
<1>3. Idle.stage = "idle" /\ Idle.ev = 0 /\ Idle.rows = {}
  BY DEF Idle
<1>4. worker' \in [Workers -> States]
  BY <1>1, IdleState, WorkerTypes
<1>5. (History!TypeOK)' /\ LogInv' /\ ExactlyOnce'
  BY <1>1, StoreUnchanged DEF store
<1> USE DEF IInv
<1>6. ready' \subseteq DOMAIN events
  BY <1>1 DEF TypeOK, EventInv, Busy
<1>7. TypeOK'
  BY <1>1, <1>4, <1>5, <1>6 DEF TypeOK
<1>8. EventInv' /\ Exclusive'
  BY <1>1, <1>2, <1>3 DEF EventInv, Exclusive, Open
<1>9. Locks'
  <2> SUFFICES ASSUME NEW w \in Workers
               PROVE  /\ worker'[w].rows \subseteq DOMAIN history
                      /\ worker'[w].stage # "locked" => worker'[w].rows = {}
                      /\ w \in Open' /\ Kind(w)' \in {"UNDO", "REDO"} =>
                           worker'[w].target \in DOMAIN history
                      /\ worker'[w].stage = "locked" /\ Kind(w)' \in {"UNDO", "REDO"} =>
                           /\ worker'[w].rows = {worker'[w].target}
                           /\ history[worker'[w].target].undone <=> Kind(w)' = "REDO"
                      /\ worker'[w].stage = "locked" /\ Kind(w)' \notin {"UNDO", "REDO"} =>
                           \A i \in worker'[w].rows : history[i].undone
    BY <1>1 DEF Locks
  <2>1. CASE worker'[w] = Idle
    BY <1>3, <2>1 DEF Open
  <2>2. CASE worker'[w] = worker[w]
    BY <1>1, <2>2 DEF Locks, Open, Kind
  <2> QED
    BY <1>2, <2>1, <2>2
<1>10. LostInv'
  BY <1>1 DEF LostInv, TypeOK
<1>11. NoEventLost'
  <2> SUFFICES ASSUME NEW m \in DOMAIN events \ processed, m \notin ready
               PROVE  m \in ready' \/ \E w \in Workers \ lost' : worker'[w].ev = m
    BY <1>1 DEF NoEventLost
  <2>1. PICK w \in Workers \ lost : worker[w].ev = m
    BY DEF NoEventLost
  <2>2. CASE ProcessOf[w] = p
    <3>1. worker[w].stage # "idle"
      BY <2>1, EventTypes DEF TypeOK, EventInv
    <3> QED
      BY <1>1, <2>1, <2>2, <3>1 DEF Busy
  <2>3. CASE ProcessOf[w] # p
    BY <1>1, <2>1, <2>3
  <2> QED
    BY <2>2, <2>3
<1>12. SentInv'
  BY <1>1, <1>2, <1>3 DEF SentInv
<1> QED
  BY <1>5, <1>7, <1>8, <1>9, <1>10, <1>11, <1>12

LEMMA CrashKeeps ==
  ASSUME IInv, NEW p \in Processes, Crash(p)
  PROVE  IInv'
<1>1. Dies(p)
  BY DEF Crash
<1>2. outages' \in 0..MaxOutages /\ failures' \in [1..MaxEvents -> 0..MaxFailures]
  BY ConsumerAssumption DEF Crash, IInv, TypeOK
<1> QED
  BY <1>1, <1>2, DiesKeeps

LEMMA ClosedChannelKeeps ==
  ASSUME IInv, NEW w \in Workers, AckOnClosedChannel(w) \/ NackOnClosedChannel(w)
  PROVE  IInv'
<1>1. ProcessOf[w] \in Processes /\ Dies(ProcessOf[w])
  BY ConsumerAssumption DEF AckOnClosedChannel, NackOnClosedChannel
<1>2. outages' \in 0..MaxOutages
  BY DEF AckOnClosedChannel, NackOnClosedChannel, IInv, TypeOK
<1>3. failures' \in [1..MaxEvents -> 0..MaxFailures]
  <2>1. CASE AckOnClosedChannel(w)
    BY <2>1 DEF AckOnClosedChannel, IInv, TypeOK
  <2>2. CASE NackOnClosedChannel(w)
    <3>1. worker[w].ev \in 1..MaxEvents
      BY <2>2, WorkerTypes, EventTypes DEF TypeOK, NackOnClosedChannel, IInv
    <3> QED
      BY <2>2, <3>1, ConsumerAssumption DEF NackOnClosedChannel, IInv, TypeOK
  <2> QED
    BY <2>1, <2>2
<1> QED
  BY <1>1, <1>2, <1>3, DiesKeeps

LEMMA LoseConnectionKeeps ==
  ASSUME IInv, NEW p \in Processes, LoseConnection(p)
  PROVE  IInv'
<1>1. /\ lost' = lost \cup Busy(p) /\ outages' = outages + 1 /\ outages < MaxOutages
      /\ ready' = ready \cup {worker[w].ev : w \in Busy(p) \ lost}
      /\ UNCHANGED <<events, processed, objects, history, worker, failures, sent>>
  BY DEF LoseConnection, Redeliver, store
<1>2. (History!TypeOK)' /\ LogInv' /\ ExactlyOnce'
  BY <1>1, StoreUnchanged DEF store
<1> USE DEF IInv
<1>3. ready' \subseteq DOMAIN events
  BY <1>1 DEF TypeOK, EventInv, Busy
<1>4. TypeOK'
  BY <1>1, <1>2, <1>3, ConsumerAssumption DEF TypeOK, Busy
<1>5. EventInv' /\ Exclusive' /\ Locks' /\ SentInv'
  BY <1>1 DEF EventInv, Exclusive, Locks, SentInv, Open, Kind
<1>6. LostInv'
  BY <1>1 DEF LostInv, Busy
<1>7. NoEventLost'
  BY <1>1 DEF NoEventLost
<1> QED
  BY <1>2, <1>4, <1>5, <1>6, <1>7

-----------------------------------------------------------------------------
(* The theorems.                                                           *)

LEMMA NextIInv == IInv /\ [Next]_vars => IInv'
<1> SUFFICES ASSUME IInv, [Next]_vars PROVE IInv'
  OBVIOUS
<1>1. CASE Publish
  BY <1>1, PublishKeeps
<1>2. ASSUME NEW w \in Workers, Step(w) PROVE IInv'
  BY <1>2, TakeKeeps, SkipKeeps, TranslateKeeps, ReadObjectKeeps, FindTargetKeeps,
     InvalidateRedoKeeps, MarkTargetKeeps, CommitDrawKeeps, CommitUndoKeeps, CommitRedoKeeps,
     BroadcastKeeps, AckKeeps, ClosedChannelKeeps
     DEF Step
<1>3. ASSUME NEW w \in Workers, TxFails(w) \/ NackOnClosedChannel(w) PROVE IInv'
  BY <1>3, TxFailsKeeps, ClosedChannelKeeps
<1>4. ASSUME NEW p \in Processes, LoseConnection(p) \/ Crash(p) PROVE IInv'
  BY <1>4, LoseConnectionKeeps, CrashKeeps
<1>5. CASE UNCHANGED vars
  <2>1. UNCHANGED <<events, processed, objects, history, ready, worker, lost, failures, sent,
                    outages>>
    BY <1>5 DEF vars, store
  <2>2. (History!TypeOK)' /\ LogInv' /\ ExactlyOnce'
    BY <2>1, StoreUnchanged DEF store
  <2>3. TypeOK' /\ EventInv' /\ Exclusive' /\ Locks' /\ LostInv' /\ NoEventLost' /\ SentInv'
    BY <2>1, <2>2 DEF IInv, TypeOK, EventInv, Exclusive, Locks, LostInv, NoEventLost, SentInv,
                      Open, Kind
  <2> QED
    BY <2>2, <2>3 DEF IInv
<1> QED
  BY <1>1, <1>2, <1>3, <1>4, <1>5 DEF Next

LEMMA Always == Spec => []IInv
  BY InitIInv, NextIInv, PTL DEF Spec

\* Type correctness.
THEOREM TypeCorrect == Spec => []TypeOK
<1>1. IInv => TypeOK
  BY DEF IInv
<1> QED
  BY <1>1, Always, PTL

\* Whatever is redelivered, retried or handled twice at once, an event has one
\* row at most, and a draw has it exactly when it is processed.
THEOREM ExactlyOnceHolds == Spec => []ExactlyOnce
<1>1. IInv => ExactlyOnce
  BY DEF IInv
<1> QED
  BY <1>1, Always, PTL

\* An event that is not processed is in the queue or with a worker whose
\* delivery counts.
THEOREM NoEventLostHolds == Spec => []NoEventLost
<1>1. IInv => NoEventLost
  BY DEF IInv
<1> QED
  BY <1>1, Always, PTL

\* No event is broadcast twice.
THEOREM SentAtMostOnceHolds == Spec => []SentAtMostOnce
<1>1. IInv => SentAtMostOnce
  BY DEF IInv, TypeOK, SentInv, SentAtMostOnce
<1> QED
  BY <1>1, Always, PTL

\* The flags of the log agree with its markers under any interleaving of
\* transactions.
THEOREM FlagsFollowMarkersHolds == Spec => []FlagsFollowMarkers
<1>1. IInv => FlagsFollowMarkers
  <2> SUFFICES ASSUME IInv, NEW i \in DOMAIN history
               PROVE  LET markers == {j \in DOMAIN history : history[j].ref = i}
                          last(j) == \A k \in markers : k <= j
                      IN  /\ history[i].undone <=>
                               \E j \in markers : last(j) /\ history[j].kind = "UNDO"
                          /\ history[i].invalidated => history[i].undone
                          /\ \A j, k \in markers :
                               j < k /\ (\A l \in markers : l <= j \/ l >= k) =>
                                 history[j].kind # history[k].kind
    BY DEF FlagsFollowMarkers, History!FlagsFollowMarkers
  <2>1. RowFollows(history, i)
    BY DEF IInv, LogInv, Consistent
  <2> QED
    BY <2>1 DEF RowFollows
<1> QED
  BY <1>1, Always, PTL

-----------------------------------------------------------------------------
(* The queries and writes of CanvasHistory are those of this module.       *)

LEMMA HistoryQueries ==
  /\ \A h, S : History!Newest(h, S) = Newest(h, S)
  /\ \A h, u : History!DrawRows(h, u) = DrawRows(h, u)
  /\ \A h, u : History!UndoTarget(h, u) = UndoTarget(h, u)
  /\ \A h, u : History!Redoable(h, u) = Redoable(h, u)
  /\ \A h, i : History!UndoMarker(h, i) = UndoMarker(h, i)
  /\ \A h, i : History!RedoBlocked(h, i) = RedoBlocked(h, i)
  /\ \A h, u : History!RedoTarget(h, u) = RedoTarget(h, u)
<1>1. \A s, t : History!Later(s, t) <=> Later(s, t)
  BY DEF History!Later, Later
<1>2. \A h, S : History!Newest(h, S) = Newest(h, S)
  BY Zenon DEF History!Newest, Newest, History!Later, Later
<1>3. \A h, u : History!DrawRows(h, u) = DrawRows(h, u)
  BY DEF History!DrawRows, DrawRows, History!Draws, Draws
<1>4. \A h, u : History!UndoTarget(h, u) = UndoTarget(h, u)
  BY <1>2, <1>3, Zenon DEF History!UndoTarget, UndoTarget
<1>5. \A h, u : History!Redoable(h, u) = Redoable(h, u)
  BY <1>3 DEF History!Redoable, Redoable
<1>6. \A h, i : History!UndoMarker(h, i) = UndoMarker(h, i)
  BY <1>2, Zenon DEF History!UndoMarker, UndoMarker
<1>7. \A h, i : History!RedoBlocked(h, i) = RedoBlocked(h, i)
  BY <1>6, Zenon DEF History!RedoBlocked, RedoBlocked
<1>8. \A h, u : History!RedoTarget(h, u) = RedoTarget(h, u)
  BY <1>2, <1>5, <1>7, Zenon DEF History!RedoTarget, RedoTarget
<1> QED
  BY <1>2, <1>3, <1>4, <1>5, <1>6, <1>7, <1>8

LEMMA HistoryWrites ==
  /\ \A o, p, t : History!MergeCRDT(o, p, t) = MergeCRDT(o, p, t)
  /\ \A f, o, r, p, t : History!WriteObject(f, o, r, p, t) = WriteObject(f, o, r, p, t)
  /\ \A n, u, k, o, r, p, t :
       History!DrawRow(n, u, k, o, r, p, t) = DrawRow(n, u, k, o, r, p, t)
  /\ \A n, u, k, i, h, p, t :
       History!MarkerRow(n, u, k, i, h, p, t) = MarkerRow(n, u, k, i, h, p, t)
  /\ \A h, i : History!MarkUndone(h, i) = MarkUndone(h, i)
  /\ \A h, i : History!MarkRedone(h, i) = MarkRedone(h, i)
  /\ \A h, S : History!Invalidate(h, S) = Invalidate(h, S)
  /\ \A row : History!InverseProps(row) = InverseProps(row)
<1>0. History!NoObject = NoObject
  BY DEF History!NoObject, NoObject
<1>1. \A s, t : History!Later(s, t) <=> Later(s, t)
  BY DEF History!Later, Later
<1>2. \A o, p, t : History!MergeCRDT(o, p, t) = MergeCRDT(o, p, t)
  BY Zenon DEF History!MergeCRDT, MergeCRDT, History!Later, Later
<1>3. \A f, o, r, p, t : History!WriteObject(f, o, r, p, t) = WriteObject(f, o, r, p, t)
  BY <1>2 DEF History!WriteObject, WriteObject
<1>4. \A n, u, k, o, r, p, t :
        History!DrawRow(n, u, k, o, r, p, t) = DrawRow(n, u, k, o, r, p, t)
  BY DEF History!DrawRow, DrawRow
<1>5. \A n, u, k, i, h, p, t :
        History!MarkerRow(n, u, k, i, h, p, t) = MarkerRow(n, u, k, i, h, p, t)
  BY <1>0 DEF History!MarkerRow, MarkerRow
<1>6. \A h, i : History!MarkUndone(h, i) = MarkUndone(h, i)
  BY DEF History!MarkUndone, MarkUndone
<1>7. \A h, i : History!MarkRedone(h, i) = MarkRedone(h, i)
  BY DEF History!MarkRedone, MarkRedone
<1>8. \A h, S : History!Invalidate(h, S) = Invalidate(h, S)
  BY DEF History!Invalidate, Invalidate
<1>9. \A row : History!InverseProps(row) = InverseProps(row)
  BY <1>0 DEF History!InverseProps, InverseProps, History!Deleted, Deleted,
              History!MaterializeCRDT, MaterializeCRDT
<1> QED
  BY <1>2, <1>3, <1>4, <1>5, <1>6, <1>7, <1>8, <1>9

-----------------------------------------------------------------------------
(* One delivery at a time: the transactions of one worker are the steps of *)
(* CanvasHistory, in the order of the events.                              *)

OneSlot == \A v, w \in Workers : v = w

\* The event at hand is the oldest that is not processed, and what its transaction has
\* read and locked is what it would read now.
Serial(w) ==
  /\ worker[w].stage \in {"taken", "read", "locked"} /\ Fresh(w) =>
       \A m \in DOMAIN events \ processed : worker[w].ev <= m
  /\ w \in Open /\ Kind(w) \in {"UNDO", "REDO"} => worker[w].target = Target(w)
  /\ worker[w].stage = "locked" /\ Kind(w) \in {"UNDO", "REDO"} =>
       worker[w].read = objects[history[worker[w].target].obj]
  /\ w \in Open /\ Kind(w) \notin {"UNDO", "REDO"} =>
       worker[w].read = objects[events[worker[w].ev].obj]
  /\ worker[w].stage = "locked" /\ Kind(w) \notin {"UNDO", "REDO"} =>
       worker[w].rows = Redoable(history, User(w))

AllSerial == \A w \in Workers : Serial(w)

\* A worker whose transaction is over.
LEMMA OverIsSerial ==
  ASSUME NEW w \in Workers, worker[w].stage \notin {"taken", "read", "locked"}
  PROVE  Serial(w)
  BY DEF Serial, Open

\* The worker goes on, and no table changes.
LEMMA SameStoreSerial ==
  ASSUME AllSerial, UNCHANGED store,
         \A w \in Workers :
           worker'[w] = worker[w] \/ worker'[w].stage \notin {"taken", "read", "locked"}
  PROVE  AllSerial'
<1> SUFFICES ASSUME NEW w \in Workers PROVE Serial(w)'
  BY DEF AllSerial
<1>1. CASE worker'[w] = worker[w]
  <2>1. UNCHANGED <<events, processed, objects, history>>
    BY DEF store
  <2>2. Target(w)' = Target(w) /\ Kind(w)' = Kind(w) /\ User(w)' = User(w)
    BY <1>1, <2>1 DEF Target, Kind, User
  <2>3. Serial(w) /\ (Fresh(w)' <=> Fresh(w)) /\ (w \in Open' <=> w \in Open)
    BY <1>1, <2>1 DEF AllSerial, Fresh, Open
  <2> QED
    BY <1>1, <2>1, <2>2, <2>3 DEF Serial
<1>2. CASE worker'[w].stage \notin {"taken", "read", "locked"}
  BY <1>2 DEF Serial, Open
<1> QED
  BY <1>1, <1>2

\* The event of an open transaction is the oldest one not processed.
LEMMA OldestAtHand ==
  ASSUME IInv, AllSerial, NEW w \in Workers,
         worker[w].stage \in {"taken", "read", "locked"}, Fresh(w)
  PROVE  /\ worker[w].ev \in DOMAIN events \ processed
         /\ History!Oldest(worker[w].ev)
  BY DEF IInv, EventInv, AllSerial, Serial, Fresh, History!Oldest

\* A commit that is a step of the history.
LEMMA HandledInOrder ==
  ASSUME IInv, AllSerial, OneSlot, NEW w \in Workers,
         worker[w].stage \in {"taken", "read", "locked"}, Fresh(w),
         processed' = processed \cup {worker[w].ev}, UNCHANGED events,
         \/ History!Draw(worker[w].ev) \/ History!HandleUndo(worker[w].ev)
         \/ History!HandleRedo(worker[w].ev) \/ History!HandleNothing(worker[w].ev),
         worker'[w].stage \in {"committed", "done"}
  PROVE  AllSerial' /\ History!NextInOrder
<1>1. \A v \in Workers : v = w
  BY DEF OneSlot
<1>2. AllSerial'
  <2> SUFFICES ASSUME NEW v \in Workers PROVE Serial(v)'
    BY DEF AllSerial
  <2>1. worker'[v].stage \notin {"taken", "read", "locked"}
    BY <1>1
  <2> QED
    BY <2>1 DEF Serial, Open
<1>3. worker[w].ev \in DOMAIN events \ processed /\ History!Oldest(worker[w].ev)
  BY OldestAtHand
<1>4. History!Handle(worker[w].ev)
  BY <1>3 DEF History!Handle
<1> QED
  BY <1>2, <1>3, <1>4 DEF History!NextInOrder

\* Worker w after a step, with the fields that matter.
LEMMA StageAfter ==
  ASSUME IInv, NEW w \in Workers, NEW stage, worker' = [worker EXCEPT ![w].stage = stage]
  PROVE  worker'[w] = [worker[w] EXCEPT !.stage = stage] /\ worker'[w].stage = stage
  BY WorkerTypes DEF States

LEMMA OnlyDedupInOrder ==
  ASSUME IInv, AllSerial, OneSlot, NEW w \in Workers, NEW stage \in {"committed", "done"},
         worker[w].stage = "taken", Fresh(w), CommitOnlyDedup(w, stage),
         \/ Kind(w) = "TRANSLATE"
         \/ Kind(w) = "UNDO" /\ UndoTarget(history, User(w)) = 0
         \/ Kind(w) = "REDO" /\ RedoTarget(history, User(w)) = 0
  PROVE  AllSerial' /\ History!NextInOrder
<1>1. worker'[w].stage = stage
  BY StageAfter DEF CommitOnlyDedup
<1>2. History!HandleNothing(worker[w].ev)
  BY HistoryQueries DEF History!HandleNothing, CommitOnlyDedup, Kind, User
<1> QED
  BY <1>1, <1>2, HandledInOrder DEF CommitOnlyDedup

LEMMA TakeSerial ==
  ASSUME IInv, AllSerial, OneSlot, NEW w \in Workers, Take(w)
  PROVE  AllSerial' /\ UNCHANGED store
<1>1. PICK n \in ready :
        /\ worker[w].stage = "idle" /\ \A m \in ready : n <= m
        /\ worker' = [worker EXCEPT ![w] = [Idle EXCEPT !.stage = "taken", !.ev = n]]
        /\ UNCHANGED store
  BY DEF Take
<1>2. worker'[w].stage = "taken" /\ worker'[w].ev = n
  BY <1>1, WorkerTypes DEF Idle
<1>3. \A m \in DOMAIN events \ processed : n <= m
  <2> SUFFICES ASSUME NEW m \in DOMAIN events \ processed PROVE m \in ready
    BY <1>1
  <2>1. \A v \in Workers : worker[v].ev = 0
    BY <1>1 DEF OneSlot, IInv, EventInv
  <2>2. m # 0
    BY EventTypes DEF TypeOK, IInv
  <2> QED
    BY <2>1, <2>2 DEF IInv, NoEventLost
<1>4. ASSUME NEW v \in Workers PROVE Serial(v)'
  <2>1. v = w
    BY DEF OneSlot
  <2> QED
    BY <1>1, <1>2, <1>3, <2>1 DEF Serial, Open, store
<1> QED
  BY <1>1, <1>4 DEF AllSerial

LEMMA ReadSerial ==
  ASSUME IInv, AllSerial, OneSlot, NEW w \in Workers, ReadObject(w)
  PROVE  AllSerial' /\ UNCHANGED store
<1> DEFINE read == objects[events[worker[w].ev].obj]
           x == [worker[w] EXCEPT !.stage = "read", !.read = read]
<1>1. /\ worker' = [worker EXCEPT ![w] = x] /\ UNCHANGED store
      /\ Kind(w) \notin {"UNDO", "REDO"} /\ worker[w].stage = "taken" /\ Fresh(w)
  BY DEF ReadObject, Begins, Draws
<1>2. /\ worker'[w].stage = "read" /\ worker'[w].read = read
      /\ worker'[w].ev = worker[w].ev
  <2> HIDE DEF read
  <2> QED
    BY <1>1, WorkerTypes DEF States
<1>3. Kind(w)' = Kind(w) /\ Fresh(w)
  BY <1>1, <1>2 DEF Kind, store
<1>4. ASSUME NEW v \in Workers PROVE Serial(v)'
  <2>1. v = w /\ Serial(w)
    BY DEF OneSlot, AllSerial
  <2> QED
    BY <1>1, <1>2, <1>3, <2>1 DEF Serial, Open, store
<1> QED
  BY <1>1, <1>4 DEF AllSerial

LEMMA FindSerial ==
  ASSUME IInv, AllSerial, OneSlot, NEW w \in Workers, FindTarget(w)
  PROVE  AllSerial' /\ (UNCHANGED store \/ History!NextInOrder)
<1>1. worker[w].stage = "taken" /\ Fresh(w) /\ Kind(w) \in {"UNDO", "REDO"}
  BY DEF FindTarget, Begins
<1>2. CASE Target(w) = 0
  BY <1>1, <1>2, OnlyDedupInOrder DEF FindTarget, Target
<1>3. CASE Target(w) # 0
  <2> DEFINE x == [worker[w] EXCEPT !.stage = "read", !.target = Target(w)]
  <2>1. worker' = [worker EXCEPT ![w] = x] /\ UNCHANGED store
    BY <1>3 DEF FindTarget
  <2>2. /\ worker'[w].stage = "read" /\ worker'[w].target = Target(w)
        /\ worker'[w].ev = worker[w].ev
    BY <2>1, WorkerTypes DEF States
  <2>3. Kind(w)' = Kind(w) /\ Target(w)' = Target(w)
    BY <2>1, <2>2 DEF Kind, Target, User, store
  <2>4. ASSUME NEW v \in Workers PROVE Serial(v)'
    <3>1. v = w /\ Serial(w)
      BY DEF OneSlot, AllSerial
    <3> QED
      BY <1>1, <2>1, <2>2, <2>3, <3>1 DEF Serial, Open, store
  <2> QED
    BY <2>1, <2>4 DEF AllSerial
<1> QED
  BY <1>2, <1>3

LEMMA InvalidateSerial ==
  ASSUME IInv, AllSerial, OneSlot, NEW w \in Workers, InvalidateRedo(w)
  PROVE  AllSerial' /\ UNCHANGED store
<1> DEFINE R == Redoable(history, User(w))
           x == [worker[w] EXCEPT !.stage = "locked", !.rows = R]
<1>1. /\ worker' = [worker EXCEPT ![w] = x] /\ UNCHANGED store
      /\ Kind(w) \notin {"UNDO", "REDO"} /\ worker[w].stage = "read"
  BY DEF InvalidateRedo, Draws
<1>2. /\ worker'[w].stage = "locked" /\ worker'[w].rows = R
      /\ worker'[w].ev = worker[w].ev /\ worker'[w].read = worker[w].read
  <2> HIDE DEF R
  <2> QED
    BY <1>1, WorkerTypes DEF States
<1>3. Kind(w)' = Kind(w) /\ R' = R
  BY <1>1, <1>2 DEF Kind, User, store
<1>4. ASSUME NEW v \in Workers PROVE Serial(v)'
  <2>1. v = w /\ Serial(w)
    BY DEF OneSlot, AllSerial
  <2>2. (Fresh(v)' <=> Fresh(w))
    BY <1>1, <1>2, <2>1 DEF Fresh, store
  <2> QED
    BY <1>1, <1>2, <1>3, <2>1, <2>2 DEF Serial, Open, store
<1> QED
  BY <1>1, <1>4 DEF AllSerial

\* What was found is still there: nobody else marks rows.
LEMMA MarkSerial ==
  ASSUME IInv, AllSerial, OneSlot, NEW w \in Workers, MarkTarget(w)
  PROVE  AllSerial' /\ UNCHANGED store
<1> DEFINE i == worker[w].target
           read == objects[history[i].obj]
           x == [worker[w] EXCEPT !.stage = "locked", !.rows = {i}, !.read = read]
<1>0. worker[w].stage = "read" /\ Kind(w) \in {"UNDO", "REDO"}
  BY DEF MarkTarget
<1>1. i = Target(w) /\ i \in DOMAIN history
  BY <1>0 DEF AllSerial, Serial, Open, IInv, Locks
<1>2. StillThere(w)
  <2>1. /\ history \in Seq(Rows) /\ TimesAreDistinct(history)
        /\ Times \subseteq 0..MaxEvents /\ MaxEvents \in Nat
    BY LogTypes DEF TypeOK, IInv
  <2>2. history[i].undone \in BOOLEAN /\ i # 0
    <3>1. history[i] \in Rows /\ i \in 1..Len(history)
      BY <1>1, <2>1, RowTypes
    <3> HIDE DEF i
    <3> QED
      BY <3>1 DEF Rows
  <2>3. history[i].undone <=> Kind(w) = "REDO"
    BY <1>0, <1>1, <2>1, <2>2, TargetsExist DEF Target
  <2> QED
    BY <2>2, <2>3 DEF StillThere
<1>3. worker' = [worker EXCEPT ![w] = x] /\ UNCHANGED store
  BY <1>2 DEF MarkTarget
<1>4. /\ worker'[w].stage = "locked" /\ worker'[w].target = i /\ worker'[w].read = read
      /\ worker'[w].ev = worker[w].ev
  <2> HIDE DEF read
  <2> QED
    BY <1>3, WorkerTypes DEF States
<1>5. Kind(w)' = Kind(w) /\ Target(w)' = Target(w)
  BY <1>3, <1>4 DEF Kind, Target, User, store
<1>6. ASSUME NEW v \in Workers PROVE Serial(v)'
  <2>1. v = w /\ Serial(w)
    BY DEF OneSlot, AllSerial
  <2>2. (Fresh(v)' <=> Fresh(w))
    BY <1>3, <1>4, <2>1 DEF Fresh, store
  <2> QED
    BY <1>0, <1>1, <1>3, <1>4, <1>5, <2>1, <2>2 DEF Serial, Open, store
<1> QED
  BY <1>3, <1>6 DEF AllSerial

\* The commits.
LEMMA CommitInOrder ==
  ASSUME IInv, AllSerial, OneSlot, NEW w \in Workers, NEW o, NEW props, NEW log,
         worker[w].stage = "locked", Commit(w, o, props, log),
         History!Draw(worker[w].ev) \/ History!HandleUndo(worker[w].ev)
           \/ History!HandleRedo(worker[w].ev)
  PROVE  AllSerial' /\ History!NextInOrder
<1>1. worker'[w].stage = "committed"
  BY WorkerTypes DEF Commit, States
<1>2. Fresh(w)
  BY DEF IInv, EventInv, Open, Fresh
<1> QED
  BY <1>1, <1>2, HandledInOrder DEF Commit

LEMMA DrawInOrder ==
  ASSUME IInv, AllSerial, OneSlot, NEW w \in Workers, CommitDraw(w)
  PROVE  AllSerial' /\ History!NextInOrder
<1> DEFINE n == worker[w].ev
           e == events[n]
           row == DrawRow(n, e.user, e.kind, e.obj, worker[w].read,
                          History!Patch(n), History!Stamp(n))
           log == Append(Invalidate(history, worker[w].rows), row)
<1>1. /\ worker[w].stage = "locked" /\ Kind(w) \in Draws
      /\ Commit(w, e.obj, History!Patch(n), log)
  BY DEF CommitDraw
<1>2. /\ worker[w].read = objects[e.obj]
      /\ worker[w].rows = Redoable(history, e.user)
  BY <1>1 DEF AllSerial, Serial, Open, Draws, Kind, User
<1>3. History!Draw(n)
  <2>1. e.kind \in History!Draws
    BY <1>1 DEF Kind, Draws, History!Draws
  <2>2. objects' = History!WriteObject(objects, e.obj, objects[e.obj], History!Patch(n),
                                       History!Stamp(n))
    BY <1>1, <1>2, HistoryWrites DEF Commit
  <2>3. history' = Append(History!Invalidate(history, History!Redoable(history, e.user)),
                          History!DrawRow(n, e.user, e.kind, e.obj, objects[e.obj],
                                          History!Patch(n), History!Stamp(n)))
    BY <1>1, <1>2, HistoryWrites, HistoryQueries DEF Commit
  <2> QED
    BY <2>1, <2>2, <2>3 DEF History!Draw
<1> QED
  BY <1>1, <1>3, CommitInOrder

LEMMA UndoInOrder ==
  ASSUME IInv, AllSerial, OneSlot, NEW w \in Workers, CommitUndo(w)
  PROVE  AllSerial' /\ History!NextInOrder
<1> DEFINE n == worker[w].ev
           i == worker[w].target
           props == InverseProps(history[i])
           log == Append(MarkUndone(history, i),
                         MarkerRow(n, User(w), "UNDO", i, history, props, History!Stamp(n)))
<1>1. /\ worker[w].stage = "locked" /\ Kind(w) = "UNDO"
      /\ Commit(w, history[i].obj, props, log)
  BY DEF CommitUndo
<1>2. i = UndoTarget(history, User(w)) /\ i # 0
  <2>1. i = UndoTarget(history, User(w)) /\ i \in DOMAIN history
    BY <1>1 DEF AllSerial, Serial, Open, Target, IInv, Locks
  <2> QED
    BY <2>1, LogTypes, RowTypes DEF TypeOK, IInv
<1>3. worker[w].read = objects[history[i].obj]
  BY <1>1 DEF AllSerial, Serial
<1>4. i = History!UndoTarget(history, events[n].user) /\ props = History!InverseProps(history[i])
  BY <1>2, HistoryQueries, HistoryWrites DEF User
<1>5. History!HandleUndo(n)
  <2>1. events[n].kind = "UNDO"
    BY <1>1 DEF Kind
  <2>2. objects' = History!WriteObject(objects, history[i].obj, objects[history[i].obj],
                                       props, History!Stamp(n))
    BY <1>1, <1>3, HistoryWrites DEF Commit
  <2>3. history' = Append(History!MarkUndone(history, i),
                          History!MarkerRow(n, events[n].user, "UNDO", i, history, props,
                                            History!Stamp(n)))
    BY <1>1, HistoryWrites DEF Commit, User
  <2> HIDE DEF i, props
  <2> QED
    BY <1>2, <1>4, <2>1, <2>2, <2>3 DEF History!HandleUndo
<1> QED
  BY <1>1, <1>5, CommitInOrder

LEMMA RedoInOrder ==
  ASSUME IInv, AllSerial, OneSlot, NEW w \in Workers, CommitRedo(w)
  PROVE  AllSerial' /\ History!NextInOrder
<1> DEFINE n == worker[w].ev
           i == worker[w].target
           props == history[i].after
           log == Append(MarkRedone(history, i),
                         MarkerRow(n, User(w), "REDO", i, history, props, History!Stamp(n)))
<1>1. /\ worker[w].stage = "locked" /\ Kind(w) = "REDO"
      /\ Commit(w, history[i].obj, props, log)
  BY DEF CommitRedo
<1>2. i = RedoTarget(history, User(w)) /\ i # 0
  <2>1. i = RedoTarget(history, User(w)) /\ i \in DOMAIN history
    BY <1>1 DEF AllSerial, Serial, Open, Target, IInv, Locks
  <2> QED
    BY <2>1, LogTypes, RowTypes DEF TypeOK, IInv
<1>3. worker[w].read = objects[history[i].obj]
  BY <1>1 DEF AllSerial, Serial
<1>4. i = History!RedoTarget(history, events[n].user)
  BY <1>2, HistoryQueries DEF User
<1>5. History!HandleRedo(n)
  <2>1. events[n].kind = "REDO"
    BY <1>1 DEF Kind
  <2>2. objects' = History!WriteObject(objects, history[i].obj, objects[history[i].obj],
                                       props, History!Stamp(n))
    BY <1>1, <1>3, HistoryWrites DEF Commit
  <2>3. history' = Append(History!MarkRedone(history, i),
                          History!MarkerRow(n, events[n].user, "REDO", i, history, props,
                                            History!Stamp(n)))
    BY <1>1, HistoryWrites DEF Commit, User
  <2> HIDE DEF i
  <2> QED
    BY <1>2, <1>4, <2>1, <2>2, <2>3 DEF History!HandleRedo
<1> QED
  BY <1>1, <1>5, CommitInOrder

LEMMA PublishSerial ==
  ASSUME IInv, AllSerial, Publish
  PROVE  AllSerial' /\ History!PublishSome
<1>1. PICK e : events' = Append(events, e)
  BY DEF Publish, History!PublishSome, History!Publish
<1>2. UNCHANGED <<processed, objects, history, worker>>
  BY DEF Publish, History!PublishSome, History!Publish
<1>3. /\ Len(events) \in Nat /\ DOMAIN events = 1..Len(events)
      /\ DOMAIN events' = 1..(Len(events) + 1)
      /\ \A n \in DOMAIN events : events'[n] = events[n]
  BY <1>1, EventTypes DEF TypeOK, IInv
<1>4. ASSUME NEW w \in Workers PROVE Serial(w)'
  <2>1. CASE worker[w].stage = "idle"
    BY <1>2, <2>1 DEF Serial, Open
  <2>2. CASE worker[w].stage # "idle"
    <3>1. worker[w].ev \in DOMAIN events
      BY <2>2, WorkerTypes
    <3>2. /\ events'[worker[w].ev] = events[worker[w].ev]
          /\ Kind(w)' = Kind(w) /\ User(w)' = User(w)
      BY <1>2, <1>3, <3>1 DEF Kind, User
    <3>3. Target(w)' = Target(w) /\ (Fresh(w)' <=> Fresh(w)) /\ (w \in Open' <=> w \in Open)
      BY <1>2, <3>2 DEF Target, Fresh, Open
    <3>4. Redoable(history, User(w))' = Redoable(history, User(w))
      BY <1>2, <3>2
    <3>5. Serial(w)
      BY DEF AllSerial
    <3>6. worker'[w].stage \in {"taken", "read", "locked"} /\ Fresh(w)' =>
            \A m \in DOMAIN events' \ processed' : worker'[w].ev <= m
      <4> SUFFICES ASSUME worker[w].stage \in {"taken", "read", "locked"}, Fresh(w),
                          NEW m \in DOMAIN events' \ processed
                   PROVE  worker[w].ev <= m
        BY <1>2, <3>3
      <4>1. m \in DOMAIN events \ processed \/ m = Len(events) + 1
        BY <1>3
      <4> QED
        BY <1>3, <3>1, <3>5, <4>1 DEF Serial
    <3> QED
      BY <1>2, <3>2, <3>3, <3>4, <3>5, <3>6 DEF Serial
  <2> QED
    BY <2>1, <2>2
<1> QED
  BY <1>4 DEF AllSerial, Publish

\* Skips, broadcasts, acknowledgements, failures and crashes change no table.
LEMMA AsideSerial ==
  ASSUME IInv, AllSerial, NEW w \in Workers, NEW p \in Processes,
         \/ Skip(w) \/ Broadcast(w) \/ Ack(w) \/ AckOnClosedChannel(w)
         \/ TxFails(w) \/ NackOnClosedChannel(w) \/ LoseConnection(p) \/ Crash(p)
  PROVE  AllSerial' /\ UNCHANGED store
<1>1. UNCHANGED store
  BY DEF Skip, Broadcast, Ack, AckOnClosedChannel, TxFails, NackOnClosedChannel,
         LoseConnection, Crash, Dies
<1>2. Idle.stage = "idle" /\ worker \in [Workers -> States]
  BY DEF Idle, IInv, TypeOK
<1>3. \A v \in Workers :
        worker'[v] = worker[v] \/ worker'[v].stage \notin {"taken", "read", "locked"}
  <2>1. CASE Skip(w) \/ Broadcast(w)
    <3>1. PICK s \in {"done"} : worker' = [worker EXCEPT ![w].stage = s]
      BY <2>1 DEF Skip, Broadcast
    <3>2. \A v \in Workers \ {w} : worker'[v] = worker[v]
      BY <1>2, <3>1
    <3> QED
      BY <3>1, <3>2, StageAfter
  <2>2. CASE Ack(w) \/ TxFails(w)
    BY <1>2, <2>2 DEF Ack, TxFails
  <2>3. CASE \E q \in Processes : Dies(q)
    BY <1>2, <2>3 DEF Dies
  <2>4. CASE LoseConnection(p)
    BY <2>4 DEF LoseConnection
  <2> QED
    BY <2>1, <2>2, <2>3, <2>4, ConsumerAssumption
    DEF AckOnClosedChannel, NackOnClosedChannel, Crash
<1> QED
  BY <1>1, <1>3, SameStoreSerial

LEMMA StepInOrder ==
  ASSUME IInv, AllSerial, OneSlot, [Next]_vars
  PROVE  AllSerial' /\ [History!NextInOrder]_(History!vars)
<1>0. UNCHANGED store => UNCHANGED History!vars
  BY DEF store, History!vars
<1>1. CASE Publish
  BY <1>1, PublishSerial DEF History!NextInOrder
<1>2. ASSUME NEW w \in Workers, Step(w)
      PROVE  AllSerial' /\ (UNCHANGED store \/ History!NextInOrder)
  <2>1. PICK p \in Processes : p = ProcessOf[w]
    BY ConsumerAssumption
  <2>2. ASSUME Translate(w) PROVE AllSerial' /\ History!NextInOrder
    <3>1. /\ worker[w].stage = "taken" /\ Fresh(w) /\ Kind(w) = "TRANSLATE"
          /\ CommitOnlyDedup(w, "committed")
      BY <2>2 DEF Translate, Begins
    <3> QED
      BY <3>1, OnlyDedupInOrder
  <2>3. CASE Skip(w) \/ Broadcast(w) \/ Ack(w) \/ AckOnClosedChannel(w)
    BY <2>1, <2>3, AsideSerial
  <2> QED
    BY <1>2, <2>2, <2>3, TakeSerial, ReadSerial, FindSerial, InvalidateSerial, MarkSerial,
       DrawInOrder, UndoInOrder, RedoInOrder DEF Step
<1>3. ASSUME NEW w \in Workers, TxFails(w) \/ NackOnClosedChannel(w)
      PROVE  AllSerial' /\ UNCHANGED store
  <2>1. PICK p \in Processes : p = ProcessOf[w]
    BY ConsumerAssumption
  <2> QED
    BY <1>3, <2>1, AsideSerial
<1>4. ASSUME NEW p \in Processes, LoseConnection(p) \/ Crash(p)
      PROVE  AllSerial' /\ UNCHANGED store
  <2>1. UNCHANGED store
    BY <1>4 DEF LoseConnection, Crash, Dies
  <2>2. Idle.stage = "idle"
    BY DEF Idle
  <2>3. \A v \in Workers :
          worker'[v] = worker[v] \/ worker'[v].stage \notin {"taken", "read", "locked"}
    BY <1>4, <2>2 DEF LoseConnection, Crash, Dies
  <2> QED
    BY <2>1, <2>3, SameStoreSerial
<1>5. CASE UNCHANGED vars
  <2>1. UNCHANGED store /\ UNCHANGED worker
    BY <1>5 DEF vars
  <2> QED
    BY <1>0, <2>1, SameStoreSerial
<1> QED
  BY <1>0, <1>1, <1>2, <1>3, <1>4, <1>5 DEF Next

\* One delivery at a time, with failures, redelivery and crashes, is a history of events
\* handled at once and in the order they were stamped.
THEOREM OneSlotImplementsHistory ==
  ASSUME OneSlot
  PROVE  Spec => ImplementsHistory
<1>1. Init => AllSerial /\ History!Init
  <2> SUFFICES ASSUME Init PROVE AllSerial
    BY DEF Init
  <2>1. \A w \in Workers : worker[w].stage = "idle"
    BY DEF Init, Idle
  <2> QED
    BY <2>1, OverIsSerial DEF AllSerial
<1>2. IInv /\ AllSerial /\ [Next]_vars => AllSerial' /\ [History!NextInOrder]_(History!vars)
  BY StepInOrder
<1>3. Spec => []IInv
  BY Always
<1> QED
  BY <1>1, <1>2, <1>3, PTL DEF Spec, ImplementsHistory, History!InOrderSpec

=============================================================================
