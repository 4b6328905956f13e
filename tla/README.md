# Verification of Pencil.io

Pencil.io is a collaborative whiteboard.  Browsers talk to a WebSocket backend,
which stamps canvas events with a logical clock, queues them in RabbitMQ,
applies them to Postgres in a consumer, and fans the result out through Redis.
An HTTP backend keeps users, rooms and tokens; an AI service reads the rooms'
timelines.

This directory holds TLA+ models of the parts of that system where order,
concurrency and failure decide whether it is right, the TLC runs that check
them on small instances, and TLAPS proofs for every instance.  Paths below are
relative to the repository; `ws/` stands for `apps/ws-backend/src/`.

## The system

| Part | State | Operations | Interacts with |
|---|---|---|---|
| Room registry `ws/manager/roomManager.ts`, `ws/socketManager.ts`, `ws/handlers/room.handler.ts` | three maps (room -> sockets, socket -> rooms, room -> user -> sockets), the sockets of each user | connect, authenticate, time out, join, leave, close, broadcast | called by every handler and consumer that broadcasts |
| Logical clock `ws/crdt/hlc.ts` | last time per actor, in memory | generate, clamp, normalise, compare | stamps each canvas event; the consumer normalises |
| CRDT `ws/crdt/merge.ts` | none (a pure function) | merge a patch into an object | consumer, undo/redo, replay, load |
| Canvas history `ws/services/canvas.history.service.ts` | `CanvasActionHistory`, `CanvasObject` | save a draw, undo, redo | called inside the consumer's transaction |
| Canvas consumer `ws/consumers/canvas.consumer.ts` | `ProcessedEvent`, deliveries in flight, event counters | deduplicate, apply, commit, broadcast, ack, nack | RabbitMQ, Postgres, room registry, Redis |
| Canvas reads `ws/services/canvasReplay.service.ts`, `ws/services/canvasRead.service.ts` | none (reads log and snapshots) | replay, load, replay check | clients on join and reconnect |
| Compaction `ws/compaction/`, snapshots `ws/snapshot/` | rewritten log, `CanvasSnapshot`, a Redis lock | compact a room, take a snapshot | the log the consumer appends to |
| Publisher `ws/infra/eventPublisher.ts`, `ws/monitor/` | sampled queue sizes, load flags | publish with confirm and timeout, refuse under backpressure | handlers, RabbitMQ |
| RabbitMQ client `packages/messaging/src/client.ts` | connection, channel, reconnecting flag, timer | connect, reconnect, close | every publisher and consumer |
| Redis client `packages/redis/src/pubsub.ts` | subscriptions, locks | publish, subscribe, lock | fan-out, compaction |
| Chat `ws/handlers/chat.handler.ts`, `ws/consumers/chat.consumer.ts`, `ws/consumers/broadcast.consumer.ts`, the web client's `ChatPanel.tsx` | `Message`, two queues of one event, what a panel shows | send, store, broadcast, read the history | publisher, room registry, Redis |
| Membership `apps/http-backend/src/services/room.service.ts`, `controller/admin.controller.ts` | `Room`, `RoomMember`, `JoinRequest` | create, join, leave, delete, approve, reject, remove, kick, change a role | checked by the socket handlers; the room page polls it |
| Sessions `apps/http-backend/src/services/auth.service.ts`, `services/sessionService.ts`, the web client's `lib/api.ts`, `store/auth.store.ts` | `RefreshToken`, two cookies, an access token per tab | sign in, refresh and rotate, log out, revoke | every request and every socket of the page |
| Accounts and e-mail `services/auth.service.ts`, `consumers/email.consumer.ts` | `User`, `email.queue` | sign up, verify, resend, sign in by a provider, mail | RabbitMQ, the mail service |
| Tasks and planning `controller/task.controller.ts`, `controller/planning.controller.ts`, `services/notification.service.ts` | `Task`, `ScheduledMeeting`, `Notification` | create, assign, update, delete; schedule and cancel a meeting | mails, Redis |
| AI service `apps/ai-service/src/` | `SessionChunk`, `SessionSummary`, a lock in memory | ingest, summarise, query | the timeline's tables, model provider, a queue |
| Transcript agent `apps/transcript/agent.py`, `services/mediaToken.service.ts` | LiveKit dispatches, pending tasks, `TranscriptSegment` | start and stop, hear, publish, store | LiveKit, the HTTP backend's internal route |
| Room page `apps/web/app/room/[roomId]/page.tsx`, `lib/ws.ts` | the socket, pending frames, timers, polls, flags of the page | open and leave a page, connect, hand shake, reconnect, refresh, poll | both backends |
| Media panel `MediaPanel.tsx`, `store/media.store.ts` | the LiveKit room, what the buttons show | join, leave, mount, switch devices | LiveKit |
| Canvas pane `CanvasPane.tsx`, `useCanvasHistory.ts`, `store/canvas.store.ts` | objects shown, gesture, undo and redo stacks | draw, drag, edit, delete, undo, redo, take updates | the socket |

### What is hard

* Handlers of one Node process interleave at every `await`: a join waits for
  the membership query, a disconnect loop waits for Redis between two rooms, up
  to 50 consumer handlers wait for the database at the same time.
* The consumer reads, merges and writes in separate statements of a READ
  COMMITTED transaction; several processes consume one queue.  The HTTP
  handlers check first and write later, some of them without a transaction.
* Messages are redelivered after a crash, a lost connection or a failed
  transaction; a handler may run on after its delivery went to somebody else.
* Timestamps come from wall clocks that step, and from several processes;
  browsers stamp with their own.
* Undo and redo act on the newest row of a log that other events append to.
* Compaction and snapshots rewrite the log under the consumer.
* Locks run out under their holders, answers come after the caller gave up,
  and what was retried may have been done.
* In the browser, calls, timers and events outlive the page, the socket or the
  room they were for.

### What makes each part right

* Room registry: the registry of a user's sockets is exact; nobody departs
  unannounced.
* Clock: later calls return later times; the consumer's clamp keeps the order.
* CRDT: replicas hold the latest write, in whatever order patches come.
* History: the log replays to the stored objects; flags and markers agree; a
  redo never jumps over a newer draw; an undo brings back what was shown; a
  load shows what the live objects show.
* Consumer: each event applied once, none lost, none broadcast twice, all
  settled; one delivery at a time looks like one atomic step per event.
* Compaction, snapshots: replay and load before and after are the same; one
  compactor at a time while its lock lasts.
* RabbitMQ client: a process always comes back to serving its queues.
* Chat: what the broker confirmed is kept; a broadcast reaches a socket once.
* Membership: the counter counts, the room is never overfull, a private room is
  entered by approval.
* Sessions: a token is exchanged once; the cookie follows the newest session.
* Accounts: nobody is left with dead verification links only.  Tasks: who is
  assigned is told.
* AI: one summary at a time ingests under the lock; every item of the timeline
  is in one chunk.  Transcripts: each surplus copy has a lost answer.
* Room page: nothing is sent before the authentication, a page at rest is in
  its room or says why not, and it comes to rest.
* Media: what is connected can be left.  Canvas pane: what a
  browser shows once all frames have arrived is what is saved.

## Modules

| Module | Models | State and actions against the code |
|---|---|---|
| `RoomManager` | the room registry of one process | `maps` holds the three `Map`s (a deleted key is a key with `{}`); `phase` is `readyState`; `joining` are the joins between `assertRoomMember` and `joinRoom`; `pending` the rest of the loop in `handleDisconnect`.  One action per handler up to its first `await` and per continuation.  `BroadCast` includes its purge. |
| `Hlc` | the clock in several processes | `lastTime` is `lastTimeMap`; wall clocks are the environment.  `GenerateHLC` and `NormalizeLogicalTimestamp` are the two entry points. |
| `CanvasCRDT` | `mergeCRDT`, `compareLogicalTimestamp` | constant operators; `props` and `meta` are one function, as the code writes both at the same keys. |
| `CanvasConvergence` | the folds of `mergeCRDT` over the patches of an object | a replica is a place that merges patches: the stored object, a replay, a load. |
| `CanvasStore` | the queries and writes on log and objects | constant operators, one per query, update and upsert, with the row that was read as a parameter. |
| `CanvasHistory` | what an event does, at once and once | `Handle(n)` is the whole transaction of the consumer as one step; `Spec` in any order, `InOrderSpec` in the order of the timestamps. |
| `CanvasConsumer` | the consumer, statement by statement | `worker` is a delivery in flight with its open transaction; see below. |
| `CanvasCompaction` | snapshots, compaction, loads from a snapshot | `compactor` is one call of `compactRoom` between its awaits, with the rows it read and will delete; `making` is a `triggerSnapshot` on its way; `lock` is the Redis key, `expired` says whose time to live has passed. |
| `RoomMembership` | the rows of one room in the HTTP backend | `room`, `role`, `request` are the `Room`, `RoomMember` and `JoinRequest` rows; `call` is a request between its checks (`Ask...`) and its transaction (`JoinPublic`, `Approve`, ...). `Kick` and `KickDecrement` are the two statements of a kick. |
| `BoundedRoom` | what the membership promises | a set that grows and shrinks by one, or empties, and never outgrows the room. |
| `Sessions` | the sessions of one account in one browser | `row` are the `RefreshToken` rows by the token they hold; `cookie` is shared by the tabs, `tab` is the module state of `api.ts`; `sent` are requests with the cookie they took along.  A server's read (`FindSession`) and write (`Rotate`) are two steps, the answer a third. |
| `Accounts` | one e-mail address and its verification mails | `errand` is a request between its read, its write and its publish; `desk` is what the consumer holds (prefetch 1). |
| `Planner` | one task, one meeting, their notifications | `work` is a request between its read, its write and the notification. |
| `RoomAi` | ingests, summaries and questions of a room | `job` is a request or a consumed message between its awaits; `lock` is the entry of the room in the lock map. |
| `Timeline` | `timeline.ts` | the unified time line as an operator on the rows; one step per window of `chunkTimeline`. |
| `Transcription` | the transcribers of a room | `asked` is a start or stop between LiveKit calls; `task` is `publish_then_persist` of one phrase in one agent. |
| `RabbitClient` | `RabbitMQClient` in one process | `attempt` is a call of `connect` between its awaits; `link`, `chan` and `pending` are the broker's side and the events not yet emitted. |
| `ChatPipeline` | a chat message from socket to panels | `publishing` is `publish` with its timeout; `held` are unacknowledged deliveries; `storing` and `telling` the two consumers between their awaits. |
| `RoomPage` | the room page and the socket client of a tab | `client` and `ws` are the fields of `WSClient`; `tokens`, `timers` and `joining` are the calls and timers under way, by the page that made them; `peer` and `member` stand for the two backends as the page meets them. |
| `MediaSession` | the media panel | `phase` is a call of `joinMedia` at its await; `conn` and `devices` are LiveKit's room objects; `roomRef` and `view` the panel's ref and store. |
| `CanvasClient` | the canvas as several browsers edit it | `shown`, `gesture`, `undos`, `redos` are one pane's store, pointer and history; `up` and `inbox` the frames on their way.  `Serve` is the server in short: it stamps a frame, saves it as the consumer would, all properties as one key, and fans it out; `Refuse` is backpressure or a failed publish.  `astray` is a ghost, see below; clocks may be ahead of or behind the server's. |
| `MCHttpBackend`, `MCParts`, `MCLinks`, `MCCanvasAnyOrder` | several components that share no state | the component chosen at the start runs alone, so one run checks each of them on its own instance. |
| `CanvasStore_proofs`, `CanvasHistory_proofs`, `CanvasConsumer_proofs`, `CanvasCompaction_proofs`, `RoomManager_proofs`, `HttpBackend_proofs`, `Parts_proofs`, `Links_proofs` | | the theorems; `CanvasStore_proofs` holds the lemmas on log and objects that the other canvas modules cite |

The other `MC*` modules only give constants their values.  Definitions whose
comment says "Mutant" are bugs that could have been written; they are used
nowhere, and each breaks the property it is meant for when it replaces the
original.

`CanvasHistory` and `CanvasConsumer` share `CanvasStore`, which rests on
`CanvasCRDT`; `CanvasConsumer` instantiates `CanvasHistory` and, with one
worker, implements it, which is proved.  `CanvasCompaction` takes the effect of an event from
`CanvasHistory` and works on the same log behind it.  `RoomMembership`
instantiates `BoundedRoom` with the members as the set and implements it.

### The consumer's transaction

A transaction has up to three steps: the dedup insert with the first reads
(`Skip`, `Translate`, `ReadObject`, `FindTarget`), the rows it updates
conditionally (`InvalidateRedo`, `MarkTarget`), and the last writes with the
commit (`CommitDraw`, `CommitUndo`, `CommitRedo`).  Postgres provides three
things the model relies on: the insert of a duplicate `eventId` waits for the
transaction that inserted it first (`Begins`), an updated row stays locked to
the end of its transaction (`Unlocked`), and an update that waited tests its
condition again (`StillThere`).  A rollback leaves nothing, so uncommitted
writes live in `worker` only.

Reads that a later statement repeats or that nothing depends on are one step:
the three selects of `handleRedo`, and the two reads of the object in
`handleUndo`.  The update of `InvalidateRedo` picks its rows when it gets its
locks.  A redo marks its row on `isUndone` alone, as the code does.

When the channel of a process closes, the broker redelivers while the handlers
run on (`LoseConnection`); a handler that then acknowledges throws, throws again
in its error path and ends the process (`AckOnClosedChannel`); a handler whose
transaction fails throws in its error path (`NackOnClosedChannel`).

### Snapshots and compaction

A draw may trigger a snapshot.  Its objects are read later (`ReadObjects`),
filtered by the version of the triggering event, and its row is dated later
still (`CreateSnapshot`); both gaps are where events get lost to loads.
A compaction takes the lock and the date of the snapshot (`Begin`), reads the
log up to that date and plans (`ReadLog`), and rewrites it in one transaction
whatever has happened to the rows since (`Rewrite`).  The lock may expire at
any time, a compactor may throw or die.  Segments are sets: two rows are in
one if no boundary lies between them.

A shape always comes whole, with its type; clients that send flat data may set
optional properties besides (`Extras`), and only then a segment does not squash
to its last row.  The web client wraps all properties in one, so its logs are
never collapsed.  Elsewhere `Extras` is `{{}}`: an undo takes no property
away that the undone draw added, which would be a second disagreement between
log and objects in every run.

Rows of equal time, left by two rewrites of one segment, are sorted in order of
insertion; the code sorts them by their random ids.  Deleted rows leave `Gone`
at their index, which no query matches, so ids stay stable.

### Where components come apart in the code

Three modules have a variable that remembers that the code has met a case in
which it gives no promise, so that a property speaks of everything else:

* `smooth` in `Sessions`: an answer was lost, or two requests overlapped.  Two
  tabs that refresh at once do sign one out, and a lost rotated token loses the
  session.
* `crossed` in `MediaSession` and `RoomPage`: a join crossed with another one,
  with leaving or with the panel's end; a call of a page that had gone opened
  the socket.  Such a join leaves a microphone on that no button reaches.
* `astray` in `CanvasClient`: the browsers whose pane something has led away
  from what is saved, and nothing has brought back since.  What leads a pane astray:
  the end of a shape's gesture, which is not sent (`CanvasPane.tsx:2480` says records are
  redundant there), when its last moves were throttled or something came
  meanwhile; a canvas read before the last frame was saved and sent after it; a
  frame that comes out of the order of the stamps; an offset of points, which is not
  saved; a frame the server refuses; a replay of the browser's own history.  The
  pane is back as soon as it takes a frame that brings what is saved.  Each of these
  is an action the model takes; none is excluded.

One premise is outside of the code.  `NoneAhead` says that no browser's clock is
ahead of the server's: `upsertObject` stamps with the browser's clock, so a pane
ahead refuses updates of others as older, for as long as it is ahead, and no
frame says that it did.  The clocks of the model may be ahead; the properties on panes
speak of behaviours in which none is.

## Runs

| Run | Question | Bounds |
|---|---|---|
| `RoomManager_two_tabs` | do the registry and the presence updates stay right under any interleaving of joins, leaves, closes and purges? | three sockets, two of one user, two rooms: two tabs in two rooms and a bystander are the least at which indexes can diverge between rooms and users |
| `CanvasHistory_any_order` | log and redo, in any order of events; do replicas hold the latest write, in any order of patches? | two users, one object, four events; two replicas, two keys, two times, two actors, three patches: ties in time and in actor, overlapping and disjoint keys |
| `CanvasHistory_in_order` | does a load show the live objects, does an undo restore? | two users, one object, five events, no deletions |
| `CanvasConsumer_faults` | is every event applied once, sent at most once, and in the end? | a worker in each of two processes, three events of one user, each transaction may fail once, one crash or lost connection |
| `CanvasConsumer_one_worker` | does one delivery at a time implement `CanvasHistory`? | four events of one user, failures and a crash |
| `CanvasConsumer_lost_update` (violation) | does the log replay to the stored objects with two workers? | two events |
| `CanvasCompaction_two_runs` | is compaction invisible to replay and load, also when its lock runs out; does a load from a snapshot show what is drawn? | two compactors, one object of one user, three events with one of two optional properties: two draws that collapse and an undo or a deletion between, before or after them |
| `HttpBackend` | membership, sessions, accounts, tasks: what do two requests at a time that check before they write leave in the database? | two requests at a time; three users, two seats and three joins (the owner, his heir and a bystander; a full room); two tabs, one login, three tokens; three verification links; three people, one task, one meeting with a prep task |
| `Parts` | AI jobs, timeline, transcripts, chat, media, canvas pane | two AI jobs, two ingests, one message; two wall clock times of drawings, three segments, windows of two; two panels, one phrase, two dispatches, two retries; two servers, one tab, one message, one fault; two joins of a media room, a mishap and a switch; two browsers, both clocks one behind, all tools, two uses (a gesture, an edit, an undo, a load) with one move each |
| `Links` | clock, broker connection, room page | two processes, two actors; steps, skew and bursts together as large as the drift allows; three stamps, enough to fill the burst of one actor and have another one; up to five connects, one fault of its own, two queues; two rooms, one of them private, two visits, one trouble |
| `CanvasClient_crossing` (violation) | is what all panes show deleted saved as deleted? | two browsers with the server's clock, one object, three uses: made, deleted by one, edited by the other |
| `RoomPage_waiting_guest` (violation) | does a guest who stays on the page come in when the host approves? | two rooms, one of them private, one visit, nothing that goes wrong |

The bounds are small because what can go wrong needs few actors: two requests
between check and write, two calls of `connect`, two joins of a media room.
`MaxConns` is never reached with one fault, so it cuts off no reconnect.  Three
joins let a removed user come back, two seats let a room be full with its owner
and one other.

Deadlock is not checked: sockets close for good, clients stop publishing,
requests end, so every model may end.  Symmetry is used for rooms, replicas, compactors, users,
requests, jobs and panels, and not with liveness.

Bounds of the models are constants, commented as such where they are declared.
Canvas events are numbered in the order of their timestamps; that this loses
nothing rests on `Hlc` (the timestamps one process gives an actor are distinct and ordered) and
`CanvasCRDT` (equal times of two actors are ordered).  Two processes may stamp two
events of one actor alike.  `CanvasConvergence` has such ties, the history and the
consumer have not: an actor's events all come through one process there.

### Fairness

* `EventuallySettled` (consumer): weak fairness of each worker's steps: the
  broker delivers to a free slot, the database answers, and the event loop
  resumes every handler.
* `BrokerServes` (RabbitMQ client): weak fairness of the reconnect timer, of
  each call of `connect` and of the events of each connection, as long as the
  process is not shut down.  A timer fires, an attempt ends, an event is emitted.
* `PageSettles` (room page): weak fairness of frames, answers, timers and polls
  together; nothing makes a user open a page, press a button or approve.

Failures and outages are not fair, and bounded.

### Disagreements found

The violation runs show where the code does not do what it says:

* Two draws of one object in flight together lose one: the object is read
  without a lock.  The log keeps both, so replay and live state part.
* A guest told to stay on the waiting page is let in by the host, sees the
  canvas, and is in no room: his socket, open since before the join was
  refused, gets no second `room:join`.
* A deletion crossed by an edit is undone at the next load: a frame carries
  `{type, props}`, which the consumer merges as two keys, so the later edit's `props`,
  without `deleted`, replace the deletion; panes merge property by property
  and go on showing the object deleted.

Further ones that the models show and no run keeps, a name in parentheses being
the definition that states the opposite:

* Rooms: closing one of two tabs announces the user offline (`OfflineIsTrue`); sockets purged
  by a broadcast are never announced (`NoOrphanedPresence`).
* Consumer: a redo that passed its check applies over a draw that commits
  before it (`NoRedoPastNewerDraw` with two workers); `x-death` is not set by a
  requeue, so an event that always fails is requeued for ever (`RequeueOnce`);
  a crash between commit and broadcast is never made up for (`DrawsAreSent`).
* History: the undo of a creation sets `deleted`, and the redo does not take it
  back (`RedoReapplies`); after the undo of a deletion the log shows the object
  and the stored object does not; after two undos a redo picks the action
  undone first and is refused (`RedoTakesLastUndone`).
* Snapshots: an object drawn on between the triggering event and the read is in
  neither snapshot nor delta (`LoadLosesNothing`).  An undo between the read
  and the rewrite of a compaction is forgotten by the log.
* Clock: two processes may stamp one user's events alike (`TiebreakerResolves`);
  a wall clock that steps back by more than the drift makes timestamps repeat.
* Membership: an administrator may remove or demote the owner; two who remove
  each other leave an empty room that is not archived; an owner who leaves
  beside his heir's removal hands the room to somebody who is no member; a kick
  that crashes half way leaks a seat; an answered join request may be answered
  otherwise, and a repeated join makes an approved one pending.
* Sessions: the page's sign-out does not call the endpoint that deletes the
  session; a reused token is refused, its session is kept.
* Accounts: a resend beside a verification leaves a token on a verified user
  and mails a dead link.  A crash before the acknowledgement mails twice.
* Tasks: an update that puts back somebody who was assigned before, judged by a stale read,
  tells nobody; notifications go to the Redis channel of a room `GLOBAL`, the
  servers listen on `notifications:*`, so no socket gets them; prep tasks and
  invitation of a meeting that makes its own room carry no room.
* AI: a question and a queued message ingest without the lock and may double
  the chunks; a late summary's release frees another's lock, and its result may
  overwrite a newer one.
* Transcripts: storing is not idempotent; two starts at once leave two agents.
* RabbitMQ client: a failed topology leaks its connection; a late event of a
  given-up connection clears the new channel while `isHealthy` says true.
* Chat: a confirm after the timeout sends what the user was told was refused;
  `chat.queue` has no dead letter exchange, so an error of the database drops
  the message; the answer to a history request replaces what the panel shows.
* Room page: a late call of a page that was left takes over the socket; a
  failed refresh in the poll leaves "disconnected"; a kicked user's socket
  stays.
* Media: leaving or unmounting during a join leaves a hot microphone; an old
  room's late `Disconnected` clears the new room from the store.
* Canvas pane: what is on the list of `astray` above, most of it for good; a
  deletion by somebody else during a drag is lost; equal stamps of two users are taken
  in order of arrival here and by user at the server; a clock ahead of the server's hides
  the updates of others.

## Proofs

All theorems hold for every value of the constants that the named assumptions
allow: `TimestampsAssumption`, `HistoryAssumption`, `ConsumerAssumption`,
`CompactionAssumption`, `UserOfAssumption`, `RoomAssumption`,
`SessionAssumption`, `AccountAssumption`, `AiAssumption`, `TimelineAssumption`,
`TranscriptAssumption`, `ChatAssumption`, `MediaAssumption`, `PaneAssumption`,
`BoundsAssumption`, `RabbitAssumption`, `PageAssumption`.  They say what kind of
number a bound is, that markers like `NoRoom` are no members, and that events
have times; TLC evaluates them on the runs.  Four kinds of theorems need more, and state it:

* the theorems on the clock, that clock steps, bursts and (for the consumer)
  the skew of two processes together stay within the drift.  A burst is by how many stamps a
  user is ahead of the clock, which catches up by one each millisecond; how many stamps a
  process makes in its life is not limited;
* `LoadAlwaysShowsLive` and `UndoAlwaysInverts`, `PlainClients`: no deletions
  and no optional properties, and events in the order of their timestamps
  (`InOrderSpec`).  None of the three can be dropped: out of order, with deletions,
  or with optional properties TLC violates either property on four or five events;
* `OneSlotImplementsHistory`, `OneSlot`: one delivery at a time.  With two the
  refinement is false (`CanvasConsumer_lost_update`);
* `ReplayAlwaysKeepsValues` and `CompactionAlwaysInvisible`, `[](expired = {})`: no lock
  runs out under a compactor at work (it may under one whose process has ended).  The
  lock lasts a minute, which a very long log or a slow database may
  outlast; then two compactors rewrite the same rows, and rows that carry the same time
  are possible.  `CanvasCompaction_two_runs` checks both
  properties without it;

### Canvas

* `CanvasStore_proofs`: the algebra of the store.  `MergeIdempotent` and
  `MergeCommutes` for `mergeCRDT`; `MergedIsLatest`, the closed form of the
  fold over log rows: what merging a set of rows in the order of their times
  leaves in an object, `NoObject` or one of a snapshot, is, for each property, what
  the latest of them wrote.  The fold is a recursive function on sets; the theorem takes a least
  counterexample by cardinality, since the library's induction takes
  an operator as its parameter.  `NewestIsMatch` and `TargetsExist` say that the queries find
  what they promise; `DrawKeepsConsistent` and `MarkerKeepsConsistent` that each write
  of a transaction keeps a log whose flags agree with its markers.
* `CanvasHistory_proofs`, any order of events: `ReplayReconstructs`.  The
  inductive part is `Stored`, that every object holds the latest writes of its rows;
  the closed form does the rest.  `NoRedoPastNewerDraw` from `OwnMarkers` (markers
  reference rows of their own user) and `NoRedoPast`, which says of a redo row, at
  its place in the log, what the handler tested.
* `CanvasHistory_proofs`, in order: `LoadShowsLive` and `UndoInverts` from
  `PlainInv`: the log is in the order of the times (`Ordered`); each row says
  what its object was before and what it sets, and an object is deleted only after the
  undo of its creation (`PlainLog`); the draws of a user are undone like a stack,
  so nobody gets back to a draw he passed by (`Stacked`).  A load shows the
  object because its latest row that is not undone writes what the latest row wrote.
* `CanvasHistory_proofs`, replicas: `LatestWriteWins`, `Convergence` and
  `NeverBackwards` of `CanvasConvergence`, for all replicas, keys, values and
  timestamps, equal ones included.  `LatestWriteWins` with the types is inductive.
  Convergence follows: the last timestamp of a key is a function of the set of
  patches, and so is its value unless two patches with that timestamp differ in it.
* `CanvasConsumer_proofs`: `TypeOK`, `ExactlyOnce`, `NoEventLost`,
  `SentAtMostOnce` and `FlagsFollowMarkers` for any number of workers, processes,
  events and faults.  The inductive invariant `IInv` adds to them: an event has at
  most one open transaction (`Exclusive`, which is what the dedup row gives); a
  locked row keeps the flags its update has tested (`Locks`, which is why a marker
  is written for the right state of its row although the target was read earlier);
  the rows of the log have distinct events and so distinct times (`LogInv`, without
  which the newest row is not well defined); no handler is left between commit
  and broadcast of an event that was broadcast (`SentInv`).  One lemma per action.
* `CanvasConsumer_proofs`, refinement: `OneSlotImplementsHistory`.  Beside `IInv`
  the invariant is `Serial`: the event at hand is the oldest that is not
  processed, and what its transaction read is what it would read now.  Then
  the commit is `Handle` of `CanvasHistory`, and every other step, failures, crashes
  and redeliveries included, a stutter.  With the theorems on `InOrderSpec` the
  consumer thus has, for one delivery at a time, the properties of the history; they are not
  restated, as theorems of an instantiated module cannot be cited.
* `CanvasCompaction_proofs`, the lock: `AloneUnderLock` for any number of compactors,
  from the invariant that the lock holds the token of whoever works under it.
* `CanvasCompaction_proofs`, snapshots: `LoadShowsDrawn`, whatever becomes of the locks.
  In `CompactionInv`, `PlansOK` says that a plan, however old, removes rows the
  snapshot covers and adds rows that are as old, so that the rows after the
  snapshot are left alone; `SnapOK` says that these, read over the objects of a
  snapshot that is complete, leave what is drawn (`Reads`, which speaks of the last
  row to set a property and is what the fold computes, `ReadsMerged`); and
  `FlagsOK` that an undone row has an UNDO, which no compaction removes, so that a
  load of an object that was only drawn on filters no row out.
* `CanvasCompaction_proofs`, the log: `ReplayKeepsValues` and `CompactionInvisible`,
  from `SingleOK`: rows have times of their own, although a new row takes the time of
  one it replaces (`Distinct`); and a part of a plan goes on standing for its rows
  from the moment they are read until it is written (`Collapses`): for each property one of
  them is the last to set it, the new row has its value, and no other row sets the
  property between the two times, where events that come in between are later than
  both.  `PlanCollapses` and `PlanDisjoint` derive this from `Segment`
  and `Squashed`, `RewriteReads` concludes that deleting the old rows and adding the new
  ones is not seen.  An undo that marks a row between the read and the write
  does not matter to a replay, which reads undone rows too; it does to a load,
  which is why `CompactionInvisible` speaks of untouched rows.

### The backends

* `RoomManager_proofs`: `TypeOK`, `IndexesAgree`, `RegistryExact`,
  `UnnamedNowhere` and the action property `NoSilentDeparture`.  The four
  invariants are inductive together: the maps agree as soon as each update
  writes all of them at the same pair, and a socket without a user is in none,
  so its close needs no clean-up.  A departure is announced because the rooms in
  which the maps name the user's last socket are exactly those its handler will
  tell.
* `HttpBackend_proofs`, rooms: `CountExact`, the action property `PrivateByApproval`
  and `RoomKeepsPromise`, that is, every behaviour of the membership is one of
  `BoundedRoom` under the mapping `present <- Members`.  The inductive
  invariant `RoomInv` adds to the types and the count: the counter stays within the seats
  (`Seated`, which with `CountExact` bounds the members, for the joins test the
  counter and not the rows); a room that is not open has no members
  (`Vacant`), and before it there are no requests (`Unborn`); a request under
  way is about a user (`Named`); and what is being approved was asked for
  (`Asked`, since a join request is never deleted while its room lives).  A
  refused or ineffective step maps to a stutter, the deletion of the room to
  `Close`.  One lemma per action; the counting rests on the library's
  cardinality facts.
* `HttpBackend_proofs`, sessions: `ExchangedOnce`.  Rows hold different tokens
  (`RowsDiffer`) and a token that was exchanged is in none (`SpentGone`), so the
  update of `Rotate`, which looks its token up again, finds nothing the second
  time.  `CookieFollows`: while the connection is smooth one request is under way at
  a time, with the cookie there is (`Orderly`), and either an answer brings
  the newest session's token or the cookie is it (`Brings`).
* `HttpBackend_proofs`, accounts: `LinkWorks`.  `NeverVanishes` follows a token
  from the request to the queue, the consumer and the mailbox through every
  step, a lost consumer included; `TokenStep` shows that a row of a user who is
  not verified keeps its token or gets one that is about to be published.
* `HttpBackend_proofs`, tasks: `AssigneeKnows`, with `SeenTold`: the assignee a
  request has read was told, so that an update that finds no change has nobody
  to tell.
* `HttpTypes` collects the types of the four.

### Services and browsers

* `Parts_proofs`, AI: `SummariesApart`, since the lock is held while a
  summary ingests (`UnderLock`) as long as none outlived it.
* `Parts_proofs`, time line: `ChunksHold` for all drawings, segments, gaps and
  window lengths: every item is in one chunk, whose relative times keep the order
  of the clock's although they are halved and cut off at `MaxInt` (`RelativeOrder`).
* `Parts_proofs`, transcripts: `CopiesExplained`; every copy is matched by an
  agent that is done with the phrase (`DoneWith`) or an answer that got lost.
* `Parts_proofs`, chat: `ConfirmedKept` for every message the broker took,
  confirmed or not; a consumer acknowledges what is in the database
  (`StoredFirst`), and a second consumer of the same message does no harm.
  `ShownOnce` counts: what a tab was told of a message and the broadcasts of it
  still in the queue, with a server or in Redis are together at most one for the send and one
  for each redelivery (`Counted`).
* `Parts_proofs`, media: `RoomsWithinReach`; calls under way at a time are
  crossed (`Alone`), and who asks for a room meets no connected one but
  crossed ones (`Before`).
* `Links_proofs`, clock: `MonotonicPerProcess`; each last time is bounded by the highest
  wall clock plus the burst of its actor (`Ahead`), so the clamp of
  `generateHLC` never bites.  `ClampKeepsOrder`: then no other process's clamp takes
  anything from a stamp either (`Unclamped`).
* `Links_proofs`, room page: `NothingBeforeAuth`, since the server closes what
  does not start with the authentication and the client queues until it is accepted
  (`SocketInv`).  `PageNotStranded` from `StrandInv`: the socket is the
  shown page's own (`Own`), the acceptance of an open socket is on its way
  (`AuthComes`), and whoever is shown the canvas has something under way that brings him into the
  room, or tells him that it does not (`Attended`).
* `Parts_proofs`, canvas panes: `SavedIsShown` for any number of browsers, gestures,
  uses and moves and any clocks (`NoneAhead` is in the property).  `PaneInv` follows the
  last frame on its way to a pane.  If that frame settles, it brings what is saved
  and nothing before it is dated later (`Newest`), and the pane will not refuse it as
  older (`AtRest`); if not, taking it leads the pane astray.  A pane to which nothing
  is on the way shows what is saved, or has a frame to send, and each frame
  that is sent comes back to its sender.  Three things keep this true: no pane's time is
  past both the server's clock and the stamps (`ClocksInv`), a canvas that is being read counts as
  fresh only while it is what is saved (`ReadsFresh`), and a shape in hand of which
  nothing is unsent and nothing missed is as its last frame says, for its end sends
  nothing (`InHand`).  `WholeInv` and `Untouched` say that nothing has a position before
  the object is made and everything has one afterwards.
* `PartsTypes` and `LinksTypes` collect the types of the components; those of the
  canvas pane need that its stacks and gestures are fed with frames of the right
  form, those of the RabbitMQ client that an attempt is begun only by its
  predecessor's end (`Progress`).

### Only model-checked

* Liveness: `EventuallySettled`, `BrokerServes` and `PageSettles`; the prover has no
  rule for fairness.
* `ReplayKeepsValues` and `CompactionInvisible` when a lock runs out under a compactor
  at work: two new rows may then have the same time.

## Not modelled

* Rendering, layout, geometry, zoom and export of the web client; the
  dashboard's pages, whose state is a form and what was fetched last.
* Passwords, hashing, token formats, validation schemas, rate limits other than the
  one of the refresh (`Limit`), logging, metrics and Docker files.
* Profiles, the search of users, lists and read marks of notifications: single
  statements that relate to nothing else.
* The model provider, speech recognition, LiveKit, RabbitMQ, Redis and
  Postgres, beyond what the code relies on in them.
* The retention of snapshots (it never deletes the latest one), `createDelta`
  and the snapshot strategy, which nothing calls; the incremental load of a
  reconnecting client.
