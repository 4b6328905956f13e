------------------------------- MODULE RoomAi -------------------------------
(***************************************************************************)
(* How the AI service turns the timeline of a room into chunks and the     *)
(* chunks into summaries and answers: services/timeline.service.ts,        *)
(* services/lock.service.ts, controllers/ai.controller.ts and              *)
(* consumers/ingest.consumer.ts, reached through routes/ai.routes.ts of    *)
(* the HTTP backend.                                                       *)
(*                                                                         *)
(* An ingestion reads the timeline, has every chunk embedded by a remote   *)
(* model, and replaces the rows of the room in one transaction.  Three     *)
(* kinds of job ingest: a summary, under a lock in memory that runs out; a *)
(* question that finds no chunks; a message of the queue ai:ingest.  The   *)
(* chunks of one ingestion are one element, named by its number; the text  *)
(* of chunks, answers and summaries is left out.                           *)
(***************************************************************************)
EXTENDS Integers, FiniteSets

CONSTANTS Jobs,    \* requests and the consumer
          MaxRows,   \* bound: timeline rows per source
          MaxRuns,   \* bound: ingestions
          MaxQueued  \* bound: messages of the queue

ASSUME AiAssumption == MaxRows \in Nat /\ MaxRuns \in Nat /\ MaxQueued \in Nat

VARIABLES
  rows,      \* rows of the timeline: drawn and written, spoken
  chunks,    \* the ingestions whose chunks the room shows
  summary,   \* the chunks the stored summary was made from, {} without one
  lock,      \* the entry of the room in the lock map: none, held, or past its time
  queue,     \* messages that wait
  job,       \* what each request, or the consumer, is doing
  runs,      \* ingestions so far
  lateLock   \* a summary outlived its lock

aiVars == <<rows, chunks, summary, lock, queue, job, runs, lateLock>>

Resting == [kind |-> "none", at |-> "rest", speech |-> FALSE, old |-> {}]

AiTypeOK ==
  /\ rows \in [made : 0..MaxRows, said : 0..MaxRows]
  /\ chunks \subseteq 1..MaxRuns /\ summary \subseteq 1..MaxRuns
  /\ lock \in {"none", "held", "over"}
  /\ queue \in 0..MaxQueued
  /\ job \in [Jobs -> [kind : {"none", "summary", "query", "message"},
                       at : {"rest", "fetch", "embed", "delete", "insert", "read", "store"},
                       speech : BOOLEAN, old : SUBSET (1..MaxRuns)]]
  /\ runs \in 0..MaxRuns
  /\ lateLock \in BOOLEAN

AiInit ==
  /\ rows = [made |-> 0, said |-> 0]
  /\ chunks = {} /\ summary = {}
  /\ lock = "none"
  /\ queue = 0
  /\ job = [j \in Jobs |-> Resting]
  /\ runs = 0
  /\ lateLock = FALSE

\* The room goes on: drawings, messages, transcript segments.
Happen ==
  /\ \/ rows.made < MaxRows /\ rows' = [rows EXCEPT !.made = @ + 1]
     \/ rows.said < MaxRows /\ rows' = [rows EXCEPT !.said = @ + 1]
  /\ UNCHANGED <<chunks, summary, lock, queue, job, runs, lateLock>>

Goto(j, at) == job' = [job EXCEPT ![j].at = at]

-----------------------------------------------------------------------------
(* Who asks.                                                               *)

Start(j, kind, at) ==
  /\ job[j] = Resting
  /\ \E speech \in BOOLEAN :
       job' = [job EXCEPT ![j] = [Resting EXCEPT !.kind = kind, !.at = at, !.speech = speech]]

Consuming == {j \in Jobs : job[j].kind = "message"}

\* A member asks for an ingestion: it is queued, and answered at once.
Ingest ==
  /\ queue + Cardinality(Consuming) < MaxQueued
  /\ queue' = queue + 1
  /\ UNCHANGED <<rows, chunks, summary, lock, job, runs, lateLock>>

\* The consumer takes one message at a time.
Consume(j) ==
  /\ queue > 0 /\ Consuming = {}
  /\ queue' = queue - 1
  /\ Start(j, "message", "fetch")
  /\ UNCHANGED <<rows, chunks, summary, lock, runs, lateLock>>

Query(j) ==
  /\ Start(j, "query", IF chunks = {} THEN "fetch" ELSE "read")
  /\ UNCHANGED <<rows, chunks, summary, lock, queue, runs, lateLock>>

\* Mutant of Summarize: the lock is taken from who holds it.
SummarizeAnyway(j) ==
  /\ Start(j, "summary", "fetch")
  /\ lock' = "held"
  /\ UNCHANGED <<rows, chunks, summary, queue, runs, lateLock>>

\* Without refresh a stored summary is the answer, and nothing happens.  The lock is taken
\* if there is none or its time is over; who does not get it goes on with the chunks there
\* are.
Summarize(j) ==
  LET free == lock # "held"
  IN /\ Start(j, "summary", IF free THEN "fetch" ELSE "read")
     /\ lock' = "held"
     /\ UNCHANGED <<rows, chunks, summary, queue, runs, lateLock>>

\* Thirty seconds are over, the job that took the lock is not.
LockRunsOut ==
  /\ lock = "held"
  /\ lock' = "over"
  /\ lateLock' = TRUE
  /\ UNCHANGED <<rows, chunks, summary, queue, job, runs>>

\* Once a minute the locks whose time is over are taken out.
Cleanup ==
  /\ lock = "over"
  /\ lock' = "none"
  /\ UNCHANGED <<rows, chunks, summary, queue, job, runs, lateLock>>

-----------------------------------------------------------------------------
(* ingestRoom.                                                             *)

\* The lock is deleted whoever holds it by now.
Release(j) == lock' = IF job[j].kind = "summary" THEN "none" ELSE lock

\* The ingestion is done: a message is acknowledged, the others read the chunks.
Ingested(j) ==
  /\ job' = [job EXCEPT ![j] =
               IF @.kind = "message" THEN Resting
               ELSE [Resting EXCEPT !.kind = job[j].kind, !.at = "read"]]
  /\ Release(j)

\* What the ingestion sees of the timeline: without the transcript if so asked.
Found(j) == rows.made + (IF job[j].speech THEN rows.said ELSE 0)

\* An empty timeline leaves no chunks.
FetchTimeline(j) ==
  /\ job[j].at = "fetch"
  /\ IF Found(j) = 0
       THEN chunks' = {} /\ Ingested(j)
       ELSE job' = [job EXCEPT ![j].at = "embed", ![j].speech = FALSE] /\ UNCHANGED <<chunks, lock>>
  /\ UNCHANGED <<rows, summary, queue, runs, lateLock>>

EmbedChunks(j) ==
  /\ job[j].at = "embed"
  /\ Goto(j, "delete")
  /\ UNCHANGED <<rows, chunks, summary, lock, queue, runs, lateLock>>

\* The first statement of the transaction deletes the rows that are committed when it
\* runs; nobody sees that before the commit.
DeleteChunks(j) ==
  /\ job[j].at = "delete"
  /\ job' = [job EXCEPT ![j].at = "insert", ![j].old = chunks]
  /\ UNCHANGED <<rows, chunks, summary, lock, queue, runs, lateLock>>

InsertChunks(j) ==
  /\ job[j].at = "insert" /\ runs < MaxRuns
  /\ runs' = runs + 1
  /\ chunks' = (chunks \ job[j].old) \cup {runs'}
  /\ Ingested(j)
  /\ UNCHANGED <<rows, summary, queue, lateLock>>

\* No embedding model works, a vector is not finite, the database is gone: the
\* transaction is rolled back.  A message comes back if the error may pass, and is
\* dropped otherwise; a request is answered with an error.
IngestFails(j) ==
  /\ job[j].at \in {"fetch", "embed", "delete", "insert"}
  /\ queue' \in IF job[j].kind = "message" THEN {queue, queue + 1} ELSE {queue}
  /\ Release(j)
  /\ job' = [job EXCEPT ![j] = Resting]
  /\ UNCHANGED <<rows, chunks, summary, runs, lateLock>>

-----------------------------------------------------------------------------
(* What is made of the chunks.                                             *)

\* The chunks are read, and a model, the local model or, for a summary, a list of
\* excerpts says something about them.
Generate(j) ==
  /\ job[j].at = "read"
  /\ job' = [job EXCEPT ![j] = IF @.kind = "query" THEN Resting
                               ELSE [@ EXCEPT !.at = "store", !.old = chunks]]
  /\ UNCHANGED <<rows, chunks, summary, lock, queue, runs, lateLock>>

\* The summary is stored, and mailed to the members.
StoreSummary(j) ==
  /\ job[j].at = "store"
  /\ summary' = job[j].old
  /\ job' = [job EXCEPT ![j] = Resting]
  /\ UNCHANGED <<rows, chunks, lock, queue, runs, lateLock>>

\* The process ends: the lock map is empty, an unacknowledged message comes back.
AiCrash ==
  /\ \E j \in Jobs : job[j] # Resting
  /\ queue' = queue + Cardinality(Consuming)
  /\ lock' = "none"
  /\ job' = [j \in Jobs |-> Resting]
  /\ UNCHANGED <<rows, chunks, summary, runs, lateLock>>

AiNext ==
  \/ Happen \/ Ingest \/ LockRunsOut \/ Cleanup \/ AiCrash
  \/ \E j \in Jobs :
       \/ Consume(j) \/ Query(j) \/ Summarize(j)
       \/ FetchTimeline(j) \/ EmbedChunks(j) \/ DeleteChunks(j) \/ InsertChunks(j)
       \/ IngestFails(j) \/ Generate(j) \/ StoreSummary(j)

AiSpec == AiInit /\ [][AiNext]_aiVars

-----------------------------------------------------------------------------

Ingesting(j) == job[j].at \in {"fetch", "embed", "delete", "insert"}

\* Two summaries ingest at a time only when one of them outlived its lock.
SummariesApart ==
  ~lateLock =>
    Cardinality({j \in Jobs : job[j].kind = "summary" /\ Ingesting(j)}) <= 1

=============================================================================
