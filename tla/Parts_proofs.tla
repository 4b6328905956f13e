---------------------------- MODULE Parts_proofs ----------------------------
(***************************************************************************)
(* What holds of the queues, agents and panels of the services for every   *)
(* number of servers, messages, agents, tabs and calls.  The components    *)
(* share no state, and each is proved about under its own specification;   *)
(* the types, in the last section, under the model that runs any of them.  *)
(*                                                                         *)
(* Summaries: while one ingests, the lock is held.  Time line: what is     *)
(* before the cursor is in one chunk.  Chat: a message goes from the queue *)
(* to its holder to the database; and each broadcast of it is in one place *)
(* at a time on its way to a tab.  Transcripts: an agent is done with a    *)
(* phrase when it stored it.  Media: whoever joins crosses what is under   *)
(* way.  Canvas pane: a drag's pointer stays where offsets are positive,   *)
(* and the last group of an undo stack has an entry; and the last frame on *)
(* its way to a pane brings what is saved or leads the pane astray, until  *)
(* what it shows is what is saved.                                         *)
(***************************************************************************)
EXTENDS MCParts, FiniteSetTheorems, WellFoundedInduction, TLAPS

-----------------------------------------------------------------------------
(* Summaries: whoever ingests under a lock that has not run out is alone.  *)

Summing(j) == job[j].kind = "summary" /\ Ingesting(j)

\* The lock is held as long as a summary ingests, and by one only.
UnderLock ==
  ~lateLock =>
    /\ lock # "over"
    /\ \A j \in Jobs : Summing(j) => lock = "held"
    /\ \A i, j \in Jobs : Summing(i) /\ Summing(j) => i = j

JobsTyped ==
  job \in [Jobs -> [kind : {"none", "summary", "query", "message"},
                    at : {"rest", "fetch", "embed", "delete", "insert", "read", "store"},
                    speech : BOOLEAN, old : SUBSET Int]]

\* The ingestions are numbers.
ChunksTyped == chunks \subseteq Int /\ runs \in Int

AiInv == JobsTyped /\ ChunksTyped /\ UnderLock

LEMMA AiInitInv == AiInit => AiInv
  BY DEF AiInit, AiInv, JobsTyped, ChunksTyped, UnderLock, Summing, Ingesting, Resting

\* A step that takes the ingestion of j no further than to its end.
LEMMA StillUnderLock ==
  ASSUME UnderLock, NEW j \in Jobs, \A i \in Jobs \ {j} : job'[i] = job[i],
         Summing(j)' => Summing(j),
         \/ UNCHANGED lock
         \/ Summing(j) /\ ~Summing(j)' /\ lock' = "none",
         UNCHANGED lateLock
  PROVE  UnderLock'
<1>1. ASSUME NEW i \in Jobs, Summing(i)' PROVE Summing(i)
  BY <1>1 DEF Summing, Ingesting
<1>2. ASSUME NEW i \in Jobs, Summing(i)', ~lateLock PROVE lock' = "held"
  BY <1>1, <1>2 DEF UnderLock
<1> QED
  BY <1>1, <1>2 DEF UnderLock

LEMMA StartTyped ==
  ASSUME JobsTyped, NEW j \in Jobs, NEW k \in {"summary", "query", "message"},
         NEW at \in {"fetch", "read"}, Start(j, k, at)
  PROVE  /\ JobsTyped'
         /\ job'[j].kind = k /\ job'[j].at = at
         /\ \A i \in Jobs \ {j} : job'[i] = job[i]
<1>1. PICK speech \in BOOLEAN :
        job' = [job EXCEPT ![j] = [kind |-> k, at |-> at, speech |-> speech, old |-> {}]]
  BY DEF Start, Resting
<1> QED
  BY <1>1 DEF JobsTyped

LEMMA ChunksStep == ChunksTyped /\ [AiNext]_aiVars => ChunksTyped'
<1> SUFFICES ASSUME ChunksTyped, [AiNext]_aiVars PROVE ChunksTyped'
  OBVIOUS
<1>1. ASSUME NEW j \in Jobs, FetchTimeline(j) PROVE chunks' \in {{}, chunks} /\ runs' = runs
  BY <1>1 DEF FetchTimeline
<1>2. ASSUME NEW j \in Jobs, InsertChunks(j) PROVE ChunksTyped'
  <2>1. runs' = runs + 1 /\ chunks' = (chunks \ job[j].old) \cup {runs'}
    BY <1>2 DEF InsertChunks
  <2>2. runs' \in Int
    BY <2>1 DEF ChunksTyped
  <2> QED
    BY <2>1, <2>2 DEF ChunksTyped
<1>3. CASE UNCHANGED <<chunks, runs>>
  BY <1>3 DEF ChunksTyped
<1>4. ASSUME NEW j \in Jobs,
             \/ Consume(j) \/ Query(j) \/ Summarize(j) \/ EmbedChunks(j) \/ DeleteChunks(j)
             \/ IngestFails(j) \/ Generate(j) \/ StoreSummary(j)
      PROVE  UNCHANGED <<chunks, runs>>
  BY <1>4 DEF Consume, Query, Summarize, EmbedChunks, DeleteChunks, IngestFails, Generate,
              StoreSummary
<1>5. CASE Happen \/ Ingest \/ LockRunsOut \/ Cleanup \/ AiCrash \/ UNCHANGED aiVars
  BY <1>3, <1>5 DEF Happen, Ingest, LockRunsOut, Cleanup, AiCrash, aiVars
<1> QED
  BY <1>1, <1>2, <1>3, <1>4, <1>5 DEF AiNext, ChunksTyped

LEMMA AiStep == AiInv /\ [AiNext]_aiVars => AiInv'
<1> SUFFICES ASSUME AiInv, [AiNext]_aiVars PROVE AiInv'
  OBVIOUS
<1>0. JobsTyped /\ ChunksTyped /\ UnderLock /\ ChunksTyped'
  BY ChunksStep DEF AiInv
<1>1. ASSUME UNCHANGED <<job, lock, lateLock>> PROVE AiInv'
  BY <1>0, <1>1 DEF AiInv, JobsTyped, UnderLock, Summing, Ingesting
<1>2. ASSUME NEW j \in Jobs, Consume(j) \/ Query(j) PROVE AiInv'
  <2>1. /\ JobsTyped' /\ job'[j].kind # "summary" /\ UNCHANGED <<lock, lateLock>>
        /\ \A i \in Jobs \ {j} : job'[i] = job[i]
    BY <1>0, <1>2, StartTyped DEF Consume, Query
  <2> QED
    BY <1>0, <2>1, StillUnderLock DEF AiInv, Summing
<1>3. ASSUME NEW j \in Jobs, Summarize(j) PROVE AiInv'
  <2>1. CASE lock = "held"
    <3>1. /\ JobsTyped' /\ job'[j].at = "read" /\ UNCHANGED <<lock, lateLock>>
          /\ \A i \in Jobs \ {j} : job'[i] = job[i]
      BY <1>0, <1>3, <2>1, StartTyped DEF Summarize
    <3> QED
      BY <1>0, <3>1, StillUnderLock DEF AiInv, Summing, Ingesting
  <2>2. CASE lock # "held"
    <3>1. /\ JobsTyped' /\ lock' = "held" /\ UNCHANGED lateLock
          /\ \A i \in Jobs \ {j} : job'[i] = job[i]
      BY <1>0, <1>3, <2>2, StartTyped DEF Summarize
    <3>2. ASSUME ~lateLock, NEW i \in Jobs, Summing(i)' PROVE i = j
      BY <1>0, <2>2, <3>1, <3>2 DEF UnderLock, Summing, Ingesting
    <3> QED
      BY <1>0, <3>1, <3>2 DEF AiInv, UnderLock
  <2> QED
    BY <2>1, <2>2
<1>4. CASE LockRunsOut
  BY <1>0, <1>4 DEF LockRunsOut, AiInv, JobsTyped, UnderLock
<1>5. CASE Cleanup
  BY <1>0, <1>5 DEF Cleanup, AiInv, JobsTyped, UnderLock
<1>6. CASE AiCrash
  BY <1>0, <1>6 DEF AiCrash, AiInv, JobsTyped, UnderLock, Summing, Ingesting, Resting
<1>7. ASSUME NEW j \in Jobs, job[j].at \in {"fetch", "insert"}, Ingested(j), UNCHANGED lateLock
      PROVE  AiInv'
  <2>1. /\ JobsTyped' /\ job'[j].at \in {"rest", "read"}
        /\ \A i \in Jobs \ {j} : job'[i] = job[i]
    BY <1>0, <1>7 DEF Ingested, JobsTyped, Resting
  <2>2. \/ UNCHANGED lock
        \/ Summing(j) /\ lock' = "none"
    BY <1>7 DEF Ingested, Release, Summing, Ingesting
  <2>3. ~Summing(j)'
    BY <2>1 DEF Summing, Ingesting
  <2> QED
    BY <1>0, <1>7, <2>1, <2>2, <2>3, StillUnderLock DEF AiInv
<1>8. ASSUME NEW j \in Jobs, NEW at \in {"embed", "delete", "insert"}, Ingesting(j),
             JobsTyped', job'[j].at = at, job'[j].kind = job[j].kind,
             \A i \in Jobs \ {j} : job'[i] = job[i], UNCHANGED <<lock, lateLock>>
      PROVE  AiInv'
  BY <1>0, <1>8, StillUnderLock DEF AiInv, Summing
<1>9. ASSUME NEW j \in Jobs, FetchTimeline(j) PROVE AiInv'
  <2>1. CASE Found(j) = 0
    BY <1>7, <1>9, <2>1 DEF FetchTimeline
  <2>2. CASE Found(j) # 0
    <3>1. /\ job' = [job EXCEPT ![j].at = "embed", ![j].speech = FALSE]
          /\ job[j].at = "fetch" /\ UNCHANGED <<lock, lateLock>>
      BY <1>9, <2>2 DEF FetchTimeline
    <3>2. /\ JobsTyped' /\ job'[j].at = "embed" /\ job'[j].kind = job[j].kind
          /\ \A i \in Jobs \ {j} : job'[i] = job[i]
      BY <1>0, <3>1 DEF JobsTyped
    <3> QED
      BY <1>8, <3>1, <3>2 DEF Ingesting
  <2> QED
    BY <2>1, <2>2
<1>10. ASSUME NEW j \in Jobs, EmbedChunks(j) PROVE AiInv'
  <2>1. /\ JobsTyped' /\ job'[j].at = "delete" /\ job'[j].kind = job[j].kind
        /\ \A i \in Jobs \ {j} : job'[i] = job[i]
    BY <1>0, <1>10 DEF EmbedChunks, Goto, JobsTyped
  <2> QED
    BY <1>8, <1>10, <2>1 DEF EmbedChunks, Ingesting
<1>12. ASSUME NEW j \in Jobs, InsertChunks(j) PROVE AiInv'
  BY <1>7, <1>12 DEF InsertChunks
<1>13. ASSUME NEW j \in Jobs, IngestFails(j) PROVE AiInv'
  <2>1. /\ JobsTyped' /\ job'[j].at = "rest"
        /\ \A i \in Jobs \ {j} : job'[i] = job[i] /\ UNCHANGED lateLock
    BY <1>0, <1>13 DEF IngestFails, JobsTyped, Resting
  <2>2. \/ UNCHANGED lock
        \/ Summing(j) /\ lock' = "none"
    BY <1>13 DEF IngestFails, Release, Summing, Ingesting
  <2>3. ~Summing(j)'
    BY <2>1 DEF Summing, Ingesting
  <2> QED
    BY <1>0, <1>13, <2>1, <2>2, <2>3, StillUnderLock DEF AiInv, IngestFails
<1>14. ASSUME NEW j \in Jobs, DeleteChunks(j) PROVE AiInv'
  <2>1. /\ job' = [job EXCEPT ![j].at = "insert", ![j].old = chunks]
        /\ job[j].at = "delete" /\ UNCHANGED <<lock, lateLock>>
    BY <1>14 DEF DeleteChunks
  <2>2. /\ JobsTyped' /\ job'[j].at = "insert" /\ job'[j].kind = job[j].kind
        /\ \A i \in Jobs \ {j} : job'[i] = job[i]
    BY <1>0, <2>1 DEF JobsTyped, ChunksTyped
  <2> QED
    BY <1>8, <2>1, <2>2 DEF Ingesting
<1>15. ASSUME NEW j \in Jobs, Generate(j) \/ StoreSummary(j) PROVE AiInv'
  <2>1. /\ JobsTyped' /\ job'[j].at \in {"rest", "store"} /\ UNCHANGED <<lock, lateLock>>
        /\ \A i \in Jobs \ {j} : job'[i] = job[i]
    <3>1. CASE job' = [job EXCEPT ![j] = Resting]
      BY <1>0, <1>15, <3>1 DEF Generate, StoreSummary, JobsTyped, Resting
    <3>2. CASE job' = [job EXCEPT ![j].at = "store", ![j].old = chunks]
      BY <1>0, <1>15, <3>2 DEF Generate, StoreSummary, JobsTyped, ChunksTyped
    <3> QED
      BY <1>15, <3>1, <3>2 DEF Generate, StoreSummary
  <2> QED
    BY <1>0, <2>1, StillUnderLock DEF AiInv, Summing, Ingesting
<1>16. CASE Happen \/ Ingest \/ UNCHANGED aiVars
  BY <1>1, <1>16 DEF Happen, Ingest, aiVars
<1> QED
  BY <1>2, <1>3, <1>4, <1>5, <1>6, <1>9, <1>10, <1>12, <1>13, <1>14, <1>15, <1>16 DEF AiNext

\* For any number of jobs: two summaries ingest at a time only when one of them outlived
\* its lock.
THEOREM SummariesAlwaysApart == AiSpec => []SummariesApart
<1>1. AiSpec => []AiInv
  BY AiInitInv, AiStep, PTL DEF AiSpec
<1>2. AiInv => SummariesApart
  <2> DEFINE S == {j \in Jobs : Summing(j)}
  <2>1. SummariesApart <=> (~lateLock => Cardinality(S) <= 1)
    <3>1. S = {j \in Jobs : job[j].kind = "summary" /\ Ingesting(j)}
      BY DEF Summing
    <3> HIDE DEF S
    <3> QED
      BY <3>1 DEF SummariesApart
  <2>2. CASE S = {}
    BY <2>1, <2>2, FS_EmptySet
  <2>3. ASSUME AiInv, ~lateLock, NEW i \in S PROVE Cardinality(S) <= 1
    <3>1. S = {i}
      BY <2>3 DEF AiInv, UnderLock
    <3>2. Cardinality({i}) = 1
      BY FS_Singleton
    <3> QED
      BY <3>1, <3>2
  <2> HIDE DEF S
  <2> QED
    BY <2>1, <2>2, <2>3
<1> QED
  BY <1>1, <1>2, PTL

-----------------------------------------------------------------------------
(* Summaries: the types.                                                   *)

JobStates ==
  [kind : {"none", "summary", "query", "message"},
   at : {"rest", "fetch", "embed", "delete", "insert", "read", "store"},
   speech : BOOLEAN, old : SUBSET (1..MaxRuns)]

\* One message is being handled at most, and it has a place in the queue to go back to.
OneMessage ==
  \/ Consuming = {} /\ queue <= MaxQueued
  \/ queue + 1 <= MaxQueued /\ \E j \in Jobs : Consuming = {j}

AiTyped == AiTypeOK /\ OneMessage

LEMMA JobFields ==
  ASSUME NEW r \in JobStates
  PROVE  /\ \A a \in {"rest", "fetch", "embed", "delete", "insert", "read", "store"} :
              [r EXCEPT !.at = a] \in JobStates
         /\ \A a \in {"rest", "fetch", "embed", "delete", "insert", "read", "store"} :
              [r EXCEPT !.at = a, !.speech = FALSE] \in JobStates
         /\ \A a \in {"rest", "fetch", "embed", "delete", "insert", "read", "store"},
               o \in SUBSET (1..MaxRuns) :
              [r EXCEPT !.at = a, !.old = o] \in JobStates
         /\ Resting \in JobStates
         /\ [Resting EXCEPT !.kind = r.kind, !.at = "read"] \in JobStates
  BY DEF JobStates, Resting

\* One job goes on, about the same thing or another.
LEMMA JobGoesOn ==
  ASSUME AiTypeOK, NEW j \in Jobs, NEW x \in JobStates, job' = [job EXCEPT ![j] = x]
  PROVE  /\ job' \in [Jobs -> JobStates]
         /\ Consuming' = IF x.kind = "message" THEN Consuming \cup {j} ELSE Consuming \ {j}
<1>1. /\ job \in [Jobs -> JobStates]
      /\ \A i \in Jobs : job'[i] = IF i = j THEN x ELSE job[i]
  BY DEF AiTypeOK, JobStates
<1> QED
  BY <1>1 DEF Consuming

LEMMA SameConsuming ==
  ASSUME AiTyped, NEW j \in Jobs, NEW x \in JobStates, job' = [job EXCEPT ![j] = x],
         UNCHANGED queue, x.kind = job[j].kind \/ x.kind # "message"
  PROVE  job' \in [Jobs -> JobStates] /\ OneMessage' /\ queue' \in 0..MaxQueued
<1>1. /\ job' \in [Jobs -> JobStates]
      /\ Consuming' = IF x.kind = "message" THEN Consuming \cup {j} ELSE Consuming \ {j}
  BY JobGoesOn DEF AiTyped
<1>2. Consuming' = Consuming \/ Consuming' = Consuming \ {j}
  BY <1>1 DEF Consuming
<1>3. ASSUME Consuming = {} PROVE OneMessage'
  BY <1>2, <1>3 DEF AiTyped, OneMessage
<1>4. ASSUME \E i \in Jobs : Consuming = {i} PROVE OneMessage'
  <2>1. PICK i \in Jobs : Consuming = {i}
    BY <1>4
  <2>2. queue \in Nat /\ queue + 1 <= MaxQueued /\ MaxQueued \in Nat
    BY <2>1, AiAssumption DEF AiTyped, OneMessage, AiTypeOK
  <2>3. Consuming' = {i} \/ Consuming' = {}
    BY <1>2, <2>1
  <2> QED
    BY <2>2, <2>3 DEF OneMessage
<1>5. queue' \in 0..MaxQueued
  BY DEF AiTyped, AiTypeOK
<1> QED
  BY <1>1, <1>3, <1>4, <1>5 DEF AiTyped, OneMessage

\* The rest of what a step may change.
ShelfTyped ==
  /\ rows \in [made : 0..MaxRows, said : 0..MaxRows]
  /\ chunks \subseteq 1..MaxRuns /\ summary \subseteq 1..MaxRuns
  /\ lock \in {"none", "held", "over"}
  /\ runs \in 0..MaxRuns /\ lateLock \in BOOLEAN

LEMMA AiTypeParts ==
  AiTypeOK <=> ShelfTyped /\ queue \in 0..MaxQueued /\ job \in [Jobs -> JobStates]
  BY DEF AiTypeOK, ShelfTyped, JobStates

LEMMA AiInitTyped == AiInit => AiTyped
<1> SUFFICES ASSUME AiInit PROVE AiTyped
  OBVIOUS
<1>1. Resting \in JobStates /\ Resting.kind = "none"
  BY DEF JobStates, Resting
<1>2. job \in [Jobs -> JobStates] /\ Consuming = {}
  BY <1>1 DEF AiInit, Consuming
<1>3. rows \in [made : 0..MaxRows, said : 0..MaxRows]
  BY AiAssumption DEF AiInit
<1>4. ShelfTyped /\ queue \in 0..MaxQueued
  <2>1. lateLock \in BOOLEAN
    BY DEF AiInit
  <2>2. /\ chunks \subseteq 1..MaxRuns /\ summary \subseteq 1..MaxRuns
        /\ lock \in {"none", "held", "over"} /\ runs \in 0..MaxRuns /\ queue \in 0..MaxQueued
    BY AiAssumption DEF AiInit
  <2> QED
    BY <1>3, <2>1, <2>2 DEF ShelfTyped
<1> QED
  BY <1>2, <1>4, AiTypeParts, AiAssumption DEF AiInit, AiTyped, OneMessage

LEMMA ShelfStep == AiTyped /\ [AiNext]_aiVars => ShelfTyped'
<1> SUFFICES ASSUME AiTyped, [AiNext]_aiVars PROVE ShelfTyped'
  OBVIOUS
<1>0. ShelfTyped /\ \A j \in Jobs : job[j] \in JobStates
  BY AiTypeParts DEF AiTyped
<1>1. CASE Happen
  <2>1. /\ rows.made \in 0..MaxRows /\ rows.said \in 0..MaxRows
        /\ \/ rows.made < MaxRows /\ rows' = [rows EXCEPT !.made = @ + 1]
           \/ rows.said < MaxRows /\ rows' = [rows EXCEPT !.said = @ + 1]
        /\ UNCHANGED <<chunks, summary, lock, runs, lateLock>>
    BY <1>0, <1>1 DEF Happen, ShelfTyped
  <2>2. rows' \in [made : 0..MaxRows, said : 0..MaxRows]
    BY <1>0, <2>1, AiAssumption DEF ShelfTyped
  <2> QED
    BY <1>0, <2>1, <2>2 DEF ShelfTyped
<1>2. CASE Ingest \/ LockRunsOut \/ Cleanup \/ AiCrash \/ UNCHANGED aiVars
  BY <1>0, <1>2 DEF Ingest, LockRunsOut, Cleanup, AiCrash, aiVars, ShelfTyped
<1>3. ASSUME NEW j \in Jobs,
             Consume(j) \/ Query(j) \/ Summarize(j) \/ EmbedChunks(j) \/ DeleteChunks(j)
             \/ Generate(j)
      PROVE  ShelfTyped'
  BY <1>0, <1>3 DEF Consume, Query, Summarize, EmbedChunks, DeleteChunks, Generate, ShelfTyped
<1>4. ASSUME NEW j \in Jobs, FetchTimeline(j) \/ IngestFails(j) PROVE ShelfTyped'
  <2>1. UNCHANGED <<rows, summary, runs, lateLock>> /\ (UNCHANGED chunks \/ chunks' = {})
        /\ lock' \in {lock, "none"}
    BY <1>4 DEF FetchTimeline, IngestFails, Ingested, Release
  <2> QED
    BY <1>0, <2>1 DEF ShelfTyped
<1>5. ASSUME NEW j \in Jobs, InsertChunks(j) PROVE ShelfTyped'
  <2>1. /\ UNCHANGED <<rows, summary, lateLock>> /\ runs < MaxRuns /\ runs' = runs + 1
        /\ chunks' \subseteq chunks \cup {runs'} /\ lock' \in {lock, "none"}
    BY <1>5 DEF InsertChunks, Ingested, Release
  <2>2. runs' \in 1..MaxRuns
    BY <1>0, <2>1, AiAssumption DEF ShelfTyped
  <2> QED
    BY <1>0, <2>1, <2>2 DEF ShelfTyped
<1>6. ASSUME NEW j \in Jobs, StoreSummary(j) PROVE ShelfTyped'
  <2>1. job[j].old \in SUBSET (1..MaxRuns)
    BY <1>0 DEF JobStates
  <2> QED
    BY <1>0, <1>6, <2>1 DEF StoreSummary, ShelfTyped
<1> QED
  BY <1>1, <1>2, <1>3, <1>4, <1>5, <1>6 DEF AiNext

LEMMA AiTypedStep == AiTyped /\ [AiNext]_aiVars => AiTyped'
<1> SUFFICES ASSUME AiTyped, [AiNext]_aiVars PROVE AiTyped'
  OBVIOUS
<1>0. /\ \A j \in Jobs : job[j] \in JobStates
      /\ job \in [Jobs -> JobStates] /\ queue \in 0..MaxQueued /\ OneMessage
      /\ chunks \in SUBSET (1..MaxRuns) /\ AiTypeOK
  BY AiTypeParts DEF AiTyped, ShelfTyped
<1> DEFINE Fine == job' \in [Jobs -> JobStates] /\ OneMessage' /\ queue' \in 0..MaxQueued
<1>1. ASSUME Happen \/ LockRunsOut \/ Cleanup \/ UNCHANGED aiVars PROVE Fine
  <2>1. UNCHANGED <<job, queue>>
    BY <1>1 DEF Happen, LockRunsOut, Cleanup, aiVars
  <2>2. Consuming' = Consuming
    BY <2>1 DEF Consuming
  <2> QED
    BY <1>0, <2>1, <2>2 DEF OneMessage
<1>2. ASSUME Ingest PROVE Fine
  <2>1. UNCHANGED job /\ queue + Cardinality(Consuming) < MaxQueued /\ queue' = queue + 1
    BY <1>2 DEF Ingest
  <2>2. Consuming' = Consuming
    BY <2>1 DEF Consuming
  <2>3. CASE Consuming = {}
    <3>1. Cardinality(Consuming) = 0
      BY <2>3, FS_EmptySet
    <3>2. queue' \in 0..MaxQueued /\ queue' <= MaxQueued
      BY <1>0, <2>1, <3>1, AiAssumption
    <3> QED
      BY <1>0, <2>1, <2>2, <2>3, <3>2 DEF OneMessage
  <2>4. ASSUME NEW j \in Jobs, Consuming = {j} PROVE Fine
    <3>1. Cardinality(Consuming) = 1
      BY <2>4, FS_Singleton
    <3>2. queue' \in 0..MaxQueued /\ queue' + 1 <= MaxQueued
      BY <1>0, <2>1, <3>1, AiAssumption
    <3> QED
      BY <1>0, <2>1, <2>2, <2>4, <3>2 DEF OneMessage
  <2> QED
    BY <1>0, <2>3, <2>4 DEF OneMessage
<1>3. ASSUME AiCrash PROVE Fine
  <2>1. queue' = queue + Cardinality(Consuming) /\ job' = [j \in Jobs |-> Resting]
    BY <1>3 DEF AiCrash
  <2>2. Resting \in JobStates /\ Resting.kind = "none"
    BY DEF JobStates, Resting
  <2>3. job' \in [Jobs -> JobStates] /\ Consuming' = {}
    BY <2>1, <2>2 DEF Consuming
  <2>4. queue' \in 0..MaxQueued
    <3>1. CASE Consuming = {}
      <4>1. Cardinality(Consuming) = 0
        BY <3>1, FS_EmptySet
      <4> QED
        BY <1>0, <2>1, <4>1
    <3>2. CASE queue + 1 <= MaxQueued /\ \E j \in Jobs : Consuming = {j}
      <4>1. Cardinality(Consuming) = 1
        BY <3>2, FS_Singleton
      <4> QED
        BY <1>0, <2>1, <3>2, <4>1, AiAssumption
    <3> QED
      BY <1>0, <3>1, <3>2 DEF OneMessage
  <2> QED
    BY <2>3, <2>4 DEF OneMessage
<1>4. ASSUME NEW j \in Jobs, Consume(j) PROVE Fine
  <2>1. /\ queue > 0 /\ Consuming = {} /\ queue' = queue - 1
        /\ \E speech \in BOOLEAN :
             job' = [job EXCEPT ![j] = [Resting EXCEPT !.kind = "message", !.at = "fetch",
                                                       !.speech = speech]]
    BY <1>4 DEF Consume, Start
  <2>2. PICK speech \in BOOLEAN :
             job' = [job EXCEPT ![j] = [Resting EXCEPT !.kind = "message", !.at = "fetch",
                                                       !.speech = speech]]
    BY <2>1
  <2> DEFINE x == [Resting EXCEPT !.kind = "message", !.at = "fetch", !.speech = speech]
  <2>3. x \in JobStates /\ x.kind = "message"
    BY DEF JobStates, Resting
  <2> HIDE DEF x
  <2>4. job' \in [Jobs -> JobStates] /\ Consuming' = {j}
    BY <1>0, <2>1, <2>2, <2>3, JobGoesOn DEF x
  <2>5. queue' \in 0..MaxQueued /\ queue' + 1 <= MaxQueued
    BY <1>0, <2>1, AiAssumption
  <2> QED
    BY <2>4, <2>5 DEF OneMessage
<1>5. ASSUME NEW j \in Jobs, Query(j) \/ Summarize(j) PROVE Fine
  <2>1. PICK kind1 \in {"query", "summary"}, at \in {"fetch", "read"}, speech \in BOOLEAN :
          job' = [job EXCEPT ![j] = [Resting EXCEPT !.kind = kind1, !.at = at,
                                                    !.speech = speech]]
    BY <1>5 DEF Query, Summarize, Start
  <2> DEFINE x == [Resting EXCEPT !.kind = kind1, !.at = at, !.speech = speech]
  <2>2. x \in JobStates /\ x.kind # "message"
    BY DEF JobStates, Resting
  <2>3. UNCHANGED queue
    BY <1>5 DEF Query, Summarize
  <2> HIDE DEF x
  <2> QED
    BY <2>1, <2>2, <2>3, SameConsuming DEF x
<1>6. ASSUME NEW j \in Jobs, FetchTimeline(j) \/ InsertChunks(j) PROVE Fine
  <2> DEFINE r == job[j]
             done == IF r.kind = "message" THEN Resting
                     ELSE [Resting EXCEPT !.kind = r.kind, !.at = "read"]
             on == [r EXCEPT !.at = "embed", !.speech = FALSE]
  <2>1. UNCHANGED queue /\ (job' = [job EXCEPT ![j] = done] \/ job' = [job EXCEPT ![j] = on])
    BY <1>0, <1>6 DEF FetchTimeline, InsertChunks, Ingested
  <2>2. /\ done \in JobStates /\ done.kind # "message"
        /\ on \in JobStates /\ on.kind = r.kind
    <3>1. r \in JobStates
      BY <1>0
    <3>2. on \in JobStates /\ Resting \in JobStates
          /\ [Resting EXCEPT !.kind = r.kind, !.at = "read"] \in JobStates
      BY <3>1, JobFields
    <3>3. Resting.kind = "none" /\ [Resting EXCEPT !.kind = r.kind, !.at = "read"].kind = r.kind
      BY DEF Resting
    <3>4. on.kind = r.kind
      BY <3>1 DEF JobStates
    <3> QED
      BY <3>2, <3>3, <3>4
  <2> HIDE DEF on, done
  <2> QED
    BY <2>1, <2>2, SameConsuming
<1>7. ASSUME NEW j \in Jobs, EmbedChunks(j) \/ DeleteChunks(j) PROVE Fine
  <2> DEFINE r == job[j]
             embedded == [r EXCEPT !.at = "delete"]
             deleted == [r EXCEPT !.at = "insert", !.old = chunks]
  <2>1. /\ UNCHANGED queue
        /\ job' = [job EXCEPT ![j] = embedded] \/ job' = [job EXCEPT ![j] = deleted]
    BY <1>0, <1>7 DEF EmbedChunks, DeleteChunks, Goto
  <2>2. r \in JobStates
    BY <1>0
  <2>3. embedded \in JobStates /\ deleted \in JobStates
    BY <1>0, <2>2, JobFields
  <2>4. embedded.kind = r.kind /\ deleted.kind = r.kind
    BY <2>2 DEF JobStates
  <2> HIDE DEF embedded, deleted
  <2> QED
    BY <2>1, <2>3, <2>4, SameConsuming
<1>8. ASSUME NEW j \in Jobs, Generate(j) \/ StoreSummary(j) PROVE Fine
  <2> DEFINE r == job[j]
             said == [r EXCEPT !.at = "store", !.old = chunks]
  <2>1. /\ UNCHANGED queue
        /\ job' = [job EXCEPT ![j] = Resting] \/ job' = [job EXCEPT ![j] = said]
    BY <1>0, <1>8 DEF Generate, StoreSummary
  <2>2. r \in JobStates
    BY <1>0
  <2>3. said \in JobStates /\ Resting \in JobStates /\ Resting.kind = "none"
    BY <1>0, <2>2, JobFields DEF Resting
  <2>4. said.kind = r.kind
    BY <2>2 DEF JobStates
  <2> HIDE DEF said
  <2> QED
    BY <2>1, <2>3, <2>4, SameConsuming
<1>9. ASSUME NEW j \in Jobs, IngestFails(j) PROVE Fine
  <2>1. /\ job' = [job EXCEPT ![j] = Resting]
        /\ queue' = queue \/ (job[j].kind = "message" /\ queue' = queue + 1)
    BY <1>9 DEF IngestFails
  <2>2. Resting \in JobStates /\ Resting.kind = "none"
    BY DEF JobStates, Resting
  <2>3. CASE queue' = queue
    BY <2>1, <2>2, <2>3, SameConsuming
  <2>4. CASE job[j].kind = "message" /\ queue' = queue + 1
    <3>1. job' \in [Jobs -> JobStates] /\ Consuming' = Consuming \ {j}
      BY <1>0, <2>1, <2>2, JobGoesOn
    <3>2. j \in Consuming
      BY <2>4 DEF Consuming
    <3>3. queue + 1 <= MaxQueued /\ Consuming = {j}
      BY <1>0, <3>2 DEF OneMessage
    <3>4. Consuming' = {} /\ queue' \in 0..MaxQueued /\ queue' <= MaxQueued
      BY <1>0, <2>4, <3>1, <3>3, AiAssumption
    <3> QED
      BY <3>1, <3>4 DEF OneMessage
  <2> QED
    BY <2>1, <2>3, <2>4
<1>10. Fine
  BY <1>1, <1>2, <1>3, <1>4, <1>5, <1>6, <1>7, <1>8, <1>9 DEF AiNext
<1>11. AiTypeOK'
  <2>1. ShelfTyped'
    BY ShelfStep
  <2> QED
    BY <1>10, <2>1 DEF AiTypeOK, ShelfTyped, JobStates
<1> QED
  BY <1>10, <1>11 DEF AiTyped

-----------------------------------------------------------------------------
(* The time line: finite sets of times.                                    *)

LEMMA ImageFinite ==
  ASSUME NEW S, IsFiniteSet(S), NEW f, DOMAIN f = S, f = [x \in S |-> f[x]]
  PROVE  IsFiniteSet({f[x] : x \in S})
<1> DEFINE T == {f[x] : x \in S}
<1>1. f \in [S -> T] /\ \A t \in T : \E x \in S : f[x] = t
  OBVIOUS
<1>2. f \in Surjection(S, T)
  BY <1>1, Zenon DEF Surjection
<1> QED
  BY <1>2, FS_Surjection

\* A finite set of numbers that is not empty has a least element: one with the fewest
\* others below it.
LEMMA HasLeast ==
  ASSUME NEW S \in SUBSET Int, S # {}, IsFiniteSet(S)
  PROVE  \E x \in S : \A y \in S : x <= y
<1> DEFINE under(x) == {y \in S : y < x}
           T == {Cardinality(under(x)) : x \in S}
<1>1. \A x \in S : IsFiniteSet(under(x)) /\ Cardinality(under(x)) \in Nat
  <2> SUFFICES ASSUME NEW x \in S
               PROVE  IsFiniteSet(under(x)) /\ Cardinality(under(x)) \in Nat
    OBVIOUS
  <2>1. under(x) \in SUBSET S
    OBVIOUS
  <2> QED
    BY <2>1, FS_Subset, FS_CardinalityType
<1>2. T \subseteq Nat /\ T # {}
  BY <1>1
<1>3. PICK n \in T : \A m \in T : ~ (<<m, n>> \in OpToRel(<, Nat))
  <2> HIDE DEF T
  <2> QED
    BY <1>2, NatLessThanWellFounded, WFMin, Zenon
<1>4. \A m \in T : ~(m < n)
  BY <1>2, <1>3 DEF OpToRel
<1>5. PICK x \in S : n = Cardinality(under(x))
  OBVIOUS
<1>6. ASSUME NEW y \in S, y < x PROVE FALSE
  <2>0. x \in Int /\ y \in Int /\ \A z \in S : z \in Int
    OBVIOUS
  <2>1. under(y) \in SUBSET under(x) /\ y \in under(x) /\ y \notin under(y)
    <3>1. ASSUME NEW z \in S, z < y PROVE z < x
      BY <1>6, <2>0, <3>1
    <3>2. ~(y < y)
      BY <2>0
    <3> QED
      BY <1>6, <3>1, <3>2, Zenon
  <2>2. Cardinality(under(y)) <= Cardinality(under(x))
        /\ Cardinality(under(x)) # Cardinality(under(y))
    <3> HIDE DEF under
    <3>1. IsFiniteSet(under(x))
      BY <1>1
    <3>2. /\ Cardinality(under(y)) <= Cardinality(under(x))
          /\ Cardinality(under(x)) = Cardinality(under(y)) => under(x) = under(y)
      BY <2>1, <3>1, FS_Subset
    <3> QED
      BY <2>1, <3>2
  <2>3. Cardinality(under(y)) \in T /\ Cardinality(under(y)) \in Nat
        /\ Cardinality(under(x)) \in Nat
    BY <1>1
  <2> HIDE DEF under, T
  <2>4. Cardinality(under(y)) < Cardinality(under(x))
    BY <2>2, <2>3
  <2> QED
    BY <1>4, <1>5, <2>3, <2>4
<1> QED
  BY <1>6

LEMMA HasGreatest ==
  ASSUME NEW S \in SUBSET Int, S # {}, IsFiniteSet(S)
  PROVE  \E x \in S : \A y \in S : y <= x
<1> DEFINE f == [x \in S |-> -x]
           T == {f[x] : x \in S}
<1>1. IsFiniteSet(T)
  <2>1. DOMAIN f = S /\ f = [x \in S |-> f[x]]
    OBVIOUS
  <2> HIDE DEF f
  <2> QED
    BY <2>1, ImageFinite
<1>2. T \in SUBSET Int /\ T # {}
  <2>1. \A x \in S : f[x] \in Int
    OBVIOUS
  <2> HIDE DEF f
  <2> QED
    BY <2>1
<1>3. PICK t \in T : \A u \in T : t <= u
  <2> HIDE DEF T
  <2> QED
    BY <1>1, <1>2, HasLeast
<1>4. PICK x \in S : t = -x
  OBVIOUS
<1>5. ASSUME NEW y \in S PROVE y <= x
  <2>1. -y \in T
    <3>1. f[y] = -y
      OBVIOUS
    <3> QED
      BY <3>1
  <2>2. -x <= -y /\ x \in Int /\ y \in Int
    BY <1>3, <1>4, <2>1
  <2> QED
    BY <2>2
<1> QED
  BY <1>5

-----------------------------------------------------------------------------
(* The time line: the median and the items.                                *)

LEMMA BaseType ==
  ASSUME NEW s \in Segments PROVE Base(s) \in Int /\ s.start \in Int /\ s.created \in Int
<1>1. s.start \in Offsets /\ s.end \in Offsets /\ s.created \in Clock
  BY DEF Segments
<1>2. s.start \in Int /\ s.end \in Int /\ s.created \in Int
  BY <1>1, TimelineAssumption
<1> QED
  BY <1>2 DEF Base

\* There is a k-th base for every k up to the number of segments.
LEMMA KthExists ==
  ASSUME spoken \subseteq Segments, IsFiniteSet(spoken), NEW k \in 1..Cardinality(spoken)
  PROVE  Kth(k) \in Int
<1> DEFINE f == [s \in spoken |-> Base(s)]
           B == {Base(s) : s \in spoken}
           upto(b) == {s \in spoken : Base(s) <= b}
           below(b) == {s \in spoken : Base(s) < b}
           E == {b \in B : Cardinality(upto(b)) >= k}
<1>0. Cardinality(spoken) \in Nat /\ k \in Nat /\ 1 <= k /\ k <= Cardinality(spoken)
  BY FS_CardinalityType
<1>1. IsFiniteSet(B)
  <2>1. DOMAIN f = spoken /\ f = [s \in spoken |-> f[s]]
    OBVIOUS
  <2>2. IsFiniteSet({f[s] : s \in spoken})
    <3> HIDE DEF f
    <3> QED
      BY <2>1, ImageFinite
  <2>3. {f[s] : s \in spoken} = B
    OBVIOUS
  <2> QED
    BY <2>2, <2>3
<1>2. spoken # {} /\ B \in SUBSET Int /\ B # {}
  <2>1. spoken # {}
    BY <1>0, FS_EmptySet
  <2>2. \A s \in spoken : Base(s) \in Int
    BY BaseType
  <2> QED
    BY <2>1, <2>2
<1>3. E # {}
  <2>1. PICK m \in B : \A b \in B : b <= m
    <3> HIDE DEF B
    <3> QED
      BY <1>1, <1>2, HasGreatest
  <2>2. upto(m) = spoken
    BY <2>1
  <2> QED
    BY <1>0, <2>1, <2>2
<1>4. PICK e \in E : \A b \in E : e <= b
  <2>1. E \in SUBSET B /\ E \in SUBSET Int
    BY <1>2
  <2> HIDE DEF E, B
  <2>2. IsFiniteSet(E)
    BY <1>1, <2>1, FS_Subset
  <2> QED
    BY <1>3, <2>1, <2>2, HasLeast
<1>5. Cardinality(below(e)) < k
  <2> DEFINE L == {b \in B : b < e}
  <2>1. CASE L = {}
    <3>1. below(e) = {}
      BY <2>1
    <3> QED
      BY <1>0, <3>1, FS_EmptySet
  <2>2. CASE L # {}
    <3>1. L \in SUBSET B /\ L \in SUBSET Int
      BY <1>2
    <3>2. PICK g \in L : \A b \in L : b <= g
      <4> HIDE DEF L, B
      <4>1. IsFiniteSet(L)
        BY <1>1, <3>1, FS_Subset
      <4> QED
        BY <2>2, <3>1, <4>1, HasGreatest
    <3>3. g \in B /\ g < e /\ g \in Int /\ e \in Int
      BY <1>2
    <3>4. below(e) = upto(g)
      <4>1. ASSUME NEW s \in spoken PROVE Base(s) < e <=> Base(s) <= g
        <5>1. Base(s) \in B /\ Base(s) \in Int
          BY <1>2
        <5>2. Base(s) < e => Base(s) <= g
          BY <3>2, <5>1
        <5> QED
          BY <3>3, <5>1, <5>2
      <4> QED
        BY <4>1
    <3>5. ~(Cardinality(upto(g)) >= k)
      BY <1>4, <3>3
    <3>6. IsFiniteSet(upto(g)) /\ Cardinality(upto(g)) \in Nat
      <4>1. upto(g) \in SUBSET spoken
        OBVIOUS
      <4> QED
        BY <4>1, FS_Subset, FS_CardinalityType
    <3> HIDE DEF upto, below, E, L
    <3> QED
      BY <1>0, <3>4, <3>5, <3>6
  <2> QED
    BY <2>1, <2>2
<1>6. e \in B /\ Cardinality(below(e)) < k /\ Cardinality(upto(e)) >= k
  BY <1>4, <1>5
<1>7. Kth(k) \in B
  BY <1>6 DEF Kth
<1> QED
  BY <1>2, <1>7

LEMMA MedianType ==
  ASSUME spoken \subseteq Segments, IsFiniteSet(spoken), spoken # {}
  PROVE  Median \in Int
<1> DEFINE n == Cardinality(spoken)
<1>1. n \in Nat /\ n # 0
  BY FS_CardinalityType, FS_EmptySet
<1>2. (n + 1) \div 2 \in 1..n /\ n \div 2 + 1 \in 1..n
  <2> HIDE DEF n
  <2> QED
    BY <1>1
<1>3. Kth((n + 1) \div 2) \in Int /\ Kth(n \div 2 + 1) \in Int
  BY <1>2, KthExists
<1> QED
  BY <1>3 DEF Median

-----------------------------------------------------------------------------
(* The time line: what is before the cursor is in one chunk, the rest in   *)
(* none.                                                                   *)

LineTyped == IsFiniteSet(line) /\ \A i \in line : i.t \in Int

Chunks == [startMs : 0..MaxInt, endMs : 0..MaxInt, items : SUBSET line]

Holding(i) == {n \in 1..Len(windows) : i \in windows[n].items}

\* The n-th chunk is the only one with i, and its times enclose that of i.
Placed(i, n) ==
  /\ Holding(i) = {n}
  /\ windows[n].startMs <= ToRelativeInt(i.t)
  /\ ToRelativeInt(i.t) <= windows[n].endMs

TimelineInv ==
  /\ written \subseteq Clock /\ spoken \subseteq Segments
  /\ LineTyped
  /\ cursor \in Int /\ windows \in Seq(Chunks)
  /\ \A i \in line : i.t >= cursor => Holding(i) = {}
  /\ \A i \in line : i.t < cursor => \E n \in 1..Len(windows) : Placed(i, n)

LEMMA LineBounds ==
  ASSUME LineTyped, line # {}
  PROVE  /\ LineStart \in Int /\ \A i \in line : LineStart <= i.t
         /\ LineEnd \in Int /\ \A i \in line : i.t <= LineEnd
<1> DEFINE f == [i \in line |-> i.t]
           T == {i.t : i \in line}
<1>1. IsFiniteSet(T)
  <2>1. DOMAIN f = line /\ f = [i \in line |-> f[i]] /\ {f[i] : i \in line} = T
    OBVIOUS
  <2> HIDE DEF f, T
  <2>2. IsFiniteSet({f[i] : i \in line})
    BY <2>1, ImageFinite DEF LineTyped
  <2> QED
    BY <2>1, <2>2
<1>2. T \in SUBSET Int /\ T # {}
  BY DEF LineTyped
<1>3. \E t \in T : \A u \in T : t <= u
  <2> HIDE DEF T
  <2> QED
    BY <1>1, <1>2, HasLeast
<1>4. \E t \in T : \A u \in T : u <= t
  <2> HIDE DEF T
  <2> QED
    BY <1>1, <1>2, HasGreatest
<1>5. \E t \in T : \A i \in line : t <= i.t
  BY <1>3
<1>6. \E t \in T : \A i \in line : t >= i.t
  <2>1. PICK t \in T : \A u \in T : u <= t
    BY <1>4
  <2>2. \A i \in line : t >= i.t
    BY <1>2, <2>1 DEF LineTyped
  <2> QED
    BY <2>2
<1>7. LineStart \in T /\ \A i \in line : LineStart <= i.t
  BY <1>5 DEF LineStart
<1>8. LineEnd \in T /\ \A i \in line : LineEnd >= i.t
  BY <1>6 DEF LineEnd
<1> QED
  BY <1>2, <1>7, <1>8 DEF LineTyped

\* The times of a chunk fit their columns and keep the order of the times.
LEMMA RelativeOrder ==
  ASSUME LineStart \in Int, NEW t \in Int, NEW u \in Int, t <= u
  PROVE  /\ ToRelativeInt(t) \in 0..MaxInt
         /\ ToRelativeInt(t) <= ToRelativeInt(u)
<1> DEFINE s == LineStart
           a == (t - s) \div 2
           b == (u - s) \div 2
<1>1. s \in Int /\ MaxInt \in Nat
  BY TimelineAssumption
<1> HIDE DEF s
<1>2. a \in Int /\ b \in Int /\ a <= b
  BY <1>1
<1> HIDE DEF a, b
<1>3. /\ ToRelativeInt(t) = IF a < 0 THEN 0 ELSE IF a > MaxInt THEN MaxInt ELSE a
      /\ ToRelativeInt(u) = IF b < 0 THEN 0 ELSE IF b > MaxInt THEN MaxInt ELSE b
  BY DEF ToRelativeInt, a, b, s
<1> QED
  BY <1>1, <1>2, <1>3

LEMMA TimelineInitInv == TimelineInit => TimelineInv
<1> SUFFICES ASSUME TimelineInit PROVE TimelineInv
  OBVIOUS
<1>1. /\ written \subseteq Clock /\ IsFiniteSet(written)
      /\ spoken \subseteq Segments /\ IsFiniteSet(spoken)
      /\ windows = <<>>
  BY DEF TimelineInit
<1> DEFINE mid == IF Relative THEN Median ELSE 0
           W == [w \in written |-> [t |-> 2 * w, from |-> <<"written", w>>]]
           S == [s \in spoken |-> [t |-> SpokenAt(s, mid), from |-> <<"spoken", s>>]]
<1>2. line = {W[w] : w \in written} \cup {S[s] : s \in spoken}
  BY DEF TimelineInit, BuildUnifiedTimeline
<1>3. mid \in Int
  BY <1>1, MedianType DEF Relative
<1>4. \A w \in written : W[w].t \in Int
  BY <1>1, TimelineAssumption
<1>5. \A s \in spoken : S[s].t \in Int
  <2> SUFFICES ASSUME NEW s \in spoken PROVE SpokenAt(s, mid) \in Int
    OBVIOUS
  <2>1. s.start \in Int /\ s.created \in Int
    BY <1>1, BaseType
  <2> HIDE DEF mid
  <2> QED
    BY <1>3, <2>1 DEF SpokenAt
<1>6. DOMAIN W = written /\ W = [w \in written |-> W[w]]
  OBVIOUS
<1>7. DOMAIN S = spoken /\ S = [s \in spoken |-> S[s]]
  OBVIOUS
<1> HIDE DEF W, S
<1>8. LineTyped
  <2>1. IsFiniteSet({W[w] : w \in written})
    BY <1>1, <1>6, ImageFinite
  <2>2. IsFiniteSet({S[s] : s \in spoken})
    BY <1>1, <1>7, ImageFinite
  <2>3. IsFiniteSet(line)
    BY <1>2, <2>1, <2>2, FS_Union
  <2> QED
    BY <1>2, <1>4, <1>5, <2>3 DEF LineTyped
<1>9. cursor \in Int /\ \A i \in line : ~(i.t < cursor)
  <2>1. CASE line = {}
    BY <2>1 DEF TimelineInit
  <2>2. CASE line # {}
    BY <1>8, <2>2, LineBounds DEF TimelineInit, LineTyped
  <2> QED
    BY <2>1, <2>2
<1>10. windows \in Seq(Chunks) /\ \A i \in line : Holding(i) = {}
  BY <1>1 DEF Holding
<1> QED
  BY <1>1, <1>8, <1>9, <1>10 DEF TimelineInv

LEMMA TimelineStep == TimelineInv /\ [TimelineNext]_timelineVars => TimelineInv'
<1> SUFFICES ASSUME TimelineInv, [TimelineNext]_timelineVars PROVE TimelineInv'
  OBVIOUS
<1>1. CASE UNCHANGED timelineVars
  BY <1>1 DEF timelineVars, TimelineInv, LineTyped, Chunks, Holding, Placed, ToRelativeInt,
              LineStart
<1>2. ASSUME Window PROVE TimelineInv'
  <2> DEFINE next == cursor + 2 * WindowMs
             chunk == Chunk(cursor, next)
  <2>1. /\ line # {} /\ cursor' = next
        /\ windows' = IF chunk.items = {} THEN windows ELSE Append(windows, chunk)
        /\ UNCHANGED <<written, spoken, line>>
    BY <1>2 DEF Window
  <2>2. /\ LineTyped /\ cursor \in Int /\ windows \in Seq(Chunks)
        /\ next \in Int /\ cursor < next
    BY TimelineAssumption DEF TimelineInv
  <2>3. /\ chunk.items = {i \in line : cursor <= i.t /\ i.t < next}
        /\ chunk.startMs = ToRelativeInt(cursor) /\ chunk.endMs = ToRelativeInt(next)
        /\ chunk = [startMs |-> chunk.startMs, endMs |-> chunk.endMs, items |-> chunk.items]
    BY DEF Chunk
  <2> HIDE DEF chunk, next
  <2>4. LineStart \in Int
    BY <2>1, <2>2, LineBounds
  <2>5. chunk \in Chunks
    <3>1. chunk.startMs \in 0..MaxInt /\ chunk.endMs \in 0..MaxInt
      BY <2>2, <2>3, <2>4, RelativeOrder
    <3> QED
      BY <2>3, <3>1 DEF Chunks
  <2>6. \A t : ToRelativeInt(t)' = ToRelativeInt(t)
    BY <2>1 DEF ToRelativeInt, LineStart
  <2>7. LineTyped' /\ Chunks' = Chunks
    BY <2>1, <2>2 DEF LineTyped, Chunks
  <2>8. windows' \in Seq(Chunks)
    BY <2>1, <2>2, <2>5
  <2>9. ASSUME NEW i \in line, ~(i.t \in cursor..(next - 1))
        PROVE  Holding(i)' = Holding(i)
    <3>1. i \notin chunk.items
      BY <2>2, <2>3, <2>9 DEF LineTyped
    <3>2. CASE windows' = windows
      BY <3>2 DEF Holding
    <3>3. CASE windows' = Append(windows, chunk)
      <4>1. /\ Len(windows') = Len(windows) + 1 /\ Len(windows) \in Nat
            /\ windows'[Len(windows) + 1] = chunk
            /\ \A n \in 1..Len(windows) : windows'[n] = windows[n]
        BY <2>2, <3>3
      <4>2. \A n : n \in 1..Len(windows') <=> n \in 1..Len(windows) \/ n = Len(windows) + 1
        BY <4>1
      <4> QED
        BY <3>1, <4>1, <4>2 DEF Holding
    <3> QED
      BY <2>1, <3>2, <3>3
  <2>10. ASSUME NEW i \in line, Holding(i)' = Holding(i), NEW n \in 1..Len(windows),
                Placed(i, n)
         PROVE  n \in 1..Len(windows') /\ Placed(i, n)'
    <3>1. n \in 1..Len(windows') /\ windows'[n] = windows[n]
      BY <2>1, <2>2
    <3> QED
      BY <2>1, <2>6, <2>10, <3>1 DEF Placed
  <2>11. ASSUME NEW i \in line, i.t \in cursor..(next - 1)
         PROVE  \E n \in 1..Len(windows') : Placed(i, n)'
    <3>1. i \in chunk.items /\ Holding(i) = {}
      BY <2>2, <2>3, <2>11 DEF LineTyped, TimelineInv
    <3>2. windows' = Append(windows, chunk)
      BY <2>1, <3>1
    <3>3. PICK m \in Nat : m = Len(windows) + 1
      BY <2>2
    <3>4. Len(windows') = m /\ windows'[m] = chunk
          /\ \A n \in 1..Len(windows) : windows'[n] = windows[n]
      BY <2>2, <3>2, <3>3
    <3>5. m \in 1..Len(windows')
          /\ \A n : n \in 1..Len(windows') <=> n \in 1..Len(windows) \/ n = m
      BY <2>2, <3>3, <3>4
    <3>6. Holding(i)' = {m}
      BY <3>1, <3>4, <3>5 DEF Holding
    <3>7. chunk.startMs <= ToRelativeInt(i.t) /\ ToRelativeInt(i.t) <= chunk.endMs
      BY <2>2, <2>3, <2>4, <2>11, RelativeOrder DEF LineTyped
    <3>8. Placed(i, m)'
      BY <2>1, <2>6, <3>4, <3>6, <3>7 DEF Placed
    <3> QED
      BY <3>5, <3>8
  <2>12. \A i \in line' : i.t >= cursor' => Holding(i)' = {}
    <3> SUFFICES ASSUME NEW i \in line, i.t >= next PROVE Holding(i)' = {}
      BY <2>1
    <3>1. i.t >= cursor /\ ~(i.t \in cursor..(next - 1))
      BY <2>2 DEF LineTyped
    <3> QED
      BY <2>9, <3>1 DEF TimelineInv
  <2>13. \A i \in line' : i.t < cursor' => \E n \in 1..Len(windows') : Placed(i, n)'
    <3> SUFFICES ASSUME NEW i \in line, i.t < next
                 PROVE  \E n \in 1..Len(windows') : Placed(i, n)'
      BY <2>1
    <3>1. CASE i.t < cursor
      <4>1. ~(i.t \in cursor..(next - 1))
        BY <2>2, <3>1 DEF LineTyped
      <4>2. PICK n \in 1..Len(windows) : Placed(i, n)
        BY <3>1 DEF TimelineInv
      <4> QED
        BY <2>9, <2>10, <4>1, <4>2
    <3>2. CASE ~(i.t < cursor)
      <4>1. i.t \in cursor..(next - 1)
        BY <2>2, <3>2 DEF LineTyped
      <4> QED
        BY <2>11, <4>1
    <3> QED
      BY <3>1, <3>2
  <2>14. written' \subseteq Clock /\ spoken' \subseteq Segments /\ cursor' \in Int
    BY <2>1, <2>2 DEF TimelineInv
  <2> QED
    BY <2>7, <2>8, <2>12, <2>13, <2>14 DEF TimelineInv
<1> QED
  BY <1>1, <1>2 DEF TimelineNext

LEMMA TimelineTypes == TimelineInv => TimelineTypeOK
  BY DEF TimelineInv, LineTyped, Chunks, TimelineTypeOK

\* For every time line, whatever its times, gaps and window length: when the loop is over,
\* each item is in one chunk, whose times enclose that of the item.
THEOREM EachItemInOneChunk == TimelineSpec => []ChunksHold
<1>1. TimelineInv => ChunksHold
  <2> SUFFICES ASSUME TimelineInv, Cut, NEW i \in line
               PROVE  /\ Cardinality(Holding(i)) = 1
                      /\ \A n \in Holding(i) :
                           /\ windows[n].startMs <= ToRelativeInt(i.t)
                           /\ ToRelativeInt(i.t) <= windows[n].endMs
    BY DEF ChunksHold, Holding
  <2>1. i.t < cursor
    BY LineBounds DEF TimelineInv, LineTyped, Cut
  <2>2. PICK n \in 1..Len(windows) : Placed(i, n)
    BY <2>1 DEF TimelineInv
  <2> QED
    BY <2>2, FS_Singleton DEF Placed
<1> QED
  BY <1>1, TimelineInitInv, TimelineStep, PTL DEF TimelineSpec

-----------------------------------------------------------------------------
(* Chat: a message that the broker took is stored, queued, held, or was    *)
(* refused by the database, at every step.                                 *)

ChatTyped ==
  /\ publishing \in [Messages -> {"none", "waiting", "lost", "confirmed", "refused"}]
  /\ storing \in [Servers -> [Messages -> {"none", "create", "ack", "nack"}]]

\* The consumer acknowledges what it has stored.
StoredFirst == \A s \in Servers, m \in Messages : storing[s][m] = "ack" => m \in messages

Kept(m) ==
  m \in messages \cup dropped \cup chatQueue \/ \E s \in Servers : <<s, "chat", m>> \in held

Taken(m) == publishing[m] \in {"waiting", "confirmed"}

ChatInv == ChatTyped /\ StoredFirst /\ \A m \in Messages : Taken(m) => Kept(m)

LEMMA ChatInitInv == ChatInit => ChatInv
  BY DEF ChatInit, ChatInv, ChatTyped, StoredFirst, Taken

\* What is stored or dropped stays so; what was queued or held goes on.
LEMMA GoesOn ==
  ASSUME ChatInv, ChatTyped', messages \subseteq messages', dropped \subseteq dropped',
         UNCHANGED publishing,
         \A s \in Servers, m \in Messages :
           storing'[s][m] = "ack" => storing[s][m] = "ack" \/ m \in messages',
         \A m \in Messages : m \in chatQueue => Kept(m)',
         \A s \in Servers, m \in Messages : <<s, "chat", m>> \in held => Kept(m)'
  PROVE  ChatInv'
<1>1. StoredFirst'
  BY DEF ChatInv, StoredFirst
<1>2. ASSUME NEW m \in Messages, Taken(m)' PROVE Kept(m)'
  <2>1. Kept(m)
    BY <1>2 DEF ChatInv, Taken
  <2> QED
    BY <2>1 DEF Kept
<1> QED
  BY <1>1, <1>2 DEF ChatInv

LEMMA ChatStep == ChatInv /\ [ChatNext]_chatVars => ChatInv'
<1> SUFFICES ASSUME ChatInv, [ChatNext]_chatVars PROVE ChatInv'
  OBVIOUS
<1>0. ChatTyped
  BY DEF ChatInv
<1>1. ASSUME UNCHANGED <<publishing, chatQueue, held, storing, messages, dropped>>
      PROVE  ChatInv'
  BY <1>1 DEF ChatInv, ChatTyped, StoredFirst, Taken, Kept
<1>2. ASSUME NEW m \in Messages, ChatSend(m) PROVE ChatInv'
  <2>1. ChatTyped' /\ StoredFirst'
    BY <1>0, <1>2 DEF ChatSend, Asks, ChatTyped, ChatInv, StoredFirst, consumerVars
  <2>2. ASSUME NEW n \in Messages, Taken(n)' PROVE Kept(n)'
    <3>1. CASE n = m
      BY <1>0, <1>2, <2>2, <3>1 DEF ChatSend, Asks, ChatTyped, Taken, Kept
    <3>2. CASE n # m
      <4>1. Taken(n)
        BY <1>0, <1>2, <2>2, <3>2 DEF ChatSend, Asks, ChatTyped, Taken
      <4>2. /\ chatQueue \subseteq chatQueue' /\ UNCHANGED <<messages, dropped, held>>
        BY <1>2 DEF ChatSend, consumerVars, brokerVars
      <4> QED
        BY <4>1, <4>2 DEF ChatInv, Kept
    <3> QED
      BY <3>1, <3>2
  <2> QED
    BY <2>1, <2>2 DEF ChatInv
<1>3. ASSUME NEW m \in Messages, RefusePublish(m) \/ Confirm(m) \/ ConfirmTimeout(m)
      PROVE  ChatInv'
  <2>1. UNCHANGED <<chatQueue, held, storing, messages, dropped>>
    BY <1>3 DEF RefusePublish, Confirm, ConfirmTimeout, brokerVars, consumerVars
  <2>2. ChatTyped' /\ \A n \in Messages : Taken(n)' => Taken(n)
    <3>1. \/ Asks(m, "none", "refused") \/ Asks(m, "waiting", "confirmed")
          \/ Asks(m, "waiting", "refused") \/ Asks(m, "lost", "refused")
      BY <1>3 DEF RefusePublish, Confirm, ConfirmTimeout
    <3> QED
      BY <1>0, <2>1, <3>1 DEF Asks, ChatTyped, Taken
  <2> QED
    BY <2>1, <2>2 DEF ChatInv, StoredFirst, Kept
<1>4. ASSUME NEW s \in Servers, NEW m \in Messages, DeliverChat(s, m) PROVE ChatInv'
  <2>1. /\ ChatTyped' /\ UNCHANGED <<publishing, messages, dropped>>
        /\ \A z \in Servers, n \in Messages : storing'[z][n] = "ack" => storing[z][n] = "ack"
    BY <1>0, <1>4 DEF DeliverChat, ChatTyped
  <2>2. /\ chatQueue' = chatQueue \ {m} /\ <<s, "chat", m>> \in held' /\ held \subseteq held'
    BY <1>4 DEF DeliverChat
  <2>3. ASSUME NEW n \in Messages, n \in chatQueue PROVE Kept(n)'
    BY <2>2, <2>3 DEF Kept
  <2>4. ASSUME NEW z \in Servers, NEW n \in Messages, <<z, "chat", n>> \in held PROVE Kept(n)'
    BY <2>2, <2>4 DEF Kept
  <2> QED
    BY <2>1, <2>3, <2>4, GoesOn
<1>5. ASSUME NEW s \in Servers, NEW m \in Messages, CreateMessage(s, m) PROVE ChatInv'
  <2>1. /\ ChatTyped' /\ UNCHANGED <<publishing, chatQueue, held, dropped>>
        /\ messages \subseteq messages'
        /\ \A z \in Servers, n \in Messages :
             storing'[z][n] = "ack" => storing[z][n] = "ack" \/ n \in messages'
    <3>1. CASE messages' = messages \cup {m} /\ storing' = [storing EXCEPT ![s][m] = "ack"]
      BY <1>0, <1>5, <3>1 DEF CreateMessage, brokerVars, ChatTyped
    <3>2. CASE UNCHANGED messages /\ storing' = [storing EXCEPT ![s][m] = "nack"]
      BY <1>0, <1>5, <3>2 DEF CreateMessage, brokerVars, ChatTyped
    <3> QED
      BY <1>5, <3>1, <3>2 DEF CreateMessage
  <2> QED
    BY <2>1, GoesOn DEF Kept
<1>6. ASSUME NEW s \in Servers, NEW m \in Messages, SettleChat(s, m) PROVE ChatInv'
  <2>1. /\ ChatTyped' /\ UNCHANGED <<publishing, chatQueue, messages>>
        /\ dropped \subseteq dropped' /\ held' = held \ {<<s, "chat", m>>}
        /\ \A z \in Servers, n \in Messages : storing'[z][n] = "ack" => storing[z][n] = "ack"
    BY <1>0, <1>6 DEF SettleChat, ChatTyped
  <2>2. <<s, "chat", m>> \in held => m \in messages' \cup dropped'
    BY <1>6, <2>1 DEF SettleChat, ChatInv, StoredFirst
  <2>3. ASSUME NEW z \in Servers, NEW n \in Messages, <<z, "chat", n>> \in held PROVE Kept(n)'
    <3>1. CASE <<z, "chat", n>> = <<s, "chat", m>>
      BY <2>2, <2>3, <3>1 DEF Kept
    <3>2. CASE <<z, "chat", n>> # <<s, "chat", m>>
      BY <2>1, <2>3, <3>2 DEF Kept
    <3> QED
      BY <3>1, <3>2
  <2>4. ASSUME NEW n \in Messages, n \in chatQueue PROVE Kept(n)'
    BY <2>1, <2>4 DEF Kept
  <2> QED
    BY <2>1, <2>3, <2>4, GoesOn
<1>7. ASSUME NEW s \in Servers, NEW m \in Messages,
             \/ DeliverBroadcast(s, m) \/ SafePublish(s, m) \/ SettleBroadcast(s, m)
             \/ TellRemote(s, m)
      PROVE  ChatInv'
  <2>1. /\ UNCHANGED <<publishing, chatQueue, storing, messages, dropped>>
        /\ \A z \in Servers, n \in Messages :
             <<z, "chat", n>> \in held => <<z, "chat", n>> \in held'
    BY <1>7 DEF DeliverBroadcast, SafePublish, SettleBroadcast, TellRemote, brokerVars
  <2>2. ChatTyped'
    BY <1>0, <2>1 DEF ChatTyped
  <2> QED
    BY <2>1, <2>2, GoesOn DEF Kept
<1>8. ASSUME NEW t \in Readers, ReadHistory(t) \/ AnswerHistory(t) \/ ReceiveChat(t)
      PROVE  ChatInv'
  BY <1>1, <1>8 DEF ReadHistory, AnswerHistory, ReceiveChat, brokerVars, consumerVars
<1>9. ASSUME NEW s \in Servers, ConnectionLost(s) \/ ServerCrash(s) PROVE ChatInv'
  <2>1. /\ chatQueue' = chatQueue \cup HeldBy(s, "chat") /\ held' = {h \in held : h[1] # s}
        /\ UNCHANGED <<publishing, messages, dropped>>
    BY <1>9 DEF ConnectionLost, ServerCrash, Requeue
  <2>2. /\ ChatTyped'
        /\ \A z \in Servers, n \in Messages : storing'[z][n] = "ack" => storing[z][n] = "ack"
    <3>1. CASE UNCHANGED storing
      BY <1>0, <2>1, <3>1 DEF ChatTyped
    <3>2. CASE storing' = [storing EXCEPT ![s] = [m \in Messages |-> "none"]]
      BY <1>0, <2>1, <3>2 DEF ChatTyped
    <3> QED
      BY <1>9, <3>1, <3>2 DEF ConnectionLost, ServerCrash
  <2>3. ASSUME NEW z \in Servers, NEW n \in Messages, <<z, "chat", n>> \in held PROVE Kept(n)'
    <3>1. CASE z = s
      BY <2>1, <2>3, <3>1 DEF Kept, HeldBy
    <3>2. CASE z # s
      <4>1. <<z, "chat", n>> \in held'
        BY <2>1, <2>3, <3>2
      <4> QED
        BY <4>1 DEF Kept
    <3> QED
      BY <3>1, <3>2
  <2>4. ASSUME NEW n \in Messages, n \in chatQueue PROVE Kept(n)'
    BY <2>1, <2>4 DEF Kept
  <2> QED
    BY <2>1, <2>2, <2>3, <2>4, GoesOn
<1>10. CASE UNCHANGED chatVars
  BY <1>1, <1>10 DEF chatVars
<1> QED
  BY <1>2, <1>3, <1>4, <1>5, <1>6, <1>7, <1>8, <1>9, <1>10 DEF ChatNext

\* For any number of servers, messages and faults: what the broker confirmed is in the
\* database or on its way there, unless the database refused it.
THEOREM ConfirmedAlwaysKept == ChatSpec => []ConfirmedKept
<1>1. ChatSpec => []ChatInv
  BY ChatInitInv, ChatStep, PTL DEF ChatSpec
<1>2. ChatInv => ConfirmedKept
  BY DEF ChatInv, ConfirmedKept, Taken, Kept, HeldBy
<1> QED
  BY <1>1, <1>2, PTL

-----------------------------------------------------------------------------
(* Chat: the types.                                                        *)

ChatFrames == [type : {"chat:new", "chat:history"}, about : SUBSET Messages]
Histories == [at : {"none", "read", "done"}, found : SUBSET Messages]

PipeTyped ==
  /\ chatQueue \subseteq Messages /\ broadcastQueue \subseteq Messages
  /\ held \subseteq Servers \X {"chat", "broadcast"} \X Messages
  /\ telling \in [Servers -> [Messages -> {"none", "publish", "ack"}]]
  /\ messages \subseteq Messages /\ dropped \subseteq Messages
  /\ redis \in [Servers -> SUBSET Messages]
  /\ redelivered \in [Messages -> Nat]
  /\ faults \in 0..MaxFaults

WireTyped ==
  /\ wire \in [Readers -> Seq(ChatFrames)]
  /\ told \in [Readers -> [Messages -> Nat]]

PanelTyped ==
  /\ history \in [Readers -> Histories]
  /\ panel \in [Readers -> Seq(Messages)]

\* A panel shows no message twice.
NoneTwice ==
  \A t \in Readers : \A i, j \in DOMAIN panel[t] : panel[t][i] = panel[t][j] => i = j

LEMMA ChatTypeParts ==
  ChatTypeOK <=> ChatTyped /\ PipeTyped /\ WireTyped /\ PanelTyped
  BY DEF ChatTypeOK, ChatTyped, PipeTyped, WireTyped, PanelTyped, ChatFrames, Histories

LEMMA ChatInitTyped ==
  ChatInit => ChatTyped /\ PipeTyped /\ WireTyped /\ PanelTyped /\ NoneTwice
<1> SUFFICES ASSUME ChatInit
             PROVE  ChatTyped /\ PipeTyped /\ WireTyped /\ PanelTyped /\ NoneTwice
  OBVIOUS
<1>1. ChatTyped /\ PipeTyped
  BY ChatAssumption DEF ChatInit, ChatTyped, PipeTyped
<1>2. WireTyped
  BY DEF ChatInit, WireTyped
<1>3. Unread \in Histories
  BY DEF Unread, Histories
<1>4. PanelTyped /\ NoneTwice
  BY <1>3 DEF ChatInit, PanelTyped, NoneTwice
<1> QED
  BY <1>1, <1>2, <1>4

LEMMA BroadcastEffect ==
  ASSUME WireTyped, NEW s \in Servers, NEW m \in Messages, BroadCastNew(s, m)
  PROVE  /\ WireTyped'
         /\ \A t \in Readers, n \in Messages :
              told'[t][n] = IF Home[t] = s /\ n = m THEN told[t][n] + 1 ELSE told[t][n]
<1>1. [type |-> "chat:new", about |-> {m}] \in ChatFrames
  BY DEF ChatFrames
<1>2. \A t \in Readers :
        Append(wire[t], [type |-> "chat:new", about |-> {m}]) \in Seq(ChatFrames)
  BY <1>1 DEF WireTyped
<1>3. wire' \in [Readers -> Seq(ChatFrames)]
  BY <1>2 DEF BroadCastNew, WireTyped
<1>4. \A t \in Readers :
        told'[t] = IF Home[t] # s THEN told[t] ELSE [told[t] EXCEPT ![m] = @ + 1]
  BY DEF BroadCastNew
<1>5. \A t \in Readers : told[t] \in [Messages -> Nat]
  BY DEF WireTyped
<1>6. ASSUME NEW t \in Readers PROVE told'[t] \in [Messages -> Nat]
  <2>1. [told[t] EXCEPT ![m] = told[t][m] + 1] \in [Messages -> Nat]
    BY <1>5
  <2> QED
    BY <1>4, <1>5, <2>1
<1>7. told' \in [Readers -> [Messages -> Nat]]
  BY <1>6 DEF BroadCastNew
<1> QED
  BY <1>3, <1>4, <1>5, <1>7 DEF WireTyped

LEMMA OrdersSeq ==
  ASSUME NEW S \in SUBSET Messages, NEW q \in Orders(S)
  PROVE  q \in Seq(Messages) /\ \A i, j \in DOMAIN q : q[i] = q[j] => i = j
<1>1. IsFiniteSet(S) /\ Cardinality(S) \in Nat
  BY ChatAssumption, FS_Subset, FS_CardinalityType
<1> DEFINE n == Cardinality(S)
<1>2. n \in Nat /\ q \in [1..n -> S] /\ \A i, j \in DOMAIN q : q[i] = q[j] => i = j
  BY <1>1 DEF Orders
<1> HIDE DEF n
<1>3. q \in Seq(S)
  BY <1>2
<1> QED
  BY <1>2, <1>3

LEMMA PipeStep ==
  ASSUME PipeTyped, [ChatNext]_chatVars PROVE PipeTyped'
<1>1. ASSUME NEW m \in Messages, ChatSend(m) PROVE PipeTyped'
  <2>1. /\ chatQueue' \subseteq Messages /\ broadcastQueue' \subseteq Messages
        /\ UNCHANGED <<held, consumerVars, faults>>
    BY <1>1 DEF ChatSend, PipeTyped, brokerVars
  <2> QED
    BY <2>1 DEF PipeTyped, consumerVars
<1>2. ASSUME NEW m \in Messages, RefusePublish(m) \/ Confirm(m) \/ ConfirmTimeout(m)
      PROVE  PipeTyped'
  BY <1>2 DEF RefusePublish, Confirm, ConfirmTimeout, PipeTyped, brokerVars, consumerVars
<1>3. ASSUME NEW s \in Servers, NEW m \in Messages,
             DeliverChat(s, m) \/ CreateMessage(s, m) \/ SettleChat(s, m)
      PROVE  PipeTyped'
  <2>1. UNCHANGED <<broadcastQueue, telling, redis, redelivered>>
    BY <1>3 DEF DeliverChat, CreateMessage, SettleChat, brokerVars
  <2>2. /\ chatQueue' \subseteq Messages /\ messages' \subseteq Messages
        /\ dropped' \subseteq Messages /\ faults' \in 0..MaxFaults
        /\ held' \subseteq Servers \X {"chat", "broadcast"} \X Messages
    <3>1. CASE DeliverChat(s, m)
      BY <3>1 DEF DeliverChat, PipeTyped
    <3>2. CASE CreateMessage(s, m)
      <4>1. UNCHANGED <<chatQueue, held, dropped>> /\ messages' \subseteq messages \cup {m}
        BY <3>2 DEF CreateMessage, brokerVars
      <4>2. faults' = faults \/ (faults < MaxFaults /\ faults' = faults + 1)
        BY <3>2 DEF CreateMessage
      <4>3. faults' \in 0..MaxFaults
        BY <4>2, ChatAssumption DEF PipeTyped
      <4> QED
        BY <4>1, <4>3 DEF PipeTyped
    <3>3. CASE SettleChat(s, m)
      BY <3>3 DEF SettleChat, PipeTyped
    <3> QED
      BY <1>3, <3>1, <3>2, <3>3
  <2> QED
    BY <2>1, <2>2 DEF PipeTyped
<1>4. ASSUME NEW s \in Servers, NEW m \in Messages,
             \/ DeliverBroadcast(s, m) \/ SafePublish(s, m) \/ SettleBroadcast(s, m)
             \/ TellRemote(s, m)
      PROVE  PipeTyped'
  <2>1. UNCHANGED <<chatQueue, messages, dropped, redelivered, faults>>
    BY <1>4 DEF DeliverBroadcast, SafePublish, SettleBroadcast, TellRemote, brokerVars
  <2>2. broadcastQueue' \subseteq Messages
    BY <1>4 DEF DeliverBroadcast, SafePublish, SettleBroadcast, TellRemote, brokerVars,
                PipeTyped
  <2>3. held' \subseteq Servers \X {"chat", "broadcast"} \X Messages
    BY <1>4 DEF DeliverBroadcast, SafePublish, SettleBroadcast, TellRemote, brokerVars,
                PipeTyped
  <2>4. telling' \in [Servers -> [Messages -> {"none", "publish", "ack"}]]
    BY <1>4 DEF DeliverBroadcast, SafePublish, SettleBroadcast, TellRemote, PipeTyped
  <2>5. redis' \in [Servers -> SUBSET Messages]
    BY <1>4 DEF DeliverBroadcast, SafePublish, SettleBroadcast, TellRemote, PipeTyped
  <2> QED
    BY <2>1, <2>2, <2>3, <2>4, <2>5 DEF PipeTyped
<1>5. ASSUME NEW t \in Readers, ReadHistory(t) \/ AnswerHistory(t) \/ ReceiveChat(t)
      PROVE  PipeTyped'
  BY <1>5 DEF ReadHistory, AnswerHistory, ReceiveChat, brokerVars, consumerVars, PipeTyped
<1>6. ASSUME NEW s \in Servers, ConnectionLost(s) \/ ServerCrash(s) PROVE PipeTyped'
  <2>1. Requeue(s) /\ UNCHANGED <<messages, dropped>>
    BY <1>6 DEF ConnectionLost, ServerCrash
  <2>2. chatQueue' \subseteq Messages /\ broadcastQueue' \subseteq Messages
    BY <2>1 DEF Requeue, HeldBy, PipeTyped
  <2>3. held' \subseteq Servers \X {"chat", "broadcast"} \X Messages
    BY <2>1 DEF Requeue, PipeTyped
  <2>4. redelivered' \in [Messages -> Nat]
    BY <2>1 DEF Requeue, PipeTyped
  <2>5. faults' \in 0..MaxFaults
    BY <2>1, ChatAssumption DEF Requeue, PipeTyped
  <2>6. telling' \in [Servers -> [Messages -> {"none", "publish", "ack"}]]
    <3>1. \/ telling' = telling
          \/ telling' = [telling EXCEPT ![s] = [m \in Messages |-> "none"]]
      BY <1>6 DEF ConnectionLost, ServerCrash
    <3>2. [m \in Messages |-> "none"] \in [Messages -> {"none", "publish", "ack"}]
      OBVIOUS
    <3> QED
      BY <3>1, <3>2 DEF PipeTyped
  <2>7. redis' \in [Servers -> SUBSET Messages]
    BY <1>6 DEF ConnectionLost, ServerCrash, PipeTyped
  <2> QED
    BY <2>1, <2>2, <2>3, <2>4, <2>5, <2>6, <2>7 DEF PipeTyped
<1>7. CASE UNCHANGED chatVars
  BY <1>7 DEF chatVars, PipeTyped
<1> QED
  BY <1>1, <1>2, <1>3, <1>4, <1>5, <1>6, <1>7 DEF ChatNext

LEMMA WireStep ==
  ASSUME PipeTyped, WireTyped, PanelTyped, NoneTwice, [ChatNext]_chatVars
  PROVE  WireTyped' /\ PanelTyped' /\ NoneTwice'
<1>1. ASSUME UNCHANGED <<history, panel>> PROVE PanelTyped' /\ NoneTwice'
  BY <1>1 DEF PanelTyped, NoneTwice
<1>2. ASSUME UNCHANGED <<wire, told>> PROVE WireTyped'
  BY <1>2 DEF WireTyped
<1>3. ASSUME NEW m \in Messages,
             ChatSend(m) \/ RefusePublish(m) \/ Confirm(m) \/ ConfirmTimeout(m)
      PROVE  WireTyped' /\ PanelTyped' /\ NoneTwice'
  BY <1>1, <1>2, <1>3 DEF ChatSend, RefusePublish, Confirm, ConfirmTimeout, panelVars
<1>4. ASSUME NEW s \in Servers, NEW m \in Messages,
             \/ DeliverChat(s, m) \/ CreateMessage(s, m) \/ SettleChat(s, m)
             \/ SafePublish(s, m) \/ SettleBroadcast(s, m)
      PROVE  WireTyped' /\ PanelTyped' /\ NoneTwice'
  BY <1>1, <1>2, <1>4
  DEF DeliverChat, CreateMessage, SettleChat, SafePublish, SettleBroadcast, panelVars
<1>5. ASSUME NEW s \in Servers, NEW m \in Messages, DeliverBroadcast(s, m) \/ TellRemote(s, m)
      PROVE  WireTyped' /\ PanelTyped' /\ NoneTwice'
  BY <1>1, <1>5, BroadcastEffect DEF DeliverBroadcast, TellRemote
<1>6. ASSUME NEW t \in Readers, ReadHistory(t) PROVE WireTyped' /\ PanelTyped' /\ NoneTwice'
  <2>1. /\ UNCHANGED <<wire, told, panel>>
        /\ history' = [history EXCEPT ![t] = [at |-> "read", found |-> messages]]
    BY <1>6 DEF ReadHistory
  <2>2. [at |-> "read", found |-> messages] \in Histories
    BY DEF Histories, PipeTyped
  <2> QED
    BY <1>2, <2>1, <2>2 DEF PanelTyped, NoneTwice
<1>7. ASSUME NEW t \in Readers, AnswerHistory(t) PROVE WireTyped' /\ PanelTyped' /\ NoneTwice'
  <2> DEFINE f == [type |-> "chat:history", about |-> history[t].found]
  <2>1. /\ UNCHANGED <<told, panel>> /\ wire' = [wire EXCEPT ![t] = Append(wire[t], f)]
        /\ history' = [history EXCEPT ![t] = [at |-> "done", found |-> {}]]
    BY <1>7 DEF AnswerHistory
  <2>2. [at |-> "done", found |-> {}] \in Histories /\ f \in ChatFrames
    BY DEF Histories, PanelTyped, ChatFrames
  <2> HIDE DEF f
  <2>3. Append(wire[t], f) \in Seq(ChatFrames)
    BY <2>2 DEF WireTyped
  <2> QED
    BY <2>1, <2>2, <2>3 DEF PanelTyped, NoneTwice, WireTyped
<1>8. ASSUME NEW t \in Readers, ReceiveChat(t) PROVE WireTyped' /\ PanelTyped' /\ NoneTwice'
  <2> DEFINE w == wire[t]
             f == Head(w)
             p == panel[t]
  <2>1. /\ w # <<>> /\ w \in Seq(ChatFrames) /\ p \in Seq(Messages)
        /\ wire' = [wire EXCEPT ![t] = Tail(w)] /\ UNCHANGED <<told, history>>
    BY <1>8 DEF ReceiveChat, WireTyped, PanelTyped
  <2>2. \/ \E m \in f.about :
             panel' = [panel EXCEPT ![t] = IF Shows(t, m) THEN p ELSE Append(p, m)]
        \/ \E q \in Orders(f.about) : panel' = [panel EXCEPT ![t] = q]
    BY <1>8 DEF ReceiveChat
  <2> HIDE DEF w
  <2>3. Tail(w) \in Seq(ChatFrames) /\ f \in ChatFrames
    BY <2>1
  <2>4. f.about \in SUBSET Messages
    BY <2>3 DEF ChatFrames
  <2> HIDE DEF f
  <2>5. WireTyped'
    BY <2>1, <2>3 DEF WireTyped
  <2>6. \E q \in Seq(Messages) :
          /\ panel' = [panel EXCEPT ![t] = q]
          /\ \A i, j \in DOMAIN q : q[i] = q[j] => i = j
    <3>1. ASSUME NEW q \in Orders(f.about), panel' = [panel EXCEPT ![t] = q] PROVE <2>6
      BY <2>4, <3>1, OrdersSeq
    <3>2. \A i, j \in DOMAIN p : p[i] = p[j] => i = j
      BY DEF NoneTwice
    <3>3. ASSUME NEW m \in f.about, Shows(t, m), panel' = [panel EXCEPT ![t] = p] PROVE <2>6
      BY <2>1, <3>2, <3>3
    <3>4. ASSUME NEW m \in f.about, ~Shows(t, m), panel' = [panel EXCEPT ![t] = Append(p, m)]
          PROVE  <2>6
      <4>1. \A i \in DOMAIN p : p[i] # m
        BY <3>4 DEF Shows
      <4>2. m \in Messages
        BY <2>4
      <4> HIDE DEF p
      <4> DEFINE q == Append(p, m)
      <4>3. q \in Seq(Messages)
        BY <2>1, <4>2
      <4>4. /\ DOMAIN q = 1..(Len(p) + 1) /\ DOMAIN p = 1..Len(p) /\ Len(p) \in Nat
            /\ q[Len(p) + 1] = m /\ \A i \in DOMAIN p : q[i] = p[i]
        BY <2>1, <4>2
      <4>5. panel' = [panel EXCEPT ![t] = q]
        BY <3>4
      <4> HIDE DEF q
      <4>6. \A i, j \in DOMAIN q : q[i] = q[j] => i = j
        BY <3>2, <4>1, <4>4
      <4> QED
        BY <4>3, <4>5, <4>6
    <3> QED
      BY <2>2, <3>1, <3>3, <3>4
  <2>7. PICK q \in Seq(Messages) : /\ panel' = [panel EXCEPT ![t] = q]
                                  /\ \A i, j \in DOMAIN q : q[i] = q[j] => i = j
    BY <2>6
  <2>8. \A z \in Readers : panel'[z] = IF z = t THEN q ELSE panel[z]
    BY <2>7 DEF PanelTyped
  <2>9. PanelTyped'
    BY <2>1, <2>7 DEF PanelTyped
  <2>10. NoneTwice'
    BY <2>7, <2>8 DEF NoneTwice
  <2> QED
    BY <2>5, <2>9, <2>10
<1>9. ASSUME NEW s \in Servers, ConnectionLost(s) PROVE WireTyped' /\ PanelTyped' /\ NoneTwice'
  BY <1>1, <1>2, <1>9 DEF ConnectionLost, panelVars
<1>10. ASSUME NEW s \in Servers, ServerCrash(s) PROVE WireTyped' /\ PanelTyped' /\ NoneTwice'
  <2>1. Unread \in Histories
    BY DEF Unread, Histories
  <2>2. UNCHANGED <<panel, told>>
    BY <1>10 DEF ServerCrash
  <2>3. WireTyped'
    BY <1>10, <2>2 DEF ServerCrash, WireTyped
  <2>4. PanelTyped' /\ NoneTwice'
    BY <1>10, <2>1, <2>2 DEF ServerCrash, PanelTyped, NoneTwice
  <2> QED
    BY <2>3, <2>4
<1>11. CASE UNCHANGED chatVars
  BY <1>1, <1>2, <1>11 DEF chatVars
<1> QED
  BY <1>3, <1>4, <1>5, <1>6, <1>7, <1>8, <1>9, <1>10, <1>11 DEF ChatNext
-----------------------------------------------------------------------------
(* Chat: how often a message is told.  Each broadcast of it is in the      *)
(* queue, with a server that is to publish it, in Redis, or told: at most  *)
(* one of them counts for a tab.                                           *)

\* Servers other than the tab's own that have yet to publish the message.
Publishing(t, m) == {s \in Servers : s # Home[t] /\ telling[s][m] = "publish"}

One(b) == IF b THEN 1 ELSE 0

Ahead(t, m) ==
  Cardinality(Publishing(t, m)) + One(m \in broadcastQueue) + One(m \in redis[Home[t]])

Budget(m) == One(publishing[m] # "none") + redelivered[m]

Counted == \A t \in Readers, m \in Messages : told[t][m] + Ahead(t, m) <= Budget(m)

PanelInv == ChatTyped /\ PipeTyped /\ WireTyped /\ PanelTyped /\ NoneTwice /\ Counted

LEMMA PublishingFinite ==
  ASSUME NEW t \in Readers, NEW m \in Messages
  PROVE  IsFiniteSet(Publishing(t, m)) /\ Cardinality(Publishing(t, m)) \in Nat
  BY ChatAssumption, FS_Subset, FS_CardinalityType DEF Publishing

LEMMA CountInit == ChatInit => Counted
<1> SUFFICES ASSUME ChatInit, NEW t \in Readers, NEW m \in Messages
             PROVE  told[t][m] + Ahead(t, m) <= Budget(m)
  BY DEF Counted
<1>1. Publishing(t, m) = {}
  BY DEF ChatInit, Publishing
<1>2. Cardinality(Publishing(t, m)) = 0
  BY <1>1, FS_EmptySet
<1>3. Home[t] \in Servers
  BY ChatAssumption
<1> QED
  BY <1>2, <1>3 DEF ChatInit, Ahead, Budget, One

LEMMA CountParts ==
  ASSUME PipeTyped, WireTyped, NEW t \in Readers, NEW m \in Messages
  PROVE  /\ told[t][m] \in Nat /\ redelivered[m] \in Nat
         /\ Cardinality(Publishing(t, m)) \in Nat
         /\ telling[Home[t]] \in [Messages -> {"none", "publish", "ack"}]
         /\ Home[t] \in Servers
  BY PublishingFinite, ChatAssumption DEF PipeTyped, WireTyped

\* A step that brings the message no nearer to the tab.
LEMMA CountSame ==
  ASSUME PipeTyped, WireTyped, Counted, NEW t \in Readers, NEW m \in Messages,
         told'[t][m] = told[t][m],
         \A s \in Servers : telling'[s][m] = "publish" => telling[s][m] = "publish",
         m \in broadcastQueue' => m \in broadcastQueue,
         m \in redis'[Home[t]] => m \in redis[Home[t]],
         publishing'[m] = "none" => publishing[m] = "none", redelivered'[m] = redelivered[m]
  PROVE  (told[t][m] + Ahead(t, m) <= Budget(m))'
<1> DEFINE P == Publishing(t, m)
           Q == Publishing(t, m)'
<1>1. IsFiniteSet(P) /\ Q \subseteq P
  BY PublishingFinite DEF Publishing
<1>2. Cardinality(Q) <= Cardinality(P) /\ Cardinality(Q) \in Nat
  BY <1>1, FS_Subset, FS_CardinalityType
<1> DEFINE p == Cardinality(P)
           q == Cardinality(Q)
<1>3. /\ Ahead(t, m) = p + One(m \in broadcastQueue) + One(m \in redis[Home[t]])
      /\ Ahead(t, m)' = q + One(m \in broadcastQueue') + One(m \in redis'[Home[t]])
  BY DEF Ahead
<1>4. p \in Nat /\ q \in Nat /\ q <= p /\ told[t][m] \in Nat /\ redelivered[m] \in Nat
  BY <1>2, CountParts
<1>5. told[t][m] + Ahead(t, m) <= Budget(m)
  BY DEF Counted
<1> HIDE DEF p, q, P, Q
<1> QED
  BY <1>3, <1>4, <1>5 DEF Budget, One

LEMMA CountSend ==
  ASSUME PanelInv, NEW n \in Messages, ChatSend(n) PROVE Counted'
<1> SUFFICES ASSUME NEW t \in Readers, NEW m \in Messages
             PROVE  (told[t][m] + Ahead(t, m) <= Budget(m))'
  BY DEF Counted
<1>1. /\ UNCHANGED <<told, telling, redis, redelivered>>
      /\ broadcastQueue' \in {broadcastQueue, broadcastQueue \cup {n}}
      /\ publishing[n] = "none"
      /\ publishing' = [publishing EXCEPT ![n] = "waiting"]
           \/ publishing' = [publishing EXCEPT ![n] = "lost"]
  BY DEF ChatSend, Asks, consumerVars, panelVars, brokerVars
<1>2. /\ publishing'[n] # "none"
      /\ \A q \in Messages : q # n => publishing'[q] = publishing[q]
  BY <1>1 DEF PanelInv, ChatTyped
<1>3. CASE m # n
  BY <1>1, <1>2, <1>3, CountSame DEF PanelInv
<1>4. CASE m = n
  <2>1. Publishing(t, m)' = Publishing(t, m)
    BY <1>1 DEF Publishing
  <2> DEFINE p == Cardinality(Publishing(t, m))
  <2>2. /\ Ahead(t, m) = p + One(m \in broadcastQueue) + One(m \in redis[Home[t]])
        /\ Ahead(t, m)' = p + One(m \in broadcastQueue') + One(m \in redis[Home[t]])
    BY <1>1, <2>1 DEF Ahead
  <2>3. p \in Nat /\ told[t][m] \in Nat /\ redelivered[m] \in Nat
    BY CountParts DEF PanelInv
  <2>4. told[t][m] + Ahead(t, m) <= Budget(m)
    BY DEF PanelInv, Counted
  <2> HIDE DEF p
  <2> QED
    BY <1>1, <1>2, <1>4, <2>2, <2>3, <2>4 DEF Budget, One
<1> QED
  BY <1>3, <1>4

LEMMA CountDeliver ==
  ASSUME PanelInv, NEW s \in Servers, NEW n \in Messages, DeliverBroadcast(s, n) PROVE Counted'
<1> SUFFICES ASSUME NEW t \in Readers, NEW m \in Messages
             PROVE  (told[t][m] + Ahead(t, m) <= Budget(m))'
  BY DEF Counted
<1>1. /\ UNCHANGED <<publishing, redis, redelivered>> /\ n \in broadcastQueue
      /\ broadcastQueue' = broadcastQueue \ {n}
      /\ telling' = [telling EXCEPT ![s][n] = "publish"]
  BY DEF DeliverBroadcast
<1>2. told'[t][m] = IF Home[t] = s /\ m = n THEN told[t][m] + 1 ELSE told[t][m]
  BY BroadcastEffect DEF DeliverBroadcast, PanelInv
<1>3. \A z \in Servers : telling'[z][m] = IF z = s /\ m = n THEN "publish" ELSE telling[z][m]
  BY <1>1 DEF PanelInv, PipeTyped
<1>4. CASE m # n
  BY <1>1, <1>2, <1>3, <1>4, CountSame DEF PanelInv
<1>5. CASE m = n
  <2> DEFINE P == Publishing(t, m)
             p == Cardinality(P)
             q == Cardinality(Publishing(t, m)')
  <2>1. Publishing(t, m)' = IF Home[t] = s THEN P ELSE P \cup {s}
    BY <1>3, <1>5 DEF Publishing
  <2>2. IsFiniteSet(P) /\ p \in Nat
    BY PublishingFinite
  <2> HIDE DEF P
  <2>3. q \in Nat /\ q <= p + 1 /\ (Home[t] = s => q = p)
    <3>1. CASE Home[t] = s
      BY <2>1, <2>2, <3>1
    <3>2. CASE Home[t] # s
      <4>1. Cardinality(P \cup {s}) = IF s \in P THEN Cardinality(P) ELSE Cardinality(P) + 1
        BY <2>2, FS_AddElement
      <4>2. q = Cardinality(P \cup {s})
        BY <2>1, <3>2
      <4> HIDE DEF q
      <4> QED
        BY <2>2, <3>2, <4>1, <4>2
    <3> QED
      BY <3>1, <3>2
  <2>4. /\ Ahead(t, m) = p + One(m \in broadcastQueue) + One(m \in redis[Home[t]])
        /\ Ahead(t, m)' = q + One(m \in broadcastQueue') + One(m \in redis[Home[t]])
    BY <1>1 DEF Ahead, P
  <2>5. told[t][m] \in Nat /\ redelivered[m] \in Nat
    BY CountParts DEF PanelInv
  <2>6. told[t][m] + Ahead(t, m) <= Budget(m) /\ Budget(m)' = Budget(m) /\ Budget(m) \in Nat
    BY <1>1, <2>5 DEF PanelInv, Counted, Budget, One
  <2> HIDE DEF p, q
  <2> QED
    BY <1>1, <1>2, <1>5, <2>2, <2>3, <2>4, <2>5, <2>6 DEF One
<1> QED
  BY <1>4, <1>5

LEMMA CountPublish ==
  ASSUME PanelInv, NEW s \in Servers, NEW n \in Messages, SafePublish(s, n) PROVE Counted'
<1> SUFFICES ASSUME NEW t \in Readers, NEW m \in Messages
             PROVE  (told[t][m] + Ahead(t, m) <= Budget(m))'
  BY DEF Counted
<1>1. /\ UNCHANGED <<publishing, broadcastQueue, redelivered, told>>
      /\ telling' = [telling EXCEPT ![s][n] = "ack"] /\ telling[s][n] = "publish"
  BY DEF SafePublish, brokerVars, panelVars
<1>2. \A z \in Servers : telling'[z][m] = IF z = s /\ m = n THEN "ack" ELSE telling[z][m]
  BY <1>1 DEF PanelInv, PipeTyped
<1>3. Home[t] \in Servers
  BY ChatAssumption
<1>4. \/ redis'[Home[t]] = redis[Home[t]]
      \/ Home[t] # s /\ redis'[Home[t]] = redis[Home[t]] \cup {n}
  BY <1>3 DEF SafePublish
<1>5. CASE m # n \/ Home[t] = s
  BY <1>1, <1>2, <1>4, <1>5, CountSame DEF PanelInv
<1>6. CASE m = n /\ Home[t] # s
  <2> DEFINE P == Publishing(t, m)
             p == Cardinality(P)
             q == Cardinality(Publishing(t, m)')
  <2>1. Publishing(t, m)' = P \ {s} /\ s \in P
    BY <1>1, <1>2, <1>6 DEF Publishing
  <2>2. IsFiniteSet(P) /\ p \in Nat
    BY PublishingFinite
  <2> HIDE DEF P
  <2>3. q = p - 1
    BY <2>1, <2>2, FS_RemoveElement
  <2>4. /\ Ahead(t, m) = p + One(m \in broadcastQueue) + One(m \in redis[Home[t]])
        /\ Ahead(t, m)' = q + One(m \in broadcastQueue) + One(m \in redis'[Home[t]])
    BY <1>1 DEF Ahead, P
  <2>5. told[t][m] \in Nat /\ redelivered[m] \in Nat
    BY CountParts DEF PanelInv
  <2>6. told[t][m] + Ahead(t, m) <= Budget(m) /\ Budget(m)' = Budget(m) /\ Budget(m) \in Nat
    BY <1>1, <2>5 DEF PanelInv, Counted, Budget, One
  <2> HIDE DEF p, q
  <2> QED
    BY <1>1, <1>6, <2>2, <2>3, <2>4, <2>5, <2>6 DEF One
<1> QED
  BY <1>5, <1>6

LEMMA CountRemote ==
  ASSUME PanelInv, NEW s \in Servers, NEW n \in Messages, TellRemote(s, n) PROVE Counted'
<1> SUFFICES ASSUME NEW t \in Readers, NEW m \in Messages
             PROVE  (told[t][m] + Ahead(t, m) <= Budget(m))'
  BY DEF Counted
<1>1. /\ UNCHANGED <<publishing, broadcastQueue, redelivered, telling>> /\ n \in redis[s]
      /\ redis' = [redis EXCEPT ![s] = redis[s] \ {n}]
  BY DEF TellRemote, brokerVars
<1>2. told'[t][m] = IF Home[t] = s /\ m = n THEN told[t][m] + 1 ELSE told[t][m]
  BY BroadcastEffect DEF TellRemote, PanelInv
<1>3. redis'[Home[t]] = IF Home[t] = s THEN redis[s] \ {n} ELSE redis[Home[t]]
  BY <1>1, ChatAssumption DEF PanelInv, PipeTyped
<1>4. CASE m # n \/ Home[t] # s
  BY <1>1, <1>2, <1>3, <1>4, CountSame DEF PanelInv
<1>5. CASE m = n /\ Home[t] = s
  <2>1. Publishing(t, m)' = Publishing(t, m)
    BY <1>1 DEF Publishing
  <2> DEFINE p == Cardinality(Publishing(t, m))
  <2>2. /\ Ahead(t, m) = p + One(m \in broadcastQueue) + 1
        /\ Ahead(t, m)' = p + One(m \in broadcastQueue)
    BY <1>1, <1>3, <1>5, <2>1, PublishingFinite DEF Ahead, One
  <2>3. p \in Nat /\ told[t][m] \in Nat /\ redelivered[m] \in Nat
    BY CountParts DEF PanelInv
  <2>4. told[t][m] + Ahead(t, m) <= Budget(m) /\ Budget(m)' = Budget(m) /\ Budget(m) \in Nat
    BY <1>1, <2>3 DEF PanelInv, Counted, Budget, One
  <2> HIDE DEF p
  <2> QED
    BY <1>2, <1>5, <2>2, <2>3, <2>4 DEF One
<1> QED
  BY <1>4, <1>5

LEMMA CountRequeue ==
  ASSUME PanelInv, NEW s \in Servers, ConnectionLost(s) \/ ServerCrash(s) PROVE Counted'
<1> SUFFICES ASSUME NEW t \in Readers, NEW m \in Messages
             PROVE  (told[t][m] + Ahead(t, m) <= Budget(m))'
  BY DEF Counted
<1>1. Requeue(s) /\ UNCHANGED <<publishing, told>>
  BY DEF ConnectionLost, ServerCrash, panelVars
<1>2. \A z \in Servers : telling'[z][m] = "publish" => telling[z][m] = "publish"
  <2>1. CASE UNCHANGED telling
    BY <2>1
  <2>2. CASE telling' = [telling EXCEPT ![s] = [k \in Messages |-> "none"]]
    BY <2>2 DEF PanelInv, PipeTyped
  <2> QED
    BY <2>1, <2>2 DEF ConnectionLost, ServerCrash
<1>3. m \in redis'[Home[t]] => m \in redis[Home[t]]
  <2>1. CASE UNCHANGED redis
    BY <2>1
  <2>2. CASE redis' = [redis EXCEPT ![s] = {}]
    BY <2>2, ChatAssumption DEF PanelInv, PipeTyped
  <2> QED
    BY <2>1, <2>2 DEF ConnectionLost, ServerCrash
<1>4. /\ broadcastQueue' = broadcastQueue \cup HeldBy(s, "broadcast")
      /\ redelivered'[m] = redelivered[m] + IF m \in HeldBy(s, "broadcast") THEN 1 ELSE 0
  BY <1>1 DEF Requeue
<1>5. CASE m \notin HeldBy(s, "broadcast")
  <2>1. redelivered'[m] = redelivered[m]
    BY <1>4, <1>5, CountParts DEF PanelInv
  <2> QED
    BY <1>1, <1>2, <1>3, <1>4, <1>5, <2>1, CountSame DEF PanelInv
<1>6. CASE m \in HeldBy(s, "broadcast")
  <2> DEFINE P == Publishing(t, m)
             Q == Publishing(t, m)'
             p == Cardinality(P)
             q == Cardinality(Q)
  <2>1. IsFiniteSet(P) /\ Q \subseteq P
    BY <1>2, PublishingFinite DEF Publishing
  <2>2. p \in Nat /\ q \in Nat /\ q <= p
    BY <2>1, FS_Subset, FS_CardinalityType
  <2>3. /\ Ahead(t, m) = p + One(m \in broadcastQueue) + One(m \in redis[Home[t]])
        /\ Ahead(t, m)' = q + One(m \in broadcastQueue') + One(m \in redis'[Home[t]])
    BY DEF Ahead
  <2>4. told[t][m] \in Nat /\ redelivered[m] \in Nat
    BY CountParts DEF PanelInv
  <2>5. /\ told[t][m] + Ahead(t, m) <= Budget(m)
        /\ Budget(m)' = Budget(m) + 1 /\ Budget(m) \in Nat
    BY <1>1, <1>4, <1>6, <2>4 DEF PanelInv, Counted, Budget, One
  <2> HIDE DEF p, q, P, Q
  <2> QED
    BY <1>1, <1>3, <2>2, <2>3, <2>4, <2>5 DEF One
<1> QED
  BY <1>5, <1>6

LEMMA CountStep == PanelInv /\ [ChatNext]_chatVars => Counted'
<1> SUFFICES ASSUME PanelInv, [ChatNext]_chatVars PROVE Counted'
  OBVIOUS
<1>0. ASSUME UNCHANGED <<told, broadcastQueue, redis, redelivered>>,
             \A m \in Messages : publishing'[m] = "none" => publishing[m] = "none",
             \A s \in Servers, m \in Messages :
               telling'[s][m] = "publish" => telling[s][m] = "publish"
      PROVE  Counted'
  BY <1>0, CountSame DEF PanelInv, Counted
<1>1. ASSUME NEW m \in Messages, RefusePublish(m) \/ Confirm(m) \/ ConfirmTimeout(m)
      PROVE  Counted'
  <2>1. UNCHANGED <<told, broadcastQueue, redis, redelivered, telling>>
    BY <1>1 DEF RefusePublish, Confirm, ConfirmTimeout, brokerVars, consumerVars, panelVars
  <2>2. \/ Asks(m, "none", "refused") \/ Asks(m, "waiting", "confirmed")
        \/ Asks(m, "waiting", "refused") \/ Asks(m, "lost", "refused")
    BY <1>1 DEF RefusePublish, Confirm, ConfirmTimeout
  <2>3. \A n \in Messages : publishing'[n] = "none" => publishing[n] = "none"
    BY <2>2 DEF Asks, PanelInv, ChatTyped
  <2> QED
    BY <1>0, <2>1, <2>3
<1>2. ASSUME NEW s \in Servers, NEW m \in Messages,
             DeliverChat(s, m) \/ CreateMessage(s, m) \/ SettleChat(s, m)
      PROVE  Counted'
  BY <1>0, <1>2 DEF DeliverChat, CreateMessage, SettleChat, brokerVars, panelVars
<1>3. ASSUME NEW s \in Servers, NEW m \in Messages, SettleBroadcast(s, m) PROVE Counted'
  <2>1. /\ UNCHANGED <<told, broadcastQueue, redis, redelivered, publishing>>
        /\ telling' = [telling EXCEPT ![s][m] = "none"]
    BY <1>3 DEF SettleBroadcast, panelVars
  <2>2. \A z \in Servers, n \in Messages :
          telling'[z][n] = "publish" => telling[z][n] = "publish"
    BY <2>1 DEF PanelInv, PipeTyped
  <2> QED
    BY <1>0, <2>1, <2>2
<1>4. ASSUME NEW t \in Readers, ReadHistory(t) \/ AnswerHistory(t) \/ ReceiveChat(t)
      PROVE  Counted'
  BY <1>0, <1>4 DEF ReadHistory, AnswerHistory, ReceiveChat, brokerVars, consumerVars
<1>5. CASE UNCHANGED chatVars
  BY <1>0, <1>5 DEF chatVars
<1> QED
  BY <1>1, <1>2, <1>3, <1>4, <1>5, CountSend, CountDeliver, CountPublish, CountRemote,
     CountRequeue DEF ChatNext

LEMMA PanelStep == PanelInv /\ ChatInv /\ [ChatNext]_chatVars => PanelInv'
  BY PipeStep, WireStep, CountStep, ChatStep DEF PanelInv, ChatInv

\* Each broadcast of a message reaches a tab once, by its own server or by Redis, and a
\* panel shows no message twice, for any number of servers, tabs, messages and faults.
THEOREM ShownAtMostOnce == ChatSpec => []ShownOnce
<1>1. PanelInv => ShownOnce
  <2> SUFFICES ASSUME PanelInv PROVE ShownOnce
    OBVIOUS
  <2>1. ASSUME NEW t \in Readers, NEW m \in Messages PROVE told[t][m] <= 1 + redelivered[m]
    <3>1. /\ told[t][m] \in Nat /\ Cardinality(Publishing(t, m)) \in Nat
          /\ redelivered[m] \in Nat
      BY CountParts DEF PanelInv
    <3>2. told[t][m] + Ahead(t, m) <= Budget(m)
      BY DEF PanelInv, Counted
    <3> QED
      BY <3>1, <3>2 DEF Ahead, Budget, One
  <2> QED
    BY <2>1 DEF PanelInv, NoneTwice, ShownOnce
<1>2. ChatInit => PanelInv /\ ChatInv
  BY ChatInitTyped, ChatInitInv, CountInit DEF PanelInv
<1>3. PanelInv /\ ChatInv /\ [ChatNext]_chatVars => (PanelInv /\ ChatInv)'
  BY PanelStep, ChatStep
<1> QED
  BY <1>1, <1>2, <1>3, PTL DEF ChatSpec

-----------------------------------------------------------------------------
(* Transcripts: each agent that is done with a phrase accounts for one     *)
(* copy of it, each answer that got lost for one more.                     *)

TaskTyped ==
  /\ task \in [Ids -> [Phrases -> [at : {"none", "publish", "persist", "done"}, tries : Int]]]
  /\ stored \in [Phrases -> Nat] /\ unheard \in [Phrases -> Nat]

DoneWith(u) == {d \in Ids : task[d][u].at = "done"}

Explained(u) == stored[u] <= Cardinality(DoneWith(u)) + unheard[u]

CopiesInv == TaskTyped /\ \A u \in Phrases : Explained(u)

LEMMA IdsFinite ==
  ASSUME NEW S \in SUBSET Ids
  PROVE  IsFiniteSet(S) /\ Cardinality(S) \in Nat
<1>1. IsFiniteSet(Ids)
  BY TranscriptAssumption, FS_Interval DEF Ids
<1> QED
  BY <1>1, FS_Subset, FS_CardinalityType

LEMMA MoreDone ==
  ASSUME NEW S \in SUBSET Ids, NEW T \in SUBSET Ids, S \subseteq T
  PROVE  Cardinality(S) <= Cardinality(T)
  BY IdsFinite, FS_Subset

LEMMA CopiesInitInv == TranscriptInit => CopiesInv
<1> SUFFICES ASSUME TranscriptInit PROVE CopiesInv
  OBVIOUS
<1>1. TaskTyped
  BY DEF TranscriptInit, TaskTyped, Quiet
<1>2. ASSUME NEW u \in Phrases PROVE Explained(u)
  <2>1. stored[u] = 0 /\ unheard[u] = 0
    BY DEF TranscriptInit
  <2>2. Cardinality(DoneWith(u)) \in Nat
    BY IdsFinite DEF DoneWith
  <2> QED
    BY <2>1, <2>2 DEF Explained
<1> QED
  BY <1>1, <1>2 DEF CopiesInv

\* A task that goes on, or is done: nothing that was done is done no more.
LEMMA TaskGoesOn ==
  ASSUME TaskTyped, NEW d \in Ids, NEW u \in Phrases, task[d][u].at # "done",
         NEW to \in [at : {"none", "publish", "persist", "done"}, tries : Int],
         task' = [task EXCEPT ![d][u] = to],
         stored' \in [Phrases -> Nat], unheard' \in [Phrases -> Nat]
  PROVE  /\ TaskTyped'
         /\ \A v \in Phrases : DoneWith(v) \subseteq DoneWith(v)'
         /\ to.at = "done" => DoneWith(u)' = DoneWith(u) \cup {d}
<1>1. TaskTyped'
  BY DEF TaskTyped
<1>2. \A e \in Ids, v \in Phrases : task'[e][v] = IF e = d /\ v = u THEN to ELSE task[e][v]
  BY DEF TaskTyped
<1> QED
  BY <1>1, <1>2 DEF DoneWith

\* Retry leaves a task where it is, with one attempt more, or done.
LEMMA RetryGoesOn ==
  ASSUME TaskTyped, NEW d \in Ids, NEW u \in Phrases, Retry(d, u)
  PROVE  \E to \in [at : {"none", "publish", "persist", "done"}, tries : Int] :
           task' = [task EXCEPT ![d][u] = to]
<1>1. task[d][u] \in [at : {"none", "publish", "persist", "done"}, tries : Int]
  BY DEF TaskTyped
<1>2. CASE task[d][u].tries + 1 = MaxRetries
  <2>1. task' = [task EXCEPT ![d][u] = [at |-> "done", tries |-> 0]]
    BY <1>2 DEF Retry
  <2>2. [at |-> "done", tries |-> 0]
          \in [at : {"none", "publish", "persist", "done"}, tries : Int]
    OBVIOUS
  <2> QED
    BY <2>1, <2>2
<1>3. CASE task[d][u].tries + 1 # MaxRetries
  <2> DEFINE to == [at |-> task[d][u].at, tries |-> task[d][u].tries + 1]
  <2>1. to \in [at : {"none", "publish", "persist", "done"}, tries : Int]
    BY <1>1
  <2>2. task' = [task EXCEPT ![d][u] = to]
    BY <1>3 DEF Retry
  <2> QED
    BY <2>1, <2>2
<1> QED
  BY <1>2, <1>3

LEMMA StaysExplained ==
  ASSUME CopiesInv, TaskTyped', NEW u \in Phrases, DoneWith(u) \subseteq DoneWith(u)',
         \/ UNCHANGED <<stored, unheard>>
         \/ stored'[u] = stored[u] /\ unheard'[u] = unheard[u]
         \/ stored'[u] = stored[u] + 1 /\ unheard'[u] = unheard[u] + 1
  PROVE  Explained(u)'
<1>1. Cardinality(DoneWith(u)) <= Cardinality(DoneWith(u)')
  BY MoreDone DEF DoneWith
<1>2. Cardinality(DoneWith(u)) \in Nat /\ Cardinality(DoneWith(u)') \in Nat
  BY IdsFinite DEF DoneWith
<1>3. stored[u] \in Nat /\ unheard[u] \in Nat /\ Explained(u)
  BY DEF CopiesInv, TaskTyped
<1> QED
  BY <1>1, <1>2, <1>3 DEF Explained

LEMMA CopiesStep == CopiesInv /\ [TranscriptNext]_transcriptVars => CopiesInv'
<1> SUFFICES ASSUME CopiesInv, [TranscriptNext]_transcriptVars PROVE CopiesInv'
  OBVIOUS
<1> DEFINE Tasks == [at : {"none", "publish", "persist", "done"}, tries : Int]
<1>0. TaskTyped
  BY DEF CopiesInv
<1>1. CASE UNCHANGED <<task, stored, unheard>>
  BY <1>1 DEF CopiesInv, TaskTyped, Explained, DoneWith
<1>2. ASSUME NEW d \in Ids, NEW u \in Phrases, NEW to \in Tasks, task[d][u].at # "done",
             task' = [task EXCEPT ![d][u] = to], UNCHANGED <<stored, unheard>>
      PROVE  CopiesInv'
  <2>1. TaskTyped' /\ \A v \in Phrases : DoneWith(v) \subseteq DoneWith(v)'
    BY <1>0, <1>2, TaskGoesOn DEF TaskTyped
  <2> QED
    BY <1>2, <2>1, StaysExplained DEF CopiesInv
<1>3. ASSUME NEW d \in Ids, NEW u \in Phrases, OnTranscript(d, u) PROVE CopiesInv'
  <2>1. task[d][u].at # "done" /\ [at |-> "publish", tries |-> 0] \in Tasks
    BY <1>3 DEF OnTranscript, Quiet
  <2> QED
    BY <1>2, <1>3, <2>1 DEF OnTranscript
<1>4. ASSUME NEW d \in Ids, NEW u \in Phrases, PublishTranscript(d, u) PROVE CopiesInv'
  <2>1. task[d][u].at # "done" /\ UNCHANGED <<stored, unheard>>
    BY <1>4 DEF PublishTranscript
  <2>2. CASE task' = [task EXCEPT ![d][u] = [at |-> "persist", tries |-> 0]]
    <3>1. [at |-> "persist", tries |-> 0] \in Tasks
      OBVIOUS
    <3> QED
      BY <1>2, <2>1, <2>2, <3>1
  <2>3. CASE Retry(d, u)
    BY <1>0, <1>2, <2>1, <2>3, RetryGoesOn
  <2> QED
    BY <1>4, <2>2, <2>3 DEF PublishTranscript
<1>5. ASSUME NEW d \in Ids, NEW u \in Phrases, PersistTranscript(d, u) PROVE CopiesInv'
  <2>1. task[d][u].at = "persist" /\ stored[u] \in Nat /\ unheard[u] \in Nat
    BY <1>0, <1>5 DEF PersistTranscript, TaskTyped
  <2>2. CASE /\ stored' = [stored EXCEPT ![u] = @ + 1]
             /\ task' = [task EXCEPT ![d][u] = [at |-> "done", tries |-> 0]]
             /\ UNCHANGED unheard
    <3>1. /\ stored' \in [Phrases -> Nat] /\ stored'[u] = stored[u] + 1
          /\ \A v \in Phrases \ {u} : stored'[v] = stored[v]
          /\ unheard' \in [Phrases -> Nat]
      BY <1>0, <2>2 DEF TaskTyped
    <3>2. [at |-> "done", tries |-> 0] \in Tasks
      OBVIOUS
    <3>3. /\ TaskTyped' /\ \A v \in Phrases : DoneWith(v) \subseteq DoneWith(v)'
          /\ DoneWith(u)' = DoneWith(u) \cup {d}
      BY <1>0, <2>1, <2>2, <3>1, <3>2, TaskGoesOn
    <3>4. d \notin DoneWith(u) /\ DoneWith(u) \in SUBSET Ids
      BY <2>1 DEF DoneWith
    <3>5. Cardinality(DoneWith(u)') = Cardinality(DoneWith(u)) + 1
      BY <3>3, <3>4, IdsFinite, FS_AddElement
    <3>6. Explained(u)'
      <4>1. Explained(u) /\ Cardinality(DoneWith(u)) \in Nat
        BY <3>4, IdsFinite DEF CopiesInv
      <4> QED
        BY <2>1, <2>2, <3>1, <3>5, <4>1 DEF Explained
    <3>7. \A v \in Phrases \ {u} : Explained(v)'
      BY <2>2, <3>1, <3>3, StaysExplained
    <3> QED
      BY <3>3, <3>6, <3>7 DEF CopiesInv
  <2>3. CASE /\ stored' = [stored EXCEPT ![u] = @ + 1]
             /\ unheard' = [unheard EXCEPT ![u] = @ + 1]
             /\ Retry(d, u)
    <3>1. /\ stored' \in [Phrases -> Nat] /\ unheard' \in [Phrases -> Nat]
          /\ stored'[u] = stored[u] + 1 /\ unheard'[u] = unheard[u] + 1
          /\ \A v \in Phrases \ {u} : stored'[v] = stored[v] /\ unheard'[v] = unheard[v]
      BY <1>0, <2>3 DEF TaskTyped
    <3>2. TaskTyped' /\ \A v \in Phrases : DoneWith(v) \subseteq DoneWith(v)'
      BY <1>0, <2>1, <2>3, <3>1, RetryGoesOn, TaskGoesOn
    <3>3. \A v \in Phrases : Explained(v)'
      BY <3>1, <3>2, StaysExplained
    <3> QED
      BY <3>2, <3>3 DEF CopiesInv
  <2>4. CASE Retry(d, u) /\ UNCHANGED <<stored, unheard>>
    BY <1>0, <1>2, <2>1, <2>4, RetryGoesOn
  <2> QED
    BY <1>5, <2>2, <2>3, <2>4 DEF PersistTranscript
<1>6. ASSUME NEW d \in Ids, Cancelled(d) PROVE CopiesInv'
  <2> DEFINE over == [u \in Phrases |-> IF task[d][u] = Quiet THEN Quiet
                                        ELSE [at |-> "done", tries |-> 0]]
  <2>1. task' = [task EXCEPT ![d] = over] /\ UNCHANGED <<stored, unheard>>
    BY <1>6 DEF Cancelled
  <2>2. over \in [Phrases -> Tasks]
    BY DEF Quiet
  <2>3. TaskTyped'
    BY <1>0, <2>1, <2>2 DEF TaskTyped
  <2>4. \A e \in Ids, u \in Phrases :
          task'[e][u] = IF e # d THEN task[e][u] ELSE over[u]
    BY <1>0, <2>1 DEF TaskTyped
  <2>5. \A u \in Phrases : DoneWith(u) \subseteq DoneWith(u)'
    BY <2>4 DEF DoneWith, Quiet
  <2> QED
    BY <2>1, <2>3, <2>5, StaysExplained DEF CopiesInv
<1>7. ASSUME NEW p \in Panels,
             \/ ToggleTranscript(p) \/ ListDispatch(p) \/ DeleteDispatch(p)
             \/ CreateDispatch(p) \/ Stopped(p) \/ DispatchFails(p)
      PROVE  CopiesInv'
  BY <1>1, <1>7 DEF ToggleTranscript, ListDispatch, DeleteDispatch, CreateDispatch, Stopped,
                    DispatchFails
<1>8. CASE UNCHANGED transcriptVars
  BY <1>1, <1>8 DEF transcriptVars
<1> QED
  BY <1>3, <1>4, <1>5, <1>6, <1>7, <1>8 DEF TranscriptNext

\* For any number of panels, dispatches and phrases: a phrase is stored at most once for
\* each transcriber that heard it and once more for each answer that got lost.
THEOREM CopiesAlwaysExplained == TranscriptSpec => []CopiesExplained
<1>1. TranscriptSpec => []CopiesInv
  BY CopiesInitInv, CopiesStep, PTL DEF TranscriptSpec
<1>2. CopiesInv => CopiesExplained
  <2> SUFFICES ASSUME CopiesInv, NEW u \in Phrases
               PROVE  stored[u] <= Cardinality(Heard(u)) + unheard[u]
    BY DEF CopiesExplained
  <2>1. DoneWith(u) \subseteq Heard(u) /\ Heard(u) \in SUBSET Ids /\ DoneWith(u) \in SUBSET Ids
    BY DEF DoneWith, Heard, Quiet
  <2>2. /\ Cardinality(DoneWith(u)) <= Cardinality(Heard(u))
        /\ Cardinality(DoneWith(u)) \in Nat /\ Cardinality(Heard(u)) \in Nat
    BY <2>1, MoreDone, IdsFinite
  <2>3. stored[u] \in Nat /\ unheard[u] \in Nat /\ Explained(u)
    BY DEF CopiesInv, TaskTyped
  <2> QED
    BY <2>2, <2>3 DEF Explained
<1> QED
  BY <1>1, <1>2, PTL

-----------------------------------------------------------------------------
(* Transcripts: the types.                                                 *)

\* The attempts that are left over are fewer than all.
TaskStates ==
  [at : {"none", "publish", "persist", "done"}, tries : 0..(MaxRetries - 1)]

Requested == [op : {"none", "start", "stop"}, at : {"list", "delete"}, todo : SUBSET Ids]

TriesTyped == task \in [Ids -> [Phrases -> TaskStates]]

AskedTyped ==
  /\ dispatches \subseteq 1..created /\ created \in 0..MaxDispatches
  /\ toggle \in [Panels -> BOOLEAN]
  /\ asked \in [Panels -> Requested]

LEMMA TranscriptTypes ==
  TaskTyped /\ TriesTyped /\ AskedTyped => TranscriptTypeOK
<1> SUFFICES ASSUME TaskTyped, TriesTyped, AskedTyped PROVE TranscriptTypeOK
  OBVIOUS
<1>1. TaskStates \subseteq [at : {"none", "publish", "persist", "done"},
                            tries : 0..MaxRetries]
  BY TranscriptAssumption DEF TaskStates
<1>2. task \in [Ids -> [Phrases -> [at : {"none", "publish", "persist", "done"},
                                    tries : 0..MaxRetries]]]
  <2>1. \A d \in Ids, u \in Phrases :
          task[d][u] \in [at : {"none", "publish", "persist", "done"}, tries : 0..MaxRetries]
    BY <1>1 DEF TriesTyped
  <2> QED
    BY <2>1 DEF TriesTyped
<1> QED
  BY <1>2 DEF TaskTyped, AskedTyped, Requested, TranscriptTypeOK

LEMMA QuietState ==
  /\ Quiet \in TaskStates
  /\ \A a \in {"publish", "persist", "done"} : [at |-> a, tries |-> 0] \in TaskStates
<1>1. 0 \in 0..(MaxRetries - 1)
  BY TranscriptAssumption
<1> QED
  BY <1>1 DEF Quiet, TaskStates

LEMMA TranscriptInitTyped == TranscriptInit => TriesTyped /\ AskedTyped
<1> SUFFICES ASSUME TranscriptInit PROVE TriesTyped /\ AskedTyped
  OBVIOUS
<1>1. Unasked \in Requested
  BY DEF Unasked, Requested
<1>2. TriesTyped
  BY QuietState DEF TranscriptInit, TriesTyped
<1> QED
  BY <1>1, <1>2, TranscriptAssumption DEF TranscriptInit, AskedTyped

LEMMA RetryTyped ==
  ASSUME TriesTyped, NEW d \in Ids, NEW u \in Phrases, Retry(d, u)
  PROVE  TriesTyped'
<1> DEFINE next == IF task[d][u].tries + 1 = MaxRetries THEN [at |-> "done", tries |-> 0]
                   ELSE [at |-> task[d][u].at, tries |-> task[d][u].tries + 1]
<1>1. task' = [task EXCEPT ![d][u] = next]
  BY DEF Retry, TriesTyped
<1>2. next \in TaskStates
  <2>1. /\ task[d][u].at \in {"none", "publish", "persist", "done"}
        /\ task[d][u].tries \in 0..(MaxRetries - 1)
    BY DEF TriesTyped, TaskStates
  <2>2. CASE task[d][u].tries + 1 = MaxRetries
    BY <2>2, QuietState
  <2>3. CASE task[d][u].tries + 1 # MaxRetries
    <3>1. task[d][u].tries + 1 \in 0..(MaxRetries - 1)
      BY <2>1, <2>3, TranscriptAssumption
    <3> QED
      BY <2>1, <2>3, <3>1 DEF TaskStates
  <2> QED
    BY <2>2, <2>3
<1> HIDE DEF next
<1> QED
  BY <1>1, <1>2 DEF TriesTyped

LEMMA TriesStep == TriesTyped /\ [TranscriptNext]_transcriptVars => TriesTyped'
<1> SUFFICES ASSUME TriesTyped, [TranscriptNext]_transcriptVars PROVE TriesTyped'
  OBVIOUS
<1>1. CASE UNCHANGED task
  BY <1>1 DEF TriesTyped
<1>2. ASSUME NEW d \in Ids, NEW u \in Phrases, NEW to \in TaskStates,
             task' = [task EXCEPT ![d][u] = to]
      PROVE  TriesTyped'
  BY <1>2 DEF TriesTyped
<1>3. ASSUME NEW d \in Ids, NEW u \in Phrases, OnTranscript(d, u) PROVE TriesTyped'
  <2>1. task' = [task EXCEPT ![d][u] = [at |-> "publish", tries |-> 0]]
    BY <1>3 DEF OnTranscript
  <2> QED
    BY <1>2, <2>1, QuietState
<1>4. ASSUME NEW d \in Ids, NEW u \in Phrases, PublishTranscript(d, u) PROVE TriesTyped'
  <2>1. task' = [task EXCEPT ![d][u] = [at |-> "persist", tries |-> 0]] \/ Retry(d, u)
    BY <1>4 DEF PublishTranscript
  <2> QED
    BY <1>2, <2>1, QuietState, RetryTyped
<1>5. ASSUME NEW d \in Ids, NEW u \in Phrases, PersistTranscript(d, u) PROVE TriesTyped'
  <2>1. task' = [task EXCEPT ![d][u] = [at |-> "done", tries |-> 0]] \/ Retry(d, u)
    BY <1>5 DEF PersistTranscript
  <2> QED
    BY <1>2, <2>1, QuietState, RetryTyped
<1>6. ASSUME NEW d \in Ids, Cancelled(d) PROVE TriesTyped'
  <2> DEFINE after == [u \in Phrases |-> IF task[d][u] = Quiet THEN Quiet
                                         ELSE [at |-> "done", tries |-> 0]]
  <2>1. task' = [task EXCEPT ![d] = after]
    BY <1>6 DEF Cancelled
  <2>2. after \in [Phrases -> TaskStates]
    BY QuietState
  <2> HIDE DEF after
  <2> QED
    BY <2>1, <2>2 DEF TriesTyped
<1>7. ASSUME NEW p \in Panels,
             ToggleTranscript(p) \/ ListDispatch(p) \/ DeleteDispatch(p)
             \/ CreateDispatch(p) \/ Stopped(p) \/ DispatchFails(p)
      PROVE  UNCHANGED task
  BY <1>7 DEF ToggleTranscript, ListDispatch, DeleteDispatch, CreateDispatch, Stopped,
              DispatchFails
<1>8. CASE UNCHANGED transcriptVars
  BY <1>1, <1>8 DEF transcriptVars
<1> QED
  BY <1>1, <1>3, <1>4, <1>5, <1>6, <1>7, <1>8 DEF TranscriptNext

LEMMA AskedStep == AskedTyped /\ [TranscriptNext]_transcriptVars => AskedTyped'
<1> SUFFICES ASSUME AskedTyped, [TranscriptNext]_transcriptVars PROVE AskedTyped'
  OBVIOUS
<1>0. \A p \in Panels :
        /\ asked[p] \in Requested
        /\ \A op \in {"start", "stop"} : [asked[p] EXCEPT !.op = op] \in Requested
        /\ \A todo \in SUBSET Ids :
             /\ [asked[p] EXCEPT !.todo = todo] \in Requested
             /\ [asked[p] EXCEPT !.at = "delete", !.todo = todo] \in Requested
  BY DEF AskedTyped, Requested
<1>1. Unasked \in Requested
  BY DEF Unasked, Requested
<1>2. dispatches \in SUBSET Ids
  BY TranscriptAssumption DEF AskedTyped, Ids
<1>3. ASSUME NEW p \in Panels, NEW r \in Requested, asked' = [asked EXCEPT ![p] = r]
      PROVE  asked' \in [Panels -> Requested]
  BY <1>3 DEF AskedTyped
<1>4. ASSUME NEW p \in Panels, ToggleTranscript(p) PROVE AskedTyped'
  <2> DEFINE op == IF toggle[p] THEN "stop" ELSE "start"
             r == [asked[p] EXCEPT !.op = op]
  <2>1. /\ toggle' = [toggle EXCEPT ![p] = ~toggle[p]] /\ asked' = [asked EXCEPT ![p] = r]
        /\ UNCHANGED <<dispatches, created>>
    BY <1>4 DEF ToggleTranscript, AskedTyped
  <2>2. r \in Requested
    <3>1. op \in {"start", "stop"}
      OBVIOUS
    <3> QED
      BY <1>0, <3>1
  <2>3. toggle' \in [Panels -> BOOLEAN]
    BY <2>1 DEF AskedTyped
  <2> HIDE DEF r
  <2> QED
    BY <1>3, <2>1, <2>2, <2>3 DEF AskedTyped
<1>5. ASSUME NEW p \in Panels, ListDispatch(p) PROVE AskedTyped'
  <2> DEFINE r == [asked[p] EXCEPT !.at = "delete", !.todo = dispatches]
  <2>1. asked' = [asked EXCEPT ![p] = r] /\ UNCHANGED <<dispatches, created, toggle>>
    BY <1>5 DEF ListDispatch, AskedTyped
  <2>2. r \in Requested
    BY <1>0, <1>2
  <2> HIDE DEF r
  <2> QED
    BY <1>3, <2>1, <2>2 DEF AskedTyped
<1>6. ASSUME NEW p \in Panels, DeleteDispatch(p) PROVE AskedTyped'
  <2>1. PICK d \in asked[p].todo :
          /\ asked' = [asked EXCEPT ![p].todo = asked[p].todo \ {d}]
          /\ dispatches' \in {dispatches, dispatches \ {d}}
          /\ UNCHANGED <<created, toggle>>
    BY <1>6 DEF DeleteDispatch, AskedTyped
  <2> DEFINE r == [asked[p] EXCEPT !.todo = asked[p].todo \ {d}]
  <2>2. asked' = [asked EXCEPT ![p] = r]
    BY <2>1 DEF AskedTyped
  <2>3. r \in Requested
    <3>1. asked[p].todo \ {d} \in SUBSET Ids
      BY <1>0 DEF Requested
    <3> QED
      BY <1>0, <3>1
  <2> HIDE DEF r
  <2>4. asked' \in [Panels -> Requested]
    BY <1>3, <2>2, <2>3
  <2> QED
    BY <2>1, <2>4 DEF AskedTyped
<1>7. ASSUME NEW p \in Panels, CreateDispatch(p) PROVE AskedTyped'
  <2>1. /\ created < MaxDispatches /\ created' = created + 1
        /\ dispatches' = dispatches \cup {created'}
        /\ asked' = [asked EXCEPT ![p] = Unasked] /\ UNCHANGED toggle
    BY <1>7 DEF CreateDispatch, Ended
  <2>2. created' \in 0..MaxDispatches /\ dispatches' \subseteq 1..created'
    BY <2>1, TranscriptAssumption DEF AskedTyped
  <2> QED
    BY <1>1, <1>3, <2>1, <2>2 DEF AskedTyped
<1>8. ASSUME NEW p \in Panels, Stopped(p) PROVE AskedTyped'
  BY <1>1, <1>3, <1>8 DEF Stopped, Ended, AskedTyped
<1>9. ASSUME NEW p \in Panels, DispatchFails(p) PROVE AskedTyped'
  <2>1. /\ toggle' = [toggle EXCEPT ![p] = (asked[p].op = "stop")]
        /\ asked' = [asked EXCEPT ![p] = Unasked] /\ UNCHANGED <<dispatches, created>>
    BY <1>9 DEF DispatchFails, Ended
  <2>2. toggle' \in [Panels -> BOOLEAN]
    BY <2>1 DEF AskedTyped
  <2> QED
    BY <1>1, <1>3, <2>1, <2>2 DEF AskedTyped
<1>10. CASE UNCHANGED <<dispatches, created, toggle, asked>>
  BY <1>10 DEF AskedTyped
<1>11. ASSUME NEW d \in Ids, NEW u \in Phrases,
              OnTranscript(d, u) \/ PublishTranscript(d, u) \/ PersistTranscript(d, u)
              \/ Cancelled(d)
       PROVE  UNCHANGED <<dispatches, created, toggle, asked>>
  BY <1>11 DEF OnTranscript, PublishTranscript, PersistTranscript, Cancelled
<1>12. ASSUME NEW d \in Ids, Cancelled(d)
       PROVE  UNCHANGED <<dispatches, created, toggle, asked>>
  BY <1>12 DEF Cancelled
<1>13. CASE UNCHANGED transcriptVars
  BY <1>10, <1>13 DEF transcriptVars
<1> QED
  BY <1>4, <1>5, <1>6, <1>7, <1>8, <1>9, <1>10, <1>11, <1>12, <1>13 DEF TranscriptNext

-----------------------------------------------------------------------------
(* The media session: whoever joins crosses what is under way.             *)

\* Calls under way at a time are crossed.
Alone ==
  \A i, j \in Joins : i # j /\ UnderWay(i) /\ UnderWay(j) => i \in crossed /\ j \in crossed

\* A call that has no room yet finds no connected room, but for crossed ones.
Before ==
  \A j, r \in Joins : phase[j] \in {"closing", "token"} /\ Live(r) => r \in crossed

ReachInv ==
  /\ phase \in [Joins -> {"none", "closing", "token", "connecting", "audio", "video",
                          "failing", "done"}]
  /\ conn \in [Joins -> {"none", "connecting", "connected", "reconnecting", "closing",
                         "closed"}]
  /\ crossed \subseteq Joins
  /\ Alone /\ Before /\ RoomsWithinReach

LEMMA MediaInitReach == MediaInit => ReachInv
  BY DEF MediaInit, ReachInv, Alone, Before, RoomsWithinReach, UnderWay, Live

\* Steps of one call that has begun, and of its room.
LEMMA CallReach ==
  ASSUME NEW j \in Joins, ReachInv, UnderWay(j),
         NEW p, phase' = [phase EXCEPT ![j] = p], UNCHANGED <<conn, crossed>>,
         p \in {"token", "audio", "video", "done"},
         p = "token" => phase[j] = "closing",
         roomRef' = roomRef \/ p = "token"
  PROVE  ReachInv'
<1>1. \A i \in Joins : phase'[i] = IF i = j THEN p ELSE phase[i]
  BY DEF ReachInv
<1>2. \A i \in Joins : UnderWay(i)' => UnderWay(i)
  BY <1>1 DEF UnderWay
<1>3. \A i \in Joins : phase'[i] \in {"closing", "token"} => phase[i] \in {"closing", "token"}
  BY <1>1
<1>4. \A r \in Joins : Live(r)' <=> Live(r)
  BY DEF Live
<1>5. RoomsWithinReach'
  <2>1. CASE p = "token"
    BY <2>1, <1>4 DEF ReachInv, Before, RoomsWithinReach
  <2>2. CASE roomRef' = roomRef
    BY <2>2, <1>4 DEF ReachInv, RoomsWithinReach
  <2> QED
    BY <2>1, <2>2
<1> QED
  BY <1>1, <1>2, <1>3, <1>4, <1>5 DEF ReachInv, Alone, Before

\* Steps that connect no room and let roomRef go only with what it holds.
LEMMA RoomsEnd ==
  ASSUME ReachInv, crossed \subseteq crossed', crossed' \subseteq Joins,
         conn' \in [Joins -> {"none", "connecting", "connected", "reconnecting", "closing",
                              "closed"}],
         \A r \in Joins : Live(r)' => Live(r) /\ (roomRef' = roomRef \/ roomRef # r)
  PROVE  /\ RoomsWithinReach'
         /\ UNCHANGED phase => ReachInv'
<1>1. RoomsWithinReach'
  BY DEF ReachInv, RoomsWithinReach
<1>2. ASSUME UNCHANGED phase PROVE Alone' /\ Before'
  BY <1>2 DEF ReachInv, Alone, Before, UnderWay
<1> QED
  BY <1>1, <1>2 DEF ReachInv

LEMMA DisconnectEnds ==
  ASSUME ReachInv,
         NEW c \in [Joins -> {"none", "connecting", "connected", "reconnecting", "closing",
                              "closed"}],
         \A r \in Joins : c[r] \in {"connecting", "connected", "reconnecting"} => Live(r),
         conn' = DisconnectRoom(c, roomRef)
  PROVE  /\ conn' \in [Joins -> {"none", "connecting", "connected", "reconnecting", "closing",
                                 "closed"}]
         /\ \A r \in Joins : Live(r)' => Live(r) /\ roomRef # r
         /\ \A r \in Joins : Live(r)' => r \in crossed
  BY DEF DisconnectRoom, Live, ReachInv, RoomsWithinReach

LEMMA JoinReach ==
  ASSUME NEW j \in Joins, ReachInv, JoinMedia(j) PROVE ReachInv'
<1>1. crossed \subseteq crossed' /\ crossed' \subseteq Joins
  BY DEF JoinMedia, Cross, ReachInv
<1>2. /\ conn' \in [Joins -> {"none", "connecting", "connected", "reconnecting", "closing",
                              "closed"}]
      /\ \A r \in Joins : Live(r)' => Live(r) /\ roomRef # r
      /\ \A r \in Joins : Live(r)' => r \in crossed
  <2>1. \A r \in Joins : conn[r] \in {"connecting", "connected", "reconnecting"} => Live(r)
    BY DEF Live
  <2> QED
    BY <2>1, DisconnectEnds DEF JoinMedia, ReachInv
<1>3. /\ phase[j] = "none"
      /\ \E p \in {"token", "closing"} : phase' = [phase EXCEPT ![j] = p]
  BY DEF JoinMedia
<1>4. /\ phase' \in [Joins -> {"none", "closing", "token", "connecting", "audio", "video",
                               "failing", "done"}]
      /\ \A i \in Joins : i # j => phase'[i] = phase[i]
  BY <1>3 DEF ReachInv
<1>5. Alone'
  <2>1. ASSUME NEW i \in Joins, UnderWay(i) PROVE i \in crossed' /\ j \in crossed'
    BY <2>1 DEF JoinMedia, Cross
  <2>2. \A i \in Joins : i # j /\ UnderWay(i)' => UnderWay(i)
    BY <1>4 DEF UnderWay
  <2> QED
    BY <2>1, <2>2 DEF Alone
<1>6. Before' /\ RoomsWithinReach'
  BY <1>1, <1>2 DEF Before, RoomsWithinReach
<1> QED
  BY <1>1, <1>2, <1>4, <1>5, <1>6 DEF ReachInv

LEMMA CreateReach ==
  ASSUME NEW j \in Joins, ReachInv, CreateMediaRoom(j) PROVE ReachInv'
<1>1. /\ phase[j] = "token" /\ roomRef' = j /\ crossed' = crossed
      /\ phase' = [phase EXCEPT ![j] = "connecting"]
      /\ conn' = [conn EXCEPT ![j] = "connecting"]
  BY DEF CreateMediaRoom
<1>2. /\ phase'[j] = "connecting" /\ conn'[j] = "connecting"
      /\ \A i \in Joins : i # j => phase'[i] = phase[i] /\ conn'[i] = conn[i]
      /\ phase' \in [Joins -> {"none", "closing", "token", "connecting", "audio", "video",
                               "failing", "done"}]
      /\ conn' \in [Joins -> {"none", "connecting", "connected", "reconnecting", "closing",
                              "closed"}]
  BY <1>1 DEF ReachInv
<1>3. UnderWay(j) /\ \A i \in Joins : UnderWay(i)' => UnderWay(i)
  BY <1>1, <1>2 DEF UnderWay
<1>4. \A r \in Joins : r # j /\ Live(r)' => r \in crossed
  BY <1>1, <1>2 DEF Live, ReachInv, Before
<1>5. \A i \in Joins : phase'[i] \in {"closing", "token"} => j \in crossed
  BY <1>1, <1>2, <1>3 DEF ReachInv, Alone, UnderWay
<1>6. Alone'
  BY <1>1, <1>3 DEF ReachInv, Alone
<1>7. Before' /\ RoomsWithinReach'
  BY <1>1, <1>4, <1>5 DEF Before, RoomsWithinReach
<1> QED
  BY <1>1, <1>2, <1>6, <1>7 DEF ReachInv

LEMMA FailReach ==
  ASSUME NEW j \in Joins, ReachInv, JoinFails(j) PROVE ReachInv'
<1>1. \E c : /\ c = conn \/ c = [conn EXCEPT ![j] = "closed"]
             /\ conn' = DisconnectRoom(c, roomRef)
  BY DEF JoinFails
<1>2. PICK c : /\ c = conn \/ c = [conn EXCEPT ![j] = "closed"]
               /\ conn' = DisconnectRoom(c, roomRef)
  BY <1>1
<1>3. c \in [Joins -> {"none", "connecting", "connected", "reconnecting", "closing",
                       "closed"}]
  BY <1>2 DEF ReachInv
<1>4. \A r \in Joins : c[r] \in {"connecting", "connected", "reconnecting"} => Live(r)
  BY <1>2 DEF ReachInv, Live
<1>5. /\ conn' \in [Joins -> {"none", "connecting", "connected", "reconnecting", "closing",
                              "closed"}]
      /\ \A r \in Joins : Live(r)' => Live(r) /\ roomRef # r
  BY <1>2, <1>3, <1>4, DisconnectEnds
<1>6. /\ crossed' = crossed /\ UnderWay(j)
      /\ \E p \in {"done", "failing"} : phase' = [phase EXCEPT ![j] = p]
  BY DEF JoinFails, UnderWay
<1>7. /\ phase' \in [Joins -> {"none", "closing", "token", "connecting", "audio", "video",
                               "failing", "done"}]
      /\ phase'[j] \notin {"closing", "token"}
      /\ \A i \in Joins : i # j => phase'[i] = phase[i]
  BY <1>6 DEF ReachInv
<1>8. RoomsWithinReach'
  BY <1>5, <1>6, RoomsEnd DEF ReachInv
<1>9. Alone' /\ Before'
  <2>1. \A i \in Joins : UnderWay(i)' => UnderWay(i)
    BY <1>6, <1>7 DEF UnderWay
  <2> QED
    BY <2>1, <1>5, <1>6, <1>7 DEF ReachInv, Alone, Before
<1> QED
  BY <1>5, <1>6, <1>7, <1>8, <1>9 DEF ReachInv

LEMMA ResetReach == ASSUME ReachInv, ResetPanel PROVE ReachInv'
<1>1. crossed \subseteq crossed' /\ crossed' \subseteq Joins /\ UNCHANGED phase
  BY DEF ResetPanel, Cross, ReachInv
<1>2. \A r \in Joins : conn[r] \in {"connecting", "connected", "reconnecting"} => Live(r)
  BY DEF Live
<1>3. /\ conn' \in [Joins -> {"none", "connecting", "connected", "reconnecting", "closing",
                              "closed"}]
      /\ \A r \in Joins : Live(r)' => Live(r) /\ roomRef # r
  BY <1>2, DisconnectEnds DEF ResetPanel, ReachInv
<1> QED
  BY <1>1, <1>3, RoomsEnd

\* What a room's own connection does.
LEMMA WaverReach ==
  ASSUME NEW r \in Joins, ReachInv, Live(r),
         NEW c \in {"connected", "reconnecting", "closed"}, conn' = [conn EXCEPT ![r] = c],
         UNCHANGED <<phase, crossed, roomRef>>
  PROVE  ReachInv'
<1>1. /\ conn' \in [Joins -> {"none", "connecting", "connected", "reconnecting", "closing",
                              "closed"}]
      /\ \A s \in Joins : Live(s)' => Live(s)
  BY DEF ReachInv, Live
<1> QED
  BY <1>1, RoomsEnd DEF ReachInv

LEMMA ConnectReach == ASSUME NEW j \in Joins, ReachInv, RoomConnects(j) PROVE ReachInv'
<1>1. /\ phase[j] = "connecting" /\ conn[j] = "connecting"
      /\ phase' = [phase EXCEPT ![j] = "audio"] /\ conn' = [conn EXCEPT ![j] = "connected"]
      /\ UNCHANGED <<crossed, roomRef>>
  BY DEF RoomConnects
<1>2. /\ phase' \in [Joins -> {"none", "closing", "token", "connecting", "audio", "video",
                               "failing", "done"}]
      /\ conn' \in [Joins -> {"none", "connecting", "connected", "reconnecting", "closing",
                              "closed"}]
      /\ phase'[j] = "audio" /\ \A i \in Joins : i # j => phase'[i] = phase[i]
      /\ \A s \in Joins : Live(s)' => Live(s)
      /\ \A i \in Joins : UnderWay(i)' => UnderWay(i)
  BY <1>1 DEF ReachInv, Live, UnderWay
<1> QED
  BY <1>1, <1>2 DEF ReachInv, Alone, Before, RoomsWithinReach

LEMMA SameReach ==
  ASSUME ReachInv, UNCHANGED <<phase, conn, crossed, roomRef>> PROVE ReachInv'
  BY DEF ReachInv, Alone, Before, RoomsWithinReach, UnderWay, Live

LEMMA MediaStep == ReachInv /\ [MediaNext]_mediaVars => ReachInv'
<1> SUFFICES ASSUME ReachInv, [MediaNext]_mediaVars PROVE ReachInv'
  OBVIOUS
<1>1. ASSUME NEW r \in Joins, RoomCloses(r) PROVE ReachInv'
  <2>1. conn' = [conn EXCEPT ![r] = "closed"] /\ UNCHANGED <<phase, crossed, roomRef>>
    BY <1>1 DEF RoomCloses
  <2>2. /\ conn' \in [Joins -> {"none", "connecting", "connected", "reconnecting", "closing",
                                "closed"}]
        /\ \A s \in Joins : Live(s)' => Live(s)
    BY <2>1 DEF ReachInv, Live
  <2> QED
    BY <2>1, <2>2, RoomsEnd DEF ReachInv
<1>2. ASSUME NEW r \in Joins, ConnectionWavers(r) PROVE ReachInv'
  <2>1. /\ Live(r) /\ UNCHANGED <<phase, crossed, roomRef>>
        /\ \E c \in {"connected", "reconnecting", "closed"} : conn' = [conn EXCEPT ![r] = c]
    BY <1>2 DEF ConnectionWavers, Live
  <2> QED
    BY <2>1, WaverReach
<1>3. ASSUME NEW r \in Joins, Refresh(r) \/ MediaDevicesError(r) PROVE ReachInv'
  BY <1>3, SameReach DEF Refresh, MediaDevicesError
<1>4. ASSUME NEW j \in Joins, OldRoomClosed(j) PROVE ReachInv'
  BY <1>4, CallReach DEF OldRoomClosed, UnderWay
<1>5. ASSUME NEW j \in Joins, DeviceStarts(j) PROVE ReachInv'
  <2>1. /\ UnderWay(j) /\ UNCHANGED <<conn, crossed, roomRef>>
        /\ \E p \in {"video", "done"} : phase' = [phase EXCEPT ![j] = p]
    BY <1>5 DEF DeviceStarts, UnderWay
  <2> QED
    BY <2>1, CallReach
<1>6. ASSUME NEW j \in Joins, FailedRoomClosed(j) PROVE ReachInv'
  BY <1>6, CallReach DEF FailedRoomClosed, UnderWay
<1>7. CASE Mounted
  BY <1>7, SameReach DEF Mounted
<1>8. CASE LeaveMedia \/ Unmount
  BY <1>8, ResetReach DEF LeaveMedia, Unmount
<1>9. ASSUME NEW device, NEW of, NEW on, NEW next, Press(device, of, on, next)
      PROVE ReachInv'
  BY <1>9, SameReach DEF Press
<1>10. CASE (\E d \in Devices : Toggle(d)) \/ ResumeAudio \/ ToggleNoiseSuppression
  BY <1>9, <1>10 DEF Toggle, ResumeAudio, ToggleNoiseSuppression
<1>11. ASSUME NEW b \in switching, Switched(b) PROVE ReachInv'
  BY <1>11, SameReach DEF Switched
<1>12. CASE UNCHANGED mediaVars
  BY <1>12, SameReach DEF mediaVars
<1> QED
  BY <1>1, <1>2, <1>3, <1>4, <1>5, <1>6, <1>7, <1>8, <1>10, <1>11, <1>12,
     JoinReach, CreateReach, ConnectReach, FailReach DEF MediaNext

\* A room that is connected is in roomRef, so that leaving ends it, unless its join
\* crossed with another one, with leaving or with the panel's end.
THEOREM AlwaysWithinReach == MediaSpec => []RoomsWithinReach
<1>1. ReachInv => RoomsWithinReach
  BY DEF ReachInv
<1> QED
  BY <1>1, MediaInitReach, MediaStep, PTL DEF MediaSpec

-----------------------------------------------------------------------------
(* The media session: the types.                                           *)

Views ==
  [room : 0..MaxCalls, devices : SUBSET Devices,
   status : {"idle", "joining", "connected", "reconnecting", "disconnected", "failed"}]

MediaTyped ==
  /\ closes \in [Joins -> 0..MaxCalls]
  /\ devices \in [Joins -> SUBSET Devices]
  /\ roomRef \in 0..MaxCalls /\ view \in Views
  /\ switching \subseteq Buttons
  /\ mishaps \in 0..MaxMishaps /\ switches \in 0..MaxSwitches

FlagsTyped ==
  /\ autoJoin \in BOOLEAN /\ blocked \in BOOLEAN /\ denoise \in BOOLEAN
  /\ mounted \in BOOLEAN /\ attempted \in BOOLEAN

LEMMA MediaTypes == ReachInv /\ MediaTyped /\ FlagsTyped => MediaTypeOK
  BY DEF ReachInv, MediaTyped, FlagsTyped, MediaTypeOK, Views

LEMMA MediaInitTyped == MediaInit => MediaTyped /\ FlagsTyped
<1> SUFFICES ASSUME MediaInit PROVE MediaTyped /\ FlagsTyped
  OBVIOUS
<1>1. view \in Views
  BY MediaAssumption DEF MediaInit, Views
<1>2. MediaTyped
  BY <1>1, MediaAssumption DEF MediaInit, MediaTyped
<1>3. FlagsTyped
  BY DEF MediaInit, FlagsTyped
<1> QED
  BY <1>2, <1>3

LEMMA ViewFields ==
  ASSUME MediaTyped, NEW r \in 0..MaxCalls, NEW d \in SUBSET Devices,
         NEW s \in {"idle", "joining", "connected", "reconnecting", "disconnected", "failed"}
  PROVE  /\ [view EXCEPT !.status = s] \in Views
         /\ [view EXCEPT !.room = r] \in Views
         /\ [view EXCEPT !.room = r, !.status = s] \in Views
         /\ [view EXCEPT !.status = s, !.devices = d] \in Views
         /\ [room |-> r, status |-> s, devices |-> d] \in Views
  BY DEF MediaTyped, Views

LEMMA Synced ==
  ASSUME MediaTyped, NEW r, NEW d \in SUBSET Devices,
         NEW c \in {"none", "connecting", "connected", "reconnecting", "closing", "closed"}
  PROVE  SyncRoomState(r, c, d) \in Views
<1>1. MediaStatus(c) \in {"connected", "reconnecting", "joining", "disconnected"}
  BY DEF MediaStatus
<1> QED
  BY <1>1, ViewFields DEF SyncRoomState, MediaTyped

LEMMA Disconnected == AfterDisconnected \in Views
  BY MediaAssumption DEF AfterDisconnected, Views

LEMMA MishapTyped ==
  ASSUME MediaTyped, Mishap \/ UNCHANGED mishaps PROVE mishaps' \in 0..MaxMishaps
  BY MediaAssumption DEF MediaTyped, Mishap

LEMMA FlagsStep == MediaTyped /\ FlagsTyped /\ [MediaNext]_mediaVars => FlagsTyped'
<1> SUFFICES ASSUME MediaTyped, FlagsTyped, [MediaNext]_mediaVars PROVE FlagsTyped'
  OBVIOUS
<1>1. ASSUME NEW r \in Joins,
             RoomCloses(r) \/ ConnectionWavers(r) \/ Refresh(r) \/ MediaDevicesError(r)
      PROVE  FlagsTyped'
  BY <1>1 DEF RoomCloses, ConnectionWavers, Refresh, MediaDevicesError, FlagsTyped
<1>2. ASSUME NEW j \in Joins,
             \/ JoinMedia(j) \/ OldRoomClosed(j) \/ CreateMediaRoom(j) \/ RoomConnects(j)
             \/ JoinFails(j) \/ FailedRoomClosed(j)
      PROVE  FlagsTyped'
  BY <1>2 DEF JoinMedia, OldRoomClosed, CreateMediaRoom, RoomConnects, JoinFails,
              FailedRoomClosed, FlagsTyped
<1>3. ASSUME NEW j \in Joins, DeviceStarts(j) PROVE FlagsTyped'
  BY <1>3 DEF DeviceStarts, FlagsTyped
<1>4. CASE Mounted \/ LeaveMedia \/ Unmount
  BY <1>4 DEF Mounted, LeaveMedia, Unmount, ResetPanel, FlagsTyped
<1>5. CASE (\E d \in Devices : Toggle(d)) \/ ResumeAudio \/ ToggleNoiseSuppression
  BY <1>5 DEF Toggle, ResumeAudio, ToggleNoiseSuppression, Press, FlagsTyped
<1>6. ASSUME NEW b \in switching, Switched(b) PROVE FlagsTyped'
  <2>1. b.next \in BOOLEAN
    BY <1>6 DEF MediaTyped, Buttons
  <2> QED
    BY <1>6, <2>1 DEF Switched, FlagsTyped
<1>7. CASE UNCHANGED mediaVars
  BY <1>7 DEF mediaVars, FlagsTyped
<1> QED
  BY <1>1, <1>2, <1>3, <1>4, <1>5, <1>6, <1>7 DEF MediaNext

LEMMA ConnTyped ==
  ASSUME ReachInv, NEW r \in Joins
  PROVE  conn[r] \in {"none", "connecting", "connected", "reconnecting", "closing", "closed"}
  BY DEF ReachInv

LEMMA PressTyped ==
  ASSUME MediaTyped, NEW device \in Devices, NEW of \in {"toggle", "resume", "denoise"},
         NEW on \in BOOLEAN, NEW next \in BOOLEAN, Press(device, of, on, next)
  PROVE  MediaTyped'
<1>1. roomRef \in Joins
  BY MediaAssumption DEF Press, MediaTyped, Joins
<1>2. [room |-> roomRef, device |-> device, on |-> on, of |-> of, next |-> next] \in Buttons
  BY <1>1 DEF Buttons
<1>3. switching' \subseteq Buttons
  BY <1>2 DEF Press, MediaTyped
<1>4. switches' \in 0..MaxSwitches
  BY MediaAssumption DEF Press, MediaTyped
<1> QED
  BY <1>3, <1>4 DEF Press, MediaTyped

LEMMA MediaTypedStep ==
  ReachInv /\ MediaTyped /\ FlagsTyped /\ [MediaNext]_mediaVars => MediaTyped'
<1> SUFFICES ASSUME ReachInv, MediaTyped, FlagsTyped, [MediaNext]_mediaVars PROVE MediaTyped'
  OBVIOUS
<1>0. 0 \in 0..MaxCalls /\ Joins \subseteq 0..MaxCalls
  BY MediaAssumption DEF Joins
<1>1. ASSUME NEW r \in Joins, RoomCloses(r) PROVE MediaTyped'
  <2>1. devices' = [devices EXCEPT ![r] = {}] /\ view' = AfterDisconnected
        /\ UNCHANGED <<closes, roomRef, switching, switches>>
        /\ (Mishap \/ UNCHANGED mishaps)
    BY <1>1 DEF RoomCloses
  <2> QED
    BY <2>1, Disconnected, MishapTyped DEF MediaTyped
<1>2. ASSUME NEW r \in Joins, ConnectionWavers(r) PROVE MediaTyped'
  <2>1. /\ view' = SyncRoomState(r, conn'[r], devices[r])
        /\ UNCHANGED <<closes, devices, roomRef, switching, switches>>
        /\ (Mishap \/ UNCHANGED mishaps)
    BY <1>2 DEF ConnectionWavers
  <2>2. conn'[r] \in {"none", "connecting", "connected", "reconnecting", "closing", "closed"}
    BY <1>2 DEF ConnectionWavers, ReachInv
  <2>3. devices[r] \in SUBSET Devices
    BY DEF MediaTyped
  <2>4. view' \in Views
    <3> DEFINE c == conn'[r]
               d == devices[r]
    <3>1. c \in {"none", "connecting", "connected", "reconnecting", "closing", "closed"}
          /\ d \in SUBSET Devices /\ view' = SyncRoomState(r, c, d)
      BY <2>1, <2>2, <2>3
    <3> HIDE DEF c, d
    <3> QED
      BY <3>1, Synced
  <2> QED
    BY <2>1, <2>4, MishapTyped DEF MediaTyped
<1>3. ASSUME NEW r \in Joins, Refresh(r) \/ MediaDevicesError(r) PROVE MediaTyped'
  <2>1. /\ UNCHANGED <<closes, devices, roomRef, switching, switches>>
        /\ (Mishap \/ UNCHANGED mishaps)
    BY <1>3 DEF Refresh, MediaDevicesError
  <2>2. view' \in Views
    <3>1. CASE Refresh(r)
      <4>1. devices[r] \in SUBSET Devices
        BY DEF MediaTyped
      <4> QED
        BY <3>1, <4>1, ConnTyped, Synced DEF Refresh
    <3>2. CASE MediaDevicesError(r)
      BY <1>0, <3>2, ViewFields DEF MediaDevicesError
    <3> QED
      BY <1>3, <3>1, <3>2
  <2> QED
    BY <2>1, <2>2, MishapTyped DEF MediaTyped
<1>4. ASSUME NEW j \in Joins, JoinMedia(j) PROVE MediaTyped'
  <2>1. /\ view' = [view EXCEPT !.status = "joining"]
        /\ closes' = [closes EXCEPT ![j] = roomRef]
        /\ UNCHANGED <<devices, roomRef, switching, mishaps, switches>>
    BY <1>4 DEF JoinMedia
  <2> QED
    BY <1>0, <2>1, ViewFields DEF MediaTyped
<1>5. ASSUME NEW j \in Joins, OldRoomClosed(j) PROVE MediaTyped'
  BY <1>0, <1>5 DEF OldRoomClosed, MediaTyped
<1>6. ASSUME NEW j \in Joins, CreateMediaRoom(j) PROVE MediaTyped'
  <2>1. /\ view' = [view EXCEPT !.room = j, !.status = "joining"] /\ roomRef' = j
        /\ UNCHANGED <<closes, devices, switching, mishaps, switches>>
    BY <1>6 DEF CreateMediaRoom
  <2>2. j \in 0..MaxCalls
    BY <1>0
  <2>3. view' \in Views
    BY <2>1, <2>2, ViewFields
  <2> QED
    BY <2>1, <2>2, <2>3 DEF MediaTyped
<1>7. ASSUME NEW j \in Joins, RoomConnects(j) PROVE MediaTyped'
  <2>1. /\ view' = SyncRoomState(j, "connected", {})
        /\ UNCHANGED <<closes, devices, roomRef, switching, mishaps, switches>>
    BY <1>7 DEF RoomConnects
  <2>2. view' \in Views
    BY <2>1, Synced
  <2> QED
    BY <2>1, <2>2 DEF MediaTyped
<1>8. ASSUME NEW j \in Joins, DeviceStarts(j) PROVE MediaTyped'
  <2>1. /\ UNCHANGED <<closes, roomRef, switching, switches>>
        /\ (Mishap \/ UNCHANGED mishaps)
        /\ \/ UNCHANGED <<devices, view>>
           \/ /\ \E d \in {"mic", "cam"} :
                   devices' = [devices EXCEPT ![j] = devices[j] \cup {d}]
              /\ view' = SyncRoomState(j, conn[j], devices'[j])
    BY <1>8 DEF DeviceStarts
  <2>2. devices' \in [Joins -> SUBSET Devices]
    BY <2>1 DEF MediaTyped, Devices
  <2>3. view' \in Views
    <3>1. CASE view' = SyncRoomState(j, conn[j], devices'[j])
      <4> DEFINE d == devices'[j]
      <4>1. d \in SUBSET Devices /\ view' = SyncRoomState(j, conn[j], d)
        BY <2>2, <3>1
      <4> HIDE DEF d
      <4> QED
        BY <4>1, ConnTyped, Synced
    <3> QED
      BY <2>1, <3>1 DEF MediaTyped
  <2> QED
    BY <2>1, <2>2, <2>3, MishapTyped DEF MediaTyped
<1>9. ASSUME NEW j \in Joins, JoinFails(j) PROVE MediaTyped'
  <2>1. /\ UNCHANGED <<devices, switching, switches>> /\ roomRef' = 0
        /\ closes' = [closes EXCEPT ![j] = roomRef] /\ (Mishap \/ UNCHANGED mishaps)
    BY <1>9 DEF JoinFails
  <2>2. view' \in Views
    <3>1. \E v : /\ v = AfterDisconnected \/ v = [view EXCEPT !.room = 0]
                 /\ view' = v \/ view' = [v EXCEPT !.status = "failed"]
      BY <1>9 DEF JoinFails
    <3>2. PICK v : /\ v = AfterDisconnected \/ v = [view EXCEPT !.room = 0]
                   /\ view' = v \/ view' = [v EXCEPT !.status = "failed"]
      BY <3>1
    <3>3. v \in Views
      BY <1>0, <3>2, Disconnected, ViewFields
    <3> QED
      BY <3>2, <3>3 DEF Views
  <2> QED
    BY <1>0, <2>1, <2>2, MishapTyped DEF MediaTyped
<1>10. ASSUME NEW j \in Joins, FailedRoomClosed(j) PROVE MediaTyped'
  <2>1. view' \in Views
    BY <1>0, <1>10, ViewFields DEF FailedRoomClosed
  <2> QED
    BY <1>10, <2>1 DEF FailedRoomClosed, MediaTyped
<1>11. CASE Mounted
  BY <1>11 DEF Mounted, MediaTyped
<1>12. CASE LeaveMedia \/ Unmount
  <2>1. ResetPanel
    BY <1>12 DEF LeaveMedia, Unmount
  <2>2. view' \in Views
    BY <1>0, <2>1, ViewFields DEF ResetPanel
  <2> QED
    BY <1>0, <2>1, <2>2 DEF ResetPanel, MediaTyped
<1>13. CASE (\E d \in Devices : Toggle(d)) \/ ResumeAudio \/ ToggleNoiseSuppression
  <2>1. CASE \E d \in Devices : Toggle(d)
    <3>1. PICK d \in Devices : Toggle(d)
      BY <2>1
    <3> DEFINE on == d \notin devices[roomRef]
    <3>2. on \in BOOLEAN /\ Press(d, "toggle", on, FALSE)
      BY <3>1 DEF Toggle
    <3> HIDE DEF on
    <3> QED
      BY <3>2, PressTyped
  <2>2. CASE ResumeAudio
    BY <2>2, PressTyped DEF ResumeAudio, Devices
  <2>3. CASE ToggleNoiseSuppression
    <3> DEFINE on == ~denoise \/ "mic" \in devices[roomRef]
               next == ~denoise
    <3>1. on \in BOOLEAN /\ next \in BOOLEAN /\ Press("mic", "denoise", on, next)
      BY <2>3 DEF ToggleNoiseSuppression
    <3> HIDE DEF on, next
    <3> QED
      BY <3>1, PressTyped DEF Devices
  <2> QED
    BY <1>13, <2>1, <2>2, <2>3
<1>14. ASSUME NEW b \in switching, Switched(b) PROVE MediaTyped'
  <2>1. b.room \in Joins /\ b.device \in Devices
    BY DEF MediaTyped, Buttons
  <2>2. /\ UNCHANGED <<closes, roomRef, switches>> /\ switching' \subseteq switching
        /\ (Mishap \/ UNCHANGED mishaps)
    BY <1>14 DEF Switched
  <2> DEFINE r == b.room
             on == [devices EXCEPT ![r] = devices[r] \cup {b.device}]
             off == [devices EXCEPT ![r] = devices[r] \ {b.device}]
  <2>3. \/ UNCHANGED <<devices, view>>
        \/ /\ devices' = on \/ devices' = off
           /\ view' = SyncRoomState(r, conn[r], devices'[r])
    BY <1>14 DEF Switched
  <2>4. on \in [Joins -> SUBSET Devices] /\ off \in [Joins -> SUBSET Devices]
    BY <2>1 DEF MediaTyped
  <2> HIDE DEF on, off
  <2>5. devices' \in [Joins -> SUBSET Devices]
    BY <2>3, <2>4 DEF MediaTyped
  <2>6. view' \in Views
    <3> DEFINE d == devices'[r]
    <3>1. d \in SUBSET Devices /\ (view' = view \/ view' = SyncRoomState(r, conn[r], d))
      BY <2>1, <2>3, <2>5
    <3>2. conn[r] \in {"none", "connecting", "connected", "reconnecting", "closing", "closed"}
      BY <2>1, ConnTyped
    <3> HIDE DEF d, r
    <3> QED
      BY <3>1, <3>2, Synced DEF MediaTyped
  <2> QED
    BY <2>2, <2>5, <2>6, MishapTyped DEF MediaTyped
<1>15. CASE UNCHANGED mediaVars
  BY <1>15 DEF mediaVars, MediaTyped
<1> QED
  BY <1>1, <1>2, <1>3, <1>4, <1>5, <1>6, <1>7, <1>8, <1>9, <1>10, <1>11, <1>12, <1>13, <1>14,
     <1>15 DEF MediaNext

-----------------------------------------------------------------------------
(* The canvas pane: the types.                                             *)

ObjectStates == [props : Props, posAt : Nat, goneAt : Nat]

Gestures ==
  [tool : Tools \cup {"none"}, start : Props, pos : Nat, moves : 0..MaxMoves, group : Nat,
   unsent : BOOLEAN, missed : BOOLEAN]

RestTyped ==
  /\ now \in Nat /\ lag \in [Browsers -> Lags] /\ kind \in {"none", "points", "box"}
  /\ base \in [Browsers -> Props] /\ uses \in 0..MaxUses

\* A pointer never moves back behind where its gesture began.
GestureTyped ==
  /\ gesture \in [Browsers -> Gestures]
  /\ \A b \in Browsers : gesture[b].start.pos <= gesture[b].pos

StackTyped == undos \in [Browsers -> Seq(Entries)] /\ redos \in [Browsers -> Seq(Entries)]

QueuesTyped == up \in [Browsers -> Seq(Frames)] /\ inbox \in [Browsers -> Seq(Frames)]

SavedTyped ==
  /\ saved \in [props : Props, at : Nat, by : Nat] /\ stamps \in [Browsers -> Nat]
  /\ loading \in [Browsers -> Loads \cup {Absent}] /\ astray \subseteq Browsers

ShownTyped == shown \in [Browsers -> ObjectStates]

PaneTyped ==
  RestTyped /\ ShownTyped /\ GestureTyped /\ StackTyped /\ QueuesTyped /\ SavedTyped

LEMMA PaneTypes == PaneTyped => PaneTypeOK
  BY DEF PaneTyped, RestTyped, ShownTyped, GestureTyped, StackTyped, QueuesTyped, SavedTyped,
         ObjectStates, Gestures, PaneTypeOK

LEMMA PropsType ==
  /\ None \in Props
  /\ \A n \in Nat, g \in {"unset", "no", "yes"} : [pos |-> n, gone |-> g] \in Props
  /\ \A n \in Nat : At(n) \in Props
  /\ \A p \in Props, n \in Nat : [p EXCEPT !.pos = n] \in Props
  /\ \A p \in Props : [p EXCEPT !.gone = "yes"] \in Props
  /\ \A p \in Props : p.pos \in Nat /\ p.gone \in {"unset", "no", "yes"}
  BY DEF None, Props, At

LEMMA StrideType == \A b \in Browsers : Stride(b) \in Nat /\ b \in Nat
  BY PaneAssumption DEF Stride

LEMMA FrameType ==
  ASSUME NEW b \in Browsers, NEW type \in {"object", "translate", "load"}, NEW p \in Props
  PROVE  Frame(b, type, p) \in Frames
  BY StrideType DEF Frame, Frames

LEMMA EntryType ==
  ASSUME NEW m \in Nat, NEW n \in Nat, NEW g \in Nat
  PROVE  Entry(m, n, g) \in Seq(Entries)
<1>1. [before |-> m, after |-> n, group |-> g] \in Entries
  BY DEF Entries
<1> QED
  BY <1>1 DEF Entry

LEMMA ApplyType ==
  ASSUME NEW o \in ObjectStates, NEW p \in Props, NEW time \in Int
  PROVE  ApplyUpdate(o, p, time) \in ObjectStates
<1> DEFINE takesPos == p.pos # 0 /\ time >= o.posAt
           takesGone == p.gone # "unset" /\ time >= o.goneAt
           q == [pos |-> IF takesPos THEN p.pos ELSE o.props.pos,
                 gone |-> IF takesGone THEN p.gone ELSE o.props.gone]
           m == IF takesPos THEN time ELSE o.posAt
           n == IF takesGone THEN time ELSE o.goneAt
<1>1. ApplyUpdate(o, p, time) = [props |-> q, posAt |-> m, goneAt |-> n]
  BY DEF ApplyUpdate
<1>2. o.props \in Props /\ o.posAt \in Nat /\ o.goneAt \in Nat
  BY DEF ObjectStates
<1>3. m \in Nat /\ n \in Nat
  BY <1>2
<1>4. q \in Props
  BY <1>2, PropsType
<1> HIDE DEF q, m, n
<1> QED
  BY <1>1, <1>3, <1>4 DEF ObjectStates

\* What is done to the store of one browser at its own time.
LEMMA UpsertType ==
  ASSUME RestTyped, ShownTyped, NEW b \in Browsers, NEW p \in Props
  PROVE  UpsertObject(b, p) \in [Browsers -> ObjectStates]
<1>1. LocalTime(b) \in Int
  <2>1. now \in Nat /\ lag[b] \in Lags
    BY DEF RestTyped
  <2>2. lag[b] \in Int
    BY <2>1, PaneAssumption
  <2> QED
    BY <2>1, <2>2 DEF LocalTime
<1>2. shown[b] \in ObjectStates
  BY DEF ShownTyped
<1>3. ApplyUpdate(shown[b], p, LocalTime(b)) \in ObjectStates
  BY <1>1, <1>2, ApplyType
<1> QED
  BY <1>3 DEF ShownTyped, UpsertObject

LEMMA SendType ==
  ASSUME QueuesTyped, NEW b \in Browsers, NEW frames \in Seq(Frames), SendCanvas(b, frames),
         UNCHANGED inbox
  PROVE  QueuesTyped'
<1>1. up[b] \o frames \in Seq(Frames)
  BY DEF QueuesTyped
<1> QED
  BY <1>1 DEF QueuesTyped, SendCanvas

LEMMA RecordType ==
  ASSUME StackTyped, NEW b \in Browsers, NEW entries \in Seq(Entries),
         RecordHistory(b, entries)
  PROVE  StackTyped'
<1>1. undos[b] \o entries \in Seq(Entries) /\ <<>> \in Seq(Entries)
  BY DEF StackTyped
<1> QED
  BY <1>1 DEF StackTyped, RecordHistory

LEMMA GestureSet ==
  ASSUME GestureTyped, NEW b \in Browsers, NEW g \in Gestures, g.start.pos <= g.pos,
         gesture' = [gesture EXCEPT ![b] = g]
  PROVE  GestureTyped'
<1>1. /\ gesture' \in [Browsers -> Gestures]
      /\ \A c \in Browsers : gesture'[c] = IF c = b THEN g ELSE gesture[c]
  BY DEF GestureTyped
<1> QED
  BY <1>1 DEF GestureTyped

LEMMA NoGestureType == NoGesture \in Gestures /\ NoGesture.start.pos <= NoGesture.pos
<1>1. None \in Props /\ None.pos = 0 /\ 0 \in 0..MaxMoves
  BY PropsType, PaneAssumption DEF None
<1> QED
  BY <1>1 DEF NoGesture, Gestures

LEMMA UseType == ASSUME uses \in 0..MaxUses, Use PROVE uses' \in 0..MaxUses /\ 2 * uses \in Nat
  BY PaneAssumption DEF Use

LEMMA PaneInitTyped == PaneInit => PaneTyped
<1> SUFFICES ASSUME PaneInit PROVE PaneTyped
  OBVIOUS
<1>1. RestTyped
  BY PropsType, PaneAssumption DEF PaneInit, RestTyped
<1>2. Absent \in ObjectStates
  BY PropsType DEF Absent, ObjectStates
<1>3. ShownTyped
  BY <1>2 DEF PaneInit, ShownTyped
<1>4. GestureTyped
  BY NoGestureType DEF PaneInit, GestureTyped
<1>5. StackTyped /\ QueuesTyped
  BY DEF PaneInit, StackTyped, QueuesTyped
<1>6. SavedTyped
  BY PropsType DEF PaneInit, SavedTyped
<1> QED
  BY <1>1, <1>3, <1>4, <1>5, <1>6 DEF PaneTyped

LEMMA DrawTyped ==
  ASSUME PaneTyped, NEW b \in Browsers, NEW tool \in Tools, PointerDownDraws(b, tool)
  PROVE  PaneTyped'
<1> DEFINE p == At(Stride(b))
           g == [NoGesture EXCEPT !.tool = tool, !.pos = Stride(b), !.group = 2 * uses]
           entries == IF tool = "shape" THEN Entry(0, Stride(b), 2 * uses) ELSE <<>>
<1>1. /\ tool \in {"stroke", "shape"} /\ Use
      /\ kind' = IF tool = "stroke" THEN "points" ELSE "box"
      /\ gesture' = [gesture EXCEPT ![b] = g]
      /\ shown' = UpsertObject(b, p) /\ SendCanvas(b, <<Frame(b, "object", p)>>)
      /\ RecordHistory(b, entries)
      /\ UNCHANGED <<now, lag, base, astray, serverVars>>
  BY DEF PointerDownDraws
<1>2. uses' \in 0..MaxUses /\ 2 * uses \in Nat /\ Stride(b) \in Nat
  BY <1>1, UseType, StrideType DEF PaneTyped, RestTyped
<1>3. p \in Props
  BY <1>2, PropsType
<1>4. RestTyped'
  BY <1>1, <1>2 DEF PaneTyped, RestTyped
<1>5. ShownTyped'
  BY <1>1, <1>3, UpsertType DEF PaneTyped, ShownTyped
<1>6. GestureTyped'
  <2>1. g \in Gestures
    BY <1>2, NoGestureType DEF Gestures
  <2>2. g.start.pos <= g.pos
    BY <1>2 DEF NoGesture, None
  <2> HIDE DEF g
  <2> QED
    BY <1>1, <2>1, <2>2, GestureSet DEF PaneTyped
<1>7. StackTyped'
  <2>1. entries \in Seq(Entries)
    BY <1>2, EntryType
  <2> HIDE DEF entries
  <2> QED
    BY <1>1, <2>1, RecordType DEF PaneTyped
<1>8. QueuesTyped'
  <2>1. <<Frame(b, "object", p)>> \in Seq(Frames)
    BY <1>3, FrameType
  <2> QED
    BY <1>1, <2>1, SendType DEF PaneTyped, serverVars
<1>9. SavedTyped'
  BY <1>1 DEF PaneTyped, SavedTyped, serverVars
<1> QED
  BY <1>4, <1>5, <1>6, <1>7, <1>8, <1>9 DEF PaneTyped

LEMMA SelectTyped ==
  ASSUME PaneTyped, NEW b \in Browsers, NEW tool \in Tools, PointerDownSelects(b, tool)
  PROVE  PaneTyped'
<1> DEFINE p == shown[b].props
           g == [NoGesture EXCEPT !.tool = tool, !.start = p, !.pos = p.pos,
                                  !.group = 2 * uses]
<1>1. /\ Use /\ gesture' = [gesture EXCEPT ![b] = g]
      /\ UNCHANGED <<now, lag, kind, shown, base, undos, redos, up, astray, serverVars>>
  BY DEF PointerDownSelects
<1>2. uses' \in 0..MaxUses /\ 2 * uses \in Nat
  BY <1>1, UseType DEF PaneTyped, RestTyped
<1>3. p \in Props /\ p.pos \in Nat
  BY PropsType DEF PaneTyped, ShownTyped, ObjectStates
<1>4. GestureTyped'
  <2> HIDE DEF p
  <2>1. g \in Gestures
    BY <1>2, <1>3, NoGestureType DEF Gestures
  <2>2. g.start.pos <= g.pos
    BY <1>3 DEF NoGesture
  <2> HIDE DEF g
  <2> QED
    BY <1>1, <2>1, <2>2, GestureSet DEF PaneTyped
<1> QED
  BY <1>1, <1>2, <1>4
  DEF PaneTyped, RestTyped, ShownTyped, StackTyped, QueuesTyped, SavedTyped, serverVars

LEMMA MoveTyped ==
  ASSUME PaneTyped, NEW b \in Browsers, NEW upserted \in Props, NEW frame \in Seq(Frames),
         NEW entry \in Seq(Entries), PointerMove(b, upserted, frame, entry)
  PROVE  PaneTyped'
<1> DEFINE g == gesture[b]
           moved(emits) == [g EXCEPT !.pos = g.pos + Stride(b), !.moves = g.moves + 1,
                                     !.unsent = ~emits, !.missed = g.missed /\ ~emits]
<1>1. PICK emits \in BOOLEAN :
        /\ g.moves < MaxMoves
        /\ shown' = IF upserted = None THEN shown ELSE UpsertObject(b, upserted)
        /\ SendCanvas(b, IF emits THEN frame ELSE <<>>)
        /\ RecordHistory(b, IF emits THEN entry ELSE <<>>)
        /\ gesture' = [gesture EXCEPT ![b] = moved(emits)]
        /\ UNCHANGED <<now, lag, kind, base, uses, astray, serverVars>>
  BY DEF PointerMove, PaneTyped, GestureTyped
<1>2. GestureTyped'
  <2>1. g \in Gestures /\ g.start.pos <= g.pos
    BY DEF PaneTyped, GestureTyped
  <2>2. /\ g.pos \in Nat /\ g.moves \in 0..MaxMoves /\ g.start \in Props /\ Stride(b) \in Nat
        /\ g.missed \in BOOLEAN
    BY <2>1, StrideType DEF Gestures
  <2>3. g.start.pos \in Nat
    BY <2>2, PropsType
  <2> DEFINE m == moved(emits)
  <2>4. m \in Gestures
    <3>1. g.moves + 1 \in 0..MaxMoves /\ g.pos + Stride(b) \in Nat
      BY <1>1, <2>2, PaneAssumption
    <3> DEFINE q == g.missed /\ ~emits
    <3>2. q \in BOOLEAN
      OBVIOUS
    <3> HIDE DEF g, q
    <3>3. m = [g EXCEPT !.pos = g.pos + Stride(b), !.moves = g.moves + 1, !.unsent = ~emits,
                        !.missed = q]
      BY DEF q
    <3> HIDE DEF m
    <3> QED
      BY <2>1, <3>1, <3>2, <3>3 DEF Gestures
  <2>5. m.start.pos <= m.pos
    <3> HIDE DEF g
    <3>1. m.start = g.start /\ m.pos = g.pos + Stride(b)
      BY <2>1 DEF Gestures
    <3> QED
      BY <2>1, <2>2, <2>3, <3>1
  <2> HIDE DEF m
  <2>6. gesture' = [gesture EXCEPT ![b] = m]
    BY <1>1 DEF m
  <2> QED
    BY <2>4, <2>5, <2>6, GestureSet DEF PaneTyped
<1>3. ShownTyped'
  BY <1>1, UpsertType DEF PaneTyped, ShownTyped
<1>4. StackTyped'
  <2>1. (IF emits THEN entry ELSE <<>>) \in Seq(Entries)
    OBVIOUS
  <2> QED
    BY <1>1, <2>1, RecordType DEF PaneTyped
<1>5. QueuesTyped'
  <2>1. (IF emits THEN frame ELSE <<>>) \in Seq(Frames)
    OBVIOUS
  <2> QED
    BY <1>1, <2>1, SendType DEF PaneTyped, serverVars
<1> QED
  BY <1>1, <1>2, <1>3, <1>4, <1>5 DEF PaneTyped, RestTyped, SavedTyped, serverVars

\* What moves of the pointer show, send and record.
LEMMA HandTyped ==
  ASSUME PaneTyped, NEW b \in Browsers
  PROVE  /\ shown[b].props \in Props /\ shown[b].props.pos \in Nat
         /\ gesture[b] \in Gestures /\ gesture[b].start \in Props
         /\ gesture[b].pos \in Nat /\ gesture[b].group \in Nat /\ Pointed(b) \in Nat
         /\ At(Pointed(b)) \in Props
         /\ [gesture[b].start EXCEPT !.pos = Pointed(b)] \in Props
         /\ Translation(b) \in Frames
         /\ \A n \in Nat : Entered(b, n) \in Seq(Entries)
<1>1. shown[b].props \in Props /\ shown[b].props.pos \in Nat
  BY PropsType DEF PaneTyped, ShownTyped, ObjectStates
<1>2. gesture[b] \in Gestures /\ gesture[b].start.pos <= gesture[b].pos
  BY DEF PaneTyped, GestureTyped
<1>3. /\ gesture[b].start \in Props /\ gesture[b].pos \in Nat /\ gesture[b].group \in Nat
  BY <1>2 DEF Gestures
<1>4. Pointed(b) \in Nat /\ gesture[b].start.pos \in Nat
  BY <1>3, StrideType, PropsType DEF Pointed
<1>5. At(Pointed(b)) \in Props /\ [gesture[b].start EXCEPT !.pos = Pointed(b)] \in Props
  BY <1>3, <1>4, PropsType
<1>6. Translation(b) \in Frames
  <2>1. Pointed(b) - gesture[b].start.pos \in Nat
    BY <1>2, <1>3, <1>4, StrideType DEF Pointed
  <2> QED
    BY <2>1, PropsType, FrameType DEF Translation
<1>7. \A n \in Nat : Entered(b, n) \in Seq(Entries)
  BY <1>1, <1>3, EntryType DEF Entered
<1> QED
  BY <1>1, <1>2, <1>3, <1>4, <1>5, <1>6, <1>7

LEMMA MovesTyped ==
  ASSUME PaneTyped, NEW b \in Browsers,
         MoveStroke(b) \/ MoveShape(b) \/ MoveDrag(b) \/ MoveGroup(b)
  PROVE  PaneTyped'
<1>1. <<>> \in Seq(Entries) /\ <<>> \in Seq(Frames) /\ None \in Props
  BY PropsType
<1>2. \A p \in Props : <<Frame(b, "object", p)>> \in Seq(Frames)
  BY FrameType
<1>3. CASE MoveStroke(b)
  BY <1>1, <1>2, <1>3, HandTyped, MoveTyped DEF MoveStroke
<1>4. CASE MoveShape(b)
  BY <1>2, <1>4, HandTyped, MoveTyped DEF MoveShape
<1>5. CASE MoveDrag(b)
  <2> DEFINE next == [gesture[b].start EXCEPT !.pos = Pointed(b)]
             frame == <<IF kind = "points" THEN Translation(b) ELSE Frame(b, "object", next)>>
  <2>1. PointerMove(b, next, frame, Entered(b, next.pos))
    BY <1>5 DEF MoveDrag
  <2>2. next \in Props /\ next.pos \in Nat
    BY HandTyped, PropsType
  <2>3. frame \in Seq(Frames)
    BY <2>2, HandTyped, FrameType
  <2>4. Entered(b, next.pos) \in Seq(Entries)
    BY <2>2, HandTyped
  <2> HIDE DEF next, frame
  <2> QED
    BY <2>1, <2>2, <2>3, <2>4, MoveTyped
<1>6. CASE MoveGroup(b)
  <2> DEFINE next == [gesture[b].start EXCEPT !.pos = Pointed(b)]
             old == shown[b].props
             frame == IF old = None THEN <<>>
                      ELSE <<IF kind = "points" THEN Translation(b)
                             ELSE Frame(b, "object", old)>>
             entry == IF old = None THEN <<>> ELSE Entered(b, old.pos)
  <2>1. PointerMove(b, next, frame, entry)
    BY <1>6 DEF MoveGroup
  <2>2. next \in Props /\ old \in Props /\ old.pos \in Nat
    BY HandTyped
  <2>3. frame \in Seq(Frames)
    BY <1>1, <2>2, HandTyped, FrameType
  <2>4. entry \in Seq(Entries)
    BY <1>1, <2>2, HandTyped
  <2> HIDE DEF next, frame, entry
  <2> QED
    BY <2>1, <2>2, <2>3, <2>4, MoveTyped
<1> QED
  BY <1>3, <1>4, <1>5, <1>6

LEMMA UpTyped ==
  ASSUME PaneTyped, NEW b \in Browsers, PointerUp(b)
  PROVE  PaneTyped'
<1> DEFINE g == gesture[b]
           final == Final(b)
<1>1. /\ gesture' = [gesture EXCEPT ![b] = NoGesture]
      /\ shown' = IF g.tool = "stroke" THEN UpsertObject(b, final) ELSE shown
      /\ \/ UNCHANGED <<up, undos, redos>>
         \/ /\ SendCanvas(b, <<Frame(b, "object", final)>>)
            /\ RecordHistory(b, Entry(g.start.pos, final.pos, g.group + 1))
      /\ astray' \subseteq astray \cup {b}
      /\ UNCHANGED <<now, lag, kind, base, uses, serverVars>>
  BY DEF PointerUp
<1>2. final \in Props /\ final.pos \in Nat /\ g.start.pos \in Nat /\ g.group + 1 \in Nat
  <2>1. /\ shown[b].props \in Props /\ g.pos \in Nat /\ g.start \in Props /\ g.group \in Nat
    BY HandTyped
  <2>2. final \in Props
    BY <2>1, PropsType DEF Final
  <2> HIDE DEF final
  <2> QED
    BY <2>1, <2>2, PropsType
<1> HIDE DEF final
<1>3. ShownTyped'
  BY <1>1, <1>2, UpsertType DEF PaneTyped, ShownTyped
<1>4. GestureTyped'
  BY <1>1, NoGestureType, GestureSet DEF PaneTyped
<1>5. StackTyped'
  <2>1. Entry(g.start.pos, final.pos, g.group + 1) \in Seq(Entries)
    BY <1>2, EntryType
  <2>2. ASSUME UNCHANGED <<up, undos, redos>> PROVE StackTyped'
    BY <2>2 DEF PaneTyped, StackTyped
  <2>3. ASSUME RecordHistory(b, Entry(g.start.pos, final.pos, g.group + 1))
        PROVE  StackTyped'
    BY <2>1, <2>3, RecordType DEF PaneTyped
  <2> QED
    BY <1>1, <2>2, <2>3
<1>6. QueuesTyped'
  <2>1. <<Frame(b, "object", final)>> \in Seq(Frames)
    BY <1>2, FrameType
  <2>2. ASSUME UNCHANGED <<up, undos, redos>> PROVE QueuesTyped'
    BY <1>1, <2>2 DEF PaneTyped, QueuesTyped, serverVars
  <2>3. ASSUME SendCanvas(b, <<Frame(b, "object", final)>>) PROVE QueuesTyped'
    BY <1>1, <2>1, <2>3, SendType DEF PaneTyped, serverVars
  <2> QED
    BY <1>1, <2>2, <2>3
<1>7. SavedTyped'
  BY <1>1 DEF PaneTyped, SavedTyped, serverVars
<1> QED
  BY <1>1, <1>3, <1>4, <1>5, <1>6, <1>7 DEF PaneTyped, RestTyped

\* Whatever is shown, sent and recorded at one stroke.
LEMMA StrokeTyped ==
  ASSUME PaneTyped, NEW b \in Browsers, NEW p \in Props, NEW m \in Nat, NEW n \in Nat,
         Use, kind' \in {kind, "box"}, shown' = UpsertObject(b, p),
         SendCanvas(b, <<Frame(b, "object", p)>>),
         RecordHistory(b, Entry(m, n, 2 * uses)),
         UNCHANGED <<now, lag, gesture, base, astray, serverVars>>
  PROVE  PaneTyped'
<1>1. uses' \in 0..MaxUses /\ 2 * uses \in Nat
  BY UseType DEF PaneTyped, RestTyped
<1>2. RestTyped'
  BY <1>1 DEF PaneTyped, RestTyped
<1>3. ShownTyped'
  BY UpsertType DEF PaneTyped, ShownTyped
<1>4. StackTyped'
  BY <1>1, EntryType, RecordType DEF PaneTyped
<1>5. QueuesTyped'
  <2>1. <<Frame(b, "object", p)>> \in Seq(Frames)
    BY FrameType
  <2> QED
    BY <2>1, SendType DEF PaneTyped, serverVars
<1> QED
  BY <1>2, <1>3, <1>4, <1>5 DEF PaneTyped, GestureTyped, SavedTyped, serverVars

LEMMA StrokesTyped ==
  ASSUME PaneTyped, NEW b \in Browsers,
         InsertObject(b) \/ CommitEdit(b) \/ DeleteObjectById(b)
  PROVE  PaneTyped'
<1>1. /\ shown[b].props \in Props /\ shown[b].props.pos \in Nat /\ Stride(b) \in Nat
  BY HandTyped, StrideType
<1>2. CASE InsertObject(b)
  BY <1>1, <1>2, PropsType, StrokeTyped DEF InsertObject
<1>3. CASE CommitEdit(b)
  <2> DEFINE next == [shown[b].props EXCEPT !.pos = shown[b].props.pos + Stride(b)]
  <2>1. next \in Props
    <3>1. shown[b].props.pos + Stride(b) \in Nat
      BY <1>1
    <3> QED
      BY <1>1, <3>1, PropsType
  <2>2. next.pos \in Nat
    BY <2>1, PropsType
  <2>3. /\ Use /\ shown' = UpsertObject(b, next) /\ SendCanvas(b, <<Frame(b, "object", next)>>)
        /\ RecordHistory(b, Entry(shown[b].props.pos, next.pos, 2 * uses))
        /\ UNCHANGED <<now, lag, kind, gesture, base, astray, serverVars>>
    BY <1>3 DEF CommitEdit
  <2> HIDE DEF next
  <2> QED
    BY <1>1, <2>1, <2>2, <2>3, StrokeTyped
<1>4. CASE DeleteObjectById(b)
  BY <1>1, <1>4, PropsType, StrokeTyped DEF DeleteObjectById
<1> QED
  BY <1>2, <1>3, <1>4

-----------------------------------------------------------------------------
(* The canvas pane: undo and redo.                                         *)

LEMMA BiggestType ==
  ASSUME NEW S \in SUBSET Int, S # {}, IsFiniteSet(S)
  PROVE  Biggest(S) \in S /\ \A n \in S : n <= Biggest(S)
<1>1. \E n \in S : \A m \in S : m <= n
  BY HasGreatest
<1> QED
  BY <1>1 DEF Biggest

\* The last group of a stack has an entry: its last one.
LEMMA BelowType ==
  ASSUME NEW T, NEW stack \in Seq(T), stack # <<>>
  PROVE  Below(stack) \in 0..(Len(stack) - 1)
<1> DEFINE S == {0} \cup {i \in DOMAIN stack : stack[i].group # stack[Len(stack)].group}
<1>1. Len(stack) \in Nat /\ Len(stack) >= 1 /\ DOMAIN stack = 1..Len(stack)
  OBVIOUS
<1>2. S \in SUBSET (0..(Len(stack) - 1))
  <2> SUFFICES ASSUME NEW i \in DOMAIN stack, stack[i].group # stack[Len(stack)].group
               PROVE  i \in 0..(Len(stack) - 1)
    BY <1>1
  <2>1. i # Len(stack)
    OBVIOUS
  <2> QED
    BY <1>1, <2>1
<1>3. IsFiniteSet(S)
  <2>1. IsFiniteSet(0..(Len(stack) - 1))
    BY <1>1, FS_Interval
  <2> HIDE DEF S
  <2> QED
    BY <1>2, <2>1, FS_Subset
<1>4. S # {} /\ S \in SUBSET Int
  BY <1>2
<1>5. Below(stack) = Biggest(S)
  BY DEF Below
<1> HIDE DEF S
<1> QED
  BY <1>2, <1>3, <1>4, <1>5, BiggestType

LEMMA GroupsType ==
  ASSUME NEW T, NEW stack \in Seq(T), stack # <<>>
  PROVE  /\ LastGroup(stack) \in Seq(T) /\ Len(LastGroup(stack)) \in Nat \ {0}
         /\ OtherGroups(stack) \in Seq(T)
<1>1. Len(stack) \in Nat /\ Below(stack) \in 0..(Len(stack) - 1)
  BY BelowType
<1> QED
  BY <1>1 DEF LastGroup, OtherGroups

\* A place of an entry in a group, counted from either end.
LEMMA EntryOf ==
  ASSUME NEW group \in Seq(Entries), NEW i \in 1..Len(group)
  PROVE  /\ group[i].after \in Nat /\ group[i].before \in Nat
         /\ group[Len(group) + 1 - i].before \in Nat
<1>1. group[i] \in Entries /\ group[Len(group) + 1 - i] \in Entries
  OBVIOUS
<1> QED
  BY <1>1 DEF Entries

LEMMA TargetType ==
  ASSUME PaneTyped, NEW b \in Browsers, NEW n \in Nat PROVE Target(b, n) \in Props
  BY HandTyped, PropsType DEF Target

LEMMA HistoryTyped ==
  ASSUME PaneTyped, NEW b \in Browsers, NEW n \in Nat \ {0},
         NEW targets \in [1..n -> Nat], ApplyHistory(b, targets), UNCHANGED inbox
  PROVE  ShownTyped' /\ QueuesTyped'
<1> DEFINE props == [i \in DOMAIN targets |-> Target(b, targets[i])]
           frames == [i \in DOMAIN props |-> Frame(b, "object", props[i])]
<1>1. shown' = UpsertObject(b, props[Len(props)]) /\ SendCanvas(b, frames)
  BY DEF ApplyHistory
<1>2. props \in [1..n -> Props]
  BY TargetType
<1> HIDE DEF props
<1>3. Len(props) = n /\ n \in 1..n
  BY <1>2
<1>4. props[Len(props)] \in Props
  BY <1>2, <1>3
<1>5. frames \in Seq(Frames)
  <2>1. \A i \in 1..n : Frame(b, "object", props[i]) \in Frames
    BY <1>2, FrameType
  <2>2. frames \in [1..n -> Frames]
    BY <1>2, <2>1
  <2> QED
    BY <2>2
<1> HIDE DEF frames
<1> QED
  BY <1>1, <1>4, <1>5, UpsertType, SendType DEF PaneTyped, ShownTyped

LEMMA UndoTyped ==
  ASSUME PaneTyped, NEW b \in Browsers, Undo(b)
  PROVE  PaneTyped'
<1> DEFINE group == LastGroup(undos[b])
           targets == [i \in DOMAIN group |-> group[Len(group) + 1 - i].before]
<1>1. /\ undos[b] # <<>> /\ Use /\ ApplyHistory(b, targets)
      /\ undos' = [undos EXCEPT ![b] = OtherGroups(undos[b])]
      /\ redos' = [redos EXCEPT ![b] = redos[b] \o group]
      /\ UNCHANGED <<now, lag, kind, gesture, base, astray, serverVars>>
  BY DEF Undo, PaneTyped, StackTyped
<1>2. undos[b] \in Seq(Entries) /\ redos[b] \in Seq(Entries)
  BY DEF PaneTyped, StackTyped
<1>3. /\ group \in Seq(Entries) /\ Len(group) \in Nat \ {0}
      /\ OtherGroups(undos[b]) \in Seq(Entries)
  BY <1>1, <1>2, GroupsType
<1> HIDE DEF group
<1>4. targets \in [1..Len(group) -> Nat]
  <2>1. DOMAIN group = 1..Len(group)
    BY <1>3
  <2> QED
    BY <1>3, <2>1, EntryOf
<1> HIDE DEF targets
<1>5. ShownTyped' /\ QueuesTyped'
  BY <1>1, <1>3, <1>4, HistoryTyped DEF serverVars
<1>6. StackTyped'
  <2>1. redos[b] \o group \in Seq(Entries)
    BY <1>2, <1>3
  <2> QED
    BY <1>1, <1>3, <2>1 DEF PaneTyped, StackTyped
<1>7. RestTyped'
  BY <1>1, UseType DEF PaneTyped, RestTyped
<1> QED
  BY <1>1, <1>5, <1>6, <1>7 DEF PaneTyped, GestureTyped, SavedTyped, serverVars

LEMMA RedoTyped ==
  ASSUME PaneTyped, NEW b \in Browsers, Redo(b)
  PROVE  PaneTyped'
<1> DEFINE group == LastGroup(redos[b])
           targets == [i \in DOMAIN group |-> group[i].after]
<1>1. /\ redos[b] # <<>> /\ ApplyHistory(b, targets)
      /\ redos' = [redos EXCEPT ![b] = OtherGroups(redos[b])]
      /\ undos' = [undos EXCEPT ![b] = undos[b] \o group]
      /\ UNCHANGED <<now, lag, kind, gesture, base, uses, astray, serverVars>>
  BY DEF Redo, PaneTyped, StackTyped
<1>2. undos[b] \in Seq(Entries) /\ redos[b] \in Seq(Entries)
  BY DEF PaneTyped, StackTyped
<1>3. /\ group \in Seq(Entries) /\ Len(group) \in Nat \ {0}
      /\ OtherGroups(redos[b]) \in Seq(Entries)
  BY <1>1, <1>2, GroupsType
<1> HIDE DEF group
<1>4. targets \in [1..Len(group) -> Nat]
  <2>1. DOMAIN group = 1..Len(group)
    BY <1>3
  <2> QED
    BY <1>3, <2>1, EntryOf
<1> HIDE DEF targets
<1>5. ShownTyped' /\ QueuesTyped'
  BY <1>1, <1>3, <1>4, HistoryTyped DEF serverVars
<1>6. StackTyped'
  <2>1. undos[b] \o group \in Seq(Entries)
    BY <1>2, <1>3
  <2> QED
    BY <1>1, <1>3, <2>1 DEF PaneTyped, StackTyped
<1> QED
  BY <1>1, <1>5, <1>6 DEF PaneTyped, RestTyped, GestureTyped, SavedTyped, serverVars

-----------------------------------------------------------------------------
(* The canvas pane: the server, and what comes from it.                    *)

LEMMA PairBiggest ==
  ASSUME NEW m \in Nat, NEW n \in Nat
  PROVE  Biggest({m, n}) \in Nat /\ m <= Biggest({m, n}) /\ n <= Biggest({m, n})
<1>1. IsFiniteSet({m} \cup {n})
  BY FS_Singleton, FS_AddElement
<1>2. {m, n} = {m} \cup {n}
  OBVIOUS
<1>3. {m, n} \in SUBSET Int /\ {m, n} # {} /\ IsFiniteSet({m, n})
  BY <1>1, <1>2
<1> QED
  BY <1>3, BiggestType

\* What stamping a frame does, and the frame as all browsers get it.
LEMMA StampingParts ==
  ASSUME PaneTyped, NEW b \in Browsers, Stamping(b)
  PROVE  /\ Head(up[b]) \in Frames /\ Tail(up[b]) \in Seq(Frames) /\ up[b] \in Seq(Frames)
         /\ up' = [up EXCEPT ![b] = Tail(up[b])] /\ up[b] # <<>>
         /\ now' \in Nat /\ now' \in {now, now + 1}
         /\ Stamp(b) \in Nat /\ stamps[b] + 1 <= Stamp(b) /\ now' <= Stamp(b)
         /\ stamps' = [stamps EXCEPT ![b] = Stamp(b)]
<1>1. /\ up[b] # <<>> /\ up' = [up EXCEPT ![b] = Tail(up[b])] /\ now' \in {now, now + 1}
      /\ stamps' = [stamps EXCEPT ![b] = Stamp(b)]
  BY DEF Stamping, PaneTyped, QueuesTyped
<1>2. up[b] \in Seq(Frames)
  BY DEF PaneTyped, QueuesTyped
<1>3. Head(up[b]) \in Frames /\ Tail(up[b]) \in Seq(Frames)
  BY <1>1, <1>2
<1>4. now' \in Nat
  BY <1>1 DEF PaneTyped, RestTyped
<1>5. Stamp(b) \in Nat /\ stamps[b] + 1 <= Stamp(b) /\ now' <= Stamp(b)
  <2>1. stamps[b] + 1 \in Nat
    BY DEF PaneTyped, SavedTyped
  <2> QED
    BY <1>4, <2>1, PairBiggest, Zenon DEF Stamp
<1> QED
  BY <1>1, <1>2, <1>3, <1>4, <1>5

LEMMA ServeTyped ==
  ASSUME PaneTyped, NEW b \in Browsers, Serve(b)
  PROVE  PaneTyped'
<1> DEFINE f == Head(up[b])
           s == Saves(b) /\ \A c \in Browsers \ {b} : stamps[c] < Stamp(b)
           sent == [f EXCEPT !.at = Stamp(b), !.settles = s]
<1>1. /\ Stamping(b)
      /\ saved' = IF Saves(b) THEN [props |-> f.props, at |-> Stamp(b), by |-> b] ELSE saved
      /\ inbox' = [c \in Browsers |-> Append(inbox[c], sent)]
      /\ loading' = [c \in Browsers |-> IF loading[c] # Absent /\ Saves(b)
                                        THEN [loading[c] EXCEPT !.fresh = FALSE]
                                        ELSE loading[c]]
      /\ UNCHANGED astray
  BY DEF Serve
<1>2. UNCHANGED <<lag, kind, shown, gesture, base, undos, redos, uses>>
  BY <1>1 DEF Stamping
<1>3. f \in Frames /\ Stamp(b) \in Nat /\ s \in BOOLEAN /\ b \in Nat
  BY <1>1, StampingParts, StrideType
<1>4. f.props \in Props /\ sent \in Frames
  <2> HIDE DEF f, s
  <2> QED
    BY <1>3 DEF Frames
<1>5. RestTyped'
  BY <1>1, <1>2, StampingParts DEF PaneTyped, RestTyped
<1>6. SavedTyped'
  <2>1. saved' \in [props : Props, at : Nat, by : Nat]
    <3> HIDE DEF f
    <3> QED
      BY <1>1, <1>3, <1>4 DEF PaneTyped, SavedTyped
  <2>2. stamps' \in [Browsers -> Nat]
    BY <1>1, <1>3, StampingParts DEF PaneTyped, SavedTyped
  <2>3. loading' \in [Browsers -> Loads \cup {Absent}]
    <3> SUFFICES ASSUME NEW c \in Browsers, loading[c] # Absent
                 PROVE  [loading[c] EXCEPT !.fresh = FALSE] \in Loads
      BY <1>1 DEF PaneTyped, SavedTyped
    <3>1. loading[c] \in Loads
      BY DEF PaneTyped, SavedTyped
    <3> QED
      BY <3>1 DEF Loads
  <2> QED
    BY <1>1, <2>1, <2>2, <2>3 DEF PaneTyped, SavedTyped
<1> HIDE DEF f, sent
<1>7. QueuesTyped'
  <2>1. \A c \in Browsers : Append(inbox[c], sent) \in Seq(Frames)
    BY <1>4 DEF PaneTyped, QueuesTyped
  <2> QED
    BY <1>1, <2>1, StampingParts DEF PaneTyped, QueuesTyped
<1> QED
  BY <1>2, <1>5, <1>6, <1>7 DEF PaneTyped, ShownTyped, GestureTyped, StackTyped

LEMMA RefuseTyped ==
  ASSUME PaneTyped, NEW b \in Browsers, Refuse(b)
  PROVE  PaneTyped'
<1>1. /\ Stamping(b) /\ astray' = astray \cup {b} /\ UNCHANGED <<inbox, saved, loading>>
      /\ UNCHANGED <<lag, kind, shown, gesture, base, undos, redos, uses>>
  BY DEF Refuse, Stamping
<1>2. RestTyped'
  BY <1>1, StampingParts DEF PaneTyped, RestTyped
<1>3. QueuesTyped'
  BY <1>1, StampingParts DEF PaneTyped, QueuesTyped
<1>4. SavedTyped'
  <2>1. stamps' \in [Browsers -> Nat]
    BY <1>1, StampingParts DEF PaneTyped, SavedTyped
  <2> QED
    BY <1>1, <2>1 DEF PaneTyped, SavedTyped
<1> QED
  BY <1>1, <1>2, <1>3, <1>4 DEF PaneTyped, ShownTyped, GestureTyped, StackTyped

LEMMA ReplayTyped ==
  ASSUME PaneTyped, NEW b \in Browsers, ReplayRecent(b)
  PROVE  PaneTyped'
<1> DEFINE p == Target(b, undos[b][Len(undos[b])].after)
<1>1. /\ undos[b] # <<>> /\ Use /\ shown' = UpsertObject(b, p) /\ astray' = astray \cup {b}
      /\ UNCHANGED <<now, lag, kind, gesture, base, undos, redos, up, serverVars>>
  BY DEF ReplayRecent
<1>2. undos[b] \in Seq(Entries)
  BY DEF PaneTyped, StackTyped
<1>3. p \in Props
  <2>1. undos[b][Len(undos[b])] \in Entries
    BY <1>1, <1>2
  <2> QED
    BY <2>1, TargetType DEF Entries
<1> HIDE DEF p
<1>4. ShownTyped' /\ RestTyped' /\ SavedTyped'
  BY <1>1, <1>3, UpsertType, UseType DEF PaneTyped, ShownTyped, RestTyped, SavedTyped, serverVars
<1> QED
  BY <1>1, <1>4 DEF PaneTyped, GestureTyped, StackTyped, QueuesTyped, serverVars

\* A canvas read for a browser, and sent to it.
Read(b) ==
  /\ loading[b] = Absent /\ Use /\ UNCHANGED inbox
  /\ loading' = [loading EXCEPT ![b] = [props |-> saved.props, fresh |-> TRUE]]

Loaded(b) == [Frame(b, "load", loading[b].props) EXCEPT !.settles = loading[b].fresh]
Sent(b) ==
  /\ loading[b] # Absent /\ loading' = [loading EXCEPT ![b] = Absent]
  /\ inbox' = [inbox EXCEPT ![b] = Append(inbox[b], Loaded(b))] /\ UNCHANGED uses

LEMMA LoadParts ==
  ASSUME PaneTyped, NEW b \in Browsers, CanvasLoad(b)
  PROVE  /\ UNCHANGED <<now, lag, kind, shown, gesture, base, undos, redos, up, saved, stamps,
                        astray>>
         /\ Read(b) \/ Sent(b)
  BY DEF CanvasLoad, Read, Sent, Loaded, PaneTyped, QueuesTyped

LEMMA LoadedType ==
  ASSUME PaneTyped, NEW b \in Browsers, loading[b] # Absent
  PROVE  /\ Loaded(b) \in Frames /\ Loaded(b).type = "load"
         /\ Loaded(b).props = loading[b].props /\ Loaded(b).settles = loading[b].fresh
         /\ Loaded(b).at = 0 /\ loading[b] \in Loads
<1>1. loading[b] \in Loads
  BY DEF PaneTyped, SavedTyped
<1>2. loading[b].props \in Props /\ loading[b].fresh \in BOOLEAN
  BY <1>1 DEF Loads
<1>3. Frame(b, "load", loading[b].props) \in Frames
  BY <1>2, FrameType
<1> QED
  BY <1>1, <1>2, <1>3 DEF Loaded, Frames, Frame

LEMMA LoadTyped ==
  ASSUME PaneTyped, NEW b \in Browsers, CanvasLoad(b)
  PROVE  PaneTyped'
<1>1. UNCHANGED <<now, lag, kind, shown, gesture, base, undos, redos, up, saved, stamps, astray>>
  BY LoadParts
<1>2. CASE Read(b)
  <2>1. [props |-> saved.props, fresh |-> TRUE] \in Loads
    BY DEF PaneTyped, SavedTyped, Loads
  <2>2. SavedTyped'
    BY <1>1, <1>2, <2>1 DEF PaneTyped, SavedTyped, Read
  <2>3. RestTyped'
    BY <1>1, <1>2, UseType DEF PaneTyped, RestTyped, Read
  <2> QED
    BY <1>1, <1>2, <2>2, <2>3
    DEF PaneTyped, ShownTyped, GestureTyped, StackTyped, QueuesTyped, Read
<1>3. CASE Sent(b)
  <2>1. QueuesTyped'
    BY <1>1, <1>3, LoadedType DEF PaneTyped, QueuesTyped, Sent
  <2>2. SavedTyped'
    BY <1>1, <1>3 DEF PaneTyped, SavedTyped, Sent
  <2> QED
    BY <1>1, <1>3, <2>1, <2>2
    DEF PaneTyped, RestTyped, ShownTyped, GestureTyped, StackTyped, Sent
<1> QED
  BY <1>2, <1>3, LoadParts

\* The first frame of a browser, and what it does to the store, to the gesture and to the
\* browsers astray.
First(b) == Head(inbox[b])
From(b) == IF base[b] = None THEN shown[b].props ELSE base[b]
Moved(b) == [From(b) EXCEPT !.pos = From(b).pos + First(b).props.pos]

TakenShown(b) ==
  \/ /\ First(b).type = "load" /\ base' = [base EXCEPT ![b] = None]
     /\ shown' = [shown EXCEPT ![b] = [Absent EXCEPT !.props = First(b).props]]
  \/ /\ First(b).type = "object" /\ gesture[b] = NoGesture /\ base' = [base EXCEPT ![b] = None]
     /\ shown' = [shown EXCEPT ![b] = ApplyUpdate(shown[b], First(b).props, First(b).at)]
  \/ /\ First(b).type = "translate" /\ gesture[b] = NoGesture /\ shown[b].props.pos # 0
     /\ base' = [base EXCEPT ![b] = From(b)]
     /\ shown' = [shown EXCEPT ![b] = ApplyUpdate(shown[b], Moved(b), First(b).at)]
  \/ /\ First(b).type # "load"
     /\ gesture[b] = NoGesture => First(b).type = "translate" /\ shown[b].props.pos = 0
     /\ UNCHANGED <<shown, base>>

Settled(b) ==
  /\ UNCHANGED gesture
  /\ astray' = IF ~First(b).settles THEN astray \cup {b}
               ELSE IF First(b).type = "load" \/ IsNew(b, First(b).at) THEN astray \ {b}
               ELSE astray

Misses(b) ==
  /\ UNCHANGED astray
  /\ gesture' = [gesture EXCEPT ![b].missed =
                   @ \/ First(b).type = "load" \/ First(b).by # b \/ ~First(b).settles]

LEMMA TakeParts ==
  ASSUME PaneTyped, NEW b \in Browsers, TakeFrame(b)
  PROVE  /\ inbox[b] \in Seq(Frames) /\ inbox[b] # <<>>
         /\ inbox' = [inbox EXCEPT ![b] = Tail(inbox[b])]
         /\ First(b) \in Frames /\ Tail(inbox[b]) \in Seq(Frames)
         /\ First(b).props \in Props /\ First(b).at \in Nat /\ First(b).settles \in BOOLEAN
         /\ UNCHANGED <<now, lag, kind, undos, redos, up, saved, stamps, loading, uses>>
         /\ TakenShown(b) /\ (gesture[b] = NoGesture => Settled(b))
         /\ (gesture[b] # NoGesture => Misses(b))
<1>1. /\ inbox[b] # <<>> /\ inbox' = [inbox EXCEPT ![b] = Tail(inbox[b])]
      /\ UNCHANGED <<now, lag, kind, undos, redos, up, saved, stamps, loading, uses>>
      /\ gesture[b] = NoGesture => Settled(b)
      /\ gesture[b] # NoGesture => Misses(b)
  BY DEF TakeFrame, PaneTyped, QueuesTyped, Settled, Misses, First
<1>2. TakenShown(b)
  BY DEF TakeFrame, PaneTyped, ShownTyped, TakenShown, First, From, Moved
<1>3. inbox[b] \in Seq(Frames)
  BY DEF PaneTyped, QueuesTyped
<1>4. First(b) \in Frames /\ Tail(inbox[b]) \in Seq(Frames)
  BY <1>1, <1>3 DEF First
<1>5. First(b).props \in Props /\ First(b).at \in Nat /\ First(b).settles \in BOOLEAN
  BY <1>4 DEF Frames
<1> QED
  BY <1>1, <1>2, <1>3, <1>4, <1>5

LEMMA MovedType ==
  ASSUME PaneTyped, NEW b \in Browsers, First(b).props \in Props
  PROVE  From(b) \in Props /\ Moved(b) \in Props
<1>1. From(b) \in Props
  BY PropsType DEF From, PaneTyped, RestTyped, ShownTyped, ObjectStates
<1>2. From(b).pos + First(b).props.pos \in Nat
  BY <1>1, PropsType
<1> QED
  BY <1>1, <1>2, PropsType DEF Moved

\* What a frame that comes in hand leaves of the gesture.
LEMMA MissesParts ==
  ASSUME PaneTyped, NEW b \in Browsers, Misses(b)
  PROVE  \E m \in BOOLEAN :
           /\ gesture' = [gesture EXCEPT ![b] = [gesture[b] EXCEPT !.missed = m]]
           /\ m <=> (gesture[b].missed \/ First(b).type = "load" \/ First(b).by # b
                      \/ ~First(b).settles)
<1> DEFINE m == \/ gesture[b].missed \/ First(b).type = "load" \/ First(b).by # b
                \/ ~First(b).settles
<1>1. m \in BOOLEAN
  BY DEF PaneTyped, GestureTyped, Gestures
<1>2. gesture' = [gesture EXCEPT ![b] = [gesture[b] EXCEPT !.missed = m]]
  BY Zenon DEF Misses
<1> QED
  BY <1>1, <1>2

LEMMA TakeTyped ==
  ASSUME PaneTyped, NEW b \in Browsers, TakeFrame(b)
  PROVE  PaneTyped'
<1>1. /\ inbox' = [inbox EXCEPT ![b] = Tail(inbox[b])] /\ Tail(inbox[b]) \in Seq(Frames)
      /\ First(b).props \in Props /\ First(b).at \in Nat
      /\ UNCHANGED <<now, lag, kind, undos, redos, up, saved, stamps, loading, uses>>
  BY TakeParts
<1>2. shown[b] \in ObjectStates /\ None \in Props /\ From(b) \in Props /\ Moved(b) \in Props
  BY <1>1, PropsType, MovedType DEF PaneTyped, ShownTyped
<1>3. /\ [Absent EXCEPT !.props = First(b).props] \in ObjectStates
      /\ ApplyUpdate(shown[b], First(b).props, First(b).at) \in ObjectStates
      /\ ApplyUpdate(shown[b], Moved(b), First(b).at) \in ObjectStates
  <2>1. [Absent EXCEPT !.props = First(b).props] \in ObjectStates
    BY <1>1 DEF Absent, ObjectStates
  <2> QED
    BY <1>1, <1>2, <2>1, ApplyType
<1>4. base' \in [Browsers -> Props] /\ ShownTyped'
  <2>1. TakenShown(b)
    BY TakeParts
  <2> QED
    BY <1>2, <1>3, <2>1 DEF TakenShown, PaneTyped, RestTyped, ShownTyped
<1>5. GestureTyped' /\ astray' \subseteq Browsers
  <2>1. CASE gesture[b] = NoGesture
    BY <2>1, TakeParts DEF Settled, PaneTyped, GestureTyped, SavedTyped
  <2>2. CASE gesture[b] # NoGesture
    <3>1. Misses(b)
      BY <2>2, TakeParts
    <3>2. PICK m \in BOOLEAN : gesture' = [gesture EXCEPT ![b] = [gesture[b] EXCEPT !.missed = m]]
      BY <3>1, MissesParts
    <3> DEFINE g == [gesture[b] EXCEPT !.missed = m]
    <3>3. gesture[b] \in Gestures /\ gesture[b].start.pos <= gesture[b].pos
      BY DEF PaneTyped, GestureTyped
    <3>4. g \in Gestures /\ g.start.pos <= g.pos
      BY <3>3 DEF Gestures
    <3>5. gesture' = [gesture EXCEPT ![b] = g]
      BY <3>2
    <3> HIDE DEF g
    <3> QED
      BY <3>1, <3>4, <3>5, GestureSet DEF PaneTyped, SavedTyped, Misses
  <2> QED
    BY <2>1, <2>2
<1>6. QueuesTyped'
  BY <1>1 DEF PaneTyped, QueuesTyped
<1> QED
  BY <1>1, <1>4, <1>5, <1>6 DEF PaneTyped, RestTyped, StackTyped, SavedTyped

LEMMA PaneTypedStep ==
  ASSUME PaneTyped, [PaneNext]_paneVars
  PROVE  PaneTyped'
<1>1. CASE UNCHANGED paneVars
  BY <1>1
  DEF PaneTyped, RestTyped, ShownTyped, GestureTyped, StackTyped, QueuesTyped, SavedTyped,
      paneVars
<1>2. ASSUME NEW b \in Browsers, NEW tool \in Tools,
             PointerDownDraws(b, tool) \/ PointerDownSelects(b, tool)
      PROVE  PaneTyped'
  BY <1>2, DrawTyped, SelectTyped
<1>3. ASSUME NEW b \in Browsers,
             \/ MoveStroke(b) \/ MoveShape(b) \/ MoveDrag(b) \/ MoveGroup(b) \/ PointerUp(b)
             \/ InsertObject(b) \/ CommitEdit(b) \/ DeleteObjectById(b)
             \/ Undo(b) \/ Redo(b) \/ ReplayRecent(b)
             \/ Serve(b) \/ Refuse(b) \/ CanvasLoad(b) \/ TakeFrame(b)
      PROVE  PaneTyped'
  BY <1>3, MovesTyped, UpTyped, StrokesTyped, UndoTyped, RedoTyped, ReplayTyped, ServeTyped,
     RefuseTyped, LoadTyped, TakeTyped
<1> QED
  BY <1>1, <1>2, <1>3 DEF PaneNext

-----------------------------------------------------------------------------
(* The canvas panes: what is on its way settles what they show.  The last  *)
(* frame a pane is to take brings what is saved, or leads it astray; a     *)
(* pane that is to take none shows what is saved, or has still to send.    *)

Latest(s) == s[Len(s)]

\* A time no clock and no stamp of the server has gone past yet is not reached.
Reached(t) == t <= now \/ \E c \in Browsers : t <= stamps[c]

ClocksInv ==
  /\ StartTime <= now
  /\ \A b \in Browsers : /\ Reached(shown[b].posAt) /\ Reached(shown[b].goneAt)
                         /\ \A i \in DOMAIN inbox[b] : Reached(inbox[b][i].at)

\* What has no position is nothing yet.
Whole(p) == p.pos = 0 => p = None

WholeInv(b) ==
  /\ shown[b].props.pos = 0 => shown[b] = Absent
  /\ loading[b] # Absent => Whole(loading[b].props)
  /\ \A i \in DOMAIN up[b] :
       /\ up[b][i].by = b /\ up[b][i].type \in {"object", "translate"}
       /\ up[b][i].type = "object" => up[b][i].props.pos # 0
  /\ \A i \in DOMAIN inbox[b] :
       /\ inbox[b][i].type = "object" => inbox[b][i].props.pos # 0
       /\ inbox[b][i].type = "load" => Whole(inbox[b][i].props)

\* Before the object is made there is nothing of it anywhere.
Untouched ==
  kind = "none" =>
    /\ saved.props = None
    /\ \A b \in Browsers :
         /\ shown[b] = Absent /\ gesture[b] = NoGesture /\ up[b] = <<>>
         /\ loading[b] # Absent => loading[b].props = None
         /\ \A i \in DOMAIN inbox[b] : inbox[b][i].type = "load" /\ inbox[b][i].props = None

ReadsFresh ==
  \A b \in Browsers : loading[b] # Absent /\ loading[b].fresh => loading[b].props = saved.props

\* The last frame for a browser, if it settles what it shows.
Newest(b) ==
  inbox[b] # <<>> /\ Latest(inbox[b]).settles =>
    /\ Latest(inbox[b]).type \in {"object", "load"} /\ Latest(inbox[b]).props = saved.props
    /\ Latest(inbox[b]).type = "object" =>
         \A i \in DOMAIN inbox[b] : inbox[b][i].at <= Latest(inbox[b]).at

\* A shape in hand of which nothing is unsent and nothing missed is as it was sent last.
AsSent(b) ==
  gesture[b].tool = "shape" /\ ~gesture[b].unsent /\ ~gesture[b].missed /\ b \notin astray

HandTools == {"stroke", "shape", "drag", "group"}

InHand(b) ==
  /\ gesture[b] = NoGesture \/ gesture[b].tool \in HandTools
  /\ gesture[b].tool = "shape" => shown[b].posAt <= LocalTime(b)
  /\ gesture[b].tool \in {"drag", "group"} /\ shown[b].props.pos = 0 => gesture[b].missed
  /\ gesture[b].tool = "stroke" => gesture[b].pos # 0
  /\ AsSent(b) /\ up[b] # <<>> => Latest(up[b]).props = At(shown[b].props.pos)
  /\ AsSent(b) /\ up[b] = <<>> /\ inbox[b] # <<>> /\ Latest(inbox[b]).by = b
       /\ Latest(inbox[b]).type = "object" =>
         Latest(inbox[b]).props = At(shown[b].props.pos)

Calm(b) == (gesture[b] = NoGesture \/ AsSent(b)) /\ b \notin astray

Matches(b) ==
  /\ shown[b].props.pos = saved.props.pos
  /\ saved.props.gone # "unset" => shown[b].props.gone = saved.props.gone

AtRest(b) ==
  Calm(b) /\ up[b] = <<>> =>
    /\ inbox[b] = <<>> => Matches(b)
    /\ inbox[b] # <<>> /\ Latest(inbox[b]).settles /\ Latest(inbox[b]).type = "object" =>
         IsNew(b, Latest(inbox[b]).at)

PaneInv ==
  /\ ClocksInv /\ Whole(saved.props) /\ Untouched /\ ReadsFresh
  /\ \A b \in Browsers : WholeInv(b) /\ Newest(b) /\ InHand(b) /\ AtRest(b)

LEMMA NoGestureParts == NoGesture.tool = "none" /\ ~NoGesture.missed /\ ~NoGesture.unsent
  BY DEF NoGesture

LEMMA PaneInitInv == PaneInit => PaneInv
<1> SUFFICES ASSUME PaneInit PROVE PaneInv
  OBVIOUS
<1>1. StartTime \in Nat /\ now = StartTime
  BY PaneAssumption DEF PaneInit
<1>2. \A b \in Browsers : /\ shown[b] = Absent /\ gesture[b] = NoGesture /\ loading[b] = Absent
                          /\ up[b] = <<>> /\ inbox[b] = <<>>
  BY DEF PaneInit
<1>3. saved.props = None /\ Absent.props = None /\ Absent.posAt = 0 /\ Absent.goneAt = 0
      /\ None.pos = 0 /\ None.gone = "unset"
  BY DEF PaneInit, Absent, None
<1>4. ClocksInv
  BY <1>1, <1>2, <1>3 DEF ClocksInv, Reached
<1>5. Whole(saved.props) /\ Untouched /\ ReadsFresh
  BY <1>2, <1>3 DEF Whole, Untouched, ReadsFresh
<1>6. ASSUME NEW b \in Browsers PROVE WholeInv(b) /\ Newest(b) /\ InHand(b) /\ AtRest(b)
  <2>1. WholeInv(b) /\ Newest(b)
    BY <1>2 DEF WholeInv, Newest
  <2>2. InHand(b)
    BY <1>2, NoGestureParts DEF InHand, AsSent
  <2>3. AtRest(b)
    BY <1>2, <1>3 DEF AtRest, Matches
  <2> QED
    BY <2>1, <2>2, <2>3
<1> QED
  BY <1>4, <1>5, <1>6 DEF PaneInv

LEMMA AppendParts ==
  ASSUME NEW s \in Seq(Frames), NEW f \in Frames
  PROVE  /\ Append(s, f) \in Seq(Frames) /\ Append(s, f) # <<>>
         /\ DOMAIN s = 1..Len(s) /\ Len(s) \in Nat
         /\ DOMAIN Append(s, f) = 1..(Len(s) + 1)
         /\ \A i \in DOMAIN s : Append(s, f)[i] = s[i]
         /\ Append(s, f)[Len(s) + 1] = f /\ Latest(Append(s, f)) = f
  BY DEF Latest

LEMMA TailParts ==
  ASSUME NEW s \in Seq(Frames), s # <<>>
  PROVE  /\ Tail(s) \in Seq(Frames) /\ 1 \in DOMAIN s /\ Len(s) \in DOMAIN s /\ Head(s) = s[1]
         /\ \A i \in DOMAIN Tail(s) : i + 1 \in DOMAIN s /\ Tail(s)[i] = s[i + 1]
         /\ Latest(s) = IF Tail(s) = <<>> THEN Head(s) ELSE Latest(Tail(s))
<1>1. /\ Tail(s) \in Seq(Frames) /\ DOMAIN s = 1..Len(s) /\ Len(s) \in Nat \ {0}
      /\ DOMAIN Tail(s) = 1..(Len(s) - 1)
      /\ \A i \in DOMAIN Tail(s) : Tail(s)[i] = s[i + 1]
      /\ Head(s) = s[1] /\ Len(Tail(s)) = Len(s) - 1
  OBVIOUS
<1>2. Tail(s) = <<>> <=> Len(Tail(s)) = 0
  <2>1. ASSUME NEW r \in Seq(Frames) PROVE r = <<>> <=> Len(r) = 0
    OBVIOUS
  <2> QED
    BY <1>1, <2>1
<1>3. CASE Tail(s) = <<>>
  BY <1>1, <1>2, <1>3 DEF Latest
<1>4. CASE Tail(s) # <<>>
  <2>1. Len(s) - 1 \in DOMAIN Tail(s)
    BY <1>1, <1>2, <1>4
  <2>2. Latest(Tail(s)) = s[Len(s) - 1 + 1]
    BY <1>1, <2>1 DEF Latest
  <2> QED
    BY <1>1, <1>4, <2>2 DEF Latest
<1> QED
  BY <1>3, <1>4

LEMMA ConcatParts ==
  ASSUME NEW r \in Seq(Frames), NEW s \in Seq(Frames)
  PROVE  /\ \A i \in DOMAIN (r \o s) : \/ i \in DOMAIN r /\ (r \o s)[i] = r[i]
                                       \/ \E j \in DOMAIN s : (r \o s)[i] = s[j]
         /\ r \o s = <<>> <=> r = <<>> /\ s = <<>>
         /\ s # <<>> => Latest(r \o s) = Latest(s)
         /\ s = <<>> => r \o s = r
<1>1. /\ Len(r) \in Nat /\ Len(s) \in Nat /\ DOMAIN r = 1..Len(r) /\ DOMAIN s = 1..Len(s)
      /\ r \o s \in Seq(Frames) /\ Len(r \o s) = Len(r) + Len(s)
      /\ DOMAIN (r \o s) = 1..(Len(r) + Len(s))
      /\ \A i \in 1..(Len(r) + Len(s)) :
           (r \o s)[i] = IF i <= Len(r) THEN r[i] ELSE s[i - Len(r)]
  OBVIOUS
<1>2. ASSUME NEW q \in Seq(Frames) PROVE q = <<>> <=> Len(q) = 0
  OBVIOUS
<1>3. ASSUME NEW i \in DOMAIN (r \o s), ~(i \in DOMAIN r /\ (r \o s)[i] = r[i])
      PROVE  \E j \in DOMAIN s : (r \o s)[i] = s[j]
  <2>1. i - Len(r) \in DOMAIN s /\ (r \o s)[i] = s[i - Len(r)]
    BY <1>1, <1>3
  <2> QED
    BY <2>1
<1>4. s # <<>> => Latest(r \o s) = Latest(s)
  <2> SUFFICES ASSUME s # <<>> PROVE Latest(r \o s) = Latest(s)
    OBVIOUS
  <2>1. Len(s) # 0
    BY <1>2
  <2> QED
    BY <1>1, <2>1 DEF Latest
<1>5. r \o s = <<>> <=> r = <<>> /\ s = <<>>
  BY <1>1, <1>2
<1> QED
  BY <1>3, <1>4, <1>5

LEMMA LocalTimeParts ==
  ASSUME PaneTyped, ClocksInv, NEW b \in Browsers
  PROVE  /\ LocalTime(b) \in Nat /\ now \in Nat /\ lag[b] \in Int
         /\ NoneAhead => LocalTime(b) <= now
<1>1. now \in Nat /\ lag[b] \in Lags
  BY DEF PaneTyped, RestTyped
<1>2. lag[b] \in Int /\ lag[b] <= StartTime /\ StartTime \in Nat
  BY <1>1, PaneAssumption
<1> QED
  BY <1>1, <1>2 DEF LocalTime, ClocksInv, NoneAhead

LEMMA TimeTypes ==
  ASSUME PaneTyped, NEW b \in Browsers
  PROVE  /\ shown[b] \in ObjectStates /\ shown[b].posAt \in Nat /\ shown[b].goneAt \in Nat
         /\ shown[b].props \in Props /\ shown[b].props.pos \in Nat
         /\ stamps[b] \in Nat /\ inbox[b] \in Seq(Frames) /\ up[b] \in Seq(Frames)
         /\ \A i \in DOMAIN inbox[b] : inbox[b][i].at \in Nat /\ inbox[b][i] \in Frames
<1>1. shown[b] \in ObjectStates /\ stamps[b] \in Nat
      /\ inbox[b] \in Seq(Frames) /\ up[b] \in Seq(Frames)
  BY DEF PaneTyped, ShownTyped, SavedTyped, QueuesTyped
<1>2. \A i \in DOMAIN inbox[b] : inbox[b][i] \in Frames
  BY <1>1
<1> QED
  BY <1>1, <1>2, PropsType DEF ObjectStates, Frames

-----------------------------------------------------------------------------
(* The canvas panes: what is done in a browser.                            *)

LEMMA ApplyParts ==
  ASSUME NEW o \in ObjectStates, NEW p \in Props, NEW time \in Int
  PROVE  LET r == ApplyUpdate(o, p, time)
         IN /\ r.posAt \in {o.posAt, time} /\ r.goneAt \in {o.goneAt, time}
            /\ r.posAt >= o.posAt /\ r.goneAt >= o.goneAt
            /\ p.pos # 0 /\ time >= o.posAt => r.props.pos = p.pos /\ r.posAt = time
            /\ p.gone # "unset" /\ time >= o.goneAt => r.props.gone = p.gone
            /\ p.gone = "unset" => r.props.gone = o.props.gone
            /\ o.props.pos # 0 => r.props.pos # 0
<1>1. o.posAt \in Nat /\ o.goneAt \in Nat
  BY DEF ObjectStates
<1> QED
  BY <1>1 DEF ApplyUpdate

LEMMA UpsertParts ==
  ASSUME PaneTyped, NEW b \in Browsers, NEW p \in Props, shown' = UpsertObject(b, p)
  PROVE  /\ \A c \in Browsers \ {b} : shown'[c] = shown[c]
         /\ shown'[b] = ApplyUpdate(shown[b], p, LocalTime(b))
         /\ LocalTime(b) \in Int
<1>1. /\ \A c \in Browsers \ {b} : shown'[c] = shown[c]
      /\ shown'[b] = ApplyUpdate(shown[b], p, LocalTime(b))
  BY DEF UpsertObject, PaneTyped, ShownTyped
<1>2. now \in Nat /\ lag[b] \in Int
  BY PaneAssumption DEF PaneTyped, RestTyped
<1> QED
  BY <1>1, <1>2 DEF LocalTime

\* A browser changes its own store, gesture and frames to the server; what it shows anew and
\* does not send leads it astray or stays in hand.
Changes(b) ==
  /\ \A c \in Browsers \ {b} : shown'[c] = shown[c] /\ gesture'[c] = gesture[c]
  /\ shown'[b].posAt \in {shown[b].posAt, LocalTime(b)}
  /\ shown'[b].goneAt \in {shown[b].goneAt, LocalTime(b)}
  /\ shown'[b].props.pos = 0 => shown'[b] = Absent
  /\ astray \subseteq astray' /\ astray' \subseteq astray \cup {b}

SendsWhole(b, frames) ==
  \A i \in DOMAIN frames :
    /\ frames[i].by = b /\ frames[i].type \in {"object", "translate"}
    /\ frames[i].type = "object" => frames[i].props.pos # 0

KeepsHand(b, frames) ==
  /\ gesture'[b] = NoGesture \/ gesture'[b].tool \in HandTools
  /\ gesture'[b].tool = "shape" => shown'[b].posAt <= LocalTime(b)
  /\ gesture'[b].tool \in {"drag", "group"} /\ shown'[b].props.pos = 0 => gesture'[b].missed
  /\ gesture'[b].tool = "stroke" => gesture'[b].pos # 0
  /\ AsSent(b)' => frames # <<>> /\ Latest(frames).props = At(shown'[b].props.pos)
  /\ Calm(b)' /\ frames = <<>> => Calm(b) /\ shown'[b] = shown[b]

Acts(b, frames) ==
  /\ frames \in Seq(Frames) /\ SendCanvas(b, frames)
  /\ UNCHANGED <<now, lag, serverVars>> /\ kind' # "none"
  /\ Changes(b) /\ SendsWhole(b, frames) /\ KeepsHand(b, frames)

LEMMA SentParts ==
  ASSUME PaneTyped, NEW b \in Browsers, NEW frames, SendCanvas(b, frames)
  PROVE  /\ up'[b] = up[b] \o frames /\ up[b] \in Seq(Frames)
         /\ \A c \in Browsers \ {b} : up'[c] = up[c]
  BY DEF SendCanvas, PaneTyped, QueuesTyped

LEMMA ActsInv ==
  ASSUME PaneTyped, NoneAhead, PaneInv, NEW b \in Browsers, NEW frames, Acts(b, frames)
  PROVE  PaneInv'
<1>1. /\ frames \in Seq(Frames) /\ SendCanvas(b, frames) /\ kind' # "none"
      /\ now' = now /\ lag' = lag
      /\ inbox' = inbox /\ saved' = saved /\ stamps' = stamps /\ loading' = loading
      /\ Changes(b) /\ SendsWhole(b, frames) /\ KeepsHand(b, frames)
  BY DEF Acts, serverVars
<1>2. /\ up'[b] = up[b] \o frames /\ up[b] \in Seq(Frames)
      /\ \A c \in Browsers \ {b} : up'[c] = up[c]
  BY <1>1, SentParts
<1>3. ASSUME NEW c \in Browsers \ {b}
      PROVE  /\ shown'[c] = shown[c] /\ gesture'[c] = gesture[c] /\ up'[c] = up[c]
             /\ (c \in astray' <=> c \in astray) /\ LocalTime(c)' = LocalTime(c)
  BY <1>1, <1>2 DEF Changes, LocalTime
<1>4. ClocksInv'
  <2>1. \A t : Reached(t)' <=> Reached(t)
    BY <1>1 DEF Reached
  <2>2. Reached(LocalTime(b))
    BY LocalTimeParts DEF Reached, PaneInv
  <2>3. Reached(shown'[b].posAt) /\ Reached(shown'[b].goneAt)
    BY <1>1, <2>2 DEF Changes, PaneInv, ClocksInv
  <2> QED
    BY <1>1, <1>3, <2>1, <2>3 DEF PaneInv, ClocksInv
<1>5. Whole(saved.props)' /\ Untouched' /\ ReadsFresh'
  BY <1>1 DEF PaneInv, Untouched, ReadsFresh, Whole
<1>6. ASSUME NEW c \in Browsers PROVE WholeInv(c)'
  <2>1. WholeInv(c)
    BY DEF PaneInv
  <2>2. CASE c = b
    <3>1. ASSUME NEW i \in DOMAIN up'[b]
          PROVE  /\ up'[b][i].by = b /\ up'[b][i].type \in {"object", "translate"}
                 /\ up'[b][i].type = "object" => up'[b][i].props.pos # 0
      <4>1. \/ i \in DOMAIN up[b] /\ up'[b][i] = up[b][i]
            \/ \E j \in DOMAIN frames : up'[b][i] = frames[j]
        BY <1>1, <1>2, ConcatParts
      <4> QED
        BY <1>1, <2>1, <2>2, <4>1 DEF WholeInv, SendsWhole
    <3> QED
      BY <1>1, <2>1, <2>2, <3>1 DEF WholeInv, Changes, Whole
  <2>3. CASE c # b
    BY <1>1, <1>3, <2>1, <2>3 DEF WholeInv, Whole
  <2> QED
    BY <2>2, <2>3
<1>7. ASSUME NEW c \in Browsers PROVE Newest(c)'
  <2>1. Newest(c)
    BY DEF PaneInv
  <2> QED
    BY <1>1, <2>1 DEF Newest, Latest
<1>8. ASSUME NEW c \in Browsers PROVE InHand(c)'
  <2>1. InHand(c)
    BY DEF PaneInv
  <2>2. CASE c = b
    <3>1. AsSent(b)' => up'[b] # <<>> /\ Latest(up'[b]).props = At(shown'[b].props.pos)
      BY <1>1, <1>2, ConcatParts DEF KeepsHand
    <3>2. LocalTime(b)' = LocalTime(b)
      BY <1>1 DEF LocalTime
    <3> QED
      BY <1>1, <2>2, <3>1, <3>2 DEF InHand, KeepsHand, Latest
  <2>3. CASE c # b
    BY <1>1, <1>3, <2>1, <2>3 DEF InHand, AsSent, Latest
  <2> QED
    BY <2>2, <2>3
<1>9. ASSUME NEW c \in Browsers PROVE AtRest(c)'
  <2>1. AtRest(c)
    BY DEF PaneInv
  <2>2. CASE c = b
    <3> SUFFICES ASSUME Calm(b)', up'[b] = <<>> PROVE AtRest(b)'
      BY <2>2 DEF AtRest
    <3>1. frames = <<>> /\ up[b] = <<>>
      BY <1>1, <1>2, ConcatParts
    <3>2. Calm(b) /\ shown'[b] = shown[b]
      BY <1>1, <3>1 DEF KeepsHand
    <3> QED
      BY <1>1, <2>1, <2>2, <3>1, <3>2 DEF AtRest, Matches, IsNew, Latest
  <2>3. CASE c # b
    <3>1. Calm(c)' <=> Calm(c)
      BY <1>3, <2>3 DEF Calm, AsSent
    <3> QED
      BY <1>1, <1>3, <2>1, <2>3, <3>1 DEF AtRest, Matches, IsNew, Latest
  <2> QED
    BY <2>2, <2>3
<1> QED
  BY <1>4, <1>5, <1>6, <1>7, <1>8, <1>9 DEF PaneInv

LEMMA StridePositive == ASSUME NEW b \in Browsers PROVE Stride(b) \in Nat \ {0}
  BY PaneAssumption DEF Stride

LEMMA OneFrame ==
  ASSUME NEW b \in Browsers, NEW p \in Props, p.pos # 0
  PROVE  /\ <<Frame(b, "object", p)>> \in Seq(Frames) /\ SendsWhole(b, <<Frame(b, "object", p)>>)
         /\ <<Frame(b, "object", p)>> # <<>> /\ Latest(<<Frame(b, "object", p)>>).props = p
<1>1. Frame(b, "object", p) \in Frames
  BY FrameType
<1>2. /\ Frame(b, "object", p).by = b /\ Frame(b, "object", p).type = "object"
      /\ Frame(b, "object", p).props = p
  BY DEF Frame
<1> HIDE DEF Frame
<1> QED
  BY <1>1, <1>2 DEF SendsWhole, Latest

LEMMA NoFrame ==
  ASSUME PaneTyped, NEW b \in Browsers
  PROVE  /\ <<>> \in Seq(Frames) /\ SendsWhole(b, <<>>)
         /\ UNCHANGED up => SendCanvas(b, <<>>)
<1>1. up[b] \in Seq(Frames)
  BY DEF PaneTyped, QueuesTyped
<1>2. up[b] \o <<>> = up[b]
  BY <1>1
<1>3. UNCHANGED up => SendCanvas(b, <<>>)
  BY <1>2 DEF SendCanvas, PaneTyped, QueuesTyped
<1> QED
  BY <1>3 DEF SendsWhole

\* Something is shown only of an object that is made.
LEMMA MadeOnce ==
  ASSUME PaneInv, NEW b \in Browsers, shown[b].props.pos # 0 \/ gesture[b].tool # "none"
  PROVE  kind # "none"
  BY NoGestureParts DEF PaneInv, Untouched, Absent, None

LEMMA UpsertChanges ==
  ASSUME PaneTyped, PaneInv, NEW b \in Browsers, NEW p \in Props,
         p.pos # 0 \/ shown[b].props.pos # 0, shown' = UpsertObject(b, p),
         \A c \in Browsers \ {b} : gesture'[c] = gesture[c], UNCHANGED astray
  PROVE  /\ Changes(b) /\ shown'[b].props.pos # 0
         /\ shown[b].posAt <= LocalTime(b) =>
              shown'[b].posAt <= LocalTime(b) /\ (p.pos # 0 => shown'[b].props.pos = p.pos)
<1>1. /\ \A c \in Browsers \ {b} : shown'[c] = shown[c]
      /\ shown'[b] = ApplyUpdate(shown[b], p, LocalTime(b)) /\ shown[b] \in ObjectStates
  BY UpsertParts DEF PaneTyped, ShownTyped
<1>2. LocalTime(b) \in Nat /\ shown[b].posAt \in Nat /\ shown[b].goneAt \in Nat
  BY LocalTimeParts, TimeTypes DEF PaneInv
<1>3. shown'[b].props.pos # 0
  <2>1. CASE shown[b].props.pos # 0
    BY <1>1, <1>2, <2>1, ApplyParts
  <2>2. CASE shown[b].props.pos = 0
    <3>1. shown[b].posAt = 0
      BY <2>2 DEF PaneInv, WholeInv, Absent
    <3> QED
      BY <1>1, <1>2, <2>2, <3>1, ApplyParts
  <2> QED
    BY <2>1, <2>2
<1>4. /\ shown'[b].posAt \in {shown[b].posAt, LocalTime(b)}
      /\ shown'[b].goneAt \in {shown[b].goneAt, LocalTime(b)}
      /\ shown[b].posAt <= LocalTime(b) => (p.pos # 0 => shown'[b].props.pos = p.pos)
  BY <1>1, <1>2, ApplyParts
<1> QED
  BY <1>1, <1>2, <1>3, <1>4 DEF Changes

\* Whatever is shown and sent at one stroke.
LEMMA StrokeInv ==
  ASSUME PaneTyped, NoneAhead, PaneInv, NEW b \in Browsers, NEW p \in Props, p.pos # 0,
         gesture[b] = NoGesture, kind' # "none", shown' = UpsertObject(b, p),
         SendCanvas(b, <<Frame(b, "object", p)>>),
         UNCHANGED <<now, lag, gesture, base, astray, serverVars>>
  PROVE  PaneInv'
<1>1. Changes(b)
  BY UpsertChanges
<1>2. KeepsHand(b, <<Frame(b, "object", p)>>)
  BY NoGestureParts, OneFrame DEF KeepsHand, AsSent
<1> QED
  BY <1>1, <1>2, OneFrame, ActsInv DEF Acts

LEMMA StrokesInv ==
  ASSUME PaneTyped, NoneAhead, PaneInv, NEW b \in Browsers,
         InsertObject(b) \/ CommitEdit(b) \/ DeleteObjectById(b)
  PROVE  PaneInv'
<1>1. shown[b].props \in Props /\ shown[b].props.pos \in Nat /\ Stride(b) \in Nat \ {0}
  BY HandTyped, StridePositive
<1>2. CASE InsertObject(b)
  <2>1. At(Stride(b)) \in Props /\ At(Stride(b)).pos # 0
    BY <1>1, PropsType DEF At
  <2> QED
    BY <1>2, <2>1, StrokeInv DEF InsertObject
<1>3. CASE CommitEdit(b)
  <2> DEFINE next == [shown[b].props EXCEPT !.pos = shown[b].props.pos + Stride(b)]
  <2>1. next \in Props /\ next.pos # 0
    <3>1. shown[b].props.pos + Stride(b) \in Nat \ {0}
      BY <1>1
    <3> QED
      BY <1>1, <3>1, PropsType DEF Props
  <2>2. /\ Alive(b) /\ gesture[b] = NoGesture /\ UNCHANGED kind
        /\ shown' = UpsertObject(b, next) /\ SendCanvas(b, <<Frame(b, "object", next)>>)
        /\ UNCHANGED <<now, lag, gesture, base, astray, serverVars>>
    BY <1>3 DEF CommitEdit
  <2>3. kind' # "none"
    BY <2>2, MadeOnce DEF Alive
  <2> HIDE DEF next
  <2> QED
    BY <2>1, <2>2, <2>3, StrokeInv
<1>4. CASE DeleteObjectById(b)
  <2> DEFINE deleted == [shown[b].props EXCEPT !.gone = "yes"]
  <2>1. /\ Alive(b) /\ gesture[b] = NoGesture /\ UNCHANGED kind
        /\ shown' = UpsertObject(b, deleted) /\ SendCanvas(b, <<Frame(b, "object", deleted)>>)
        /\ UNCHANGED <<now, lag, gesture, base, astray, serverVars>>
    BY <1>4 DEF DeleteObjectById
  <2>2. deleted \in Props /\ deleted.pos # 0
    BY <1>1, <2>1, PropsType DEF Alive, Props
  <2>3. kind' # "none"
    BY <2>1, MadeOnce DEF Alive
  <2> HIDE DEF deleted
  <2> QED
    BY <2>1, <2>2, <2>3, StrokeInv
<1> QED
  BY <1>2, <1>3, <1>4

LEMMA HistoryInv ==
  ASSUME PaneTyped, NoneAhead, PaneInv, NEW b \in Browsers, NEW n \in Nat \ {0},
         NEW targets \in [1..n -> Nat], ApplyHistory(b, targets),
         gesture[b] = NoGesture, shown[b].props.pos # 0,
         UNCHANGED <<now, lag, kind, gesture, base, astray, serverVars>>
  PROVE  PaneInv'
<1> DEFINE props == [i \in DOMAIN targets |-> Target(b, targets[i])]
           frames == [i \in DOMAIN props |-> Frame(b, "object", props[i])]
<1>1. shown' = UpsertObject(b, props[Len(props)]) /\ SendCanvas(b, frames)
  BY DEF ApplyHistory
<1>2. props \in [1..n -> Props] /\ \A i \in 1..n : props[i].pos # 0
  <2>1. props \in [1..n -> Props]
    BY TargetType
  <2>2. ASSUME NEW i \in 1..n PROVE Target(b, targets[i]).pos # 0
    BY HandTyped DEF Target, Props
  <2> QED
    BY <2>1, <2>2
<1> HIDE DEF props
<1>3. Len(props) = n /\ n \in 1..n
  BY <1>2
<1>4. props[Len(props)] \in Props /\ props[Len(props)].pos # 0
  BY <1>2, <1>3
<1>5. frames \in Seq(Frames) /\ SendsWhole(b, frames) /\ frames # <<>>
  <2>1. ASSUME NEW i \in 1..n
        PROVE  /\ Frame(b, "object", props[i]) \in Frames
               /\ Frame(b, "object", props[i]).by = b
               /\ Frame(b, "object", props[i]).type = "object"
               /\ Frame(b, "object", props[i]).props.pos # 0
    BY <1>2, FrameType DEF Frame
  <2>2. frames \in [1..n -> Frames] /\ DOMAIN frames = 1..n
    BY <1>2, <2>1
  <2>3. SendsWhole(b, frames)
    BY <1>2, <2>1 DEF SendsWhole
  <2>4. frames \in Seq(Frames) /\ frames # <<>>
    BY <1>3, <2>2
  <2> QED
    BY <2>3, <2>4
<1> HIDE DEF frames
<1>6. Changes(b) /\ kind' # "none"
  BY <1>1, <1>4, UpsertChanges, MadeOnce
<1>7. KeepsHand(b, frames)
  BY <1>5, NoGestureParts DEF KeepsHand, AsSent
<1> QED
  BY <1>1, <1>5, <1>6, <1>7, ActsInv DEF Acts

LEMMA UndoInv ==
  ASSUME PaneTyped, NoneAhead, PaneInv, NEW b \in Browsers, Undo(b)
  PROVE  PaneInv'
<1> DEFINE group == LastGroup(undos[b])
           targets == [i \in DOMAIN group |-> group[Len(group) + 1 - i].before]
<1>1. /\ undos[b] # <<>> /\ ApplyHistory(b, targets)
      /\ gesture[b] = NoGesture /\ shown[b].props.pos # 0
      /\ UNCHANGED <<now, lag, kind, gesture, base, astray, serverVars>>
  BY DEF Undo
<1>2. undos[b] \in Seq(Entries)
  BY DEF PaneTyped, StackTyped
<1>3. group \in Seq(Entries) /\ Len(group) \in Nat \ {0} /\ DOMAIN group = 1..Len(group)
  BY <1>1, <1>2, GroupsType
<1> HIDE DEF group
<1>4. targets \in [1..Len(group) -> Nat]
  BY <1>3, EntryOf
<1> HIDE DEF targets
<1> QED
  BY <1>1, <1>3, <1>4, HistoryInv

LEMMA RedoInv ==
  ASSUME PaneTyped, NoneAhead, PaneInv, NEW b \in Browsers, Redo(b)
  PROVE  PaneInv'
<1> DEFINE group == LastGroup(redos[b])
           targets == [i \in DOMAIN group |-> group[i].after]
<1>1. /\ redos[b] # <<>> /\ ApplyHistory(b, targets)
      /\ gesture[b] = NoGesture /\ shown[b].props.pos # 0
      /\ UNCHANGED <<now, lag, kind, gesture, base, astray, serverVars>>
  BY DEF Redo
<1>2. redos[b] \in Seq(Entries)
  BY DEF PaneTyped, StackTyped
<1>3. group \in Seq(Entries) /\ Len(group) \in Nat \ {0} /\ DOMAIN group = 1..Len(group)
  BY <1>1, <1>2, GroupsType
<1> HIDE DEF group
<1>4. targets \in [1..Len(group) -> Nat]
  BY <1>3, EntryOf
<1> HIDE DEF targets
<1> QED
  BY <1>1, <1>3, <1>4, HistoryInv

LEMMA ReplayInv ==
  ASSUME PaneTyped, NoneAhead, PaneInv, NEW b \in Browsers, ReplayRecent(b)
  PROVE  PaneInv'
<1> DEFINE p == Target(b, undos[b][Len(undos[b])].after)
<1>1. /\ undos[b] # <<>> /\ gesture[b] = NoGesture /\ shown[b].props.pos # 0
      /\ shown' = UpsertObject(b, p) /\ astray' = astray \cup {b}
      /\ UNCHANGED <<now, lag, kind, gesture, base, up, serverVars>>
  BY DEF ReplayRecent
<1>2. p \in Props
  <2>1. undos[b] \in Seq(Entries)
    BY DEF PaneTyped, StackTyped
  <2>2. undos[b][Len(undos[b])] \in Entries
    BY <1>1, <2>1
  <2> QED
    BY <2>2, TargetType DEF Entries
<1> HIDE DEF p
<1>3. /\ \A c \in Browsers \ {b} : shown'[c] = shown[c]
      /\ shown'[b] = ApplyUpdate(shown[b], p, LocalTime(b)) /\ LocalTime(b) \in Int
      /\ shown[b] \in ObjectStates
  BY <1>1, <1>2, UpsertParts DEF PaneTyped, ShownTyped
<1>4. Changes(b)
  BY <1>1, <1>2, <1>3, ApplyParts DEF Changes
<1>5. KeepsHand(b, <<>>)
  BY <1>1, NoGestureParts DEF KeepsHand, AsSent, Calm
<1>6. kind' # "none"
  BY <1>1, MadeOnce
<1> QED
  BY <1>1, <1>4, <1>5, <1>6, NoFrame, ActsInv DEF Acts

LEMMA SelectInv ==
  ASSUME PaneTyped, NoneAhead, PaneInv, NEW b \in Browsers, NEW tool \in Tools,
         PointerDownSelects(b, tool)
  PROVE  PaneInv'
<1> DEFINE g == [NoGesture EXCEPT !.tool = tool, !.start = shown[b].props,
                                  !.pos = shown[b].props.pos, !.group = 2 * uses]
<1>1. /\ tool \in {"drag", "group"} /\ Alive(b) /\ gesture' = [gesture EXCEPT ![b] = g]
      /\ UNCHANGED <<now, lag, kind, shown, base, undos, redos, up, astray, serverVars>>
  BY DEF PointerDownSelects
<1>2. gesture'[b].tool = tool /\ \A c \in Browsers \ {b} : gesture'[c] = gesture[c]
  BY <1>1 DEF PaneTyped, GestureTyped, NoGesture
<1>3. Changes(b) /\ kind' # "none"
  BY <1>1, <1>2, MadeOnce DEF Changes, PaneInv, Alive
<1>4. KeepsHand(b, <<>>)
  BY <1>1, <1>2, NoGestureParts DEF KeepsHand, AsSent, Calm, Alive, HandTools
<1> QED
  BY <1>1, <1>3, <1>4, NoFrame, ActsInv DEF Acts

LEMMA DrawInv ==
  ASSUME PaneTyped, NoneAhead, PaneInv, NEW b \in Browsers, NEW tool \in Tools,
         PointerDownDraws(b, tool)
  PROVE  PaneInv'
<1> DEFINE p == At(Stride(b))
           g == [NoGesture EXCEPT !.tool = tool, !.pos = Stride(b), !.group = 2 * uses]
<1>1. /\ tool \in {"stroke", "shape"} /\ kind = "none"
      /\ kind' = IF tool = "stroke" THEN "points" ELSE "box"
      /\ gesture' = [gesture EXCEPT ![b] = g]
      /\ shown' = UpsertObject(b, p) /\ SendCanvas(b, <<Frame(b, "object", p)>>)
      /\ UNCHANGED <<now, lag, astray, serverVars>>
  BY DEF PointerDownDraws
<1>2. Stride(b) \in Nat \ {0} /\ p \in Props /\ p.pos = Stride(b)
  BY StridePositive, PropsType DEF At
<1>3. /\ gesture'[b].tool = tool /\ gesture'[b].pos # 0
      /\ \A c \in Browsers \ {b} : gesture'[c] = gesture[c]
  BY <1>1, <1>2 DEF PaneTyped, GestureTyped, NoGesture
<1> HIDE DEF p, g
<1>4. shown[b].posAt = 0 /\ LocalTime(b) \in Nat
  BY <1>1, LocalTimeParts DEF PaneInv, Untouched, Absent
<1>5. Changes(b) /\ shown'[b].posAt <= LocalTime(b) /\ shown'[b].props.pos = Stride(b)
  BY <1>1, <1>2, <1>3, <1>4, UpsertChanges
<1>6. KeepsHand(b, <<Frame(b, "object", p)>>)
  <2>1. Latest(<<Frame(b, "object", p)>>).props = At(shown'[b].props.pos)
    BY <1>2, <1>5, OneFrame DEF p
  <2> QED
    BY <1>1, <1>2, <1>3, <1>5, <2>1, OneFrame, NoGestureParts DEF KeepsHand, AsSent, Calm, HandTools
<1>7. kind' # "none"
  BY <1>1
<1> QED
  BY <1>1, <1>2, <1>5, <1>6, <1>7, OneFrame, ActsInv DEF Acts

\* A move of a pointer that has a tool in hand.
LEMMA MoveParts ==
  ASSUME PaneTyped, PaneInv, NEW b \in Browsers, NEW upserted, NEW frame, NEW entry,
         PointerMove(b, upserted, frame, entry), gesture[b].tool # "none"
  PROVE  \E emits \in BOOLEAN :
           /\ SendCanvas(b, IF emits THEN frame ELSE <<>>)
           /\ shown' = IF upserted = None THEN shown ELSE UpsertObject(b, upserted)
           /\ gesture'[b].tool = gesture[b].tool /\ gesture'[b].pos = Pointed(b)
           /\ gesture'[b].unsent = ~emits
           /\ \A c \in Browsers \ {b} : gesture'[c] = gesture[c]
           /\ kind' # "none" /\ UNCHANGED <<now, lag, astray, serverVars>>
<1>1. PICK emits \in BOOLEAN :
        /\ SendCanvas(b, IF emits THEN frame ELSE <<>>)
        /\ gesture' = [gesture EXCEPT ![b].pos = @ + Stride(b), ![b].moves = @ + 1,
                                      ![b].unsent = ~emits, ![b].missed = @ /\ ~emits]
        /\ shown' = IF upserted = None THEN shown ELSE UpsertObject(b, upserted)
        /\ UNCHANGED <<now, lag, kind, astray, serverVars>>
  BY DEF PointerMove
<1>2. kind' # "none"
  BY <1>1, MadeOnce
<1>3. /\ gesture'[b].tool = gesture[b].tool
      /\ gesture'[b].pos = Pointed(b) /\ gesture'[b].unsent = ~emits
      /\ \A c \in Browsers \ {b} : gesture'[c] = gesture[c]
  BY <1>1 DEF PaneTyped, GestureTyped, Gestures, Pointed
<1> QED
  BY <1>1, <1>2, <1>3

LEMMA PointedPositive == ASSUME PaneTyped, NEW b \in Browsers PROVE Pointed(b) \in Nat \ {0}
<1>1. gesture[b].pos \in Nat /\ Stride(b) \in Nat \ {0}
  BY HandTyped, StridePositive
<1> QED
  BY <1>1 DEF Pointed

\* A pane that is not calm after it moved, and sends nothing that must be kept.
LEMMA MoveInv ==
  ASSUME PaneTyped, NoneAhead, PaneInv, NEW b \in Browsers, NEW frames \in Seq(Frames),
         SendCanvas(b, frames), SendsWhole(b, frames), Changes(b),
         gesture'[b].tool \in {"stroke", "drag", "group"},
         gesture'[b].tool \in {"drag", "group"} => shown'[b].props.pos # 0,
         gesture'[b].pos = Pointed(b), kind' # "none", UNCHANGED <<now, lag, serverVars>>
  PROVE  PaneInv'
<1>1. KeepsHand(b, frames)
  BY PointedPositive, NoGestureParts DEF KeepsHand, AsSent, Calm, HandTools
<1> QED
  BY <1>1, ActsInv DEF Acts

LEMMA MoveStrokeInv ==
  ASSUME PaneTyped, NoneAhead, PaneInv, NEW b \in Browsers, MoveStroke(b)
  PROVE  PaneInv'
<1> DEFINE frame == <<Frame(b, "object", At(Pointed(b)))>>
<1>1. gesture[b].tool = "stroke" /\ PointerMove(b, None, frame, <<>>)
  BY DEF MoveStroke
<1>2. PICK emits \in BOOLEAN :
        /\ SendCanvas(b, IF emits THEN frame ELSE <<>>) /\ shown' = shown
        /\ gesture'[b].tool = gesture[b].tool /\ gesture'[b].pos = Pointed(b)
        /\ \A c \in Browsers \ {b} : gesture'[c] = gesture[c]
        /\ kind' # "none" /\ UNCHANGED <<now, lag, astray, serverVars>>
  BY <1>1, MoveParts
<1>3. At(Pointed(b)) \in Props /\ At(Pointed(b)).pos # 0
  BY PointedPositive, PropsType DEF At
<1> DEFINE frames == IF emits THEN frame ELSE <<>>
<1>4. frames \in Seq(Frames) /\ SendsWhole(b, frames)
  BY <1>3, OneFrame, NoFrame
<1>5. Changes(b)
  BY <1>2 DEF Changes, PaneInv, WholeInv
<1> QED
  BY <1>1, <1>2, <1>4, <1>5, MoveInv

LEMMA MoveShapeInv ==
  ASSUME PaneTyped, NoneAhead, PaneInv, NEW b \in Browsers, MoveShape(b)
  PROVE  PaneInv'
<1> DEFINE p == At(Pointed(b))
           frame == <<Frame(b, "object", p)>>
<1>1. gesture[b].tool = "shape" /\ PointerMove(b, p, frame, Entered(b, Pointed(b)))
  BY DEF MoveShape
<1>2. Pointed(b) \in Nat \ {0} /\ p \in Props /\ p.pos = Pointed(b) /\ p # None
  BY PointedPositive, PropsType DEF At, None
<1>3. PICK emits \in BOOLEAN :
        /\ SendCanvas(b, IF emits THEN frame ELSE <<>>) /\ shown' = UpsertObject(b, p)
        /\ gesture'[b].tool = "shape" /\ gesture'[b].unsent = ~emits
        /\ \A c \in Browsers \ {b} : gesture'[c] = gesture[c]
        /\ kind' # "none" /\ UNCHANGED <<now, lag, astray, serverVars>>
  BY <1>1, <1>2, MoveParts
<1> HIDE DEF p
<1> DEFINE frames == IF emits THEN frame ELSE <<>>
<1>4. frames \in Seq(Frames) /\ SendsWhole(b, frames)
  BY <1>2, OneFrame, NoFrame
<1>5. shown[b].posAt <= LocalTime(b)
  BY <1>1 DEF PaneInv, InHand
<1>6. Changes(b) /\ shown'[b].posAt <= LocalTime(b) /\ shown'[b].props.pos = Pointed(b)
  BY <1>2, <1>3, <1>5, UpsertChanges
<1>7. KeepsHand(b, frames)
  <2>1. emits => frames # <<>> /\ Latest(frames).props = At(shown'[b].props.pos)
    BY <1>2, <1>6, OneFrame DEF p
  <2>2. AsSent(b)' => emits
    BY <1>3 DEF AsSent
  <2>3. Calm(b)' => emits
    BY <1>3, <2>2, NoGestureParts DEF Calm
  <2> HIDE DEF frames
  <2> QED
    BY <1>3, <1>6, <2>1, <2>2, <2>3 DEF KeepsHand, HandTools
<1> QED
  BY <1>3, <1>4, <1>6, <1>7, ActsInv DEF Acts

\* A step of a drag, whatever is sent of it.
LEMMA DragInv ==
  ASSUME PaneTyped, NoneAhead, PaneInv, NEW b \in Browsers, NEW frame, NEW entry,
         gesture[b].tool \in {"drag", "group"}, frame \in Seq(Frames), SendsWhole(b, frame),
         PointerMove(b, [gesture[b].start EXCEPT !.pos = Pointed(b)], frame, entry)
  PROVE  PaneInv'
<1> DEFINE next == [gesture[b].start EXCEPT !.pos = Pointed(b)]
<1>1. Pointed(b) \in Nat \ {0} /\ next \in Props /\ next.pos = Pointed(b) /\ next # None
  <2>1. gesture[b].start \in Props
    BY HandTyped
  <2> QED
    BY <2>1, PointedPositive, PropsType DEF Props, None
<1> HIDE DEF next
<1>2. PICK emits \in BOOLEAN :
        /\ SendCanvas(b, IF emits THEN frame ELSE <<>>) /\ shown' = UpsertObject(b, next)
        /\ gesture'[b].tool = gesture[b].tool /\ gesture'[b].pos = Pointed(b)
        /\ \A c \in Browsers \ {b} : gesture'[c] = gesture[c]
        /\ kind' # "none" /\ UNCHANGED <<now, lag, astray, serverVars>>
  BY <1>1, MoveParts DEF next
<1>3. Changes(b) /\ shown'[b].props.pos # 0
  BY <1>1, <1>2, UpsertChanges
<1> DEFINE frames == IF emits THEN frame ELSE <<>>
<1>4. frames \in Seq(Frames) /\ SendsWhole(b, frames)
  BY NoFrame
<1> QED
  BY <1>2, <1>3, <1>4, MoveInv

LEMMA TranslationWhole ==
  ASSUME PaneTyped, NEW b \in Browsers
  PROVE  <<Translation(b)>> \in Seq(Frames) /\ SendsWhole(b, <<Translation(b)>>)
<1>1. Translation(b) \in Frames
  BY HandTyped
<1>2. Translation(b).by = b /\ Translation(b).type = "translate"
  BY DEF Translation, Frame
<1> HIDE DEF Translation
<1> QED
  BY <1>1, <1>2 DEF SendsWhole

LEMMA DragsInv ==
  ASSUME PaneTyped, NoneAhead, PaneInv, NEW b \in Browsers, MoveDrag(b) \/ MoveGroup(b)
  PROVE  PaneInv'
<1> DEFINE next == [gesture[b].start EXCEPT !.pos = Pointed(b)]
           old == shown[b].props
<1>1. next \in Props /\ next.pos # 0
  <2>1. gesture[b].start \in Props
    BY HandTyped
  <2> QED
    BY <2>1, PointedPositive, PropsType DEF Props
<1>2. old \in Props /\ (old # None => old.pos # 0)
  <2>1. shown[b].props.pos = 0 => shown[b] = Absent
    BY DEF PaneInv, WholeInv
  <2>2. Absent.props = None
    BY DEF Absent
  <2>3. shown[b].props.pos = 0 => shown[b].props = None
    BY <2>1, <2>2
  <2> QED
    BY <2>3, HandTyped
<1>3. CASE MoveDrag(b)
  <2> DEFINE frame == <<IF kind = "points" THEN Translation(b) ELSE Frame(b, "object", next)>>
             entry == Entered(b, next.pos)
  <2>1. gesture[b].tool = "drag" /\ PointerMove(b, next, frame, entry)
    BY <1>3 DEF MoveDrag
  <2>2. frame \in Seq(Frames) /\ SendsWhole(b, frame)
    <3> HIDE DEF next
    <3> QED
      BY <1>1, OneFrame, TranslationWhole
  <2> HIDE DEF frame, entry
  <2> QED
    BY <2>1, <2>2, DragInv
<1>4. CASE MoveGroup(b)
  <2> DEFINE frame == IF old = None THEN <<>>
                      ELSE <<IF kind = "points" THEN Translation(b)
                             ELSE Frame(b, "object", old)>>
             entry == IF old = None THEN <<>> ELSE Entered(b, old.pos)
  <2>1. gesture[b].tool = "group" /\ PointerMove(b, next, frame, entry)
    BY <1>4 DEF MoveGroup
  <2>2. frame \in Seq(Frames) /\ SendsWhole(b, frame)
    <3> HIDE DEF old
    <3> QED
      BY <1>2, OneFrame, NoFrame, TranslationWhole
  <2> HIDE DEF frame, entry
  <2> QED
    BY <2>1, <2>2, DragInv
<1> QED
  BY <1>3, <1>4

LEMMA UpInv ==
  ASSUME PaneTyped, NoneAhead, PaneInv, NEW b \in Browsers, PointerUp(b)
  PROVE  PaneInv'
<1> DEFINE g == gesture[b]
           final == Final(b)
           sends == ~(g.tool = "shape" \/ final.pos = 0)
           frames == IF sends THEN <<Frame(b, "object", final)>> ELSE <<>>
<1>1. /\ g # NoGesture /\ gesture' = [gesture EXCEPT ![b] = NoGesture]
      /\ shown' = IF g.tool = "stroke" THEN UpsertObject(b, final) ELSE shown
      /\ IF sends THEN SendCanvas(b, <<Frame(b, "object", final)>>) /\ UNCHANGED astray
         ELSE /\ UNCHANGED up
              /\ astray' = IF g.unsent \/ g.missed THEN astray \cup {b} ELSE astray
      /\ UNCHANGED <<now, lag, kind, serverVars>>
  BY DEF PointerUp
<1>2. gesture'[b] = NoGesture /\ \A c \in Browsers \ {b} : gesture'[c] = gesture[c]
  BY <1>1 DEF PaneTyped, GestureTyped
<1>3. g.tool \in Tools \cup {"none"} /\ shown[b].props \in Props /\ g.pos \in Nat
  BY HandTyped DEF Gestures
<1>4. g.tool = "stroke" => final \in Props /\ final.pos # 0
  BY <1>3, PropsType DEF PaneInv, InHand, Final, At
<1>5. final \in Props
  BY <1>3, <1>4 DEF Final
<1>6. g.tool # "stroke" => final = shown[b].props
  BY DEF Final
<1> HIDE DEF final
<1>7. frames \in Seq(Frames) /\ SendsWhole(b, frames) /\ SendCanvas(b, frames)
      /\ (sends => frames # <<>>)
  BY <1>1, <1>5, OneFrame, NoFrame
<1>8. Changes(b)
  <2>1. CASE g.tool = "stroke"
    <3>1. sends /\ UNCHANGED astray
      BY <1>1, <1>4, <2>1
    <3> QED
      BY <1>1, <1>2, <1>4, <2>1, <3>1, UpsertChanges
  <2>2. CASE g.tool # "stroke"
    BY <1>1, <1>2, <2>2 DEF Changes, PaneInv, WholeInv
  <2> QED
    BY <2>1, <2>2
<1>9. KeepsHand(b, frames)
  <2> HIDE DEF frames
  <2>1. ~AsSent(b)'
    BY <1>2, NoGestureParts DEF AsSent
  <2>2. ASSUME Calm(b)', frames = <<>> PROVE Calm(b) /\ shown'[b] = shown[b]
    <3>1. ~sends /\ b \notin astray' /\ ~g.unsent /\ ~g.missed /\ b \notin astray
      BY <1>1, <1>7, <2>2 DEF Calm
    <3>2. g.tool # "stroke" /\ shown' = shown
      BY <1>1, <1>4, <3>1
    <3>3. g.tool = "shape"
      <4> SUFFICES ASSUME g.tool # "shape" PROVE FALSE
        OBVIOUS
      <4>1. shown[b].props.pos = 0 /\ g.tool \notin {"drag", "group"}
        BY <1>6, <3>1, <3>2 DEF PaneInv, InHand
      <4> QED
        BY <1>1, <3>2, <4>1 DEF PaneInv, InHand, HandTools
    <3> QED
      BY <3>1, <3>2, <3>3 DEF Calm, AsSent
  <2> QED
    BY <1>2, <2>1, <2>2, NoGestureParts DEF KeepsHand
<1>10. kind' # "none"
  BY <1>1, MadeOnce DEF PaneInv, InHand, HandTools
<1> HIDE DEF frames
<1> QED
  BY <1>1, <1>7, <1>8, <1>9, <1>10, ActsInv DEF Acts

-----------------------------------------------------------------------------
(* The canvas panes: what the server does with a frame.                    *)

\* The clock goes on, and no stamp is smaller than one reached before if the other users'
\* are smaller than it.
LEMMA StampReached ==
  ASSUME PaneTyped, NEW b \in Browsers, Stamping(b)
  PROVE  /\ now <= now' /\ Stamp(b) \in Nat
         /\ \A t \in Nat : Reached(t) \/ t <= Stamp(b) => Reached(t)'
         /\ (\A c \in Browsers \ {b} : stamps[c] < Stamp(b)) =>
              \A t \in Nat : Reached(t) => t <= Stamp(b)
<1>1. /\ now \in Nat /\ now' \in Nat /\ now <= now' /\ now' <= Stamp(b) /\ Stamp(b) \in Nat
      /\ stamps[b] + 1 <= Stamp(b) /\ stamps'[b] = Stamp(b)
      /\ \A c \in Browsers : stamps[c] \in Nat /\ stamps'[c] \in Nat /\ stamps[c] <= stamps'[c]
  BY StampingParts DEF PaneTyped, RestTyped, SavedTyped
<1>2. ASSUME NEW t \in Nat, Reached(t) PROVE Reached(t)'
  <2>1. CASE t <= now
    BY <1>1, <2>1 DEF Reached
  <2>2. ASSUME NEW c \in Browsers, t <= stamps[c] PROVE Reached(t)'
    <3>1. t <= stamps'[c]
      BY <1>1, <2>2
    <3> QED
      BY <3>1 DEF Reached
  <2> QED
    BY <1>2, <2>1, <2>2 DEF Reached
<1>3. ASSUME NEW t \in Nat, t <= Stamp(b) PROVE Reached(t)'
  BY <1>1, <1>3 DEF Reached
<1>4. ASSUME \A c \in Browsers \ {b} : stamps[c] < Stamp(b), NEW t \in Nat, Reached(t)
      PROVE  t <= Stamp(b)
  BY <1>1, <1>4 DEF Reached
<1> QED
  BY <1>1, <1>2, <1>3, <1>4

\* What stamping leaves as it was.
LEMMA StampingRest ==
  ASSUME PaneTyped, NoneAhead, PaneInv, NEW b \in Browsers, Stamping(b)
  PROVE  /\ up'[b] = Tail(up[b]) /\ \A c \in Browsers \ {b} : up'[c] = up[c]
         /\ shown' = shown /\ gesture' = gesture /\ kind' = kind /\ kind # "none" /\ lag' = lag
         /\ Head(up[b]) = up[b][1] /\ 1 \in DOMAIN up[b]
         /\ \A c \in Browsers :
              /\ LocalTime(c) <= LocalTime(c)' /\ LocalTime(c) \in Int /\ LocalTime(c)' \in Int
              /\ \A i \in DOMAIN up'[c] : \E j \in DOMAIN up[c] : up'[c][i] = up[c][j]
         /\ up[b] # <<>> /\ up[b] \in Seq(Frames)
         /\ Latest(up[b]) = IF up'[b] = <<>> THEN Head(up[b]) ELSE Latest(up'[b])
<1>1. /\ up'[b] = Tail(up[b]) /\ up[b] # <<>> /\ up[b] \in Seq(Frames)
      /\ \A c \in Browsers \ {b} : up'[c] = up[c]
      /\ shown' = shown /\ gesture' = gesture /\ kind' = kind /\ lag' = lag
  BY StampingParts DEF Stamping, PaneTyped, QueuesTyped
<1>2. kind # "none"
  BY <1>1 DEF PaneInv, Untouched
<1>3. /\ Head(up[b]) = up[b][1] /\ 1 \in DOMAIN up[b]
      /\ \A i \in DOMAIN Tail(up[b]) : i + 1 \in DOMAIN up[b] /\ Tail(up[b])[i] = up[b][i + 1]
      /\ Latest(up[b]) = IF Tail(up[b]) = <<>> THEN Head(up[b]) ELSE Latest(Tail(up[b]))
  BY <1>1, TailParts
<1>4. ASSUME NEW c \in Browsers
      PROVE  \A i \in DOMAIN up'[c] : \E j \in DOMAIN up[c] : up'[c][i] = up[c][j]
  <2>1. CASE c = b
    <3>1. \A i \in DOMAIN Tail(up[b]) : \E j \in DOMAIN up[b] : Tail(up[b])[i] = up[b][j]
      BY <1>3
    <3>2. up'[c] = Tail(up[b]) /\ up[c] = up[b]
      BY <1>1, <2>1
    <3> QED
      BY <3>1, <3>2, Zenon
  <2>2. CASE c # b
    BY <1>1, <2>2
  <2> QED
    BY <2>1, <2>2
<1>5. ASSUME NEW c \in Browsers
      PROVE  LocalTime(c) <= LocalTime(c)' /\ LocalTime(c) \in Int /\ LocalTime(c)' \in Int
  <2>1. now \in Nat /\ lag[c] \in Int /\ now' \in Nat /\ now <= now'
    BY StampReached, LocalTimeParts, StampingParts DEF PaneInv
  <2> QED
    BY <1>1, <2>1 DEF LocalTime
<1>6. Latest(up[b]) = IF up'[b] = <<>> THEN Head(up[b]) ELSE Latest(up'[b])
  BY <1>1, <1>3, Zenon DEF Latest
<1> QED
  BY <1>1, <1>2, <1>3, <1>4, <1>5, <1>6

\* What is sent of a frame, and what is saved of it.
ServesAs(b, sent) ==
  /\ sent \in Frames /\ inbox' = [c \in Browsers |-> Append(inbox[c], sent)]
  /\ sent.type = Head(up[b]).type /\ sent.props = Head(up[b]).props /\ sent.by = b
  /\ sent.at = Stamp(b) /\ sent.type \in {"object", "translate"}
  /\ sent.type = "object" => sent.props.pos # 0
  /\ sent.settles => Saves(b) /\ \A c \in Browsers \ {b} : stamps[c] < Stamp(b)
  /\ IF Saves(b) THEN saved'.props = sent.props /\ sent.type = "object" ELSE saved' = saved
  /\ \A c \in Browsers :
       loading'[c] # Absent =>
         /\ loading[c] # Absent /\ loading'[c].props = loading[c].props
         /\ loading'[c].fresh => loading[c].fresh /\ ~Saves(b)
  /\ astray' = astray

LEMMA ServeParts ==
  ASSUME PaneTyped, NoneAhead, PaneInv, NEW b \in Browsers, Serve(b)
  PROVE  Stamping(b) /\ \E sent : ServesAs(b, sent)
<1> DEFINE f == Head(up[b])
           s == Saves(b) /\ \A c \in Browsers \ {b} : stamps[c] < Stamp(b)
           sent == [f EXCEPT !.at = Stamp(b), !.settles = s]
<1>1. /\ Stamping(b)
      /\ saved' = IF Saves(b) THEN [props |-> f.props, at |-> Stamp(b), by |-> b] ELSE saved
      /\ inbox' = [c \in Browsers |-> Append(inbox[c], sent)]
      /\ loading' = [c \in Browsers |-> IF loading[c] # Absent /\ Saves(b)
                                        THEN [loading[c] EXCEPT !.fresh = FALSE]
                                        ELSE loading[c]]
      /\ UNCHANGED astray
  BY DEF Serve
<1>2. f \in Frames /\ Stamp(b) \in Nat /\ s \in BOOLEAN
  BY <1>1, StampingParts
<1>3. /\ f.by = b /\ f.type \in {"object", "translate"}
      /\ f.type = "object" => f.props.pos # 0
  <2>1. 1 \in DOMAIN up[b] /\ Head(up[b]) = up[b][1]
    BY <1>1, StampingRest
  <2>2. WholeInv(b)
    BY DEF PaneInv
  <2>3. /\ up[b][1].by = b /\ up[b][1].type \in {"object", "translate"}
        /\ up[b][1].type = "object" => up[b][1].props.pos # 0
    BY <2>1, <2>2 DEF WholeInv
  <2> QED
    BY <2>1, <2>3
<1>4. /\ sent \in Frames /\ sent.type = f.type /\ sent.props = f.props /\ sent.by = f.by
      /\ sent.at = Stamp(b) /\ sent.settles = s
  <2> HIDE DEF f, s
  <2> QED
    BY <1>2 DEF Frames
<1>5. ASSUME NEW c \in Browsers, loading'[c] # Absent
      PROVE  /\ loading[c] # Absent /\ loading'[c].props = loading[c].props
             /\ loading'[c].fresh => loading[c].fresh /\ ~Saves(b)
  <2>1. loading[c] # Absent
    BY <1>1, <1>5
  <2>2. loading[c] \in Loads
    BY <2>1 DEF PaneTyped, SavedTyped
  <2>3. CASE Saves(b)
    <3>1. loading'[c] = [loading[c] EXCEPT !.fresh = FALSE]
      BY <1>1, <2>1, <2>3
    <3> QED
      BY <2>1, <2>2, <3>1 DEF Loads
  <2>4. CASE ~Saves(b)
    BY <1>1, <2>1, <2>4
  <2> QED
    BY <2>3, <2>4
<1>6. Saves(b) => f.type = "object" /\ saved'.props = f.props
  BY <1>1 DEF Saves
<1>7. ServesAs(b, sent)
  <2>1. sent.settles => Saves(b) /\ \A c \in Browsers \ {b} : stamps[c] < Stamp(b)
    BY <1>4
  <2> HIDE DEF s, sent, f
  <2>2. /\ sent.type = Head(up[b]).type /\ sent.props = Head(up[b]).props /\ sent.by = b
        /\ sent.type \in {"object", "translate"} /\ (sent.type = "object" => sent.props.pos # 0)
    BY <1>3, <1>4 DEF f
  <2> QED
    BY <1>1, <1>4, <1>5, <1>6, <2>1, <2>2 DEF ServesAs
<1> QED
  BY <1>1, <1>7

LEMMA ServeInv ==
  ASSUME PaneTyped, NoneAhead, PaneInv, NEW b \in Browsers, Serve(b)
  PROVE  PaneInv'
<1>1. Stamping(b)
  BY ServeParts
<1>2. PICK sent : ServesAs(b, sent)
  BY ServeParts
<1>3. /\ up'[b] = Tail(up[b]) /\ \A c \in Browsers \ {b} : up'[c] = up[c]
      /\ shown' = shown /\ gesture' = gesture /\ kind' = kind /\ kind # "none" /\ lag' = lag
      /\ \A c \in Browsers :
           /\ LocalTime(c) <= LocalTime(c)' /\ LocalTime(c) \in Int /\ LocalTime(c)' \in Int
           /\ \A i \in DOMAIN up'[c] : \E j \in DOMAIN up[c] : up'[c][i] = up[c][j]
      /\ up[b] # <<>>
      /\ Latest(up[b]) = IF up'[b] = <<>> THEN Head(up[b]) ELSE Latest(up'[b])
  BY <1>1, StampingRest
<1>4. /\ sent \in Frames /\ sent.by = b /\ sent.at = Stamp(b)
      /\ sent.type \in {"object", "translate"} /\ (sent.type = "object" => sent.props.pos # 0)
      /\ sent.props = Head(up[b]).props /\ astray' = astray
  BY <1>2 DEF ServesAs
<1>5. /\ Stamp(b) \in Nat /\ now <= now'
      /\ \A t \in Nat : Reached(t) \/ t <= Stamp(b) => Reached(t)'
      /\ sent.settles => \A t \in Nat : Reached(t) => t <= Stamp(b)
  BY <1>1, <1>2, StampReached DEF ServesAs
<1>6. ASSUME NEW c \in Browsers
      PROVE  /\ inbox'[c] # <<>> /\ Latest(inbox'[c]) = sent
             /\ \A i \in DOMAIN inbox'[c] :
                  \/ inbox'[c][i] = sent
                  \/ i \in DOMAIN inbox[c] /\ inbox'[c][i] = inbox[c][i]
  <2>1. inbox'[c] = Append(inbox[c], sent) /\ inbox[c] \in Seq(Frames)
    BY <1>2, TimeTypes DEF ServesAs
  <2>2. /\ Append(inbox[c], sent) # <<>> /\ Latest(Append(inbox[c], sent)) = sent
        /\ DOMAIN inbox[c] = 1..Len(inbox[c]) /\ Len(inbox[c]) \in Nat
        /\ DOMAIN Append(inbox[c], sent) = 1..(Len(inbox[c]) + 1)
        /\ \A i \in DOMAIN inbox[c] : Append(inbox[c], sent)[i] = inbox[c][i]
        /\ Append(inbox[c], sent)[Len(inbox[c]) + 1] = sent
    BY <1>4, <2>1, AppendParts
  <2>3. ASSUME NEW i \in DOMAIN inbox'[c]
        PROVE  inbox'[c][i] = sent \/ (i \in DOMAIN inbox[c] /\ inbox'[c][i] = inbox[c][i])
    BY <2>1, <2>2
  <2> QED
    BY <2>1, <2>2, <2>3
<1>7. \A c \in Browsers : AsSent(c)' <=> AsSent(c)
  BY <1>3, <1>4 DEF AsSent
<1>8. ClocksInv'
  <2>1. StartTime <= now'
    BY <1>1, <1>5, StampingParts, PaneAssumption DEF PaneInv, ClocksInv, PaneTyped, RestTyped
  <2>2. ASSUME NEW c \in Browsers
        PROVE  /\ Reached(shown[c].posAt)' /\ Reached(shown[c].goneAt)'
               /\ \A i \in DOMAIN inbox'[c] : Reached(inbox[c][i].at)'
    <3>1. Reached(shown[c].posAt) /\ Reached(shown[c].goneAt)
      BY DEF PaneInv, ClocksInv
    <3>2. ASSUME NEW t \in Nat, Reached(t) \/ t <= Stamp(b) PROVE Reached(t)'
      BY <1>5, <3>2
    <3>3. shown[c].posAt \in Nat /\ shown[c].goneAt \in Nat
      BY TimeTypes
    <3>4. Reached(shown[c].posAt)' /\ Reached(shown[c].goneAt)'
      BY <1>3, <3>1, <3>2, <3>3 DEF Reached
    <3>5. ASSUME NEW i \in DOMAIN inbox'[c] PROVE Reached(inbox[c][i].at)'
      <4>1. CASE inbox'[c][i] = sent
        BY <1>4, <1>5, <4>1 DEF Reached
      <4>2. CASE i \in DOMAIN inbox[c] /\ inbox'[c][i] = inbox[c][i]
        <5>1. Reached(inbox[c][i].at) /\ inbox[c][i].at \in Nat
          BY <4>2, TimeTypes DEF PaneInv, ClocksInv
        <5> QED
          BY <3>2, <4>2, <5>1 DEF Reached
      <4> QED
        BY <1>6, <4>1, <4>2
    <3> QED
      BY <3>4, <3>5
  <2> QED
    BY <2>1, <2>2 DEF ClocksInv
<1>9. Whole(saved.props)' /\ Untouched' /\ ReadsFresh'
  <2>1. Whole(saved.props)'
    BY <1>2, <1>4 DEF ServesAs, PaneInv, Whole
  <2>2. ReadsFresh'
    BY <1>2 DEF ServesAs, PaneInv, ReadsFresh
  <2> QED
    BY <1>3, <2>1, <2>2 DEF Untouched
<1>10. ASSUME NEW c \in Browsers PROVE WholeInv(c)'
  <2>1. WholeInv(c)
    BY DEF PaneInv
  <2>2. ASSUME NEW i \in DOMAIN up'[c]
        PROVE  /\ up'[c][i].by = c /\ up'[c][i].type \in {"object", "translate"}
               /\ up'[c][i].type = "object" => up'[c][i].props.pos # 0
    BY <1>3, <2>1 DEF WholeInv
  <2>3. ASSUME NEW i \in DOMAIN inbox'[c]
        PROVE  /\ inbox'[c][i].type = "object" => inbox'[c][i].props.pos # 0
               /\ inbox'[c][i].type = "load" => Whole(inbox'[c][i].props)
    BY <1>4, <1>6, <2>1 DEF WholeInv
  <2>4. loading'[c] # Absent => Whole(loading'[c].props)
    BY <1>2, <2>1 DEF ServesAs, WholeInv
  <2> QED
    BY <1>3, <2>1, <2>2, <2>3, <2>4 DEF WholeInv, Whole
<1>11. ASSUME NEW c \in Browsers PROVE Newest(c)'
  <2> SUFFICES ASSUME sent.settles
               PROVE  /\ sent.type \in {"object", "load"} /\ sent.props = saved'.props
                      /\ \A i \in DOMAIN inbox'[c] : inbox'[c][i].at <= sent.at
    BY <1>6 DEF Newest, Latest
  <2>1. sent.type \in {"object", "load"} /\ sent.props = saved'.props
    BY <1>2 DEF ServesAs
  <2>2. ASSUME NEW i \in DOMAIN inbox[c] PROVE inbox[c][i].at <= sent.at
    BY <1>4, <1>5, TimeTypes DEF PaneInv, ClocksInv
  <2> QED
    BY <1>4, <1>5, <1>6, <2>1, <2>2
<1>12. ASSUME NEW c \in Browsers PROVE InHand(c)'
  <2>1. InHand(c)
    BY DEF PaneInv
  <2>2. gesture[c].tool = "shape" => shown[c].posAt <= LocalTime(c)'
    BY <1>3, <2>1, TimeTypes DEF InHand
  <2>3. AsSent(c) /\ up'[c] # <<>> => Latest(up'[c]).props = At(shown[c].props.pos)
    <3>1. CASE c = b
      BY <1>3, <2>1, <3>1 DEF InHand
    <3>2. CASE c # b
      BY <1>3, <2>1, <3>2 DEF InHand
    <3> QED
      BY <3>1, <3>2
  <2>4. AsSent(c) /\ up'[c] = <<>> /\ sent.by = c => sent.props = At(shown[c].props.pos)
    <3> SUFFICES ASSUME AsSent(c), up'[c] = <<>>, c = b PROVE sent.props = At(shown[c].props.pos)
      BY <1>4
    <3>1. Latest(up[b]) = Head(up[b])
      BY <1>3
    <3> QED
      BY <1>3, <1>4, <2>1, <3>1 DEF InHand
  <2> QED
    BY <1>3, <1>6, <1>7, <2>1, <2>2, <2>3, <2>4 DEF InHand, Latest, At
<1>13. ASSUME NEW c \in Browsers PROVE AtRest(c)'
  <2>1. sent.settles => Stamp(b) >= shown[c].posAt /\ Stamp(b) >= shown[c].goneAt
    BY <1>5, TimeTypes DEF PaneInv, ClocksInv
  <2> QED
    BY <1>3, <1>4, <1>6, <2>1 DEF AtRest, IsNew, Latest
<1> QED
  BY <1>8, <1>9, <1>10, <1>11, <1>12, <1>13 DEF PaneInv

LEMMA RefuseInv ==
  ASSUME PaneTyped, NoneAhead, PaneInv, NEW b \in Browsers, Refuse(b)
  PROVE  PaneInv'
<1>1. Stamping(b) /\ astray' = astray \cup {b} /\ inbox' = inbox /\ saved' = saved
      /\ loading' = loading
  BY DEF Refuse
<1>2. /\ up'[b] = Tail(up[b]) /\ \A c \in Browsers \ {b} : up'[c] = up[c]
      /\ shown' = shown /\ gesture' = gesture /\ kind' = kind /\ kind # "none" /\ lag' = lag
      /\ \A c \in Browsers :
           /\ LocalTime(c) <= LocalTime(c)' /\ LocalTime(c) \in Int /\ LocalTime(c)' \in Int
           /\ \A i \in DOMAIN up'[c] : \E j \in DOMAIN up[c] : up'[c][i] = up[c][j]
  BY <1>1, StampingRest
<1>3. ClocksInv'
  <2>1. StartTime <= now'
    BY <1>1, StampReached, StampingParts, PaneAssumption
    DEF PaneInv, ClocksInv, PaneTyped, RestTyped
  <2>2. ASSUME NEW t \in Nat, Reached(t) PROVE Reached(t)'
    BY <1>1, <2>2, StampReached
  <2>3. ASSUME NEW c \in Browsers
        PROVE  /\ Reached(shown[c].posAt)' /\ Reached(shown[c].goneAt)'
               /\ \A i \in DOMAIN inbox[c] : Reached(inbox[c][i].at)'
    <3>1. /\ Reached(shown[c].posAt) /\ Reached(shown[c].goneAt)
          /\ \A i \in DOMAIN inbox[c] : Reached(inbox[c][i].at) /\ inbox[c][i].at \in Nat
          /\ shown[c].posAt \in Nat /\ shown[c].goneAt \in Nat
      BY TimeTypes DEF PaneInv, ClocksInv
    <3> QED
      BY <1>1, <1>2, <2>2, <3>1 DEF Reached
  <2> QED
    BY <1>1, <2>1, <2>3 DEF ClocksInv
<1>4. Whole(saved.props)' /\ Untouched' /\ ReadsFresh'
  BY <1>1, <1>2 DEF PaneInv, Whole, Untouched, ReadsFresh
<1>5. ASSUME NEW c \in Browsers PROVE WholeInv(c)' /\ Newest(c)'
  <2>1. WholeInv(c) /\ Newest(c)
    BY DEF PaneInv
  <2>2. ASSUME NEW i \in DOMAIN up'[c]
        PROVE  /\ up'[c][i].by = c /\ up'[c][i].type \in {"object", "translate"}
               /\ up'[c][i].type = "object" => up'[c][i].props.pos # 0
    BY <1>2, <2>1 DEF WholeInv
  <2> QED
    BY <1>1, <1>2, <2>1, <2>2 DEF WholeInv, Newest, Whole, Latest
<1>6. ASSUME NEW c \in Browsers PROVE InHand(c)' /\ AtRest(c)'
  <2>1. InHand(c) /\ AtRest(c)
    BY DEF PaneInv
  <2>2. gesture[c].tool = "shape" => shown[c].posAt <= LocalTime(c)'
    BY <1>2, <2>1, TimeTypes DEF InHand
  <2>3. CASE c = b
    <3>1. ~AsSent(c)' /\ ~Calm(c)'
      BY <1>1, <2>3 DEF AsSent, Calm
    <3> QED
      BY <1>2, <2>1, <2>2, <3>1 DEF InHand, AtRest
  <2>4. CASE c # b
    <3>1. (AsSent(c)' <=> AsSent(c)) /\ (Calm(c)' <=> Calm(c))
      BY <1>1, <1>2, <2>4 DEF AsSent, Calm
    <3> QED
      BY <1>1, <1>2, <2>1, <2>2, <2>4, <3>1 DEF InHand, AtRest, Matches, IsNew, Latest
  <2> QED
    BY <2>3, <2>4
<1> QED
  BY <1>3, <1>4, <1>5, <1>6 DEF PaneInv

-----------------------------------------------------------------------------
(* The canvas panes: what comes from the server.                           *)

LEMMA LoadInv ==
  ASSUME PaneTyped, NoneAhead, PaneInv, NEW b \in Browsers, CanvasLoad(b)
  PROVE  PaneInv'
<1>1. /\ now' = now /\ lag' = lag /\ kind' = kind /\ shown' = shown /\ gesture' = gesture
      /\ up' = up /\ saved' = saved /\ stamps' = stamps /\ astray' = astray
  BY LoadParts
<1>2. \A c \in Browsers : (AsSent(c)' <=> AsSent(c)) /\ (Calm(c)' <=> Calm(c))
  BY <1>1 DEF AsSent, Calm
<1>3. CASE Read(b)
  <2> DEFINE read == [props |-> saved.props, fresh |-> TRUE]
  <2>1. inbox' = inbox /\ loading' = [loading EXCEPT ![b] = read]
    BY <1>3 DEF Read
  <2>2. loading'[b].props = saved.props /\ \A c \in Browsers \ {b} : loading'[c] = loading[c]
    BY <2>1 DEF PaneTyped, SavedTyped
  <2>3. ClocksInv' /\ Whole(saved.props)'
    BY <1>1, <2>1 DEF PaneInv, ClocksInv, Whole, Reached
  <2>4. Untouched' /\ ReadsFresh'
    BY <1>1, <2>1, <2>2 DEF PaneInv, Untouched, ReadsFresh
  <2>5. ASSUME NEW c \in Browsers PROVE WholeInv(c)' /\ Newest(c)' /\ InHand(c)' /\ AtRest(c)'
    <3>1. WholeInv(c) /\ Newest(c) /\ InHand(c) /\ AtRest(c) /\ Whole(saved.props)
      BY DEF PaneInv
    <3>2. WholeInv(c)'
      BY <1>1, <2>1, <2>2, <3>1 DEF WholeInv, Whole
    <3>3. Newest(c)'
      BY <1>1, <2>1, <3>1 DEF Newest, Latest
    <3>4. InHand(c)'
      BY <1>1, <1>2, <2>1, <3>1 DEF InHand, Latest, LocalTime
    <3>5. AtRest(c)'
      BY <1>1, <1>2, <2>1, <3>1 DEF AtRest, Matches, IsNew, Latest
    <3> QED
      BY <3>2, <3>3, <3>4, <3>5
  <2> QED
    BY <2>3, <2>4, <2>5 DEF PaneInv
<1>4. CASE Sent(b)
  <2>1. /\ loading[b] # Absent /\ loading' = [loading EXCEPT ![b] = Absent]
        /\ inbox' = [inbox EXCEPT ![b] = Append(inbox[b], Loaded(b))]
    BY <1>4 DEF Sent
  <2>2. /\ Loaded(b) \in Frames /\ Loaded(b).type = "load"
        /\ Loaded(b).props = loading[b].props /\ Loaded(b).settles = loading[b].fresh
        /\ Loaded(b).at = 0 /\ inbox[b] \in Seq(Frames)
    BY <2>1, LoadedType, TimeTypes
  <2>3. loading'[b] = Absent /\ \A c \in Browsers \ {b} : /\ loading'[c] = loading[c]
                                                          /\ inbox'[c] = inbox[c]
    BY <2>1 DEF PaneTyped, SavedTyped, QueuesTyped
  <2>4. /\ inbox'[b] # <<>> /\ Latest(inbox'[b]) = Loaded(b)
        /\ \A i \in DOMAIN inbox'[b] : \/ inbox'[b][i] = Loaded(b)
                                       \/ i \in DOMAIN inbox[b] /\ inbox'[b][i] = inbox[b][i]
    <3>1. inbox'[b] = Append(inbox[b], Loaded(b))
      BY <2>1 DEF PaneTyped, QueuesTyped
    <3>2. /\ Append(inbox[b], Loaded(b)) # <<>>
          /\ Latest(Append(inbox[b], Loaded(b))) = Loaded(b)
          /\ DOMAIN inbox[b] = 1..Len(inbox[b]) /\ Len(inbox[b]) \in Nat
          /\ DOMAIN Append(inbox[b], Loaded(b)) = 1..(Len(inbox[b]) + 1)
          /\ \A i \in DOMAIN inbox[b] : Append(inbox[b], Loaded(b))[i] = inbox[b][i]
          /\ Append(inbox[b], Loaded(b))[Len(inbox[b]) + 1] = Loaded(b)
      BY <2>2, AppendParts
    <3>3. ASSUME NEW i \in DOMAIN inbox'[b]
          PROVE  \/ inbox'[b][i] = Loaded(b)
                 \/ i \in DOMAIN inbox[b] /\ inbox'[b][i] = inbox[b][i]
      BY <3>1, <3>2
    <3> QED
      BY <3>1, <3>2, <3>3
  <2>5. ClocksInv'
    <3>1. Reached(0)
      BY DEF Reached, PaneTyped, RestTyped
    <3>2. ASSUME NEW c \in Browsers, NEW i \in DOMAIN inbox'[c] PROVE Reached(inbox[c][i].at)'
      <4>1. CASE c = b
        BY <1>1, <2>2, <2>4, <3>1, <4>1 DEF PaneInv, ClocksInv, Reached
      <4>2. CASE c # b
        BY <1>1, <2>3, <4>2 DEF PaneInv, ClocksInv, Reached
      <4> QED
        BY <4>1, <4>2
    <3> QED
      BY <1>1, <3>2 DEF PaneInv, ClocksInv, Reached
  <2>6. Whole(saved.props)' /\ ReadsFresh'
    BY <1>1, <2>3 DEF PaneInv, Whole, ReadsFresh
  <2>7. Untouched'
    <3>1. ASSUME kind = "none", NEW c \in Browsers, NEW i \in DOMAIN inbox'[c]
          PROVE  inbox'[c][i].type = "load" /\ inbox'[c][i].props = None
      <4>1. CASE c = b
        BY <2>1, <2>2, <2>4, <3>1, <4>1 DEF PaneInv, Untouched
      <4>2. CASE c # b
        BY <2>3, <3>1, <4>2 DEF PaneInv, Untouched
      <4> QED
        BY <4>1, <4>2
    <3>2. ASSUME kind = "none", NEW c \in Browsers, loading'[c] # Absent
          PROVE  loading'[c].props = None
      BY <2>3, <3>2 DEF PaneInv, Untouched
    <3> QED
      BY <1>1, <3>1, <3>2 DEF PaneInv, Untouched
  <2>8. ASSUME NEW c \in Browsers PROVE WholeInv(c)' /\ Newest(c)' /\ InHand(c)' /\ AtRest(c)'
    <3>1. WholeInv(c) /\ Newest(c) /\ InHand(c) /\ AtRest(c)
      BY DEF PaneInv
    <3>2. CASE c = b
      <4>1. WholeInv(c)'
        <5>1. ASSUME NEW i \in DOMAIN inbox'[c]
              PROVE  /\ inbox'[c][i].type = "object" => inbox'[c][i].props.pos # 0
                     /\ inbox'[c][i].type = "load" => Whole(inbox'[c][i].props)
          BY <2>1, <2>2, <2>4, <3>1, <3>2 DEF WholeInv
        <5> QED
          BY <1>1, <2>3, <3>1, <3>2, <5>1 DEF WholeInv, Whole
      <4>2. Newest(c)'
        <5>1. Loaded(b).settles => Loaded(b).props = saved.props
          BY <2>1, <2>2 DEF PaneInv, ReadsFresh
        <5> QED
          BY <1>1, <2>2, <2>4, <3>2, <5>1 DEF Newest, Latest
      <4>3. InHand(c)'
        BY <1>1, <1>2, <2>2, <2>4, <3>1, <3>2 DEF InHand, Latest, LocalTime
      <4>4. AtRest(c)'
        BY <1>1, <1>2, <2>2, <2>4, <3>1, <3>2 DEF AtRest, Latest
      <4> QED
        BY <4>1, <4>2, <4>3, <4>4
    <3>3. CASE c # b
      <4>1. inbox'[c] = inbox[c] /\ loading'[c] = loading[c]
        BY <2>3, <3>3
      <4>2. WholeInv(c)' /\ Newest(c)'
        BY <1>1, <3>1, <4>1 DEF WholeInv, Whole, Newest, Latest
      <4>3. InHand(c)'
        BY <1>1, <1>2, <3>1, <4>1 DEF InHand, Latest, LocalTime
      <4>4. AtRest(c)'
        BY <1>1, <1>2, <3>1, <4>1 DEF AtRest, Matches, IsNew, Latest
      <4> QED
        BY <4>2, <4>3, <4>4
    <3> QED
      BY <3>2, <3>3
  <2> QED
    BY <2>5, <2>6, <2>7, <2>8 DEF PaneInv
<1> QED
  BY <1>3, <1>4, LoadParts

\* What a frame makes of the object, and what it leaves of it.
Takes(b) ==
  \/ /\ First(b).type = "load" /\ shown'[b] = [Absent EXCEPT !.props = First(b).props]
  \/ /\ First(b).type = "object" /\ gesture[b] = NoGesture
     /\ shown'[b] = ApplyUpdate(shown[b], First(b).props, First(b).at)
  \/ /\ First(b).type = "translate" /\ gesture[b] = NoGesture /\ shown[b].props.pos # 0
     /\ \E p \in Props : shown'[b] = ApplyUpdate(shown[b], p, First(b).at)
  \/ /\ First(b).type # "load" /\ shown'[b] = shown[b]
     /\ First(b).type = "object" => gesture[b] # NoGesture

LEMMA TakesParts ==
  ASSUME PaneTyped, NEW b \in Browsers, TakeFrame(b)
  PROVE  /\ Takes(b) /\ \A c \in Browsers \ {b} : shown'[c] = shown[c] /\ gesture'[c] = gesture[c]
         /\ \A c \in Browsers \ {b} : c \in astray' <=> c \in astray
         /\ First(b).type \in {"object", "translate", "load"}
<1>1. TakenShown(b) /\ First(b).props \in Props /\ First(b) \in Frames
  BY TakeParts
<1>2. Moved(b) \in Props
  BY <1>1, MovedType
<1>3. Takes(b)
  BY <1>1, <1>2 DEF TakenShown, Takes, PaneTyped, ShownTyped
<1>4. \A c \in Browsers \ {b} : shown'[c] = shown[c]
  BY <1>1 DEF TakenShown, PaneTyped, ShownTyped
<1>5. \A c \in Browsers \ {b} : gesture'[c] = gesture[c] /\ (c \in astray' <=> c \in astray)
  <2>1. CASE gesture[b] = NoGesture
    BY <2>1, TakeParts DEF Settled
  <2>2. CASE gesture[b] # NoGesture
    BY <2>2, TakeParts DEF Misses, PaneTyped, GestureTyped
  <2> QED
    BY <2>1, <2>2
<1> QED
  BY <1>1, <1>3, <1>4, <1>5 DEF Frames

LEMMA TakesTimes ==
  ASSUME PaneTyped, NEW b \in Browsers, TakeFrame(b)
  PROVE  \/ shown'[b].posAt = 0 /\ shown'[b].goneAt = 0
         \/ /\ shown'[b].posAt \in {shown[b].posAt, First(b).at}
            /\ shown'[b].goneAt \in {shown[b].goneAt, First(b).at}
<1>1. Takes(b)
  BY TakesParts
<1>2. /\ shown[b] \in ObjectStates /\ First(b).props \in Props /\ First(b).at \in Int
  BY TimeTypes, TakeParts
<1>3. \A p \in Props : LET r == ApplyUpdate(shown[b], p, First(b).at)
                       IN /\ r.posAt \in {shown[b].posAt, First(b).at}
                          /\ r.goneAt \in {shown[b].goneAt, First(b).at}
  BY <1>2, ApplyParts
<1>4. ASSUME First(b).type = "load", shown'[b] = [Absent EXCEPT !.props = First(b).props]
      PROVE  shown'[b].posAt = 0 /\ shown'[b].goneAt = 0
  BY <1>4 DEF Absent
<1> QED
  BY <1>1, <1>2, <1>3, <1>4 DEF Takes

\* What is taken by a pane that is idle and not astray afterwards.
LEMMA TakeIdle ==
  ASSUME PaneTyped, NoneAhead, PaneInv, NEW b \in Browsers, TakeFrame(b),
         gesture[b] = NoGesture, b \notin astray', up[b] = <<>>
  PROVE  /\ Tail(inbox[b]) = <<>> => Matches(b)'
         /\ LET latest == Latest(inbox[b])
            IN Tail(inbox[b]) # <<>> /\ latest.settles /\ latest.type = "object" =>
                 shown'[b].posAt <= latest.at /\ shown'[b].goneAt <= latest.at
<1> DEFINE f == First(b)
           latest == Latest(inbox[b])
<1>1. /\ f.settles /\ f.props \in Props /\ f.at \in Nat /\ saved' = saved
      /\ f.type = "load" \/ IsNew(b, f.at) \/ b \notin astray
      /\ inbox[b] \in Seq(Frames) /\ inbox[b] # <<>>
  BY TakeParts DEF Settled
<1>2. /\ 1 \in DOMAIN inbox[b] /\ f = inbox[b][1]
      /\ latest = IF Tail(inbox[b]) = <<>> THEN f ELSE Latest(Tail(inbox[b]))
      /\ Len(inbox[b]) \in DOMAIN inbox[b] /\ latest = inbox[b][Len(inbox[b])]
  <2>1. /\ 1 \in DOMAIN inbox[b] /\ Len(inbox[b]) \in DOMAIN inbox[b]
        /\ Head(inbox[b]) = inbox[b][1]
        /\ Latest(inbox[b]) = IF Tail(inbox[b]) = <<>> THEN Head(inbox[b])
                              ELSE Latest(Tail(inbox[b]))
    BY <1>1, TailParts
  <2> QED
    BY <2>1, Zenon DEF First, Latest
<1>3. /\ shown[b].posAt \in Nat /\ shown[b].goneAt \in Nat /\ latest.at \in Nat
      /\ shown[b] \in ObjectStates
  BY <1>2, TimeTypes
<1>4. /\ latest.settles => latest.type \in {"object", "load"} /\ latest.props = saved.props
      /\ latest.settles /\ latest.type = "object" => f.at <= latest.at
      /\ f.type = "object" => f.props.pos # 0
      /\ b \notin astray /\ latest.settles /\ latest.type = "object" => IsNew(b, latest.at)
  <2>1. Newest(b) /\ AtRest(b) /\ WholeInv(b)
    BY DEF PaneInv
  <2>2. Calm(b) <=> b \notin astray
    BY DEF Calm
  <2> HIDE DEF f
  <2> QED
    BY <1>1, <1>2, <2>1, <2>2 DEF Newest, AtRest, WholeInv
<1>5. ASSUME Tail(inbox[b]) = <<>> PROVE Matches(b)'
  <2>1. f = latest /\ f.type \in {"object", "load"} /\ f.props = saved.props
    BY <1>1, <1>2, <1>4, <1>5
  <2>2. CASE f.type = "load"
    <3>1. shown'[b] = [Absent EXCEPT !.props = f.props]
      BY <2>2, TakesParts DEF Takes
    <3>2. shown'[b].props = saved.props
      BY <2>1, <3>1 DEF Absent
    <3> QED
      BY <1>1, <3>2 DEF Matches
  <2>3. CASE f.type = "object"
    <3>1. shown'[b] = ApplyUpdate(shown[b], f.props, f.at)
      BY <2>3, TakesParts DEF Takes
    <3>2. f.at >= shown[b].posAt /\ f.at >= shown[b].goneAt
      BY <1>1, <1>4, <2>1, <2>3 DEF IsNew
    <3>3. /\ shown'[b].props.pos = f.props.pos
          /\ f.props.gone # "unset" => shown'[b].props.gone = f.props.gone
      <4> HIDE DEF f
      <4> QED
        BY <1>1, <1>3, <1>4, <2>3, <3>1, <3>2, ApplyParts
    <3> QED
      BY <1>1, <2>1, <3>3 DEF Matches
  <2> QED
    BY <2>1, <2>2, <2>3
<1>6. ASSUME latest.settles, latest.type = "object"
      PROVE  shown'[b].posAt <= latest.at /\ shown'[b].goneAt <= latest.at
  <2>1. CASE shown'[b].posAt = 0 /\ shown'[b].goneAt = 0
    BY <1>3, <2>1
  <2>2. CASE /\ shown'[b].posAt \in {shown[b].posAt, f.at}
             /\ shown'[b].goneAt \in {shown[b].goneAt, f.at}
    <3>1. CASE b \notin astray \/ IsNew(b, f.at)
      BY <1>1, <1>3, <1>4, <1>6, <2>2, <3>1 DEF IsNew
    <3>2. CASE f.type = "load"
      <4>1. shown'[b] = [Absent EXCEPT !.props = f.props]
        BY <3>2, TakesParts DEF Takes
      <4> QED
        BY <1>3, <4>1 DEF Absent
    <3> QED
      BY <1>1, <3>1, <3>2
  <2> QED
    BY <2>1, <2>2, TakesTimes
<1> QED
  BY <1>5, <1>6

\* What comes for a pane with the object in hand.
LEMMA TakeInHand ==
  ASSUME PaneTyped, NoneAhead, PaneInv, NEW b \in Browsers, TakeFrame(b), gesture[b] # NoGesture
  PROVE  /\ InHand(b)' /\ gesture'[b] # NoGesture
         /\ AsSent(b)' => /\ AsSent(b) /\ shown'[b] = shown[b] /\ First(b).type # "load"
                        /\ First(b).settles /\ First(b).by = b
<1>1. Misses(b)
  BY TakeParts
<1>2. PICK m \in BOOLEAN :
        /\ gesture' = [gesture EXCEPT ![b] = [gesture[b] EXCEPT !.missed = m]]
        /\ m <=> (gesture[b].missed \/ First(b).type = "load" \/ First(b).by # b
                   \/ ~First(b).settles)
  BY <1>1, MissesParts
<1>3. /\ gesture'[b].tool = gesture[b].tool /\ gesture'[b].pos = gesture[b].pos
      /\ gesture'[b].unsent = gesture[b].unsent /\ gesture'[b].missed = m
  <2>1. gesture[b] \in Gestures
    BY HandTyped
  <2>2. gesture'[b] = [gesture[b] EXCEPT !.missed = m]
    BY <1>2 DEF PaneTyped, GestureTyped
  <2> QED
    BY <2>1, <2>2 DEF Gestures
<1>4. InHand(b) /\ gesture[b].tool \in HandTools
  BY DEF PaneInv, InHand
<1>5. gesture'[b] # NoGesture
  BY <1>3, <1>4, NoGestureParts DEF HandTools
<1>6. \/ First(b).type = "load" /\ m /\ shown'[b] = [Absent EXCEPT !.props = First(b).props]
      \/ First(b).type # "load" /\ shown'[b] = shown[b]
  BY <1>2, TakesParts DEF Takes
<1>7. AsSent(b)' => /\ AsSent(b) /\ shown'[b] = shown[b] /\ First(b).type # "load"
                  /\ First(b).settles /\ First(b).by = b
  BY <1>1, <1>2, <1>3, <1>6 DEF AsSent, Misses
<1>8. /\ up' = up /\ LocalTime(b)' = LocalTime(b) /\ LocalTime(b) \in Nat
      /\ inbox'[b] = Tail(inbox[b]) /\ inbox[b] # <<>>
      /\ Latest(inbox[b]) = IF Tail(inbox[b]) = <<>> THEN First(b) ELSE Latest(Tail(inbox[b]))
  <2>1. /\ up' = up /\ now' = now /\ lag' = lag /\ inbox[b] \in Seq(Frames) /\ inbox[b] # <<>>
        /\ inbox' = [inbox EXCEPT ![b] = Tail(inbox[b])]
    BY TakeParts
  <2>2. inbox'[b] = Tail(inbox[b]) /\ LocalTime(b)' = LocalTime(b)
    BY <2>1 DEF PaneTyped, QueuesTyped, LocalTime
  <2>3. Latest(inbox[b]) = IF Tail(inbox[b]) = <<>> THEN First(b) ELSE Latest(Tail(inbox[b]))
    BY <2>1, TailParts, Zenon DEF First
  <2> QED
    BY <2>1, <2>2, <2>3, LocalTimeParts DEF PaneInv
<1>9. /\ gesture[b].tool = "shape" => shown'[b].posAt <= LocalTime(b)
      /\ gesture[b].tool \in {"drag", "group"} /\ shown'[b].props.pos = 0 => m
  <2>1. CASE First(b).type = "load" /\ m /\ shown'[b] = [Absent EXCEPT !.props = First(b).props]
    BY <1>8, <2>1 DEF Absent
  <2>2. CASE First(b).type # "load" /\ shown'[b] = shown[b]
    BY <1>2, <1>4, <2>2 DEF InHand
  <2> QED
    BY <1>6, <2>1, <2>2
<1>10. AsSent(b)' /\ up[b] # <<>> => Latest(up[b]).props = At(shown'[b].props.pos)
  BY <1>4, <1>7 DEF InHand
<1>11. AsSent(b)' /\ up[b] = <<>> /\ Tail(inbox[b]) # <<>>
         /\ Latest(Tail(inbox[b])).by = b /\ Latest(Tail(inbox[b])).type = "object" =>
       Latest(Tail(inbox[b])).props = At(shown'[b].props.pos)
  BY <1>4, <1>7, <1>8 DEF InHand
<1>12. InHand(b)'
  BY <1>3, <1>4, <1>8, <1>9, <1>10, <1>11 DEF InHand, Latest, At
<1> QED
  BY <1>5, <1>7, <1>12

LEMMA TakeRest ==
  ASSUME PaneTyped, NoneAhead, PaneInv, NEW b \in Browsers, TakeFrame(b)
  PROVE  AtRest(b)'
<1> SUFFICES ASSUME Calm(b)', up'[b] = <<>> PROVE AtRest(b)'
  BY DEF AtRest
<1>1. /\ saved' = saved /\ up[b] = <<>> /\ b \notin astray' /\ inbox'[b] = Tail(inbox[b])
      /\ inbox[b] \in Seq(Frames) /\ inbox[b] # <<>>
  BY TakeParts DEF Calm, PaneTyped, QueuesTyped
<1>2. Latest(inbox[b]) = IF Tail(inbox[b]) = <<>> THEN First(b) ELSE Latest(Tail(inbox[b]))
  BY <1>1, TailParts, Zenon DEF First
<1>3. CASE gesture[b] = NoGesture
  <2>1. /\ Tail(inbox[b]) = <<>> => Matches(b)'
        /\ Tail(inbox[b]) # <<>> /\ Latest(inbox[b]).settles /\ Latest(inbox[b]).type = "object"
           => /\ shown'[b].posAt <= Latest(inbox[b]).at
              /\ shown'[b].goneAt <= Latest(inbox[b]).at
    BY <1>1, <1>3, TakeIdle
  <2>2. ASSUME Tail(inbox[b]) # <<>>, Latest(Tail(inbox[b])).settles,
               Latest(Tail(inbox[b])).type = "object"
        PROVE  /\ Latest(Tail(inbox[b])).at >= shown'[b].posAt
               /\ Latest(Tail(inbox[b])).at >= shown'[b].goneAt
    BY <1>2, <2>1, <2>2
  <2> QED
    BY <1>1, <2>1, <2>2 DEF AtRest, IsNew, Latest
<1>4. CASE gesture[b] # NoGesture
  <2>1. /\ AsSent(b) /\ shown'[b] = shown[b] /\ First(b).type # "load" /\ First(b).settles
        /\ First(b).by = b
    BY <1>4, TakeInHand DEF Calm
  <2>2. Calm(b) /\ Newest(b) /\ InHand(b) /\ AtRest(b)
    BY <2>1 DEF Calm, AsSent, PaneInv
  <2>3. ASSUME Tail(inbox[b]) = <<>> PROVE Matches(b)'
    <3>1. /\ First(b).type = "object" /\ First(b).props = saved.props
          /\ First(b).props = At(shown[b].props.pos)
      BY <1>1, <1>2, <2>1, <2>2, <2>3 DEF Newest, InHand
    <3>2. saved.props.pos = shown[b].props.pos /\ saved.props.gone = "unset"
      BY <3>1 DEF At
    <3> QED
      BY <1>1, <2>1, <3>2 DEF Matches
  <2>4. ASSUME Tail(inbox[b]) # <<>>, Latest(Tail(inbox[b])).settles,
               Latest(Tail(inbox[b])).type = "object"
        PROVE  IsNew(b, Latest(Tail(inbox[b])).at)
    BY <1>1, <1>2, <2>2, <2>4 DEF AtRest
  <2> QED
    BY <1>1, <2>1, <2>3, <2>4 DEF AtRest, IsNew, Latest
<1> QED
  BY <1>3, <1>4

LEMMA TakeInv ==
  ASSUME PaneTyped, NoneAhead, PaneInv, NEW b \in Browsers, TakeFrame(b)
  PROVE  PaneInv'
<1> DEFINE f == First(b)
<1>1. /\ now' = now /\ lag' = lag /\ kind' = kind /\ up' = up /\ saved' = saved
      /\ stamps' = stamps /\ loading' = loading
      /\ inbox[b] \in Seq(Frames) /\ inbox[b] # <<>>
      /\ inbox' = [inbox EXCEPT ![b] = Tail(inbox[b])]
      /\ f.props \in Props /\ f.at \in Nat
  BY TakeParts
<1>2. inbox'[b] = Tail(inbox[b]) /\ \A c \in Browsers \ {b} : inbox'[c] = inbox[c]
  BY <1>1 DEF PaneTyped, QueuesTyped
<1>3. /\ 1 \in DOMAIN inbox[b] /\ f = inbox[b][1]
      /\ \A i \in DOMAIN Tail(inbox[b]) : /\ i + 1 \in DOMAIN inbox[b]
                                          /\ Tail(inbox[b])[i] = inbox[b][i + 1]
      /\ Latest(inbox[b]) = IF Tail(inbox[b]) = <<>> THEN f ELSE Latest(Tail(inbox[b]))
  BY <1>1, TailParts, Zenon DEF First
<1>4. /\ Takes(b) /\ f.type \in {"object", "translate", "load"}
      /\ \A c \in Browsers \ {b} : /\ shown'[c] = shown[c] /\ gesture'[c] = gesture[c]
                                   /\ (c \in astray' <=> c \in astray)
  BY TakesParts
<1>5. ClocksInv'
  <2>1. \A t : Reached(t)' <=> Reached(t)
    BY <1>1 DEF Reached
  <2>2. Reached(0) /\ Reached(f.at)
    BY <1>3 DEF Reached, PaneTyped, RestTyped, PaneInv, ClocksInv
  <2>3. Reached(shown'[b].posAt) /\ Reached(shown'[b].goneAt)
    BY <2>2, TakesTimes DEF PaneInv, ClocksInv
  <2>4. \A i \in DOMAIN Tail(inbox[b]) : Reached(Tail(inbox[b])[i].at)
    BY <1>3 DEF PaneInv, ClocksInv
  <2> QED
    BY <1>1, <1>2, <1>4, <2>1, <2>3, <2>4 DEF PaneInv, ClocksInv
<1>6. Whole(saved.props)' /\ ReadsFresh'
  BY <1>1 DEF PaneInv, Whole, ReadsFresh
<1>7. shown'[b].props.pos = 0 => shown'[b] = Absent
  <2>1. WholeInv(b) /\ shown[b] \in ObjectStates /\ shown[b].posAt \in Nat
    BY TimeTypes DEF PaneInv
  <2>2. ASSUME f.type = "load", shown'[b] = [Absent EXCEPT !.props = f.props],
               shown'[b].props.pos = 0
        PROVE  shown'[b] = Absent
    <3>1. f.props = None
      BY <1>3, <2>1, <2>2 DEF WholeInv, Whole, Absent
    <3> QED
      BY <2>2, <3>1 DEF Absent
  <2>3. ASSUME f.type = "object", shown'[b] = ApplyUpdate(shown[b], f.props, f.at)
        PROVE  shown'[b].props.pos # 0
    <3>1. f.props.pos # 0
      BY <1>3, <2>1, <2>3 DEF WholeInv
    <3>2. shown[b].props.pos = 0 => shown[b].posAt = 0
      BY <2>1 DEF WholeInv, Absent
    <3> HIDE DEF f
    <3> QED
      BY <1>1, <2>1, <2>3, <3>1, <3>2, ApplyParts
  <2>4. ASSUME shown[b].props.pos # 0, NEW p \in Props,
               shown'[b] = ApplyUpdate(shown[b], p, f.at)
        PROVE  shown'[b].props.pos # 0
    BY <1>1, <2>1, <2>4, ApplyParts
  <2> QED
    BY <1>4, <2>1, <2>2, <2>3, <2>4 DEF Takes, WholeInv
<1>8. Untouched'
  <2> SUFFICES ASSUME kind = "none" PROVE Untouched'
    BY <1>1 DEF Untouched
  <2>1. /\ f.type = "load" /\ f.props = None /\ gesture[b] = NoGesture
        /\ \A i \in DOMAIN Tail(inbox[b]) : /\ Tail(inbox[b])[i].type = "load"
                                            /\ Tail(inbox[b])[i].props = None
    BY <1>3 DEF PaneInv, Untouched
  <2>2. gesture' = gesture /\ shown'[b] = [Absent EXCEPT !.props = None]
    BY <1>4, <2>1, TakeParts DEF Settled, Takes
  <2>3. shown'[b] = Absent
    BY <2>2 DEF Absent
  <2> QED
    BY <1>1, <1>2, <1>4, <2>1, <2>2, <2>3 DEF PaneInv, Untouched
<1>9. ASSUME NEW c \in Browsers PROVE WholeInv(c)' /\ Newest(c)'
  <2>1. WholeInv(c) /\ Newest(c)
    BY DEF PaneInv
  <2>2. CASE c = b
    <3>1. ASSUME NEW i \in DOMAIN Tail(inbox[b])
          PROVE  LET t == Tail(inbox[b])[i]
                 IN /\ t.type = "object" => t.props.pos # 0
                    /\ t.type = "load" => Whole(t.props)
      BY <1>3, <2>1, <2>2 DEF WholeInv
    <3>2. WholeInv(c)'
      BY <1>1, <1>2, <1>7, <2>1, <2>2, <3>1 DEF WholeInv, Whole
    <3>3. ASSUME Tail(inbox[b]) # <<>>, Latest(Tail(inbox[b])).settles
          PROVE  LET latest == Latest(Tail(inbox[b]))
                 IN /\ latest.type \in {"object", "load"} /\ latest.props = saved.props
                    /\ latest.type = "object" =>
                         \A i \in DOMAIN Tail(inbox[b]) : Tail(inbox[b])[i].at <= latest.at
      <4>1. Latest(Tail(inbox[b])) = Latest(inbox[b])
        BY <1>3, <3>3
      <4> QED
        BY <1>1, <1>3, <2>1, <2>2, <3>3, <4>1 DEF Newest
    <3>4. Newest(c)'
      BY <1>1, <1>2, <2>2, <3>3 DEF Newest, Latest
    <3> QED
      BY <3>2, <3>4
  <2>3. CASE c # b
    BY <1>1, <1>2, <1>4, <2>1, <2>3 DEF WholeInv, Whole, Newest, Latest
  <2> QED
    BY <2>2, <2>3
<1>10. InHand(b)'
  <2>1. CASE gesture[b] = NoGesture
    <3>1. gesture'[b] = NoGesture
      BY <2>1, TakeParts DEF Settled
    <3> QED
      BY <3>1, NoGestureParts DEF InHand, AsSent
  <2>2. CASE gesture[b] # NoGesture
    BY <2>2, TakeInHand
  <2> QED
    BY <2>1, <2>2
<1>11. ASSUME NEW c \in Browsers \ {b} PROVE InHand(c)' /\ AtRest(c)'
  <2>1. InHand(c) /\ AtRest(c)
    BY DEF PaneInv
  <2>2. (AsSent(c)' <=> AsSent(c)) /\ (Calm(c)' <=> Calm(c))
    BY <1>4 DEF AsSent, Calm
  <2>3. shown'[c] = shown[c] /\ gesture'[c] = gesture[c] /\ inbox'[c] = inbox[c]
    BY <1>2, <1>4
  <2>4. InHand(c)'
    BY <1>1, <2>1, <2>2, <2>3 DEF InHand, Latest, LocalTime
  <2>5. AtRest(c)'
    BY <1>1, <2>1, <2>2, <2>3 DEF AtRest, Matches, IsNew, Latest
  <2> QED
    BY <2>4, <2>5
<1> HIDE DEF f
<1>12. \A c \in Browsers : WholeInv(c)' /\ Newest(c)' /\ InHand(c)' /\ AtRest(c)'
  BY <1>9, <1>10, <1>11, TakeRest
<1> QED
  BY <1>5, <1>6, <1>8, <1>12 DEF PaneInv

-----------------------------------------------------------------------------
(* The canvas panes: the theorem.                                          *)

PaneSafe == PaneTyped /\ (NoneAhead => PaneInv)

LEMMA ClocksStay == ASSUME [PaneNext]_paneVars PROVE lag' = lag
<1>1. ASSUME NEW b \in Browsers, NEW tool \in Tools,
             PointerDownDraws(b, tool) \/ PointerDownSelects(b, tool)
      PROVE  lag' = lag
  BY <1>1 DEF PointerDownDraws, PointerDownSelects
<1>2. ASSUME NEW b \in Browsers, MoveStroke(b) \/ MoveShape(b) \/ MoveDrag(b) \/ MoveGroup(b)
      PROVE  lag' = lag
  BY <1>2 DEF MoveStroke, MoveShape, MoveDrag, MoveGroup, PointerMove
<1>3. ASSUME NEW b \in Browsers,
             \/ PointerUp(b) \/ InsertObject(b) \/ CommitEdit(b) \/ DeleteObjectById(b)
             \/ Undo(b) \/ Redo(b) \/ ReplayRecent(b)
      PROVE  lag' = lag
  BY <1>3 DEF PointerUp, InsertObject, CommitEdit, DeleteObjectById, Undo, Redo, ReplayRecent
<1>4. ASSUME NEW b \in Browsers, Serve(b) \/ Refuse(b) \/ CanvasLoad(b) \/ TakeFrame(b)
      PROVE  lag' = lag
  BY <1>4 DEF Serve, Refuse, Stamping, CanvasLoad, TakeFrame
<1> QED
  BY <1>1, <1>2, <1>3, <1>4 DEF PaneNext, paneVars

LEMMA PaneInvStep ==
  ASSUME PaneTyped, NoneAhead, PaneInv, [PaneNext]_paneVars
  PROVE  PaneInv'
<1>1. CASE UNCHANGED paneVars
  BY <1>1
  DEF paneVars, PaneInv, ClocksInv, Reached, Whole, Untouched, ReadsFresh, WholeInv, Newest,
      InHand, AtRest, AsSent, Calm, Matches, IsNew, Latest, LocalTime, At
<1>2. ASSUME NEW b \in Browsers, NEW tool \in Tools,
             PointerDownDraws(b, tool) \/ PointerDownSelects(b, tool)
      PROVE  PaneInv'
  BY <1>2, DrawInv, SelectInv
<1>3. ASSUME NEW b \in Browsers,
             \/ MoveStroke(b) \/ MoveShape(b) \/ MoveDrag(b) \/ MoveGroup(b) \/ PointerUp(b)
             \/ InsertObject(b) \/ CommitEdit(b) \/ DeleteObjectById(b)
             \/ Undo(b) \/ Redo(b) \/ ReplayRecent(b)
             \/ Serve(b) \/ Refuse(b) \/ CanvasLoad(b) \/ TakeFrame(b)
      PROVE  PaneInv'
  BY <1>3, MoveStrokeInv, MoveShapeInv, DragsInv, UpInv, StrokesInv, UndoInv, RedoInv, ReplayInv,
     ServeInv, RefuseInv, LoadInv, TakeInv
<1> QED
  BY <1>1, <1>2, <1>3 DEF PaneNext

LEMMA PaneSafeStep == PaneSafe /\ [PaneNext]_paneVars => PaneSafe'
<1> SUFFICES ASSUME PaneSafe, [PaneNext]_paneVars PROVE PaneSafe'
  OBVIOUS
<1>1. NoneAhead' <=> NoneAhead
  BY ClocksStay DEF NoneAhead
<1> QED
  BY <1>1, PaneTypedStep, PaneInvStep DEF PaneSafe

LEMMA PaneSafeShows == PaneSafe => SavedIsShown
<1> SUFFICES ASSUME PaneSafe, AllArrived, NoneAhead, NEW b \in Browsers \ astray
             PROVE  Matches(b)
  BY DEF SavedIsShown, Matches
<1>1. Calm(b) /\ up[b] = <<>> /\ inbox[b] = <<>>
  BY DEF AllArrived, Calm
<1> QED
  BY <1>1 DEF PaneSafe, PaneInv, AtRest

\* Once all pointers are up and all frames have arrived, a pane that nothing has led astray
\* shows what the server has saved (CanvasPane.tsx, canvas.store.ts, canvas.consumer.ts), for
\* any number of browsers, gestures, moves, edits, undos and refused frames, none of the
\* clocks of the browsers being ahead of the server's.
THEOREM SavedAlwaysShown == PaneSpec => []SavedIsShown
<1>1. PaneInit => PaneSafe
  BY PaneInitTyped, PaneInitInv DEF PaneSafe
<1>2. PaneSafe /\ [PaneNext]_paneVars => PaneSafe'
  BY PaneSafeStep
<1>3. PaneSafe => SavedIsShown
  BY PaneSafeShows
<1> QED
  BY <1>1, <1>2, <1>3, PTL DEF PaneSpec

-----------------------------------------------------------------------------
(* All of them, as they are checked.                                       *)

Chosen == part \in {"ai", "timeline", "transcript", "chat", "media", "pane"}

PartsInv ==
  /\ Chosen /\ AiTyped /\ TimelineInv
  /\ CopiesInv /\ TriesTyped /\ AskedTyped
  /\ PanelInv /\ ChatInv
  /\ ReachInv /\ MediaTyped /\ FlagsTyped
  /\ PaneTyped

LEMMA EmptyInv == EmptyTimeline => TimelineInv
<1> SUFFICES ASSUME EmptyTimeline PROVE TimelineInv
  OBVIOUS
<1>1. LineTyped
  BY FS_EmptySet DEF EmptyTimeline, LineTyped
<1> QED
  BY <1>1 DEF EmptyTimeline, TimelineInv

\* A step of the model is a step of one component and leaves the others as they are.
LEMMA OneStep ==
  [Next]_partsVars =>
    /\ [AiNext]_aiVars /\ [TimelineNext]_timelineVars /\ [TranscriptNext]_transcriptVars
    /\ [ChatNext]_chatVars /\ [MediaNext]_mediaVars /\ [PaneNext]_paneVars
    /\ UNCHANGED part
<1> SUFFICES ASSUME [Next]_partsVars
             PROVE  /\ [AiNext]_aiVars /\ [TimelineNext]_timelineVars
                    /\ [TranscriptNext]_transcriptVars
                    /\ [ChatNext]_chatVars /\ [MediaNext]_mediaVars /\ [PaneNext]_paneVars
                    /\ UNCHANGED part
  OBVIOUS
<1>1. CASE UNCHANGED partsVars
  BY <1>1 DEF partsVars, aiServiceVars, liveVars
<1>2. CASE UNCHANGED part /\ AiServiceNext /\ UNCHANGED liveVars
  BY <1>2 DEF AiServiceNext, liveVars
<1>3. CASE UNCHANGED part /\ LiveNext /\ UNCHANGED aiServiceVars
  BY <1>3 DEF LiveNext, aiServiceVars
<1> QED
  BY <1>1, <1>2, <1>3 DEF Next

\* Every job, window, request, frame and panel has its type in the model that runs one of
\* the components.
THEOREM PartsTypes == Spec => []PartsTypeOK
<1>1. Init => PartsInv
  <2>1. Init => TimelineInv
    BY TimelineInitInv, EmptyInv DEF Init
  <2>2. ChatInit => PanelInv /\ ChatInv
    BY ChatInitTyped, ChatInitInv, CountInit DEF PanelInv
  <2> QED
    BY <2>1, <2>2, AiInitTyped, CopiesInitInv, TranscriptInitTyped, MediaInitReach,
       MediaInitTyped, PaneInitTyped DEF Init, PartsInv, Chosen
<1>2. PartsInv /\ [Next]_partsVars => PartsInv'
  <2> SUFFICES ASSUME PartsInv, [Next]_partsVars PROVE PartsInv'
    OBVIOUS
  <2>1. Chosen' /\ AiTyped' /\ TimelineInv'
    BY OneStep, AiTypedStep, TimelineStep DEF PartsInv, Chosen
  <2>2. CopiesInv' /\ TriesTyped' /\ AskedTyped'
    BY OneStep, CopiesStep, TriesStep, AskedStep DEF PartsInv
  <2>3. PanelInv' /\ ChatInv'
    BY OneStep, PanelStep, ChatStep DEF PartsInv
  <2>4. ReachInv' /\ MediaTyped' /\ FlagsTyped'
    BY OneStep, MediaStep, MediaTypedStep, FlagsStep DEF PartsInv
  <2>5. PaneTyped'
    BY OneStep, PaneTypedStep DEF PartsInv
  <2> QED
    BY <2>1, <2>2, <2>3, <2>4, <2>5 DEF PartsInv
<1>3. PartsInv => PartsTypeOK
  <2> SUFFICES ASSUME PartsInv PROVE PartsTypeOK
    OBVIOUS
  <2>1. AiTypeOK /\ TimelineTypeOK /\ TranscriptTypeOK
    BY TimelineTypes, TranscriptTypes DEF PartsInv, AiTyped, CopiesInv
  <2>2. ChatTypeOK /\ MediaTypeOK /\ PaneTypeOK
    BY ChatTypeParts, MediaTypes, PaneTypes DEF PartsInv, PanelInv
  <2> QED
    BY <2>1, <2>2 DEF PartsInv, Chosen, PartsTypeOK
<1> QED
  BY <1>1, <1>2, <1>3, PTL DEF Spec

=============================================================================
