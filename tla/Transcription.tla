--------------------------- MODULE Transcription ---------------------------
(***************************************************************************)
(* The transcriber of one room: who starts and stops it                    *)
(* (components/workspace/AIPanel.tsx, controller/media.controller.ts,      *)
(* services/mediaToken.service.ts), and what it does with what it hears    *)
(* (apps/transcript/agent.py, routes/internal.routes.ts).                  *)
(*                                                                         *)
(* LiveKit keeps the dispatches of a room and runs one agent for each; it  *)
(* is known from how the backend uses it.  Starting is not atomic: the     *)
(* dispatches are listed, each is deleted, and a new one is created.  Text *)
(* and times of what is said are left out.                                 *)
(***************************************************************************)
EXTENDS Integers, FiniteSets

CONSTANTS Panels,         \* browsers with the AI panel open
          Phrases,        \* what is said, each phrase once
          MaxDispatches,  \* bound: dispatches created
          MaxRetries      \* attempts to publish, and to store (3)

ASSUME TranscriptAssumption == MaxDispatches \in Nat /\ MaxRetries \in Nat \ {0}

VARIABLES
  dispatches,  \* the dispatches LiveKit has, numbered in the order of creation
  created,     \* dispatches so far
  toggle,      \* per panel: what its button shows
  asked,       \* per panel: the request under way and what it has still to delete
  task,        \* per dispatch and phrase: what its agent does with it
  stored,      \* per phrase, the transcript segments
  unheard      \* per phrase, answers 201 that did not arrive

transcriptVars == <<dispatches, created, toggle, asked, task, stored, unheard>>

Ids == 1..MaxDispatches

Unasked == [op |-> "none", at |-> "list", todo |-> {}]

Quiet == [at |-> "none", tries |-> 0]

TranscriptTypeOK ==
  /\ dispatches \subseteq 1..created /\ created \in 0..MaxDispatches
  /\ toggle \in [Panels -> BOOLEAN]
  /\ asked \in [Panels -> [op : {"none", "start", "stop"}, at : {"list", "delete"},
                           todo : SUBSET Ids]]
  /\ task \in [Ids -> [Phrases -> [at : {"none", "publish", "persist", "done"},
                                   tries : 0..MaxRetries]]]
  /\ stored \in [Phrases -> Nat] /\ unheard \in [Phrases -> Nat]

TranscriptInit ==
  /\ dispatches = {} /\ created = 0
  /\ toggle = [p \in Panels |-> FALSE]
  /\ asked = [p \in Panels |-> Unasked]
  /\ task = [d \in Ids |-> [u \in Phrases |-> Quiet]]
  /\ stored = [u \in Phrases |-> 0] /\ unheard = [u \in Phrases |-> 0]

-----------------------------------------------------------------------------
(* Starting and stopping.                                                  *)

\* The button shows the new state before the backend has answered.
ToggleTranscript(p) ==
  /\ asked[p] = Unasked
  /\ toggle' = [toggle EXCEPT ![p] = ~@]
  /\ asked' = [asked EXCEPT ![p].op = IF toggle[p] THEN "stop" ELSE "start"]
  /\ UNCHANGED <<dispatches, created, task, stored, unheard>>

Ended(p) == asked' = [asked EXCEPT ![p] = Unasked]

ListDispatch(p) ==
  /\ asked[p].op # "none" /\ asked[p].at = "list"
  /\ asked' = [asked EXCEPT ![p].at = "delete", ![p].todo = dispatches]
  /\ UNCHANGED <<dispatches, created, toggle, task, stored, unheard>>

\* A delete that fails, or finds the dispatch gone, is logged, and the loop goes on.
DeleteDispatch(p) ==
  /\ asked[p].at = "delete"
  /\ \E d \in asked[p].todo :
       /\ asked' = [asked EXCEPT ![p].todo = @ \ {d}]
       /\ dispatches' \in {dispatches, dispatches \ {d}}
  /\ UNCHANGED <<created, toggle, task, stored, unheard>>

CreateDispatch(p) ==
  /\ asked[p].op = "start" /\ asked[p].at = "delete" /\ asked[p].todo = {}
  /\ created < MaxDispatches
  /\ created' = created + 1
  /\ dispatches' = dispatches \cup {created'}
  /\ Ended(p)
  /\ UNCHANGED <<toggle, task, stored, unheard>>

Stopped(p) ==
  /\ asked[p].op = "stop" /\ asked[p].at = "delete" /\ asked[p].todo = {}
  /\ Ended(p)
  /\ UNCHANGED <<dispatches, created, toggle, task, stored, unheard>>

\* The caller is not a member, LiveKit does not list or create: the button goes back to
\* where the request found it.
DispatchFails(p) ==
  /\ asked[p].op # "none"
  /\ \/ asked[p].at = "list"
     \/ asked[p].op = "start" /\ asked[p].todo = {}
  /\ toggle' = [toggle EXCEPT ![p] = (asked[p].op = "stop")]
  /\ Ended(p)
  /\ UNCHANGED <<dispatches, created, task, stored, unheard>>

-----------------------------------------------------------------------------
(* The agent of a dispatch.                                                *)

\* A final transcript with some text; interim ones are ignored.
OnTranscript(d, u) ==
  /\ d \in dispatches /\ task[d][u] = Quiet
  /\ task' = [task EXCEPT ![d][u] = [at |-> "publish", tries |-> 0]]
  /\ UNCHANGED <<dispatches, created, toggle, asked, stored, unheard>>

\* Mutant of Retry: attempts are not counted down.
RetryForever(d, u) == task' = [task EXCEPT ![d][u].tries = @ + 1]

\* One more attempt, or none: what was not published is not stored.
Retry(d, u) ==
  task' = [task EXCEPT ![d][u] =
             IF @.tries + 1 = MaxRetries THEN [at |-> "done", tries |-> 0]
             ELSE [at |-> @.at, tries |-> @.tries + 1]]

PublishTranscript(d, u) ==
  /\ task[d][u].at = "publish"
  /\ \/ task' = [task EXCEPT ![d][u] = [at |-> "persist", tries |-> 0]]
     \/ Retry(d, u)
  /\ UNCHANGED <<dispatches, created, toggle, asked, stored, unheard>>

\* Mutant of PersistTranscript: an answer 201 is not taken for success.
PersistUntilTold(d, u) ==
  /\ task[d][u].at = "persist"
  /\ stored' \in {stored, [stored EXCEPT ![u] = @ + 1]}
  /\ Retry(d, u)
  /\ UNCHANGED <<dispatches, created, toggle, asked, unheard>>

\* The backend stores a segment for each request that reaches it.
PersistTranscript(d, u) ==
  /\ task[d][u].at = "persist"
  /\ \/ /\ stored' = [stored EXCEPT ![u] = @ + 1]
        /\ task' = [task EXCEPT ![d][u] = [at |-> "done", tries |-> 0]]
        /\ UNCHANGED unheard
     \/ /\ stored' = [stored EXCEPT ![u] = @ + 1]
        /\ unheard' = [unheard EXCEPT ![u] = @ + 1]
        /\ Retry(d, u)
     \/ Retry(d, u) /\ UNCHANGED <<stored, unheard>>
  /\ UNCHANGED <<dispatches, created, toggle, asked>>

\* The job is cancelled with its dispatch: its tasks have five seconds to finish.
Cancelled(d) ==
  /\ d \in 1..created \ dispatches
  /\ \E u \in Phrases : task[d][u].at \in {"publish", "persist"}
  /\ task' = [task EXCEPT ![d] =
                [u \in Phrases |-> IF task[d][u] = Quiet THEN Quiet
                                   ELSE [at |-> "done", tries |-> 0]]]
  /\ UNCHANGED <<dispatches, created, toggle, asked, stored, unheard>>

TranscriptNext ==
  \/ \E p \in Panels :
       \/ ToggleTranscript(p) \/ ListDispatch(p) \/ DeleteDispatch(p)
       \/ CreateDispatch(p) \/ Stopped(p) \/ DispatchFails(p)
  \/ \E d \in Ids, u \in Phrases :
       OnTranscript(d, u) \/ PublishTranscript(d, u) \/ PersistTranscript(d, u)
  \/ \E d \in Ids : Cancelled(d)

TranscriptSpec == TranscriptInit /\ [][TranscriptNext]_transcriptVars

-----------------------------------------------------------------------------

Heard(u) == {d \in Ids : task[d][u] # Quiet}

\* A phrase is stored once for each transcriber that heard it, and once more only for
\* each answer that got lost: retries of what was stored and answered do not happen.
CopiesExplained ==
  \A u \in Phrases : stored[u] <= Cardinality(Heard(u)) + unheard[u]

=============================================================================
