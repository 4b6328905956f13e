------------------------------ MODULE MCParts ------------------------------
(***************************************************************************)
(* Six components that share no state, one behaviour each time: the part   *)
(* chosen at the start runs, the others stay where they begin.             *)
(***************************************************************************)
EXTENDS RoomAi, Timeline, Transcription, ChatPipeline, MediaSession,
        CanvasClient, TLC

CONSTANTS a1, a2,  \* jobs or panels
          s1, s2, b1, m1, f1

VARIABLE part

MCHome == [t \in Readers |-> s1]
MCClock == {0, 2, 7}

Symmetry == Permutations({a1, a2})

aiServiceVars == <<aiVars, timelineVars, transcriptVars>>
liveVars == <<chatVars, mediaVars, paneVars>>
partsVars == <<part, aiServiceVars, liveVars>>

\* What a part that does not run would start with makes no difference.
EmptyTimeline ==
  written = {} /\ spoken = {} /\ line = {} /\ cursor = 0 /\ windows = <<>>

Init ==
  /\ part \in {"ai", "timeline", "transcript", "chat", "media", "pane"}
  /\ AiInit /\ TranscriptInit /\ ChatInit /\ MediaInit /\ PaneInit
  /\ part # "media" => autoJoin = FALSE
  /\ IF part = "timeline" THEN TimelineInit ELSE EmptyTimeline

AiServiceNext ==
  \/ part = "ai" /\ AiNext /\ UNCHANGED <<timelineVars, transcriptVars>>
  \/ part = "timeline" /\ TimelineNext /\ UNCHANGED <<aiVars, transcriptVars>>
  \/ part = "transcript" /\ TranscriptNext /\ UNCHANGED <<aiVars, timelineVars>>

LiveNext ==
  \/ part = "chat" /\ ChatNext /\ UNCHANGED <<mediaVars, paneVars>>
  \/ part = "media" /\ MediaNext /\ UNCHANGED <<chatVars, paneVars>>
  \/ part = "pane" /\ PaneNext /\ UNCHANGED <<chatVars, mediaVars>>

Next ==
  /\ UNCHANGED part
  /\ \/ AiServiceNext /\ UNCHANGED liveVars
     \/ LiveNext /\ UNCHANGED aiServiceVars

Spec == Init /\ [][Next]_partsVars

\* Every part's state has its type.
PartsTypeOK ==
  CASE part = "ai" -> AiTypeOK
    [] part = "timeline" -> TimelineTypeOK
    [] part = "transcript" -> TranscriptTypeOK
    [] part = "chat" -> ChatTypeOK
    [] part = "media" -> MediaTypeOK
    [] part = "pane" -> PaneTypeOK

=============================================================================
