---------------------------- MODULE CanvasClient ----------------------------
(***************************************************************************)
(* The drawing side of the canvas: the pane (CanvasPane.tsx), its undo     *)
(* stack (useCanvasHistory.ts) and its store (canvas.store.ts) in several  *)
(* browsers, for one object.                                               *)
(*                                                                         *)
(* The object is two properties, its position and whether it is deleted,   *)
(* each with the time of its value in a pane: the browser's own clock,     *)
(* behind or ahead of the server's, for what is done here, the server's    *)
(* stamp for what comes from there.  A pane shows what it does at once and *)
(* sends some of it, at most one frame per interval while the pointer      *)
(* moves.  It ignores what comes for an object it is drawing or dragging.  *)
(* The server stamps the frames and sends every one on to all, the sender  *)
(* included.  What it saves of a frame is all its properties under one     *)
(* key, in place of those of an older one; frames that move points by an   *)
(* offset it does not save, and a frame it cannot take it refuses.         *)
(*                                                                         *)
(* Frames are taken by the consumer in the order they were stamped;        *)
(* CanvasConsumer is about what several handlers make of them.  The times  *)
(* that a stored object's properties carry along to other browsers are     *)
(* left out, and so are selection, zoom and the appearance of objects.     *)
(***************************************************************************)
EXTENDS Integers, Sequences

CONSTANTS Browsers,   \* numbers, one user each
          Tools,      \* the tools in use, of "stroke", "shape", "drag" and "group"
          StartTime,  \* the server's clock at the start
          Lags,       \* how far a browser's clock may be behind, or ahead if negative
          MaxUses,    \* bound: gestures, edits, deletions, undos, canvas reads
          MaxMoves    \* bound: moves of the pointer in a gesture

ASSUME PaneAssumption ==
  /\ Browsers \subseteq Nat \ {0} /\ StartTime \in Nat \ {0} /\ Lags \subseteq Int
  /\ \A l \in Lags : l <= StartTime
  /\ MaxUses \in Nat /\ MaxMoves \in Nat

VARIABLES
  now,
  lag,
  kind,     \* what the object is: made of points, or a box; "none" before it is made
  shown,    \* per browser, the object in its store
  gesture,  \* per browser, what the pointer is doing
  base,     \* per browser, remoteTranslateBaseRef: the object that offsets are added to
  undos, redos,  \* per browser, its history
  up, inbox,     \* per browser, the frames to the server and from it
  saved,    \* the object at the server, with the stamp of its properties
  stamps,   \* per user, the last stamp
  loading,  \* per browser, a canvas read for it and not yet sent
  astray,   \* the browsers that something named in "What leads panes astray" has befallen
            \* and nothing has set right since
  uses

paneVars == <<now, lag, kind, shown, gesture, base, undos, redos, up, inbox, saved, stamps,
              loading, astray, uses>>

None == [pos |-> 0, gone |-> "unset"]
Props == [pos : Nat, gone : {"unset", "no", "yes"}]
Absent == [props |-> None, posAt |-> 0, goneAt |-> 0]
NoGesture == [tool |-> "none", start |-> None, pos |-> 0, moves |-> 0, group |-> 0,
              unsent |-> FALSE, missed |-> FALSE]

\* A frame settles what a pane shows if it brings what is saved.
Frames == [type : {"object", "translate", "load"}, props : Props, by : Nat, at : Nat,
           settles : BOOLEAN]
Loads == [props : Props, fresh : BOOLEAN]
Entries == [before : Nat, after : Nat, group : Nat]

PaneTypeOK ==
  /\ now \in Nat /\ lag \in [Browsers -> Lags] /\ kind \in {"none", "points", "box"}
  /\ shown \in [Browsers -> [props : Props, posAt : Nat, goneAt : Nat]]
  /\ gesture \in [Browsers -> [tool : Tools \cup {"none"}, start : Props, pos : Nat,
                               moves : 0..MaxMoves, group : Nat, unsent : BOOLEAN,
                               missed : BOOLEAN]]
  /\ base \in [Browsers -> Props]
  /\ undos \in [Browsers -> Seq(Entries)] /\ redos \in [Browsers -> Seq(Entries)]
  /\ up \in [Browsers -> Seq(Frames)] /\ inbox \in [Browsers -> Seq(Frames)]
  /\ saved \in [props : Props, at : Nat, by : Nat]
  /\ stamps \in [Browsers -> Nat] /\ loading \in [Browsers -> Loads \cup {Absent}]
  /\ astray \subseteq Browsers /\ uses \in 0..MaxUses

PaneInit ==
  /\ now = StartTime /\ lag \in [Browsers -> Lags] /\ kind = "none"
  /\ shown = [b \in Browsers |-> Absent] /\ gesture = [b \in Browsers |-> NoGesture]
  /\ base = [b \in Browsers |-> None]
  /\ undos = [b \in Browsers |-> <<>>] /\ redos = [b \in Browsers |-> <<>>]
  /\ up = [b \in Browsers |-> <<>>] /\ inbox = [b \in Browsers |-> <<>>]
  /\ saved = [props |-> None, at |-> 0, by |-> 0]
  /\ stamps = [b \in Browsers |-> 0] /\ loading = [b \in Browsers |-> Absent]
  /\ astray = {} /\ uses = 0

----------------------------------------------------------------------------
(* The store.                                                              *)

\* An update's property is taken over unless the one at hand is newer.
ApplyUpdate(o, props, time) ==
  LET takesPos == props.pos # 0 /\ time >= o.posAt
      takesGone == props.gone # "unset" /\ time >= o.goneAt
  IN [props |-> [pos |-> IF takesPos THEN props.pos ELSE o.props.pos,
                 gone |-> IF takesGone THEN props.gone ELSE o.props.gone],
      posAt |-> IF takesPos THEN time ELSE o.posAt,
      goneAt |-> IF takesGone THEN time ELSE o.goneAt]

IsNew(b, time) == time >= shown[b].posAt /\ time >= shown[b].goneAt
LocalTime(b) == now - lag[b]
UpsertObject(b, props) == [shown EXCEPT ![b] = ApplyUpdate(@, props, LocalTime(b))]

Frame(b, type, props) ==
  [type |-> type, props |-> props, by |-> b, at |-> 0, settles |-> FALSE]
SendCanvas(b, frames) == up' = [up EXCEPT ![b] = @ \o frames]

At(pos) == [pos |-> pos, gone |-> "unset"]
Alive(b) == shown[b].props.pos # 0 /\ shown[b].props.gone # "yes"

\* One step of the pointer, another one per browser.
Stride(b) == 4 * b - 3

----------------------------------------------------------------------------
(* Gestures.  A gesture has one group in the history, its end another one. *)

Use == uses < MaxUses /\ uses' = uses + 1
Entry(before, after, group) == <<[before |-> before, after |-> after, group |-> group]>>

\* recordHistory: what was undone cannot be redone any more.
RecordHistory(b, entries) ==
  /\ undos' = [undos EXCEPT ![b] = @ \o entries]
  /\ redos' = IF entries = <<>> THEN redos ELSE [redos EXCEPT ![b] = <<>>]

serverVars == <<inbox, saved, stamps, loading>>

(* What leads panes astray: a gesture that ends without a frame that says  *)
(* what it shows (PointerUp), a canvas that was read before the last frame *)
(* was saved, a frame out of the order of stamps, points moved by an       *)
(* offset (TakeFrame), a refused frame (Refuse), a replay of the own       *)
(* history (ReplayRecent).  A frame that brings what is saved ends it.     *)

\* A stroke or a shape is sent when it is begun; a stroke's entry is written when it ends.
PointerDownDraws(b, tool) ==
  /\ tool \in Tools \cap {"stroke", "shape"} /\ kind = "none" /\ gesture[b] = NoGesture /\ Use
  /\ kind' = IF tool = "stroke" THEN "points" ELSE "box"
  /\ gesture' = [gesture EXCEPT ![b] = [NoGesture EXCEPT !.tool = tool, !.pos = Stride(b),
                                                        !.group = 2 * uses]]
  /\ shown' = UpsertObject(b, At(Stride(b)))
  /\ SendCanvas(b, <<Frame(b, "object", At(Stride(b)))>>)
  /\ RecordHistory(b, IF tool = "shape" THEN Entry(0, Stride(b), 2 * uses) ELSE <<>>)
  /\ UNCHANGED <<now, lag, base, astray, serverVars>>

PointerDownSelects(b, tool) ==
  /\ tool \in Tools \cap {"drag", "group"} /\ Alive(b) /\ gesture[b] = NoGesture /\ Use
  /\ gesture' = [gesture EXCEPT ![b] = [NoGesture EXCEPT !.tool = tool,
                                          !.start = shown[b].props, !.pos = shown[b].props.pos,
                                          !.group = 2 * uses]]
  /\ UNCHANGED <<now, lag, kind, shown, base, undos, redos, up, astray, serverVars>>

\* The pointer moves with a tool in hand; a frame and an entry at most once per interval.
PointerMove(b, upserted, frame, entry) ==
  /\ gesture[b].moves < MaxMoves
  /\ shown' = IF upserted = None THEN shown ELSE UpsertObject(b, upserted)
  /\ \E emits \in BOOLEAN :
       /\ SendCanvas(b, IF emits THEN frame ELSE <<>>)
       /\ RecordHistory(b, IF emits THEN entry ELSE <<>>)
       /\ gesture' = [gesture EXCEPT ![b].pos = @ + Stride(b), ![b].moves = @ + 1,
                                     ![b].unsent = ~emits,
                                     ![b].missed = @ /\ ~emits]
  /\ UNCHANGED <<now, lag, kind, base, uses, astray, serverVars>>

Pointed(b) == gesture[b].pos + Stride(b)
Entered(b, after) == Entry(shown[b].props.pos, after, gesture[b].group)

\* The points of a stroke are shown without the store.
MoveStroke(b) ==
  /\ gesture[b].tool = "stroke"
  /\ PointerMove(b, None, <<Frame(b, "object", At(Pointed(b)))>>, <<>>)

MoveShape(b) ==
  /\ gesture[b].tool = "shape"
  /\ PointerMove(b, At(Pointed(b)), <<Frame(b, "object", At(Pointed(b)))>>,
                 Entered(b, Pointed(b)))

\* What is made of points is sent as an offset from where the gesture began.
Translation(b) == Frame(b, "translate", At(Pointed(b) - gesture[b].start.pos))

MoveDrag(b) ==
  LET next == [gesture[b].start EXCEPT !.pos = Pointed(b)]
  IN /\ gesture[b].tool = "drag"
     /\ PointerMove(b, next,
                    <<IF kind = "points" THEN Translation(b) ELSE Frame(b, "object", next)>>,
                    Entered(b, next.pos))

\* With several objects selected, each is sent as it was at the last rendering.
MoveGroup(b) ==
  LET old == shown[b].props
  IN /\ gesture[b].tool = "group"
     /\ PointerMove(b, [gesture[b].start EXCEPT !.pos = Pointed(b)],
                    IF old = None THEN <<>>
                    ELSE <<IF kind = "points" THEN Translation(b) ELSE Frame(b, "object", old)>>,
                    IF old = None THEN <<>> ELSE Entered(b, old.pos))

\* The object as the end of a gesture sends it.
Final(b) == IF gesture[b].tool = "stroke" THEN At(gesture[b].pos) ELSE shown[b].props

\* Mutant of PointerUp: no gesture sends its end, as if all its moves had been sent.
PointerUpSilent(b) ==
  LET g == gesture[b]
  IN /\ g # NoGesture /\ gesture' = [gesture EXCEPT ![b] = NoGesture]
     /\ shown' = IF g.tool = "stroke" THEN UpsertObject(b, Final(b)) ELSE shown
     /\ astray' = IF g.tool = "shape" /\ (g.unsent \/ g.missed) THEN astray \cup {b} ELSE astray
     /\ UNCHANGED <<now, lag, kind, base, undos, redos, up, uses, serverVars>>

\* The end of a shape is not sent: what its last moves left unsent stays so, and what came
\* meanwhile from others is lost on the pane.
PointerUp(b) ==
  LET g == gesture[b]
  IN /\ g # NoGesture /\ gesture' = [gesture EXCEPT ![b] = NoGesture]
     /\ shown' = IF g.tool = "stroke" THEN UpsertObject(b, Final(b)) ELSE shown
     /\ IF g.tool = "shape" \/ Final(b).pos = 0
        THEN /\ astray' = IF g.unsent \/ g.missed THEN astray \cup {b} ELSE astray
             /\ UNCHANGED <<up, undos, redos>>
        ELSE /\ SendCanvas(b, <<Frame(b, "object", Final(b))>>)
             /\ RecordHistory(b, Entry(g.start.pos, Final(b).pos, g.group + 1))
             /\ UNCHANGED astray
     /\ UNCHANGED <<now, lag, kind, base, uses, serverVars>>

\* Text, notes and images are made, edited, restyled and deleted at one stroke.
InsertObject(b) ==
  /\ kind = "none" /\ gesture[b] = NoGesture /\ Use
  /\ kind' = "box" /\ shown' = UpsertObject(b, At(Stride(b)))
  /\ SendCanvas(b, <<Frame(b, "object", At(Stride(b)))>>)
  /\ RecordHistory(b, Entry(0, Stride(b), 2 * uses))
  /\ UNCHANGED <<now, lag, gesture, base, astray, serverVars>>

CommitEdit(b) ==
  LET next == [shown[b].props EXCEPT !.pos = @ + Stride(b)]
  IN /\ Alive(b) /\ gesture[b] = NoGesture /\ Use
     /\ shown' = UpsertObject(b, next) /\ SendCanvas(b, <<Frame(b, "object", next)>>)
     /\ RecordHistory(b, Entry(shown[b].props.pos, next.pos, 2 * uses))
     /\ UNCHANGED <<now, lag, kind, gesture, base, astray, serverVars>>

DeleteObjectById(b) ==
  LET deleted == [shown[b].props EXCEPT !.gone = "yes"]
  IN /\ Alive(b) /\ gesture[b] = NoGesture /\ Use
     /\ shown' = UpsertObject(b, deleted) /\ SendCanvas(b, <<Frame(b, "object", deleted)>>)
     /\ RecordHistory(b, Entry(shown[b].props.pos, 0, 2 * uses))
     /\ UNCHANGED <<now, lag, kind, gesture, base, astray, serverVars>>

----------------------------------------------------------------------------
(* Undo and redo.                                                          *)

Biggest(S) == CHOOSE n \in S : \A m \in S : m <= n

\* How many entries of a stack are below those of its last group; these, oldest first, and
\* the ones below.
Below(stack) ==
  Biggest({0} \cup {i \in DOMAIN stack : stack[i].group # stack[Len(stack)].group})
LastGroup(stack) == SubSeq(stack, Below(stack) + 1, Len(stack))
OtherGroups(stack) == SubSeq(stack, 1, Below(stack))

\* applyHistoryTarget: nothing to go back to deletes the object as last rendered.
Target(b, pos) ==
  IF pos = 0 THEN [shown[b].props EXCEPT !.gone = "yes"] ELSE [pos |-> pos, gone |-> "no"]

\* All targets of a group are shown and sent, the last one is what remains.
ApplyHistory(b, targets) ==
  LET props == [i \in DOMAIN targets |-> Target(b, targets[i])]
  IN /\ shown' = UpsertObject(b, props[Len(props)])
     /\ SendCanvas(b, [i \in DOMAIN props |-> Frame(b, "object", props[i])])

Undo(b) ==
  LET group == LastGroup(undos[b])
  IN /\ undos[b] # <<>> /\ gesture[b] = NoGesture /\ shown[b].props.pos # 0 /\ Use
     /\ ApplyHistory(b, [i \in DOMAIN group |-> group[Len(group) + 1 - i].before])
     /\ undos' = [undos EXCEPT ![b] = OtherGroups(@)] /\ redos' = [redos EXCEPT ![b] = @ \o group]
     /\ UNCHANGED <<now, lag, kind, gesture, base, astray, serverVars>>

Redo(b) ==
  LET group == LastGroup(redos[b])
  IN /\ redos[b] # <<>> /\ gesture[b] = NoGesture /\ shown[b].props.pos # 0
     /\ ApplyHistory(b, [i \in DOMAIN group |-> group[i].after])
     /\ redos' = [redos EXCEPT ![b] = OtherGroups(@)] /\ undos' = [undos EXCEPT ![b] = @ \o group]
     /\ UNCHANGED <<now, lag, kind, gesture, base, uses, astray, serverVars>>

\* replayRecent: the own history is played once more, for this pane only, to its last entry.
ReplayRecent(b) ==
  /\ undos[b] # <<>> /\ gesture[b] = NoGesture /\ shown[b].props.pos # 0 /\ Use
  /\ shown' = UpsertObject(b, Target(b, undos[b][Len(undos[b])].after))
  /\ astray' = astray \cup {b}
  /\ UNCHANGED <<now, lag, kind, gesture, base, undos, redos, up, serverVars>>

----------------------------------------------------------------------------
(* The server, as the panes meet it, and what comes from it.               *)

\* createCanvasObjectEvent: the clock of the server goes on, and the user's stamp with it.
Stamp(b) == Biggest({stamps[b] + 1, now'})
Stamping(b) ==
  /\ up[b] # <<>> /\ up' = [up EXCEPT ![b] = Tail(@)] /\ now' \in {now, now + 1}
  /\ stamps' = [stamps EXCEPT ![b] = Stamp(b)]
  /\ UNCHANGED <<lag, kind, shown, gesture, base, undos, redos, uses>>

\* The object's properties are one key of what the consumer merges.
Newer(b) == Stamp(b) > saved.at \/ (Stamp(b) = saved.at /\ b > saved.by)
Saves(b) == Head(up[b]).type = "object" /\ Newer(b)

\* The frame is stamped, saved if it is newer, and sent to all.
Serve(b) ==
  LET f == Head(up[b])
      settles == Saves(b) /\ \A c \in Browsers \ {b} : stamps[c] < Stamp(b)
  IN /\ Stamping(b)
     /\ saved' = IF Saves(b) THEN [props |-> f.props, at |-> Stamp(b), by |-> b] ELSE saved
     /\ inbox' = [c \in Browsers |->
                    Append(inbox[c], [f EXCEPT !.at = Stamp(b), !.settles = settles])]
     /\ loading' = [c \in Browsers |-> IF loading[c] # Absent /\ Saves(b)
                                       THEN [loading[c] EXCEPT !.fresh = FALSE]
                                       ELSE loading[c]]
     /\ UNCHANGED astray

\* The queue is too long or the broker fails: the browser is told so and does nothing.
Refuse(b) == Stamping(b) /\ astray' = astray \cup {b} /\ UNCHANGED <<inbox, saved, loading>>

\* A browser asks for the canvas or for a replay of its log, which is read and, later, sent.
CanvasLoad(b) ==
  /\ \/ /\ loading[b] = Absent /\ Use
        /\ loading' = [loading EXCEPT ![b] = [props |-> saved.props, fresh |-> TRUE]]
        /\ UNCHANGED inbox
     \/ /\ loading[b] # Absent /\ loading' = [loading EXCEPT ![b] = Absent]
        /\ inbox' = [inbox EXCEPT ![b] =
                       Append(@, [Frame(b, "load", loading[b].props)
                                    EXCEPT !.settles = loading[b].fresh])]
        /\ UNCHANGED uses
  /\ UNCHANGED <<now, lag, kind, shown, gesture, base, undos, redos, up, saved, stamps, astray>>

\* canvas:load replaces what is shown; canvas:object adds to it, unless the object is in hand.
TakeFrame(b) ==
  LET f == Head(inbox[b])
      from == IF base[b] = None THEN shown[b].props ELSE base[b]
      moved == [from EXCEPT !.pos = @ + f.props.pos]
      idle == gesture[b] = NoGesture
  IN /\ inbox[b] # <<>> /\ inbox' = [inbox EXCEPT ![b] = Tail(@)]
     /\ \/ /\ f.type = "load" /\ base' = [base EXCEPT ![b] = None]
           /\ shown' = [shown EXCEPT ![b] = [Absent EXCEPT !.props = f.props]]
        \/ /\ f.type = "object" /\ idle /\ base' = [base EXCEPT ![b] = None]
           /\ shown' = [shown EXCEPT ![b] = ApplyUpdate(@, f.props, f.at)]
        \/ /\ f.type = "translate" /\ idle /\ shown[b].props.pos # 0
           /\ base' = [base EXCEPT ![b] = from]
           /\ shown' = [shown EXCEPT ![b] = ApplyUpdate(@, moved, f.at)]
        \/ /\ f.type # "load" /\ (idle => f.type = "translate" /\ shown[b].props.pos = 0)
           /\ UNCHANGED <<shown, base>>
     /\ IF idle
        THEN /\ astray' = IF ~f.settles THEN astray \cup {b}
                          ELSE IF f.type = "load" \/ IsNew(b, f.at) THEN astray \ {b}
                          ELSE astray
             /\ UNCHANGED gesture
        ELSE /\ gesture' = [gesture EXCEPT ![b].missed =
                              @ \/ f.type = "load" \/ f.by # b \/ ~f.settles]
             /\ UNCHANGED astray
     /\ UNCHANGED <<now, lag, kind, undos, redos, up, saved, stamps, loading, uses>>

PaneNext ==
  \/ \E b \in Browsers :
       \/ \E tool \in Tools : PointerDownDraws(b, tool) \/ PointerDownSelects(b, tool)
       \/ MoveStroke(b) \/ MoveShape(b) \/ MoveDrag(b) \/ MoveGroup(b) \/ PointerUp(b)
       \/ InsertObject(b) \/ CommitEdit(b) \/ DeleteObjectById(b)
       \/ Undo(b) \/ Redo(b) \/ ReplayRecent(b)
       \/ Serve(b) \/ Refuse(b) \/ CanvasLoad(b) \/ TakeFrame(b)

PaneSpec == PaneInit /\ [][PaneNext]_paneVars

----------------------------------------------------------------------------
(* Properties.                                                             *)

AllArrived ==
  \A b \in Browsers : /\ up[b] = <<>> /\ inbox[b] = <<>> /\ loading[b] = Absent
                      /\ gesture[b] = NoGesture

NoneAhead == \A b \in Browsers : lag[b] >= 0

\* Once the pointers are up and all frames have arrived, every browser that is not astray
\* shows the position the server has saved, and what it has saved of a deletion: a canvas
\* loaded anew moves, deletes and brings back nothing that such a pane does not show so.
\* (A deletion that a pane has seen may be missing from what is saved: DeletionsSaved.)
SavedIsShown ==
  AllArrived /\ NoneAhead =>
    \A b \in Browsers \ astray :
      /\ shown[b].props.pos = saved.props.pos
      /\ saved.props.gone # "unset" => shown[b].props.gone = saved.props.gone

\* What every pane shows deleted, none of them being astray, is deleted in what is saved:
\* "simultaneous drawing without data loss" (README.md:40).
DeletionsSaved ==
  AllArrived /\ NoneAhead /\ astray = {} =>
    ((\A b \in Browsers : shown[b].props.gone = "yes") => saved.props.gone = "yes")

=============================================================================
