------------------------------ MODULE Planner ------------------------------
(***************************************************************************)
(* One task and one meeting as controller/task.controller.ts and           *)
(* controller/planning.controller.ts keep them, and the notifications of   *)
(* services/notification.service.ts.                                       *)
(*                                                                         *)
(* A request reads the todo, writes it and then notifies, in three steps.  *)
(* Scheduling a meeting is one $transaction with its prep tasks (here one) *)
(* and invites after it.  Titles, dates, priorities and who belongs to     *)
(* the room are left out.  A notification is its row: the event for the    *)
(* user's sockets goes to a room GLOBAL that no socket is in.              *)
(***************************************************************************)
EXTENDS Integers

CONSTANTS People, NoPerson,
          Works   \* requests that may be under way at a time

VARIABLES
  todo,      \* the Task row: its stage, userId, assigneeId, and whether it has the meetingId
  meeting,   \* the ScheduledMeeting row: "none", "planned" or "deleted"
  invited,   \* the MEETING_INVITATION is in email.queue
  work,      \* what each request has read and goes on to do
  aware      \* who assigned himself, was notified of the task, or missed a notification

plannerVars == <<todo, meeting, invited, work, aware>>

Chore(op, to) == [op |-> op, by |-> NoPerson, to |-> to, seen |-> NoPerson]

NoWork == Chore("none", NoPerson)

Nothing == [stage |-> "none", owner |-> NoPerson, assignee |-> NoPerson, tied |-> FALSE]

PlannerTypeOK ==
  /\ todo \in [stage : {"none", "open", "deleted"}, owner : People \cup {NoPerson},
               assignee : People \cup {NoPerson}, tied : BOOLEAN]
  /\ meeting \in {"none", "planned", "deleted"}
  /\ invited \in BOOLEAN
  /\ work \in [Works ->
       [op : {"none", "update", "notify", "delete", "invite", "cancel"},
        by : People \cup {NoPerson}, to : People \cup {NoPerson},
        seen : People \cup {NoPerson}]]
  /\ aware \subseteq People \cup {NoPerson}

PlannerInit ==
  /\ todo = Nothing
  /\ meeting = "none" /\ invited = FALSE
  /\ work = [w \in Works |-> NoWork]
  /\ aware = {}

-----------------------------------------------------------------------------

EndWork(w) == work' = [work EXCEPT ![w] = NoWork]

\* Someone else who is assigned is to be notified; who assigns himself knows.
Assign(w, u, v, news) ==
  IF news /\ v \notin {NoPerson, u}
    THEN /\ work' = [work EXCEPT ![w] = Chore("notify", v)]
         /\ UNCHANGED aware
    ELSE /\ EndWork(w)
         /\ aware' = aware \cup ({v} \cap {u})

CreateTask(w, u, v) ==
  /\ work[w] = NoWork /\ todo.stage = "none"
  /\ \E tied \in BOOLEAN :
       /\ tied => meeting = "planned"
       /\ todo' = [stage |-> "open", owner |-> u, assignee |-> v, tied |-> tied]
  /\ Assign(w, u, v, TRUE)
  /\ UNCHANGED <<meeting, invited>>

\* The row, or the failure that is caught.
CreateNotification(w) ==
  /\ work[w].op = "notify"
  /\ aware' = aware \cup {work[w].to}
  /\ EndWork(w)
  /\ UNCHANGED <<todo, meeting, invited>>

\* The creator and the assignee of the task may update it; what the update compares
\* with is read here.
AskUpdate(w, u, v) ==
  /\ work[w] = NoWork /\ todo.stage = "open" /\ u \in {todo.owner, todo.assignee}
  /\ work' = [work EXCEPT ![w] = [op |-> "update", by |-> u, to |-> v,
                                   seen |-> todo.assignee]]
  /\ UNCHANGED <<todo, meeting, invited, aware>>

\* Mutant of UpdateTask: the new assignee is compared with the row that was written.
UpdateTaskCompareAfter(w) ==
  /\ work[w].op = "update" /\ todo.stage = "open"
  /\ todo' = [todo EXCEPT !.assignee = work[w].to]
  /\ Assign(w, work[w].by, work[w].to, work[w].to # todo'.assignee)
  /\ UNCHANGED <<meeting, invited>>

UpdateTask(w) ==
  /\ work[w].op = "update" /\ todo.stage = "open"
  /\ todo' = [todo EXCEPT !.assignee = work[w].to]
  /\ Assign(w, work[w].by, work[w].to, work[w].to # work[w].seen)
  /\ UNCHANGED <<meeting, invited>>

AskDeleteTask(w, u) ==
  /\ work[w] = NoWork /\ todo.stage = "open" /\ u = todo.owner
  /\ work' = [work EXCEPT ![w] = Chore("delete", NoPerson)]
  /\ UNCHANGED <<todo, meeting, invited, aware>>

\* The second of two deletes finds no row and fails.
DeleteTask(w) ==
  /\ work[w].op = "delete" /\ todo.stage = "open"
  /\ todo' = [todo EXCEPT !.stage = "deleted"]
  /\ EndWork(w)
  /\ UNCHANGED <<meeting, invited, aware>>

\* Room, meeting and prep tasks in one transaction; attendees are invited after it.
ScheduleMeeting(w, u) ==
  /\ work[w] = NoWork /\ meeting = "none"
  /\ meeting' = "planned"
  /\ \/ UNCHANGED todo
     \/ /\ todo.stage = "none"
        /\ todo' = [stage |-> "open", owner |-> u, assignee |-> NoPerson, tied |-> TRUE]
  /\ \/ UNCHANGED work
     \/ work' = [work EXCEPT ![w] = Chore("invite", NoPerson)]
  /\ UNCHANGED <<invited, aware>>

\* Without a channel getChannel throws, and the request answers 500 for a meeting that
\* is planned.
Invite(w) ==
  /\ work[w].op = "invite"
  /\ invited' \in BOOLEAN
  /\ EndWork(w)
  /\ UNCHANGED <<todo, meeting, aware>>

AskDeleteMeeting(w) ==
  /\ work[w] = NoWork /\ meeting = "planned"
  /\ work' = [work EXCEPT ![w] = Chore("cancel", NoPerson)]
  /\ UNCHANGED <<todo, meeting, invited, aware>>

\* Its tasks go with the meeting.
CancelMeeting ==
  /\ meeting' = "deleted"
  /\ todo' = IF todo.tied THEN [todo EXCEPT !.stage = "deleted"] ELSE todo

DeleteMeeting(w) ==
  /\ work[w].op = "cancel" /\ meeting = "planned"
  /\ CancelMeeting
  /\ EndWork(w)
  /\ UNCHANGED <<invited, aware>>

\* The room is deleted, and the meeting with it.
CascadeRoom ==
  /\ meeting = "planned"
  /\ CancelMeeting
  /\ UNCHANGED <<invited, work, aware>>

\* A statement fails or finds its row gone, or the process dies.
GiveUp(w) ==
  /\ work[w] # NoWork
  /\ aware' = IF work[w].op = "notify" THEN aware \cup {work[w].to} ELSE aware
  /\ EndWork(w)
  /\ UNCHANGED <<todo, meeting, invited>>

PlannerNext ==
  \/ \E w \in Works, u \in People, v \in People \cup {NoPerson} :
       CreateTask(w, u, v) \/ AskUpdate(w, u, v)
  \/ \E w \in Works, u \in People :
       AskDeleteTask(w, u) \/ ScheduleMeeting(w, u)
  \/ \E w \in Works :
       \/ CreateNotification(w) \/ UpdateTask(w) \/ DeleteTask(w)
       \/ Invite(w) \/ AskDeleteMeeting(w) \/ DeleteMeeting(w) \/ GiveUp(w)
  \/ CascadeRoom

PlannerSpec == PlannerInit /\ [][PlannerNext]_plannerVars

-----------------------------------------------------------------------------

\* Whoever a task is assigned to was told of it, or is being told, or assigned himself,
\* unless the notification failed: an update decides whom to tell by the assignee it read
\* before, and other updates may have changed him since.
AssigneeKnows ==
  todo.stage = "open" /\ todo.assignee # NoPerson =>
    \/ todo.assignee \in aware
    \/ \E w \in Works : work[w].op = "notify" /\ work[w].to = todo.assignee

=============================================================================
