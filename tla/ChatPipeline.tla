---------------------------- MODULE ChatPipeline ----------------------------
(***************************************************************************)
(* The chat messages of one room, from the socket that sends them to the   *)
(* panels that show them: chat.handler.ts and eventPublisher.ts publish,   *)
(* the broker copies a message to chat.queue and broadcast.queue,          *)
(* chat.consumer.ts stores it, broadcast.consumer.ts sends it to the       *)
(* sockets of its server and by Redis (packages/redis/src/pubsub.ts) to    *)
(* the other servers, and ChatPanel.tsx shows it, beside the history that  *)
(* chatHistory.handler.ts answers.                                         *)
(*                                                                         *)
(* RabbitMQ and Redis are known from how the code uses them: a message not *)
(* acknowledged is delivered again when its consumer's connection is lost; *)
(* Redis delivers at most once.                                            *)
(***************************************************************************)
EXTENDS Integers, Sequences, FiniteSets

CONSTANTS Servers,   \* the ws-backends
          Readers,   \* browser tabs in the room
          Home,      \* per tab, the server of its socket
          Messages,  \* each sent once; what a user sends again is another one
          MaxFaults  \* bound: connections lost, crashes, errors of the database

ASSUME ChatAssumption ==
  /\ IsFiniteSet(Servers) /\ Home \in [Readers -> Servers]
  /\ IsFiniteSet(Messages) /\ MaxFaults \in Nat

VARIABLES
  publishing,  \* per message, what became of its publish
  chatQueue, broadcastQueue,  \* messages ready for a consumer
  held,        \* <<server, queue, message>>: delivered to it and not acknowledged
  storing,     \* per server and message, the chat consumer's next step
  telling,     \* per server and message, the broadcast consumer's next step
  messages,    \* the rows of the database
  dropped,     \* messages the chat consumer gave up on
  redis,       \* per server, what Redis has yet to deliver to it
  wire,        \* per tab, the frames its socket has yet to receive, in order
  history,     \* per tab, the request for history on its server
  panel,       \* per tab, the messages it shows
  told,        \* per tab and message, chat:new frames sent to it
  redelivered, \* per message, broadcasts it has beyond the first
  faults

chatVars == <<publishing, chatQueue, broadcastQueue, held, storing, telling, messages, dropped,
              redis, wire, history, panel, told, redelivered, faults>>

Unread == [at |-> "none", found |-> {}]

ChatTypeOK ==
  /\ publishing \in [Messages -> {"none", "waiting", "lost", "confirmed", "refused"}]
  /\ chatQueue \subseteq Messages /\ broadcastQueue \subseteq Messages
  /\ held \subseteq Servers \X {"chat", "broadcast"} \X Messages
  /\ storing \in [Servers -> [Messages -> {"none", "create", "ack", "nack"}]]
  /\ telling \in [Servers -> [Messages -> {"none", "publish", "ack"}]]
  /\ messages \subseteq Messages /\ dropped \subseteq Messages
  /\ redis \in [Servers -> SUBSET Messages]
  /\ wire \in [Readers -> Seq([type : {"chat:new", "chat:history"}, about : SUBSET Messages])]
  /\ history \in [Readers -> [at : {"none", "read", "done"}, found : SUBSET Messages]]
  /\ panel \in [Readers -> Seq(Messages)]
  /\ told \in [Readers -> [Messages -> Nat]] /\ redelivered \in [Messages -> Nat]
  /\ faults \in 0..MaxFaults

ChatInit ==
  /\ publishing = [m \in Messages |-> "none"]
  /\ chatQueue = {} /\ broadcastQueue = {} /\ held = {}
  /\ storing = [s \in Servers |-> [m \in Messages |-> "none"]]
  /\ telling = [s \in Servers |-> [m \in Messages |-> "none"]]
  /\ messages = {} /\ dropped = {}
  /\ redis = [s \in Servers |-> {}] /\ wire = [t \in Readers |-> <<>>]
  /\ history = [t \in Readers |-> Unread] /\ panel = [t \in Readers |-> <<>>]
  /\ told = [t \in Readers |-> [m \in Messages |-> 0]]
  /\ redelivered = [m \in Messages |-> 0] /\ faults = 0

brokerVars == <<chatQueue, broadcastQueue, held>>
panelVars == <<wire, history, panel, told>>
consumerVars == <<storing, telling, messages, dropped, redis, redelivered>>

Asks(m, from, to) == publishing[m] = from /\ publishing' = [publishing EXCEPT ![m] = to]

-----------------------------------------------------------------------------
(* Publishing.                                                             *)

ChatSend(m) ==
  \/ /\ Asks(m, "none", "waiting")
     /\ chatQueue' = chatQueue \cup {m} /\ broadcastQueue' = broadcastQueue \cup {m}
     /\ UNCHANGED <<held, consumerVars, panelVars, faults>>
  \/ /\ Asks(m, "none", "lost")
     /\ UNCHANGED <<brokerVars, consumerVars, panelVars, faults>>

\* The sender's membership ended, the load flag is set, the queue is too long by the count
\* of the broker, or the broker cannot be asked.
RefusePublish(m) ==
  /\ Asks(m, "none", "refused")
  /\ UNCHANGED <<brokerVars, consumerVars, panelVars, faults>>

Confirm(m) ==
  /\ Asks(m, "waiting", "confirmed")
  /\ UNCHANGED <<brokerVars, consumerVars, panelVars, faults>>

\* The user is told of an error, and the message may be sent all the same.
ConfirmTimeout(m) ==
  /\ Asks(m, "waiting", "refused") \/ Asks(m, "lost", "refused")
  /\ UNCHANGED <<brokerVars, consumerVars, panelVars, faults>>

-----------------------------------------------------------------------------
(* The chat consumer.                                                      *)

\* Mutant of DeliverChat: the consumer takes messages without acknowledging them.
DeliverUnheld(s, m) ==
  /\ m \in chatQueue /\ storing[s][m] = "none"
  /\ chatQueue' = chatQueue \ {m}
  /\ storing' = [storing EXCEPT ![s][m] = "create"]
  /\ UNCHANGED <<publishing, broadcastQueue, held, telling, messages, dropped, redis,
                 redelivered, panelVars, faults>>

DeliverChat(s, m) ==
  /\ m \in chatQueue /\ storing[s][m] = "none"
  /\ chatQueue' = chatQueue \ {m}
  /\ held' = held \cup {<<s, "chat", m>>}
  /\ storing' = [storing EXCEPT ![s][m] = "create"]
  /\ UNCHANGED <<publishing, broadcastQueue, telling, messages, dropped, redis, redelivered,
                 panelVars, faults>>

\* An id that is there already (P2002) is as good as stored.
CreateMessage(s, m) ==
  /\ storing[s][m] = "create"
  /\ \/ /\ messages' = messages \cup {m}
        /\ storing' = [storing EXCEPT ![s][m] = "ack"]
        /\ UNCHANGED faults
     \/ /\ faults < MaxFaults /\ faults' = faults + 1
        /\ storing' = [storing EXCEPT ![s][m] = "nack"]
        /\ UNCHANGED messages
  /\ UNCHANGED <<publishing, brokerVars, telling, dropped, redis, redelivered, panelVars>>

\* chat.queue has no dead-letter exchange: what is rejected is gone.  On a channel that is
\* closed by now neither has an effect.
SettleChat(s, m) ==
  /\ storing[s][m] \in {"ack", "nack"}
  /\ held' = held \ {<<s, "chat", m>>}
  /\ dropped' = IF storing[s][m] = "nack" /\ <<s, "chat", m>> \in held
                THEN dropped \cup {m} ELSE dropped
  /\ storing' = [storing EXCEPT ![s][m] = "none"]
  /\ UNCHANGED <<publishing, chatQueue, broadcastQueue, telling, messages, redis, redelivered,
                 panelVars, faults>>

-----------------------------------------------------------------------------
(* The broadcast consumer and Redis.                                       *)

\* roomManager.broadCast: to the sockets of this server.
BroadCastNew(s, m) ==
  /\ wire' = [t \in Readers |-> IF Home[t] # s THEN wire[t]
                             ELSE Append(wire[t], [type |-> "chat:new", about |-> {m}])]
  /\ told' = [t \in Readers |-> IF Home[t] # s THEN told[t]
                             ELSE [told[t] EXCEPT ![m] = @ + 1]]

DeliverBroadcast(s, m) ==
  /\ m \in broadcastQueue /\ telling[s][m] = "none"
  /\ broadcastQueue' = broadcastQueue \ {m}
  /\ held' = held \cup {<<s, "broadcast", m>>}
  /\ BroadCastNew(s, m)
  /\ telling' = [telling EXCEPT ![s][m] = "publish"]
  /\ UNCHANGED <<publishing, chatQueue, storing, messages, dropped, redis, redelivered,
                 history, panel, faults>>

\* Mutant of SafePublish: a server hears from Redis what it published itself.
SafePublishToAll(s, m) ==
  /\ telling[s][m] = "publish"
  /\ redis' = [z \in Servers |-> redis[z] \cup {m}]
  /\ telling' = [telling EXCEPT ![s][m] = "ack"]
  /\ UNCHANGED <<publishing, brokerVars, storing, messages, dropped, redelivered, panelVars,
                 faults>>

\* What Redis cannot take is logged, and the message counts as sent.
SafePublish(s, m) ==
  /\ telling[s][m] = "publish"
  /\ redis' \in {redis, [z \in Servers |-> IF z = s THEN redis[z] ELSE redis[z] \cup {m}]}
  /\ telling' = [telling EXCEPT ![s][m] = "ack"]
  /\ UNCHANGED <<publishing, brokerVars, storing, messages, dropped, redelivered, panelVars,
                 faults>>

SettleBroadcast(s, m) ==
  /\ telling[s][m] = "ack"
  /\ held' = held \ {<<s, "broadcast", m>>}
  /\ telling' = [telling EXCEPT ![s][m] = "none"]
  /\ UNCHANGED <<publishing, chatQueue, broadcastQueue, storing, messages, dropped, redis,
                 redelivered, panelVars, faults>>

\* A server drops what it published itself.
TellRemote(s, m) ==
  /\ m \in redis[s]
  /\ redis' = [redis EXCEPT ![s] = @ \ {m}]
  /\ BroadCastNew(s, m)
  /\ UNCHANGED <<publishing, brokerVars, storing, telling, messages, dropped, redelivered,
                 history, panel, faults>>

-----------------------------------------------------------------------------
(* The tabs.                                                               *)

\* The page asks whenever it has joined the room: once for each connection.
ReadHistory(t) ==
  /\ history[t].at = "none"
  /\ history' = [history EXCEPT ![t] = [at |-> "read", found |-> messages]]
  /\ UNCHANGED <<publishing, brokerVars, consumerVars, wire, panel, told, faults>>

AnswerHistory(t) ==
  /\ history[t].at = "read"
  /\ wire' = [wire EXCEPT ![t] =
                Append(@, [type |-> "chat:history", about |-> history[t].found])]
  /\ history' = [history EXCEPT ![t] = [at |-> "done", found |-> {}]]
  /\ UNCHANGED <<publishing, brokerVars, consumerVars, panel, told, faults>>

\* Any order stands for the times the messages have.
Orders(S) == {q \in [1..Cardinality(S) -> S] : \A i, j \in DOMAIN q : q[i] = q[j] => i = j}

Shows(t, m) == \E i \in DOMAIN panel[t] : panel[t][i] = m

\* A history replaces what is shown, what came live and is not in it included.
ReceiveChat(t) ==
  /\ wire[t] # <<>> /\ wire' = [wire EXCEPT ![t] = Tail(@)]
  /\ LET f == Head(wire[t]) IN
     \/ /\ f.type = "chat:new"
        /\ \E m \in f.about : panel' = [panel EXCEPT ![t] = IF Shows(t, m) THEN @ ELSE Append(@, m)]
     \/ /\ f.type = "chat:history"
        /\ \E q \in Orders(f.about) : panel' = [panel EXCEPT ![t] = q]
  /\ UNCHANGED <<publishing, brokerVars, consumerVars, history, told, faults>>

-----------------------------------------------------------------------------
(* Faults.                                                                 *)

HeldBy(s, queue) == {m \in Messages : <<s, queue, m>> \in held}

\* The broker requeues what the connection held; the handlers go on with it.
Requeue(s) ==
  /\ faults < MaxFaults /\ faults' = faults + 1
  /\ chatQueue' = chatQueue \cup HeldBy(s, "chat")
  /\ broadcastQueue' = broadcastQueue \cup HeldBy(s, "broadcast")
  /\ redelivered' = [m \in Messages |-> redelivered[m] +
                       IF m \in HeldBy(s, "broadcast") THEN 1 ELSE 0]
  /\ held' = {h \in held : h[1] # s}

ConnectionLost(s) ==
  /\ Requeue(s)
  /\ UNCHANGED <<publishing, storing, telling, messages, dropped, redis, panelVars>>

\* The sockets close too; their pages connect again, join, and ask for the history.
ServerCrash(s) ==
  /\ Requeue(s)
  /\ storing' = [storing EXCEPT ![s] = [m \in Messages |-> "none"]]
  /\ telling' = [telling EXCEPT ![s] = [m \in Messages |-> "none"]]
  /\ redis' = [redis EXCEPT ![s] = {}]
  /\ wire' = [t \in Readers |-> IF Home[t] = s THEN <<>> ELSE wire[t]]
  /\ history' = [t \in Readers |-> IF Home[t] = s THEN Unread ELSE history[t]]
  /\ UNCHANGED <<publishing, messages, dropped, panel, told>>

ChatNext ==
  \/ \E m \in Messages :
       \/ ChatSend(m) \/ RefusePublish(m) \/ Confirm(m) \/ ConfirmTimeout(m)
       \/ \E s \in Servers :
            \/ DeliverChat(s, m) \/ CreateMessage(s, m) \/ SettleChat(s, m)
            \/ DeliverBroadcast(s, m) \/ SafePublish(s, m)
            \/ SettleBroadcast(s, m) \/ TellRemote(s, m)
  \/ \E t \in Readers : ReadHistory(t) \/ AnswerHistory(t) \/ ReceiveChat(t)
  \/ \E s \in Servers : ConnectionLost(s) \/ ServerCrash(s)

ChatSpec == ChatInit /\ [][ChatNext]_chatVars

-----------------------------------------------------------------------------

\* A message the broker confirmed is stored, will be, or was refused by the database:
\* no crash, lost connection or second delivery loses it on the way.
ConfirmedKept ==
  \A m \in Messages :
    publishing[m] = "confirmed" =>
      m \in messages \cup dropped \cup chatQueue \cup UNION {HeldBy(s, "chat") : s \in Servers}

\* Each broadcast of a message reaches a socket once, by its own server or by Redis and
\* never both ways; and however often it comes, a panel shows it once.
ShownOnce ==
  \A t \in Readers :
    /\ \A m \in Messages : told[t][m] <= 1 + redelivered[m]
    /\ \A i, j \in DOMAIN panel[t] : panel[t][i] = panel[t][j] => i = j

=============================================================================
