---------------------------- MODULE RabbitClient ----------------------------
(***************************************************************************)
(* The RabbitMQ client of one process (packages/messaging/src/client.ts)   *)
(* as the three backends use it: connect at boot, start the consumers when *)
(* ready, reconnect after a delay, close on SIGTERM.                       *)
(*                                                                         *)
(* Nothing stops two calls of connect from being under way at once, and a  *)
(* connection that is given up is not closed: its handlers stay attached.  *)
(* The broker and amqplib are known from how the client uses them: a       *)
(* channel or connection that breaks is noticed some time later.           *)
(***************************************************************************)
EXTENDS Integers

CONSTANTS MaxConns,   \* bound: calls of connect
          MaxFaults,  \* bound: what breaks, of itself
          NumQueues   \* queues the ready listener consumes, one after the other

ASSUME RabbitAssumption ==
  MaxConns \in Nat \ {0} /\ MaxFaults \in Nat /\ NumQueues \in Nat \ {0}

VARIABLES
  channel,       \* this.channel: the connect whose channel it is, 0 is null
  connection,    \* this.connection
  healthy,       \* this.isHealthy
  reconnecting,  \* this.reconnecting
  timer,         \* the reconnect timer is set
  attempt,       \* per call of connect: where it is, and the consumers it started
  started,       \* calls of connect so far
  link,          \* per call: its connection at the broker
  chan,          \* per call: its channel
  pending,       \* the calls whose connection or channel has an event not yet emitted
  served,        \* per call and queue: consumers on its channel
  faults,
  phase          \* "up", "closing" inside close(), "exited"

rabbitVars == <<channel, connection, healthy, reconnecting, timer, attempt, started,
                link, chan, pending, served, faults, phase>>

Conns == 1..MaxConns
Queues == 1..NumQueues
Ends == {"none", "done", "failed"}

RabbitTypeOK ==
  /\ channel \in 0..MaxConns /\ connection \in 0..MaxConns
  /\ healthy \in BOOLEAN /\ reconnecting \in BOOLEAN /\ timer \in BOOLEAN
  /\ attempt \in [Conns -> [at : Ends \cup {"connecting", "creating", "topology", "listening"},
                            next : 1..NumQueues + 1]]
  /\ started \in Conns /\ faults \in 0..MaxFaults
  /\ link \in [Conns -> {"none", "open", "down"}]
  /\ chan \in [Conns -> {"none", "open", "down"}]
  /\ pending \subseteq Conns
  /\ served \in [Conns -> [Queues -> Nat]]
  /\ phase \in {"up", "closing", "exited"}

RabbitInit ==
  /\ channel = 0 /\ connection = 0 /\ healthy = FALSE
  /\ reconnecting = FALSE /\ timer = FALSE
  /\ started = 1
  /\ attempt = [i \in Conns |-> [at |-> IF i = 1 THEN "connecting" ELSE "none", next |-> 1]]
  /\ link = [i \in Conns |-> "none"] /\ chan = [i \in Conns |-> "none"]
  /\ pending = {} /\ faults = 0 /\ phase = "up"
  /\ served = [i \in Conns |-> [q \in Queues |-> 0]]

\* A second event before the timer has fired changes nothing more.
HandleDisconnect ==
  /\ healthy' = FALSE /\ connection' = 0 /\ channel' = 0
  /\ reconnecting' = TRUE
  /\ timer' = (timer \/ ~reconnecting)

\* Mutant of TimerFires: the flag that keeps timers single is never taken back.
TimerFiresOnce ==
  /\ timer /\ started < MaxConns
  /\ timer' = FALSE
  /\ started' = started + 1
  /\ attempt' = [attempt EXCEPT ![started'].at = "connecting"]
  /\ UNCHANGED <<channel, connection, healthy, reconnecting, link, chan, pending, served,
                 faults, phase>>

TimerFires ==
  /\ timer /\ started < MaxConns
  /\ timer' = FALSE /\ reconnecting' = FALSE
  /\ started' = started + 1
  /\ attempt' = [attempt EXCEPT ![started'].at = "connecting"]
  /\ UNCHANGED <<channel, connection, healthy, link, chan, pending, served, faults, phase>>

Goes(i, from, to) == attempt[i].at = from /\ attempt' = [attempt EXCEPT ![i].at = to]

Connected(i) ==
  /\ Goes(i, "connecting", "creating")
  /\ link' = [link EXCEPT ![i] = "open"]
  /\ connection' = i
  /\ UNCHANGED <<channel, healthy, reconnecting, timer, started, chan, pending, served, faults,
                 phase>>

CreateConfirmChannel(i) ==
  /\ Goes(i, "creating", "topology") /\ link[i] = "open"
  /\ chan' = [chan EXCEPT ![i] = "open"]
  /\ channel' = i
  /\ UNCHANGED <<connection, healthy, reconnecting, timer, started, link, pending, served,
                 faults, phase>>

\* The client is declared healthy, whatever has become of this.channel meanwhile.
TopologyReady(i) ==
  /\ Goes(i, "topology", "listening") /\ chan[i] = "open"
  /\ healthy' = TRUE
  /\ UNCHANGED <<channel, connection, reconnecting, timer, started, link, chan, pending, served,
                 faults, phase>>

\* Mutant of StartConsumer: one queue too many.
StartConsumerMore(i) ==
  /\ attempt[i].at = "listening"
  /\ channel # 0 /\ chan[channel] = "open"
  /\ served' = [served EXCEPT ![channel] = [q \in Queues |->
                                            @[q] + IF q = attempt[i].next THEN 1 ELSE 0]]
  /\ attempt' = [attempt EXCEPT ![i] =
                   [at |-> IF @.next > NumQueues THEN "done" ELSE "listening",
                    next |-> @.next + 1]]
  /\ UNCHANGED <<channel, connection, healthy, reconnecting, timer, started, link, chan, pending,
                 faults, phase>>

\* A consumer starts on this.channel, which another connect may have replaced.
StartConsumer(i) ==
  /\ attempt[i].at = "listening"
  /\ channel # 0 /\ chan[channel] = "open"
  /\ served' = [served EXCEPT ![channel][attempt[i].next] = @ + 1]
  /\ attempt' = [attempt EXCEPT ![i] =
                   [at |-> IF @.next = NumQueues THEN "done" ELSE "listening",
                    next |-> @.next + 1]]
  /\ UNCHANGED <<channel, connection, healthy, reconnecting, timer, started, link, chan, pending,
                 faults, phase>>

\* What the step under way needs has gone, or the broker refuses: the channel dies then,
\* the connection is left as it is.
ConnectFails(i) ==
  /\ attempt[i].at \notin Ends
  /\ attempt' = [attempt EXCEPT ![i].at = "failed"]
  /\ \/ /\ \/ attempt[i].at = "creating" /\ link[i] # "open"
           \/ attempt[i].at = "topology" /\ chan[i] # "open"
           \/ attempt[i].at = "listening" /\ channel = 0
           \/ attempt[i].at = "listening" /\ channel # 0 /\ chan[channel] # "open"
        /\ UNCHANGED <<chan, pending, faults>>
     \/ /\ faults < MaxFaults /\ faults' = faults + 1
        /\ attempt[i].at # "listening"
        /\ IF attempt[i].at = "topology"
           THEN chan' = [chan EXCEPT ![i] = "down"] /\ pending' = pending \cup {i}
           ELSE UNCHANGED <<chan, pending>>
  /\ HandleDisconnect
  /\ UNCHANGED <<started, link, served, phase>>

ChannelBreaks(i) ==
  /\ chan[i] = "open" /\ faults < MaxFaults
  /\ faults' = faults + 1
  /\ chan' = [chan EXCEPT ![i] = "down"]
  /\ pending' = pending \cup {i}
  /\ UNCHANGED <<channel, connection, healthy, reconnecting, timer, attempt, started, link,
                 served, phase>>

Down(i, f) == [f EXCEPT ![i] = IF @ = "open" THEN "down" ELSE @]

ConnectionBreaks(i) ==
  /\ link[i] = "open" /\ faults < MaxFaults
  /\ faults' = faults + 1
  /\ link' = Down(i, link) /\ chan' = Down(i, chan)
  /\ pending' = pending \cup {i}
  /\ UNCHANGED <<channel, connection, healthy, reconnecting, timer, attempt, started, served,
                 phase>>

\* The close and error events of a connection and its channel come together, and come as
\* well from a connection the client has given up.
Emit(i) ==
  /\ i \in pending /\ pending' = pending \ {i}
  /\ HandleDisconnect
  /\ UNCHANGED <<attempt, started, link, chan, served, faults, phase>>

\* close(): the flag keeps new timers from being set; one that is set still fires.
CloseChannel ==
  /\ phase = "up" /\ phase' = "closing"
  /\ reconnecting' = TRUE /\ healthy' = FALSE
  /\ IF channel = 0 THEN UNCHANGED <<chan, pending>>
     ELSE chan' = Down(channel, chan) /\ pending' = pending \cup {channel}
  /\ UNCHANGED <<channel, connection, timer, attempt, started, link, served, faults>>

\* The channel's close event has come first, as a rule: then there is no connection left
\* to close.  The process exits.
CloseConnection ==
  /\ phase = "closing" /\ phase' = "exited"
  /\ IF connection = 0 THEN UNCHANGED <<link, chan>>
     ELSE link' = Down(connection, link) /\ chan' = Down(connection, chan)
  /\ channel' = 0 /\ connection' = 0
  /\ UNCHANGED <<healthy, reconnecting, timer, attempt, started, pending, served, faults>>

Connecting(i) ==
  \/ Connected(i) \/ CreateConfirmChannel(i) \/ TopologyReady(i) \/ StartConsumer(i)
  \/ ConnectFails(i)

Running(action) == phase # "exited" /\ action

RabbitNext ==
  Running(\/ TimerFires \/ CloseChannel \/ CloseConnection
          \/ \E i \in Conns :
               Connecting(i) \/ ChannelBreaks(i) \/ ConnectionBreaks(i) \/ Emit(i))

\* A timer that is set fires, what a connect awaits is answered or fails, what broke is
\* noticed.  Nothing has to break, and nobody has to close.
RabbitFairness ==
  /\ WF_rabbitVars(Running(TimerFires))
  /\ \A i \in Conns : /\ WF_rabbitVars(Running(Connecting(i)))
                      /\ WF_rabbitVars(Running(Emit(i)))

RabbitSpec == RabbitInit /\ [][RabbitNext]_rabbitVars /\ RabbitFairness

-----------------------------------------------------------------------------

Serving ==
  /\ channel # 0 /\ chan[channel] = "open" /\ healthy
  /\ \A q \in Queues : served[channel][q] > 0

\* When what breaks has ended, and the process is not shut down, the consumers get going
\* again for good: late events cannot keep two connects undoing each other for ever.
EventuallyServing == <>[](phase # "up" \/ Serving)

=============================================================================
