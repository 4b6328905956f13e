---------------------------- MODULE Links_proofs ----------------------------
(***************************************************************************)
(* Proofs about what processes and browsers are linked by: the logical     *)
(* clocks, the broker connection of a process, the socket of a room page,  *)
(* for any sets of processes, users and rooms and any bounds.  What is     *)
(* said of the order of timestamps asks that clock steps, skew and bursts  *)
(* stay below the allowed drift; what is said of the page, nothing.        *)
(***************************************************************************)
EXTENDS MCLinks, TLAPS

-----------------------------------------------------------------------------
(* The logical clocks: what generateHLC gives out.                         *)

\* No time given out is further ahead of the highest value of its process's
\* clock than the burst by which the user's stamps outran it, less one.
Ahead ==
  \A p \in Processes, a \in Actors :
    lastTime[p][a] = 0 \/ lastTime[p][a] <= high[p] + burst[p][a] - 1

ClockBack == \A p \in Processes : high[p] - MaxBack <= wall[p] /\ wall[p] <= high[p]

Skew == \A p, q \in Processes : p # q => wall[p] - wall[q] \in -MaxSkew..MaxSkew

\* lastTimeMap remembers the maximum of what was issued.
Remembered ==
  \A s \in issued : s.n <= made /\ s.time <= lastTime[s.process][s.actorId]

IInv == TypeOK /\ ClockBack /\ Ahead /\ Remembered /\ MonotonicPerProcess

LEMMA InitIInv == Init => IInv
  BY BoundsAssumption
  DEF Init, IInv, TypeOK, ClockBack, Ahead, Remembered, MonotonicPerProcess, Stamps

\* What a step of its clock does to the burst of a process.
LEMMA SetClockBurst ==
  ASSUME TypeOK, NEW p \in Processes, NEW t \in 1..MaxTime, SetClock(p, t)
  PROVE  /\ high' \in [Processes -> 1..MaxTime]
         /\ burst' \in [Processes -> [Actors -> 0..MaxBurst]]
         /\ \A q \in Processes, a \in Actors :
              high[q] + burst[q][a] <= high'[q] + burst'[q][a]
<1> DEFINE spent == [a \in Actors |-> Larger(burst[p][a] - (high'[p] - high[p]), 0)]
<1>1. /\ high' = [high EXCEPT ![p] = Larger(@, t)]
      /\ burst' = [burst EXCEPT ![p] = spent]
  BY DEF SetClock
<1>2. high' \in [Processes -> 1..MaxTime] /\ high'[p] = Larger(high[p], t)
  BY <1>1 DEF TypeOK, Larger
<1>3. high[p] \in Nat /\ high'[p] \in Nat /\ high[p] <= high'[p] /\ MaxBurst \in Nat
  BY <1>2, BoundsAssumption DEF TypeOK, Larger
<1>4. ASSUME NEW a \in Actors
      PROVE  spent[a] \in 0..MaxBurst /\ high[p] + burst[p][a] <= high'[p] + spent[a]
  <2>1. burst[p][a] \in 0..MaxBurst
    BY DEF TypeOK
  <2> QED
    BY <2>1, <1>3 DEF Larger
<1>5. spent \in [Actors -> 0..MaxBurst]
  BY <1>4
<1> HIDE DEF spent
<1>6. burst' \in [Processes -> [Actors -> 0..MaxBurst]] /\ burst'[p] = spent
  BY <1>1, <1>5 DEF TypeOK
<1>7. ASSUME NEW q \in Processes, NEW a \in Actors
      PROVE  high[q] + burst[q][a] <= high'[q] + burst'[q][a]
  <2>1. CASE q = p
    BY <2>1, <1>4, <1>6
  <2>2. CASE q # p
    <3>1. high'[q] = high[q] /\ burst'[q] = burst[q]
      BY <2>2, <1>1 DEF TypeOK
    <3>2. high[q] \in Nat /\ burst[q][a] \in Nat
      BY BoundsAssumption DEF TypeOK
    <3> QED
      BY <3>1, <3>2
  <2> QED
    BY <2>1, <2>2
<1> QED
  BY <1>2, <1>6, <1>7

LEMMA SetClockIInv ==
  ASSUME IInv, NEW p \in Processes, NEW t \in 1..MaxTime, SetClock(p, t)
  PROVE  IInv'
<1>0. /\ burst' \in [Processes -> [Actors -> 0..MaxBurst]]
      /\ \A q \in Processes, a \in Actors :
           high[q] + burst[q][a] <= high'[q] + burst'[q][a]
  BY SetClockBurst DEF IInv
<1>1. TypeOK'
  BY <1>0 DEF IInv, TypeOK, SetClock, Larger
<1>2. ClockBack'
  BY BoundsAssumption DEF IInv, TypeOK, ClockBack, SetClock, Larger
<1>3. Ahead'
  <2> SUFFICES ASSUME NEW q \in Processes, NEW a \in Actors, lastTime[q][a] # 0
               PROVE  lastTime[q][a] <= high'[q] + burst'[q][a] - 1
    BY DEF Ahead, SetClock
  <2>1. high[q] + burst[q][a] <= high'[q] + burst'[q][a]
    BY <1>0
  <2>2. lastTime[q][a] <= high[q] + burst[q][a] - 1
    BY DEF IInv, Ahead
  <2>3. /\ lastTime[q][a] \in Nat /\ high[q] \in Nat /\ burst[q][a] \in Nat
        /\ high'[q] \in Nat /\ burst'[q][a] \in Nat
    BY <1>1, BoundsAssumption DEF IInv, TypeOK
  <2> QED
    BY <2>1, <2>2, <2>3
<1>4. Remembered' /\ MonotonicPerProcess'
  BY DEF IInv, Remembered, MonotonicPerProcess, SetClock
<1> QED
  BY <1>1, <1>2, <1>3, <1>4 DEF IInv

LEMMA GenerateIInv ==
  ASSUME MaxBack + MaxBurst <= MaxDrift + 1,
         IInv, NEW p \in Processes, NEW a \in Actors, GenerateHLC(p, a)
  PROVE  IInv'
<1> DEFINE last == lastTime[p][a]
<1> DEFINE next == ClampLogicalTime(Larger(last + 1, wall[p]), wall[p])
<1> DEFINE stamp == [process |-> p, actorId |-> a, time |-> next, n |-> made + 1]
<1>1. /\ made < MaxStamps /\ made' = made + 1
      /\ burst[p][a] < MaxBurst /\ burst' = [burst EXCEPT ![p][a] = @ + 1]
      /\ lastTime' = [lastTime EXCEPT ![p][a] = next]
      /\ issued' = issued \cup {stamp}
      /\ wall' = wall /\ high' = high /\ consumed' = consumed
  BY DEF GenerateHLC, Stamping
<1>2. /\ last \in Nat /\ wall[p] \in Nat /\ high[p] \in Nat /\ made \in Nat
      /\ burst[p][a] \in Nat
      /\ MaxDrift \in Nat /\ MaxBack \in Nat /\ MaxStamps \in Nat /\ MaxBurst \in Nat
      /\ high[p] - MaxBack <= wall[p] /\ wall[p] <= high[p]
      /\ last = 0 \/ last <= high[p] + burst[p][a] - 1
      /\ wall[p] >= 1
  BY BoundsAssumption DEF IInv, TypeOK, ClockBack, Ahead
<1>3. next = Larger(last + 1, wall[p])
  BY <1>1, <1>2 DEF Larger, ClampLogicalTime
<1>4. next \in Nat /\ last < next /\ next <= high[p] + burst[p][a]
  BY <1>1, <1>2, <1>3 DEF Larger
<1> HIDE DEF next
<1>5. \A q \in Processes, b \in Actors :
        /\ lastTime'[q][b] = IF q = p /\ b = a THEN next ELSE lastTime[q][b]
        /\ burst'[q][b] = IF q = p /\ b = a THEN burst[p][a] + 1 ELSE burst[q][b]
  BY <1>1 DEF IInv, TypeOK
<1>6. TypeOK'
  <2>1. stamp \in Stamps
    BY <1>1, <1>2, <1>4 DEF Stamps
  <2>2. lastTime' \in [Processes -> [Actors -> Nat]]
    BY <1>1, <1>4 DEF IInv, TypeOK
  <2>3. burst[p][a] + 1 \in 0..MaxBurst
    BY <1>1, <1>2
  <2>4. burst' \in [Processes -> [Actors -> 0..MaxBurst]]
    BY <1>1, <2>3 DEF IInv, TypeOK
  <2> QED
    BY <1>1, <1>2, <2>1, <2>2, <2>4 DEF IInv, TypeOK
<1>7. ClockBack'
  BY <1>1 DEF IInv, ClockBack
<1>8. Ahead'
  <2> SUFFICES ASSUME NEW q \in Processes, NEW b \in Actors, lastTime'[q][b] # 0
               PROVE  lastTime'[q][b] <= high[q] + burst'[q][b] - 1
    BY <1>1 DEF Ahead
  <2>1. CASE q = p /\ b = a
    BY <2>1, <1>2, <1>4, <1>5
  <2>2. CASE ~(q = p /\ b = a)
    BY <2>2, <1>5 DEF IInv, Ahead
  <2> QED
    BY <2>1, <2>2
<1>9. Remembered'
  <2> SUFFICES ASSUME NEW s \in issued'
               PROVE  s.n <= made' /\ s.time <= lastTime'[s.process][s.actorId]
    BY DEF Remembered
  <2>1. CASE s = stamp
    BY <2>1, <1>1, <1>2, <1>4, <1>5
  <2>2. CASE s \in issued
    <3>1. /\ s.n <= made /\ s.time <= lastTime[s.process][s.actorId]
          /\ s.process \in Processes /\ s.actorId \in Actors
          /\ s.n \in Nat /\ s.time \in Nat
          /\ lastTime[s.process][s.actorId] \in Nat
      BY <2>2, <1>2 DEF IInv, TypeOK, Remembered, Stamps
    <3> QED
      BY <3>1, <1>1, <1>2, <1>4, <1>5
  <2> QED
    BY <2>1, <2>2, <1>1
<1>10. MonotonicPerProcess'
  <2> SUFFICES ASSUME NEW s \in issued', NEW t \in issued',
                      s.process = t.process, s.actorId = t.actorId, s.n < t.n
               PROVE  s.time < t.time
    BY DEF MonotonicPerProcess
  <2>1. CASE s \in issued /\ t \in issued
    BY <2>1 DEF IInv, MonotonicPerProcess
  <2>2. CASE s \in issued /\ t = stamp
    <3>1. s.time <= last /\ s.time \in Nat
      BY <2>2 DEF IInv, TypeOK, Remembered, Stamps
    <3> QED
      BY <3>1, <2>2, <1>2, <1>4
  <2>3. CASE s = stamp /\ t \in issued
    <3>1. t.n <= made /\ t.n \in Nat
      BY <2>3, <1>2 DEF IInv, TypeOK, Remembered, Stamps
    <3> QED
      BY <3>1, <2>3, <1>2
  <2>4. CASE s = stamp /\ t = stamp
    BY <2>4, <1>2
  <2> QED
    BY <2>1, <2>2, <2>3, <2>4, <1>1
<1> QED
  BY <1>6, <1>7, <1>8, <1>9, <1>10 DEF IInv

LEMMA NormalizeIInv ==
  ASSUME IInv, NEW p \in Processes, NEW s \in issued, NormalizeLogicalTimestamp(p, s)
  PROVE  IInv'
<1>1. ClampLogicalTime(s.time, wall[p]) \in Nat
  BY BoundsAssumption DEF IInv, TypeOK, Stamps, ClampLogicalTime
<1>2. TypeOK'
  BY <1>1 DEF IInv, TypeOK, NormalizeLogicalTimestamp
<1>3. ClockBack' /\ Ahead' /\ Remembered' /\ MonotonicPerProcess'
  BY DEF IInv, ClockBack, Ahead, Remembered, MonotonicPerProcess, NormalizeLogicalTimestamp
<1> QED
  BY <1>2, <1>3 DEF IInv

LEMMA NextIInv ==
  ASSUME MaxBack + MaxBurst <= MaxDrift + 1
  PROVE  IInv /\ [Next]_vars => IInv'
<1> SUFFICES ASSUME IInv, [Next]_vars PROVE IInv'
  OBVIOUS
<1>1. ASSUME NEW p \in Processes, NEW t \in 1..MaxTime, SetClock(p, t) PROVE IInv'
  BY <1>1, SetClockIInv
<1>2. ASSUME NEW p \in Processes, NEW a \in Actors, GenerateHLC(p, a) PROVE IInv'
  BY <1>2, GenerateIInv
<1>3. ASSUME NEW p \in Processes, NEW s \in issued, NormalizeLogicalTimestamp(p, s)
      PROVE IInv'
  BY <1>3, NormalizeIInv
<1>4. CASE UNCHANGED vars
  BY <1>4 DEF vars, IInv, TypeOK, ClockBack, Ahead, Remembered, MonotonicPerProcess
<1> QED
  BY <1>1, <1>2, <1>3, <1>4 DEF Next

\* generateHLC is monotonic per actor and process, and its state well typed,
\* whenever clock steps and bursts together stay within the allowed drift, however
\* many timestamps a process makes in its life.
THEOREM MonotonicHolds ==
  ASSUME MaxBack + MaxBurst <= MaxDrift + 1
  PROVE  Spec => [](TypeOK /\ MonotonicPerProcess)
<1>1. IInv => TypeOK /\ MonotonicPerProcess
  BY DEF IInv
<1> QED
  BY InitIInv, NextIInv, <1>1, PTL DEF Spec

-----------------------------------------------------------------------------
(* The consumer's clamp.                                                   *)

\* What was consumed was issued, and the clamp took nothing from its time.
Unclamped == \A x \in consumed : x.stamp \in issued /\ x.time = x.stamp.time

LInv == IInv /\ Skew /\ Unclamped

\* A time once issued is never further ahead of any process's clock than the drift.
LEMMA WithinDrift ==
  ASSUME MaxBack + MaxSkew + MaxBurst <= MaxDrift + 1,
         IInv, Skew, NEW q \in Processes, NEW s \in issued
  PROVE  s.time <= wall[q] + MaxDrift
<1> DEFINE p == s.process
<1> DEFINE a == s.actorId
<1>1. /\ p \in Processes /\ a \in Actors /\ s.time \in Nat /\ made \in Nat
      /\ lastTime[p][a] \in Nat /\ high[p] \in Nat /\ wall[p] \in Nat /\ wall[q] \in Nat
      /\ burst[p][a] \in Nat /\ burst[p][a] <= MaxBurst
      /\ MaxDrift \in Nat /\ MaxBack \in Nat /\ MaxBurst \in Nat /\ MaxSkew \in Nat
  BY BoundsAssumption DEF IInv, TypeOK, Stamps
<1>2. /\ s.time <= lastTime[p][a]
      /\ lastTime[p][a] = 0 \/ lastTime[p][a] <= high[p] + burst[p][a] - 1
      /\ high[p] - MaxBack <= wall[p]
  BY <1>1 DEF IInv, Remembered, Ahead, ClockBack
<1>3. wall[p] - MaxSkew <= wall[q]
  <2>1. CASE p = q
    BY <2>1, <1>1
  <2>2. CASE p # q
    BY <2>2, <1>1 DEF Skew
  <2> QED
    BY <2>1, <2>2
<1> QED
  BY <1>1, <1>2, <1>3

LEMMA SkewStep == IInv /\ Skew /\ [Next]_vars => Skew'
<1> SUFFICES ASSUME IInv, Skew, [Next]_vars PROVE Skew'
  OBVIOUS
<1>1. CASE wall' = wall
  BY <1>1 DEF Skew
<1>2. ASSUME NEW p \in Processes, NEW t \in 1..MaxTime, SetClock(p, t) PROVE Skew'
  <2> SUFFICES ASSUME NEW q \in Processes, NEW r \in Processes, q # r
               PROVE  wall'[q] - wall'[r] \in -MaxSkew..MaxSkew
    BY DEF Skew
  <2>1. /\ wall' = [wall EXCEPT ![p] = t] /\ t \in Nat /\ MaxSkew \in Nat
        /\ \A x \in Processes \ {p} : t - wall[x] \in -MaxSkew..MaxSkew
        /\ \A x \in Processes : wall[x] \in Nat
        /\ \A x \in Processes : wall'[x] = IF x = p THEN t ELSE wall[x]
    BY <1>2, BoundsAssumption DEF SetClock, IInv, TypeOK
  <2>2. CASE q = p
    BY <2>1, <2>2
  <2>3. CASE r = p
    <3>1. t - wall[q] \in -MaxSkew..MaxSkew
      BY <2>1, <2>3
    <3> QED
      BY <2>1, <2>3, <3>1
  <2>4. CASE q # p /\ r # p
    BY <2>1, <2>4 DEF Skew
  <2> QED
    BY <2>2, <2>3, <2>4
<1> QED
  BY <1>1, <1>2 DEF Next, vars, GenerateHLC, NormalizeLogicalTimestamp

LEMMA UnclampedStep ==
  ASSUME MaxBack + MaxSkew + MaxBurst <= MaxDrift + 1,
         IInv, Skew, Unclamped, [Next]_vars
  PROVE  Unclamped'
<1>1. CASE UNCHANGED consumed /\ issued \subseteq issued'
  BY <1>1 DEF Unclamped
<1>2. ASSUME NEW p \in Processes, NEW s \in issued, NormalizeLogicalTimestamp(p, s)
      PROVE Unclamped'
  <2>1. s.time <= wall[p] + MaxDrift /\ s.time \in Nat /\ wall[p] + MaxDrift \in Nat
    BY WithinDrift, BoundsAssumption DEF IInv, TypeOK, Stamps
  <2>2. ClampLogicalTime(s.time, wall[p]) = s.time
    BY <2>1 DEF ClampLogicalTime
  <2> QED
    BY <1>2, <2>2 DEF NormalizeLogicalTimestamp, Unclamped
<1> QED
  BY <1>1, <1>2 DEF Next, vars, SetClock, GenerateHLC

LEMMA OrderKept == LInv => ClampKeepsOrder
  BY DEF LInv, IInv, Unclamped, MonotonicPerProcess, ClampKeepsOrder

\* Whatever process consumes an event and whenever, the clamp changes no timestamp, so
\* that it leaves those of one user's process in their order: it is enough that clock
\* steps, skew between the processes and bursts together stay within the drift.
THEOREM ClampOrderHolds ==
  ASSUME MaxBack + MaxSkew + MaxBurst <= MaxDrift + 1
  PROVE  Spec => []ClampKeepsOrder
<1>1. Init => LInv
  <2>1. Init => Skew /\ Unclamped
    BY BoundsAssumption DEF Init, Skew, Unclamped
  <2> QED
    BY <2>1, InitIInv DEF LInv
<1>2. LInv /\ [Next]_vars => LInv'
  <2> SUFFICES ASSUME LInv, [Next]_vars PROVE LInv'
    OBVIOUS
  <2>1. MaxBack + MaxBurst <= MaxDrift + 1
    BY BoundsAssumption
  <2> QED
    BY <2>1, NextIInv, SkewStep, UnclampedStep DEF LInv
<1> QED
  BY <1>1, <1>2, OrderKept, PTL DEF Spec

LEMMA ClockTypes == TypeOK /\ [Next]_vars => TypeOK'
<1> SUFFICES ASSUME TypeOK, [Next]_vars PROVE TypeOK'
  OBVIOUS
<1>1. ASSUME NEW p \in Processes, NEW t \in 1..MaxTime, SetClock(p, t) PROVE TypeOK'
  BY <1>1, SetClockBurst DEF TypeOK, SetClock
<1>2. ASSUME NEW p \in Processes, NEW a \in Actors, GenerateHLC(p, a) PROVE TypeOK'
  <2> DEFINE next == ClampLogicalTime(Larger(lastTime[p][a] + 1, wall[p]), wall[p])
  <2> DEFINE stamp == [process |-> p, actorId |-> a, time |-> next, n |-> made + 1]
  <2>1. /\ made < MaxStamps /\ made' = made + 1
        /\ burst[p][a] < MaxBurst /\ burst' = [burst EXCEPT ![p][a] = @ + 1]
        /\ lastTime' = [lastTime EXCEPT ![p][a] = next]
        /\ issued' = issued \cup {stamp} /\ UNCHANGED <<wall, high, consumed>>
    BY <1>2 DEF GenerateHLC, Stamping
  <2>2. next \in Nat /\ made + 1 \in 1..MaxStamps
    BY <2>1, BoundsAssumption DEF TypeOK, ClampLogicalTime, Larger
  <2> HIDE DEF next
  <2>3. stamp \in Stamps /\ lastTime' \in [Processes -> [Actors -> Nat]]
    BY <2>1, <2>2 DEF Stamps, TypeOK
  <2>4. burst[p][a] + 1 \in 0..MaxBurst
    BY <2>1, BoundsAssumption DEF TypeOK
  <2>5. burst' \in [Processes -> [Actors -> 0..MaxBurst]]
    BY <2>1, <2>4 DEF TypeOK
  <2> QED
    BY <2>1, <2>2, <2>3, <2>5, BoundsAssumption DEF TypeOK
<1>3. ASSUME NEW p \in Processes, NEW s \in issued, NormalizeLogicalTimestamp(p, s)
      PROVE TypeOK'
  <2>1. ClampLogicalTime(s.time, wall[p]) \in Nat
    BY BoundsAssumption DEF TypeOK, Stamps, ClampLogicalTime
  <2> QED
    BY <1>3, <2>1 DEF TypeOK, NormalizeLogicalTimestamp
<1>4. CASE UNCHANGED vars
  BY <1>4 DEF vars, TypeOK
<1> QED
  BY <1>1, <1>2, <1>3, <1>4 DEF Next


-----------------------------------------------------------------------------
(* The broker connection.                                                  *)


Steps == Ends \cup {"connecting", "creating", "topology", "listening"}
Attempts == [at : Steps, next : 1..NumQueues + 1]

\* A connect has consumers left to start until it is done; later ones have not begun.
Progress ==
  \A i \in Conns : /\ attempt[i].at # "done" => attempt[i].next <= NumQueues
                   /\ i > started => attempt[i].at = "none"

RabbitTyped == RabbitTypeOK /\ Progress

\* The step of a connect that does not end it.
LEMMA AttemptMoves ==
  ASSUME attempt \in [Conns -> Attempts], NEW s \in Conns,
         \A i \in Conns : /\ attempt[i].at # "done" => attempt[i].next <= NumQueues
                          /\ i > s => attempt[i].at = "none",
         NEW j \in Conns, j <= s, attempt[j].at # "done", NEW to \in Steps \ {"none"},
         attempt' = [attempt EXCEPT ![j].at = to]
  PROVE  /\ attempt' \in [Conns -> Attempts]
         /\ \A i \in Conns : /\ attempt'[i].at # "done" => attempt'[i].next <= NumQueues
                             /\ i > s => attempt'[i].at = "none"
<1>1. [attempt[j] EXCEPT !.at = to] \in Attempts
  BY DEF Attempts
<1>2. \A i \in Conns : attempt'[i] = IF i = j THEN [attempt[j] EXCEPT !.at = to] ELSE attempt[i]
  OBVIOUS
<1>3. attempt' \in [Conns -> Attempts]
  BY <1>1
<1>4. attempt'[j].at = to /\ attempt'[j].next = attempt[j].next
  BY <1>2 DEF Attempts
<1>5. ~(j > s)
  BY RabbitAssumption DEF Conns
<1> QED
  BY <1>2, <1>3, <1>4, <1>5

LEMMA RabbitTypes ==
  RabbitTypeOK <=>
    /\ channel \in 0..MaxConns /\ connection \in 0..MaxConns
    /\ healthy \in BOOLEAN /\ reconnecting \in BOOLEAN /\ timer \in BOOLEAN
    /\ attempt \in [Conns -> Attempts]
    /\ started \in Conns /\ faults \in 0..MaxFaults
    /\ link \in [Conns -> {"none", "open", "down"}]
    /\ chan \in [Conns -> {"none", "open", "down"}]
    /\ pending \subseteq Conns
    /\ served \in [Conns -> [Queues -> Nat]]
    /\ phase \in {"up", "closing", "exited"}
  BY DEF RabbitTypeOK, Attempts, Steps

\* The step of a call of connect.
Moves(j, to) == attempt' = [attempt EXCEPT ![j].at = to]

LEMMA AttemptStep ==
  ASSUME RabbitTyped,
         \/ UNCHANGED <<attempt, started>>
         \/ TimerFires
         \/ \E i \in Conns : /\ started' = started /\ attempt[i].at \notin {"none", "done"}
                             /\ \E to \in Steps \ {"none"} : Moves(i, to)
         \/ \E i \in Conns : StartConsumer(i)
  PROVE  attempt' \in [Conns -> Attempts] /\ started' \in Conns /\ Progress'
<1>0. attempt \in [Conns -> Attempts] /\ started \in Conns /\ Progress
  BY RabbitTypes DEF RabbitTyped
<1>1. CASE UNCHANGED <<attempt, started>>
  BY <1>0, <1>1 DEF Progress
<1>2. CASE TimerFires
  <2>1. PICK s \in Conns : s = started + 1 /\ s = started'
    BY <1>0, <1>2, RabbitAssumption DEF TimerFires, Conns
  <2>2. attempt[s].at # "done" /\ attempt' = [attempt EXCEPT ![s].at = "connecting"]
    BY <1>0, <1>2, <2>1 DEF TimerFires, Progress, Conns
  <2>3. \A i \in Conns : /\ attempt[i].at # "done" => attempt[i].next <= NumQueues
                         /\ i > s => attempt[i].at = "none"
    BY <1>0, <2>1 DEF Progress, Conns
  <2>4. "connecting" \in Steps \ {"none"} /\ s <= s
    BY DEF Steps, Ends, Conns
  <2>5. /\ attempt' \in [Conns -> Attempts]
        /\ \A i \in Conns : /\ attempt'[i].at # "done" => attempt'[i].next <= NumQueues
                            /\ i > s => attempt'[i].at = "none"
    BY <1>0, <2>2, <2>3, <2>4, AttemptMoves
  <2> QED
    BY <2>1, <2>5 DEF Progress
<1>3. ASSUME NEW j \in Conns, started' = started, attempt[j].at \notin {"none", "done"},
             NEW to \in Steps \ {"none"}, Moves(j, to)
      PROVE  attempt' \in [Conns -> Attempts] /\ started' \in Conns /\ Progress'
  <2>1. PICK s \in Conns : s = started
    BY <1>0
  <2>2. j <= s
    BY <1>0, <1>3, <2>1 DEF Progress, Conns
  <2>3. \A i \in Conns : /\ attempt[i].at # "done" => attempt[i].next <= NumQueues
                         /\ i > s => attempt[i].at = "none"
    BY <1>0, <2>1 DEF Progress
  <2>4. /\ attempt' \in [Conns -> Attempts]
        /\ \A i \in Conns : /\ attempt'[i].at # "done" => attempt'[i].next <= NumQueues
                            /\ i > s => attempt'[i].at = "none"
    BY <1>0, <1>3, <2>2, <2>3, AttemptMoves DEF Moves
  <2> QED
    BY <1>3, <2>1, <2>4 DEF Progress
<1>4. ASSUME NEW j \in Conns, StartConsumer(j)
      PROVE  attempt' \in [Conns -> Attempts] /\ started' \in Conns /\ Progress'
  <2> DEFINE n == attempt[j].next
  <2> DEFINE rec == [at |-> IF n = NumQueues THEN "done" ELSE "listening", next |-> n + 1]
  <2>1. /\ attempt[j].at = "listening" /\ started' = started
        /\ attempt' = [attempt EXCEPT ![j] = rec]
    BY <1>4 DEF StartConsumer
  <2>2. n \in 1..NumQueues
    BY <1>0, <2>1, RabbitAssumption DEF Progress, Attempts
  <2>3. rec \in Attempts
    BY <2>2, RabbitAssumption DEF Attempts, Steps, Ends
  <2>4. /\ attempt' \in [Conns -> Attempts]
        /\ \A i \in Conns : attempt'[i] = IF i = j THEN rec ELSE attempt[i]
    BY <1>0, <2>1, <2>3
  <2>5. rec.at # "done" => rec.next <= NumQueues
    BY <2>2, RabbitAssumption
  <2>6. ~(j > started)
    BY <1>0, <2>1 DEF Progress
  <2> QED
    BY <1>0, <2>1, <2>4, <2>5, <2>6 DEF Progress
<1> QED
  BY <1>1, <1>2, <1>3, <1>4

\* What the steps leave of connections and consumers.
LEMMA LinkStep ==
  ASSUME RabbitTyped, RabbitNext
  PROVE  /\ link' \in [Conns -> {"none", "open", "down"}]
         /\ chan' \in [Conns -> {"none", "open", "down"}]
         /\ pending' \subseteq Conns
         /\ served' \in [Conns -> [Queues -> Nat]]
<1>0. /\ link \in [Conns -> {"none", "open", "down"}]
      /\ chan \in [Conns -> {"none", "open", "down"}]
      /\ pending \subseteq Conns /\ served \in [Conns -> [Queues -> Nat]]
      /\ channel \in 0..MaxConns /\ connection \in 0..MaxConns
      /\ channel # 0 => channel \in Conns
      /\ attempt \in [Conns -> Attempts] /\ Progress
  BY RabbitTypes, RabbitAssumption DEF RabbitTyped, Conns
<1>1. ASSUME NEW f \in [Conns -> {"none", "open", "down"}], NEW i
      PROVE  Down(i, f) \in [Conns -> {"none", "open", "down"}]
  BY DEF Down
<1>2. CASE TimerFires
  BY <1>0, <1>2 DEF TimerFires
<1>3. CASE CloseChannel
  BY <1>0, <1>1, <1>3 DEF CloseChannel
<1>4. CASE CloseConnection
  BY <1>0, <1>1, <1>4 DEF CloseConnection
<1>5. ASSUME NEW i \in Conns, Connected(i) \/ CreateConfirmChannel(i) \/ TopologyReady(i)
      PROVE  UNCHANGED <<pending, served>>
             /\ link' \in [Conns -> {"none", "open", "down"}]
             /\ chan' \in [Conns -> {"none", "open", "down"}]
  BY <1>0, <1>5 DEF Connected, CreateConfirmChannel, TopologyReady
<1>6. ASSUME NEW i \in Conns, StartConsumer(i)
      PROVE  UNCHANGED <<link, chan, pending>> /\ served' \in [Conns -> [Queues -> Nat]]
  <2>1. PICK c \in Conns : c = channel
    BY <1>0, <1>6 DEF StartConsumer
  <2>2. PICK q \in Queues : q = attempt[i].next
    <3>1. attempt[i].next \in 1..NumQueues + 1 /\ attempt[i].next <= NumQueues
      BY <1>0, <1>6 DEF StartConsumer, Progress, Attempts
    <3> QED
      BY <3>1, RabbitAssumption DEF Queues
  <2>3. served' = [served EXCEPT ![c][q] = @ + 1]
    BY <1>6, <2>1, <2>2 DEF StartConsumer
  <2>4. [served[c] EXCEPT ![q] = @ + 1] \in [Queues -> Nat]
    BY <1>0
  <2> QED
    BY <1>0, <1>6, <2>3, <2>4 DEF StartConsumer
<1>7. ASSUME NEW i \in Conns, ConnectFails(i)
      PROVE  /\ UNCHANGED <<link, served>> /\ pending' \subseteq Conns
             /\ chan' \in [Conns -> {"none", "open", "down"}]
  BY <1>0, <1>7 DEF ConnectFails
<1>8. ASSUME NEW i \in Conns, ChannelBreaks(i) \/ ConnectionBreaks(i) \/ Emit(i)
      PROVE  /\ served' = served /\ pending' \subseteq Conns
             /\ link' \in [Conns -> {"none", "open", "down"}]
             /\ chan' \in [Conns -> {"none", "open", "down"}]
  BY <1>0, <1>1, <1>8 DEF ChannelBreaks, ConnectionBreaks, Emit
<1> QED
  BY <1>0, <1>2, <1>3, <1>4, <1>5, <1>6, <1>7, <1>8 DEF RabbitNext, Running, Connecting

LEMMA FlagStep ==
  ASSUME RabbitTyped, RabbitNext
  PROVE  /\ channel' \in 0..MaxConns /\ connection' \in 0..MaxConns
         /\ healthy' \in BOOLEAN /\ reconnecting' \in BOOLEAN /\ timer' \in BOOLEAN
         /\ faults' \in 0..MaxFaults /\ phase' \in {"up", "closing", "exited"}
<1>0. /\ channel \in 0..MaxConns /\ connection \in 0..MaxConns
      /\ healthy \in BOOLEAN /\ reconnecting \in BOOLEAN /\ timer \in BOOLEAN
      /\ faults \in 0..MaxFaults /\ phase \in {"up", "closing", "exited"}
      /\ 0 \in 0..MaxConns /\ \A i \in Conns : i \in 0..MaxConns
      /\ (timer \/ ~reconnecting) \in BOOLEAN
  BY RabbitTypes, RabbitAssumption DEF RabbitTyped, Conns
<1>1. ASSUME HandleDisconnect
      PROVE  /\ channel' \in 0..MaxConns /\ connection' \in 0..MaxConns
             /\ healthy' \in BOOLEAN /\ reconnecting' \in BOOLEAN /\ timer' \in BOOLEAN
  BY <1>0, <1>1 DEF HandleDisconnect
<1>2. ASSUME faults < MaxFaults, faults' = faults + 1 PROVE faults' \in 0..MaxFaults
  BY <1>0, <1>2, RabbitAssumption
<1>3. CASE TimerFires \/ CloseChannel \/ CloseConnection
  BY <1>0, <1>3 DEF TimerFires, CloseChannel, CloseConnection
<1>4. ASSUME NEW i \in Conns,
             Connected(i) \/ CreateConfirmChannel(i) \/ TopologyReady(i) \/ StartConsumer(i)
      PROVE  /\ channel' \in 0..MaxConns /\ connection' \in 0..MaxConns
             /\ healthy' \in BOOLEAN /\ UNCHANGED <<reconnecting, timer, faults, phase>>
  BY <1>0, <1>4 DEF Connected, CreateConfirmChannel, TopologyReady, StartConsumer
<1>5. ASSUME NEW i \in Conns, ConnectFails(i)
      PROVE  HandleDisconnect /\ faults' \in 0..MaxFaults /\ phase' = phase
  BY <1>0, <1>2, <1>5 DEF ConnectFails
<1>6. ASSUME NEW i \in Conns, Emit(i) PROVE HandleDisconnect /\ UNCHANGED <<faults, phase>>
  BY <1>6 DEF Emit
<1>7. ASSUME NEW i \in Conns, ChannelBreaks(i) \/ ConnectionBreaks(i)
      PROVE  /\ faults' \in 0..MaxFaults
             /\ UNCHANGED <<channel, connection, healthy, reconnecting, timer, phase>>
  BY <1>2, <1>7 DEF ChannelBreaks, ConnectionBreaks
<1> QED
  BY <1>0, <1>1, <1>3, <1>4, <1>5, <1>6, <1>7 DEF RabbitNext, Running, Connecting

LEMMA RabbitTypedStep == RabbitTyped /\ [RabbitNext]_rabbitVars => RabbitTyped'
<1> SUFFICES ASSUME RabbitTyped, [RabbitNext]_rabbitVars PROVE RabbitTyped'
  OBVIOUS
<1>1. CASE UNCHANGED rabbitVars
  BY <1>1 DEF RabbitTyped, RabbitTypeOK, Progress, rabbitVars
<1>2. CASE RabbitNext
  <2>1. \/ UNCHANGED <<attempt, started>>
        \/ TimerFires
        \/ \E i \in Conns : /\ started' = started /\ attempt[i].at \notin {"none", "done"}
                            /\ \E to \in Steps \ {"none"} : Moves(i, to)
        \/ \E i \in Conns : StartConsumer(i)
    <3>1. {"creating", "topology", "listening", "failed"} \subseteq Steps \ {"none"}
      BY DEF Steps, Ends
    <3>2. ASSUME NEW i \in Conns, Connected(i) \/ CreateConfirmChannel(i) \/ TopologyReady(i)
          PROVE  /\ started' = started /\ attempt[i].at \notin {"none", "done"}
                 /\ \E to \in Steps \ {"none"} : Moves(i, to)
      BY <3>1, <3>2 DEF Connected, CreateConfirmChannel, TopologyReady, Goes, Moves
    <3>3. ASSUME NEW i \in Conns, ConnectFails(i)
          PROVE  /\ started' = started /\ attempt[i].at \notin {"none", "done"}
                 /\ \E to \in Steps \ {"none"} : Moves(i, to)
      BY <3>1, <3>3 DEF ConnectFails, Ends, Moves
    <3>4. CASE CloseChannel \/ CloseConnection
      BY <3>4 DEF CloseChannel, CloseConnection
    <3>5. ASSUME NEW i \in Conns, ChannelBreaks(i) \/ ConnectionBreaks(i) \/ Emit(i)
          PROVE  UNCHANGED <<attempt, started>>
      BY <3>5 DEF ChannelBreaks, ConnectionBreaks, Emit
    <3> QED
      BY <1>2, <3>2, <3>3, <3>4, <3>5 DEF RabbitNext, Running, Connecting
  <2>2. attempt' \in [Conns -> Attempts] /\ started' \in Conns /\ Progress'
    BY <2>1, AttemptStep
  <2>3. (RabbitTypeOK)'
    BY <1>2, <2>2, LinkStep, FlagStep DEF RabbitTypeOK, Attempts, Steps
  <2> QED
    BY <2>2, <2>3 DEF RabbitTyped
<1> QED
  BY <1>1, <1>2

LEMMA RabbitInitTyped == RabbitInit => RabbitTyped
<1> SUFFICES ASSUME RabbitInit PROVE RabbitTyped
  OBVIOUS
<1>2. attempt \in [Conns -> Attempts]
  BY RabbitAssumption DEF RabbitInit, Attempts, Steps, Ends
<1>3. started = 1 /\ 1 \in Conns
  BY RabbitAssumption DEF RabbitInit, Conns
<1>4. Progress
  <2>1. ASSUME NEW i \in Conns
        PROVE  attempt[i].next = 1 /\ (i # 1 => attempt[i].at = "none")
    <3>1. CASE i = 1
      <4>1. attempt[i] = [at |-> "connecting", next |-> 1]
        BY <3>1 DEF RabbitInit
      <4> QED
        BY <3>1, <4>1
    <3>2. CASE i # 1
      <4>1. attempt[i] = [at |-> "none", next |-> 1]
        BY <3>2 DEF RabbitInit
      <4> QED
        BY <4>1
    <3> QED
      BY <3>1, <3>2
  <2>2. 1 <= NumQueues /\ \A i \in Conns : i > 1 => i # 1
    BY RabbitAssumption DEF Conns
  <2> QED
    BY <1>3, <2>1, <2>2 DEF Progress
<1>5. /\ channel \in 0..MaxConns /\ connection \in 0..MaxConns /\ faults \in 0..MaxFaults
  BY RabbitAssumption DEF RabbitInit
<1>6. /\ link \in [Conns -> {"none", "open", "down"}]
      /\ chan \in [Conns -> {"none", "open", "down"}]
      /\ served \in [Conns -> [Queues -> Nat]] /\ pending = {} /\ phase = "up"
      /\ healthy = FALSE /\ reconnecting = FALSE /\ timer = FALSE
  BY DEF RabbitInit
<1> QED
  BY <1>2, <1>3, <1>4, <1>5, <1>6, RabbitTypes DEF RabbitTyped

-----------------------------------------------------------------------------
(* The room page: the elements of queues, and the socket.                  *)


Elems(s) == {s[i] : i \in DOMAIN s}

LEMMA AppendFacts ==
  ASSUME NEW S, NEW s \in Seq(S), NEW x \in S
  PROVE  /\ Append(s, x) \in Seq(S) /\ Append(s, x) # <<>>
         /\ Len(s) \in Nat /\ DOMAIN s = 1..Len(s) /\ DOMAIN Append(s, x) = 1..Len(s) + 1
         /\ \A i \in 1..Len(s) : Append(s, x)[i] = s[i]
         /\ Append(s, x)[Len(s) + 1] = x /\ Len(Append(s, x)) = Len(s) + 1
  OBVIOUS

LEMMA ElemsAppend ==
  ASSUME NEW S, NEW s \in Seq(S), NEW x \in S
  PROVE  /\ Append(s, x) \in Seq(S) /\ Append(s, x) # <<>>
         /\ Elems(Append(s, x)) = Elems(s) \cup {x}
<1>1. /\ Len(s) \in Nat /\ DOMAIN s = 1..Len(s) /\ DOMAIN Append(s, x) = 1..Len(s) + 1
      /\ \A i \in 1..Len(s) : Append(s, x)[i] = s[i]
      /\ Append(s, x)[Len(s) + 1] = x
  OBVIOUS
<1> QED
  BY <1>1 DEF Elems

LEMMA ElemsConcat ==
  ASSUME NEW S, NEW s \in Seq(S), NEW t \in Seq(S)
  PROVE  s \o t \in Seq(S) /\ Elems(s \o t) = Elems(s) \cup Elems(t)
<1>1. /\ Len(s) \in Nat /\ Len(t) \in Nat /\ DOMAIN s = 1..Len(s) /\ DOMAIN t = 1..Len(t)
      /\ DOMAIN (s \o t) = 1..Len(s) + Len(t)
      /\ \A i \in 1..Len(s) : (s \o t)[i] = s[i]
      /\ \A i \in 1..Len(t) : (s \o t)[Len(s) + i] = t[i]
  OBVIOUS
<1>2. \A i \in 1..Len(s) + Len(t) : i \in 1..Len(s) \/ i - Len(s) \in 1..Len(t)
  BY <1>1
<1>3. \A i \in 1..Len(s) + Len(t) : i \in 1..Len(s) \/ (s \o t)[i] = t[i - Len(s)]
  OBVIOUS
<1>4. Elems(s \o t) \subseteq Elems(s) \cup Elems(t)
  BY <1>1, <1>2, <1>3 DEF Elems
<1>5. \A i \in 1..Len(t) : Len(s) + i \in 1..Len(s) + Len(t)
  BY <1>1
<1>6. Elems(s) \subseteq Elems(s \o t) /\ Elems(t) \subseteq Elems(s \o t)
  <2>1. \A i \in 1..Len(t) : t[i] \in Elems(s \o t)
    BY <1>1, <1>5 DEF Elems
  <2>2. \A i \in 1..Len(s) : s[i] \in Elems(s \o t)
    <3>1. \A i \in 1..Len(s) : i \in 1..Len(s) + Len(t)
      BY <1>1
    <3> QED
      BY <1>1, <3>1 DEF Elems
  <2> QED
    BY <1>1, <2>1, <2>2 DEF Elems
<1> QED
  BY <1>4, <1>6

LEMMA ElemsTail ==
  ASSUME NEW S, NEW s \in Seq(S), s # <<>>
  PROVE  /\ Tail(s) \in Seq(S) /\ Head(s) \in S
         /\ Elems(s) = {Head(s)} \cup Elems(Tail(s))
         /\ Len(Tail(s)) = Len(s) - 1 /\ Len(s) \in Nat \ {0}
         /\ DOMAIN s = 1..Len(s) /\ DOMAIN Tail(s) = 1..Len(s) - 1
         /\ \A i \in 1..Len(s) - 1 : Tail(s)[i] = s[i + 1]
<1>1. /\ Tail(s) \in Seq(S) /\ Head(s) \in S /\ Head(s) = s[1]
      /\ Len(Tail(s)) = Len(s) - 1 /\ Len(s) \in Nat \ {0}
      /\ DOMAIN s = 1..Len(s) /\ DOMAIN Tail(s) = 1..Len(s) - 1
      /\ \A i \in 1..Len(s) - 1 : Tail(s)[i] = s[i + 1]
  OBVIOUS
<1>2. \A i \in 1..Len(s) : i = 1 \/ (i - 1 \in 1..Len(s) - 1 /\ s[i] = Tail(s)[i - 1])
  BY <1>1
<1>3. Elems(s) \subseteq {Head(s)} \cup Elems(Tail(s))
  <2> SUFFICES ASSUME NEW i \in 1..Len(s), i # 1 PROVE s[i] \in Elems(Tail(s))
    BY <1>1 DEF Elems
  <2> QED
    BY <1>1, <1>2 DEF Elems
<1>4. {Head(s)} \cup Elems(Tail(s)) \subseteq Elems(s)
  BY <1>1 DEF Elems
<1> QED
  BY <1>1, <1>3, <1>4

LEMMA ElemsEmpty == Elems(<<>>) = {}
  BY DEF Elems

LEMMA HandshakeElems ==
  ASSUME NEW r \in Rooms
  PROVE  /\ Handshake(r) \in Seq(Frames)
         /\ Elems(Handshake(r)) = {[type |-> "room:join", room |-> r],
                                   [type |-> "canvas:sync", room |-> r]}
<1>1. /\ [type |-> "room:join", room |-> r] \in Frames
      /\ [type |-> "canvas:sync", room |-> r] \in Frames
  BY DEF Frames
<1>2. DOMAIN Handshake(r) = {1, 2}
  BY DEF Handshake
<1>3. /\ Handshake(r)[1] = [type |-> "room:join", room |-> r]
      /\ Handshake(r)[2] = [type |-> "canvas:sync", room |-> r]
  BY DEF Handshake
<1> QED
  BY <1>1, <1>2, <1>3 DEF Elems, Handshake

Clients == [room : Rooms \cup {NoRoom}, authorized : BOOLEAN, queue : Seq(Frames)]

LEMMA Unauthorized ==
  ASSUME NEW c \in Clients
  PROVE  LET d == [c EXCEPT !.authorized = FALSE]
         IN d \in Clients /\ ~d.authorized /\ d.room = c.room /\ d.queue = c.queue
  BY DEF Clients

LEMMA Authorized ==
  ASSUME NEW c \in Clients
  PROVE  LET d == [c EXCEPT !.authorized = TRUE, !.queue = <<>>]
         IN d \in Clients /\ d.room = c.room /\ d.queue = <<>> /\ d.authorized
<1>1. <<>> \in Seq(Frames)
  OBVIOUS
<1> QED
  BY <1>1 DEF Clients

LEMMA Queued ==
  ASSUME NEW c \in Clients, NEW q \in Seq(Frames)
  PROVE  LET d == [c EXCEPT !.queue = @ \o q]
         IN /\ d \in Clients
            /\ d.authorized = c.authorized /\ d.room = c.room /\ d.queue = c.queue \o q
<1>1. c.queue \o q \in Seq(Frames)
  BY DEF Clients
<1> QED
  BY <1>1 DEF Clients

LEMMA FreshClient ==
  ASSUME NEW r \in Rooms
  PROVE  LET d == [room |-> r, authorized |-> FALSE, queue |-> <<>>]
         IN d \in Clients /\ ~d.authorized /\ d.room = r /\ d.queue = <<>>
  BY DEF Clients

Answers == {"auth:ok", "room:joined", "canvas:load", "not a member", "closed", "closed 4401"}

Peers == [authenticated : BOOLEAN, rooms : SUBSET Rooms]

SocketTyped ==
  /\ client \in Clients
  /\ ws \in {"none", "connecting", "open", "closed"}
  /\ toServer \in Seq(Frames)
  /\ toClient \in Seq(Answers)
  /\ peer \in Peers

ViewTyped ==
  /\ page \in Rooms \cup {NoRoom} /\ waiting \in BOOLEAN /\ approved \in BOOLEAN
  /\ crossed \in BOOLEAN /\ retried \in BOOLEAN
  /\ notice \in {"none", "join failed", "sign in"}
  /\ status \in {"disconnected", "connecting", "connected"}
  /\ tokens \subseteq Pages /\ timers \subseteq Pages /\ joining \subseteq Pages
  /\ member \in [Rooms -> {"no", "pending", "yes"}]
  /\ visits \in 0..MaxVisits /\ troubles \in 0..MaxTroubles

LEMMA PageTypeParts == PageTypeOK <=> SocketTyped /\ ViewTyped
  BY DEF PageTypeOK, SocketTyped, ViewTyped, Clients, Answers, Peers

\* Another connection begins, or there is none.
Fresh ==
  /\ ws' \in {"none", "connecting"} /\ ~client'.authorized /\ client'.queue = <<>>
  /\ client'.room = NoRoom <=> ws' = "none"
  /\ toServer' = <<>> /\ toClient' = <<>> /\ peer' = NoPeer

LEMMA NoPeerTyped == NoPeer \in Peers /\ ~NoPeer.authenticated /\ NoPeer.rooms = {}
  BY DEF NoPeer, Peers

LEMMA ConnectEffect ==
  ASSUME SocketTyped, NEW r \in Rooms, Connect(r)
  PROVE  /\ SocketTyped'
         /\ client'.room = r /\ ws' \in {"connecting", "open"}
         /\ \/ UNCHANGED socketVars
            \/ Fresh /\ ws' = "connecting" /\ (ws \in {"connecting", "open"} => client.room # r)
<1>1. CASE ws \in {"connecting", "open"} /\ client.room = r
  BY <1>1 DEF Connect, socketVars, SocketTyped
<1>2. CASE ~(ws \in {"connecting", "open"} /\ client.room = r)
  <2>1. /\ client' = [room |-> r, authorized |-> FALSE, queue |-> <<>>]
        /\ ws' = "connecting" /\ peer' = NoPeer /\ toServer' = <<>> /\ toClient' = <<>>
    BY <1>2 DEF Connect
  <2>2. client' \in Clients /\ ~client'.authorized /\ client'.room = r /\ client'.queue = <<>>
    BY <2>1, FreshClient
  <2>3. <<>> \in Seq(Frames) /\ <<>> \in Seq(Answers)
    OBVIOUS
  <2>4. SocketTyped'
    BY <2>1, <2>2, <2>3, NoPeerTyped DEF SocketTyped
  <2> QED
    BY <1>2, <2>1, <2>2, <2>4, PageAssumption DEF Fresh
<1> QED
  BY <1>1, <1>2

LEMMA DisconnectEffect ==
  ASSUME Disconnect
  PROVE  SocketTyped' /\ Fresh /\ client' = NoClient /\ client'.room = NoRoom /\ ws' = "none"
<1>1. /\ NoClient \in Clients
      /\ ~NoClient.authorized /\ NoClient.room = NoRoom /\ NoClient.queue = <<>>
  BY DEF NoClient, Clients
<1>2. <<>> \in Seq(Frames) /\ <<>> \in Seq(Answers)
  OBVIOUS
<1> QED
  BY <1>1, <1>2, NoPeerTyped DEF Disconnect, SocketTyped, Fresh

\* What is said goes out on an authorized socket, and waits otherwise.
Says(frames) ==
  /\ client'.room = client.room /\ client'.authorized = client.authorized
  /\ \/ /\ client.authorized /\ ws = "open" /\ client' = client
        /\ Elems(toServer') = Elems(toServer) \cup Elems(frames)
     \/ /\ ~(client.authorized /\ ws = "open") /\ toServer' = toServer
        /\ Elems(client'.queue) = Elems(client.queue) \cup Elems(frames)

LEMMA SendAllEffect ==
  ASSUME SocketTyped, UNCHANGED <<ws, toClient, peer>>, NEW q \in Seq(Frames), SendAll(q)
  PROVE  SocketTyped' /\ Says(q)
<1>1. CASE client.authorized /\ ws = "open"
  <2>1. toServer' = toServer \o q /\ client' = client
    BY <1>1 DEF SendAll
  <2>2. toServer' \in Seq(Frames) /\ Elems(toServer') = Elems(toServer) \cup Elems(q)
    BY <2>1, ElemsConcat DEF SocketTyped
  <2> QED
    BY <1>1, <2>1, <2>2 DEF SocketTyped, Says
<1>2. CASE ~(client.authorized /\ ws = "open")
  <2>1. client' = [client EXCEPT !.queue = @ \o q] /\ toServer' = toServer
    BY <1>2 DEF SendAll
  <2>2. client \in Clients /\ client.queue \in Seq(Frames)
    BY DEF SocketTyped, Clients
  <2>3. /\ client' \in Clients /\ client'.authorized = client.authorized
        /\ client'.room = client.room /\ client'.queue = client.queue \o q
    BY <2>1, <2>2, Queued
  <2>4. Elems(client'.queue) = Elems(client.queue) \cup Elems(q)
    BY <2>2, <2>3, ElemsConcat
  <2> QED
    BY <1>2, <2>1, <2>3, <2>4 DEF SocketTyped, Says
<1> QED
  BY <1>1, <1>2

LEMMA HereTyped ==
  ASSUME ViewTyped, page # NoRoom, visits \in 1..MaxVisits PROVE Here \in Pages
  BY DEF ViewTyped, Here, Pages

Visited ==
  /\ page # NoRoom => visits \in 1..MaxVisits
  /\ waiting => page # NoRoom

LEMMA TroubleTyped ==
  ASSUME troubles \in 0..MaxTroubles, UNCHANGED troubles \/ Trouble
  PROVE  troubles' \in 0..MaxTroubles
  BY PageAssumption DEF Trouble

LEMMA ConnectSocketView ==
  ASSUME ViewTyped, NEW p \in Pages, ConnectSocket(p)
  PROVE  status' \in {"disconnected", "connecting", "connected"} /\ troubles' \in 0..MaxTroubles
<1>1. troubles \in 0..MaxTroubles
  BY DEF ViewTyped
<1> QED
  BY <1>1, TroubleTyped DEF ConnectSocket

LEMMA ViewTypeStep ==
  ASSUME ViewTyped, Visited, PageNext
  PROVE  ViewTyped' /\ Visited'
<1>0. /\ \A x, y : (x \/ y) \in BOOLEAN
      /\ \A p \in Pages : p.room \in Rooms /\ p.visit \in 1..MaxVisits
      /\ page # NoRoom => Here \in Pages
      /\ troubles \in 0..MaxTroubles
  BY HereTyped DEF Pages, Visited, ViewTyped
<1>1. CASE PollRooms
  BY <1>0, <1>1 DEF PollRooms, ViewTyped, Visited
<1>2. CASE SocketOpens
  BY <1>2 DEF SocketOpens, viewVars, callVars, ViewTyped, Visited
<1>3. CASE AuthOk
  BY <1>3 DEF AuthOk, callVars, ViewTyped, Visited
<1>4. CASE CanvasLoad
  BY <1>4 DEF CanvasLoad, callVars, ViewTyped, Visited
<1>5. CASE NotAMember
  BY <1>0, <1>5 DEF NotAMember, viewVars, ViewTyped, Visited
<1>6. CASE SocketCloses \/ SocketFails
  <2>1. troubles' \in 0..MaxTroubles
    BY <1>0, <1>6, TroubleTyped DEF SocketCloses, SocketFails
  <2>2. /\ timers' \subseteq Pages /\ status' \in {"disconnected", "connecting", "connected"}
        /\ UNCHANGED <<page, waiting, approved, crossed, retried, notice>>
    BY <1>0, <1>6 DEF SocketCloses, SocketFails, Reconnects, ViewTyped
  <2>3. UNCHANGED <<tokens, joining, member, visits>>
    BY <1>6 DEF SocketCloses, SocketFails
  <2> QED
    BY <2>1, <2>2, <2>3 DEF ViewTyped, Visited
<1>7. CASE AuthRefused
  <2>1. tokens' \subseteq Pages /\ timers' \subseteq Pages /\ joining' \subseteq Pages
    BY <1>0, <1>7 DEF AuthRefused, ViewTyped
  <2>2. /\ page' \in {page, NoRoom} /\ waiting' \in {waiting, FALSE}
        /\ approved' \in {approved, FALSE} /\ notice' \in {notice, "sign in"}
        /\ page' = page => UNCHANGED <<waiting, approved, notice>>
        /\ page' = NoRoom => waiting' = FALSE
        /\ retried' \in BOOLEAN
    BY <1>7, <1>0 DEF AuthRefused, ViewTyped, Visited
  <2>3. UNCHANGED <<crossed, status, member, visits, troubles>>
    BY <1>7 DEF AuthRefused
  <2> QED
    BY <2>1, <2>2, <2>3 DEF ViewTyped, Visited
<1>8. CASE ServerReads \/ SocketLost
  <2>1. troubles' \in 0..MaxTroubles
    BY <1>0, <1>8, TroubleTyped DEF ServerReads, SocketLost
  <2>2. UNCHANGED <<viewVars, callVars, member, visits>>
    BY <1>8 DEF ServerReads, SocketLost
  <2> QED
    BY <2>1, <2>2 DEF ViewTyped, Visited, viewVars, callVars
<1>9. ASSUME NEW p \in Pages, TokenArrives(p) \/ ReconnectTimer(p) PROVE ViewTyped' /\ Visited'
  <2>1. status' \in {"disconnected", "connecting", "connected"} /\ troubles' \in 0..MaxTroubles
    <3>1. CASE ConnectSocket(p)
      BY <3>1, ConnectSocketView
    <3>2. CASE UNCHANGED <<status, troubles>>
      BY <3>2, <1>0 DEF ViewTyped
    <3> QED
      BY <1>9, <3>1, <3>2 DEF TokenArrives, ReconnectTimer
  <2>2. crossed' \in BOOLEAN
    BY <1>0, <1>9 DEF TokenArrives, ReconnectTimer, ViewTyped
  <2>3. tokens' \subseteq tokens /\ timers' \subseteq timers
    BY <1>9 DEF TokenArrives, ReconnectTimer
  <2>4. UNCHANGED <<page, waiting, approved, retried, notice, joining, member, visits>>
    BY <1>9 DEF TokenArrives, ReconnectTimer
  <2> QED
    BY <2>1, <2>2, <2>3, <2>4 DEF ViewTyped, Visited
<1>10. ASSUME NEW p \in Pages, JoinAnswered(p) PROVE ViewTyped' /\ Visited'
  <2>1. member' \in [Rooms -> {"no", "pending", "yes"}]
    BY <1>0, <1>10 DEF JoinAnswered, ViewTyped
  <2>2. troubles' \in 0..MaxTroubles
    BY <1>0, <1>10, TroubleTyped DEF JoinAnswered
  <2>3. waiting' \in BOOLEAN /\ (waiting' => waiting \/ p = Here)
    <3>1. waiting' = waiting \/ waiting' = (waiting \/ p = Here)
      BY <1>10 DEF JoinAnswered
    <3>2. waiting \in BOOLEAN /\ (waiting \/ p = Here) \in BOOLEAN
      BY DEF ViewTyped
    <3>3. CASE waiting' = waiting
      BY <3>2, <3>3
    <3>4. CASE waiting' = (waiting \/ p = Here)
      <4>1. waiting' \in BOOLEAN
        BY <3>2, <3>4
      <4>2. waiting' <=> waiting \/ p = Here
        BY <3>4, Zenon
      <4> QED
        BY <4>1, <4>2
    <3> QED
      BY <3>1, <3>3, <3>4
  <2>4. crossed' \in BOOLEAN /\ notice' \in {"none", "join failed", "sign in"}
    BY <1>0, <1>10 DEF JoinAnswered, ViewTyped
  <2>5. /\ joining' \subseteq joining
        /\ UNCHANGED <<page, approved, retried, status, tokens, timers, visits>>
    BY <1>10 DEF JoinAnswered
  <2>6. p = Here => page # NoRoom
    BY <1>0, PageAssumption DEF Here
  <2> QED
    BY <2>1, <2>2, <2>3, <2>4, <2>5, <2>6 DEF ViewTyped, Visited
<1>11. CASE LeavePage
  BY <1>11 DEF LeavePage, callVars, ViewTyped, Visited
<1>12. CASE RetryConnection
  <2>1. status' \in {"disconnected", "connecting", "connected"} /\ troubles' \in 0..MaxTroubles
    <3>1. CASE ConnectSocket(Here)
      BY <3>1, <1>0, <1>12, ConnectSocketView DEF RetryConnection
    <3>2. CASE UNCHANGED <<status, troubles>>
      BY <3>2, <1>0 DEF ViewTyped
    <3> QED
      BY <1>12, <3>1, <3>2 DEF RetryConnection
  <2> QED
    BY <1>12, <2>1 DEF RetryConnection, callVars, ViewTyped, Visited
<1>13. ASSUME NEW r \in Rooms, OpenPage(r) PROVE ViewTyped' /\ Visited'
  <2>1. visits' \in 1..MaxVisits
    <3>1. visits < MaxVisits /\ visits' = visits + 1
      BY <1>13 DEF OpenPage
    <3>2. visits \in 0..MaxVisits
      BY DEF ViewTyped
    <3> QED
      BY <3>1, <3>2, PageAssumption
  <2>2. troubles' \in 0..MaxTroubles /\ status' \in {"disconnected", "connecting", "connected"}
    BY <1>0, <1>13, TroubleTyped DEF OpenPage, ConnectSocket
  <2>3. /\ page' = r /\ waiting' = FALSE /\ approved' = FALSE /\ retried' = FALSE
        /\ UNCHANGED <<crossed, notice, tokens, timers, joining, member>>
    BY <1>13 DEF OpenPage, callVars
  <2>4. visits' \in 0..MaxVisits
    BY <2>1
  <2>5. /\ page' \in Rooms \cup {NoRoom}
        /\ {waiting', approved', crossed', retried'} \subseteq BOOLEAN
    BY <2>3 DEF ViewTyped
  <2>6. ViewTyped'
    BY <2>2, <2>3, <2>4, <2>5 DEF ViewTyped
  <2> QED
    BY <2>1, <2>3, <2>6 DEF Visited
<1>14. ASSUME NEW r \in Rooms, Approve(r) \/ Kick(r) PROVE ViewTyped' /\ Visited'
  <2>1. troubles' \in 0..MaxTroubles
    BY <1>0, <1>14, TroubleTyped DEF Approve, Kick
  <2>2. approved' \in BOOLEAN
    BY <1>0, <1>14 DEF Approve, Kick, viewVars, ViewTyped
  <2>3. member' \in [Rooms -> {"no", "pending", "yes"}]
    BY <1>14 DEF Approve, Kick, ViewTyped
  <2>4. UNCHANGED <<page, waiting, crossed, retried, notice, status, callVars, visits>>
    BY <1>14 DEF Approve, Kick, viewVars
  <2> QED
    BY <2>1, <2>2, <2>3, <2>4 DEF ViewTyped, Visited, callVars
<1> QED
  BY <1>1, <1>2, <1>3, <1>4, <1>5, <1>6, <1>7, <1>8, <1>9, <1>10, <1>11, <1>12, <1>13, <1>14
  DEF PageNext, PageStep

-----------------------------------------------------------------------------
(* What is under way on a socket.                                          *)

Ended == {"closed", "closed 4401"}

\* The socket's frames belong to a connection that is open, and after the news of its end
\* nothing comes.
Alive ==
  /\ toClient # <<>> \/ toServer # <<>> \/ client.authorized => ws = "open"
  /\ \A i \in DOMAIN toClient : toClient[i] \in Ended => i = Len(toClient)

Accepted ==
  ~Dead /\ (client.authorized \/ "auth:ok" \in Elems(toClient)) => peer.authenticated

SocketInv == SocketTyped /\ Alive /\ Accepted /\ NothingBeforeAuth

LEMMA DeadElems ==
  /\ Dead <=> \E x \in Ended : x \in Elems(toClient)
  /\ Dead' <=> \E x \in Ended : x \in Elems(toClient')
  BY DEF Dead, Elems, Ended

LEMMA NothingElems ==
  NothingBeforeAuth <=>
    (~Dead => \A f \in Elems(toServer) : f.type # "auth" => peer.authenticated)
  BY DEF NothingBeforeAuth, Elems

\* The socket's step, whoever takes it.
Speaks == UNCHANGED <<ws, toClient, peer>> /\ \E r \in Rooms : Says(Handshake(r))

Hears == CanvasLoad \/ NotAMember

SocketStep ==
  \/ UNCHANGED socketVars
  \/ SocketTyped' /\ (Fresh \/ Speaks)
  \/ SocketOpens \/ SocketFails \/ AuthOk \/ Hears \/ SocketCloses \/ AuthRefused
  \/ ServerReads \/ SocketLost

LEMMA SocketSteps ==
  ASSUME SocketTyped, ViewTyped, Visited, PageNext
  PROVE  SocketStep
<1>0. \A p \in Pages : p.room \in Rooms
  BY DEF Pages
<1>1. ASSUME NEW p \in Pages, ConnectSocket(p) PROVE SocketStep
  <2>1. Connect(p.room) \/ UNCHANGED socketVars
    BY <1>1 DEF ConnectSocket
  <2> QED
    BY <1>0, <2>1, ConnectEffect DEF SocketStep
<1>2. ASSUME NEW r \in Rooms, SendAll(Handshake(r)), UNCHANGED <<ws, toClient, peer>>
      PROVE  SocketStep
  BY <1>2, HandshakeElems, SendAllEffect DEF SocketStep, Speaks
<1>3. ASSUME NEW p \in Pages, TokenArrives(p) \/ ReconnectTimer(p) PROVE SocketStep
  BY <1>1, <1>3 DEF TokenArrives, ReconnectTimer, SocketStep
<1>4. ASSUME NEW p \in Pages, JoinAnswered(p) PROVE SocketStep
  BY <1>0, <1>2, <1>4 DEF JoinAnswered, SocketStep
<1>5. CASE RetryConnection
  <2>1. page \in Rooms /\ Here \in Pages
    BY <1>5, HereTyped DEF RetryConnection, ViewTyped, Visited
  <2> QED
    BY <1>1, <1>2, <1>5, <2>1 DEF RetryConnection
<1>6. ASSUME NEW r \in Rooms, OpenPage(r) PROVE SocketStep
  <2>1. Connect(r) \/ UNCHANGED socketVars
    BY <1>6 DEF OpenPage, ConnectSocket, Here
  <2> QED
    BY <2>1, ConnectEffect DEF SocketStep
<1>7. CASE LeavePage
  BY <1>7, DisconnectEffect DEF LeavePage, SocketStep
<1>8. CASE PollRooms \/ \E r \in Rooms : Approve(r) \/ Kick(r)
  BY <1>8 DEF PollRooms, Approve, Kick, SocketStep
<1> QED
  BY <1>3, <1>4, <1>5, <1>6, <1>7, <1>8 DEF PageNext, PageStep, SocketStep, Hears

EndsLast(s) == \A i \in DOMAIN s : s[i] \in Ended => i = Len(s)

LEMMA EndsTail ==
  ASSUME NEW s \in Seq(Answers), s # <<>>, EndsLast(s)
  PROVE  EndsLast(Tail(s)) /\ (Head(s) \in Ended => Tail(s) = <<>>)
<1> DEFINE n == Len(s)
<1> DEFINE t == Tail(s)
<1>1. /\ t \in Seq(Answers) /\ Head(s) = s[1]
      /\ Len(t) = n - 1 /\ n \in Nat \ {0}
      /\ DOMAIN s = 1..n /\ DOMAIN t = 1..n - 1
      /\ \A i \in 1..n - 1 : t[i] = s[i + 1]
  BY ElemsTail
<1>2. \A i \in 1..n : s[i] \in Ended => i = n
  BY <1>1 DEF EndsLast
<1>3. n = 1 => t = <<>>
  BY <1>1
<1> HIDE DEF n, t
<1>4. EndsLast(t)
  <2> SUFFICES ASSUME NEW i \in 1..n - 1, t[i] \in Ended PROVE i = n - 1
    BY <1>1 DEF EndsLast
  <2>1. i + 1 \in 1..n /\ s[i + 1] \in Ended
    BY <1>1
  <2> QED
    BY <1>1, <1>2, <2>1
<1>5. ASSUME Head(s) \in Ended PROVE t = <<>>
  <2>1. 1 \in 1..n
    BY <1>1
  <2> QED
    BY <1>1, <1>2, <1>3, <1>5, <2>1
<1> QED
  BY <1>4, <1>5 DEF t

LEMMA EndsAppend ==
  ASSUME NEW s \in Seq(Answers), NEW x \in Answers, \A y \in Elems(s) : y \notin Ended
  PROVE  EndsLast(Append(s, x))
<1>1. /\ Len(s) \in Nat /\ DOMAIN s = 1..Len(s) /\ DOMAIN Append(s, x) = 1..Len(s) + 1
      /\ \A i \in 1..Len(s) : Append(s, x)[i] = s[i]
      /\ Len(Append(s, x)) = Len(s) + 1
  OBVIOUS
<1>2. \A i \in 1..Len(s) : Append(s, x)[i] \notin Ended
  BY <1>1 DEF Elems
<1>3. \A i \in 1..Len(s) + 1 : i \in 1..Len(s) \/ i = Len(s) + 1
  BY <1>1
<1> QED
  BY <1>1, <1>2, <1>3 DEF EndsLast

LEMMA AliveEnds ==
  Alive <=> /\ toClient # <<>> \/ toServer # <<>> \/ client.authorized => ws = "open"
            /\ EndsLast(toClient)
  BY DEF Alive, EndsLast

LEMMA EmptyElems ==
  ASSUME NEW S, NEW s \in Seq(S) PROVE s = <<>> <=> Elems(s) = {}
<1>1. CASE s = <<>>
  BY <1>1, ElemsEmpty
<1>2. CASE s # <<>>
  <2>1. Elems(s) = {Head(s)} \cup Elems(Tail(s))
    BY <1>2, ElemsTail
  <2>2. Head(s) \in Elems(s)
    BY <2>1
  <2> QED
    BY <1>2, <2>2
<1> QED
  BY <1>1, <1>2

LEMMA Taken ==
  ASSUME SocketTyped, Alive, NEW x, Receives(x)
  PROVE  /\ ws = "open" /\ x \in Answers
         /\ toClient' \in Seq(Answers) /\ Elems(toClient) = {x} \cup Elems(toClient')
         /\ EndsLast(toClient') /\ (x \in Ended => toClient' = <<>> /\ Elems(toClient') = {})
<1>1. toClient # <<>> /\ toClient' = Tail(toClient) /\ x = Head(toClient)
  BY DEF Receives
<1>2. toClient \in Seq(Answers) /\ EndsLast(toClient) /\ ws = "open"
  BY <1>1, AliveEnds DEF SocketTyped
<1> QED
  BY <1>1, <1>2, ElemsTail, EndsTail, ElemsEmpty

\* The invariant of a socket that no step has to be looked at for.
LEMMA SocketInvParts ==
  SocketInv <=> /\ SocketTyped /\ EndsLast(toClient)
                /\ toClient # <<>> \/ toServer # <<>> \/ client.authorized => ws = "open"
                /\ ~Dead /\ (client.authorized \/ "auth:ok" \in Elems(toClient)
                              \/ \E f \in Elems(toServer) : f.type # "auth")
                   => peer.authenticated
  BY AliveEnds, NothingElems DEF SocketInv, Accepted

LEMMA SocketInvNext ==
  SocketInv' <=> /\ SocketTyped' /\ EndsLast(toClient')
                 /\ toClient' # <<>> \/ toServer' # <<>> \/ client'.authorized => ws' = "open"
                 /\ ~Dead' /\ (client'.authorized \/ "auth:ok" \in Elems(toClient')
                                \/ \E f \in Elems(toServer') : f.type # "auth")
                    => peer'.authenticated
<1>1. (SocketInv <=>
         /\ SocketTyped /\ EndsLast(toClient)
         /\ toClient # <<>> \/ toServer # <<>> \/ client.authorized => ws = "open"
         /\ ~Dead /\ (client.authorized \/ "auth:ok" \in Elems(toClient)
                       \/ \E f \in Elems(toServer) : f.type # "auth")
            => peer.authenticated)'
  BY SocketInvParts, PTL
<1> QED
  BY <1>1

LEMMA SpeaksInv ==
  ASSUME SocketInv, SocketTyped', Fresh \/ Speaks
  PROVE  SocketInv'
<1>1. CASE Fresh
  <2>1. /\ Elems(toServer') = {} /\ Elems(toClient') = {} /\ EndsLast(toClient')
        /\ toServer' = <<>> /\ toClient' = <<>> /\ ~client'.authorized
    BY <1>1, ElemsEmpty DEF Fresh, EndsLast
  <2> QED
    BY <2>1, SocketInvParts, SocketInvNext
<1>2. ASSUME NEW r \in Rooms, Says(Handshake(r)), UNCHANGED <<ws, toClient, peer>>
      PROVE  SocketInv'
  <2>1. CASE client.authorized /\ ws = "open"
    <3>1. Dead' <=> Dead
      BY <1>2, DeadElems
    <3> QED
      BY <1>2, <2>1, <3>1, SocketInvParts, SocketInvNext DEF Says
  <2>2. CASE ~(client.authorized /\ ws = "open")
    <3>1. toServer' = toServer /\ client'.authorized = client.authorized
      BY <1>2, <2>2 DEF Says
    <3>2. Dead' <=> Dead
      BY <1>2, DeadElems
    <3> QED
      BY <1>2, <3>1, <3>2, SocketInvParts, SocketInvNext
  <2> QED
    BY <2>1, <2>2
<1> QED
  BY <1>1, <1>2 DEF Speaks

LEMMA OpensInv == ASSUME SocketInv, SocketOpens PROVE SocketInv'
<1> DEFINE f == [type |-> "auth", room |-> NoRoom]
<1>1. f \in Frames
  BY DEF Frames
<1>2. /\ ws = "connecting" /\ ws' = "open" /\ toServer' = <<f>>
      /\ UNCHANGED <<client, toClient, peer>>
  BY DEF SocketOpens
<1>3. toServer' \in Seq(Frames) /\ Elems(toServer') = {f}
  BY <1>1, <1>2 DEF Elems
<1>4. SocketTyped' /\ toClient = <<>> /\ ~client.authorized
  BY <1>2, <1>3, SocketInvParts, SocketInvNext DEF SocketTyped
<1> QED
  BY <1>2, <1>3, <1>4, ElemsEmpty, SocketInvParts, SocketInvNext

LEMMA LostInv ==
  ASSUME SocketInv, SocketLost PROVE SocketInv' /\ Dead'
<1>1. /\ ws = "open" /\ toClient' = Append(toClient, "closed") /\ toServer' = <<>>
      /\ peer' = NoPeer /\ UNCHANGED <<client, ws>> /\ ~Dead
  BY DEF SocketLost
<1>2. /\ toClient \in Seq(Answers) /\ "closed" \in Answers /\ <<>> \in Seq(Frames)
      /\ \A y \in Elems(toClient) : y \notin Ended
  <2>1. toClient \in Seq(Answers) /\ "closed" \in Answers
    BY DEF SocketInv, SocketTyped, Answers
  <2>2. \A y \in Elems(toClient) : y \notin Ended
    BY <1>1, DeadElems
  <2>3. <<>> \in Seq(Frames)
    OBVIOUS
  <2> QED
    BY <2>1, <2>2, <2>3
<1>3. /\ toClient' \in Seq(Answers) /\ Elems(toClient') = Elems(toClient) \cup {"closed"}
      /\ EndsLast(toClient')
  BY <1>1, <1>2, ElemsAppend, EndsAppend
<1>4. Dead'
  BY <1>3, DeadElems DEF Ended
<1>5. SocketTyped'
  BY <1>1, <1>2, <1>3, NoPeerTyped DEF SocketInv, SocketTyped
<1> QED
  BY <1>1, <1>3, <1>4, <1>5, SocketInvParts, SocketInvNext

LEMMA HearsInv ==
  ASSUME SocketInv, Hears
  PROVE  SocketInv' /\ UNCHANGED <<client, ws, toServer, peer>> /\ (Dead' <=> Dead)
<1>1. PICK x \in {"room:joined", "canvas:load", "not a member"} : Receives(x)
  BY DEF Hears, CanvasLoad, NotAMember
<1>2. UNCHANGED <<client, ws, toServer, peer>>
  BY DEF Hears, CanvasLoad, NotAMember
<1>3. /\ toClient' \in Seq(Answers) /\ Elems(toClient) = {x} \cup Elems(toClient')
      /\ EndsLast(toClient') /\ ws = "open"
  BY <1>1, Taken, SocketInvParts, SocketInvNext, AliveEnds
<1>4. Dead' <=> Dead
  BY <1>3, DeadElems DEF Ended
<1>5. SocketTyped'
  BY <1>2, <1>3 DEF SocketInv, SocketTyped
<1> QED
  BY <1>2, <1>3, <1>4, <1>5, SocketInvParts, SocketInvNext

LEMMA AuthOkInv ==
  ASSUME SocketInv, ViewTyped, AuthOk
  PROVE  /\ SocketInv' /\ UNCHANGED <<ws, peer>> /\ (Dead' <=> Dead)
         /\ client'.room = client.room /\ client'.authorized /\ client'.queue = <<>>
         /\ Elems(toServer') = Elems(toServer) \cup Elems(client.queue)
                                 \cup (IF page = NoRoom THEN {} ELSE Elems(Handshake(page)))
         /\ Elems(toClient) = {"auth:ok"} \cup Elems(toClient')
<1> DEFINE h == IF page = NoRoom THEN <<>> ELSE Handshake(page)
<1>1. /\ Receives("auth:ok") /\ UNCHANGED <<ws, peer>>
      /\ client' = [client EXCEPT !.authorized = TRUE, !.queue = <<>>]
      /\ toServer' = toServer \o client.queue \o h
  BY DEF AuthOk
<1>2. /\ toClient' \in Seq(Answers) /\ Elems(toClient) = {"auth:ok"} \cup Elems(toClient')
      /\ EndsLast(toClient') /\ ws = "open"
  BY <1>1, Taken, SocketInvParts, SocketInvNext, AliveEnds
<1>3. Dead' <=> Dead
  BY <1>2, DeadElems DEF Ended
<1>4. client \in Clients /\ client.queue \in Seq(Frames) /\ toServer \in Seq(Frames)
  BY DEF SocketInv, SocketTyped, Clients
<1>5. h \in Seq(Frames) /\ Elems(h) = (IF page = NoRoom THEN {} ELSE Elems(Handshake(page)))
  <2>1. CASE page = NoRoom
    <3>1. <<>> \in Seq(Frames)
      OBVIOUS
    <3> QED
      BY <2>1, <3>1, ElemsEmpty
  <2>2. CASE page # NoRoom
    <3>1. page \in Rooms
      BY <2>2 DEF ViewTyped
    <3> QED
      BY <2>2, <3>1, HandshakeElems
  <2> QED
    BY <2>1, <2>2
<1> HIDE DEF h
<1>6. /\ toServer' \in Seq(Frames)
      /\ Elems(toServer') = Elems(toServer) \cup Elems(client.queue) \cup Elems(h)
  <2> DEFINE both == toServer \o client.queue
  <2>1. both \in Seq(Frames) /\ Elems(both) = Elems(toServer) \cup Elems(client.queue)
    BY <1>4, ElemsConcat
  <2>2. toServer' = both \o h
    BY <1>1
  <2> HIDE DEF both
  <2>3. both \o h \in Seq(Frames) /\ Elems(both \o h) = Elems(both) \cup Elems(h)
    BY <1>5, <2>1, ElemsConcat
  <2> QED
    BY <2>1, <2>2, <2>3
<1>7. /\ client' \in Clients
      /\ client'.room = client.room /\ client'.authorized /\ client'.queue = <<>>
  BY <1>1, <1>4, Authorized
<1>8. SocketTyped'
  BY <1>1, <1>2, <1>6, <1>7 DEF SocketInv, SocketTyped
<1>9. ~Dead => peer.authenticated
  BY <1>2, SocketInvParts, SocketInvNext
<1>10. SocketInv'
  BY <1>1, <1>2, <1>3, <1>8, <1>9, SocketInvParts, SocketInvNext
<1> QED
  BY <1>1, <1>2, <1>3, <1>5, <1>6, <1>7, <1>10

LEMMA FailsInv ==
  ASSUME SocketInv, SocketFails
  PROVE  /\ SocketInv' /\ ws' = "closed" /\ ~client'.authorized /\ toServer = <<>>
         /\ client'.room = client.room /\ client'.queue = client.queue
         /\ UNCHANGED <<toServer, toClient, peer>>
<1>1. /\ ws = "connecting" /\ ws' = "closed" /\ UNCHANGED <<toServer, toClient, peer>>
      /\ client' = [client EXCEPT !.authorized = FALSE]
  BY DEF SocketFails
<1>2. client \in Clients /\ toServer = <<>> /\ toClient = <<>>
  BY <1>1, SocketInvParts DEF SocketTyped
<1>3. /\ client' \in Clients /\ ~client'.authorized
      /\ client'.room = client.room /\ client'.queue = client.queue
  BY <1>1, <1>2, Unauthorized
<1>4. SocketTyped'
  BY <1>1, <1>3, SocketInvParts DEF SocketTyped
<1>5. EndsLast(toClient') /\ Elems(toServer') = {} /\ Elems(toClient') = {}
  BY <1>1, <1>2, ElemsEmpty DEF EndsLast
<1> QED
  BY <1>1, <1>2, <1>3, <1>4, <1>5, SocketInvNext

LEMMA ClosesInv ==
  ASSUME SocketInv, SocketCloses \/ AuthRefused
  PROVE  /\ SocketInv' /\ ws = "open" /\ ws' = "closed" /\ ~client'.authorized
         /\ toServer' = <<>> /\ toClient' = <<>>
         /\ \/ client'.room = client.room /\ client'.queue = client.queue
            \/ client' = NoClient /\ page' = NoRoom
<1>1. PICK x \in Ended : Receives(x)
  BY DEF SocketCloses, AuthRefused, Ended
<1>2. /\ toClient' = <<>> /\ ws = "open" /\ Elems(toClient') = {}
  BY <1>1, Taken, SocketInvParts, AliveEnds
<1>3. /\ ws' = "closed" /\ toServer' = <<>> /\ UNCHANGED peer
      /\ \/ client' = [client EXCEPT !.authorized = FALSE]
         \/ client' = NoClient /\ page' = NoRoom
  BY DEF SocketCloses, AuthRefused
<1>4. client \in Clients /\ peer \in Peers
  BY SocketInvParts DEF SocketTyped
<1>5. /\ client' \in Clients /\ ~client'.authorized
      /\ \/ client'.room = client.room /\ client'.queue = client.queue
         \/ client' = NoClient /\ page' = NoRoom
  <2>1. NoClient \in Clients /\ ~NoClient.authorized
    BY DEF NoClient, Clients
  <2> QED
    BY <1>3, <1>4, <2>1, Unauthorized
<1>6. <<>> \in Seq(Frames) /\ <<>> \in Seq(Answers) /\ Elems(toServer') = {}
  BY <1>3, ElemsEmpty
<1>7. SocketTyped' /\ EndsLast(toClient')
  BY <1>2, <1>3, <1>4, <1>5, <1>6 DEF SocketTyped, EndsLast
<1> QED
  BY <1>2, <1>3, <1>5, <1>6, <1>7, SocketInvNext

LEMMA PeerChanges ==
  ASSUME NEW p \in Peers
  PROVE  /\ LET q == [p EXCEPT !.authenticated = TRUE]
            IN q \in Peers /\ q.authenticated /\ q.rooms = p.rooms
         /\ \A R \in SUBSET Rooms :
              LET q == [p EXCEPT !.rooms = R]
              IN q \in Peers /\ q.authenticated = p.authenticated /\ q.rooms = R
<1>1. LET q == [p EXCEPT !.authenticated = TRUE]
      IN q \in Peers /\ q.authenticated /\ q.rooms = p.rooms
  BY DEF Peers
<1>2. ASSUME NEW R \in SUBSET Rooms
      PROVE  LET q == [p EXCEPT !.rooms = R]
             IN q \in Peers /\ q.authenticated = p.authenticated /\ q.rooms = R
  BY DEF Peers
<1> QED
  BY <1>1, <1>2

\* What the server makes of the frame f.
Served(f) ==
  \/ /\ f.type = "auth" /\ peer'.authenticated /\ peer'.rooms = peer.rooms
     /\ Elems(toClient') = Elems(toClient) \cup {"auth:ok"}
  \/ /\ f.type # "auth" /\ peer.authenticated /\ peer'.authenticated
     /\ f.room \in Rooms
     /\ peer'.rooms = IF f.type = "room:join" /\ member[f.room] = "yes"
                      THEN peer.rooms \cup {f.room} ELSE peer.rooms
     /\ toClient' = Append(toClient, Answer(f))
     /\ Elems(toClient') = Elems(toClient) \cup {Answer(f)}
     /\ Answer(f) \in {"not a member", "room:joined", "canvas:load"}

LEMMA ReadsEffect ==
  ASSUME SocketInv, ServerReads
  PROVE  /\ SocketInv' /\ UNCHANGED <<client, ws>> /\ ~Dead /\ ws = "open"
         /\ \/ Dead'
            \/ /\ ~Dead'
               /\ \E f \in Frames : /\ Elems(toServer) = {f} \cup Elems(toServer')
                                    /\ Served(f)
<1> DEFINE f == Head(toServer)
<1>0. /\ UNCHANGED <<client, ws>> /\ ~Dead /\ ws = "open" /\ toServer # <<>>
  BY DEF ServerReads
<1>1. /\ client \in Clients /\ toServer \in Seq(Frames) /\ toClient \in Seq(Answers)
      /\ peer \in Peers
  BY SocketInvParts DEF SocketTyped
<1>2. /\ f \in Frames /\ Tail(toServer) \in Seq(Frames)
      /\ Elems(toServer) = {f} \cup Elems(Tail(toServer))
  BY <1>0, <1>1, ElemsTail
<1>3. \A y \in Elems(toClient) : y \notin Ended
  BY <1>0, DeadElems
<1>4. ASSUME NEW x \in Answers
      PROVE  /\ Append(toClient, x) \in Seq(Answers) /\ EndsLast(Append(toClient, x))
             /\ Elems(Append(toClient, x)) = Elems(toClient) \cup {x}
  BY <1>1, <1>3, ElemsAppend, EndsAppend
<1>5. CASE /\ f.type = "auth" /\ peer' = [peer EXCEPT !.authenticated = TRUE]
           /\ toClient' = Append(toClient, "auth:ok") /\ toServer' = Tail(toServer)
  <2>1. "auth:ok" \in Answers /\ "auth:ok" \notin Ended
    BY DEF Answers, Ended
  <2>2. peer' \in Peers /\ peer'.authenticated /\ peer'.rooms = peer.rooms
    BY <1>1, <1>5, PeerChanges
  <2>3. SocketTyped'
    BY <1>0, <1>1, <1>2, <1>4, <1>5, <2>1, <2>2, SocketInvParts DEF SocketTyped
  <2>4. Elems(toClient') = Elems(toClient) \cup {"auth:ok"} /\ EndsLast(toClient')
    BY <1>4, <1>5, <2>1
  <2>5. ~Dead'
    BY <1>3, <2>1, <2>4, DeadElems
  <2>6. SocketInv'
    BY <1>0, <2>2, <2>3, <2>4, SocketInvNext
  <2>7. Served(f) /\ Elems(toServer) = {f} \cup Elems(toServer')
    BY <1>2, <1>5, <2>2, <2>4 DEF Served
  <2> QED
    BY <1>0, <1>2, <2>5, <2>6, <2>7
<1>6. CASE peer' = NoPeer /\ toClient' = Append(toClient, "closed 4401") /\ toServer' = <<>>
  <2>1. "closed 4401" \in Answers /\ "closed 4401" \in Ended /\ <<>> \in Seq(Frames)
    <3>1. <<>> \in Seq(Frames)
      OBVIOUS
    <3> QED
      BY <3>1 DEF Answers, Ended
  <2>2. SocketTyped'
    BY <1>0, <1>1, <1>4, <1>6, <2>1, NoPeerTyped, SocketInvParts DEF SocketTyped
  <2>3. Elems(toClient') = Elems(toClient) \cup {"closed 4401"} /\ EndsLast(toClient')
    BY <1>4, <1>6, <2>1
  <2>4. Dead'
    BY <2>1, <2>3, DeadElems
  <2> QED
    BY <1>0, <2>2, <2>3, <2>4, SocketInvNext
<1>7. CASE /\ f.type # "auth" /\ peer.authenticated
           /\ peer' = [peer EXCEPT !.rooms = IF f.type = "room:join" /\ member[f.room] = "yes"
                                             THEN @ \cup {f.room} ELSE @]
           /\ toClient' = Append(toClient, Answer(f)) /\ toServer' = Tail(toServer)
  <2> DEFINE R == IF f.type = "room:join" /\ member[f.room] = "yes"
                  THEN peer.rooms \cup {f.room} ELSE peer.rooms
  <2>1. f.room \in Rooms /\ f.type \in {"room:join", "canvas:sync"}
    BY <1>2, <1>7 DEF Frames
  <2>2. Answer(f) \in {"not a member", "room:joined", "canvas:load"}
    BY <2>1 DEF Answer
  <2>3. Answer(f) \in Answers /\ Answer(f) \notin Ended
    BY <2>2 DEF Answers, Ended
  <2>4. R \in SUBSET Rooms /\ peer' = [peer EXCEPT !.rooms = R]
    BY <1>1, <1>7, <2>1 DEF Peers
  <2>5. peer' \in Peers /\ peer'.authenticated = peer.authenticated /\ peer'.rooms = R
    BY <1>1, <2>4, PeerChanges
  <2>6. SocketTyped'
    BY <1>0, <1>1, <1>2, <1>4, <1>7, <2>3, <2>5, SocketInvParts DEF SocketTyped
  <2>7. Elems(toClient') = Elems(toClient) \cup {Answer(f)} /\ EndsLast(toClient')
    BY <1>4, <1>7, <2>3
  <2>8. ~Dead'
    BY <1>3, <2>3, <2>7, DeadElems
  <2>9. SocketInv'
    BY <1>0, <1>7, <2>5, <2>6, <2>7, SocketInvNext
  <2>10. Served(f) /\ Elems(toServer) = {f} \cup Elems(toServer')
    BY <1>2, <1>7, <2>1, <2>2, <2>5, <2>7 DEF Served
  <2> QED
    BY <1>0, <1>2, <2>8, <2>9, <2>10
<1> QED
  BY <1>5, <1>6, <1>7 DEF ServerReads

LEMMA SocketInvStep ==
  ASSUME SocketInv, ViewTyped, Visited, PageNext
  PROVE  SocketInv'
<1>1. SocketTyped
  BY DEF SocketInv
<1>2. SocketStep
  BY <1>1, SocketSteps
<1>3. CASE UNCHANGED socketVars
  <2>1. Dead' <=> Dead
    BY <1>3, DeadElems DEF socketVars
  <2>2. SocketTyped'
    BY <1>1, <1>3 DEF SocketTyped, socketVars
  <2> QED
    BY <1>3, <2>1, <2>2, SocketInvParts, SocketInvNext DEF socketVars
<1> QED
  BY <1>2, <1>3, SpeaksInv, OpensInv, FailsInv, AuthOkInv, HearsInv, ClosesInv, ReadsEffect,
     LostInv DEF SocketStep

PageTyped == SocketInv /\ ViewTyped /\ Visited

LEMMA PageInitTyped == PageInit => PageTyped
<1> SUFFICES ASSUME PageInit PROVE PageTyped
  OBVIOUS
<1>1. <<>> \in Seq(Frames) /\ <<>> \in Seq(Answers)
  OBVIOUS
<1>2. NoClient \in Clients /\ ~NoClient.authorized
  BY DEF NoClient, Clients
<1>3. SocketTyped
  BY <1>1, <1>2, NoPeerTyped DEF PageInit, SocketTyped
<1>4. Elems(toClient) = {} /\ Elems(toServer) = {} /\ EndsLast(toClient)
  BY ElemsEmpty DEF PageInit, EndsLast
<1>5. SocketInv
  BY <1>2, <1>3, <1>4, SocketInvParts DEF PageInit
<1>6. ViewTyped /\ Visited
  <2>1. visits \in 0..MaxVisits /\ troubles \in 0..MaxTroubles /\ page = NoRoom /\ ~waiting
    BY PageAssumption DEF PageInit
  <2>2. member \in [Rooms -> {"no", "pending", "yes"}]
    BY DEF PageInit
  <2> QED
    BY <2>1, <2>2 DEF PageInit, ViewTyped, Visited
<1> QED
  BY <1>5, <1>6 DEF PageTyped

LEMMA PageTypedStep == PageTyped /\ [PageNext]_pageVars => PageTyped'
<1> SUFFICES ASSUME PageTyped, [PageNext]_pageVars PROVE PageTyped'
  OBVIOUS
<1>1. CASE PageNext
  BY <1>1, SocketInvStep, ViewTypeStep DEF PageTyped
<1>2. CASE UNCHANGED pageVars
  <2>1. SocketTyped' /\ Alive' /\ Accepted' /\ NothingBeforeAuth'
    BY <1>2 DEF PageTyped, SocketInv, SocketTyped, Alive, Accepted, Dead, NothingBeforeAuth,
               pageVars, Elems
  <2>2. ViewTyped' /\ Visited'
    BY <1>2 DEF PageTyped, ViewTyped, Visited, pageVars
  <2> QED
    BY <2>1, <2>2 DEF PageTyped, SocketInv
<1> QED
  BY <1>1, <1>2

\* The state of the page, of its socket and of the server's end of it keeps its type.
THEOREM PageTypeHolds == PageSpec => []PageTypeOK
<1>1. PageTyped => PageTypeOK
  BY PageTypeParts DEF PageTyped, SocketInv
<1> QED
  BY <1>1, PageInitTyped, PageTypedStep, PTL DEF PageSpec

\* The server never reads a frame from an open socket before the socket's "auth": what
\* the page sends too early waits in the client's queue until auth:ok.
THEOREM AuthFirst == PageSpec => []NothingBeforeAuth
<1>1. PageTyped => NothingBeforeAuth
  BY DEF PageTyped, SocketInv
<1> QED
  BY <1>1, PageInitTyped, PageTypedStep, PTL DEF PageSpec

-----------------------------------------------------------------------------
(* A page that is shown comes into its room.                               *)

\* A page with nothing but its own calls on the socket.
Quiet == page # NoRoom /\ ~crossed

OwnSocket ==
  /\ page = NoRoom /\ ~crossed => client.room = NoRoom
  /\ Quiet => client.room \in {NoRoom, page}
  /\ client.room = NoRoom => ws \in {"none", "closed"}

OwnFrames ==
  Quiet => /\ \A f \in Elems(toServer) : f.type = "auth" \/ f.room = page
           /\ client.room = page => \A f \in Elems(client.queue) : f.room = page

\* Without a socket the page says so, or waits for a token.
Retries ==
  Quiet /\ ws \in {"none", "closed"} /\ status # "disconnected" => Here \in tokens

Guest ==
  waiting => page # NoRoom /\ (approved \/ (page \in Private /\ member[page] # "yes"))

AuthPending == "auth:ok" \in Elems(toClient) \/ \E f \in Elems(toServer) : f.type = "auth"

AuthComes == ws = "open" /\ ~client.authorized /\ ~Dead => AuthPending

JoinFrame(r) == [type |-> "room:join", room |-> r]

\* What is under way brings a member into the room, or ends the connection.
Sure == AuthPending \/ JoinFrame(page) \in Elems(toServer) \/ Dead \/ page \in peer.rooms

Undisturbed == Quiet /\ ws = "open" /\ ~approved

MemberSure == Undisturbed /\ member[page] = "yes" => Sure

\* After the last canvas:load comes an error.
Denied(s) ==
  \A i \in DOMAIN s : s[i] = "canvas:load" =>
    \E j \in DOMAIN s : j > i /\ s[j] = "not a member"

LoadSure == Undisturbed => Sure \/ Denied(toClient)

ShownUnder ==
  Undisturbed /\ ~waiting /\ notice = "none" =>
    Sure \/ "not a member" \in Elems(toClient) \/ Here \in joining

Own == OwnSocket /\ OwnFrames /\ Retries /\ Guest
Attended == MemberSure /\ LoadSure /\ ShownUnder
StrandInv == PageTyped /\ Own /\ AuthComes /\ Attended

LEMMA NotStranded == StrandInv => PageNotStranded
<1> SUFFICES ASSUME StrandInv, AtRest, Shown, ~approved, ~crossed PROVE InRoom
  BY DEF PageNotStranded
<1>1. /\ tokens = {} /\ joining = {} /\ toServer = <<>> /\ toClient = <<>> /\ ws # "connecting"
      /\ page # NoRoom /\ ~waiting /\ notice = "none" /\ status # "disconnected"
  BY DEF AtRest, Shown
<1>2. ws = "open"
  BY <1>1 DEF StrandInv, PageTyped, SocketInv, SocketTyped, Own, Retries, Quiet
<1>3. Elems(toServer) = {} /\ Elems(toClient) = {}
  BY <1>1, ElemsEmpty
<1>4. Undisturbed
  BY <1>1, <1>2 DEF Undisturbed, Quiet
<1>5. ~Dead
  BY <1>3, DeadElems
<1> QED
  BY <1>1, <1>2, <1>3, <1>4, <1>5 DEF StrandInv, Attended, ShownUnder, Sure, AuthPending, InRoom

LEMMA SureAttended == ASSUME Undisturbed' => Sure' PROVE Attended'
  BY DEF Attended, MemberSure, LoadSure, ShownUnder

LEMMA DeniedTail ==
  ASSUME NEW s \in Seq(Answers), s # <<>>, Denied(s)
  PROVE  Denied(Tail(s)) /\ (Head(s) = "canvas:load" => "not a member" \in Elems(Tail(s)))
<1> DEFINE n == Len(s)
<1> DEFINE t == Tail(s)
<1>1. /\ Head(s) = s[1] /\ n \in Nat \ {0}
      /\ DOMAIN s = 1..n /\ DOMAIN t = 1..n - 1
      /\ \A i \in 1..n - 1 : t[i] = s[i + 1]
  BY ElemsTail
<1>2. \A i \in 1..n : s[i] = "canvas:load" =>
        \E j \in 1..n : j > i /\ s[j] = "not a member"
  BY <1>1 DEF Denied
<1> HIDE DEF n, t
<1>3. \A j \in 1..n : j > 1 => j - 1 \in 1..n - 1 /\ t[j - 1] = s[j]
  BY <1>1
<1>4. Denied(t)
  <2> SUFFICES ASSUME NEW i \in 1..n - 1, t[i] = "canvas:load"
               PROVE  \E j \in 1..n - 1 : j > i /\ t[j] = "not a member"
    BY <1>1 DEF Denied
  <2>1. i + 1 \in 1..n /\ s[i + 1] = "canvas:load"
    BY <1>1
  <2>2. PICK j \in 1..n : j > i + 1 /\ s[j] = "not a member"
    BY <1>2, <2>1
  <2>3. j > 1 /\ j - 1 > i
    <3>1. n \in Nat
      BY <1>1
    <3>2. j \in Nat /\ i \in Nat /\ i >= 1
      BY <3>1
    <3>3. j > i + 1
      BY <2>2
    <3> QED
      BY <3>2, <3>3
  <2>4. j - 1 \in 1..n - 1 /\ t[j - 1] = "not a member"
    BY <1>3, <2>2, <2>3
  <2> QED
    BY <2>3, <2>4
<1>5. ASSUME Head(s) = "canvas:load" PROVE "not a member" \in Elems(t)
  <2>1. 1 \in 1..n /\ s[1] = "canvas:load"
    BY <1>1, <1>5
  <2>2. PICK j \in 1..n : j > 1 /\ s[j] = "not a member"
    BY <1>2, <2>1
  <2>3. j - 1 \in DOMAIN t /\ t[j - 1] = "not a member"
    BY <1>1, <1>3, <2>2
  <2> QED
    BY <2>3 DEF Elems
<1> QED
  BY <1>4, <1>5 DEF t

LEMMA DeniedAppend ==
  ASSUME NEW s \in Seq(Answers) PROVE Denied(Append(s, "not a member"))
<1> DEFINE n == Len(s)
<1> DEFINE t == Append(s, "not a member")
<1>0. "not a member" \in Answers
  BY DEF Answers
<1>1. n \in Nat /\ DOMAIN t = 1..n + 1 /\ t[n + 1] = "not a member"
  BY <1>0, AppendFacts
<1> HIDE DEF n, t
<1> SUFFICES ASSUME NEW i \in 1..n + 1, t[i] = "canvas:load"
             PROVE  \E j \in 1..n + 1 : j > i /\ t[j] = "not a member"
  BY <1>1 DEF Denied, t
<1>2. i # n + 1
  BY <1>1
<1>3. n \in Nat
  BY <1>1
<1>4. n + 1 \in 1..n + 1 /\ n + 1 > i
  BY <1>2, <1>3
<1> QED
  BY <1>1, <1>4

\* The socket as it was, and nothing that the page would have to do about it.
LEMMA StillAttended ==
  ASSUME Attended, UNCHANGED socketVars, UNCHANGED <<page, visits>>,
         crossed => crossed', approved => approved',
         page # NoRoom /\ member'[page] = "yes" => member[page] = "yes",
         page # NoRoom /\ ~approved' /\ ~waiting' /\ notice' = "none"
           => notice = "none" /\ ~waiting /\ (Here \in joining => Here \in joining')
  PROVE  Attended'
<1>1. /\ Undisturbed' => Undisturbed
      /\ Undisturbed' => page # NoRoom /\ ~approved'
  BY DEF Undisturbed, Quiet, socketVars
<1>2. Sure' <=> Sure
  BY DeadElems DEF Sure, AuthPending, socketVars
<1>3. MemberSure' /\ LoadSure'
  BY <1>1, <1>2 DEF Attended, MemberSure, LoadSure, socketVars
<1>4. Here' = Here
  BY DEF Here
<1>5. ShownUnder'
  BY <1>1, <1>2, <1>4 DEF Attended, ShownUnder, socketVars
<1> QED
  BY <1>3, <1>5 DEF Attended

LEMMA StillComing == ASSUME AuthComes, UNCHANGED socketVars PROVE AuthComes'
  BY DeadElems DEF AuthComes, AuthPending, socketVars

LEMMA PollStrand == ASSUME StrandInv, PollRooms PROVE Own' /\ AuthComes' /\ Attended'
<1>1. /\ waiting /\ member[page] = "yes" /\ tokens' = tokens \cup {Here}
      /\ UNCHANGED <<page, approved, crossed, retried, notice, status, joining, member, visits>>
      /\ UNCHANGED socketVars /\ waiting' = FALSE
  BY DEF PollRooms
<1>2. approved
  BY <1>1 DEF StrandInv, Own, Guest
<1>3. Own'
  <2>1. OwnSocket' /\ OwnFrames'
    BY <1>1 DEF StrandInv, Own, OwnSocket, OwnFrames, Quiet, socketVars
  <2>2. Retries' /\ Guest'
    BY <1>1 DEF StrandInv, Own, Retries, Guest, Quiet, socketVars, Here
  <2> QED
    BY <2>1, <2>2 DEF Own
<1>4. ~Undisturbed'
  BY <1>1, <1>2 DEF Undisturbed
<1> QED
  BY <1>1, <1>3, <1>4, SureAttended, StillComing DEF StrandInv

LEMMA OpensStrand == ASSUME StrandInv, SocketOpens PROVE Own' /\ AuthComes' /\ Attended'
<1> DEFINE f == [type |-> "auth", room |-> NoRoom]
<1>1. /\ ws = "connecting" /\ ws' = "open" /\ toServer' = <<f>>
      /\ UNCHANGED <<client, toClient, peer, viewVars, callVars, member, visits>>
  BY DEF SocketOpens
<1>2. Elems(toServer') = {f} /\ f.type = "auth"
  BY <1>1 DEF Elems
<1>3. AuthPending'
  BY <1>2 DEF AuthPending
<1>4. Sure' /\ AuthComes'
  BY <1>3 DEF Sure, AuthComes
<1>5. OwnSocket'
  BY <1>1 DEF StrandInv, Own, OwnSocket, Quiet, viewVars
<1>6. OwnFrames'
  BY <1>1, <1>2 DEF StrandInv, Own, OwnFrames, Quiet, viewVars
<1>7. Retries' /\ Guest'
  BY <1>1 DEF StrandInv, Own, Retries, Guest, viewVars
<1> QED
  BY <1>4, <1>5, <1>6, <1>7, SureAttended DEF Own

LEMMA EndsStrand ==
  ASSUME StrandInv, SocketCloses \/ SocketFails \/ AuthRefused
  PROVE  Own' /\ AuthComes' /\ Attended'
<1>0. SocketInv /\ ViewTyped
  BY DEF StrandInv, PageTyped
<1>1. /\ ws # "none" /\ ws' = "closed" /\ toServer' = <<>>
      /\ \/ client'.room = client.room /\ client'.queue = client.queue
         \/ client' = NoClient /\ page' = NoRoom
  <2>1. CASE SocketFails
    BY <1>0, <2>1, FailsInv DEF SocketFails
  <2>2. CASE SocketCloses \/ AuthRefused
    BY <1>0, <2>2, ClosesInv
  <2> QED
    BY <2>1, <2>2
<1>2. Elems(toServer') = {}
  BY <1>1, ElemsEmpty
<1>3. /\ crossed' = crossed /\ UNCHANGED <<member, visits>>
      /\ \/ page' = page /\ UNCHANGED <<waiting, approved>>
         \/ page' = NoRoom /\ client' = NoClient /\ ~waiting'
      /\ page' # NoRoom => status' = "disconnected" \/ Here' \in tokens'
  BY DEF SocketCloses, SocketFails, Reconnects, AuthRefused, Here
<1>4. OwnSocket'
  <2>1. CASE page' = page /\ client'.room = client.room
    BY <1>1, <1>3, <2>1 DEF StrandInv, Own, OwnSocket, Quiet
  <2>2. CASE page' = NoRoom /\ client' = NoClient
    BY <1>1, <2>2 DEF OwnSocket, Quiet, NoClient
  <2> QED
    BY <1>1, <1>3, <2>1, <2>2
<1>5. OwnFrames'
  <2>1. CASE page' = NoRoom
    BY <2>1 DEF OwnFrames, Quiet
  <2>2. CASE page' # NoRoom
    BY <1>1, <1>2, <1>3, <2>2 DEF StrandInv, Own, OwnFrames, Quiet
  <2> QED
    BY <2>1, <2>2
<1>6. Retries' /\ Guest'
  BY <1>3 DEF StrandInv, Own, Retries, Guest, Quiet
<1>7. ~Undisturbed' /\ AuthComes'
  BY <1>1 DEF Undisturbed, AuthComes
<1> QED
  BY <1>4, <1>5, <1>6, <1>7, SureAttended DEF Own

LEMMA AuthOkStrand == ASSUME StrandInv, AuthOk PROVE Own' /\ AuthComes' /\ Attended'
<1>0. SocketInv /\ ViewTyped
  BY DEF StrandInv, PageTyped
<1>1. /\ UNCHANGED <<ws, peer>> /\ client'.room = client.room /\ client'.authorized
      /\ client'.queue = <<>>
      /\ Elems(toServer') = Elems(toServer) \cup Elems(client.queue)
                              \cup (IF page = NoRoom THEN {} ELSE Elems(Handshake(page)))
  BY <1>0, AuthOkInv
<1>2. /\ UNCHANGED <<page, waiting, approved, crossed, tokens, timers, joining, member, visits>>
      /\ ws = "open"
  <2>1. Receives("auth:ok")
    BY DEF AuthOk
  <2>2. ws = "open"
    BY <1>0, <2>1, Taken DEF SocketInv
  <2> QED
    BY <2>2 DEF AuthOk, callVars
<1>3. OwnSocket'
  BY <1>1, <1>2 DEF StrandInv, Own, OwnSocket, Quiet
<1>4. page # NoRoom =>
        Elems(Handshake(page)) = {JoinFrame(page), [type |-> "canvas:sync", room |-> page]}
  BY <1>0, HandshakeElems DEF ViewTyped, JoinFrame
<1>5. OwnFrames'
  <2> SUFFICES ASSUME Quiet
               PROVE  (\A f \in Elems(toServer') : f.type = "auth" \/ f.room = page)
                      /\ Elems(client'.queue) = {}
    BY <1>2 DEF OwnFrames, Quiet
  <2>1. /\ client.room = page
        /\ \A f \in Elems(toServer) : f.type = "auth" \/ f.room = page
        /\ \A f \in Elems(client.queue) : f.room = page
    BY <1>2 DEF StrandInv, Own, OwnSocket, OwnFrames
  <2>2. \A f \in Elems(Handshake(page)) : f.room = page
    BY <1>4 DEF Quiet, JoinFrame
  <2> QED
    BY <1>1, <2>1, <2>2, ElemsEmpty
<1>6. Retries' /\ Guest' /\ AuthComes'
  BY <1>1, <1>2 DEF StrandInv, Own, Retries, Guest, AuthComes
<1>7. Undisturbed' => Sure'
  BY <1>1, <1>2, <1>4 DEF Undisturbed, Quiet, Sure
<1> QED
  BY <1>3, <1>5, <1>6, <1>7, SureAttended DEF Own

LEMMA HearsStrand == ASSUME StrandInv, Hears PROVE Own' /\ AuthComes' /\ Attended'
<1>0. SocketInv /\ ViewTyped /\ toClient \in Seq(Answers)
  BY DEF StrandInv, PageTyped, SocketInv, SocketTyped
<1>1. UNCHANGED <<client, ws, toServer, peer>> /\ (Dead' <=> Dead)
  BY <1>0, HearsInv
<1>2. /\ UNCHANGED <<page, waiting, approved, crossed, status, tokens, member, visits>>
      /\ toClient # <<>> /\ toClient' = Tail(toClient)
  <2>1. CASE CanvasLoad
    BY <2>1 DEF CanvasLoad, Receives, callVars
  <2>2. CASE NotAMember
    BY <2>2 DEF NotAMember, Receives, viewVars
  <2> QED
    BY <2>1, <2>2 DEF Hears
<1>3. /\ Head(toClient) # "auth:ok" /\ joining \subseteq joining'
      /\ \/ Head(toClient) = "not a member" /\ (page # NoRoom => Here \in joining')
         \/ Head(toClient) = "canvas:load"
         \/ Head(toClient) = "room:joined" /\ notice' = notice
  <2>1. CASE CanvasLoad
    BY <2>1 DEF CanvasLoad, Receives, callVars
  <2>2. CASE NotAMember
    BY <2>2 DEF NotAMember, Receives, viewVars
  <2> QED
    BY <2>1, <2>2 DEF Hears
<1>4. Own'
  <2>1. OwnSocket' /\ OwnFrames'
    BY <1>1, <1>2 DEF StrandInv, Own, OwnSocket, OwnFrames, Quiet
  <2>2. Retries' /\ Guest'
    BY <1>1, <1>2 DEF StrandInv, Own, Retries, Guest, Quiet, Here
  <2> QED
    BY <2>1, <2>2 DEF Own
<1>5. Elems(toClient) = {Head(toClient)} \cup Elems(toClient')
  BY <1>0, <1>2, ElemsTail
<1>6. Sure' <=> Sure
  BY <1>1, <1>2, <1>3, <1>5 DEF Sure, AuthPending
<1>7. AuthComes'
  BY <1>1, <1>2, <1>3, <1>5 DEF StrandInv, AuthComes, AuthPending
<1>8. Undisturbed' <=> Undisturbed
  BY <1>1, <1>2 DEF Undisturbed, Quiet
<1>9. MemberSure'
  BY <1>2, <1>6, <1>8 DEF StrandInv, Attended, MemberSure
<1>10. Undisturbed /\ ~Sure =>
          /\ Denied(toClient')
          /\ Head(toClient) = "canvas:load" => "not a member" \in Elems(toClient')
  BY <1>0, <1>2, DeniedTail DEF StrandInv, Attended, LoadSure
<1>11. LoadSure'
  BY <1>6, <1>8, <1>10 DEF LoadSure
<1>12. ShownUnder'
  <2> SUFFICES ASSUME Undisturbed, ~Sure, ~waiting, notice' = "none"
               PROVE  "not a member" \in Elems(toClient') \/ Here \in joining'
    BY <1>2, <1>6, <1>8 DEF ShownUnder, Here
  <2>1. CASE Head(toClient) = "not a member"
    BY <1>3, <2>1 DEF Undisturbed, Quiet
  <2>2. CASE Head(toClient) = "canvas:load"
    BY <1>10, <2>2
  <2>3. CASE Head(toClient) = "room:joined"
    <3>1. notice = "none"
      BY <1>3, <2>3
    <3> QED
      BY <1>3, <1>5, <2>3, <3>1 DEF StrandInv, Attended, ShownUnder
  <2> QED
    BY <1>3, <2>1, <2>2, <2>3
<1> QED
  BY <1>4, <1>7, <1>9, <1>11, <1>12 DEF Attended

LEMMA ReadsStrand == ASSUME StrandInv, ServerReads PROVE Own' /\ AuthComes' /\ Attended'
<1>0. SocketInv /\ ViewTyped /\ toClient \in Seq(Answers)
  BY DEF StrandInv, PageTyped, SocketInv, SocketTyped
<1>1. /\ UNCHANGED <<client, ws>> /\ ~Dead /\ ws = "open"
      /\ \/ Dead'
         \/ /\ ~Dead'
            /\ \E f \in Frames : Elems(toServer) = {f} \cup Elems(toServer') /\ Served(f)
  BY <1>0, ReadsEffect
<1>2. UNCHANGED <<page, waiting, approved, crossed, notice, status, tokens, joining, member,
                  visits>>
  BY DEF ServerReads, viewVars, callVars
<1>3. Elems(toServer') \subseteq Elems(toServer)
  <2>1. toServer \in Seq(Frames) /\ toServer # <<>>
    BY <1>0 DEF ServerReads, SocketInv, SocketTyped
  <2>2. Elems(toServer) = {Head(toServer)} \cup Elems(Tail(toServer))
    BY <2>1, ElemsTail
  <2>3. toServer' = Tail(toServer) \/ toServer' = <<>>
    BY DEF ServerReads
  <2> QED
    BY <2>2, <2>3, ElemsEmpty
<1>4. Own'
  <2>1. OwnSocket' /\ OwnFrames'
    BY <1>1, <1>2, <1>3 DEF StrandInv, Own, OwnSocket, OwnFrames, Quiet
  <2>2. Retries' /\ Guest'
    BY <1>1, <1>2 DEF StrandInv, Own, Retries, Guest, Quiet, Here
  <2> QED
    BY <2>1, <2>2 DEF Own
<1>5. CASE Dead'
  BY <1>4, <1>5, SureAttended DEF Sure, AuthComes
<1>6. ASSUME ~Dead', NEW f \in Frames, Elems(toServer) = {f} \cup Elems(toServer'), Served(f)
      PROVE  AuthComes' /\ Attended'
  <2>1. CASE f.type = "auth"
    <3>1. AuthPending'
      BY <1>6, <2>1 DEF Served, AuthPending
    <3> QED
      BY <3>1, SureAttended DEF Sure, AuthComes
  <2>2. CASE f.type # "auth"
    <3> DEFINE yes == f.type = "room:join" /\ member[f.room] = "yes"
    <3>1. /\ peer'.rooms = IF yes THEN peer.rooms \cup {f.room} ELSE peer.rooms
          /\ toClient' = Append(toClient, Answer(f))
          /\ Elems(toClient') = Elems(toClient) \cup {Answer(f)}
      BY <1>6, <2>2 DEF Served
    <3>2. AuthPending => AuthPending'
      BY <1>6, <2>2, <3>1 DEF AuthPending
    <3>3. AuthComes'
      BY <1>1, <3>2 DEF StrandInv, AuthComes
    <3>4. ASSUME Undisturbed, member[page] = "yes" PROVE Sure'
      <4>1. f.room = page
        BY <1>6, <2>2, <3>4 DEF StrandInv, Own, OwnFrames, Undisturbed
      <4>2. AuthPending \/ JoinFrame(page) \in Elems(toServer) \/ page \in peer.rooms
        BY <1>1, <3>4 DEF StrandInv, Attended, MemberSure, Sure
      <4>3. CASE f = JoinFrame(page)
        <5>1. yes
          BY <3>4, <4>3 DEF JoinFrame
        <5> QED
          BY <1>2, <3>1, <4>1, <5>1 DEF Sure
      <4>4. CASE f # JoinFrame(page)
        BY <1>2, <1>6, <3>1, <3>2, <4>2, <4>4 DEF Sure
      <4> QED
        BY <4>3, <4>4
    <3>5. ASSUME Undisturbed, member[page] # "yes"
          PROVE  Denied(toClient') /\ "not a member" \in Elems(toClient')
      <4>1. f.room = page
        BY <1>6, <2>2, <3>5 DEF StrandInv, Own, OwnFrames, Undisturbed
      <4>2. Answer(f) = "not a member"
        BY <3>5, <4>1 DEF Answer
      <4> QED
        BY <1>0, <3>1, <4>2, DeniedAppend
    <3>6. Undisturbed' <=> Undisturbed
      BY <1>1, <1>2 DEF Undisturbed, Quiet
    <3> QED
      BY <1>2, <3>3, <3>4, <3>5, <3>6 DEF Attended, MemberSure, LoadSure, ShownUnder
  <2> QED
    BY <2>1, <2>2
<1> QED
  BY <1>1, <1>4, <1>5, <1>6

LEMMA LostStrand == ASSUME StrandInv, SocketLost PROVE Own' /\ AuthComes' /\ Attended'
<1>0. SocketInv
  BY DEF StrandInv, PageTyped
<1>1. /\ Dead' /\ ws = "open" /\ toServer' = <<>>
      /\ UNCHANGED <<client, ws, viewVars, callVars, member, visits>>
  BY <1>0, LostInv DEF SocketLost
<1>2. Elems(toServer') = {}
  BY <1>1, ElemsEmpty
<1>3. OwnSocket' /\ OwnFrames'
  BY <1>1, <1>2 DEF StrandInv, Own, OwnSocket, OwnFrames, Quiet, viewVars
<1>4. Retries' /\ Guest'
  BY <1>1 DEF StrandInv, Own, Retries, Guest, Quiet, viewVars
<1> QED
  BY <1>1, <1>3, <1>4, SureAttended DEF Own, Sure, AuthComes

LEMMA FreshStrand ==
  ASSUME Fresh, ws' = "connecting", client'.room \in Rooms,
         page' = NoRoom => crossed', Quiet' => client'.room = page'
  PROVE  OwnSocket' /\ OwnFrames' /\ Retries' /\ AuthComes' /\ Attended'
<1>1. Elems(toServer') = {} /\ Elems(client'.queue) = {}
  BY ElemsEmpty DEF Fresh
<1>2. OwnSocket'
  BY PageAssumption DEF OwnSocket, Quiet
<1>3. OwnFrames'
  BY <1>1 DEF OwnFrames
<1>4. Retries' /\ AuthComes' /\ ~Undisturbed'
  BY DEF Retries, AuthComes, Undisturbed
<1> QED
  BY <1>2, <1>3, <1>4, SureAttended

LEMMA ConnectSocketCases ==
  ASSUME SocketTyped, NEW p \in Pages, ConnectSocket(p)
  PROVE  \/ Fresh /\ ws' = "connecting" /\ client'.room = p.room /\ client'.room \in Rooms
         \/ UNCHANGED socketVars /\ (status' = "disconnected" \/ ws \in {"connecting", "open"})
<1>0. p.room \in Rooms
  BY DEF Pages
<1>1. CASE Connect(p.room) /\ status' = "connecting"
  <2>1. \/ UNCHANGED socketVars
        \/ Fresh /\ ws' = "connecting" /\ client'.room = p.room
    BY <1>0, <1>1, ConnectEffect
  <2>2. ws' \in {"connecting", "open"}
    BY <1>0, <1>1, ConnectEffect
  <2> QED
    BY <1>0, <2>1, <2>2 DEF socketVars
<1>2. CASE status' = "disconnected" /\ UNCHANGED socketVars
  BY <1>2
<1> QED
  BY <1>1, <1>2 DEF ConnectSocket

LEMMA TokenStrand ==
  ASSUME StrandInv, NEW p \in Pages, TokenArrives(p) PROVE Own' /\ AuthComes' /\ Attended'
<1>0. SocketTyped /\ ViewTyped /\ p.room \in Rooms
  BY DEF StrandInv, PageTyped, SocketInv, Pages
<1>1. /\ ConnectSocket(p)
      /\ crossed' = (crossed \/ (page # p.room /\ ws' = "connecting"))
      /\ UNCHANGED <<page, waiting, approved, retried, notice, timers, joining, member, visits>>
  BY DEF TokenArrives
<1>2. crossed => crossed'
  BY <1>1
<1>3. Guest'
  BY <1>1 DEF StrandInv, Own, Guest
<1>4. CASE Fresh /\ ws' = "connecting" /\ client'.room = p.room
  <2>1. page' = NoRoom => crossed'
    BY <1>0, <1>1, <1>4, PageAssumption
  <2>2. Quiet' => client'.room = page'
    BY <1>1, <1>4 DEF Quiet
  <2> QED
    BY <1>0, <1>3, <1>4, <2>1, <2>2, FreshStrand DEF Own
<1>5. CASE UNCHANGED socketVars /\ (status' = "disconnected" \/ ws \in {"connecting", "open"})
  <2>1. OwnSocket' /\ OwnFrames' /\ Retries'
    BY <1>1, <1>2, <1>5
    DEF StrandInv, Own, OwnSocket, OwnFrames, Retries, Quiet, socketVars
  <2>2. Attended' /\ AuthComes'
    BY <1>1, <1>2, <1>5, StillAttended, StillComing DEF StrandInv
  <2> QED
    BY <1>3, <2>1, <2>2 DEF Own
<1> QED
  BY <1>0, <1>1, <1>4, <1>5, ConnectSocketCases

LEMMA TimerStrand ==
  ASSUME StrandInv, NEW p \in Pages, ReconnectTimer(p) PROVE Own' /\ AuthComes' /\ Attended'
<1>0. SocketTyped /\ ViewTyped /\ p.room \in Rooms
  BY DEF StrandInv, PageTyped, SocketInv, Pages
<1>1. UNCHANGED <<page, waiting, approved, crossed, retried, notice, tokens, joining, member,
                  visits>>
  BY DEF ReconnectTimer
<1>2. \/ UNCHANGED socketVars /\ status' = status
      \/ client.room = p.room /\ ConnectSocket(p)
  BY DEF ReconnectTimer
<1>3. Guest'
  BY <1>1 DEF StrandInv, Own, Guest
<1>4. CASE client.room = p.room /\ Fresh /\ ws' = "connecting" /\ client'.room = p.room
  <2>1. page' = NoRoom => crossed'
    BY <1>0, <1>1, <1>4, PageAssumption DEF StrandInv, Own, OwnSocket
  <2>2. Quiet' => client'.room = page'
    BY <1>0, <1>1, <1>4, PageAssumption DEF StrandInv, Own, OwnSocket, Quiet
  <2> QED
    BY <1>0, <1>3, <1>4, <2>1, <2>2, FreshStrand DEF Own
<1>5. CASE /\ UNCHANGED socketVars
           /\ status' = "disconnected" \/ status' = status \/ ws \in {"connecting", "open"}
  <2>1. OwnSocket' /\ OwnFrames'
    BY <1>1, <1>5 DEF StrandInv, Own, OwnSocket, OwnFrames, Quiet, socketVars
  <2>2. Retries'
    BY <1>1, <1>5 DEF StrandInv, Own, Retries, Quiet, Here, socketVars
  <2>3. Attended' /\ AuthComes'
    BY <1>1, <1>5, StillAttended, StillComing DEF StrandInv
  <2> QED
    BY <1>3, <2>1, <2>2, <2>3 DEF Own
<1> QED
  BY <1>0, <1>2, <1>4, <1>5, ConnectSocketCases

LEMMA SaidStrand ==
  ASSUME StrandInv, NEW r \in Rooms, Says(Handshake(r)), UNCHANGED <<ws, toClient, peer, page>>,
         crossed => crossed', Quiet' => r = page
  PROVE  /\ OwnSocket' /\ OwnFrames' /\ AuthComes' /\ (Undisturbed' => Sure')
<1>1. /\ client'.room = client.room /\ client'.authorized = client.authorized
      /\ Dead' <=> Dead
  BY DeadElems DEF Says
<1>2. Elems(Handshake(r)) = {JoinFrame(r), [type |-> "canvas:sync", room |-> r]}
  BY HandshakeElems DEF JoinFrame
<1>3. OwnSocket'
  BY <1>1 DEF StrandInv, Own, OwnSocket, Quiet
<1>4. Elems(toServer) \subseteq Elems(toServer')
  BY DEF Says
<1>5. AuthComes'
  BY <1>1, <1>4 DEF StrandInv, AuthComes, AuthPending
<1>6. OwnFrames'
  <2> SUFFICES ASSUME Quiet'
               PROVE  /\ \A f \in Elems(toServer') : f.type = "auth" \/ f.room = page
                      /\ client.room = page => \A f \in Elems(client'.queue) : f.room = page
    BY <1>1 DEF OwnFrames
  <2>1. /\ \A f \in Elems(toServer) : f.type = "auth" \/ f.room = page
        /\ client.room = page => \A f \in Elems(client.queue) : f.room = page
    BY DEF StrandInv, Own, OwnFrames, Quiet
  <2>2. \A f \in Elems(Handshake(r)) : f.room = page
    BY <1>2 DEF JoinFrame
  <2> QED
    BY <2>1, <2>2 DEF Says
<1>7. ASSUME Undisturbed' PROVE Sure'
  <2>1. ws = "open" /\ r = page
    BY <1>7 DEF Undisturbed
  <2>2. CASE client.authorized
    <3>1. JoinFrame(r) \in Elems(toServer')
      BY <1>2, <2>1, <2>2 DEF Says
    <3> QED
      BY <2>1, <3>1 DEF Sure
  <2>3. CASE ~client.authorized
    <3>1. Dead \/ AuthPending
      BY <2>1, <2>3 DEF StrandInv, AuthComes
    <3> QED
      BY <1>1, <1>4, <3>1 DEF Sure, AuthPending
  <2> QED
    BY <2>2, <2>3
<1> QED
  BY <1>3, <1>5, <1>6, <1>7

LEMMA JoinStrand ==
  ASSUME StrandInv, NEW p \in Pages, JoinAnswered(p) PROVE Own' /\ AuthComes' /\ Attended'
<1>0. /\ SocketTyped /\ ViewTyped /\ p.room \in Rooms
      /\ member \in [Rooms -> {"no", "pending", "yes"}]
  BY DEF StrandInv, PageTyped, SocketInv, ViewTyped, Pages
<1>1. /\ joining' = joining \ {p}
      /\ UNCHANGED <<page, approved, retried, status, tokens, timers, visits>>
  BY DEF JoinAnswered
<1>2. p = Here => p.room = page
  BY DEF Here
<1>3. CASE /\ p.room \in Private /\ member[p.room] # "yes"
           /\ member' = [member EXCEPT ![p.room] = "pending"]
           /\ waiting' = (waiting \/ p = Here)
           /\ UNCHANGED <<crossed, notice, socketVars>>
  <2>1. OwnSocket' /\ OwnFrames' /\ Retries'
    BY <1>1, <1>3 DEF StrandInv, Own, OwnSocket, OwnFrames, Retries, Quiet, Here, socketVars
  <2>2. /\ \A r \in Rooms : member'[r] = IF r = p.room THEN "pending" ELSE member[r]
        /\ page # NoRoom => page \in Rooms
    BY <1>0, <1>3 DEF ViewTyped
  <2>3. Guest'
    BY <1>0, <1>1, <1>2, <1>3, <2>2, PageAssumption DEF StrandInv, Own, Guest
  <2>4. ~waiting' => ~waiting /\ p # Here
    BY <1>3
  <2>5. page # NoRoom /\ member'[page] = "yes" => member[page] = "yes"
    BY <2>2
  <2>6. ~waiting' => (Here \in joining => Here \in joining')
    BY <1>1, <2>4
  <2>7. (crossed => crossed') /\ (approved => approved')
    BY <1>1, <1>3
  <2>8. Attended' /\ AuthComes'
    BY <1>1, <1>3, <2>4, <2>5, <2>6, <2>7, StillAttended, StillComing DEF StrandInv
  <2> QED
    BY <2>1, <2>3, <2>8 DEF Own
<1>4. CASE /\ p.room \notin Private \/ member[p.room] = "yes"
           /\ member' = [member EXCEPT ![p.room] = "yes"]
           /\ SendAll(Handshake(p.room))
           /\ crossed' = (crossed \/ page \notin {NoRoom, p.room})
           /\ UNCHANGED <<waiting, ws, toClient, peer>>
  <2>1. Says(Handshake(p.room))
    BY <1>0, <1>4, HandshakeElems, SendAllEffect
  <2>2. crossed => crossed'
    BY <1>4
  <2>3. Quiet' => p.room = page
    BY <1>1, <1>4 DEF Quiet
  <2>4. OwnSocket' /\ OwnFrames' /\ AuthComes' /\ (Undisturbed' => Sure')
    BY <1>0, <1>1, <1>4, <2>1, <2>2, <2>3, SaidStrand
  <2>5. Retries'
    BY <1>1, <1>4, <2>2 DEF StrandInv, Own, Retries, Quiet, Here
  <2>6. /\ \A r \in Rooms : member'[r] = IF r = p.room THEN "yes" ELSE member[r]
        /\ page # NoRoom => page \in Rooms
    BY <1>0, <1>4 DEF ViewTyped
  <2>7. Guest'
    BY <1>0, <1>1, <1>4, <2>6, PageAssumption DEF StrandInv, Own, Guest
  <2> QED
    BY <2>4, <2>5, <2>7, SureAttended DEF Own
<1>5. CASE /\ notice' = IF p = Here THEN "join failed" ELSE notice
           /\ UNCHANGED <<waiting, crossed, socketVars, member>>
  <2>1. OwnSocket' /\ OwnFrames' /\ Retries'
    BY <1>1, <1>5 DEF StrandInv, Own, OwnSocket, OwnFrames, Retries, Quiet, Here, socketVars
  <2>2. Guest'
    BY <1>1, <1>5 DEF StrandInv, Own, Guest
  <2>3. Attended' /\ AuthComes'
    BY <1>1, <1>5, StillAttended, StillComing DEF StrandInv
  <2> QED
    BY <2>1, <2>2, <2>3 DEF Own
<1> QED
  BY <1>3, <1>4, <1>5 DEF JoinAnswered

LEMMA RetryStrand == ASSUME StrandInv, RetryConnection PROVE Own' /\ AuthComes' /\ Attended'
<1>0. SocketTyped /\ ViewTyped /\ page \in Rooms /\ Here \in Pages
  BY HereTyped DEF RetryConnection, StrandInv, PageTyped, SocketInv, ViewTyped, Visited
<1>1. /\ page # NoRoom /\ ~waiting
      /\ UNCHANGED <<page, waiting, approved, crossed, retried, tokens, joining, member, visits>>
  BY DEF RetryConnection, callVars
<1>2. Guest'
  BY <1>1 DEF Guest
<1>3. CASE ws = "open"
  <2>1. SendAll(Handshake(page)) /\ UNCHANGED <<ws, toClient, peer>>
    BY <1>3 DEF RetryConnection
  <2>2. Says(Handshake(page))
    BY <1>0, <2>1, HandshakeElems, SendAllEffect
  <2>3. OwnSocket' /\ OwnFrames' /\ AuthComes' /\ (Undisturbed' => Sure')
    BY <1>0, <1>1, <2>1, <2>2, SaidStrand
  <2>4. Retries'
    BY <1>3, <2>1 DEF Retries
  <2> QED
    BY <1>2, <2>3, <2>4, SureAttended DEF Own
<1>4. CASE ws # "open"
  <2>1. ConnectSocket(Here)
    BY <1>4 DEF RetryConnection
  <2>2. CASE Fresh /\ ws' = "connecting" /\ client'.room = Here.room /\ client'.room \in Rooms
    BY <1>1, <1>2, <2>2, FreshStrand DEF Own, Here
  <2>3. CASE UNCHANGED socketVars /\ (status' = "disconnected" \/ ws \in {"connecting", "open"})
    <3>1. OwnSocket' /\ OwnFrames' /\ Retries'
      BY <1>1, <2>3 DEF StrandInv, Own, OwnSocket, OwnFrames, Retries, Quiet, socketVars
    <3>2. AuthComes' /\ ~Undisturbed'
      BY <1>4, <2>3, StillComing DEF StrandInv, Undisturbed, socketVars
    <3> QED
      BY <1>2, <3>1, <3>2, SureAttended DEF Own
  <2> QED
    BY <1>0, <2>1, <2>2, <2>3, ConnectSocketCases
<1> QED
  BY <1>3, <1>4

LEMMA LeaveStrand == ASSUME LeavePage PROVE Own' /\ AuthComes' /\ Attended'
<1>1. page' = NoRoom /\ waiting' = FALSE /\ Disconnect
  BY DEF LeavePage
<1>2. client'.room = NoRoom /\ ws' = "none"
  BY <1>1, DisconnectEffect
<1>3. Own' /\ AuthComes' /\ ~Undisturbed'
  BY <1>1, <1>2
  DEF Own, OwnSocket, OwnFrames, Retries, Guest, AuthComes, Undisturbed, Quiet
<1> QED
  BY <1>3, SureAttended

LEMMA OpenStrand ==
  ASSUME StrandInv, NEW r \in Rooms, OpenPage(r) PROVE Own' /\ AuthComes' /\ Attended'
<1>0. SocketTyped /\ r # NoRoom
  BY PageAssumption DEF StrandInv, PageTyped, SocketInv
<1>1. /\ page = NoRoom /\ page' = r /\ waiting' = FALSE /\ crossed' = crossed
      /\ (Connect(r) \/ (status' = "disconnected" /\ UNCHANGED socketVars))
  BY DEF OpenPage, ConnectSocket, Here
<1>2. Guest'
  BY <1>1 DEF Guest
<1>3. Quiet' => client.room = NoRoom /\ ws \in {"none", "closed"}
  BY <1>1 DEF Quiet, StrandInv, Own, OwnSocket
<1>4. CASE Fresh /\ ws' = "connecting" /\ client'.room = r
  BY <1>0, <1>1, <1>2, <1>4, FreshStrand DEF Own
<1>5. CASE UNCHANGED socketVars /\ (status' = "disconnected" \/ client.room = r)
  <2>1. AuthComes' /\ ~Undisturbed'
    BY <1>3, <1>5, StillComing DEF StrandInv, Undisturbed, socketVars
  <2>2. OwnSocket'
    BY <1>0, <1>1, <1>3, <1>5 DEF StrandInv, Own, OwnSocket, socketVars
  <2>3. OwnFrames'
    <3>1. Quiet' => toServer = <<>>
      BY <1>3 DEF StrandInv, PageTyped, SocketInv, Alive
    <3>2. Quiet' => Elems(toServer') = {}
      BY <1>5, <3>1, ElemsEmpty DEF socketVars
    <3> QED
      BY <1>0, <1>1, <1>3, <1>5, <3>2 DEF OwnFrames, socketVars
  <2>4. Retries'
    BY <1>0, <1>3, <1>5 DEF Retries, socketVars
  <2> QED
    BY <1>2, <2>1, <2>2, <2>3, <2>4, SureAttended DEF Own
<1>6. \/ Fresh /\ ws' = "connecting" /\ client'.room = r
      \/ UNCHANGED socketVars /\ (status' = "disconnected" \/ client.room = r)
  <2>1. CASE Connect(r)
    BY <1>0, <2>1, ConnectEffect DEF socketVars
  <2> QED
    BY <1>1, <2>1
<1> QED
  BY <1>4, <1>5, <1>6

LEMMA HostStrand ==
  ASSUME StrandInv, NEW r \in Rooms, Approve(r) \/ Kick(r)
  PROVE  Own' /\ AuthComes' /\ Attended'
<1>0. member \in [Rooms -> {"no", "pending", "yes"}] /\ (page # NoRoom => page \in Rooms)
  BY DEF StrandInv, PageTyped, ViewTyped
<1>1. /\ UNCHANGED <<page, waiting, crossed, retried, notice, status, tokens, joining, visits>>
      /\ UNCHANGED socketVars
  BY DEF Approve, Kick, viewVars, callVars
<1>2. \/ /\ member' = [member EXCEPT ![r] = "yes"] /\ approved' = (approved \/ page = r)
      \/ /\ member' = [member EXCEPT ![r] = "no"] /\ approved' = approved
  BY DEF Approve, Kick, viewVars
<1>3. /\ approved => approved'
      /\ page # NoRoom => \/ member'[page] = member[page]
                          \/ approved'
                          \/ member'[page] = "no"
  <2>1. CASE member' = [member EXCEPT ![r] = "yes"] /\ approved' = (approved \/ page = r)
    <3>1. \A q \in Rooms : member'[q] = IF q = r THEN "yes" ELSE member[q]
      BY <1>0, <2>1
    <3>2. (approved => approved') /\ (page = r => approved')
      BY <2>1
    <3> QED
      BY <1>0, <3>1, <3>2
  <2>2. CASE member' = [member EXCEPT ![r] = "no"] /\ approved' = approved
    <3>1. \A q \in Rooms : member'[q] = IF q = r THEN "no" ELSE member[q]
      BY <1>0, <2>2
    <3> QED
      BY <1>0, <2>2, <3>1
  <2> QED
    BY <1>2, <2>1, <2>2
<1>4. OwnSocket' /\ OwnFrames' /\ Retries'
  BY <1>1 DEF StrandInv, Own, OwnSocket, OwnFrames, Retries, Quiet, Here, socketVars
<1>5. Guest'
  BY <1>1, <1>3 DEF StrandInv, Own, Guest
<1>6. AuthComes'
  BY <1>1, StillComing DEF StrandInv
<1>7. Attended'
  <2>1. CASE approved'
    BY <2>1, SureAttended DEF Undisturbed
  <2>2. CASE ~approved'
    BY <1>1, <1>3, <2>2, StillAttended DEF StrandInv
  <2> QED
    BY <2>1, <2>2
<1> QED
  BY <1>4, <1>5, <1>6, <1>7 DEF Own

LEMMA StrandStep == StrandInv /\ [PageNext]_pageVars => StrandInv'
<1> SUFFICES ASSUME StrandInv, [PageNext]_pageVars PROVE StrandInv'
  OBVIOUS
<1>1. PageTyped'
  BY PageTypedStep DEF StrandInv
<1>2. CASE UNCHANGED pageVars
  <2>1. /\ UNCHANGED socketVars
        /\ UNCHANGED <<page, waiting, approved, crossed, notice, status, tokens, joining, member,
                       visits>>
    BY <1>2 DEF pageVars, socketVars
  <2>2. OwnSocket' /\ OwnFrames' /\ Retries' /\ Guest'
    BY <2>1 DEF StrandInv, Own, OwnSocket, OwnFrames, Retries, Guest, Quiet, Here, socketVars
  <2>3. AuthComes' /\ Attended'
    BY <2>1, StillAttended, StillComing DEF StrandInv
  <2> QED
    BY <1>1, <2>2, <2>3 DEF StrandInv, Own
<1>3. CASE PageNext
  <2>1. Own' /\ AuthComes' /\ Attended'
    BY <1>3, PollStrand, OpensStrand, EndsStrand, AuthOkStrand, HearsStrand, ReadsStrand,
       LostStrand, TokenStrand, TimerStrand, JoinStrand, RetryStrand, LeaveStrand, OpenStrand,
       HostStrand
    DEF PageNext, PageStep, Hears
  <2> QED
    BY <1>1, <2>1 DEF StrandInv
<1> QED
  BY <1>2, <1>3

LEMMA InitStrand == PageInit => StrandInv
<1> SUFFICES ASSUME PageInit PROVE StrandInv
  OBVIOUS
<1>1. PageTyped
  BY PageInitTyped
<1>2. page = NoRoom /\ ~waiting /\ client.room = NoRoom /\ ws = "none"
  BY DEF PageInit, NoClient
<1>3. Own /\ AuthComes
  BY <1>2 DEF Own, OwnSocket, OwnFrames, Retries, Guest, AuthComes, Quiet
<1>4. Attended
  BY <1>2 DEF Attended, MemberSure, LoadSure, ShownUnder, Undisturbed
<1> QED
  BY <1>1, <1>3, <1>4 DEF StrandInv

\* A page that is shown and undisturbed, with nothing under way, is in its room: as long
\* as it is not, some call, timer, frame or notice of its own accounts for it.
THEOREM PageComesIn == PageSpec => []PageNotStranded
  BY InitStrand, StrandStep, NotStranded, PTL DEF PageSpec

-----------------------------------------------------------------------------
(* All of them, as they are checked.                                       *)

Chosen == chosen \in {"clock", "broker", "page"}

LinksInv == Chosen /\ TypeOK /\ RabbitTyped /\ PageTyped

\* The types of the clocks, the broker connection and the page's socket hold in the
\* model that runs one of them.
THEOREM LinksTypes == LinksSpec => []LinksTypeOK
<1>1. LinksInit => LinksInv
  <2>1. Init => TypeOK
    BY BoundsAssumption DEF Init, TypeOK, Stamps
  <2> QED
    BY <2>1, RabbitInitTyped, PageInitTyped DEF LinksInit, LinksInv, Chosen
<1>2. LinksInv /\ [LinksNext]_linksVars => LinksInv'
  <2>1. [LinksNext]_linksVars => [Next]_vars /\ [RabbitNext]_rabbitVars /\ [PageNext]_pageVars
    BY DEF LinksNext, OfClock, OfBroker, OfPage, linksVars
  <2>2. Chosen /\ [LinksNext]_linksVars => Chosen'
    BY DEF LinksNext, OfClock, OfBroker, OfPage, linksVars, Chosen
  <2> QED
    BY <2>1, <2>2, ClockTypes, RabbitTypedStep, PageTypedStep DEF LinksInv
<1>3. LinksInv => LinksTypeOK
  <2>1. LinksInv => RabbitTypeOK /\ PageTypeOK
    BY PageTypeParts DEF LinksInv, RabbitTyped, PageTyped, SocketInv
  <2> QED
    BY <2>1 DEF LinksInv, LinksTypeOK, Chosen
<1> QED
  BY <1>1, <1>2, <1>3, PTL DEF LinksSpec

=============================================================================
