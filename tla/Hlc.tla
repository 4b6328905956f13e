-------------------------------- MODULE Hlc --------------------------------
(***************************************************************************)
(* The logical clock of crdt/hlc.ts: each ws-backend process keeps the     *)
(* last time it gave to each actor, clamps what it gives and what it       *)
(* receives to MAX_CLOCK_DRIFT_MS after its own wall clock, and forgets    *)
(* everything when it ends.  A restarted process is another member of      *)
(* Processes.                                                              *)
(*                                                                         *)
(* The wall clocks are the environment: they may step back by MaxBack and  *)
(* differ by MaxSkew between processes.  So is the load: a user's events   *)
(* may outrun the clock of a process, one stamp per millisecond, by        *)
(* MaxBurst.  How many stamps a process makes in all is not bounded but    *)
(* for TLC.                                                                *)
(***************************************************************************)
EXTENDS Integers

CONSTANTS Processes,
          Actors,        \* users
          MaxDrift,      \* MAX_CLOCK_DRIFT_MS
          MaxBack,       \* how far a wall clock may step back
          MaxSkew,       \* how far two wall clocks may differ
          MaxBurst,      \* by how many stamps a user may outrun the clock
          MaxTime,       \* bound: the last value of a wall clock
          MaxStamps      \* bound: the timestamps of a behaviour

ASSUME BoundsAssumption ==
  /\ MaxDrift \in Nat /\ MaxBack \in Nat /\ MaxSkew \in Nat /\ MaxBurst \in Nat
  /\ MaxTime \in Nat \ {0} /\ MaxStamps \in Nat

VARIABLES wall,     \* Date.now() of each process
          high,     \* the highest value its wall clock has had
          lastTime, \* lastTimeMap of each process, 0 for a missing actor
          burst,    \* by how much the stamps of an actor outran the clock
          issued,   \* the timestamps generateHLC returned
          made,     \* how many of them there are
          consumed  \* what normalizeLogicalTimestamp made of them

vars == <<wall, high, lastTime, burst, issued, made, consumed>>

\* n is the rank of the call that returned the timestamp.
Stamps == [process : Processes, actorId : Actors, time : Nat, n : 1..MaxStamps]

TypeOK ==
  /\ wall \in [Processes -> 1..MaxTime]
  /\ high \in [Processes -> 1..MaxTime]
  /\ lastTime \in [Processes -> [Actors -> Nat]]
  /\ burst \in [Processes -> [Actors -> 0..MaxBurst]]
  /\ issued \subseteq Stamps
  /\ made \in 0..MaxStamps
  /\ consumed \subseteq [stamp : Stamps, time : Nat]

Larger(x, y) == IF x > y THEN x ELSE y

\* Mutant of ClampLogicalTime: no drift is allowed.
ClampToNow(time, now) == IF time > now THEN now ELSE time

ClampLogicalTime(time, now) == IF time > now + MaxDrift THEN now + MaxDrift ELSE time

Init ==
  /\ wall = [p \in Processes |-> 1]
  /\ high = [p \in Processes |-> 1]
  /\ lastTime = [p \in Processes |-> [a \in Actors |-> 0]]
  /\ burst = [p \in Processes |-> [a \in Actors |-> 0]]
  /\ issued = {}
  /\ made = 0
  /\ consumed = {}

SetClock(p, t) ==
  /\ t >= high[p] - MaxBack
  /\ \A q \in Processes \ {p} : t - wall[q] \in -MaxSkew..MaxSkew
  /\ wall' = [wall EXCEPT ![p] = t]
  /\ high' = [high EXCEPT ![p] = Larger(@, t)]
  /\ burst' = [burst EXCEPT ![p] = [a \in Actors |->
                                      Larger(@[a] - (high'[p] - high[p]), 0)]]
  /\ UNCHANGED <<lastTime, issued, made, consumed>>

Stamping(p, a) ==
  /\ made < MaxStamps /\ made' = made + 1
  /\ burst[p][a] < MaxBurst /\ burst' = [burst EXCEPT ![p][a] = @ + 1]

\* Mutant of GenerateHLC: two calls in one millisecond get one time.
GenerateHLCRepeating(p, a) ==
  LET next == ClampLogicalTime(Larger(lastTime[p][a], wall[p]), wall[p]) IN
  /\ Stamping(p, a)
  /\ lastTime' = [lastTime EXCEPT ![p][a] = next]
  /\ issued' = issued \cup {[process |-> p, actorId |-> a, time |-> next, n |-> made + 1]}
  /\ UNCHANGED <<wall, high, consumed>>

GenerateHLC(p, a) ==
  LET next == ClampLogicalTime(Larger(lastTime[p][a] + 1, wall[p]), wall[p]) IN
  /\ Stamping(p, a)
  /\ lastTime' = [lastTime EXCEPT ![p][a] = next]
  /\ issued' = issued \cup {[process |-> p, actorId |-> a, time |-> next, n |-> made + 1]}
  /\ UNCHANGED <<wall, high, consumed>>

\* The consumer that takes the event may run in any process.  An event without a
\* timestamp, which no handler makes, would be given one here by GenerateHLC.
NormalizeLogicalTimestamp(p, s) ==
  /\ consumed' = consumed \cup {[stamp |-> s, time |-> ClampLogicalTime(s.time, wall[p])]}
  /\ UNCHANGED <<wall, high, lastTime, burst, issued, made>>

Next ==
  \E p \in Processes :
    \/ \E t \in 1..MaxTime : SetClock(p, t)
    \/ \E a \in Actors : GenerateHLC(p, a)
    \/ \E s \in issued : NormalizeLogicalTimestamp(p, s)

Spec == Init /\ [][Next]_vars

-----------------------------------------------------------------------------
\* "Monotonicity per actor per process": a later call of generateHLC returns a
\* later time, also across clock steps and bursts that outrun the clock, as
\* long as the two together stay below MAX_CLOCK_DRIFT_MS.
MonotonicPerProcess ==
  \A s, t \in issued :
    s.process = t.process /\ s.actorId = t.actorId /\ s.n < t.n => s.time < t.time

\* The consumer's clamp leaves the timestamps of a process in their order and
\* distinct, at whatever process and moment each one is normalised: the merge
\* decides as the issuing process ordered them.
ClampKeepsOrder ==
  \A x, y \in consumed :
    /\ x.stamp.process = y.stamp.process
    /\ x.stamp.actorId = y.stamp.actorId
    /\ x.stamp.n < y.stamp.n
    => x.time < y.time

\* The actorId tiebreaker resolves every conflict: compareLogicalTimestamp
\* tells any two timestamps apart.
TiebreakerResolves ==
  \A s, t \in issued : s # t => s.time # t.time \/ s.actorId # t.actorId

=============================================================================
