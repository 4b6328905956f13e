------------------------------ MODULE Timeline ------------------------------
(***************************************************************************)
(* apps/ai-service/src/timeline.ts: the drawings, messages and transcript  *)
(* segments of a room on one time line, cut into windows.                  *)
(*                                                                         *)
(* Drawings and messages carry a wall clock time.  A segment carries       *)
(* offsets from the start of its session and the time its row was created: *)
(* the session is taken to have started at the median of created - end.    *)
(* The median of an even number may fall between two milliseconds, so      *)
(* times on the line are in half milliseconds.  Texts are left out, an     *)
(* item is named by what it came from.                                     *)
(***************************************************************************)
EXTENDS Integers, Sequences, FiniteSets

CONSTANTS Clock,       \* wall clock times of drawings and messages
          Offsets,     \* startMs and endMs of segments
          MaxSegments, \* bound: segments
          WindowMs,    \* the length of a window (30 000)
          EpochMs,     \* offsets above are wall clock times (10^12)
          MaxInt       \* the largest value of an integer column (2^31 - 1)

ASSUME TimelineAssumption ==
  /\ Clock \subseteq Int /\ Offsets \subseteq Int
  /\ WindowMs \in Nat \ {0} /\ EpochMs \in Int /\ MaxInt \in Nat

VARIABLES written,   \* the times of drawings and messages
          spoken,    \* the segments
          line,      \* the items of both, at their times
          cursor,    \* where the next window starts
          windows

timelineVars == <<written, spoken, line, cursor, windows>>

Segments == {s \in [start : Offsets, end : Offsets, created : Clock] : s.start <= s.end}

Base(s) == s.created - s.end

\* The k-th of the bases in ascending order.
Kth(k) ==
  CHOOSE b \in {Base(s) : s \in spoken} :
    /\ Cardinality({s \in spoken : Base(s) < b}) < k
    /\ Cardinality({s \in spoken : Base(s) <= b}) >= k

\* Twice the median of the bases.
Median ==
  LET n == Cardinality(spoken)
  IN Kth((n + 1) \div 2) + Kth(n \div 2 + 1)

\* No base if any segment bears a wall clock time.
Relative == spoken # {} /\ \A s \in spoken : s.start <= EpochMs

SpokenAt(s, base) ==
  IF Relative THEN base + 2 * s.start
  ELSE IF s.start > EpochMs THEN 2 * s.start ELSE 2 * s.created

BuildUnifiedTimeline ==
  LET base == IF Relative THEN Median ELSE 0
  IN {[t |-> 2 * w, from |-> <<"written", w>>] : w \in written}
     \cup {[t |-> SpokenAt(s, base), from |-> <<"spoken", s>>] : s \in spoken}

LineStart == CHOOSE t \in {i.t : i \in line} : \A i \in line : t <= i.t

LineEnd == CHOOSE t \in {i.t : i \in line} : \A i \in line : t >= i.t

\* Whole milliseconds since the first item, as the column can hold them.
ToRelativeInt(t) ==
  LET ms == (t - LineStart) \div 2
  IN IF ms < 0 THEN 0 ELSE IF ms > MaxInt THEN MaxInt ELSE ms

\* Mutant of Chunk: the end of a window belongs to it.
ChunkWithEnd(from, to) ==
  [startMs |-> ToRelativeInt(from), endMs |-> ToRelativeInt(to),
   items |-> {i \in line : from <= i.t /\ i.t <= to}]

Chunk(from, to) ==
  [startMs |-> ToRelativeInt(from), endMs |-> ToRelativeInt(to),
   items |-> {i \in line : from <= i.t /\ i.t < to}]

TimelineTypeOK ==
  /\ written \subseteq Clock
  /\ spoken \subseteq Segments
  /\ \A i \in line : i.t \in Int
  /\ cursor \in Int
  /\ windows \in Seq([startMs : 0..MaxInt, endMs : 0..MaxInt, items : SUBSET line])

TimelineInit ==
  /\ written \in SUBSET Clock /\ IsFiniteSet(written)
  /\ spoken \in {S \in SUBSET Segments : IsFiniteSet(S) /\ Cardinality(S) <= MaxSegments}
  /\ line = BuildUnifiedTimeline
  /\ cursor = IF line = {} THEN 0 ELSE LineStart
  /\ windows = <<>>

\* An empty window leaves no chunk.
Window ==
  LET chunk == Chunk(cursor, cursor + 2 * WindowMs)
  IN /\ line # {} /\ cursor <= LineEnd
     /\ windows' = IF chunk.items = {} THEN windows ELSE Append(windows, chunk)
     /\ cursor' = cursor + 2 * WindowMs
     /\ UNCHANGED <<written, spoken, line>>

TimelineNext == Window

TimelineSpec == TimelineInit /\ [][TimelineNext]_timelineVars

Cut == line = {} \/ cursor > LineEnd

-----------------------------------------------------------------------------

\* When the loop is over each item is in exactly one chunk, whichever windows are empty
\* and wherever the last item falls, and the times that chunk stores enclose it.
ChunksHold ==
  Cut => \A i \in line :
    LET holding == {n \in 1..Len(windows) : i \in windows[n].items}
    IN /\ Cardinality(holding) = 1
       /\ \A n \in holding :
            windows[n].startMs <= ToRelativeInt(i.t) /\ ToRelativeInt(i.t) <= windows[n].endMs

=============================================================================
