-------------------------- MODULE MCCanvasConsumer --------------------------
EXTENDS CanvasConsumer

CONSTANTS p1, p2, w1, w2

TimesMC == 1..MaxEvents
ValuesMC == 0..MaxEvents

\* Two slots of one process, and one slot of each of two processes.
SameProcess == [w \in {w1, w2} |-> p1]
OneEach == [w \in {w1, w2} |-> IF w = w1 THEN p1 ELSE p2]
OneWorker == [w \in {w1} |-> p1]

=============================================================================
