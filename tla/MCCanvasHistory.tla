-------------------------- MODULE MCCanvasHistory --------------------------
EXTENDS CanvasHistory

TimesMC == 1..MaxEvents
ValuesMC == 0..MaxEvents

=============================================================================
