------------------------ MODULE MCCanvasCompaction ------------------------
EXTENDS CanvasCompaction

SymmetryMC == Permutations(Compactors)
TimesMC == 1..MaxEvents
ValuesMC == 0..MaxEvents

=============================================================================
