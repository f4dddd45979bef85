-------------------------- MODULE MCSourceControl --------------------------
EXTENDS SourceControl, TLC
CONSTANTS o1, o2, a, b
TwoOps == {o1, o2}
TwoSources == {a, b}
Symmetry == Permutations(TwoSources) \cup Permutations(TwoOps)
=============================================================================
