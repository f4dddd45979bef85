---------------------------- MODULE MCAttention ----------------------------
EXTENDS Attention, ScreenReaders, TLC
CONSTANTS p1, p2
TwoPrompts == {p1, p2}
Symmetry == Permutations(TwoPrompts)
=============================================================================
