---------------------------- MODULE MCWorktrees ----------------------------
EXTENDS Worktrees, TLC
CONSTANTS s1, s2
Two == {s1, s2}
Alike == Permutations(Two)
=============================================================================
