--------------------------- MODULE MCDlsnTracker ---------------------------
EXTENDS DlsnTracker, TLC

\* A fresh volume: nothing was ever appended.
FreshVolume == -1

Symm == Permutations(Writers) \cup Permutations(Legs) \cup Permutations(Readers)
=============================================================================
