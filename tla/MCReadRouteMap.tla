--------------------------- MODULE MCReadRouteMap ---------------------------
EXTENDS ReadRouteMap, TLC

Symm == Permutations(Members) \cup Permutations(Rings) \cup Permutations(Blocks)
=============================================================================
