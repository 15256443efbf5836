---------------------------- MODULE MCMemCluster ----------------------------
(***************************************************************************)
(* MemCluster for TLC: followers are interchangeable.                      *)
(***************************************************************************)
EXTENDS MemClusterInvariant, TLC

Symm == Permutations(Replicas \ {Leader})
=============================================================================
