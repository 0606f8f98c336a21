-------------------------- MODULE MCSnapshotFiles --------------------------
(* Model values and symmetries for the TLC run of SnapshotFiles.           *)
EXTENDS SnapshotFiles, TLC

CONSTANTS t1, t2, v1, v2

Symmetry == Permutations(Threads) \cup Permutations(Values)
=============================================================================
