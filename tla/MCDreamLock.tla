---------------------------- MODULE MCDreamLock ----------------------------
(* Symmetries for the TLC runs of DreamLock.                               *)
EXTENDS DreamLock, TLC

Symmetry == Permutations(Processes) \cup Permutations(Sessions)
=============================================================================
