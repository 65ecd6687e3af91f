------------------------ MODULE MCCheckpointRestart ------------------------
(* Small instances of CheckpointRestart.                                   *)
EXTENDS CheckpointRestart, TLC

ProcSymmetry == Permutations(Procs) \cup Permutations(RProcs)
=============================================================================
