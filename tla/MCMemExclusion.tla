--------------------------- MODULE MCMemExclusion ---------------------------
(* Small instances of MemExclusion.                                        *)
EXTENDS MemExclusion, TLC

ExclusionSymmetry == Permutations(Addrs) \cup Permutations(Kids) \cup Permutations(Cells)
=============================================================================
