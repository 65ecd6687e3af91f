--------------------------- MODULE MCKrgCallback ---------------------------
(* Small instances of KrgCallback.                                         *)
EXTENDS KrgCallback, TLC

ToolSymmetry == Permutations(Tools)
=============================================================================
