--------------------------- MODULE MCFileLocking ---------------------------
(* TLC instances of FileLocking.                                           *)
EXTENDS FileLocking, TLC

Symmetry == Permutations(Procs)
=============================================================================
