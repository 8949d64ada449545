---------------------------- MODULE MCFileLocks ----------------------------
(* FileLocks with interchangeable workers and files.                       *)
EXTENDS FileLocks, TLC

Symmetry == Permutations(Workers) \cup Permutations(Files)
=============================================================================
