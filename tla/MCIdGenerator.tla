--------------------------- MODULE MCIdGenerator ---------------------------
(* IdGenerator with interchangeable threads.                               *)
EXTENDS IdGenerator, TLC

Symmetry == Permutations(Threads)
=============================================================================
