--------------------------- MODULE MCEditSession ---------------------------
(* EditSession with interchangeable files.                                 *)
EXTENDS EditSession, TLC

Symmetry == Permutations(Files)
=============================================================================
