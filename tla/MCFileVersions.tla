--------------------------- MODULE MCFileVersions ---------------------------
(* FileVersions on small instances: the tasks are interchangeable, and so  *)
(* are the names.                                                          *)
EXTENDS FileVersions, TLC

Symmetry == Permutations(Workers) \cup Permutations(Names)
=============================================================================
