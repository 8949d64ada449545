--------------------------- MODULE MCAccessControl ---------------------------
\* Users, files and threads are interchangeable.
EXTENDS AccessControl, TLC

Symmetry == Permutations(Users) \cup Permutations(Files) \cup Permutations(Threads)
=============================================================================
