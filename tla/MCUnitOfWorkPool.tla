-------------------------- MODULE MCUnitOfWorkPool --------------------------
(* UnitOfWorkPool with interchangeable threads and connections.            *)
EXTENDS UnitOfWorkPool, TLC

Symmetry == Permutations(Threads) \cup Permutations(Readers)
=============================================================================
