-------------------------- MODULE MCEnvironmentFork --------------------------
(* Processes are interchangeable, and so are fresh Environment ids.         *)
EXTENDS EnvironmentForkInvariant, TLC

Interchangeable == Permutations(Procs) \cup Permutations(Targets)
=============================================================================
