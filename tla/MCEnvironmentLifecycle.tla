----------------------- MODULE MCEnvironmentLifecycle -----------------------
(* Processes are interchangeable, and so are the identities of Sandboxes.   *)
EXTENDS EnvironmentLifecycleInvariant, TLC

Interchangeable == Permutations(Procs) \cup Permutations(Sandboxes)
=============================================================================
