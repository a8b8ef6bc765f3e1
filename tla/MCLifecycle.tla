---------------------------- MODULE MCLifecycle ----------------------------
(* Small hosts for model-checking Lifecycle: see the .cfg files.           *)
EXTENDS Lifecycle, TLC

\* Processes and clients are interchangeable.
Symmetry == Permutations(Procs) \cup Permutations(Clients)
=============================================================================
