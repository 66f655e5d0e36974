------------------------- MODULE MCRuntimeLifecycle --------------------------
(***************************************************************************)
(* Small instances of RuntimeLifecycle.                                    *)
(***************************************************************************)
EXTENDS RuntimeLifecycle, TLC

\* Runs of the command line, process ids and ports are interchangeable.
Symmetry == Permutations(Commands) \cup Permutations(Pids) \cup Permutations(Ports)
=============================================================================
