------------------------------- MODULE MCLanes -------------------------------
(* Lanes of one repository, for TLC. *)
EXTENDS LanesInvariant, TLC

\* Commands, names and paths are interchangeable; the run checks safety only.
Symmetry == Permutations(Procs) \cup Permutations(Names) \cup Permutations(Paths)
=============================================================================
