----------------------------- MODULE MCBaseline -----------------------------
(* The baseline cache, for TLC. *)
EXTENDS BaselineInvariant, TLC

\* Children and workloads are interchangeable; the runs check safety only.
Symmetry == Permutations(Children) \cup Permutations(Workloads)
=============================================================================
