----------------------------- MODULE MCTrajectory -----------------------------
(* Trajectory for TLC. *)
EXTENDS TrajectoryInvariant, TLC

CONSTANTS b1, b2, s1, s2, t1, t2, short, long

\* iter-1 occurs in iter-10.
ShortInLong == {<<short, short>>, <<long, long>>, <<short, long>>}

Given(kind, label, prior) == [kind |-> kind, label |-> label, prior |-> prior]
SomeCalls ==
    {Given("report", long, None), Given("compare", None, short), Given("compare", long, long),
     Given("variance", long, None)}

\* Benchmarks, sources and seconds are interchangeable; the run checks safety only.
Symmetry == Permutations({b1, b2}) \cup Permutations({s1, s2}) \cup Permutations({t1, t2})
=============================================================================
