------------------------- MODULE EvidenceInvariant -------------------------
(***************************************************************************)
(* Why PromotableIsProven holds, as an inductive invariant.  Versions only *)
(* grow, so a report measured after the source was hashed and before it    *)
(* was hashed again with the same result measured that very version.       *)
(***************************************************************************)
EXTENDS ProductionPipeline

Validating == {"gate", "benchmark", "candidate-profile"}
Late == {"PROFILED_CANDIDATE", "PROMOTABLE", "PROMOTED"}

\* The labels a run passes before its source is bound.
Preparing(l) ==
    \/ l.op \in {"idle", "insert", "bindIntegrity", "runFiles", "preflight", "agent", "validate", "hash",
                 "bindSource"}
    \/ l.what \in {"prepare", "validate", "smoke", "baseline", "baseline-profile",
                   "PREFLIGHTED", "BASELINED", "PROFILED_BASELINE", "OPTIMIZING"}

\* A hash taken is a version the tree had by now, and so is what a report measured.
HashesArePast ==
    \A r \in Runs : /\ manifest[r] <= protected
                    /\ integrityHash[r] <= protected
                    /\ candidateHash[r] <= candidate

ReportsArePast ==
    \A f \in reports \cup evidence : f.source <= candidate /\ f.protected <= protected

\* Validation reports are made after the hashes of the run that made them.
ReportsFollowHashes ==
    \A f \in reports \cup evidence : f.what \in Validating =>
        candidateHash[f.by] <= f.source /\ integrityHash[f.by] <= f.protected

-----------------------------------------------------------------------------
(* What holds of a run whose program counter is l.                         *)

\* No process of the run writes a validation report before its source is bound.
NothingEarly(r, l) ==
    Preparing(l) => \A f \in reports \cup orphans \cup evidence :
        f.by = r => f.what \notin Validating

\* Where a run is in the code bounds what its row can say.
StateFollowsCode(r, l) ==
    /\ l.op \in CommandOps \cup {"idle", "insert", "bindIntegrity", "runFiles", "preflight", "agent",
                                 "validate", "hash", "bindSource"} => state[r] \notin Late
    /\ l.op = "emit" /\ l.what \notin Late \cup {"FAILED"} => state[r] \notin Late
    /\ l.op = "update" /\ l.what = "PROMOTABLE" => state[r] \in Late
    /\ l.op \in StateOps => l.what # "PROMOTED"
    /\ l.what = "benchmark" => l.i = 1
    /\ l.op = "rehash" /\ l.what = "candidate-profile" => l.i = NumProfilers

SourceIsBound(r, l) ==
    state[r] \in Late
    \/ l.what \in Validating \cup {"VERIFIED", "BENCHMARKED", "PROFILED_CANDIDATE"} =>
        sourceHash[r] = candidateHash[r]

Own(e, r) == e.run = r /\ e.by = r /\ e.what \in Validating
Judged(r, l) == state[r] \in Late \/ l.what = "PROFILED_CANDIDATE"

ProtectedAgree(r, l) ==
    Judged(r, l) \/ (l.op = "rehash" /\ l.what = "candidate-profile") =>
        \A e \in evidence : Own(e, r) => e.protected = integrityHash[r]

SourcesAgree(r, l) ==
    Judged(r, l) => \A e \in evidence : Own(e, r) => e.source = candidateHash[r]

\* Which evidence exists, at each label.
Have(r, what, i) == \E e \in evidence : e.run = r /\ e.what = what /\ e.i = i

PastGate(l, j) ==
    \/ l.what \in {"VERIFIED", "benchmark", "BENCHMARKED", "candidate-profile",
                   "PROFILED_CANDIDATE"}
    \/ l.what = "gate" /\ (j < l.i \/ (j = l.i /\ l.op \in {"verify", "rehash"}))

PastBenchmark(l) ==
    \/ l.what \in {"BENCHMARKED", "candidate-profile", "PROFILED_CANDIDATE"}
    \/ l.what = "benchmark" /\ l.op = "verify"

PastProfile(l, j) ==
    \/ l.what = "PROFILED_CANDIDATE"
    \/ l.what = "candidate-profile"
       /\ (j < l.i \/ (j = l.i /\ l.op \in {"parse", "verify", "rehash"}))

GatesGathered(r, l) ==
    \A j \in 1 .. NumGates :
        state[r] \in Late \/ PastGate(l, j) => Have(r, "gate", j)

BenchmarkGathered(r, l) ==
    state[r] \in Late \/ PastBenchmark(l) => Have(r, "benchmark", 1)

ProfilesGathered(r, l) ==
    \A j \in 1 .. NumProfilers :
        state[r] \in Late \/ PastProfile(l, j) => Have(r, "candidate-profile", j)

Holds(r, l) ==
    /\ NothingEarly(r, l) /\ StateFollowsCode(r, l) /\ SourceIsBound(r, l)
    /\ ProtectedAgree(r, l) /\ SourcesAgree(r, l)
    /\ GatesGathered(r, l) /\ BenchmarkGathered(r, l) /\ ProfilesGathered(r, l)

\* The inductive invariant.
IInv ==
    /\ TypeOK /\ HashesArePast /\ ReportsArePast /\ ReportsFollowHashes
    /\ \A r \in Runs : Holds(r, pc[r])
=============================================================================
