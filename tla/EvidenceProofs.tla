--------------------------- MODULE EvidenceProofs ---------------------------
(* A promotable run is proven, for every number of runs, gates, profilers and *)
(* edits, as long as no edit restores an earlier version of the candidate.    *)
EXTENDS PipelineProofs, EvidenceInvariant

\* What Holds(r, l) reads besides l.
heldVars == <<state, sourceHash, integrityHash, candidateHash, manifest, treeVars, fileVars>>

\* A step that moves one program counter and leaves alone what the invariant reads.
LEMMA HeldJump ==
    ASSUME IInv, TypeOK', UNCHANGED heldVars, NEW r \in Runs, NEW l,
           pc' = [pc EXCEPT ![r] = l], Holds(r, l)
    PROVE  IInv'
<1>1. \A q \in Runs : pc'[q] = IF q = r THEN l ELSE pc[q]
  BY DEF IInv, TypeOK
<1>2. \A q \in Runs : Holds(q, pc'[q])
  BY <1>1 DEF IInv
<1>3. \A q \in Runs : Holds(q, pc[q])'
  BY <1>2 DEF heldVars, treeVars, fileVars, Holds, NothingEarly, StateFollowsCode, SourceIsBound,
     ProtectedAgree, SourcesAgree, GatesGathered, BenchmarkGathered, ProfilesGathered, Own, Have,
     Judged
<1>4. (HashesArePast /\ ReportsArePast /\ ReportsFollowHashes)'
  BY DEF IInv, heldVars, treeVars, fileVars, HashesArePast, ReportsArePast, ReportsFollowHashes
<1>q. QED BY <1>3, <1>4 DEF IInv

\* An exception, an exit, a crash or a FAILED to record owes nothing new.
LEMMA HeldStop ==
    ASSUME IInv, NEW r \in Runs, NEW l, l.what \in {"-", "FAILED"}, ~Preparing(l),
           l.op \notin CommandOps, l.what = "-" => l.op \notin StateOps
    PROVE  Holds(r, l)
<1>1. Holds(r, pc[r])
  BY DEF IInv
<1> USE DEF Validating, Late, Holds
<1>2. NothingEarly(r, l) /\ StateFollowsCode(r, l)
  BY DEF NothingEarly, StateFollowsCode, Preparing, CommandOps, StateOps
<1>3. SourceIsBound(r, l)
  BY <1>1 DEF SourceIsBound
<1>4. ProtectedAgree(r, l) /\ SourcesAgree(r, l)
  BY <1>1 DEF CommandOps, ProtectedAgree, SourcesAgree, Judged
<1>5. GatesGathered(r, l)
  BY <1>1 DEF GatesGathered, PastGate
<1>6. BenchmarkGathered(r, l) /\ ProfilesGathered(r, l)
  BY <1>1 DEF BenchmarkGathered, PastBenchmark, ProfilesGathered, PastProfile
<1>q. QED BY <1>2, <1>3, <1>4, <1>5, <1>6

\* The labels Raise, a crash and the end of a pipeline lead to.
LEMMA HeldPlain ==
    ASSUME IInv, NEW r \in Runs,
           NEW op \in {"done", "raised", "crashed", "except", "finish", "readiness"}
    PROVE  Holds(r, At(op, "-", 0))
<1>1. ~Preparing(At(op, "-", 0)) /\ op \notin CommandOps \cup StateOps
  BY DEF Preparing, At, CommandOps, StateOps
<1>q. QED BY <1>1, HeldStop DEF At

\* What a step of another run leaves alone.
LEMMA HeldOther ==
    ASSUME IInv, NEW q \in Runs, pc'[q] = pc[q], state'[q] = state[q],
           sourceHash'[q] = sourceHash[q], integrityHash'[q] = integrityHash[q],
           candidateHash'[q] = candidateHash[q],
           \A e : e.run = q => (e \in evidence' <=> e \in evidence),
           \A f \in (reports \cup orphans \cup evidence)' : f.by = q =>
               \E g \in reports \cup orphans \cup evidence : g.by = q /\ g.what = f.what
    PROVE  Holds(q, pc[q])'
<1>1. Holds(q, pc[q])
  BY DEF IInv
<1> USE DEF Holds
<1>2. NothingEarly(q, pc[q])'
  BY <1>1 DEF NothingEarly
<1>3. StateFollowsCode(q, pc[q])' /\ SourceIsBound(q, pc[q])'
  BY <1>1 DEF StateFollowsCode, SourceIsBound
<1>4. ProtectedAgree(q, pc[q])' /\ SourcesAgree(q, pc[q])'
  BY <1>1 DEF ProtectedAgree, SourcesAgree, Own, Judged
<1>5. \A what, i : Have(q, what, i) => Have(q, what, i)'
  BY DEF Have
<1>6. GatesGathered(q, pc[q])' /\ BenchmarkGathered(q, pc[q])' /\ ProfilesGathered(q, pc[q])'
  BY <1>1, <1>5 DEF GatesGathered, BenchmarkGathered, ProfilesGathered
<1>q. QED BY <1>2, <1>3, <1>4, <1>6

\* Until its source is bound a run owes only that it has measured nothing yet.
LEMMA HeldEarly ==
    ASSUME IInv, NEW r \in Runs, Preparing(pc[r]), state[r] \notin Late,
           NEW l, Preparing(l), l.what \notin Validating \cup Late,
           l.what \notin {"VERIFIED", "BENCHMARKED"}
    PROVE  Holds(r, l)
<1>1. Holds(r, pc[r])
  BY DEF IInv
<1> USE DEF Validating, Holds, Late
<1>2. NothingEarly(r, l) /\ StateFollowsCode(r, l)
  BY <1>1 DEF NothingEarly, StateFollowsCode
<1>3. SourceIsBound(r, l) /\ ProtectedAgree(r, l) /\ SourcesAgree(r, l)
  BY DEF SourceIsBound, ProtectedAgree, SourcesAgree, Judged
<1>4. GatesGathered(r, l) /\ BenchmarkGathered(r, l) /\ ProfilesGathered(r, l)
  BY DEF GatesGathered, PastGate, BenchmarkGathered, PastBenchmark, ProfilesGathered, PastProfile
<1>q. QED BY <1>2, <1>3, <1>4

\* The labels of a validation that is not judged yet: what its row and the evidence
\* must be for the run to stand there.
Underway(r, l) ==
    /\ ~Preparing(l) /\ state[r] \notin Late /\ sourceHash[r] = candidateHash[r]
    /\ l.op \in CommandOps \cup StateOps
    /\ l.what \in Validating \cup {"VERIFIED", "BENCHMARKED"}
    /\ l.what = "benchmark" => l.i = 1
    /\ \A j \in 1 .. NumGates : PastGate(l, j) => Have(r, "gate", j)
    /\ PastBenchmark(l) => Have(r, "benchmark", 1)
    /\ \A j \in 1 .. NumProfilers : PastProfile(l, j) => Have(r, "candidate-profile", j)

\* Underway is all that a label of an unjudged validation owes.
LEMMA HeldUnderway ==
    ASSUME NEW r \in Runs, NEW l, Underway(r, l), ~(l.op = "rehash" /\ l.what = "candidate-profile")
    PROVE  Holds(r, l)
<1> USE DEF CommandOps, StateOps, Validating, Holds, Underway
<1>1. NothingEarly(r, l) /\ StateFollowsCode(r, l)
  BY DEF NothingEarly, StateFollowsCode, Late
<1>2. SourceIsBound(r, l) /\ ProtectedAgree(r, l) /\ SourcesAgree(r, l)
  BY DEF SourceIsBound, ProtectedAgree, SourcesAgree, Judged
<1>3. GatesGathered(r, l) /\ BenchmarkGathered(r, l) /\ ProfilesGathered(r, l)
  BY DEF GatesGathered, BenchmarkGathered, ProfilesGathered
<1>q. QED BY <1>1, <1>2, <1>3

\* A pipeline that stands at a label of a validation is underway.
LEMMA UnderwayHere ==
    ASSUME IInv, NEW r \in Runs, ~Preparing(pc[r]),
           pc[r].what \in Validating \cup {"VERIFIED", "BENCHMARKED"},
           pc[r].op \in CommandOps \cup {"transition", "emit"}, state[r] \notin Late
    PROVE  Underway(r, pc[r])
<1>1. Holds(r, pc[r])
  BY DEF IInv
<1>q. QED
  BY <1>1 DEF Holds, Underway, CommandOps, StateOps, Validating, StateFollowsCode, SourceIsBound,
     GatesGathered, BenchmarkGathered, ProfilesGathered

\* A run that has been judged stays judged wherever its process goes next.
LEMMA HeldJudged ==
    ASSUME IInv, NEW r \in Runs, Judged(r, pc[r]), NEW l, l.op \in StateOps, ~Preparing(l),
           l.what \in RunState \ {"PROMOTED"},
           l.op = "update" /\ l.what = "PROMOTABLE" => state[r] \in Late,
           l.op = "emit" => l.what \in Late \cup {"FAILED"}
    PROVE  Holds(r, l)
<1>1. Holds(r, pc[r])
  BY DEF IInv
<1> USE DEF CommandOps, StateOps, Validating, RunState, Holds, Judged
<1>2. NothingEarly(r, l) /\ StateFollowsCode(r, l)
  BY DEF NothingEarly, StateFollowsCode
<1>3. SourceIsBound(r, l) /\ ProtectedAgree(r, l) /\ SourcesAgree(r, l)
  BY <1>1 DEF SourceIsBound, ProtectedAgree, SourcesAgree
<1>4. GatesGathered(r, l) /\ BenchmarkGathered(r, l) /\ ProfilesGathered(r, l)
  BY <1>1 DEF GatesGathered, PastGate, BenchmarkGathered, PastBenchmark, ProfilesGathered, PastProfile
<1>q. QED BY <1>2, <1>3, <1>4

-----------------------------------------------------------------------------
(* One lemma per group of actions.                                           *)

\* The steps of transition around the UPDATE, and what fails.
LEMMA HeldTransition ==
    ASSUME IInv, TypeOK', NEW r \in Runs,
           CheckTransition(r) \/ EmitState(r) \/ StoreFails(r) \/ FileFails(r) \/ HandleException(r)
    PROVE  IInv'
<1> USE DEF Raise, Goto, Jump
<1>1. UNCHANGED heldVars
  BY DEF CheckTransition, EmitState, StoreFails, FileFails, HandleException, notPc, rowVars, localVars,
         heldVars, treeVars, fileVars
<1>2. Holds(r, pc[r]) /\ (pc[r].op \in StateOps => pc[r].what \in RunState)
  BY LabelParts DEF IInv
<1>3. CASE CheckTransition(r)
  <2> DEFINE l == At("update", pc[r].what, 0)
  <2>1. CASE ~Allowed(state[r], pc[r].what)
    BY <1>1, <1>3, <2>1, HeldPlain, HeldJump DEF CheckTransition
  <2>2. CASE Allowed(state[r], pc[r].what)
    <3>1. pc[r].what \in RunState \ {"PROMOTED"}
      BY <1>2, <1>3 DEF CheckTransition, Is, StateOps, Holds, StateFollowsCode
    <3>2. Holds(r, l)
      <4>1. CASE pc[r].what = "FAILED"
        BY <4>1, HeldStop DEF At, Preparing, CommandOps
      <4>2. CASE pc[r].what \in {"CREATED", "PREFLIGHTED", "BASELINED", "PROFILED_BASELINE", "OPTIMIZING"}
        <5>1. state[r] \notin Late /\ pc[r].what # "CREATED"
          BY <2>2, <4>2 DEF Allowed, STATES, Late
        <5>q. QED BY <4>2, <5>1, HeldEarly DEF At, Preparing, Late, Validating
      <4>3. CASE pc[r].what \in {"VERIFIED", "BENCHMARKED"}
        <5>1. state[r] \notin Late
          BY <2>2, <4>3 DEF Allowed, STATES, Late
        <5>2. Underway(r, pc[r])
          BY <1>3, <4>3, <5>1, UnderwayHere DEF CheckTransition, Is, Preparing
        <5>3. Underway(r, l)
          BY <4>3, <5>2 DEF Underway, At, StateOps, Preparing, PastGate, PastBenchmark, PastProfile
        <5>q. QED BY <5>3, HeldUnderway DEF At
      <4>4. CASE pc[r].what \in {"PROFILED_CANDIDATE", "PROMOTABLE"}
        <5>1. Judged(r, pc[r]) /\ (pc[r].what = "PROMOTABLE" => state[r] \in Late)
          BY <2>2, <4>4 DEF Judged, Allowed, STATES, Late
        <5>q. QED BY <3>1, <4>4, <5>1, HeldJudged DEF At, StateOps, Preparing
      <4>q. QED BY <3>1, <4>1, <4>2, <4>3, <4>4 DEF RunState
    <3>q. QED BY <1>1, <1>3, <2>2, <3>2, HeldJump DEF CheckTransition
  <2>q. QED BY <2>1, <2>2
<1>4. CASE EmitState(r)
  <2> USE DEF EmitState, Is
  <2>1. CASE pc[r].what \in {"PREFLIGHTED", "BASELINED", "PROFILED_BASELINE", "OPTIMIZING"}
    <3>1. state[r] \notin Late /\ Preparing(pc[r])
      BY <1>2, <1>4, <2>1 DEF Holds, StateFollowsCode, Late, Preparing
    <3>2. \A op, what, i :
             Preparing(At(op, what, i)) /\ what \notin Validating \cup Late \cup {"VERIFIED", "BENCHMARKED"}
                => Holds(r, At(op, what, i))
      BY <3>1, HeldEarly DEF At
    <3>q. QED BY <1>1, <1>4, <2>1, <3>2, HeldPlain, HeldJump DEF Preparing, Validating, Late, At
  <2>2. CASE pc[r].what \in {"VERIFIED", "BENCHMARKED"}
    <3>1. Underway(r, pc[r])
      BY <1>2, <1>4, <2>2, UnderwayHere DEF Holds, StateFollowsCode, Late, Preparing
    <3>2. pc[r].what = "VERIFIED" => Holds(r, At("launch", "benchmark", 1))
      BY <3>1, HeldUnderway DEF Underway, At, CommandOps, Validating, Preparing, PastGate,
         PastBenchmark, PastProfile
    <3>3. pc[r].what = "BENCHMARKED" => Holds(r, At("launch", "candidate-profile", 1))
      BY <3>1, HeldUnderway DEF Underway, At, CommandOps, Validating, Preparing, PastGate,
         PastBenchmark, PastProfile
    <3>q. QED BY <1>1, <1>4, <2>2, <3>2, <3>3, HeldJump
  <2>3. CASE pc[r].what = "PROFILED_CANDIDATE"
    <3>1. Holds(r, At("transition", "PROMOTABLE", 0))
      BY <2>3, HeldJudged DEF Judged, At, StateOps, Preparing, RunState
    <3>q. QED BY <1>1, <1>4, <2>3, <3>1, HeldJump
  <2>4. CASE pc[r].what \in {"PROMOTABLE", "FAILED"}
    BY <1>1, <1>4, <2>4, HeldPlain, HeldJump
  <2>q. QED BY <1>4, <2>1, <2>2, <2>3, <2>4
<1>5. CASE StoreFails(r) \/ FileFails(r)
  BY <1>1, <1>5, HeldPlain, HeldJump DEF StoreFails, FileFails
<1>6. CASE HandleException(r)
  <2>1. Holds(r, At("update", "FAILED", 0))
    BY HeldStop DEF At, Preparing, CommandOps
  <2>q. QED BY <1>1, <1>6, <2>1, HeldPlain, HeldJump DEF HandleException
<1>q. QED BY <1>3, <1>4, <1>5, <1>6

\* A pipeline that is not validating yet.
LEMMA EarlyHere ==
    ASSUME IInv, NEW r \in Runs, Preparing(pc[r]), pc[r].op \notin StateOps
    PROVE  /\ state[r] \notin Late
           /\ \A op, what, i :
                 Preparing(At(op, what, i)) /\ what \notin Validating \cup Late \cup {"VERIFIED", "BENCHMARKED"}
                    => Holds(r, At(op, what, i))
<1>1. pc[r] \in Label /\ StateFollowsCode(r, pc[r])
  BY DEF IInv, TypeOK, Holds
<1>2. state[r] \notin Late
  BY <1>1 DEF StateFollowsCode, Label, CommandOps, StateOps, Ops, Resting, Preparing
<1>q. QED BY <1>2, HeldEarly DEF At

\* A pipeline that runs or checks a validation command.
LEMMA CommandHere ==
    ASSUME IInv, NEW r \in Runs, pc[r].op \in CommandOps, pc[r].what \in Validating
    PROVE  Underway(r, pc[r])
<1>1. ~Preparing(pc[r]) /\ StateFollowsCode(r, pc[r])
  BY DEF IInv, Holds, Preparing, CommandOps, Validating
<1>q. QED BY <1>1, UnderwayHere DEF StateFollowsCode

\* _verify_integrity: protected files bound at the start and seen again after the last profile are the files every report of the run saw.
LEMMA HeldVerify ==
    ASSUME IInv, TypeOK', NEW r \in Runs, VerifyIntegrity(r)
    PROVE  IInv'
<1> USE DEF VerifyIntegrity, Raise, Goto, Jump, Is
<1>1. UNCHANGED heldVars
  BY DEF notPc, rowVars, localVars, heldVars, treeVars, fileVars
<1>2. Holds(r, pc[r]) /\ pc[r].what \in Commands \cup {"prepare", "validate"} /\ pc[r].i \in Nat
  BY LabelParts DEF IInv
<1>3. CASE pc[r].what \notin Validating
  <2>1. Preparing(pc[r])
    BY <1>2, <1>3 DEF Preparing, Commands, Captures, Validating
  <2>2. \A op, what, i :
           Preparing(At(op, what, i)) /\ what \notin Validating \cup Late \cup {"VERIFIED", "BENCHMARKED"}
              => Holds(r, At(op, what, i))
    BY <2>1, EarlyHere DEF StateOps
  <2>q. QED
    BY <1>1, <1>3, <2>2, HeldPlain, HeldJump DEF Preparing, Validating, Late, At
<1>4. CASE pc[r].what \in Validating
  <2>1. Underway(r, pc[r])
    BY <1>4, CommandHere DEF CommandOps
  <2> USE <1>2, <1>4, <2>1, HeldUnderway DEF Underway, At, CommandOps, StateOps, Preparing
  <2>2. pc[r].what = "gate" => Holds(r, At("rehash", "gate", pc[r].i))
    BY DEF PastGate, PastBenchmark, PastProfile, Validating
  <2>3. pc[r].what = "benchmark" => Holds(r, At("transition", "BENCHMARKED", 0))
    BY DEF PastGate, PastBenchmark, PastProfile
  <2>4. pc[r].what = "candidate-profile" => Holds(r, At("launch", "candidate-profile", pc[r].i + 1))
    BY DEF PastGate, PastBenchmark, PastProfile
  <2>5. ASSUME pc[r].what = "candidate-profile", pc[r].i = NumProfilers, integrityHash[r] = protected
        PROVE  Holds(r, At("rehash", "candidate-profile", pc[r].i))
    <3>1. \A e \in evidence : Own(e, r) => e.protected = integrityHash[r]
      BY <2>5 DEF IInv, TypeOK, Evidence, Hash, NoHash, ReportsArePast, ReportsFollowHashes, Own
    <3>2. ProtectedAgree(r, At("rehash", "candidate-profile", pc[r].i))
      BY <3>1 DEF ProtectedAgree
    <3> USE <2>5 DEF Holds
    <3>3. /\ NothingEarly(r, At("rehash", "candidate-profile", pc[r].i))
          /\ StateFollowsCode(r, At("rehash", "candidate-profile", pc[r].i))
          /\ SourceIsBound(r, At("rehash", "candidate-profile", pc[r].i))
          /\ SourcesAgree(r, At("rehash", "candidate-profile", pc[r].i))
      BY DEF NothingEarly, StateFollowsCode, SourceIsBound, SourcesAgree, Judged
    <3>4. /\ GatesGathered(r, At("rehash", "candidate-profile", pc[r].i))
          /\ BenchmarkGathered(r, At("rehash", "candidate-profile", pc[r].i))
          /\ ProfilesGathered(r, At("rehash", "candidate-profile", pc[r].i))
      BY DEF GatesGathered, BenchmarkGathered, ProfilesGathered, PastGate, PastBenchmark, PastProfile
    <3>q. QED BY <3>2, <3>3, <3>4
  <2>q. QED
    BY ONLY <1>1, <1>4, <2>2, <2>3, <2>4, <2>5, HeldPlain, HeldJump, VerifyIntegrity(r), IInv, TypeOK'
       DEF Validating
<1>q. QED BY <1>3, <1>4

\* The last re-hash: the version bound before the first gate is the version every report of the run measured.
LEMMA HeldRehash ==
    ASSUME IInv, TypeOK', NEW r \in Runs, RehashCandidate(r)
    PROVE  IInv'
<1> USE DEF RehashCandidate, Raise, Goto, Jump, Is
<1>1. UNCHANGED heldVars
  BY DEF notPc, rowVars, localVars, heldVars, treeVars, fileVars
<1>2. Holds(r, pc[r]) /\ pc[r].what \in Commands /\ pc[r].i \in Nat
  BY LabelParts DEF IInv, CommandOps
<1>3. CASE pc[r].what \notin {"gate", "candidate-profile"} \/ candidate # candidateHash[r]
  BY <1>1, <1>3, HeldPlain, HeldJump
<1>4. CASE pc[r].what = "gate" /\ candidate = candidateHash[r]
  <2>1. Underway(r, pc[r])
    BY <1>4, CommandHere DEF CommandOps, Validating
  <2> USE <1>2, <1>4, <2>1, HeldUnderway DEF Underway, At, CommandOps, StateOps, Preparing
  <2>2. Holds(r, At("launch", "gate", pc[r].i + 1))
    BY DEF PastGate, PastBenchmark, PastProfile
  <2>3. pc[r].i = NumGates => Holds(r, At("transition", "VERIFIED", 0))
    BY DEF PastGate, PastBenchmark, PastProfile
  <2>q. QED
    BY ONLY <1>1, <1>4, <2>2, <2>3, HeldPlain, HeldJump, RehashCandidate(r), IInv, TypeOK'
<1>5. CASE pc[r].what = "candidate-profile" /\ candidate = candidateHash[r]
  <2> DEFINE l == At("transition", "PROFILED_CANDIDATE", 0)
  <2>1. Underway(r, pc[r])
    BY <1>5, CommandHere DEF CommandOps, Validating
  <2>2. pc[r].i = NumProfilers
    BY <1>2, <1>5 DEF Holds, StateFollowsCode
  <2>3. \A e \in evidence : Own(e, r) => e.source = candidateHash[r]
    BY <1>5 DEF IInv, TypeOK, Evidence, Hash, NoHash, ReportsArePast, ReportsFollowHashes, Own
  <2>4. ProtectedAgree(r, l) /\ SourcesAgree(r, l)
    BY <1>2, <1>5, <2>3 DEF Holds, ProtectedAgree, SourcesAgree
  <2>5. NothingEarly(r, l) /\ StateFollowsCode(r, l) /\ SourceIsBound(r, l)
    BY <2>1 DEF Underway, At, NothingEarly, StateFollowsCode, SourceIsBound, Preparing, CommandOps, Late
  <2>6. GatesGathered(r, l) /\ BenchmarkGathered(r, l) /\ ProfilesGathered(r, l)
    BY <1>2, <1>5, <2>1, <2>2, ConfigAssumption
       DEF Underway, At, GatesGathered, BenchmarkGathered, ProfilesGathered, PastGate, PastBenchmark, PastProfile
  <2>q. QED BY <1>1, <1>5, <2>4, <2>5, <2>6, HeldJump DEF Holds
<1>q. QED BY <1>2, <1>3, <1>4, <1>5

\* The steps of Judge that change nothing the invariant reads.
LEMMA HeldJudgePlain ==
    ASSUME IInv, TypeOK', NEW r \in Runs,
           \/ Preflight(r) \/ AgentExits(r) \/ BeginValidation(r) \/ WriteReadiness(r)
           \/ FinishCheckpoint(r)
    PROVE  IInv'
<1> USE DEF Raise, Goto, Jump, Is
<1>1. UNCHANGED heldVars
  BY DEF Preflight, AgentExits, BeginValidation, WriteReadiness, FinishCheckpoint, notPc, rowVars, localVars,
         heldVars, treeVars, fileVars
<1>2. CASE AgentExits(r)
  <2>1. Preparing(pc[r]) /\ pc[r].op \notin StateOps
    BY <1>2 DEF AgentExits, Preparing, StateOps
  <2>2. Holds(r, At("validate", "-", 0))
    BY <2>1, EarlyHere DEF Preparing, At, Validating, Late
  <2>q. QED BY <1>1, <1>2, <2>2, HeldPlain, HeldJump DEF AgentExits
<1>3. CASE BeginValidation(r)
  <2>1. Preparing(pc[r]) /\ pc[r].op \notin StateOps
    BY <1>3 DEF BeginValidation, Preparing, StateOps
  <2>2. Holds(r, At("verify", "validate", 0))
    BY <2>1, EarlyHere DEF Preparing, At, Validating, Late
  <2>q. QED BY <1>1, <1>3, <2>2, HeldPlain, HeldJump DEF BeginValidation
<1>4. CASE WriteReadiness(r)
  BY <1>1, <1>4, HeldPlain, HeldJump DEF WriteReadiness
<1>5. CASE FinishCheckpoint(r)
  BY <1>1, <1>5, HeldPlain, HeldJump DEF FinishCheckpoint
<1>6. CASE Preflight(r)
  <2>1. Preparing(pc[r]) /\ pc[r].op \notin StateOps
    BY <1>6 DEF Preflight, Preparing, StateOps
  <2>2. Holds(r, At("launch", "smoke", 1))
    BY <2>1, EarlyHere DEF Preparing, At, Validating, Late
  <2>q. QED BY <1>1, <1>6, <2>2, HeldPlain, HeldJump DEF Preflight
<1>q. QED BY <1>2, <1>3, <1>4, <1>5, <1>6

\* The steps that bind a hash: the run has measured nothing yet that it could belie.
LEMMA HeldBind ==
    ASSUME IInv, TypeOK', NEW r \in Runs,
           ReadManifest(r) \/ BindIntegrity(r) \/ HashCandidate(r) \/ BindSource(r)
    PROVE  IInv'
<1> USE DEF ReadManifest, BindIntegrity, HashCandidate, BindSource, Goto, Jump, Is, rowVars, treeVars, fileVars
<1>1. Preparing(pc[r]) /\ pc[r].op \notin StateOps /\ Holds(r, pc[r])
  BY DEF Preparing, StateOps, IInv
<1>2. state[r] \notin Late
  BY <1>1, EarlyHere
<1>3. UNCHANGED <<state, fileVars, treeVars>>
  BY DEF localVars
<1>4. \A q \in Runs \ {r} : /\ pc'[q] = pc[q] /\ sourceHash'[q] = sourceHash[q]
                            /\ integrityHash'[q] = integrityHash[q]
                            /\ candidateHash'[q] = candidateHash[q]
  BY DEF IInv, TypeOK, localVars
<1>5. \A q \in Runs \ {r} : Holds(q, pc[q])'
  <2> TAKE q \in Runs \ {r}
  <2>q. QED BY <1>3, <1>4, HeldOther
<1>6. \A f \in reports \cup orphans \cup evidence : f.by = r => f.what \notin Validating
  BY <1>1 DEF Holds, NothingEarly
<1>7. HashesArePast'
  BY DEF IInv, TypeOK, HashesArePast, localVars, Hash, NoHash
<1>8. ReportsArePast' /\ ReportsFollowHashes'
  <2>1. \A f \in reports \cup evidence : f.by \in Runs
    BY DEF IInv, TypeOK, Report, Evidence
  <2>q. QED BY <1>3, <1>4, <1>6, <2>1 DEF IInv, ReportsArePast, ReportsFollowHashes
<1>9. Holds(r, pc[r])'
  <2> USE DEF At, Holds
  <2>1. \/ pc'[r] = At("launch", "gate", 1) /\ sourceHash'[r] = candidateHash'[r]
        \/ \E op \in {"insert", "runFiles", "bindSource"} : pc'[r] = At(op, "-", 0)
    <3>1. CASE BindSource(r)
      BY <3>1 DEF IInv, TypeOK, localVars
    <3>2. CASE ReadManifest(r) \/ BindIntegrity(r) \/ HashCandidate(r)
      BY <3>2 DEF IInv, TypeOK
    <3>q. QED BY <3>1, <3>2
  <2>2. NothingEarly(r, pc[r])' /\ StateFollowsCode(r, pc[r])'
    BY <1>2, <1>3, <1>6, <2>1 DEF NothingEarly, StateFollowsCode, CommandOps, StateOps
  <2>3. SourceIsBound(r, pc[r])' /\ ProtectedAgree(r, pc[r])' /\ SourcesAgree(r, pc[r])'
    BY <1>2, <1>3, <2>1 DEF SourceIsBound, ProtectedAgree, SourcesAgree, Judged, Validating
  <2>4. GatesGathered(r, pc[r])' /\ BenchmarkGathered(r, pc[r])' /\ ProfilesGathered(r, pc[r])'
    BY <1>2, <1>3, <2>1 DEF GatesGathered, PastGate, BenchmarkGathered, PastBenchmark,
                            ProfilesGathered, PastProfile
  <2>q. QED BY <2>2, <2>3, <2>4
<1>q. QED BY <1>5, <1>7, <1>8, <1>9 DEF IInv

\* The steps that write the state of a row.
LEMMA HeldRow ==
    ASSUME IInv, TypeOK', NEW r \in Runs, StartRun(r) \/ UpdateState(r)
    PROVE  IInv'
<1> USE DEF StartRun, UpdateState, SetState, Goto, Jump, Is
<1>1. UNCHANGED <<sourceHash, integrityHash, localVars, treeVars, fileVars>>
  OBVIOUS
<1>2. \A q \in Runs \ {r} : pc'[q] = pc[q] /\ state'[q] = state[q]
  BY DEF IInv, TypeOK
<1>3. \A q \in Runs \ {r} : Holds(q, pc[q])'
  <2> TAKE q \in Runs \ {r}
  <2>q. QED BY <1>1, <1>2, HeldOther DEF localVars, fileVars
<1>4. HashesArePast' /\ ReportsArePast' /\ ReportsFollowHashes'
  BY <1>1 DEF IInv, HashesArePast, ReportsArePast, ReportsFollowHashes, localVars, treeVars, fileVars
<1>5. Holds(r, pc[r]) /\ (pc[r].op \in StateOps => pc[r].what \in RunState)
  BY LabelParts DEF IInv
<1>6. Holds(r, pc[r])'
  <2> USE DEF Holds, localVars, fileVars
  <2>1. CASE StartRun(r)
    <3>1. pc'[r] = At("bindIntegrity", "-", 0) /\ state'[r] \notin Late
      BY <2>1 DEF IInv, TypeOK, Late
    <3>2. NothingEarly(r, pc[r])' /\ StateFollowsCode(r, pc[r])'
      BY <1>1, <1>5, <2>1, <3>1 DEF NothingEarly, StateFollowsCode, At, Preparing, StateOps
    <3>3. SourceIsBound(r, pc[r])' /\ ProtectedAgree(r, pc[r])' /\ SourcesAgree(r, pc[r])'
      BY <3>1 DEF At, SourceIsBound, ProtectedAgree, SourcesAgree, Judged, Validating
    <3>4. GatesGathered(r, pc[r])' /\ BenchmarkGathered(r, pc[r])' /\ ProfilesGathered(r, pc[r])'
      BY <3>1 DEF At, GatesGathered, PastGate, BenchmarkGathered, PastBenchmark, ProfilesGathered,
                  PastProfile
    <3>q. QED BY <3>2, <3>3, <3>4
  <2>2. CASE UpdateState(r)
    <3>1. /\ pc'[r] = At("emit", pc[r].what, 0) /\ state'[r] = pc[r].what
          /\ pc[r].what \in RunState \ {"PROMOTED"}
      BY <1>5, <2>2 DEF IInv, TypeOK, StateFollowsCode, StateOps
    <3>2. Preparing(pc'[r]) => Preparing(pc[r])
      BY <3>1 DEF At, Preparing
    <3>3. NothingEarly(r, pc[r])' /\ StateFollowsCode(r, pc[r])'
      BY <1>1, <1>5, <3>1, <3>2 DEF NothingEarly, StateFollowsCode, At, CommandOps, StateOps, RunState, Late
    <3>4. state'[r] \in Late => Judged(r, pc[r])
      BY <1>5, <2>2, <3>1 DEF Judged, StateFollowsCode, Late
    <3>5. SourceIsBound(r, pc[r])'
      BY <1>1, <1>5, <3>1, <3>4 DEF At, SourceIsBound, Judged
    <3>6. ProtectedAgree(r, pc[r])' /\ SourcesAgree(r, pc[r])'
      BY <1>1, <1>5, <3>1, <3>4 DEF At, ProtectedAgree, SourcesAgree, Judged, Own, Late
    <3>7. \A what, i : Have(r, what, i) => Have(r, what, i)'
      BY <1>1 DEF Have
    <3>8. GatesGathered(r, pc[r])' /\ BenchmarkGathered(r, pc[r])' /\ ProfilesGathered(r, pc[r])'
      BY <1>5, <3>1, <3>4, <3>7 DEF At, Judged, Late, GatesGathered, PastGate, BenchmarkGathered, PastBenchmark,
                       ProfilesGathered, PastProfile
    <3>q. QED BY <3>3, <3>5, <3>6, <3>8
  <2>q. QED BY <2>1, <2>2
<1>q. QED BY <1>3, <1>4, <1>6 DEF IInv

\* The files of new_run are no evidence.
LEMMA HeldRunFiles ==
    ASSUME IInv, TypeOK', NEW r \in Runs, WriteRunFiles(r)
    PROVE  IInv'
<1> USE DEF WriteRunFiles, Goto, Jump, Is
<1>1. UNCHANGED heldVars
  BY DEF notPc, rowVars, localVars, heldVars, treeVars, fileVars
<1>2. Preparing(pc[r]) /\ pc[r].op \notin StateOps
  BY DEF Preparing, StateOps
<1>3. Holds(r, At("preflight", "-", 0)) /\ Holds(r, At("verify", "prepare", 0))
  BY <1>2, EarlyHere DEF Preparing, At, Validating, Late
<1>q. QED BY <1>1, <1>3, HeldPlain, HeldJump

\* Running a command and judging its output: the labels.
LEMMA HeldParse ==
    ASSUME IInv, TypeOK', NEW r \in Runs, ParseReport(r)
    PROVE  IInv'
<1> USE DEF ParseReport, Raise, Goto, Jump, Is
<1>1. UNCHANGED heldVars
  BY DEF notPc, rowVars, localVars, heldVars, treeVars, fileVars
<1>2. Holds(r, pc[r]) /\ pc[r].what \in Commands /\ pc[r].i \in Nat
  BY LabelParts DEF IInv, CommandOps
<1>3. CASE pc[r].what \notin Validating
  <2>1. Preparing(pc[r])
    BY <1>2, <1>3 DEF Preparing, Commands, Captures, Validating
  <2>2. \A op, what, i :
           Preparing(At(op, what, i)) /\ what \notin Validating \cup Late \cup {"VERIFIED", "BENCHMARKED"}
              => Holds(r, At(op, what, i))
    BY <2>1, EarlyHere DEF StateOps
  <2>3. Preparing(At("launch", pc[r].what, pc[r].i + 1)) /\ Preparing(At("verify", pc[r].what, pc[r].i))
    BY <1>2, <1>3 DEF Preparing, At, Commands, Captures, Validating
  <2>4. Preparing(At("transition", "PREFLIGHTED", 0))
    BY DEF Preparing, At
  <2>5. /\ Holds(r, At("launch", pc[r].what, pc[r].i + 1)) /\ Holds(r, At("verify", pc[r].what, pc[r].i))
        /\ Holds(r, At("transition", "PREFLIGHTED", 0))
    BY <1>2, <1>3, <2>2, <2>3, <2>4 DEF Validating, Late, Commands, Captures
  <2>q. QED BY <1>1, <1>3, <2>5, HeldPlain, HeldJump DEF Validating
<1>4. CASE pc[r].what \in Validating
  <2>1. Underway(r, pc[r])
    BY <1>4, CommandHere DEF CommandOps
  <2>2. pc[r].what = "candidate-profile" => Holds(r, At("verify", pc[r].what, pc[r].i))
    BY <1>2, <2>1, HeldUnderway DEF Underway, At, CommandOps, Preparing, PastGate, PastBenchmark, PastProfile
  <2>q. QED BY <1>1, <1>4, <2>2, HeldPlain, HeldJump DEF Validating
<1>q. QED BY <1>3, <1>4

\* What a command writes, if it writes, is a report of the tree as it is now.
LEMMA WrittenReport ==
    ASSUME NEW what, NEW i, NEW by, NEW f \in Written(what, i, by)
    PROVE  f \in reports \/ (f.what = what /\ f.by = by /\ f.source = candidate /\ f.protected = protected)
BY DEF Written

\* The steps of a command: it starts, and it ends or is given up.
LEMMA HeldCommand ==
    ASSUME IInv, TypeOK', NEW r \in Runs,
           LaunchCommand(r) \/ CommandReturns(r) \/ CommandTimesOut(r) \/ CrashPipeline(r)
    PROVE  IInv'
<1> USE DEF LaunchCommand, CommandReturns, CommandTimesOut, CrashPipeline, Raise, Goto, Jump, Is, localVars
<1>1. UNCHANGED <<state, sourceHash, integrityHash, candidateHash, manifest, treeVars, evidence>>
  BY DEF rowVars
<1>2. pc' = [pc EXCEPT ![r] = pc'[r]] /\ \A q \in Runs \ {r} : pc'[q] = pc[q]
  BY DEF IInv, TypeOK
<1>3. pc[r] \in Label /\ pc[r].i \in Nat /\ Holds(r, pc[r])
  BY LabelParts DEF IInv, TypeOK
<1>4. /\ \A f \in reports' \ reports : /\ f.by = r /\ f.what = pc[r].what /\ pc[r].op = "run"
                                       /\ f.source = candidate /\ f.protected = protected
      /\ \A o \in orphans' \ orphans : o.by = r /\ o.what = pc[r].what /\ pc[r].op = "run"
  BY WrittenReport
<1>5. pc[r].op = "run" /\ Preparing(pc[r]) => pc[r].what \notin Validating
  BY <1>3 DEF Preparing, Validating, Label, CommandOps, StateOps, Ops
<1>6. \A q \in Runs \ {r} : Holds(q, pc[q])'
  <2> TAKE q \in Runs \ {r}
  <2>1. \A f \in (reports \cup orphans \cup evidence)' : f.by = q => f \in reports \cup orphans \cup evidence
    BY <1>1, <1>4
  <2>q. QED BY <1>1, <1>2, <2>1, HeldOther
<1>7. HashesArePast' /\ ReportsArePast'
  BY <1>1, <1>4 DEF IInv, TypeOK, HashesArePast, ReportsArePast, treeVars
<1>8. ReportsFollowHashes'
  BY <1>1, <1>4 DEF IInv, HashesArePast, ReportsFollowHashes, treeVars
<1>9. Holds(r, pc'[r])
  <2>1. CASE \E op \in {"except", "crashed"} : pc'[r] = At(op, "-", 0)
    BY <2>1, HeldPlain
  <2>2. CASE \E op \in {"run", "collect"} : pc'[r] = At(op, pc[r].what, pc[r].i) /\ pc[r].op \in {"launch", "run"}
    <3>1. CASE pc[r].what \in Validating
      <4>1. Underway(r, pc[r])
        BY <2>2, <3>1, CommandHere DEF CommandOps
      <4>q. QED BY <2>2, <4>1, HeldUnderway
            DEF Underway, At, CommandOps, Preparing, PastGate, PastBenchmark, PastProfile
    <3>2. CASE pc[r].what \notin Validating
      <4>1. /\ Preparing(pc[r]) /\ pc[r].op \notin StateOps
            /\ pc[r].what \notin Validating \cup Late \cup {"VERIFIED", "BENCHMARKED"}
        BY <1>3, <2>2, <3>2 DEF Label, CommandOps, StateOps, Ops, Preparing, Commands, Captures, Validating, Late
      <4>2. \A op \in {"run", "collect"} : Preparing(At(op, pc[r].what, pc[r].i))
        BY <2>2, <4>1 DEF Preparing, At
      <4>q. QED BY <2>2, <4>1, <4>2, EarlyHere
    <3>q. QED BY <3>1, <3>2
  <2>q. QED BY <2>1, <2>2 DEF IInv, TypeOK
<1>10. Preparing(pc'[r]) => Preparing(pc[r])
  BY DEF IInv, TypeOK, Preparing, At
<1>11. NothingEarly(r, pc[r])'
  <2>1. Preparing(pc[r]) => \A f \in (reports \cup orphans \cup evidence)' :
            f.by = r => f.what \notin Validating
    BY <1>1, <1>3, <1>4, <1>5 DEF Holds, NothingEarly
  <2>2. Preparing(pc[r])' <=> Preparing(pc'[r])
    BY DEF Preparing
  <2>q. QED BY <1>10, <2>1, <2>2 DEF NothingEarly
<1>12. Holds(r, pc[r])'
  BY <1>1, <1>9, <1>11 DEF Holds, StateFollowsCode, SourceIsBound, ProtectedAgree, SourcesAgree,
     GatesGathered, BenchmarkGathered, ProfilesGathered, Own, Have, Judged
<1>q. QED BY <1>6, <1>7, <1>8, <1>12 DEF IInv

\* A report becomes evidence of the run that collects it.
LEMMA HeldCollect ==
    ASSUME IInv, TypeOK', NEW r \in Runs, CollectEvidence(r)
    PROVE  IInv'
<1> USE DEF CollectEvidence, Raise, Goto, Jump, Is, rowVars, localVars
<1>1. /\ pc[r] \in Label /\ pc[r].what \in Commands /\ pc[r].i \in Nat /\ Holds(r, pc[r])
      /\ pc[r].op = "collect" /\ pc[r].op \notin StateOps /\ pc[r].op \in CommandOps
  BY LabelParts DEF IInv, TypeOK, CommandOps, StateOps
<1>2. CASE Raise(r) /\ UNCHANGED evidence
  BY <1>2, HeldPlain, HeldJump DEF heldVars, fileVars
<1>3. ASSUME NEW f \in ReportOf(r), NEW e,
             e = [run |-> r, what |-> pc[r].what, i |-> pc[r].i, by |-> f.by, source |-> f.source,
                  unhashed |-> f.unhashed, protected |-> f.protected],
             evidence' = evidence \cup {e},
             \/ pc[r].what \in Captures /\ Jump(r, "parse", pc[r].what, pc[r].i)
             \/ pc[r].what = "baseline" /\ Jump(r, "transition", "BASELINED", 0)
             \/ pc[r].what \in {"gate", "benchmark"} /\ Jump(r, "verify", pc[r].what, pc[r].i)
      PROVE  IInv'
  <2>1. /\ f \in reports /\ e.run = r /\ e.what = pc[r].what /\ e.i = pc[r].i
        /\ e.by = f.by /\ e.what = f.what /\ e.source = f.source /\ e.protected = f.protected
    BY <1>3 DEF ReportOf
  <2>2. HashesArePast' /\ ReportsArePast' /\ ReportsFollowHashes'
    BY <1>3, <2>1 DEF IInv, HashesArePast, ReportsArePast, ReportsFollowHashes, treeVars
  <2>3. \A q \in Runs \ {r} : Holds(q, pc[q])'
    <3> TAKE q \in Runs \ {r}
    <3>1. \A d : d.run = q => (d \in evidence' <=> d \in evidence)
      BY <1>3, <2>1
    <3>2. \A g \in (reports \cup orphans \cup evidence)' : g.by = q =>
              \E h \in reports \cup orphans \cup evidence : h.by = q /\ h.what = g.what
      BY <1>3, <2>1
    <3>q. QED BY <3>1, <3>2, HeldOther DEF IInv, TypeOK
  <2>4. /\ pc'[r].op \in {"parse", "transition", "verify"}
        /\ pc'[r] = At(pc'[r].op, pc'[r].what, pc'[r].i)
        /\ pc'[r].op = "transition" => pc[r].what = "baseline" /\ pc'[r].what = "BASELINED"
        /\ pc'[r].op # "transition" => pc'[r].what = pc[r].what /\ pc'[r].i = pc[r].i
        /\ pc'[r].op = "parse" => pc[r].what \in Captures
        /\ pc'[r].op = "verify" => pc[r].what \in {"gate", "benchmark"}
    BY <1>3 DEF IInv, TypeOK, At
  <2>5. state[r] \notin Late
    BY <1>1 DEF Holds, StateFollowsCode
  <2> USE DEF Holds
  <2>6. Preparing(pc'[r]) <=> Preparing(pc[r])
    BY <1>1, <2>4 DEF Preparing
  <2>7. NothingEarly(r, pc[r])'
    <3>1. Preparing(pc[r]) => \A g \in reports \cup orphans \cup evidence' :
              g.by = r => g.what \notin Validating
      BY <1>1, <1>3, <2>1 DEF NothingEarly
    <3>2. Preparing(pc[r])' <=> Preparing(pc'[r])
      BY DEF Preparing
    <3>q. QED BY <2>6, <3>1, <3>2 DEF NothingEarly
  <2>8. StateFollowsCode(r, pc[r])' /\ SourceIsBound(r, pc[r])'
    BY <1>1, <2>4, <2>5 DEF StateFollowsCode, SourceIsBound, CommandOps, StateOps, Validating, Captures
  <2>9. ProtectedAgree(r, pc[r])' /\ SourcesAgree(r, pc[r])'
    BY <2>4, <2>5 DEF ProtectedAgree, SourcesAgree, Judged, Captures
  <2>10. /\ \A what, i : Have(r, what, i) => Have(r, what, i)'
         /\ \E d \in evidence' : d.run = r /\ d.what = pc[r].what /\ d.i = pc[r].i
    BY <1>3, <2>1 DEF Have
  <2>11. GatesGathered(r, pc[r])' /\ BenchmarkGathered(r, pc[r])' /\ ProfilesGathered(r, pc[r])'
    <3>1. \A what, i : Have(r, what, i)' <=> \E d \in evidence' : d.run = r /\ d.what = what /\ d.i = i
      BY DEF Have
    <3>q. QED BY <1>1, <2>4, <2>5, <2>10, <3>1 DEF GatesGathered, PastGate, BenchmarkGathered, PastBenchmark,
       ProfilesGathered, PastProfile, StateFollowsCode, Captures, Commands
  <2>q. QED BY <2>2, <2>3, <2>7, <2>8, <2>9, <2>11 DEF IInv
<1>q. QED BY <1>2, <1>3

\* Edits only ever make the tree newer, and an orphan reports the tree as it is now.
LEMMA HeldEnvironment ==
    ASSUME IInv, TypeOK', ~Reverts, Environment
    PROVE  IInv'
<1>1. CASE EditCandidate \/ EditUnhashed \/ EditProtected
  <2> USE DEF EditCandidate, EditUnhashed, EditProtected, rowVars, localVars, fileVars
  <2>1. UNCHANGED <<rowVars, pc, localVars, fileVars>>
    BY <1>1
  <2>2. candidate' >= candidate /\ protected' >= protected
    BY <1>1 DEF IInv, TypeOK
  <2>3. HashesArePast' /\ ReportsArePast' /\ ReportsFollowHashes'
    <3>1. \A f \in reports \cup evidence : f.source \in Nat /\ f.protected \in Nat
      BY DEF IInv, TypeOK, Report, Evidence
    <3>2. candidate' \in Nat /\ protected' \in Nat
      BY DEF TypeOK
    <3>3. HashesArePast'
      <4>1. \A r \in Runs : manifest[r] \in Hash /\ integrityHash[r] \in Hash /\ candidateHash[r] \in Hash
        BY DEF IInv, TypeOK
      <4>2. \A h \in Hash : /\ h <= protected => h <= protected'
                            /\ h <= candidate => h <= candidate'
        BY <2>2, <3>2 DEF IInv, TypeOK, Hash, NoHash
      <4>q. QED BY <2>1, <4>1, <4>2 DEF IInv, HashesArePast
    <3>4. ReportsFollowHashes'
      BY <2>1 DEF IInv, ReportsFollowHashes
    <3>5. ReportsArePast'
      BY <2>1, <2>2, <3>1, <3>2 DEF IInv, TypeOK, ReportsArePast
    <3>q. QED BY <3>3, <3>4, <3>5
  <2>4. \A q \in Runs : Holds(q, pc[q])'
    BY <2>1, HeldOther
  <2>q. QED BY <2>3, <2>4 DEF IInv
<1>2. CASE OrphanReturns
  <2> USE DEF OrphanReturns, rowVars, localVars, treeVars
  <2>1. PICK o \in orphans : reports' = Written(o.what, o.i, o.by) /\ orphans' = orphans \ {o}
    BY <1>2
  <2>2. o.by \in Runs
    BY DEF IInv, TypeOK
  <2>3. \A f \in reports' \ reports : f.what = o.what /\ f.by = o.by /\ f.source = candidate /\ f.protected = protected
    BY <2>1, WrittenReport
  <2>4. HashesArePast' /\ ReportsArePast'
    BY <1>2, <2>3 DEF IInv, TypeOK, HashesArePast, ReportsArePast
  <2>5. ReportsFollowHashes'
    BY <1>2, <2>2, <2>3 DEF IInv, HashesArePast, ReportsFollowHashes
  <2>6. \A q \in Runs : Holds(q, pc[q])'
    <3> TAKE q \in Runs
    <3>1. \A g \in (reports \cup orphans \cup evidence)' : g.by = q =>
              \E h \in reports \cup orphans \cup evidence : h.by = q /\ h.what = g.what
      BY <1>2, <2>1, <2>3
    <3>q. QED BY <1>2, <3>1, HeldOther
  <2>q. QED BY <2>4, <2>5, <2>6 DEF IInv
<1>q. QED BY <1>1, <1>2 DEF Environment

\* The invariant holds at first.
LEMMA HeldInit == Init => IInv
<1> SUFFICES ASSUME Init PROVE IInv
  OBVIOUS
<1>1. TypeOK
  BY InitType
<1>2. HashesArePast /\ ReportsArePast /\ ReportsFollowHashes
  BY DEF Init, HashesArePast, ReportsArePast, ReportsFollowHashes, NoHash
<1>3. \A r \in Runs : pc[r] = At("idle", "-", 0) /\ state[r] \notin Late
  BY DEF Init, Late, Absent
<1>4. \A r \in Runs : NothingEarly(r, pc[r]) /\ StateFollowsCode(r, pc[r]) /\ SourceIsBound(r, pc[r])
  BY <1>3 DEF Init, At, NothingEarly, StateFollowsCode, SourceIsBound, StateOps, CommandOps, Validating
<1>5. \A r \in Runs : ProtectedAgree(r, pc[r]) /\ SourcesAgree(r, pc[r])
  BY DEF Init, ProtectedAgree, SourcesAgree
<1>6. \A r \in Runs : GatesGathered(r, pc[r]) /\ BenchmarkGathered(r, pc[r]) /\ ProfilesGathered(r, pc[r])
  BY <1>3 DEF At, GatesGathered, PastGate, BenchmarkGathered, PastBenchmark, ProfilesGathered, PastProfile
<1>q. QED BY <1>1, <1>2, <1>4, <1>5, <1>6 DEF IInv, Holds

\* Every step preserves the invariant.
LEMMA HeldStep == ASSUME ~Reverts PROVE IInv /\ [Next]_vars => IInv'
<1> SUFFICES ASSUME IInv, [Next]_vars PROVE IInv'
  OBVIOUS
<1>1. TypeOK'
  BY TypeStep DEF IInv
<1>2. CASE UNCHANGED vars
  BY <1>2 DEF IInv, vars, rowVars, localVars, treeVars, fileVars, TypeOK, HashesArePast, ReportsArePast,
     ReportsFollowHashes, Holds, NothingEarly, StateFollowsCode, SourceIsBound, ProtectedAgree,
     SourcesAgree, GatesGathered, BenchmarkGathered, ProfilesGathered, Own, Have, Judged
<1>3. ASSUME NEW r \in Runs, Pipeline(r) \/ CrashPipeline(r) PROVE IInv'
  <2>1. CASE NewRun(r)
    BY <1>1, <2>1, HeldBind, HeldRow, HeldRunFiles DEF NewRun
  <2>2. CASE Execute(r) \/ CrashPipeline(r)
    BY <1>1, <2>2, HeldCommand, HeldCollect, HeldParse DEF Execute
  <2>3. CASE Judge(r)
    BY <1>1, <2>3, HeldVerify, HeldJudgePlain, HeldBind, HeldRehash DEF Judge
  <2>4. CASE Transition(r)
    BY <1>1, <2>4, HeldTransition, HeldRow DEF Transition
  <2>q. QED BY <1>3, <2>1, <2>2, <2>3, <2>4 DEF Pipeline
<1>4. CASE Environment
  BY <1>1, <1>4, HeldEnvironment
<1>q. QED BY <1>2, <1>3, <1>4 DEF Next

\* The invariant proves what a promotion stands on.
LEMMA HeldProves == IInv => PromotableIsProven
<1> SUFFICES ASSUME IInv, NEW r \in Runs, state[r] \in {"PROMOTABLE", "PROMOTED"}, NEW c \in Required
    PROVE  \E e \in EvidenceFor(r, c) :
               e.by = r => e.source = sourceHash[r] /\ e.protected = integrityHash[r]
  BY DEF PromotableIsProven
<1>1. state[r] \in Late /\ Holds(r, pc[r])
  BY DEF Late, IInv
<1>2. Have(r, c[1], c[2]) /\ c[1] \in Validating /\ c = <<c[1], c[2]>>
  BY <1>1 DEF Required, Gates, Profiles, Holds, GatesGathered, BenchmarkGathered, ProfilesGathered, Validating
<1>3. PICK e \in EvidenceFor(r, c) : e.run = r /\ e.what = c[1]
  BY <1>2 DEF Have, EvidenceFor
<1>4. e.by = r => e.source = candidateHash[r] /\ e.protected = integrityHash[r]
  BY <1>1, <1>2, <1>3 DEF EvidenceFor, Holds, Judged, Own, ProtectedAgree, SourcesAgree
<1>q. QED BY <1>1, <1>3, <1>4 DEF Holds, SourceIsBound

\* The inductive invariant holds as long as no edit restores an earlier version.
THEOREM Inductive == ASSUME ~Reverts PROVE Spec => []IInv
<1>1. Init => IInv
  BY HeldInit
<1>2. IInv /\ [Next]_vars => IInv'
  BY HeldStep
<1>q. QED BY <1>1, <1>2, PTL DEF Spec

\* A run that may be promoted has all its evidence, and its own commands measured the very
\* source and protected files it is bound to: validate_candidate looks often enough, for
\* every config and every interleaving of edits, time-outs, crashes and other runs, as long
\* as no edit restores an earlier version.
THEOREM PromotableProven == ASSUME ~Reverts PROVE Spec => []PromotableIsProven
<1>1. IInv => PromotableIsProven
  BY HeldProves
<1>q. QED BY <1>1, Inductive, PTL
=============================================================================
