-------------------------- MODULE PromotionProofs --------------------------
(* Theorems about the promote commands that run beside the pipelines, and  *)
(* their proofs, for any number of both.                                   *)
EXTENDS PromotionInvariant, EvidenceProofs

-----------------------------------------------------------------------------
(* The pipelines.                                                          *)

\* A pipeline that only moves on, and to no state of its row but its next.
LEMMA SettledJump ==
    ASSUME TypeOK, RowsSettled, UNCHANGED state, NEW r \in Runs, NEW l,
           pc' = [pc EXCEPT ![r] = l],
           l.op \in StateOps => l.what # "PROMOTED",
           state[r] \in Final => Over(l)
    PROVE  RowsSettled'
BY DEF RowsSettled, Over, TypeOK

\* What the steps of a pipeline do to the row of its run.
SettledBy(r) ==
    /\ RowsSettled'
    /\ \A q \in Runs : state[q] \in Final =>
          state'[q] \in Final /\ sourceHash'[q] = sourceHash[q]
    /\ \A q \in Runs : state'[q] = "PROMOTED" => state[q] = "PROMOTED"

LEMMA SettledPlain ==
    ASSUME TypeOK, RowsSettled, NEW r \in Runs,
           NewRun(r) \/ Execute(r) \/ Judge(r) \/ CrashPipeline(r), ~StartRun(r)
    PROVE  SettledBy(r)
<1> USE DEF Is, Raise, Goto, Jump, At
<1>0. pc \in [Runs -> Label] /\ state \in [Runs -> RunState \cup {Absent}]
  BY DEF TypeOK
<1>1. UNCHANGED state
  BY DEF NewRun, ReadManifest, StartRun, BindIntegrity, WriteRunFiles,
         Execute, LaunchCommand, CommandReturns, CommandTimesOut, CollectEvidence, ParseReport,
         Judge, Preflight, VerifyIntegrity, AgentExits, BeginValidation, HashCandidate, BindSource,
         RehashCandidate, WriteReadiness, FinishCheckpoint, CrashPipeline, notPc, rowVars
<1>2. /\ pc' = [pc EXCEPT ![r] = pc'[r]]
      /\ pc'[r].op \in StateOps => pc'[r].what # "PROMOTED"
  <2>1. CASE NewRun(r)
    BY <1>0, <2>1 DEF NewRun, ReadManifest, StartRun, BindIntegrity, WriteRunFiles, StateOps
  <2>2. CASE Execute(r)
    BY <1>0, <2>2 DEF Execute, LaunchCommand, CommandReturns, CommandTimesOut, CollectEvidence,
                      ParseReport, StateOps
  <2>3. CASE Judge(r)
    BY <1>0, <2>3 DEF Judge, Preflight, VerifyIntegrity, AgentExits, BeginValidation, HashCandidate,
                      BindSource, RehashCandidate, WriteReadiness, FinishCheckpoint, StateOps
  <2>4. CASE CrashPipeline(r)
    BY <1>0, <2>4 DEF CrashPipeline, StateOps
  <2>q. QED BY <2>1, <2>2, <2>3, <2>4
<1>3. Over(pc[r]) => Over(pc'[r]) /\ UNCHANGED sourceHash
  <2> SUFFICES ASSUME Over(pc[r]) PROVE Over(pc'[r]) /\ UNCHANGED sourceHash
    OBVIOUS
  <2>1. WriteReadiness(r) \/ FinishCheckpoint(r) \/ CrashPipeline(r)
    BY DEF Over, NewRun, ReadManifest, StartRun, BindIntegrity, WriteRunFiles,
           Execute, LaunchCommand, CommandReturns, CommandTimesOut, CollectEvidence, ParseReport,
           Judge, Preflight, VerifyIntegrity, AgentExits, BeginValidation, HashCandidate, BindSource,
           RehashCandidate
  <2>q. QED
    BY <1>0, <2>1 DEF Over, WriteReadiness, FinishCheckpoint, CrashPipeline, notPc, rowVars
<1>4. RowsSettled'
  BY <1>1, <1>2, <1>3, SettledJump DEF RowsSettled
<1>5. \A q \in Runs : q # r => sourceHash'[q] = sourceHash[q]
  BY DEF NewRun, ReadManifest, StartRun, BindIntegrity, WriteRunFiles,
         Execute, LaunchCommand, CommandReturns, CommandTimesOut, CollectEvidence, ParseReport,
         Judge, Preflight, VerifyIntegrity, AgentExits, BeginValidation, HashCandidate, BindSource,
         RehashCandidate, WriteReadiness, FinishCheckpoint, CrashPipeline, notPc, rowVars, TypeOK
<1>q. QED BY <1>1, <1>3, <1>4, <1>5 DEF SettledBy, RowsSettled

LEMMA SettledRow ==
    ASSUME TypeOK, RowsSettled, NEW r \in Runs, StartRun(r) \/ Transition(r)
    PROVE  SettledBy(r)
<1> USE DEF Is, Raise, Goto, Jump, At
<1>0. /\ pc \in [Runs -> Label] /\ state \in [Runs -> RunState \cup {Absent}]
      /\ UNCHANGED sourceHash
  BY DEF TypeOK, StartRun, Transition, CheckTransition, UpdateState, EmitState, StoreFails, FileFails,
         HandleException, notPc, rowVars
<1>1. CASE StartRun(r)
  <2>1. state[r] \notin Final
    BY <1>1 DEF StartRun, RowsSettled, Over
  <2>2. state' = [state EXCEPT ![r] = "CREATED"] /\ pc' = [pc EXCEPT ![r] = At("bindIntegrity", "-", 0)]
    BY <1>1 DEF StartRun
  <2>3. RowsSettled'
    BY <1>0, <2>1, <2>2 DEF RowsSettled, Over, StateOps, Final
  <2>q. QED BY <1>0, <2>1, <2>2, <2>3 DEF SettledBy
<1>2. CASE UpdateState(r)
  <2>1. pc[r].what \in RunState \ {"PROMOTED"}
    BY <1>2, LabelParts DEF UpdateState, StateOps, RowsSettled
  <2>2. state[r] \in Final => pc[r].what \in Final
    BY <1>2 DEF UpdateState, RowsSettled, Over
  <2>3. /\ state' = [state EXCEPT ![r] = pc[r].what]
        /\ pc' = [pc EXCEPT ![r] = At("emit", pc[r].what, 0)]
    BY <1>2 DEF UpdateState, SetState
  <2>4. RowsSettled'
    BY <1>0, <2>1, <2>2, <2>3 DEF RowsSettled, Over, StateOps
  <2>q. QED BY <1>0, <2>1, <2>2, <2>3, <2>4 DEF SettledBy
<1>3. CASE Transition(r) /\ ~UpdateState(r)
  <2>1. UNCHANGED state
    BY <1>3 DEF Transition, CheckTransition, EmitState, StoreFails, FileFails, HandleException, notPc, rowVars
  <2>2. /\ pc' = [pc EXCEPT ![r] = pc'[r]]
        /\ pc'[r].op \in StateOps => pc'[r].what # "PROMOTED"
        /\ Over(pc[r]) => Over(pc'[r])
    <3>1. CASE CheckTransition(r)
      BY <1>0, <3>1 DEF CheckTransition, RowsSettled, StateOps, Over
    <3>2. CASE EmitState(r)
      BY <1>0, <3>2 DEF EmitState, RowsSettled, StateOps, Over, Final
    <3>3. CASE StoreFails(r) \/ FileFails(r)
      BY <1>0, <3>3 DEF StoreFails, FileFails, StateOps, Over
    <3>4. CASE HandleException(r)
      BY <1>0, <3>4 DEF HandleException, StateOps, Over, Final
    <3>q. QED BY <1>3, <3>1, <3>2, <3>3, <3>4 DEF Transition
  <2>3. RowsSettled'
    BY <2>1, <2>2, SettledJump DEF RowsSettled
  <2>q. QED BY <1>0, <2>1, <2>3 DEF SettledBy
<1>q. QED BY <1>1, <1>2, <1>3

\* A step of the pipelines: a final row stays final and keeps its source hash, and no
\* pipeline promotes.
LEMMA SettledStep ==
    ASSUME TypeOK, RowsSettled, Next
    PROVE  /\ RowsSettled'
           /\ \A q \in Runs : state[q] \in Final =>
                 state'[q] \in Final /\ sourceHash'[q] = sourceHash[q]
           /\ \A q \in Runs : state'[q] = "PROMOTED" => state[q] = "PROMOTED"
<1>1. ASSUME NEW r \in Runs, Pipeline(r) \/ CrashPipeline(r) PROVE SettledBy(r)
  BY <1>1, SettledPlain, SettledRow DEF Pipeline
<1>2. CASE Environment
  <2>1. UNCHANGED <<rowVars, pc>>
    BY <1>2 DEF Environment, EditCandidate, EditUnhashed, EditProtected, OrphanReturns
  <2>q. QED BY <2>1 DEF rowVars, RowsSettled
<1>q. QED BY <1>1, <1>2 DEF Next, SettledBy

-----------------------------------------------------------------------------
(* The promote commands.                                                   *)

PromoteOps == PResting \cup {"source", "integrity", "mkdir", "copy", "describe", "check",
                             "transition", "update", "emit"}

\* A pipeline's step leaves every promotion as it stands.
LEMMA PromotersKept ==
    ASSUME PInv, Next, UNCHANGED promVars
    PROVE  PInv'
<1>1. TypeOK /\ RowsSettled /\ TypeOK'
  BY TypeStep DEF PInv, PTypeOK
<1>2. /\ RowsSettled'
      /\ \A q \in Runs : state[q] \in Final => state'[q] \in Final /\ sourceHash'[q] = sourceHash[q]
      /\ \A q \in Runs : state'[q] = "PROMOTED" => state[q] = "PROMOTED"
  BY <1>1, SettledStep
<1>3. PTypeOK'
  BY <1>1 DEF PInv, PTypeOK, promVars, args, directory
<1>4. prun \in [Promoters -> Runs]
  BY DEF PInv, PTypeOK
<1>5. \A p \in Promoters : Reached(p, ppc[p])'
  <2> SUFFICES ASSUME NEW p \in Promoters PROVE Reached(p, ppc[p])'
    OBVIOUS
  <2>1. Reached(p, ppc[p]) /\ prun[p] \in Runs
    BY <1>4 DEF PInv
  <2>2. ppc[p] \in Compared => state[prun[p]] \in Final
    BY <2>1 DEF Reached, Made, Described
  <2>q. QED BY <1>2, <2>1, <2>2 DEF Reached, promVars, args, directory
<1>6. BundleStays'
  BY <1>2 DEF PInv, BundleStays, Final, promVars, args, directory
<1>7. OneMaker'
  <2> SUFFICES ASSUME NEW p \in Promoters, NEW q \in Promoters,
                      bundle[p] # "absent", bundle[q] # "absent", Path(p)' = Path(q)'
               PROVE  p = q
    BY DEF OneMaker, promVars, directory
  <2>1. /\ sourceHash'[prun[p]] = sourceHash[prun[p]]
        /\ sourceHash'[prun[q]] = sourceHash[prun[q]]
    BY <1>2, <1>4 DEF PInv, Reached
  <2>2. Path(p) = Path(q)
    BY <2>1 DEF Path, promVars, args
  <2>q. QED BY <2>2 DEF PInv, OneMaker
<1>q. QED BY <1>2, <1>3, <1>5, <1>6, <1>7 DEF PInv

\* A step of a promotion that leaves rows and directories alone.
LEMMA PromoteJump ==
    ASSUME PInv, NEW p \in Promoters, NEW o \in PromoteOps, ppc' = [ppc EXCEPT ![p] = o],
           UNCHANGED <<vars, args, directory>>, Reached(p, o),
           ppc[p] \in {"emit", "promoted", "refused", "crashed"} =>
               o \in {"emit", "promoted", "refused", "crashed"}
    PROVE  PInv'
<1>1. ppc \in [Promoters -> PromoteOps]
  BY DEF PInv, PTypeOK, PromoteOps
<1>2. PTypeOK'
  BY <1>1 DEF PInv, PTypeOK, PromoteOps, vars, rowVars, localVars, treeVars, fileVars, args, directory,
     TypeOK
<1>3. RowsSettled' /\ OneMaker'
  BY DEF PInv, RowsSettled, OneMaker, Path, vars, rowVars, args, directory
<1>4. BundleStays'
  BY <1>1 DEF PInv, BundleStays, vars, rowVars, args, directory
<1>5. \A q \in Promoters : Reached(q, ppc[q])'
  BY <1>1 DEF PInv, Reached, vars, rowVars, args, directory
<1>q. QED BY <1>2, <1>3, <1>4, <1>5 DEF PInv

\* A step of a promotion on its own directory, before it stands for a promoted run.
LEMMA DirectoryStep ==
    ASSUME PInv, NEW p \in Promoters,
           ppc' = [ppc EXCEPT ![p] = ppc'[p]], ppc'[p] \in PromoteOps,
           bundle' = [bundle EXCEPT ![p] = bundle'[p]], bundle'[p] \in {"absent", "made", "described"},
           copied' = [copied EXCEPT ![p] = copied'[p]], copied'[p] \in Hash \cup {Torn},
           copiedUnhashed' = [copiedUnhashed EXCEPT ![p] = copiedUnhashed'[p]],
           copiedUnhashed'[p] \in Hash,
           UNCHANGED <<vars, args>>, ppc[p] \in {"mkdir", "copy", "describe", "check"},
           bundle[p] = "absent" /\ bundle'[p] # "absent" => ~Exists(Path(p)),
           Reached(p, ppc[p])'
    PROVE  PInv'
<1>1. /\ ppc \in [Promoters -> PromoteOps] /\ bundle \in [Promoters -> {"absent", "made", "described"}]
      /\ copied \in [Promoters -> Hash \cup {Torn}] /\ copiedUnhashed \in [Promoters -> Hash]
  BY DEF PInv, PTypeOK, PromoteOps
<1>2. PTypeOK'
  <2>1. TypeOK'
    BY DEF PInv, PTypeOK, vars, rowVars, localVars, treeVars, fileVars, TypeOK
  <2>q. QED BY <1>1, <2>1 DEF PInv, PTypeOK, PromoteOps, args
<1>3. RowsSettled'
  BY DEF PInv, RowsSettled, vars, rowVars
<1>4. BundleStays'
  BY <1>1 DEF PInv, BundleStays, vars, rowVars, args
<1>5. OneMaker'
  <2> SUFFICES ASSUME NEW a \in Promoters, NEW z \in Promoters,
                      bundle'[a] # "absent", bundle'[z] # "absent", Path(a) = Path(z)
               PROVE  a = z
    BY DEF OneMaker, Path, vars, rowVars, args
  <2>1. \A q \in Promoters \ {p} : bundle'[q] = bundle[q]
    BY <1>1
  <2>q. QED BY <2>1 DEF PInv, OneMaker, Exists
<1>6. \A q \in Promoters : Reached(q, ppc[q])'
  <2>1. \A q \in Promoters \ {p} : Reached(q, ppc[q])'
    BY <1>1 DEF PInv, Reached, vars, rowVars, args
  <2>q. QED BY <2>1
<1>q. QED BY <1>2, <1>3, <1>4, <1>5, <1>6 DEF PInv

LEMMA PromoteEarly ==
    ASSUME PInv, NEW p \in Promoters,
           ReadRun(p) \/ CheckSource(p) \/ CheckIntegrity(p) \/ CheckPromoted(p)
           \/ PromotionStoreFails(p) \/ CrashPromoter(p)
    PROVE  PInv'
<1> USE DEF PGoto, PromoteOps, PResting
<1>0. Reached(p, ppc[p])
  BY DEF PInv
<1>1. CASE ReadRun(p)
  BY <1>0, <1>1, PromoteJump DEF ReadRun, Reached, Before, Made, Described, Compared, Final
<1>2. CASE CheckSource(p) \/ CheckIntegrity(p)
  BY <1>0, <1>2, PromoteJump DEF CheckSource, CheckIntegrity, Reached, Before, Made, Described, Compared
<1>3. CASE CheckPromoted(p)
  BY <1>0, <1>3, PromoteJump DEF CheckPromoted, Reached, Before, Made, Described, Compared
<1>4. CASE PromotionStoreFails(p) \/ CrashPromoter(p)
  <2>1. \E o \in {"refused", "crashed"} : ppc' = [ppc EXCEPT ![p] = o]
    BY <1>4 DEF PromotionStoreFails, CrashPromoter
  <2>2. UNCHANGED <<vars, args, directory>>
    BY <1>4 DEF PromotionStoreFails, CrashPromoter
  <2>q. QED BY <1>0, <2>1, <2>2, PromoteJump DEF Reached, Before, Made, Described, Compared
<1>q. QED BY <1>1, <1>2, <1>3, <1>4

LEMMA PromoteDirectory ==
    ASSUME PInv, NEW p \in Promoters,
           MakeDestination(p) \/ CopyCandidate(p) \/ WriteManifest(p) \/ CheckCopy(p)
    PROVE  PInv'
<1> USE DEF PGoto, PromoteOps, PResting
<1>0. /\ Reached(p, ppc[p])
      /\ bundle \in [Promoters -> {"absent", "made", "described"}] /\ prun \in [Promoters -> Runs]
      /\ copied \in [Promoters -> Hash \cup {Torn}] /\ copiedUnhashed \in [Promoters -> Hash]
      /\ ppc \in [Promoters -> PromoteOps]
  BY DEF PInv, PTypeOK
<1>1. /\ bundle' = [bundle EXCEPT ![p] = bundle'[p]] /\ copied' = [copied EXCEPT ![p] = copied'[p]]
      /\ copiedUnhashed' = [copiedUnhashed EXCEPT ![p] = copiedUnhashed'[p]]
      /\ ppc' = [ppc EXCEPT ![p] = ppc'[p]] /\ UNCHANGED <<vars, args>>
  BY <1>0 DEF MakeDestination, CopyCandidate, WriteManifest, CheckCopy, directory
<1>2. /\ bundle'[p] \in {"absent", "made", "described"} /\ ppc'[p] \in PromoteOps
      /\ ppc[p] \in {"mkdir", "copy", "describe", "check"}
      /\ bundle[p] = "absent" /\ bundle'[p] # "absent" => ~Exists(Path(p))
  BY <1>0 DEF MakeDestination, CopyCandidate, WriteManifest, CheckCopy, directory, Reached, Made, Described,
     Compared
<1>3. copied'[p] \in Hash \cup {Torn} /\ copiedUnhashed'[p] \in Hash
  <2>1. candidate \in Hash /\ unhashed \in Hash
    BY DEF PInv, PTypeOK, TypeOK, Hash
  <2>q. QED BY <1>0, <2>1 DEF MakeDestination, CopyCandidate, WriteManifest, CheckCopy, directory
<1>4. Reached(p, ppc[p])'
  <2> USE <1>0 DEF Reached, Before, Made, Described, Compared, vars, rowVars, args, directory
  <2>1. CASE MakeDestination(p)
    BY <1>1, <2>1 DEF MakeDestination
  <2>2. CASE CopyCandidate(p)
    BY <1>1, <2>2 DEF CopyCandidate
  <2>3. CASE WriteManifest(p)
    BY <1>1, <2>3 DEF WriteManifest
  <2>4. CASE CheckCopy(p)
    BY <1>1, <2>4 DEF CheckCopy
  <2>q. QED BY <2>1, <2>2, <2>3, <2>4
<1>q. QED BY <1>1, <1>2, <1>3, <1>4, DirectoryStep

\* The UPDATE that promotes: its run has a described bundle of the bound source.
LEMMA PromoteRow ==
    ASSUME PInv, NEW p \in Promoters, UpdatePromoted(p) \/ EmitPromoted(p)
    PROVE  PInv'
<1> USE DEF PGoto, PromoteOps, PResting
<1>0. /\ Reached(p, ppc[p])
      /\ ppc \in [Promoters -> PromoteOps] /\ prun \in [Promoters -> Runs]
      /\ state \in [Runs -> RunState \cup {Absent}]
  BY DEF PInv, PTypeOK, TypeOK
<1>1. CASE UpdatePromoted(p)
  <2>1. /\ state[prun[p]] \in Final /\ bundle[p] = "described" /\ copied[p] = sourceHash[prun[p]]
        /\ bundle[p] # "absent" /\ ppc[p] = "update"
    BY <1>0, <1>1 DEF UpdatePromoted, Reached, Made, Described, Compared
  <2>2. /\ state' = [state EXCEPT ![prun[p]] = "PROMOTED"] /\ ppc' = [ppc EXCEPT ![p] = "emit"]
        /\ status' = [status EXCEPT ![prun[p]] = "complete"]
        /\ UNCHANGED <<sourceHash, integrityHash, log, pc, localVars, treeVars, fileVars, args, directory>>
    BY <1>1 DEF UpdatePromoted, SetState, StatusOf
  <2>3. PTypeOK'
    <3>1. TypeOK'
      BY <1>0, <2>2 DEF PInv, PTypeOK, TypeOK, RunState, localVars, treeVars, fileVars
    <3>q. QED BY <2>2, <3>1 DEF PInv, PTypeOK, args, directory
  <2>4. RowsSettled'
    BY <1>0, <2>1, <2>2 DEF PInv, RowsSettled
  <2>5. BundleStays'
    BY <1>0, <2>1, <2>2 DEF PInv, BundleStays, args, directory
  <2>6. OneMaker'
    BY <2>2 DEF PInv, OneMaker, Path, args, directory
  <2>7. \A q \in Promoters : Reached(q, ppc[q])'
    BY <1>0, <2>1, <2>2 DEF PInv, Reached, Final, Before, Made, Described, Compared, args, directory
  <2>q. QED BY <2>3, <2>4, <2>5, <2>6, <2>7 DEF PInv
<1>2. CASE EmitPromoted(p)
  <2>1. /\ ppc' = [ppc EXCEPT ![p] = "promoted"] /\ ppc[p] = "emit"
        /\ log' = [log EXCEPT ![prun[p]] = Append(@, "PROMOTED")]
        /\ UNCHANGED <<state, status, sourceHash, integrityHash, pc, localVars, treeVars, fileVars, args,
                       directory>>
    BY <1>2 DEF EmitPromoted
  <2>2. PTypeOK'
    <3>1. log' \in [Runs -> Seq(RunState)]
      BY <1>0, <2>1 DEF PInv, PTypeOK, TypeOK, RunState
    <3>2. TypeOK'
      BY <2>1, <3>1 DEF PInv, PTypeOK, TypeOK, localVars, treeVars, fileVars
    <3>q. QED BY <2>1, <3>2 DEF PInv, PTypeOK, args, directory
  <2>3. RowsSettled' /\ OneMaker'
    BY <2>1 DEF PInv, RowsSettled, OneMaker, Path, args, directory
  <2>4. BundleStays'
    BY <1>0, <2>1 DEF PInv, BundleStays, args, directory
  <2>5. \A q \in Promoters : Reached(q, ppc[q])'
    BY <1>0, <2>1 DEF PInv, Reached, Before, Made, Described, Compared, args, directory
  <2>q. QED BY <2>2, <2>3, <2>4, <2>5 DEF PInv
<1>q. QED BY <1>1, <1>2

-----------------------------------------------------------------------------
(* The theorems.                                                           *)

LEMMA PromoteInit == PInit => PInv
<1> SUFFICES ASSUME PInit PROVE PInv
  OBVIOUS
<1>1. PTypeOK
  BY InitType DEF PInit, PTypeOK, PResting, Hash
<1>2. RowsSettled /\ BundleStays
  BY DEF PInit, Init, RowsSettled, BundleStays, At, StateOps, Final, Absent
<1>3. OneMaker /\ \A p \in Promoters : Reached(p, ppc[p])
  BY DEF PInit, OneMaker, Reached, Before, Made, Described, Compared
<1>q. QED BY <1>1, <1>2, <1>3 DEF PInv

LEMMA PromoteStep == PInv /\ [PNext]_allVars => PInv'
<1>1. CASE UNCHANGED allVars /\ PInv
  <2>1. TypeOK'
    BY <1>1, TypeStep DEF PInv, PTypeOK, allVars
  <2>2. PTypeOK'
    BY <1>1, <2>1 DEF PInv, PTypeOK, allVars, promVars, args, directory
  <2>q. QED
    BY <1>1, <2>2 DEF PInv, allVars, promVars, args, directory, vars, rowVars, RowsSettled, BundleStays,
       OneMaker, Path, Reached
<1>q. QED
  BY <1>1, PromotersKept, PromoteEarly, PromoteDirectory, PromoteRow DEF PNext, Promote

\* The invariant of the promotions holds, whatever fails, crashes or is edited.
THEOREM Promotions == PSpec => []PInv
BY PromoteInit, PromoteStep, PTL DEF PSpec

\* With promotions, all variables keep their types.
THEOREM PromotionTypes == PSpec => []PTypeOK
<1>1. PInv => PTypeOK
  BY DEF PInv
<1>q. QED BY <1>1, Promotions, PTL

\* A promoted run has a bundle with its promotion.json and exactly the source it is bound to,
\* however many promotes run at once and whatever is edited meanwhile.
THEOREM PromotedBundles == PSpec => []PromotedHasBundle
<1>1. PInv => PromotedHasBundle
  BY DEF PInv, BundleStays, PromotedHasBundle
<1>q. QED BY <1>1, Promotions, PTL

\* Where --destination is not used, mkdir lets one promote of a run through.
THEOREM PromotedByOne == Destinations = {} /\ PSpec => []OnePromotion
<1>1. Destinations = {} /\ PInv => OnePromotion
  <2> SUFFICES ASSUME Destinations = {}, PInv, NEW p \in Promoters, NEW q \in Promoters,
                      ppc[p] \in {"emit", "promoted"}, ppc[q] \in {"emit", "promoted"}, prun[p] = prun[q]
               PROVE  p = q
    BY DEF OnePromotion
  <2>1. bundle[p] # "absent" /\ bundle[q] # "absent"
    BY DEF PInv, Reached, Made, Described, Compared
  <2>2. Path(p) = Path(q)
    BY DEF PInv, PTypeOK, Path
  <2>q. QED BY <2>1, <2>2 DEF PInv, OneMaker
<1>2. CASE Destinations = {}
  BY <1>1, <1>2, Promotions, PTL
<1>3. CASE Destinations # {}
  BY <1>3
<1>q. QED BY <1>2, <1>3

-----------------------------------------------------------------------------
(* Why a refused promotion leaves nothing behind.                          *)

Orderly == Faults = {} /\ Destinations = {}

\* Where the pipeline of a run that may be promoted can be, when no file fails.
Ready(l) ==
    \/ l.op \in {"readiness", "done", "crashed"}
    \/ l.op = "emit" /\ l.what = "PROMOTABLE"

\* A run that may be promoted stays so until a promotion takes it: the one that has its
\* directory, or one whose directory the others find.
OrderlyInv ==
    /\ PInv /\ NoRemains
    /\ \A r \in Runs : state[r] \in {"PROMOTABLE", "PROMOTED"} => Ready(pc[r])
    /\ \A p \in Promoters :
          /\ ppc[p] \in Before => state[prun[p]] \in {"PROMOTABLE", "PROMOTED"}
          /\ ppc[p] \in {"copy", "describe", "check", "transition", "update"} => state[prun[p]] = "PROMOTABLE"

\* The pipelines leave a ready row alone.
LEMMA ReadyStep ==
    ASSUME Faults = {}, TypeOK, RowsSettled, NEW q \in Runs, Next,
           state[q] \in {"PROMOTABLE", "PROMOTED"} => Ready(pc[q])
    PROVE  /\ state[q] \in {"PROMOTABLE", "PROMOTED"} => state'[q] = state[q]
           /\ state'[q] \in {"PROMOTABLE", "PROMOTED"} => Ready(pc'[q])
<1> USE DEF Is, Raise, Goto, Jump, At
<1>0. pc \in [Runs -> Label] /\ state \in [Runs -> RunState \cup {Absent}]
  BY DEF TypeOK
<1>1. CASE Environment
  BY <1>1 DEF Environment, EditCandidate, EditUnhashed, EditProtected, OrphanReturns, rowVars
<1>2. ASSUME NEW r \in Runs, Pipeline(r) \/ CrashPipeline(r), r # q
      PROVE  state'[q] = state[q] /\ pc'[q] = pc[q]
  BY <1>0, <1>2 DEF Pipeline, NewRun, ReadManifest, StartRun, BindIntegrity, WriteRunFiles,
     Execute, LaunchCommand, CommandReturns, CommandTimesOut, CollectEvidence, ParseReport,
     Judge, Preflight, VerifyIntegrity, AgentExits, BeginValidation, HashCandidate, BindSource,
     RehashCandidate, WriteReadiness, FinishCheckpoint, Transition, CheckTransition, UpdateState, SetState,
     EmitState, StoreFails, FileFails, HandleException, CrashPipeline, notPc, rowVars
<1>3. ASSUME Pipeline(q) \/ CrashPipeline(q), Ready(pc[q])
      PROVE  state'[q] = state[q] /\ Ready(pc'[q])
  <2>1. EmitState(q) \/ WriteReadiness(q) \/ CrashPipeline(q)
    BY <1>3 DEF Ready, Pipeline, NewRun, ReadManifest, StartRun, BindIntegrity, WriteRunFiles,
       Execute, LaunchCommand, CommandReturns, CommandTimesOut, CollectEvidence, ParseReport,
       Judge, Preflight, VerifyIntegrity, AgentExits, BeginValidation, HashCandidate, BindSource,
       RehashCandidate, FinishCheckpoint, Transition, CheckTransition, UpdateState,
       StoreFails, FileFails, HandleException
  <2>q. QED BY <1>0, <1>3, <2>1 DEF Ready, EmitState, WriteReadiness, CrashPipeline, notPc, rowVars
<1>4. ASSUME Pipeline(q) \/ CrashPipeline(q), state[q] \notin {"PROMOTABLE", "PROMOTED"}
      PROVE  state'[q] \in {"PROMOTABLE", "PROMOTED"} => Ready(pc'[q])
  <2>1. CASE UpdateState(q)
    <3>1. pc[q].what # "PROMOTED"
      BY <2>1 DEF UpdateState, RowsSettled, StateOps
    <3>q. QED BY <1>0, <2>1, <3>1 DEF UpdateState, SetState, Ready
  <2>2. CASE ~UpdateState(q)
    <3>1. state'[q] \in {state[q], "CREATED"}
      BY <1>0, <1>4, <2>2 DEF Pipeline, NewRun, ReadManifest, StartRun, BindIntegrity, WriteRunFiles,
         Execute, LaunchCommand, CommandReturns, CommandTimesOut, CollectEvidence, ParseReport,
         Judge, Preflight, VerifyIntegrity, AgentExits, BeginValidation, HashCandidate, BindSource,
         RehashCandidate, WriteReadiness, FinishCheckpoint, Transition, CheckTransition, SetState,
         EmitState, StoreFails, FileFails, HandleException, CrashPipeline, notPc, rowVars
    <3>q. QED BY <1>4, <3>1
  <2>q. QED BY <2>1, <2>2
<1>q. QED BY <1>1, <1>2, <1>3, <1>4 DEF Next

LEMMA OrderlyPipeline ==
    ASSUME Orderly, OrderlyInv, Next, UNCHANGED promVars
    PROVE  OrderlyInv'
<1>1. PInv' /\ TypeOK /\ RowsSettled /\ prun \in [Promoters -> Runs]
  BY PromotersKept DEF OrderlyInv, PInv, PTypeOK
<1>2. \A q \in Runs : /\ state[q] \in {"PROMOTABLE", "PROMOTED"} => state'[q] = state[q]
                      /\ state'[q] \in {"PROMOTABLE", "PROMOTED"} => Ready(pc'[q])
  BY <1>1, ReadyStep DEF OrderlyInv, Orderly
<1>q. QED BY <1>1, <1>2 DEF OrderlyInv, NoRemains, promVars, args, directory

LEMMA OrderlyPromote ==
    ASSUME Orderly, OrderlyInv, PInv', NEW p \in Promoters, Promote(p) \/ CrashPromoter(p)
    PROVE  OrderlyInv'
<1> USE DEF PGoto, PResting
<1>0. /\ ppc \in [Promoters -> PromoteOps] /\ prun \in [Promoters -> Runs]
      /\ bundle \in [Promoters -> {"absent", "made", "described"}]
      /\ pdest \in [Promoters -> {"default"}]
      /\ state \in [Runs -> RunState \cup {Absent}]
      /\ Reached(p, ppc[p]) /\ OneMaker
  BY DEF OrderlyInv, PInv, PTypeOK, TypeOK, Orderly, PromoteOps
<1>1. CASE UpdatePromoted(p)
  <2>1. /\ state' = [state EXCEPT ![prun[p]] = "PROMOTED"] /\ ppc' = [ppc EXCEPT ![p] = "emit"]
        /\ ppc[p] = "update" /\ UNCHANGED <<pc, args, directory>> /\ state[prun[p]] = "PROMOTABLE"
        /\ bundle[p] # "absent"
    BY <1>0, <1>1 DEF UpdatePromoted, SetState, OrderlyInv, Reached, Made, Described, Compared
  <2>2. ASSUME NEW q \in Promoters, q # p, prun[q] = prun[p] PROVE bundle[q] = "absent"
    <3>1. Path(p) = Path(q)
      BY <1>0, <2>2 DEF Path
    <3>q. QED BY <1>0, <2>1, <2>2, <3>1 DEF OneMaker
  <2>3. NoRemains'
    BY <1>0, <2>1 DEF OrderlyInv, NoRemains, directory
  <2>4. \A r \in Runs : state'[r] \in {"PROMOTABLE", "PROMOTED"} => Ready(pc'[r])
    BY <1>0, <2>1 DEF OrderlyInv
  <2>5. ASSUME NEW q \in Promoters
        PROVE  /\ ppc'[q] \in Before => state'[prun'[q]] \in {"PROMOTABLE", "PROMOTED"}
               /\ ppc'[q] \in {"copy", "describe", "check", "transition", "update"} =>
                     state'[prun'[q]] = "PROMOTABLE"
    <3>1. Reached(q, ppc[q])
      BY DEF OrderlyInv, PInv
    <3>q. QED BY <1>0, <2>1, <2>2, <3>1 DEF OrderlyInv, args, Reached, Before, Made, Described, Compared
  <2>q. QED BY <2>3, <2>4, <2>5 DEF OrderlyInv
<1>2. CASE ~UpdatePromoted(p)
  <2>1. /\ UNCHANGED <<state, pc, sourceHash, args>> /\ ppc' = [ppc EXCEPT ![p] = ppc'[p]]
        /\ \A q \in Promoters \ {p} : bundle'[q] = bundle[q]
    BY <1>0, <1>2 DEF Promote, ReadRun, CheckSource, CheckIntegrity, MakeDestination, CopyCandidate,
       WriteManifest, CheckCopy, CheckPromoted, EmitPromoted, PromotionStoreFails, CrashPromoter,
       vars, rowVars, directory
  <2>2. ASSUME MakeDestination(p), ppc'[p] = "copy" PROVE state[prun[p]] = "PROMOTABLE"
    <3>1. ~Exists(Path(p)) /\ ppc[p] = "mkdir"
      BY <1>0, <2>2 DEF MakeDestination
    <3>2. state[prun[p]] # "PROMOTED"
      <4> SUFFICES ASSUME state[prun[p]] = "PROMOTED" PROVE FALSE
        OBVIOUS
      <4>1. PICK q \in Promoters : prun[q] = prun[p] /\ bundle[q] = "described"
        BY <1>0 DEF OrderlyInv, PInv, BundleStays
      <4>2. Path(q) = Path(p)
        BY <1>0, <4>1 DEF Path
      <4>q. QED BY <3>1, <4>1, <4>2 DEF Exists
    <3>q. QED BY <3>1, <3>2 DEF OrderlyInv, Before
  <2>3. /\ ppc'[p] \in Before => state[prun[p]] \in {"PROMOTABLE", "PROMOTED"}
        /\ ppc'[p] \in {"copy", "describe", "check", "transition", "update"} => state[prun[p]] = "PROMOTABLE"
    BY <1>0, <1>2, <2>2 DEF Promote, ReadRun, CheckSource, CheckIntegrity, MakeDestination, CopyCandidate,
       WriteManifest, CheckCopy, CheckPromoted, EmitPromoted, PromotionStoreFails, CrashPromoter,
       OrderlyInv, Before, Orderly
  <2>4. bundle'[p] # "absent" => ppc'[p] # "refused"
    <3>1. CASE CheckPromoted(p)
      <4>1. state[prun[p]] = "PROMOTABLE"
        BY <3>1 DEF CheckPromoted, OrderlyInv
      <4>2. Allowed("PROMOTABLE", "PROMOTED")
        BY DEF Allowed, STATES
      <4>q. QED BY <1>0, <3>1, <4>1, <4>2 DEF CheckPromoted
    <3>2. CASE ~CheckPromoted(p)
      BY <1>0, <1>2, <3>2 DEF Promote, ReadRun, CheckSource, CheckIntegrity, MakeDestination, CopyCandidate,
         WriteManifest, CheckCopy, EmitPromoted, PromotionStoreFails, CrashPromoter,
         Orderly, Reached, Before, directory, OrderlyInv, NoRemains
    <3>q. QED BY <3>1, <3>2
  <2>5. NoRemains'
    BY <1>0, <2>1, <2>4 DEF OrderlyInv, NoRemains
  <2>q. QED BY <1>0, <2>1, <2>3, <2>5 DEF OrderlyInv, args
<1>q. QED BY <1>1, <1>2

LEMMA OrderlyInit == PInit => OrderlyInv
BY PromoteInit DEF PInit, Init, OrderlyInv, NoRemains, Before, Absent

LEMMA OrderlyStep == ASSUME Orderly PROVE OrderlyInv /\ [PNext]_allVars => OrderlyInv'
<1> SUFFICES ASSUME OrderlyInv, [PNext]_allVars PROVE OrderlyInv'
  OBVIOUS
<1>1. PInv'
  BY PromoteStep DEF OrderlyInv
<1>2. CASE UNCHANGED allVars
  BY <1>1, <1>2 DEF allVars, vars, rowVars, promVars, args, directory, OrderlyInv, NoRemains
<1>q. QED BY <1>1, <1>2, OrderlyPipeline, OrderlyPromote DEF PNext

\* When no store or file operation fails and --destination is not used, a refused promote has
\* no directory left: mkdir will not find the remains of the last attempt.
THEOREM NothingRemains == ASSUME Orderly PROVE PSpec => []NoRemains
<1>1. OrderlyInv /\ [PNext]_allVars => OrderlyInv'
  BY OrderlyStep
<1>2. OrderlyInv => NoRemains
  BY DEF OrderlyInv
<1>q. QED BY <1>1, <1>2, OrderlyInit, PTL DEF PSpec

-----------------------------------------------------------------------------
(* Why the rows stay strict.                                               *)

\* The promotion that has the directory of a run is the only one to promote it, and the
\* pipeline of a ready run does not touch its row.
StrictInv == OrderlyInv /\ RowInv

LEMMA StrictPromote ==
    ASSUME Orderly, StrictInv, OrderlyInv', NEW p \in Promoters, Promote(p) \/ CrashPromoter(p)
    PROVE  StrictInv' /\ [StrictLifecycle!Next]_state
<1>0. /\ prun[p] \in Runs /\ state \in [Runs -> RunState \cup {Absent}]
      /\ RowInv /\ TypeOK'
  BY DEF StrictInv, OrderlyInv, PInv, PTypeOK, RowInv, TypeOK
<1>1. CASE UpdatePromoted(p)
  <2>0. PICK r \in Runs : r = prun[p]
    BY <1>0
  <2>1. /\ state' = [state EXCEPT ![r] = "PROMOTED"] /\ pc' = pc
        /\ state[r] = "PROMOTABLE"
    BY <1>0, <1>1, <2>0 DEF UpdatePromoted, SetState, StrictInv, OrderlyInv
  <2>2. Ready(pc[r])
    BY <2>1 DEF StrictInv, OrderlyInv
  <2>3. RowFollowsCode(r, pc[r])'
    BY <1>0, <2>1, <2>2 DEF Ready, RowFollowsCode, Resting, Absent
  <2>4. \A q \in Runs \ {r} : RowFollowsCode(q, pc[q])'
    BY <1>0, <2>1 DEF RowInv, RowFollowsCode
  <2>5. Allowed("PROMOTABLE", "PROMOTED") /\ "PROMOTED" \in RunState
    BY DEF Allowed, STATES, RunState
  <2>6. StrictLifecycle!Move(r, "PROMOTED")
    BY <1>0, <2>1, <2>5 DEF StrictLifecycle!Move, StrictLifecycle!Absent, StrictLifecycle!Allowed, Allowed,
       StrictLifecycle!STATES, STATES, StrictLifecycle!TERMINAL_STATES, TERMINAL_STATES
  <2>q. QED BY <1>0, <2>3, <2>4, <2>5, <2>6 DEF StrictInv, RowInv, StrictLifecycle!Next, StrictLifecycle!RunState,
       RunState
<1>2. CASE ~UpdatePromoted(p)
  <2>1. UNCHANGED <<state, pc>>
    BY <1>2 DEF Promote, ReadRun, CheckSource, CheckIntegrity, MakeDestination, CopyCandidate,
       WriteManifest, CheckCopy, CheckPromoted, EmitPromoted, PromotionStoreFails, CrashPromoter,
       vars, rowVars
  <2>q. QED BY <1>0, <2>1 DEF StrictInv, RowInv, RowFollowsCode
<1>q. QED BY <1>1, <1>2

\* With promotions too, rows only move as transition() allows, as long as no store or file
\* operation fails and --destination is not used (events.py:100 transition reads and writes a
\* row in two statements; production.py:291 promote).
THEOREM PromotionIsStrict == ASSUME Orderly PROVE PSpec => LifecycleIsStrict
<1>1. PInit => StrictInv /\ StrictLifecycle!Init
  BY OrderlyInit, RowInit DEF PInit, StrictInv
<1>2. StrictInv /\ [PNext]_allVars => StrictInv' /\ [StrictLifecycle!Next]_state
  <2> SUFFICES ASSUME StrictInv, [PNext]_allVars PROVE StrictInv' /\ [StrictLifecycle!Next]_state
    OBVIOUS
  <2>1. OrderlyInv'
    BY OrderlyStep DEF StrictInv
  <2>2. CASE Next \/ UNCHANGED allVars
    BY <2>1, <2>2, RowStep DEF StrictInv, allVars
  <2>q. QED BY <2>1, <2>2, StrictPromote DEF PNext
<1>q. QED BY <1>1, <1>2, PTL DEF PSpec, LifecycleIsStrict, StrictLifecycle!Spec

-----------------------------------------------------------------------------
(* Why what is promoted is what was measured.                              *)

LEMMA LatePassed ==
    ASSUME IInv, NEW r \in Runs, state[r] \in Late
    PROVE  Passed(r)
BY DEF IInv, Holds, SourceIsBound, ProtectedAgree, SourcesAgree, Judged, GatesGathered, BenchmarkGathered,
       ProfilesGathered, Passed

\* A pipeline that is over measures nothing more and binds nothing again.
LEMMA OverKept ==
    ASSUME TypeOK, NEW q \in Runs, Over(pc[q]), Next
    PROVE  /\ candidateHash'[q] = candidateHash[q] /\ integrityHash'[q] = integrityHash[q]
           /\ \A e : e.run = q => (e \in evidence' <=> e \in evidence)
<1> USE DEF Is, Raise, Goto, Jump, At
<1>0. /\ candidateHash \in [Runs -> Hash] /\ integrityHash \in [Runs -> Hash]
  BY DEF TypeOK
<1>1. CASE Environment
  BY <1>1 DEF Environment, EditCandidate, EditUnhashed, EditProtected, OrphanReturns, rowVars, localVars,
     fileVars
<1>2. ASSUME NEW r \in Runs, CollectEvidence(r)
      PROVE  /\ UNCHANGED <<candidateHash, integrityHash>>
             /\ \A e : e.run = q => (e \in evidence' <=> e \in evidence)
  <2>1. r # q
    BY <1>2 DEF CollectEvidence, Over
  <2>2. \A e \in evidence' : e \in evidence \/ e.run = r
    BY <1>2 DEF CollectEvidence
  <2>3. evidence \subseteq evidence'
    BY <1>2 DEF CollectEvidence
  <2>q. QED BY <1>2, <2>1, <2>2, <2>3 DEF CollectEvidence, rowVars, localVars
<1>3. ASSUME NEW r \in Runs, Pipeline(r) \/ CrashPipeline(r), ~CollectEvidence(r)
      PROVE  evidence' = evidence /\ candidateHash'[q] = candidateHash[q] /\ integrityHash'[q] = integrityHash[q]
  <2>1. evidence' = evidence
    BY <1>3 DEF Pipeline, NewRun, ReadManifest, StartRun, BindIntegrity, WriteRunFiles,
       Execute, LaunchCommand, CommandReturns, CommandTimesOut, ParseReport,
       Judge, Preflight, VerifyIntegrity, AgentExits, BeginValidation, HashCandidate, BindSource,
       RehashCandidate, WriteReadiness, FinishCheckpoint, Transition, CheckTransition, UpdateState, SetState,
       EmitState, StoreFails, FileFails, HandleException, CrashPipeline, notPc, fileVars
  <2>2. CASE HashCandidate(r) \/ BindIntegrity(r)
    <3>1. r # q
      BY <2>2 DEF HashCandidate, BindIntegrity, Over
    <3>q. QED BY <1>0, <2>1, <2>2, <3>1 DEF HashCandidate, BindIntegrity, rowVars, localVars
  <2>3. CASE ~HashCandidate(r) /\ ~BindIntegrity(r)
    <3>1. UNCHANGED <<candidateHash, integrityHash>>
      BY <1>3, <2>3 DEF Pipeline, NewRun, ReadManifest, StartRun, WriteRunFiles,
       Execute, LaunchCommand, CommandReturns, CommandTimesOut, ParseReport,
       Judge, Preflight, VerifyIntegrity, AgentExits, BeginValidation, BindSource,
       RehashCandidate, WriteReadiness, FinishCheckpoint, Transition, CheckTransition, UpdateState, SetState,
       EmitState, StoreFails, FileFails, HandleException, CrashPipeline, notPc, rowVars, localVars
    <3>q. QED BY <2>1, <3>1
  <2>q. QED BY <2>1, <2>2, <2>3
<1>q. QED BY <1>1, <1>2, <1>3 DEF Next

LEMMA PassedStays ==
    ASSUME TypeOK, RowsSettled, NEW r \in Runs, state[r] \in Final, Passed(r), Next
    PROVE  Passed(r)'
<1>1. /\ sourceHash'[r] = sourceHash[r] /\ Over(pc[r])
  BY SettledStep DEF RowsSettled
<1>2. /\ candidateHash'[r] = candidateHash[r] /\ integrityHash'[r] = integrityHash[r]
      /\ \A e : e.run = r => (e \in evidence' <=> e \in evidence)
  BY <1>1, OverKept
<1>3. \A what, i : Have(r, what, i) => Have(r, what, i)'
  BY <1>2 DEF Have
<1>4. \A e \in evidence' : Own(e, r) => e \in evidence
  BY <1>2 DEF Own
<1>q. QED BY <1>1, <1>2, <1>3, <1>4 DEF Passed, Own

\* The UPDATE that promotes a run which has passed.
LEMMA PromoteHeld ==
    ASSUME MeasuredInv, PInv', NEW p \in Promoters, UpdatePromoted(p)
    PROVE  IInv'
<1>0. PICK r \in Runs : r = prun[p]
  BY DEF MeasuredInv, PInv, PTypeOK
<1>1. ppc[p] = "update" /\ Passed(r) /\ state[r] \in Final /\ Over(pc[r])
  BY <1>0 DEF MeasuredInv, PInv, PTypeOK, UpdatePromoted, Made, Described, Compared, Reached, RowsSettled
<1>2. /\ state' = [state EXCEPT ![r] = "PROMOTED"]
      /\ UNCHANGED <<sourceHash, integrityHash, pc, localVars, treeVars, fileVars>>
  BY <1>0 DEF UpdatePromoted, SetState
<1>3. state'[r] = "PROMOTED" /\ \A q \in Runs \ {r} : state'[q] = state[q]
  BY <1>1, <1>2 DEF MeasuredInv, IInv, TypeOK
<1> USE <1>2 DEF localVars, treeVars, fileVars
<1>4. TypeOK' /\ HashesArePast' /\ ReportsArePast' /\ ReportsFollowHashes'
  BY DEF MeasuredInv, PInv, PTypeOK, IInv, HashesArePast, ReportsArePast, ReportsFollowHashes
<1>5. \A q \in Runs \ {r} : Holds(q, pc[q])'
  BY <1>3, HeldOther DEF MeasuredInv
<1>6. Holds(r, pc[r])'
  <2>1. Holds(r, pc[r])
    BY <1>1 DEF MeasuredInv, IInv
  <2>2. NothingEarly(r, pc[r])'
    BY <2>1 DEF Holds, NothingEarly
  <2>3. StateFollowsCode(r, pc[r])'
    BY <1>1, <1>3, <2>1 DEF Holds, StateFollowsCode, Over, Late, Final, CommandOps
  <2>4. SourceIsBound(r, pc[r])' /\ ProtectedAgree(r, pc[r])' /\ SourcesAgree(r, pc[r])'
    BY <1>1 DEF SourceIsBound, ProtectedAgree, SourcesAgree, Passed, Own
  <2>5. GatesGathered(r, pc[r])' /\ BenchmarkGathered(r, pc[r])' /\ ProfilesGathered(r, pc[r])'
    BY <1>1 DEF GatesGathered, BenchmarkGathered, ProfilesGathered, Passed, Have
  <2>q. QED BY <2>2, <2>3, <2>4, <2>5 DEF Holds
<1>q. QED BY <1>4, <1>5, <1>6 DEF IInv

LEMMA MeasuredStep == ASSUME ~Reverts PROVE MeasuredInv /\ [PNext]_allVars => MeasuredInv'
<1> SUFFICES ASSUME MeasuredInv, [PNext]_allVars PROVE MeasuredInv'
  OBVIOUS
<1>1. PInv' /\ TypeOK /\ RowsSettled /\ prun \in [Promoters -> Runs]
      /\ ppc \in [Promoters -> PromoteOps]
  BY PromoteStep DEF MeasuredInv, PInv, PTypeOK, PromoteOps, PResting
<1>2. \A p \in Promoters : ppc[p] \in Before \cup Made => state[prun[p]] \in Final
  BY DEF MeasuredInv, PInv, Reached
<1>3. CASE Next /\ UNCHANGED promVars
  <2>1. IInv'
    BY <1>3, HeldStep DEF MeasuredInv
  <2>2. \A p \in Promoters : ppc'[p] \in Before \cup Made => Passed(prun[p])'
    <3> SUFFICES ASSUME NEW p \in Promoters, ppc[p] \in Before \cup Made PROVE Passed(prun[p])'
      BY <1>3 DEF promVars
    <3>1. PICK r \in Runs : r = prun[p]
      BY <1>1
    <3>2. state[r] \in Final /\ Passed(r) /\ prun' = prun
      BY <1>2, <1>3, <3>1 DEF MeasuredInv, promVars, args
    <3>3. Passed(r)'
      BY <1>1, <1>3, <3>2, PassedStays
    <3>q. QED BY <3>1, <3>2, <3>3
  <2>q. QED BY <1>1, <2>1, <2>2 DEF MeasuredInv
<1>4. ASSUME NEW p \in Promoters, Promote(p) \/ CrashPromoter(p) PROVE MeasuredInv'
  <2>1. /\ UNCHANGED <<sourceHash, integrityHash, pc, localVars, treeVars, fileVars, prun>>
        /\ ppc' = [ppc EXCEPT ![p] = ppc'[p]]
    BY <1>1, <1>4 DEF Promote, ReadRun, CheckSource, CheckIntegrity, MakeDestination, CopyCandidate,
       WriteManifest, CheckCopy, CheckPromoted, UpdatePromoted, SetState, EmitPromoted, PromotionStoreFails,
       CrashPromoter, vars, rowVars, args, PGoto
  <2>2. IInv'
    <3>1. CASE UpdatePromoted(p)
      BY <1>1, <3>1, PromoteHeld
    <3>2. CASE ~UpdatePromoted(p)
      <4>1. UNCHANGED state
        BY <1>4, <3>2 DEF Promote, ReadRun, CheckSource, CheckIntegrity, MakeDestination, CopyCandidate,
           WriteManifest, CheckCopy, CheckPromoted, EmitPromoted, PromotionStoreFails, CrashPromoter,
           vars, rowVars
      <4>2. \A q \in Runs : Holds(q, pc[q])'
        BY <2>1, <4>1, HeldOther DEF MeasuredInv, localVars, fileVars
      <4>3. HashesArePast' /\ ReportsArePast' /\ ReportsFollowHashes'
        BY <2>1 DEF MeasuredInv, IInv, HashesArePast, ReportsArePast, ReportsFollowHashes, localVars,
           treeVars, fileVars
      <4>q. QED BY <1>1, <4>2, <4>3 DEF IInv, PInv, PTypeOK
    <3>q. QED BY <3>1, <3>2
  <2>3. ppc'[p] \in Before \cup Made => ppc[p] \in Before \cup Made \/ state[prun[p]] \in Late
    BY <1>1, <1>4 DEF Promote, ReadRun, CheckSource, CheckIntegrity, MakeDestination, CopyCandidate,
       WriteManifest, CheckCopy, CheckPromoted, UpdatePromoted, EmitPromoted, PromotionStoreFails,
       CrashPromoter, PGoto, Before, Made, Described, Compared, Late, PromoteOps
  <2>4. ASSUME NEW q \in Promoters, ppc'[q] \in Before \cup Made PROVE Passed(prun[q])'
    <3>1. ppc[q] \in Before \cup Made \/ state[prun[q]] \in Late
      BY <1>1, <2>1, <2>3, <2>4
    <3>2. Passed(prun[q])
      BY <1>1, <3>1, LatePassed DEF MeasuredInv
    <3>q. QED BY <2>1, <3>2 DEF Passed, Own, Have, localVars, fileVars
  <2>q. QED BY <1>1, <2>2, <2>4 DEF MeasuredInv
<1>5. CASE UNCHANGED allVars
  <2>1. UNCHANGED vars /\ UNCHANGED <<ppc, prun>>
    BY <1>5 DEF allVars, promVars, args
  <2>2. IInv'
    BY <2>1, HeldStep DEF MeasuredInv
  <2>q. QED BY <1>1, <2>1, <2>2 DEF MeasuredInv, Passed, Own, Have, vars, rowVars, localVars, fileVars
<1>q. QED BY <1>3, <1>4, <1>5 DEF PNext

LEMMA MeasuredInit == PInit => MeasuredInv
BY HeldInit, PromoteInit DEF PInit, MeasuredInv, Before, Made, Described, Compared

\* With promotions, whatever fails or crashes and whoever promotes, a run that is PROMOTABLE
\* or PROMOTED still has all its evidence.
THEOREM PromotedIsProven == ASSUME ~Reverts PROVE PSpec => []PromotableIsProven
<1>1. MeasuredInv => PromotableIsProven
  BY HeldProves DEF MeasuredInv
<1>2. MeasuredInv /\ [PNext]_allVars => MeasuredInv'
  BY MeasuredStep
<1>q. QED BY <1>1, <1>2, MeasuredInit, PTL DEF PSpec

\* Promotions write no reports.
LEMMA OwnPromote == ASSUME Alone PROVE PTypeOK' /\ OwnInv /\ [PNext]_allVars => OwnInv'
<1> SUFFICES ASSUME PTypeOK', OwnInv, [PNext]_allVars PROVE OwnInv'
  OBVIOUS
<1>1. CASE Next \/ UNCHANGED allVars
  BY <1>1, OwnStep DEF allVars
<1>2. ASSUME NEW p \in Promoters, Promote(p) \/ CrashPromoter(p) PROVE OwnInv'
  <2>1. UNCHANGED <<pc, reports, orphans, evidence>>
    BY <1>2 DEF Promote, ReadRun, CheckSource, CheckIntegrity, MakeDestination, CopyCandidate,
       WriteManifest, CheckCopy, CheckPromoted, UpdatePromoted, EmitPromoted, PromotionStoreFails,
       CrashPromoter, vars, fileVars
  <2>q. QED BY <2>1 DEF OwnInv, EvidenceIsOwn, ReportOf, PTypeOK
<1>q. QED BY <1>1, <1>2 DEF PNext

LEMMA OwnPromoteInit == PInit => OwnInv
BY InitType DEF PInit, Init, OwnInv, EvidenceIsOwn, At, Resting

\* With promotions, still no run takes another run's report for its own.
THEOREM PromotedOwn == ASSUME Alone PROVE PSpec => []EvidenceIsOwn
<1>1. OwnInv => EvidenceIsOwn
  BY DEF OwnInv
<1>2. PTypeOK' /\ OwnInv /\ [PNext]_allVars => OwnInv'
  BY OwnPromote
<1>q. QED BY <1>1, <1>2, OwnPromoteInit, PromotionTypes, PTL DEF PSpec

\* End to end: in a project root where pipelines take turns, no command is abandoned and no
\* edit restores an earlier version, the bundle of a promoted run holds exactly the source
\* that every gate, the benchmark and every profile of that run measured.
THEOREM PromotedMeasured == ASSUME Alone, ~Reverts PROVE PSpec => []PromotedIsMeasured
<1>1. PromotedHasBundle /\ PromotableIsProven /\ EvidenceIsOwn => PromotedIsMeasured
  <2> SUFFICES ASSUME PromotedHasBundle, PromotableIsProven, EvidenceIsOwn,
                      NEW r \in Runs, state[r] = "PROMOTED"
               PROVE  \E p \in Promoters :
                         /\ prun[p] = r /\ bundle[p] = "described"
                         /\ \A c \in Required : \E e \in EvidenceFor(r, c) :
                               e.by = r /\ e.source = copied[p] /\ e.protected = integrityHash[r]
    BY DEF PromotedIsMeasured
  <2>1. PICK p \in Promoters : prun[p] = r /\ bundle[p] = "described" /\ copied[p] = sourceHash[r]
    BY DEF PromotedHasBundle
  <2>2. ASSUME NEW c \in Required
        PROVE  \E e \in EvidenceFor(r, c) :
                   e.by = r /\ e.source = copied[p] /\ e.protected = integrityHash[r]
    <3>1. PICK e \in EvidenceFor(r, c) : e.by = r => e.source = sourceHash[r] /\ e.protected = integrityHash[r]
      BY <2>2 DEF PromotableIsProven
    <3>2. e.by = r
      BY DEF EvidenceFor, EvidenceIsOwn
    <3>q. QED BY <2>1, <3>1, <3>2
  <2>q. QED BY <2>1, <2>2
<1>q. QED BY <1>1, PromotedBundles, PromotedIsProven, PromotedOwn, PTL

-----------------------------------------------------------------------------
(* Why a promotion does not hide a failure.                                *)

Settled == {Absent, "FAILED", "PROMOTED"}
Failing(l) == l.op = "raised" \/ (l.op = "emit" /\ l.what = "FAILED")
FailureInv == PTypeOK /\ \A r \in Runs : Failing(pc[r]) => state[r] \in Settled

LEMMA FailureStep ==
    ASSUME Faults = {}, FailureInv, NEW q \in Runs, Next
    PROVE  Failing(pc'[q]) => state'[q] \in Settled
<1> USE DEF Is, Raise, Goto, Jump, At
<1>0. /\ pc \in [Runs -> Label] /\ state \in [Runs -> RunState \cup {Absent}]
      /\ Failing(pc[q]) => state[q] \in Settled
  BY DEF FailureInv, PTypeOK, TypeOK
<1>1. CASE Environment
  BY <1>0, <1>1 DEF Environment, EditCandidate, EditUnhashed, EditProtected, OrphanReturns, rowVars
<1>2. ASSUME NEW r \in Runs, Pipeline(r) \/ CrashPipeline(r)
      PROVE  Failing(pc'[q]) => state'[q] \in Settled
  <2>1. CASE NewRun(r)
    BY <1>0, <2>1 DEF NewRun, ReadManifest, StartRun, BindIntegrity, WriteRunFiles, notPc, rowVars, Failing
  <2>2. CASE Execute(r)
    BY <1>0, <2>2 DEF Execute, LaunchCommand, CommandReturns, CommandTimesOut, CollectEvidence,
       ParseReport, notPc, rowVars, Failing
  <2>3. CASE Judge(r)
    BY <1>0, <2>3 DEF Judge, Preflight, VerifyIntegrity, AgentExits, BeginValidation, HashCandidate,
       BindSource, RehashCandidate, WriteReadiness, FinishCheckpoint, TERMINAL_STATES, notPc, rowVars,
       Failing, Settled
  <2>4. CASE CheckTransition(r) \/ HandleException(r) \/ CrashPipeline(r)
    BY <1>0, <2>4 DEF CheckTransition, HandleException, CrashPipeline, TERMINAL_STATES, notPc, rowVars,
       Failing, Settled
  <2>5. CASE UpdateState(r)
    BY <1>0, <2>5 DEF UpdateState, SetState, Failing, Settled
  <2>6. CASE EmitState(r)
    BY <1>0, <2>6 DEF EmitState, Failing
  <2>7. ~StoreFails(r) /\ ~FileFails(r)
    BY DEF StoreFails, FileFails
  <2>q. QED BY <1>2, <2>1, <2>2, <2>3, <2>4, <2>5, <2>6, <2>7 DEF Pipeline, Transition
<1>q. QED BY <1>1, <1>2 DEF Next

\* With promotions, a pipeline that ends with an exception still has recorded the failure, or
\* its run was promoted meanwhile, as long as no store or file operation fails
\* (production.py:216 run_all).
THEOREM PromotedFailures == ASSUME Faults = {} PROVE PSpec => []FailureRecorded
<1>1. PInit => FailureInv
  BY PromoteInit DEF PInit, Init, At, PInv, FailureInv, Failing
<1>2. PTypeOK' /\ FailureInv /\ [PNext]_allVars => FailureInv'
  <2> SUFFICES ASSUME PTypeOK', FailureInv, [PNext]_allVars PROVE FailureInv'
    OBVIOUS
  <2>1. CASE Next
    BY <2>1, FailureStep DEF FailureInv, Failing
  <2>2. ASSUME NEW p \in Promoters, Promote(p) \/ CrashPromoter(p)
        PROVE  pc' = pc /\ \A r \in Runs : state'[r] \in {state[r], "PROMOTED"}
    BY <2>2 DEF FailureInv, PTypeOK, TypeOK, Promote, ReadRun, CheckSource, CheckIntegrity, MakeDestination,
       CopyCandidate, WriteManifest, CheckCopy, CheckPromoted, UpdatePromoted, SetState, EmitPromoted,
       PromotionStoreFails, CrashPromoter, vars, rowVars
  <2>3. CASE UNCHANGED allVars
    BY <2>3 DEF FailureInv, Failing, allVars, vars, rowVars
  <2>q. QED BY <2>1, <2>2, <2>3 DEF PNext, FailureInv, Failing, Settled
<1>3. FailureInv => FailureRecorded
  BY DEF FailureInv, FailureRecorded, Failing, Settled, Is
<1>q. QED BY <1>1, <1>2, <1>3, PromotionTypes, PTL DEF PSpec
=============================================================================
