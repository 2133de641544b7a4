--------------------------- MODULE PipelineProofs ---------------------------
(* Theorems about the pipelines, for every number of runs, gates, profilers, *)
(* edits and crashes.                                                        *)
EXTENDS ProductionPipeline, TLAPS

-----------------------------------------------------------------------------
(* Type correctness.                                                         *)

\* A label about a command is well typed.
LEMMA CommandLabel ==
    ASSUME NEW op \in CommandOps, NEW what \in Commands, NEW i \in Nat
    PROVE  At(op, what, i) \in Label
BY DEF At, Label

\* A label about a state is well typed.
LEMMA StateLabel ==
    ASSUME NEW op \in StateOps, NEW what \in RunState, NEW i \in Nat
    PROVE  At(op, what, i) \in Label
BY DEF At, Label

\* A label about nothing else is well typed.
LEMMA PlainLabel ==
    ASSUME NEW op \in Ops \ (CommandOps \cup StateOps)
    PROVE  At(op, "-", 0) \in Label
BY DEF At, Label

\* Whatever the label, a jump keeps the program counters well typed.
LEMMA JumpType ==
    ASSUME TypeOK, NEW r \in Runs, NEW l \in Label, pc' = [pc EXCEPT ![r] = l]
    PROVE  pc' \in [Runs -> Label]
BY DEF TypeOK

\* A jump to a step of transition keeps the type.
LEMMA RunStateJump ==
    ASSUME TypeOK, NEW r \in Runs, NEW op \in StateOps, NEW what \in RunState, Jump(r, op, what, 0)
    PROVE  pc' \in [Runs -> Label]
BY JumpType, StateLabel DEF Jump

\* A jump to a step of _execute, or to what follows it, keeps the type.
LEMMA CommandJump ==
    ASSUME TypeOK, NEW r \in Runs, NEW op \in CommandOps, NEW what \in Commands, NEW i \in Nat,
           Jump(r, op, what, i)
    PROVE  pc' \in [Runs -> Label]
BY JumpType, CommandLabel DEF Jump

\* A jump to one of the two checks that no command precedes keeps the type.
LEMMA VerifyJump ==
    ASSUME TypeOK, NEW r \in Runs, NEW what \in {"prepare", "validate"},
           Jump(r, "verify", what, 0)
    PROVE  pc' \in [Runs -> Label]
<1>1. At("verify", what, 0) \in Label
  BY DEF At, Label
<1>q. QED BY <1>1, JumpType DEF Jump

\* A jump to a step with nothing to name keeps the type.
LEMMA GotoJump ==
    ASSUME TypeOK, NEW r \in Runs, NEW op \in Ops \ (CommandOps \cup StateOps), Goto(r, op)
    PROVE  pc' \in [Runs -> Label]
BY JumpType, PlainLabel DEF Goto, Jump

\* Raising keeps the type.
LEMMA RaiseJump == ASSUME TypeOK, NEW r \in Runs, Raise(r) PROVE pc' \in [Runs -> Label]
BY GotoJump DEF Raise, Ops, CommandOps, StateOps

\* A label read back: what it is about follows from its operation.
LEMMA LabelParts ==
    ASSUME TypeOK, NEW r \in Runs
    PROVE  /\ pc[r].op \in Ops /\ pc[r].i \in Nat
           /\ pc[r].op \in CommandOps \ {"verify"} => pc[r].what \in Commands
           /\ pc[r].op = "verify" => pc[r].what \in Commands \cup {"prepare", "validate"}
           /\ pc[r].op \in StateOps => pc[r].what \in RunState
<1>1. pc[r] \in Label
  BY DEF TypeOK
<1>q. QED BY <1>1 DEF Label, Ops, CommandOps, StateOps

\* The initial state is well typed.
LEMMA InitType == Init => TypeOK
<1> SUFFICES ASSUME Init PROVE TypeOK
  OBVIOUS
<1>1. At("idle", "-", 0) \in Label
  BY PlainLabel DEF Ops, Resting, CommandOps, StateOps
<1>2. pc \in [Runs -> Label]
  BY <1>1 DEF Init
<1>3. log \in [Runs -> Seq(RunState)]
  BY DEF Init
<1>q. QED BY <1>2, <1>3 DEF Init, TypeOK, Hash, NoHash

\* A step that moves a program counter and nothing else.
LEMMA TypePcOnly ==
    ASSUME TypeOK, UNCHANGED notPc, pc' \in [Runs -> Label]
    PROVE  TypeOK'
BY DEF TypeOK, notPc, rowVars, localVars, treeVars, fileVars

\* new_run keeps the types.
LEMMA TypeNewRun == ASSUME TypeOK, NEW r \in Runs, NewRun(r) PROVE TypeOK'
<1> USE DEF Ops, Resting, CommandOps, StateOps
<1>1. CASE ReadManifest(r)
  <2>1. pc' \in [Runs -> Label]
    BY <1>1, GotoJump DEF ReadManifest
  <2>2. manifest' \in [Runs -> Hash] /\ launch' \in [Runs -> Launches \cup {"-"}]
    BY <1>1 DEF ReadManifest, TypeOK, Hash
  <2>q. QED BY <1>1, <2>1, <2>2 DEF ReadManifest, TypeOK, rowVars, treeVars, fileVars
<1>2. CASE StartRun(r)
  <2>1. pc' \in [Runs -> Label]
    BY <1>2, GotoJump DEF StartRun
  <2>q. QED BY <1>2, <2>1 DEF StartRun, TypeOK, localVars, treeVars, fileVars, RunState
<1>3. CASE BindIntegrity(r)
  <2>1. pc' \in [Runs -> Label]
    BY <1>3, GotoJump DEF BindIntegrity
  <2>q. QED BY <1>3, <2>1 DEF BindIntegrity, TypeOK, localVars, treeVars, fileVars
<1>4. CASE WriteRunFiles(r)
  <2>1. CASE Goto(r, "preflight")
    BY <2>1, <1>4, GotoJump, TypePcOnly DEF WriteRunFiles
  <2>2. CASE Jump(r, "verify", "prepare", 0)
    BY <2>2, <1>4, VerifyJump, TypePcOnly DEF WriteRunFiles
  <2>q. QED BY <1>4, <2>1, <2>2 DEF WriteRunFiles
<1>q. QED BY <1>1, <1>2, <1>3, <1>4 DEF NewRun

\* _execute and _run_profile keep the types.
LEMMA TypeExecute == ASSUME TypeOK, NEW r \in Runs, Execute(r) PROVE TypeOK'
<1> USE DEF CommandOps, StateOps, Is
<1>0. /\ pc[r].op \in {"launch", "run", "collect", "parse"} => pc[r].what \in Commands
      /\ pc[r].i \in Nat /\ pc[r].i + 1 \in Nat
  BY LabelParts
<1>w. ASSUME NEW what \in Commands, NEW i \in Nat PROVE Written(what, i, r) \subseteq Report
  BY DEF Written, TypeOK, Report
<1>1. CASE LaunchCommand(r)
  <2>1. pc' \in [Runs -> Label]
    BY <1>0, <1>1, CommandJump DEF LaunchCommand
  <2>q. QED BY <1>1, <2>1 DEF LaunchCommand, TypeOK, rowVars, localVars, treeVars
<1>2. CASE CommandReturns(r)
  <2>1. pc' \in [Runs -> Label]
    BY <1>0, <1>2, CommandJump, RaiseJump DEF CommandReturns
  <2>2. reports' \subseteq Report
    BY <1>0, <1>2, <1>w DEF CommandReturns, TypeOK
  <2>q. QED BY <1>2, <2>1, <2>2 DEF CommandReturns, TypeOK, rowVars, localVars, treeVars
<1>3. CASE CommandTimesOut(r)
  <2>1. pc' \in [Runs -> Label]
    BY <1>3, RaiseJump DEF CommandTimesOut
  <2>2. orphans' \subseteq [what : Commands, i : Nat, by : Runs]
    BY <1>0, <1>3 DEF CommandTimesOut, TypeOK
  <2>q. QED BY <1>3, <2>1, <2>2 DEF CommandTimesOut, TypeOK, rowVars, localVars, treeVars
<1>4. CASE CollectEvidence(r)
  <2>1. CASE Raise(r) /\ UNCHANGED evidence
    BY <2>1, <1>4, RaiseJump DEF CollectEvidence, TypeOK, rowVars, localVars, treeVars
  <2>2. ASSUME NEW f \in ReportOf(r),
               evidence' = evidence \cup
                 {[run |-> r, what |-> pc[r].what, i |-> pc[r].i, by |-> f.by,
                   source |-> f.source, unhashed |-> f.unhashed, protected |-> f.protected]},
               \/ Jump(r, "parse", pc[r].what, pc[r].i)
               \/ Jump(r, "transition", "BASELINED", 0)
               \/ Jump(r, "verify", pc[r].what, pc[r].i)
        PROVE  TypeOK'
    <3>1. pc' \in [Runs -> Label]
      BY <1>0, <1>4, <2>2, CommandJump, RunStateJump DEF CollectEvidence, RunState
    <3>2. f \in Report
      BY DEF ReportOf, TypeOK
    <3>3. evidence' \subseteq Evidence
      BY <1>0, <1>4, <2>2, <3>2 DEF CollectEvidence, TypeOK, Report, Evidence
    <3>q. QED BY <1>4, <3>1, <3>3 DEF CollectEvidence, TypeOK, rowVars, localVars, treeVars
  <2>q. QED BY <1>4, <2>1, <2>2 DEF CollectEvidence
<1>5. CASE ParseReport(r)
  <2>1. pc' \in [Runs -> Label]
    BY <1>0, <1>5, CommandJump, RunStateJump, RaiseJump DEF ParseReport, RunState
  <2>q. QED BY <1>5, <2>1, TypePcOnly DEF ParseReport
<1>q. QED BY <1>1, <1>2, <1>3, <1>4, <1>5 DEF Execute

\* The checks of prepare and validate_candidate keep the types.
LEMMA TypeJudge == ASSUME TypeOK, NEW r \in Runs, Judge(r) PROVE TypeOK'
<1> USE DEF CommandOps, StateOps, Ops, Resting, Is
<1>0. pc[r].i \in Nat /\ pc[r].i + 1 \in Nat
  BY LabelParts
<1>1. CASE VerifyIntegrity(r)
  <2>1. pc' \in [Runs -> Label]
    BY <1>0, <1>1, CommandJump, RunStateJump, GotoJump, RaiseJump
       DEF VerifyIntegrity, Goto, RunState, Commands, Captures
  <2>q. QED BY <1>1, <2>1, TypePcOnly DEF VerifyIntegrity
<1>2. CASE AgentExits(r)
  <2>1. pc' \in [Runs -> Label]
    BY <1>2, GotoJump, RaiseJump DEF AgentExits, Goto
  <2>q. QED BY <1>2, <2>1, TypePcOnly DEF AgentExits
<1>3. CASE BeginValidation(r)
  <2>1. pc' \in [Runs -> Label]
    BY <1>3, VerifyJump, RaiseJump DEF BeginValidation
  <2>q. QED BY <1>3, <2>1, TypePcOnly DEF BeginValidation
<1>4. CASE HashCandidate(r)
  <2>1. pc' \in [Runs -> Label]
    BY <1>4, GotoJump DEF HashCandidate
  <2>q. QED BY <1>4, <2>1 DEF HashCandidate, TypeOK, rowVars, treeVars, fileVars, Hash
<1>5. CASE BindSource(r)
  <2>1. pc' \in [Runs -> Label]
    BY <1>5, CommandJump DEF BindSource, Commands
  <2>q. QED BY <1>5, <2>1 DEF BindSource, TypeOK, localVars, treeVars, fileVars
<1>6. CASE RehashCandidate(r)
  <2>1. pc' \in [Runs -> Label]
    BY <1>0, <1>6, CommandJump, RunStateJump, RaiseJump DEF RehashCandidate, RunState, Commands
  <2>q. QED BY <1>6, <2>1, TypePcOnly DEF RehashCandidate
<1>7. CASE WriteReadiness(r)
  <2>1. pc' \in [Runs -> Label]
    BY <1>7, GotoJump, RaiseJump DEF WriteReadiness
  <2>q. QED BY <1>7, <2>1, TypePcOnly DEF WriteReadiness
<1>8. CASE FinishCheckpoint(r)
  <2>1. pc' \in [Runs -> Label]
    BY <1>8, GotoJump DEF FinishCheckpoint
  <2>2. status' \in [Runs -> {Absent, "running", "failed", "complete"}]
    BY <1>8 DEF FinishCheckpoint, TypeOK
  <2>q. QED BY <1>8, <2>1, <2>2 DEF FinishCheckpoint, TypeOK, localVars, treeVars, fileVars
<1>9. CASE Preflight(r)
  <2>1. pc' \in [Runs -> Label]
    BY <1>9, CommandJump, RaiseJump DEF Preflight, Commands, Captures
  <2>q. QED BY <1>9, <2>1, TypePcOnly DEF Preflight
<1>q. QED BY <1>1, <1>2, <1>3, <1>4, <1>5, <1>6, <1>7, <1>8, <1>9 DEF Judge

\* transition, the except clauses and what fails keep the types.
LEMMA TypeTransition == ASSUME TypeOK, NEW r \in Runs, Transition(r) PROVE TypeOK'
<1> USE DEF CommandOps, StateOps, Ops, Resting, Is
<1>0. pc[r].op \in StateOps => pc[r].what \in RunState
  BY LabelParts
<1>1. CASE CheckTransition(r)
  <2>1. pc' \in [Runs -> Label]
    BY <1>0, <1>1, RunStateJump, RaiseJump DEF CheckTransition
  <2>q. QED BY <1>1, <2>1, TypePcOnly DEF CheckTransition
<1>2. CASE UpdateState(r)
  <2>1. pc' \in [Runs -> Label]
    BY <1>0, <1>2, RunStateJump DEF UpdateState
  <2>2. /\ state' \in [Runs -> RunState \cup {Absent}]
        /\ status' \in [Runs -> {Absent, "running", "failed", "complete"}]
    BY <1>0, <1>2 DEF UpdateState, SetState, StatusOf, TypeOK
  <2>q. QED BY <1>2, <2>1, <2>2 DEF UpdateState, TypeOK, localVars, treeVars, fileVars
<1>3. CASE EmitState(r)
  <2>1. pc' \in [Runs -> Label]
    BY <1>3, CommandJump, RunStateJump, GotoJump DEF EmitState, RunState, Commands, Captures
  <2>2. log' \in [Runs -> Seq(RunState)]
    BY <1>0, <1>3 DEF EmitState, TypeOK
  <2>q. QED BY <1>3, <2>1, <2>2 DEF EmitState, TypeOK, localVars, treeVars, fileVars
<1>4. CASE StoreFails(r)
  <2>1. pc' \in [Runs -> Label]
    BY <1>4, GotoJump, RaiseJump DEF StoreFails
  <2>q. QED BY <1>4, <2>1, TypePcOnly DEF StoreFails
<1>5. CASE FileFails(r)
  <2>1. pc' \in [Runs -> Label]
    BY <1>5, GotoJump, RaiseJump DEF FileFails
  <2>q. QED BY <1>5, <2>1, TypePcOnly DEF FileFails
<1>6. CASE HandleException(r)
  <2>1. pc' \in [Runs -> Label]
    BY <1>6, RunStateJump, GotoJump DEF HandleException, RunState
  <2>q. QED BY <1>6, <2>1, TypePcOnly DEF HandleException
<1>q. QED BY <1>1, <1>2, <1>3, <1>4, <1>5, <1>6 DEF Transition

\* Edits, orphans and crashes keep the types.
LEMMA TypeOutside ==
    ASSUME TypeOK, Environment \/ \E r \in Runs : CrashPipeline(r)
    PROVE  TypeOK'
<1>1. CASE EditCandidate
  <2>1. candidate' \in Nat
    BY <1>1 DEF EditCandidate, TypeOK
  <2>q. QED BY <1>1, <2>1 DEF EditCandidate, TypeOK, rowVars, localVars, fileVars
<1>2. CASE EditUnhashed
  BY <1>2 DEF EditUnhashed, TypeOK, rowVars, localVars, fileVars
<1>3. CASE EditProtected
  BY <1>3 DEF EditProtected, TypeOK, rowVars, localVars, fileVars
<1>4. CASE OrphanReturns
  <2>1. PICK o \in orphans : reports' = Written(o.what, o.i, o.by) /\ orphans' = orphans \ {o}
    BY <1>4 DEF OrphanReturns
  <2>2. o.what \in Commands /\ o.i \in Nat /\ o.by \in Runs
    BY DEF TypeOK
  <2>3. reports' \subseteq Report
    BY <2>1, <2>2 DEF Written, TypeOK, Report
  <2>q. QED BY <1>4, <2>1, <2>3 DEF OrphanReturns, TypeOK, rowVars, localVars, treeVars
<1>5. ASSUME NEW r \in Runs, CrashPipeline(r) PROVE TypeOK'
  <2>1. pc' \in [Runs -> Label]
    BY <1>5, GotoJump DEF CrashPipeline, Ops, Resting, CommandOps, StateOps
  <2>2. orphans' \subseteq [what : Commands, i : Nat, by : Runs]
    BY <1>5, LabelParts DEF CrashPipeline, TypeOK, Is, CommandOps, StateOps
  <2>q. QED BY <1>5, <2>1, <2>2 DEF CrashPipeline, TypeOK, rowVars, localVars, treeVars
<1>q. QED BY <1>1, <1>2, <1>3, <1>4, <1>5 DEF Environment

\* Every step keeps the types.
LEMMA TypeStep == TypeOK /\ [Next]_vars => TypeOK'
<1> SUFFICES ASSUME TypeOK, [Next]_vars PROVE TypeOK'
  OBVIOUS
<1>1. CASE UNCHANGED vars
  BY <1>1 DEF TypeOK, vars, rowVars, localVars, treeVars, fileVars
<1>2. ASSUME NEW r \in Runs, Pipeline(r) PROVE TypeOK'
  BY <1>2, TypeNewRun, TypeExecute, TypeJudge, TypeTransition DEF Pipeline
<1>3. CASE Environment \/ \E r \in Runs : CrashPipeline(r)
  BY <1>3, TypeOutside
<1>q. QED BY <1>1, <1>2, <1>3 DEF Next

\* Every variable of the pipelines keeps its type.
THEOREM TypeCorrect == Spec => []TypeOK
<1>1. Init => TypeOK
  BY InitType
<1>2. TypeOK /\ [Next]_vars => TypeOK'
  BY TypeStep
<1>q. QED BY <1>1, <1>2, PTL DEF Spec

-----------------------------------------------------------------------------
(* Why the pipelines on their own implement the strict lifecycle: nobody else *)
(* writes the row of a run between the check of transition and its UPDATE.    *)

\* What holds of the row of run r when its program counter is l.
RowFollowsCode(r, l) ==
    /\ l.op \in {"idle", "insert"} => state[r] = Absent
    /\ l.op \notin Resting \cup {"insert"} => state[r] # Absent
    /\ l.op = "update" => Allowed(state[r], l.what)

\* Inductive: a pipeline that is about to UPDATE a row has read a state that still
\* stands.
RowInv == TypeOK /\ \A r \in Runs : RowFollowsCode(r, pc[r])

\* A step that moves one program counter and leaves every row alone.
LEMMA RowJump ==
    ASSUME RowInv, TypeOK', UNCHANGED state, NEW r \in Runs, NEW l,
           pc' = [pc EXCEPT ![r] = l], RowFollowsCode(r, l)
    PROVE  RowInv'
BY DEF RowInv, TypeOK, RowFollowsCode

\* new_run creates the row of its run once, and writes no other state.
LEMMA RowNewRun ==
    ASSUME RowInv, TypeOK', NEW r \in Runs, NewRun(r)
    PROVE  RowInv' /\ [StrictLifecycle!Next]_state
<1> USE DEF Is, Resting, Goto, Jump, At
<1>0. RowFollowsCode(r, pc[r])
  BY DEF RowInv
<1>1. CASE ReadManifest(r)
  <2>1. RowFollowsCode(r, At("insert", "-", 0))
    BY <1>0, <1>1 DEF ReadManifest, RowFollowsCode
  <2>q. QED BY <1>1, <2>1, RowJump DEF ReadManifest, rowVars
<1>2. CASE StartRun(r)
  <2>1. StrictLifecycle!Create(r)
    BY <1>0, <1>2 DEF StartRun, RowFollowsCode, StrictLifecycle!Create, Absent, StrictLifecycle!Absent
  <2>2. RowInv'
    BY <1>2 DEF RowInv, StartRun, RowFollowsCode, TypeOK, Absent
  <2>q. QED BY <2>1, <2>2 DEF StrictLifecycle!Next
<1>3. CASE BindIntegrity(r)
  <2>1. RowFollowsCode(r, At("runFiles", "-", 0))
    BY <1>0, <1>3 DEF BindIntegrity, RowFollowsCode
  <2>q. QED BY <1>3, <2>1, RowJump DEF BindIntegrity
<1>4. CASE WriteRunFiles(r)
  <2>1. RowFollowsCode(r, At("preflight", "-", 0)) /\ RowFollowsCode(r, At("verify", "prepare", 0))
    BY <1>0, <1>4 DEF WriteRunFiles, RowFollowsCode
  <2>q. QED BY <1>4, <2>1, RowJump DEF WriteRunFiles, notPc, rowVars
<1>q. QED BY <1>1, <1>2, <1>3, <1>4 DEF NewRun

\* Between two transitions a pipeline leaves the row alone and jumps to no UPDATE.
LEMMA RowPlain ==
    ASSUME RowInv, TypeOK', NEW r \in Runs,
           \/ Execute(r) \/ Judge(r) \/ EmitState(r) \/ StoreFails(r) \/ FileFails(r)
           \/ CrashPipeline(r)
    PROVE  RowInv' /\ UNCHANGED state
<1> USE DEF Is, Resting, Raise, Goto, Jump
<1>1. UNCHANGED state
  BY DEF Execute, LaunchCommand, CommandReturns, CommandTimesOut, CollectEvidence, ParseReport,
         Judge, Preflight, VerifyIntegrity, AgentExits, BeginValidation, HashCandidate, BindSource,
         RehashCandidate, WriteReadiness, FinishCheckpoint, EmitState, StoreFails, FileFails,
         CrashPipeline,
         notPc, rowVars
<1>2. \/ pc[r].op \notin {"idle", "insert", "done", "raised", "crashed", "except"}
      \/ CrashPipeline(r)
      \/ StoreFails(r) /\ pc[r].op = "insert"
  BY DEF Execute, LaunchCommand, CommandReturns, CommandTimesOut, CollectEvidence, ParseReport,
         Judge, Preflight, VerifyIntegrity, AgentExits, BeginValidation, HashCandidate, BindSource,
         RehashCandidate, WriteReadiness, FinishCheckpoint, EmitState, StoreFails, FileFails
<1>3. /\ pc' = [pc EXCEPT ![r] = pc'[r]]
      /\ pc'[r].op \notin {"idle", "insert", "update"}
      /\ CrashPipeline(r) => pc'[r].op = "crashed"
      /\ StoreFails(r) /\ pc[r].op = "insert" => pc'[r].op = "raised"
  <2> USE DEF At
  <2>0. pc \in [Runs -> Label]
    BY DEF RowInv, TypeOK
  <2>1. CASE Execute(r)
    BY <2>0, <2>1 DEF Execute, LaunchCommand, CommandReturns, CommandTimesOut, CollectEvidence,
                      ParseReport, CrashPipeline, StoreFails
  <2>2. CASE Judge(r)
    BY <2>0, <2>2 DEF Judge, Preflight, VerifyIntegrity, AgentExits, BeginValidation, HashCandidate,
                      BindSource, RehashCandidate, WriteReadiness, FinishCheckpoint, CrashPipeline, StoreFails
  <2>3. CASE EmitState(r)
    BY <2>0, <2>3 DEF EmitState, CrashPipeline, StoreFails
  <2>4. CASE StoreFails(r)
    BY <2>0, <2>4 DEF StoreFails, CrashPipeline
  <2>5. CASE CrashPipeline(r)
    BY <2>0, <2>5 DEF StoreFails, CrashPipeline
  <2>6. CASE FileFails(r)
    BY <2>0, <2>6 DEF FileFails, StoreFails, CrashPipeline
  <2>q. QED BY <2>1, <2>2, <2>3, <2>4, <2>5, <2>6
<1>4. RowFollowsCode(r, pc[r])
  BY DEF RowInv
<1>5. RowFollowsCode(r, pc'[r])
  BY <1>2, <1>3, <1>4 DEF RowFollowsCode
<1>q. QED BY <1>1, <1>3, <1>5, RowJump

\* The UPDATE moves the row as the check that precedes it allowed.
LEMMA RowTransition ==
    ASSUME RowInv, TypeOK', NEW r \in Runs, CheckTransition(r) \/ UpdateState(r) \/ HandleException(r)
    PROVE  RowInv' /\ [StrictLifecycle!Next]_state
<1> USE DEF Is, Resting, Raise, Goto, Jump, At
<1>0. RowFollowsCode(r, pc[r])
  BY DEF RowInv
<1>1. CASE CheckTransition(r)
  <2>1. /\ Allowed(state[r], pc[r].what) => RowFollowsCode(r, At("update", pc[r].what, 0))
        /\ RowFollowsCode(r, At("except", "-", 0))
    BY <1>0, <1>1 DEF CheckTransition, RowFollowsCode
  <2>q. QED BY <1>1, <2>1, RowJump DEF CheckTransition, notPc, rowVars
<1>2. CASE UpdateState(r)
  <2>1. pc[r].what \in RunState
    BY <1>2, LabelParts DEF UpdateState, StateOps, RowInv
  <2>2. StrictLifecycle!Move(r, pc[r].what)
    BY <1>0, <1>2 DEF UpdateState, SetState, RowFollowsCode, Resting, StrictLifecycle!Move,
       Absent, StrictLifecycle!Absent, Allowed, StrictLifecycle!Allowed, STATES,
       StrictLifecycle!STATES, TERMINAL_STATES, StrictLifecycle!TERMINAL_STATES
  <2>3. RowInv'
    BY <1>2, <2>1 DEF RowInv, UpdateState, SetState, RowFollowsCode, TypeOK, RunState, Absent
  <2>q. QED BY <2>1, <2>2, <2>3 DEF StrictLifecycle!Next, RunState, StrictLifecycle!RunState
<1>3. CASE HandleException(r)
  <2>1. /\ state[r] \notin TERMINAL_STATES => RowFollowsCode(r, At("update", "FAILED", 0))
        /\ RowFollowsCode(r, At("raised", "-", 0))
    BY <1>0, <1>3 DEF HandleException, RowFollowsCode, Allowed
  <2>q. QED BY <1>3, <2>1, RowJump DEF HandleException, notPc, rowVars
<1>q. QED BY <1>1, <1>2, <1>3

\* Every step is a step of the strict lifecycle, or leaves the rows alone.
LEMMA RowStep == RowInv /\ [Next]_vars => RowInv' /\ [StrictLifecycle!Next]_state
<1> SUFFICES ASSUME RowInv, [Next]_vars PROVE RowInv' /\ [StrictLifecycle!Next]_state
  OBVIOUS
<1>1. TypeOK'
  BY TypeStep DEF RowInv
<1>2. CASE UNCHANGED vars
  BY <1>1, <1>2 DEF RowInv, RowFollowsCode, vars, rowVars
<1>3. ASSUME NEW r \in Runs, Pipeline(r) \/ CrashPipeline(r)
      PROVE  RowInv' /\ [StrictLifecycle!Next]_state
  BY <1>1, <1>3, RowNewRun, RowPlain, RowTransition DEF Pipeline, Transition
<1>4. CASE Environment
  <2>1. UNCHANGED <<state, pc>>
    BY <1>4 DEF Environment, EditCandidate, EditUnhashed, EditProtected, OrphanReturns, rowVars
  <2>q. QED BY <1>1, <2>1 DEF RowInv, RowFollowsCode
<1>q. QED BY <1>2, <1>3, <1>4 DEF Next

\* No row exists at first.
LEMMA RowInit == Init => RowInv /\ StrictLifecycle!Init
<1>1. Init => \A r \in Runs : RowFollowsCode(r, pc[r])
  BY DEF Init, At, RowFollowsCode, Resting
<1>q. QED BY <1>1, InitType DEF Init, RowInv, StrictLifecycle!Init, Absent, StrictLifecycle!Absent

\* The pipelines implement the strict lifecycle: whatever crashes, times out, fails or
\* is edited, a row is only ever moved as RunStore.transition allows.
THEOREM PipelineIsStrict == Spec => LifecycleIsStrict
<1>1. Init => RowInv /\ StrictLifecycle!Init
  BY RowInit
<1>2. RowInv /\ [Next]_vars => RowInv' /\ [StrictLifecycle!Next]_state
  BY RowStep
<1>q. QED BY <1>1, <1>2, PTL DEF Spec, LifecycleIsStrict, StrictLifecycle!Spec

-----------------------------------------------------------------------------
(* Why the events of a run tell its states in order.                         *)

LEMMA RankOfState == \A i \in 1 .. 10 : Rank(STATES[i]) = i
<1>1. \A i, j \in 1 .. 10 : STATES[i] = STATES[j] => i = j
  BY DEF STATES
<1>2. \A i \in 1 .. 10 : STATES[i] # "FAILED"
  BY DEF STATES
<1>3. Len(STATES) = 10
  BY DEF STATES
<1>q. QED BY <1>1, <1>2, <1>3 DEF Rank

LEMMA RankOfFailed == Rank("FAILED") = 11
BY DEF Rank, STATES

\* A state that may follow another ranks after it.
LEMMA AllowedGrows ==
    ASSUME NEW s \in RunState, NEW t, Allowed(s, t)
    PROVE  Rank(s) \in Nat /\ Rank(t) \in Nat /\ Rank(s) < Rank(t)
<1>1. CASE t = "FAILED" /\ s \notin TERMINAL_STATES
  <2>1. \E i \in 1 .. 10 : s = STATES[i]
    BY <1>1 DEF RunState, STATES, TERMINAL_STATES
  <2>q. QED BY <1>1, <2>1, RankOfState, RankOfFailed
<1>2. ASSUME NEW i \in 1 .. Len(STATES) - 1, s = STATES[i], t = STATES[i + 1]
      PROVE  Rank(s) \in Nat /\ Rank(t) \in Nat /\ Rank(s) < Rank(t)
  <2>1. i \in 1 .. 10 /\ i + 1 \in 1 .. 10
    BY <1>2 DEF STATES
  <2>2. Rank(s) = i /\ Rank(t) = i + 1
    BY <1>2, <2>1, RankOfState
  <2>q. QED BY <2>1, <2>2
<1>q. QED BY <1>1, <1>2 DEF Allowed

LEMMA RankIsNat == \A s \in RunState : Rank(s) \in Nat
<1>1. \A s \in RunState : s = "FAILED" \/ \E i \in 1 .. 10 : s = STATES[i]
  BY DEF RunState, STATES
<1>q. QED BY <1>1, RankOfState, RankOfFailed

\* The events of run r at a program counter l: ordered, up to the row, and short of it
\* while the event of an UPDATE is still due.
EventsOf(r, l) ==
    /\ state[r] = Absent => log[r] = << >>
    /\ l.op = "emit" => state[r] = l.what
    /\ \A j \in 1 .. Len(log[r]) :
          /\ Rank(log[r][j]) <= Rank(state[r])
          /\ l.op = "emit" => Rank(log[r][j]) < Rank(state[r])
          /\ j > 1 => Rank(log[r][j - 1]) < Rank(log[r][j])

EventsInv == RowInv /\ \A r \in Runs : EventsOf(r, pc[r])

\* Everything but the INSERT, the UPDATE and the event leaves both alone.
LEMMA EventsPlain ==
    ASSUME EventsInv, RowInv', NEW r \in Runs, Pipeline(r) \/ CrashPipeline(r),
           ~StartRun(r), ~UpdateState(r), ~EmitState(r)
    PROVE  EventsInv'
<1> USE DEF Is, Raise, Goto, Jump, At
<1>0. pc \in [Runs -> Label]
  BY DEF EventsInv, RowInv, TypeOK
<1>1. UNCHANGED <<state, log>>
  BY DEF Pipeline, NewRun, ReadManifest, BindIntegrity, WriteRunFiles,
         Execute, LaunchCommand, CommandReturns, CommandTimesOut, CollectEvidence, ParseReport,
         Judge, Preflight, VerifyIntegrity, AgentExits, BeginValidation, HashCandidate, BindSource,
         RehashCandidate, WriteReadiness, FinishCheckpoint, Transition, CheckTransition, StoreFails,
         FileFails, HandleException, CrashPipeline, notPc, rowVars
<1>2. pc' = [pc EXCEPT ![r] = pc'[r]] /\ pc'[r].op # "emit"
  <2>1. CASE NewRun(r)
    BY <1>0, <2>1 DEF NewRun, ReadManifest, BindIntegrity, WriteRunFiles
  <2>2. CASE Execute(r)
    BY <1>0, <2>2 DEF Execute, LaunchCommand, CommandReturns, CommandTimesOut, CollectEvidence, ParseReport
  <2>3. CASE Judge(r)
    BY <1>0, <2>3 DEF Judge, Preflight, VerifyIntegrity, AgentExits, BeginValidation, HashCandidate,
                      BindSource, RehashCandidate, WriteReadiness, FinishCheckpoint
  <2>4. CASE Transition(r) \/ CrashPipeline(r)
    BY <1>0, <2>4 DEF Transition, CheckTransition, StoreFails, FileFails, HandleException, CrashPipeline
  <2>q. QED BY <2>1, <2>2, <2>3, <2>4 DEF Pipeline
<1>3. \A q \in Runs : EventsOf(q, pc'[q])
  <2> SUFFICES ASSUME NEW q \in Runs PROVE EventsOf(q, pc'[q])
    OBVIOUS
  <2>1. EventsOf(q, pc[q])
    BY DEF EventsInv
  <2>2. pc'[q] = pc[q] \/ pc'[q].op # "emit"
    BY <1>0, <1>2
  <2>q. QED BY <2>1, <2>2 DEF EventsOf
<1>q. QED BY <1>1, <1>3 DEF EventsInv, EventsOf

LEMMA EventsMove ==
    ASSUME EventsInv, RowInv', NEW r \in Runs, StartRun(r) \/ UpdateState(r) \/ EmitState(r)
    PROVE  EventsInv'
<1> USE DEF Is, Goto, Jump
<1>0. /\ pc \in [Runs -> Label] /\ state \in [Runs -> RunState \cup {Absent}]
      /\ log \in [Runs -> Seq(RunState)]
      /\ RowFollowsCode(r, pc[r]) /\ EventsOf(r, pc[r])
  BY DEF EventsInv, RowInv, TypeOK
<1>1. \A q \in Runs \ {r} : EventsOf(q, pc[q])'
  <2>1. \A q \in Runs \ {r} : state'[q] = state[q] /\ log'[q] = log[q] /\ pc'[q] = pc[q]
    BY <1>0 DEF StartRun, UpdateState, SetState, EmitState
  <2>q. QED BY <2>1 DEF EventsInv, EventsOf
<1>2. EventsOf(r, pc[r])'
  <2>1. CASE StartRun(r)
    <3>1. /\ log'[r] = << >> /\ state'[r] = "CREATED" /\ pc'[r].op = "bindIntegrity"
      BY <1>0, <2>1 DEF StartRun, RowFollowsCode, EventsOf, At
    <3>q. QED BY <3>1 DEF EventsOf, Absent
  <2>2. CASE UpdateState(r)
    <3>1. /\ log'[r] = log[r] /\ state'[r] = pc[r].what /\ pc'[r] = At("emit", pc[r].what, 0)
      BY <1>0, <2>2 DEF UpdateState, SetState
    <3>2. /\ Allowed(state[r], pc[r].what) /\ state[r] \in RunState
      BY <1>0, <2>2 DEF UpdateState, RowFollowsCode, Resting
    <3>3. Rank(state[r]) \in Nat /\ Rank(pc[r].what) \in Nat /\ Rank(state[r]) < Rank(pc[r].what)
      BY <3>2, AllowedGrows
    <3>4. \A j \in 1 .. Len(log[r]) : Rank(log[r][j]) \in Nat /\ Rank(log[r][j]) <= Rank(state[r])
      BY <1>0, RankIsNat DEF EventsOf
    <3>5. pc[r].what # Absent
      BY <2>2, LabelParts DEF UpdateState, StateOps, EventsInv, RowInv, Absent, RunState
    <3>q. QED BY <1>0, <3>1, <3>3, <3>4, <3>5 DEF EventsOf, At
  <2>3. CASE EmitState(r)
    <3>1. /\ log'[r] = Append(log[r], state[r]) /\ state'[r] = state[r] /\ pc'[r].op # "emit"
      BY <1>0, <2>3 DEF EmitState, EventsOf, At
    <3>2. state[r] \in RunState
      BY <1>0, <2>3 DEF EmitState, RowFollowsCode, Resting
    <3>3. Rank(state[r]) \in Nat
      BY <3>2, RankIsNat
    <3>4. log[r] \in Seq(RunState)
      BY <1>0
    <3>5. \A j \in 1 .. Len(log[r]) :
             /\ Rank(log[r][j]) < Rank(state[r])
             /\ j > 1 => Rank(log[r][j - 1]) < Rank(log[r][j])
      BY <1>0, <2>3 DEF EmitState, EventsOf
    <3>6. /\ Len(log'[r]) = Len(log[r]) + 1 /\ Len(log[r]) \in Nat
          /\ \A j \in 1 .. Len(log[r]) : log'[r][j] = log[r][j]
          /\ log'[r][Len(log[r]) + 1] = state[r]
      BY <3>1, <3>2, <3>4
    <3>7. ASSUME NEW j \in 1 .. Len(log'[r])
          PROVE  /\ Rank(log'[r][j]) <= Rank(state'[r])
                 /\ j > 1 => Rank(log'[r][j - 1]) < Rank(log'[r][j])
      <4>0. \A k \in 1 .. Len(log[r]) : Rank(log[r][k]) \in Nat
        BY <3>4, RankIsNat
      <4>1. CASE j = Len(log[r]) + 1
        BY <3>1, <3>3, <3>5, <3>6, <4>0, <4>1
      <4>2. CASE j \in 1 .. Len(log[r])
        <5>1. j > 1 => j - 1 \in 1 .. Len(log[r])
          BY <3>6, <4>2
        <5>q. QED BY <3>1, <3>3, <3>5, <3>6, <4>0, <4>2, <5>1
      <4>q. QED BY <3>6, <4>1, <4>2
    <3>8. state[r] # Absent
      BY <3>2 DEF RunState, Absent
    <3>q. QED BY <3>1, <3>7, <3>8 DEF EventsOf
  <2>q. QED BY <2>1, <2>2, <2>3
<1>q. QED BY <1>1, <1>2 DEF EventsInv

LEMMA EventsStep == EventsInv /\ [Next]_vars => EventsInv'
<1> SUFFICES ASSUME EventsInv, [Next]_vars PROVE EventsInv'
  OBVIOUS
<1>1. RowInv'
  BY RowStep DEF EventsInv
<1>2. CASE UNCHANGED vars \/ Environment
  <2>1. UNCHANGED <<state, log, pc>>
    BY <1>2 DEF vars, rowVars, Environment, EditCandidate, EditUnhashed, EditProtected, OrphanReturns
  <2>q. QED BY <1>1, <2>1 DEF EventsInv, EventsOf
<1>3. ASSUME NEW r \in Runs, Pipeline(r) \/ CrashPipeline(r) PROVE EventsInv'
  BY <1>1, <1>3, EventsPlain, EventsMove
<1>q. QED BY <1>2, <1>3 DEF Next

\* The events of a run tell the states its row went through, in order, even if some are lost
\* to a locked database or a killed process.
THEOREM EventsInOrder == Spec => []EventsFollowRow
<1>1. Init => EventsInv
  BY RowInit DEF Init, EventsInv, EventsOf, At
<1>2. EventsInv => EventsFollowRow
  BY DEF EventsInv, EventsOf, EventsFollowRow
<1>q. QED BY <1>1, <1>2, EventsStep, PTL DEF Spec

\* Without faults of the store and the files, an exception comes to "raised" only with a
\* row that is over.
FailInv == EventsInv /\ FailureRecorded

\* When no store or file operation fails, a pipeline that ends with an exception has recorded
\* the failure, whatever commands fail, time out or are killed.
THEOREM FailuresRecorded == ASSUME Faults = {} PROVE Spec => []FailureRecorded
<1>1. Init => FailInv
  BY RowInit DEF Init, FailInv, FailureRecorded, Is, EventsInv, EventsOf, At
<1>2. FailInv /\ [Next]_vars => FailInv'
  <2> SUFFICES ASSUME FailInv, [Next]_vars, NEW q \in Runs, pc'[q].op = "raised"
               PROVE  state'[q] \in {Absent, "FAILED", "PROMOTED"}
    BY EventsStep DEF FailInv, FailureRecorded, Is
  <2>0. /\ pc \in [Runs -> Label] /\ state \in [Runs -> RunState \cup {Absent}]
        /\ EventsOf(q, pc[q])
        /\ pc[q].op = "raised" => state[q] \in {Absent, "FAILED", "PROMOTED"}
    BY DEF FailInv, FailureRecorded, EventsInv, RowInv, TypeOK, Is
  <2>1. CASE UNCHANGED vars \/ Environment
    BY <2>0, <2>1 DEF vars, rowVars, Environment, EditCandidate, EditUnhashed, EditProtected, OrphanReturns
  <2>2. ASSUME NEW r \in Runs, Pipeline(r) \/ CrashPipeline(r)
        PROVE  state'[q] \in {Absent, "FAILED", "PROMOTED"}
    <3> USE DEF Is, Raise, Goto, Jump, At
    <3>1. CASE NewRun(r)
      BY <2>0, <3>1 DEF NewRun, ReadManifest, StartRun, BindIntegrity, WriteRunFiles, notPc, rowVars
    <3>2. CASE Execute(r)
      BY <2>0, <3>2 DEF Execute, LaunchCommand, CommandReturns, CommandTimesOut, CollectEvidence,
                        ParseReport, notPc, rowVars
    <3>3. CASE Judge(r)
      BY <2>0, <3>3 DEF Judge, Preflight, VerifyIntegrity, AgentExits, BeginValidation, HashCandidate,
                        BindSource, RehashCandidate, WriteReadiness, FinishCheckpoint, TERMINAL_STATES,
                        notPc, rowVars
    <3>4. CASE CheckTransition(r) \/ UpdateState(r)
      BY <2>0, <3>4 DEF CheckTransition, UpdateState, SetState, notPc, rowVars
    <3>5. CASE EmitState(r)
      BY <2>0, <3>5 DEF EmitState, EventsOf
    <3>6. CASE HandleException(r) \/ CrashPipeline(r)
      BY <2>0, <3>6 DEF HandleException, CrashPipeline, TERMINAL_STATES, notPc, rowVars
    <3>7. ~StoreFails(r) /\ ~FileFails(r)
      BY DEF StoreFails, FileFails
    <3>q. QED BY <2>2, <3>1, <3>2, <3>3, <3>4, <3>5, <3>6, <3>7 DEF Pipeline, Transition
  <2>q. QED BY <2>1, <2>2 DEF Next
<1>3. FailInv => FailureRecorded
  BY DEF FailInv
<1>q. QED BY <1>1, <1>2, <1>3, PTL DEF Spec

-----------------------------------------------------------------------------
(* Why a report that counts was written by the run it counts for.            *)

Alone == Exclusive /\ ~Timeouts /\ ~Crashes

\* One pipeline is under way, nothing outlives its command, and what is at the path of a
\* report between the launch of its command and its collection is that command's.
OwnInv ==
    /\ TypeOK /\ orphans = {} /\ EvidenceIsOwn
    /\ \A r, q \in Runs : pc[r].op \notin Resting /\ pc[q].op \notin Resting => r = q
    /\ \A r \in Runs : pc[r].op \in {"run", "collect"} => \A f \in ReportOf(r) : f.by = r

LEMMA OwnStep == Alone /\ OwnInv /\ [Next]_vars => OwnInv'
<1> SUFFICES ASSUME Alone, OwnInv, [Next]_vars PROVE OwnInv'
  OBVIOUS
<1>0. TypeOK' /\ pc \in [Runs -> Label]
  BY TypeStep DEF OwnInv, TypeOK
<1>1. CASE UNCHANGED vars \/ Environment
  <2>1. UNCHANGED <<pc, reports, orphans, evidence>>
    BY <1>1 DEF vars, fileVars, Environment, EditCandidate, EditUnhashed, EditProtected, OrphanReturns, OwnInv
  <2>q. QED BY <1>0, <2>1 DEF OwnInv, EvidenceIsOwn, ReportOf
<1>2. ASSUME NEW r \in Runs, Pipeline(r) PROVE OwnInv'
  <2> USE DEF Is, Raise, Goto, Jump, At
  <2>1. \/ pc[r].op \notin Resting
        \/ pc[r].op = "idle" /\ \A q \in Runs : pc[q].op \in Resting
    BY <1>2 DEF Alone, Pipeline, NewRun, ReadManifest, StartRun, BindIntegrity, WriteRunFiles,
         Execute, LaunchCommand, CommandReturns, CommandTimesOut, CollectEvidence, ParseReport,
         Judge, Preflight, VerifyIntegrity, AgentExits, BeginValidation, HashCandidate, BindSource,
         RehashCandidate, WriteReadiness, FinishCheckpoint, Transition, CheckTransition, UpdateState,
         EmitState, StoreFails, FileFails, HandleException, Resting
  <2>2. \A q \in Runs \ {r} : pc'[q] = pc[q] /\ pc[q].op \in Resting
    <3>1. \A q \in Runs \ {r} : pc'[q] = pc[q]
      BY <1>0, <1>2 DEF Pipeline, NewRun, ReadManifest, StartRun, BindIntegrity, WriteRunFiles,
         Execute, LaunchCommand, CommandReturns, CommandTimesOut, CollectEvidence, ParseReport,
         Judge, Preflight, VerifyIntegrity, AgentExits, BeginValidation, HashCandidate, BindSource,
         RehashCandidate, WriteReadiness, FinishCheckpoint, Transition, CheckTransition, UpdateState,
         EmitState, StoreFails, FileFails, HandleException
    <3>q. QED BY <2>1, <3>1 DEF OwnInv
  <2>3. \A a, z \in Runs : pc'[a].op \notin Resting /\ pc'[z].op \notin Resting => a = z
    BY <2>2
  <2>4. \A q \in Runs \ {r} : pc'[q].op \notin {"run", "collect"}
    BY <2>2 DEF Resting
  <2>5. CASE LaunchCommand(r)
    <3>1. ReportOf(r)' = {}
      BY <1>0, <2>5 DEF LaunchCommand, ReportOf
    <3>q. QED BY <1>0, <2>3, <2>4, <2>5, <3>1 DEF OwnInv, EvidenceIsOwn, LaunchCommand
  <2>6. CASE CommandReturns(r)
    <3>1. pc'[r].op = "collect" => pc'[r].what = pc[r].what /\ pc'[r].i = pc[r].i
      BY <1>0, <2>6 DEF CommandReturns
    <3>2. \A f \in reports' : f \in reports \/ f.by = r
      BY <2>6 DEF CommandReturns, Written
    <3>3. pc[r].op = "run"
      BY <2>6 DEF CommandReturns
    <3>4. pc'[r].op \in {"run", "collect"} => \A f \in ReportOf(r)' : f.by = r
      BY <1>0, <2>6, <3>1, <3>2, <3>3 DEF OwnInv, ReportOf, CommandReturns
    <3>q. QED BY <1>0, <2>3, <2>4, <2>6, <3>4 DEF OwnInv, EvidenceIsOwn, CommandReturns
  <2>7. CASE CollectEvidence(r)
    <3>1. pc[r].op = "collect"
      BY <2>7 DEF CollectEvidence
    <3>2. \A e \in evidence' : e \in evidence \/ (e.run = r /\ \E f \in ReportOf(r) : e.by = f.by)
      BY <2>7 DEF CollectEvidence
    <3>3. EvidenceIsOwn'
      BY <3>1, <3>2 DEF OwnInv, EvidenceIsOwn
    <3>4. pc'[r].op \notin {"run", "collect"} /\ UNCHANGED orphans
      BY <1>0, <2>7 DEF CollectEvidence
    <3>q. QED BY <1>0, <2>3, <2>4, <3>3, <3>4 DEF OwnInv
  <2>8. CASE ~LaunchCommand(r) /\ ~CommandReturns(r) /\ ~CollectEvidence(r)
    <3>1. UNCHANGED <<reports, orphans, evidence>>
      BY <1>2, <2>8 DEF Alone, Pipeline, NewRun, ReadManifest, StartRun, BindIntegrity, WriteRunFiles,
         Execute, CommandTimesOut, ParseReport,
         Judge, Preflight, VerifyIntegrity, AgentExits, BeginValidation, HashCandidate, BindSource,
         RehashCandidate, WriteReadiness, FinishCheckpoint, Transition, CheckTransition, UpdateState,
         EmitState, StoreFails, FileFails, HandleException, notPc, fileVars
    <3>2. pc'[r].op \notin {"run", "collect"}
      <4>1. CASE NewRun(r)
        BY <1>0, <4>1 DEF NewRun, ReadManifest, StartRun, BindIntegrity, WriteRunFiles
      <4>2. CASE Execute(r)
        BY <1>0, <2>8, <4>2 DEF Alone, Execute, CommandTimesOut, ParseReport
      <4>3. CASE Judge(r)
        BY <1>0, <4>3 DEF Judge, Preflight, VerifyIntegrity, AgentExits, BeginValidation, HashCandidate,
           BindSource, RehashCandidate, WriteReadiness, FinishCheckpoint
      <4>4. CASE Transition(r)
        BY <1>0, <4>4 DEF Transition, CheckTransition, UpdateState, EmitState, StoreFails, FileFails,
           HandleException
      <4>q. QED BY <1>2, <4>1, <4>2, <4>3, <4>4 DEF Pipeline
    <3>q. QED BY <1>0, <2>3, <2>4, <3>1, <3>2 DEF OwnInv, EvidenceIsOwn
  <2>q. QED BY <2>5, <2>6, <2>7, <2>8
<1>3. ASSUME NEW r \in Runs PROVE ~CrashPipeline(r)
  BY DEF Alone, CrashPipeline
<1>q. QED BY <1>1, <1>2, <1>3 DEF Next

\* Where pipelines take turns in a project root and no command is abandoned, no run takes
\* another run's report for its own: each command finds its report path empty.
THEOREM EvidenceOwn == ASSUME Alone PROVE Spec => []EvidenceIsOwn
<1>1. Init => OwnInv
  BY InitType DEF Init, OwnInv, EvidenceIsOwn, At, Resting
<1>2. OwnInv /\ [Next]_vars => OwnInv'
  BY OwnStep
<1>3. OwnInv => EvidenceIsOwn
  BY DEF OwnInv
<1>q. QED BY <1>1, <1>2, <1>3, PTL DEF Spec
=============================================================================
