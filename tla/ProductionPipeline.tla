------------------------ MODULE ProductionPipeline ------------------------
(***************************************************************************)
(* The production evidence pipeline (ako4x/production.py) over the run     *)
(* store (ako4x/events.py): the processes that drive runs (`ako4x-lab run`,*)
(* `doctor` and the two lane runners), the external commands they launch,  *)
(* and a working tree that anybody may edit at any moment.                 *)
(*                                                                         *)
(* Sources, protected files and the files the source hash skips are        *)
(* version numbers: two versions are equal exactly when the bytes are, and *)
(* a SHA-256 is the version it was computed from.                          *)
(***************************************************************************)
EXTENDS RunStates, FiniteSets

CONSTANTS
    Runs,          \* run ids: one pipeline process each
    Launches,      \* which of "run", "lane" and "doctor" start runs
    NumGates,      \* gates of the config, run in the order of REQUIRED_GATES
    NumProfilers,  \* profilers of the config (ncu, nsys)
    HasOptimizer,  \* the config has an optimizer command
    Exclusive,     \* one pipeline at a time in this project root
    Timeouts,      \* an external command may exceed its timeout
    Faults,        \* what may raise in AKO4X itself: the "store" or "files"
    Crashes,       \* a process may be killed at any moment
    Reverts,       \* an edit of the candidate may restore an earlier version
    MaxEdits, MaxUnhashedEdits, MaxProtectedEdits   \* bounds on the environment

ASSUME ConfigAssumption ==
    /\ NumGates \in Nat \ {0}
    /\ NumProfilers \in Nat \ {0}
    /\ Launches \subseteq {"run", "lane", "doctor"}
    /\ HasOptimizer \in BOOLEAN
ASSUME EnvironmentAssumption ==
    /\ {Exclusive, Timeouts, Crashes, Reverts} \subseteq BOOLEAN
    /\ Faults \subseteq {"store", "files"}
    /\ {MaxEdits, MaxUnhashedEdits, MaxProtectedEdits} \subseteq Nat

VARIABLES
    \* the rows of the `runs` table and the state.changed events of each run
    state, status, sourceHash, integrityHash, log,
    \* the pipeline process of each run: program counter and local variables
    pc, launch, manifest, candidateHash,
    \* the working tree: candidate sources, files source_hash skips, protected files
    candidate, unhashed, protected,
    \* evidence files in the tree, commands that outlived their timeout or their
    \* parent, and the snapshots in the run directories
    reports, orphans, evidence

rowVars   == <<state, status, sourceHash, integrityHash, log>>
localVars == <<launch, manifest, candidateHash>>
treeVars  == <<candidate, unhashed, protected>>
fileVars  == <<reports, orphans, evidence>>
vars      == <<rowVars, pc, localVars, treeVars, fileVars>>
\* Most steps of a pipeline process move its program counter and nothing else.
notPc     == <<rowVars, localVars, treeVars, fileVars>>

NoHash == -1       \* SQL NULL, or a local variable not yet assigned
Hash   == Nat \cup {NoHash}

\* The commands of _execute that leave a report, as <<name, index>> pairs; the
\* profiler captures are followed by the native and the project parser.
Captures == {"smoke", "baseline-profile", "candidate-profile"}
Commands == Captures \cup {"baseline", "gate", "benchmark"}
Gates    == {<<"gate", i>> : i \in 1 .. NumGates}
Profiles == {<<"candidate-profile", i>> : i \in 1 .. NumProfilers}

\* The evidence a promotion stands on: every gate, the benchmark, and every
\* profile of the candidate.
Required == Gates \cup {<<"benchmark", 1>>} \cup Profiles

\* A program counter: the operation, the command or target state it is about,
\* and the index of the gate or profiler.
At(op, what, i) == [op |-> op, what |-> what, i |-> i]
Resting == {"idle", "done", "raised", "crashed"}
Ops == Resting \cup {"insert", "bindIntegrity", "runFiles", "preflight", "verify", "launch", "run",
                     "collect", "parse", "rehash", "transition", "update", "emit",
                     "agent", "validate", "hash", "bindSource", "readiness", "finish",
                     "except"}

Jump(r, op, what, i) == pc' = [pc EXCEPT ![r] = At(op, what, i)]
Goto(r, op) == Jump(r, op, "-", 0)
\* An exception inside the try block of run_all, the doctor or a lane runner.
Raise(r) == Goto(r, "except")
Is(r, op) == pc[r].op = op

Init ==
    /\ state = [r \in Runs |-> Absent]
    /\ status = [r \in Runs |-> Absent]
    /\ sourceHash = [r \in Runs |-> NoHash]
    /\ integrityHash = [r \in Runs |-> NoHash]
    /\ log = [r \in Runs |-> << >>]
    /\ pc = [r \in Runs |-> At("idle", "-", 0)]
    /\ launch = [r \in Runs |-> "-"]
    /\ manifest = [r \in Runs |-> NoHash]
    /\ candidateHash = [r \in Runs |-> NoHash]
    /\ candidate = 0 /\ unhashed = 0 /\ protected = 0
    /\ reports = {} /\ orphans = {} /\ evidence = {}

-----------------------------------------------------------------------------
(* new_run: everything before the caller's try block.                      *)

\* integrity_manifest, computed before the row exists.
ReadManifest(r) ==
    /\ Is(r, "idle")
    /\ Exclusive => \A q \in Runs : pc[q].op \in Resting
    /\ manifest' = [manifest EXCEPT ![r] = protected]
    /\ \E l \in Launches : launch' = [launch EXCEPT ![r] = l]
    /\ Goto(r, "insert")
    /\ UNCHANGED <<rowVars, candidateHash, treeVars, fileVars>>

StartRun(r) ==
    /\ Is(r, "insert")
    /\ state' = [state EXCEPT ![r] = "CREATED"]
    /\ status' = [status EXCEPT ![r] = "running"]
    /\ Goto(r, "bindIntegrity")
    /\ UNCHANGED <<sourceHash, integrityHash, log, localVars, treeVars, fileVars>>

BindIntegrity(r) ==
    /\ Is(r, "bindIntegrity")
    /\ integrityHash' = [integrityHash EXCEPT ![r] = manifest[r]]
    /\ Goto(r, "runFiles")
    /\ UNCHANGED <<state, status, sourceHash, log, localVars, treeVars, fileVars>>

\* integrity.json, the backend's fingerprint, config.json and, for a lane, the
\* lane records of _record_run.  A doctor run goes straight to preflight; prepare
\* first verifies the protected files.
WriteRunFiles(r) ==
    /\ Is(r, "runFiles")
    /\ \/ launch[r] = "doctor" /\ Goto(r, "preflight")
       \/ launch[r] # "doctor" /\ Jump(r, "verify", "prepare", 0)
    /\ UNCHANGED notPc

-----------------------------------------------------------------------------
(* _execute, and the parsers that _run_profile runs after a capture.       *)

ReportOf(r) == {f \in reports : f.what = pc[r].what /\ f.i = pc[r].i}
\* What the command of a label writes to the one path the config gives it,
\* replacing what was there.
Written(what, i, r) ==
    {f \in reports : ~(f.what = what /\ f.i = i)} \cup
    {[what |-> what, i |-> i, by |-> r,
      source |-> candidate, unhashed |-> unhashed, protected |-> protected]}

\* Mutant: the report of an earlier command is left in place.
LaunchKeepsReport(r) ==
    /\ Is(r, "launch")
    /\ Jump(r, "run", pc[r].what, pc[r].i)
    /\ UNCHANGED notPc

\* Delete the stale report, record command.started, start the command.
LaunchCommand(r) ==
    /\ Is(r, "launch")
    /\ reports' = reports \ ReportOf(r)
    /\ Jump(r, "run", pc[r].what, pc[r].i)
    /\ UNCHANGED <<rowVars, localVars, treeVars, orphans, evidence>>

\* The command ends: whether it wrote its report and whether it exited 0 are two
\* questions.
CommandReturns(r) ==
    /\ Is(r, "run")
    /\ reports' = Written(pc[r].what, pc[r].i, r) \/ UNCHANGED reports
    /\ Jump(r, "collect", pc[r].what, pc[r].i) \/ Raise(r)
    /\ UNCHANGED <<rowVars, localVars, treeVars, orphans, evidence>>

\* Mutant: subprocess.TimeoutExpired is not caught.
TimeoutUncaught(r) ==
    /\ Timeouts
    /\ Is(r, "run")
    /\ Goto(r, "raised")
    /\ UNCHANGED notPc

\* subprocess.run kills the command it started, not what that command started:
\* the workload behind a profiler or a shell keeps running.
CommandTimesOut(r) ==
    /\ Timeouts
    /\ Is(r, "run")
    /\ orphans' = orphans \cup {[what |-> pc[r].what, i |-> pc[r].i, by |-> r]}
    /\ Raise(r)
    /\ UNCHANGED <<rowVars, localVars, treeVars, reports, evidence>>

\* The report must exist; its snapshot becomes evidence.
CollectEvidence(r) ==
    LET what == pc[r].what  i == pc[r].i  IN
    /\ Is(r, "collect")
    /\ \/ /\ ReportOf(r) = {}
          /\ Raise(r)
          /\ UNCHANGED evidence
       \/ \E f \in ReportOf(r) :
            /\ evidence' = evidence \cup
                 {[run |-> r, what |-> what, i |-> i, by |-> f.by, source |-> f.source,
                   unhashed |-> f.unhashed, protected |-> f.protected]}
            /\ \/ what \in Captures /\ Jump(r, "parse", what, i)
               \/ what = "baseline" /\ Jump(r, "transition", "BASELINED", 0)
               \/ what \in {"gate", "benchmark"} /\ Jump(r, "verify", what, i)
    /\ UNCHANGED <<rowVars, localVars, treeVars, reports, orphans>>

\* The profiler must still be installed, and its own parser and the project's
\* must accept the report.
ParseReport(r) ==
    LET what == pc[r].what  i == pc[r].i  IN
    /\ Is(r, "parse")
    /\ \/ Raise(r)
       \/ what \in {"smoke", "baseline-profile"} /\ i < NumProfilers /\ Jump(r, "launch", what, i + 1)
       \/ what = "smoke" /\ i = NumProfilers /\ Jump(r, "transition", "PREFLIGHTED", 0)
       \/ what = "baseline-profile" /\ i = NumProfilers /\ Jump(r, "verify", what, i)
       \/ what = "candidate-profile" /\ Jump(r, "verify", what, i)
    /\ UNCHANGED notPc

-----------------------------------------------------------------------------
(* prepare and validate_candidate: what follows each check.                *)

\* _verify_integrity, at each of its call sites.
VerifyIntegrity(r) ==
    LET what == pc[r].what  i == pc[r].i  IN
    /\ Is(r, "verify")
    /\ IF integrityHash[r] # protected THEN Raise(r)
       ELSE \/ what = "prepare" /\ Goto(r, "preflight")
            \/ what = "baseline-profile" /\ Jump(r, "transition", "PROFILED_BASELINE", 0)
            \/ what = "validate" /\ Jump(r, "hash", "-", 0)
            \/ what = "gate" /\ Jump(r, "rehash", what, i)
            \/ what = "benchmark" /\ Jump(r, "transition", "BENCHMARKED", 0)
            \/ what = "candidate-profile" /\ i < NumProfilers /\ Jump(r, "launch", what, i + 1)
            \/ what = "candidate-profile" /\ i = NumProfilers /\ Jump(r, "rehash", what, i)
    /\ UNCHANGED notPc

\* A profiler that is missing, or whose --version fails, ends the run.
Preflight(r) ==
    /\ Is(r, "preflight")
    /\ Raise(r) \/ (state[r] = "CREATED" /\ Jump(r, "launch", "smoke", 1))
    /\ UNCHANGED notPc

\* The agent of a lane, or the optimizer command: it works by Edit steps; here
\* it exits, well or not.
AgentExits(r) ==
    /\ Is(r, "agent")
    /\ Jump(r, "validate", "-", 0) \/ Raise(r)
    /\ UNCHANGED notPc

BeginValidation(r) ==
    /\ Is(r, "validate")
    /\ IF state[r] = "OPTIMIZING" THEN Jump(r, "verify", "validate", 0) ELSE Raise(r)
    /\ UNCHANGED notPc

HashCandidate(r) ==
    /\ Is(r, "hash")
    /\ candidateHash' = [candidateHash EXCEPT ![r] = candidate]
    /\ Goto(r, "bindSource")
    /\ UNCHANGED <<rowVars, launch, manifest, treeVars, fileVars>>

\* Mutant: the source is hashed again when it is bound.
BindHashesAgain(r) ==
    /\ Is(r, "bindSource")
    /\ sourceHash' = [sourceHash EXCEPT ![r] = candidate]
    /\ Jump(r, "launch", "gate", 1)
    /\ UNCHANGED <<state, status, integrityHash, log, localVars, treeVars, fileVars>>

BindSource(r) ==
    /\ Is(r, "bindSource")
    /\ sourceHash' = [sourceHash EXCEPT ![r] = candidateHash[r]]
    /\ Jump(r, "launch", "gate", 1)
    /\ UNCHANGED <<state, status, integrityHash, log, localVars, treeVars, fileVars>>

\* Mutant: the source is compared after the gates, not after the last profile.
RehashGatesOnly(r) ==
    LET what == pc[r].what  i == pc[r].i  IN
    /\ Is(r, "rehash")
    /\ IF what = "gate" /\ candidate # candidateHash[r] THEN Raise(r)
       ELSE \/ what = "gate" /\ i < NumGates /\ Jump(r, "launch", "gate", i + 1)
            \/ what = "gate" /\ i = NumGates /\ Jump(r, "transition", "VERIFIED", 0)
            \/ what = "candidate-profile" /\ Jump(r, "transition", "PROFILED_CANDIDATE", 0)
    /\ UNCHANGED notPc

\* Mutant: the row is written PROMOTABLE without a transition.
RehashPromotes(r) ==
    LET what == pc[r].what  i == pc[r].i  IN
    /\ Is(r, "rehash")
    /\ IF candidate # candidateHash[r] THEN Raise(r)
       ELSE \/ what = "gate" /\ i < NumGates /\ Jump(r, "launch", "gate", i + 1)
            \/ what = "gate" /\ i = NumGates /\ Jump(r, "transition", "VERIFIED", 0)
            \/ what = "candidate-profile" /\ Jump(r, "update", "PROMOTABLE", 0)
    /\ UNCHANGED notPc

\* After every gate, and once more after the last candidate profile.
RehashCandidate(r) ==
    LET what == pc[r].what  i == pc[r].i  IN
    /\ Is(r, "rehash")
    /\ IF candidate # candidateHash[r] THEN Raise(r)
       ELSE \/ what = "gate" /\ i < NumGates /\ Jump(r, "launch", "gate", i + 1)
            \/ what = "gate" /\ i = NumGates /\ Jump(r, "transition", "VERIFIED", 0)
            \/ what = "candidate-profile" /\ Jump(r, "transition", "PROFILED_CANDIDATE", 0)
    /\ UNCHANGED notPc

\* promotion-readiness.json is written after the run became PROMOTABLE.
WriteReadiness(r) ==
    /\ Is(r, "readiness")
    /\ Goto(r, "done")
    /\ UNCHANGED notPc

\* Mutant: a doctor run ends without a checkpoint.
FinishNothing(r) ==
    /\ Is(r, "finish")
    /\ Goto(r, "done")
    /\ UNCHANGED notPc

\* RunStore.finish_checkpoint, the end of a doctor run.
FinishCheckpoint(r) ==
    /\ Is(r, "finish")
    /\ IF state[r] \in TERMINAL_STATES THEN UNCHANGED status
       ELSE status' = [status EXCEPT ![r] = "complete"]
    /\ Goto(r, IF state[r] \in TERMINAL_STATES THEN "raised" ELSE "done")
    /\ UNCHANGED <<state, sourceHash, integrityHash, log, localVars, treeVars, fileVars>>

-----------------------------------------------------------------------------
(* RunStore.transition, in the three steps that other processes can get    *)
(* between: read the row and check, UPDATE it by id alone, emit the event. *)

CheckTransition(r) ==
    /\ Is(r, "transition")
    /\ IF Allowed(state[r], pc[r].what) THEN Jump(r, "update", pc[r].what, 0) ELSE Raise(r)
    /\ UNCHANGED notPc

\* The UPDATE of transition, for the run r and the state target.
SetState(r, target) ==
    /\ state' = [state EXCEPT ![r] = target]
    /\ status' = [status EXCEPT ![r] = StatusOf(target)]

\* Mutant: the UPDATE is lost, the event is not.
UpdateLost(r) ==
    /\ Is(r, "update")
    /\ Jump(r, "emit", pc[r].what, 0)
    /\ UNCHANGED notPc

UpdateState(r) ==
    /\ Is(r, "update")
    /\ SetState(r, pc[r].what)
    /\ Jump(r, "emit", pc[r].what, 0)
    /\ UNCHANGED <<sourceHash, integrityHash, log, localVars, treeVars, fileVars>>

\* The state.changed event, then the statement after the call of transition.
EmitState(r) ==
    LET to == pc[r].what  IN
    /\ Is(r, "emit")
    /\ log' = [log EXCEPT ![r] = Append(@, to)]
    /\ \/ to = "PREFLIGHTED" /\ launch[r] = "doctor" /\ Goto(r, "finish")
       \/ to = "PREFLIGHTED" /\ launch[r] # "doctor" /\ Jump(r, "launch", "baseline", 1)
       \/ to = "BASELINED" /\ Jump(r, "launch", "baseline-profile", 1)
       \/ to = "PROFILED_BASELINE" /\ Jump(r, "transition", "OPTIMIZING", 0)
       \/ to = "OPTIMIZING" /\ (launch[r] = "lane" \/ HasOptimizer) /\ Goto(r, "agent")
       \/ to = "OPTIMIZING" /\ ~(launch[r] = "lane" \/ HasOptimizer) /\ Goto(r, "validate")
       \/ to = "VERIFIED" /\ Jump(r, "launch", "benchmark", 1)
       \/ to = "BENCHMARKED" /\ Jump(r, "launch", "candidate-profile", 1)
       \/ to = "PROFILED_CANDIDATE" /\ Jump(r, "transition", "PROMOTABLE", 0)
       \/ to = "PROMOTABLE" /\ Goto(r, "readiness")
       \/ to = "FAILED" /\ Goto(r, "raised")
    /\ UNCHANGED <<state, status, sourceHash, integrityHash, localVars, treeVars, fileVars>>

\* The database stays locked or is full: the statement raises instead.  Nobody
\* catches it before the caller's try block, after it, or inside the except clause.
\* The event of a transition comes after its UPDATE, which stays.
StoreFails(r) ==
    /\ "store" \in Faults
    /\ pc[r].op \in {"insert", "bindIntegrity", "bindSource", "update", "emit", "finish"}
    /\ IF pc[r].op \in {"insert", "bindIntegrity", "finish"} \/ pc[r].what = "FAILED"
       THEN Goto(r, "raised") ELSE Raise(r)
    /\ UNCHANGED notPc

\* A file cannot be read or written.
FileFails(r) ==
    /\ "files" \in Faults
    /\ pc[r].op \in {"runFiles", "launch", "collect", "hash", "readiness"}
    /\ IF Is(r, "runFiles") THEN Goto(r, "raised") ELSE Raise(r)
    /\ UNCHANGED notPc

\* The except clause: record FAILED unless the run is over, and re-raise.
HandleException(r) ==
    /\ Is(r, "except")
    /\ IF state[r] \in TERMINAL_STATES THEN Goto(r, "raised") ELSE Jump(r, "update", "FAILED", 0)
    /\ UNCHANGED notPc

-----------------------------------------------------------------------------
(* The environment: a human, an agent, a gate command or a left-over child *)
(* edits the tree; a process is killed.                                    *)

EditCandidate ==
    /\ \/ candidate < MaxEdits /\ candidate' = candidate + 1
       \/ Reverts /\ \E earlier \in 0 .. candidate - 1 : candidate' = earlier
    /\ UNCHANGED <<rowVars, pc, localVars, unhashed, protected, fileVars>>

EditUnhashed ==
    /\ unhashed < MaxUnhashedEdits
    /\ unhashed' = unhashed + 1
    /\ UNCHANGED <<rowVars, pc, localVars, candidate, protected, fileVars>>

EditProtected ==
    /\ protected < MaxProtectedEdits
    /\ protected' = protected + 1
    /\ UNCHANGED <<rowVars, pc, localVars, candidate, unhashed, fileVars>>

\* A child that outlived its command finishes and writes its report.
OrphanReturns ==
    /\ \E o \in orphans :
         /\ reports' = Written(o.what, o.i, o.by)
         /\ orphans' = orphans \ {o}
    /\ UNCHANGED <<rowVars, pc, localVars, treeVars, evidence>>

CrashPipeline(r) ==
    /\ Crashes
    /\ pc[r].op \notin Resting
    /\ orphans' = IF Is(r, "run")
                  THEN orphans \cup {[what |-> pc[r].what, i |-> pc[r].i, by |-> r]}
                  ELSE orphans
    /\ Goto(r, "crashed")
    /\ UNCHANGED <<rowVars, localVars, treeVars, reports, evidence>>

-----------------------------------------------------------------------------
NewRun(r) == ReadManifest(r) \/ StartRun(r) \/ BindIntegrity(r) \/ WriteRunFiles(r)

Execute(r) == LaunchCommand(r) \/ CommandReturns(r) \/ CommandTimesOut(r)
              \/ CollectEvidence(r) \/ ParseReport(r)

Judge(r) == Preflight(r) \/ VerifyIntegrity(r) \/ AgentExits(r) \/ BeginValidation(r) \/ HashCandidate(r)
            \/ BindSource(r) \/ RehashCandidate(r) \/ WriteReadiness(r)
            \/ FinishCheckpoint(r)

Transition(r) == CheckTransition(r) \/ UpdateState(r) \/ EmitState(r)
                 \/ StoreFails(r) \/ FileFails(r) \/ HandleException(r)

Pipeline(r) == NewRun(r) \/ Execute(r) \/ Judge(r) \/ Transition(r)

Environment == EditCandidate \/ EditUnhashed \/ EditProtected \/ OrphanReturns

Next ==
    \/ \E r \in Runs : Pipeline(r) \/ CrashPipeline(r)
    \/ Environment

Spec == Init /\ [][Next]_vars

\* A started pipeline is one sequential program: every command it waits for has
\* a timeout, and sqlite3.connect bounds the wait for a lock.  Nothing obliges
\* anybody to start a run, to promote one or to edit a file.
FairSpec == Spec /\ \A r \in Runs : WF_vars(pc[r].op # "idle" /\ Pipeline(r))

-----------------------------------------------------------------------------
(* Properties.                                                             *)

\* A program counter is about a command, about a state, or about nothing else.
CommandOps == {"launch", "run", "collect", "parse", "verify", "rehash"}
StateOps   == {"transition", "update", "emit"}
Label == [op : CommandOps, what : Commands, i : Nat]
         \cup [op : {"verify"}, what : {"prepare", "validate"}, i : Nat]
         \cup [op : StateOps, what : RunState, i : Nat]
         \cup [op : Ops \ (CommandOps \cup StateOps), what : {"-"}, i : Nat]
Report == [what : Commands, i : Nat, by : Runs,
           source : Nat, unhashed : Nat, protected : Nat]
Evidence == [run : Runs, what : Commands, i : Nat, by : Runs,
             source : Nat, unhashed : Nat, protected : Nat]

\* Every variable has its type.
TypeOK ==
    /\ state \in [Runs -> RunState \cup {Absent}]
    /\ status \in [Runs -> {Absent, "running", "failed", "complete"}]
    /\ sourceHash \in [Runs -> Hash]
    /\ integrityHash \in [Runs -> Hash]
    /\ log \in [Runs -> Seq(RunState)]
    /\ pc \in [Runs -> Label]
    /\ launch \in [Runs -> Launches \cup {"-"}]
    /\ manifest \in [Runs -> Hash]
    /\ candidateHash \in [Runs -> Hash]
    /\ candidate \in Nat /\ unhashed \in Nat /\ protected \in Nat
    /\ reports \subseteq Report
    /\ orphans \subseteq [what : Commands, i : Nat, by : Runs]
    /\ evidence \subseteq Evidence

EvidenceFor(r, c) == {e \in evidence : e.run = r /\ <<e.what, e.i>> = c}

\* A run that may be promoted has evidence of every gate, of the benchmark and of
\* every candidate profile, and whatever its own commands produced was produced
\* from the very source bound to the run and the very protected files bound to
\* it, although the tree may be edited between any two steps and validate_candidate
\* only looks at it now and then (production.py:243-266).  It needs edits that
\* never restore an earlier version: two looks cannot see what came and went
\* between them.
PromotableIsProven ==
    \A r \in Runs : state[r] \in {"PROMOTABLE", "PROMOTED"} =>
        \A c \in Required : \E e \in EvidenceFor(r, c) :
            e.by = r => e.source = sourceHash[r] /\ e.protected = integrityHash[r]

\* No report written by another run's command counts as evidence: _execute deletes
\* the stale report before each command (production.py:118-121).
EvidenceIsOwn == \A e \in evidence : e.by = e.run

\* When the process that drives a run ends with an exception, the run is recorded
\* as FAILED (or had been promoted meanwhile).
FailureRecorded ==
    \A r \in Runs : Is(r, "raised") => state[r] \in {Absent, "FAILED", "PROMOTED"}

\* The state.changed events of a run tell its states in lifecycle order, and none
\* that the row had not reached.
EventsFollowRow ==
    \A r \in Runs : \A j \in 1 .. Len(log[r]) :
        /\ Rank(log[r][j]) <= Rank(state[r])
        /\ j > 1 => Rank(log[r][j - 1]) < Rank(log[r][j])

\* The runs table implements the lifecycle the store promises: whichever process
\* writes, a state is only followed by one that transition() allows.
StrictLifecycle == INSTANCE Lifecycle WITH Runs <- Runs, state <- state
LifecycleIsStrict == StrictLifecycle!Spec

\* Every run whose row exists comes to a result: it fails, is ready for promotion,
\* or is a finished doctor run.  It is not left "running".
RunsSettle ==
    \A r \in Runs : state[r] # Absent ~>
        (state[r] \in {"FAILED", "PROMOTABLE", "PROMOTED"} \/ status[r] = "complete")
=============================================================================
