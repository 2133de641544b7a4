# AKO4X: a TLA+ verification project

AKO4X lets agents and people optimise GPU kernels and promotes the result only on evidence.
Two programs share the repository. `ako4x/` is the production tool: a pipeline that runs gates,
benchmarks and profilers over a candidate, records each run in SQLite, and promotes a run whose
evidence is complete. `master/`, `spawn.py` and `scripts/` are the campaign tool: a master spawns
child workspaces, benchmarks them against a cached baseline, and archives what they find.

This project models the production tool's core (the pipeline, its run store, promotion, and the lanes
people and agents work in), the core of the campaign tool (its rounds and their archive, the baseline
every speedup is measured against, the snapshots a child keeps of its benchmarks) and what both do with
an agent process. It checks the models with TLC on small instances and proves their safety properties
with TLAPS for every value of the constants. Paths below are relative to the repository.

## Inventory

| Component | State it keeps | Operations | Interacts with |
|---|---|---|---|
| Run store `ako4x/events.py` | SQLite `runs` rows (state, status, hashes), `events` log | `start_run`, `transition`, `bind_*`, `emit`, `finish_checkpoint` | every `ako4x-lab` process, through one database file |
| Pipeline `ako4x/production.py`, `backends.py` | locals of one process; report files and snapshots in the tree | `new_run`, `prepare`, `preflight`, `validate_candidate`, `_execute`, `_run_profile`, `run_all` | run store, external commands, the tree anybody may edit |
| Promotion `production.py:287-324` | a promotion directory | `promote` | run store, tree, other promotes, a pipeline still running |
| Lanes `ako4x/lanes.py` | git worktree and branch, two copies of a lane record | `create_lane`, `run_hands_on_lane`, `run_autonomous_lane`, `_record_run` | pipeline, agent process, git |
| Agent processes `lanes.py:258-333`, `master/master.py:301-356` | child process, pipes, deadline | supervise, stream events, kill the group at the deadline | store (heartbeats) |
| Skills `ako4x/skill_sources.py` | materialised skill directories | resolve, stage, replace | lanes, children |
| Training check `ako4x/training.py` | none (pure) | compare two trajectories | gates of a project |
| Campaign master `master/master.py` | campaign directory, environment file, golden baseline, archived variants, failures | `init_campaign`, `spawn_child`, `run_sub_phase1`, `archive_variant`, `archive_failed`, `verify_production_evidence` | children, benchmark scripts, run store |
| Baseline cache `scripts/bench_utils.py` | child's cached baseline, shell archive of the campaign | `load_baseline`, `save_baseline`, `run_and_report`, `run_variance_check`, `run_ab_compare` | several children at once, one archive |
| Trajectory and scoring `bench_utils.py` | numbered snapshots, scores | subset selection, `compute_score`, `save_trajectory` | baseline cache |
| Spawn `spawn.py` | child workspace | `make_child_name`, `populate_child` | git, skills |
| Campaign start `scripts/campaign_start.py` | none | a sequence of preflights | master |

The behaviours that are hard here: `transition` reads, checks and writes a row in separate steps
that other processes get between; the tree is shared with an agent, and the program only looks at it
now and then; a command can time out and leave its children behind; promotion is a sequence of file
operations with a database update at its end; a failure can come before, inside or after the `try`
block that records failures.

What makes each component correct:

* run store: a row only moves along the lifecycle; terminal states stay; the log tells the truth
* pipeline: nothing becomes PROMOTABLE without evidence of exactly the bound source and protected
  files; evidence is the run's own; failures are recorded; runs come to a result
* promotion: PROMOTED means a complete bundle of the validated source; one promotion per run; a
  refused one leaves nothing behind
* lanes: creation leaves all or nothing; both records agree
* agent processes: a timeout is reported of an agent that overran and of no other, and ends its whole
  group; the transcript is complete; a supervisor comes to an end
* campaign: a torn baseline never becomes the golden one; a baseline with real latencies is never
  overwritten; an archived variant is whole, is of one call and stays; only proven kernels are archived;
  the outcome of a round follows the kernel its agent left
* skills: the copy in a lane is the source that was hashed, or the lane is undone
* trajectory: a snapshot's results are of its files; a comparison measures what the snapshot measured; no
  snapshot is overwritten, and results are lost to another benchmark at most

The hazards, with their lines and the properties aimed at them, are in `PROJECT.json`.

## Plan

Order: most important behaviour first. All of it is done.

1. `RunStates`, `Lifecycle` (abstract), `ProductionPipeline` (implements `Lifecycle`), `Promotion`
   (composes pipelines with promotes).
2. `Supervision`: the agent process, its helpers and streams under the two supervisors. `Lanes`:
   `create_lane` with its rollback, the skills it copies and the two records of a lane; `LaneRegistry`
   (abstract), which it implements.
3. `BaselineCache`: cache and golden archive shared by several children, full and subset runs, failing
   workloads, crashes between writes.
4. `Archive` (abstract) and `Campaign` (implements `Archive`): the rounds, the evidence gate, and
   staging directories under faults and kills.
5. `Trajectory`: overlapping benchmarks of one child, their snapshots and the comparisons against them.
6. For each of them the inductive invariant, checked by TLC and then proved.

What could come next is under "Not modelled".

## Modules

| Module | Models | Notes |
|---|---|---|
| `RunStates` | constants of `events.py`, the check of `transition`, `StatusOf` | constant-level |
| `Lifecycle` | what the store promises of each row | abstract specification |
| `ProductionPipeline` | `production.py`, the rows and events it writes, `backends.py`, the failure paths of `cli.py` and `lanes.py` | one process per run |
| `Promotion` | `promote` by any number of processes | EXTENDS the pipeline |
| `EvidenceInvariant` | the inductive invariant | constants and state of the pipeline only |
| `MCPipeline`, `MCPromotion` | instances for TLC | promoters are symmetric |
| `PipelineProofs`, `EvidenceProofs` | theorems about the pipeline | |
| `PromotionInvariant`, `PromotionProofs` | inductive invariant and theorems of `Promotion` | |
| `LaneRegistry` | what the registry of lanes promises to the runners that read it | abstract specification |
| `Lanes` | `create_lane`, `load_lane`, `_record_run`; `resolve_skills`, `materialize_skills` | any number of commands in one repository; implements `LaneRegistry` |
| `LanesInvariant`, `MCLanes`, `LanesProofs` | invariant, instance, theorems | commands, names, paths are symmetric |
| `Supervision` | `master._run_bounded` and `lanes._run_agent` with the agent they start | one agent, any helpers |
| `SupervisionInvariant`, `MCSupervision`, `SupervisionProofs` | invariant, instance, theorems | |
| `BaselineCache` | `load_baseline`, `save_baseline` and their callers in `bench_utils.py`; `init_campaign` and the seed copy of `spawn.py` | one golden, any number of children |
| `BaselineInvariant`, `MCBaseline`, `BaselineProofs` | invariants, instance, theorems | children and workloads are symmetric |
| `Archive` | what the archive of a family promises to the rounds that read it | abstract specification |
| `Campaign` | `spawn_child`, `run_sub_phase1`, `verify_production_evidence`, `archive_variant`, `archive_failed` | one master, its rounds one after the other |
| `CampaignInvariant`, `MCCampaign`, `CampaignProofs` | invariant, instance, theorems | rounds and names are symmetric |
| `Trajectory` | `pack_solution`, `save_trajectory`, `_find_trajectory_snapshot`, `_pack_snapshot` | overlapping benchmarks of one child |
| `TrajectoryInvariant`, `MCTrajectory`, `TrajectoryProofs` | invariant, instance, theorems | benchmarks, sources and seconds are symmetric |

How they fit together: `Promotion` EXTENDS `ProductionPipeline`. A lane runner of `Lanes` goes on as a
pipeline launched as `"lane"`, whose `AgentExits` is what `Supervision` reports. `Campaign` takes from the
pipeline what `PromotableIsProven` promises of `validate_candidate` (its action `Validate`), from
`Supervision` that the agent has exited or been killed, and from `BaselineCache` that a benchmark measures
the baseline (`measured`). `BaselineCache` and `Trajectory` are two sides of one benchmark command: the
denominator it divides by and the files it leaves.

### State and code

`state`, `status`, `sourceHash`, `integrityHash` are columns of `runs`; `log` is the run's
`state.changed` events. `pc[r]` says where the process of run `r` is: the operation, the command or
target state it is about and the index of the gate or profiler, so that one action stands for
`_execute` whatever command it runs. `launch`, `manifest` and `candidateHash` are its local variables.
`candidate`, `protected` and `unhashed` are versions of what `source_hash` covers, of the protected
paths, and of the files below `_HASH_EXCLUDES`; equality of versions is equality of bytes, and a
hash is the version it was taken of. `reports` are files in the tree, with the versions that were
there when the command wrote them and the run whose command did; `evidence` are their snapshots in
the run directory. The versions inside reports and evidence are history: no action reads them, only
properties do. `orphans` are children of commands that timed out or whose parent was killed.

Each action is named for the function or the piece of it that it translates, and the comment on it
says which. The pieces are cut where another process, an editor or a crash can make a difference.
`UpdateState` and `EmitState` are two commits in the code and two actions here.

Data that is abstracted:

* one report per command. A configuration may list several evidence files or none for a gate or
  benchmark; several are alike, with none the evidence is the exit code, and then there is nothing
  that could be stale.
* `ParseReport` is the three checks after a capture: the profiler is still installed, its own import,
  the project's parser. All raise alike and none leaves a report. A later profiler's `which` and
  `--version` in `preflight` come between two captures and raise alike as well, so `Preflight` names the
  first and `ParseReport` stands for the others.
* a directory at the evidence path fails like a command that left no report.
* an agent or optimiser works through `EditCandidate` and `EditProtected` steps; `AgentExits` is its end.
* a hash of a tree is taken in one step. `copytree` is not: it may copy a mixture (`Torn`).
* `HandleException` reads the state once where `run_all` and `transition` read it one after the other.
* the row's hashes do not change after PROMOTABLE (`bind_source` runs once, before the gates), so
  `promote`'s comparison with the row it read is a comparison with the row.
* `exists()` and `mkdir()` are one step: `mkdir` itself refuses an existing directory.
* `promote` with an unknown run id raises at once and is left out.

In `BaselineCache` a baseline file is absent, torn or JSON; of the JSON the model keeps which workloads
have a latency, the environment (gpu and backend as one value), the source and the terms of the
campaign, and `id`, the profile it comes from, in place of the numbers. `golden` and `tmp` are
`reference/<family>/baseline.json` and the temporary file beside it, `local[c]` is the child's
`baseline.json`. `pc[c]` and `job[c]` are the command a child runs and its locals; a child runs one
command at a time. `child[c]` is what `config.toml` was given at spawn. `run_and_report`,
`run_variance_check` and `run_ab_compare` differ in whether a filtered profile is saved, whether the
reference's own latencies are taken for the profile, and whether they go on without a baseline; they
share the other actions. `promotions`, `scores`, `seed` and `forced` are history that only properties read.

* the child's cache is written in one step although it is renamed into place like the golden: nobody
  else opens it, and a reader of half a write does not exist.
* a loss of the environment's casing, a mode corrupted by hand, the cuda version and the iteration
  counts play no part in what the properties say and are left out, as is `spawn_child`'s refusal of a
  second bootstrap, which only makes fewer children.
* `--force-baseline` exists in `run_and_report` only, and `Forcing` says whether it is used.
* `Sequential` is the regime of `master/MASTER.md`: one child at a time, and `init_campaign` between
  rounds. Nothing in the code enforces it, so the run `baseline_parallel`
  does without.

In `Lanes`, `branch`, `tree` and `registry` are what git and the two kinds of `lane.json` hold; a torn
record is one that does not parse. A worktree has the skills the repository tracks from the start; a
skill is the version of its source it was copied from, a hash the version it was taken of. The steps of
`create_lane` are cut at its commands and files, since other lane commands, an editor of a skill's source
and a kill come between. Checks without effect (name, adapter, clean tree, a missing skill) are the fault
`"checks"`. `maker`, `stranded` and `split` are history: who added a worktree; names whose git failed or
whose command was killed half way; lanes two runners recorded at once or one recorded in part.

In `Campaign` a solution is two versions, of `solution/kernel.py` and of its other sources, and a directory
of the archive says of each file which call of `archive_variant` or `archive_failed` wrote it. The two are
kept apart because the code does: `source_hash`, to which a production run is bound, covers all of
`solution/` (`Trees`), while the seed hash, the snapshot the master picks and the archive know `kernel.py`
only. `child` is the workspace of the round in progress: its solution, the snapshots it kept,
`.ako/seed-kernel.sha256`, and whether its run store has a run later than the master's; `left`, `wiped` and
`touched` are history (`kernel.py` at the agent's exit; `.ako` wiped; `kernel.py` written between that exit and
the comparison) and are forgotten with the outcome. `pc` and `job` are the master; what it does between the
calls of `master.py` (`FailedRound`, `CleanRound`, `UnchangedRound`) is the outcome branch of
`master/MASTER.md`, prose for an agent and external in the map.

* `Validate` is the pipeline seen from its caller; `ProductionPipeline` is where it is modelled in full.
* the solution may change at any time through `LateEdit`, a process that outlives the agent. Once the
  check is over this includes the time until the kernel is copied: `archive_variant` reads `kernel_path`
  when it writes, after `verify_production_evidence` has compared it. `disturbed` sets such rounds apart in
  `ArchivedIsProven`: for them nothing is promised, and the code promises nothing.
* a variant's name may be used again after a failure, and a killed session may repeat its archive call.

In `Trajectory`, `work` is the version of each file of the solution, its sources and the configuration, `blob`
the `solution.json` all benchmarks share, `dirs` the directories below `trajectory/`. Packing, saving and
packing a snapshot go file by file, the sources in any order (`iterdir`): a copy is first opened, and
`Torn`, then filled (`shutil.copy2`), and between any two of these steps the agent edits, other benchmarks run
and a kill comes. That one file is read at one moment is an assumption. A name is the second it was made
in, the label and the suffix of the loop at its collisions; the second is local time and may show again, so
`Stamp` takes any of `Seconds`. `Within` says which labels occur in which others, as the lookup is by
substring. `disturbed`, `raced`, `settled` and `mixed` are history: an edit or another pack between a
benchmark's own pack and its snapshot; another benchmark's directory after the name was looked up; a
snapshot that had all its files when a comparison found it; directories whose results are of a
disturbed benchmark.

* a comparison that finds a snapshot while it is copied may pack a half-copied source or some of the
  sources: `ComparedAsMeasured` then says only that it packs no other version of a source.
* of several matching snapshots the code takes the one with the latest mtime. Copies and kills
  make that any of them, and the model takes any.
* a comparison against an anchor takes the kernel under `docs/prior/variants`, version 0 here.
* results are the versions they were measured on; numbers play no part.

In `Supervision`, `agent` and `helper` are the processes, `status` what the agent exited with, `holds[s]`
the processes with the write end of a stream open. A line is begun with a `Write` and is whole when its
end is written; `pipe` and `buffer` count whole lines in the pipe and inside `readline`, and `tail` says
where the rest is. `pc` is where the supervisor is and `result` what it returns or raises. `kind`
chooses which of the two supervisors is at work: they share the environment and the kill, and have
actions of their own. `wrote` and `inTime` are history that only properties read.

* `_run_bounded` hands the streams to `communicate`, whose reading loses nothing, so its buffers are not
  modelled. A full pipe that stops a writer is not either: both supervisors read as long as they wait.
* the deadline passes once. `_run_agent` looks at the clock before each `select`, which takes a second at
  most and may return nothing.
* a kill is one step, as the signal is sent to a group at once; what a process does between the signal
  and its death cannot be told from what it did before.
* a process that ends another way than by its own exit or this kill counts as exited with status 1.
* the heartbeat and the events of the lines are the store's; that the store raises is `StoreRaises`.

The pipeline's environment is bounded by `MaxEdits`, `MaxUnhashedEdits` and `MaxProtectedEdits`; nothing else in
its model grows. `Reverts` says whether an edit may restore an earlier version. `Exclusive` keeps
pipelines of one project root from running at the same time: lanes have a worktree each
(`docs/production.md:127`), but nothing in the code stops two `run` commands. `BaselineCache` is bounded by
`MaxMeasures` and `MaxInits`, `Supervision` by `MaxLines`, `Lanes` by `MaxVersion` and `MaxRuns`, `Campaign` by
`MaxEdits`, `Trajectory` by `MaxEdits`, `MaxBenches` and the set `Seconds`.

## Runs

Deadlock is not checked: the workflow of a finite set of runs really ends. The type invariant of each
module (`TypeOK`, `PTypeOK`) is a conjunct of the inductive invariant its run checks.

| Run | Question | Why the bounds are enough |
|---|---|---|
| `evidence` | Does PROMOTABLE mean proven, through faults, crashes and edits? Does the invariant of the proof hold? Does the row implement `Lifecycle`, and the log follow it? | two gates and two profilers give a first, a next and a last of each; two edits give an edit before and after each look; all three ways to launch |
| `settle` | Does each started run come to a recorded result? | every command may fail, time out or write nothing |
| `bundle` | Does PROMOTED mean a complete bundle of the validated bytes, once? Does the invariant of the proof hold? | two promotes in every order, an edit and its revert, all faults and crashes |
| `baseline_rounds` | Is the golden promoted once, then frozen, with the campaign's terms; are the denominators of full scores whole? | two children follow one another, each may be killed anywhere; two profiles suffice to replace one by another; two workloads give whole, partial and empty; two environments and two baseline sources. One mode and one kit: TLC sees the loss of a term, `TermsKept` is proved for every value |
| `baseline_parallel` | Does a child seeded with a complete golden keep it? | the other child, the master and a manual spawn do whatever they can in between |
| `twice` | Can a run take another's report for its own? Were the bytes in the bundle of a promoted run measured by that run's own commands (`PromotedIsMeasured`)? Does a refused promote leave nothing behind, and does the row stay strict with promotes about? | the second run finds every report of the first, on every path out of it; two promotes race with each other and with the pipeline |
| `supervision` | Does a supervisor tell a timeout from an exit, end the group, keep every line, and come to an end? | one helper can inherit either stream, outlive the agent, leave the group and write after it; two lines per stream give one that is read and one that is buffered |
| `lanes` | Is a lane that can be loaded complete, and does it stay in its worktree with its skills (`LanesStay`, the refinement of `LaneRegistry`)? Does a failed creation undo its own work and all of it, and do the two records agree? | three commands give one that makes a lane, one that collides with it and one that runs it; two names and two paths collide in either, both or neither; one skill tracked by the repository and one copied |
| `campaign` | Are only proven kernels archived, whole and once? Does the outcome branch follow the kernel? | two rounds give a parent and its child, or two rounds after one name; two edits, of the kernel or of other sources, give a change before and after each look at them; the kernel may be removed; both profiles |
| `trajectory` | Are results kept with the files they were measured on, and compared with those? Is a snapshot ever overwritten, or lost but for a race (`LostOnlyToRace`)? | two benchmarks meet at every step; two sources and the configuration give a directory that is empty, half copied, partial and whole; two names of one second and of different ones; one edit of each file tells a mixture; a label that occurs in another, and one with an anchor |

`EventsFollowRow` is checked on the pipeline alone: beside a promote the PROMOTED event can be
written before the pipeline's own PROMOTABLE event, because UPDATE and event are separate commits.
`LifecycleIsStrict` cannot see a second promotion (PROMOTED over PROMOTED changes no state), hence
`OnePromotion`.

`twice` is without faults and without commands that time out: a full disk or a crash does leave the
directory of a promotion behind, and the child of a timed-out command (`backends.py:53-57` kills only the
process it started) can write its report after the next run has unlinked that path, although "AKO4X
deletes stale reports before each run" (`docs/production.md:104`).

`settle` is without faults of AKO4X itself: a doctor run whose files `new_run` cannot write ends with an
exception and a row that stays CREATED and running, as `new_run` is outside the caller's `try`
(`cli.py:64`, `production.py:217`).

`OnePromotion` is checked for promotes with the default destination, where `mkdir` lets one of them
through. With different `--destination` values both may pass the check of `transition` and both promote,
because its UPDATE is by id alone (`events.py:115`).

Two runs end in a violation, each of something the repository says of itself:

* `orphan_hang`: the agent has exited, a helper in its group holds a stream. `poll()` has waited for the
  leader, so `os.getpgid` raises and nothing is killed, and `_run_bounded` waits for the stream with no
  timeout, against "killing the whole process group on expiry". `TimeoutReturns`, which holds, is the
  same promise for an agent that is still running.
* `shadow`: the task file of a production child asks its agent to run `ako4x-lab doctor`
  (`spawn.py:945-946`). That is a run of the same store, later than the one `run_sub_phase1` made and never
  PROMOTABLE, and it is the latest run `verify_production_evidence` looks at (`master.py:232`). The gate
  then refuses a kernel that has passed, against "the bytes selected by master must still match that
  evidence". `CleanExitIsProven` and `ArchivedIsProven`, which hold, say that it errs on the safe side.

Six more disagreements follow from the models; they are visible in a definition, and no run is kept for
them:

* PROMOTED can be overwritten by FAILED: the UPDATE of `transition` is by id alone (`events.py:115`), so
  a promote that runs between the check and the UPDATE of a pipeline that could not write
  `promotion-readiness.json` is lost. `LifecycleIsStrict` with promotes about therefore needs
  `Faults = {}`, as in `twice`.
* files below a name of `_HASH_EXCLUDES` (`production.py:18`) are copied by `promote` (305) and compared by
  nothing, although "Promotion fails if even one candidate byte changed after validation"
  (`docs/production.md:184`). `copiedUnhashed` keeps them apart, and `PromotedHasBundle` says nothing of it.
* a filtered variance check saves its partial profile (`bench_utils.py:1024`), and that becomes the golden,
  against "All filter modes skip baseline caching" (`templates/skills/bench/benchmark.md:17`). No full
  score is taken with it: `ScoresAreWhole`.
* a workload that fails in the first profile leaves a golden that no full run can use (201-203) and
  nothing may replace (299), so the rounds of a campaign measure a denominator each, where
  `docs/closed-loop.md:63-65` promises that its denominator stays fixed.
* `spawn.py` validates skills early "so production setup cannot leave a half-spawned tree" (843-844), and
  copies them once the tree is there (757); a copy that fails leaves it. `PopulateChild` has that failure.
* `kernel_changed` false is described as "sub finished but never modified the seed" (`master/MASTER.md:86`), and
  the missing seed hash as one that "never silently discards a real result" (`master.py:754-756`). Only
  `solution/kernel.py` is hashed, and it has to exist (757-759): a sub that leaves its work in another source
  file, or renames `kernel.py`, counts as unchanged, and its snapshots are not looked at (`KernelChanged`).
  `OutcomeFollowsKernel` is about `kernel.py` for this reason.

Where nothing is promised, the models have the step and the properties set the case apart: a
`git worktree remove` that fails leaves the branch (`lanes.py:167`; `stranded`); `_record_run` raises outside the
runner's `try` and its run stays CREATED (`lanes.py:219`; `split`); remains of a staging directory count as a
variant to `spawn_child` (`master.py:571`) until the next archive of the name removes them; a process of the
sub that writes `kernel.py` after the agent's exit decides the outcome (`touched`), though in a production
campaign it cannot have anything unproven archived; a comparison may run on a snapshot that is not
complete yet (`settled`). `PROJECT.json` says with each hazard which part of it the properties leave out.

### Fairness

`FairSpec` asks weak fairness of each pipeline once it is started. The code justifies it: a pipeline is
one sequential program, every command it waits for has a timeout (`backends.py:53`), and
`sqlite3.connect(timeout=30)` bounds the wait for a lock. `subprocess.run` after its timeout still
waits for the pipes of the process it killed; that a child inheriting them closes them is assumed. A
hands-on agent has no timeout: that the person closes it is assumed as well. Nobody has to start or
promote a run, edit a file, or finish an orphaned command.

`Supervision`'s `FairSpec` asks it of the deadline and of the supervisor, one sequential program. The agent
and its helpers need do nothing. `LaneEnds` assumes an agent that ends its lines and keeps its streams
open while it runs, because `readline` and `wait` have no timeout (`lanes.py:298`, `310`); `TimeoutReturns`
and `BoundedEnds` assume that no helper leaves the group, which no kill of the group could reach.

## Proofs

The theorems about the pipeline hold for every set of runs, number of gates, profilers and edits, with every
fault and crash, and under the two assumptions of `ProductionPipeline` on its constants.

* `TypeCorrect == Spec => []TypeOK` (`PipelineProofs`): one lemma per group of actions. Lemmas on jumps
  say when a program counter is a label.
* `PipelineIsStrict == Spec => LifecycleIsStrict` (`PipelineProofs`): the refinement. That an UPDATE
  is allowed where it happens, although the check came earlier, needs an invariant: a process about
  to UPDATE finds the row in a state the check accepted, and it is the only writer of its row. With a
  promote about this fails (the first of the six disagreements above): the theorem is about the
  pipelines alone.
* `EventsInOrder == Spec => []EventsFollowRow`: the log tells states in lifecycle order and none that
  the row had not reached, although the UPDATE and its event are two commits. `FailuresRecorded`, without faults of
  AKO4X itself (`Faults = {}`): the row of a pipeline that ended with an exception is FAILED.
* `EvidenceOwn == ASSUME Alone PROVE Spec => []EvidenceIsOwn`: where one pipeline runs at a time and none
  is killed or times out, no run takes another's report for its own. The invariant says that one pipeline is
  under way, that no command outlives its wait, and that what is at the path of a report between the
  unlink and the collection was written by this run's command.
* `PromotableProven == ASSUME ~Reverts PROVE Spec => []PromotableIsProven` (`EvidenceProofs`).
  `PromotableIsProven` says nothing of the steps before PROMOTABLE, so it is not inductive. `IInv`
  adds, at each label, which evidence exists (`GatesGathered`, `BenchmarkGathered`, `ProfilesGathered`);
  that versions only grow and that a validation report was measured at or after the version hashed and
  bound (`ReportsFollowHashes`) and at or before the present one (`ReportsArePast`). When the source is
  hashed again with the same result, both bounds meet, and each report measured that very version
  (`SourcesAgree`); the same for the protected files (`ProtectedAgree`). `~Reverts` is needed: between
  two equal hashes an edit and its undoing would go unseen, in the model as in the code.
  `IInv` is quantified per label (`Holds(r, l)`), so the lemmas show what each kind of jump preserves.

The theorems of `PromotionProofs` hold for every set of runs and promoters with every fault and crash.
`Promotions == PSpec => []PInv`, by the type invariant and the settled rows of the pipeline (`RowsSettled`: a
row that is PROMOTABLE has a pipeline that binds no source any more), and by what a promotion has done at
each of its labels (`Reached`). `BundleStays` is needed because the promotion and its process end at
different times: a promoted run has a described bundle whatever became of the process. From it:
`PromotedBundles`; `PromotedByOne`, for the default destination, since there two promotes of a run have
one directory and a directory has one maker (`OneMaker`); and `NothingRemains`, where nothing fails
(`Orderly`).

A promote also writes rows and reads the tree beside the pipelines, so what was proved of pipelines alone has
to be proved again with promotes about:

* `PromotionIsStrict == ASSUME Orderly PROVE PSpec => LifecycleIsStrict`. The row of a promotion that passed
  the check of `transition` is PROMOTABLE until its UPDATE: its pipeline is at rest, since nothing failed, and
  no second promote of the run got past `mkdir`. Without `Orderly` it is false (the first of the six
  disagreements above).
* `PromotedIsProven == ASSUME ~Reverts PROVE PSpec => []PromotableIsProven` and
  `PromotedOwn == ASSUME Alone PROVE PSpec => []EvidenceIsOwn`: a promote's steps keep the pipeline's
  invariants, with every fault and crash.
* `PromotedMeasured == ASSUME Alone, ~Reverts PROVE PSpec => []PromotedIsMeasured`, from end to end: each gate,
  the benchmark and each profile has evidence that this very run's command produced from the bytes now in the
  bundle. While a promote copies and checks, the row may turn FAILED, of which `PromotableIsProven` says
  nothing; `MeasuredInv` keeps from the promote's first look to the end that the run has all its evidence, of
  the bound source (`Passed`), and `PromotedBundles` and `PromotedOwn` do the rest.
  `Alone` and `~Reverts` are the assumptions of `EvidenceOwn` and `PromotableProven`; neither can be dropped.
* `PromotedFailures == ASSUME Faults = {} PROVE PSpec => []FailureRecorded`.

The theorems of `BaselineProofs` hold for every set of children, workloads, environments, sources and
terms and every bound:

* `TypeCorrect`, and `WholeDenominators == Spec => []ScoresAreWhole`. `BaseInv` says what a job may hold
  before it scores: a baseline `Usable` passed, or, in a filtered report, its own profile, which is
  never kept as a full score.
* `SeedsKept == Spec => []SeededScores`. `SeedInv`: until it is told to re-profile, a child spawned from
  a complete golden has that golden as its cache, finds it usable each time, and so never comes to
  profile or save. No assumption: other children, the master and every fault are about.
* `GoldenPromotedOnce`, `GoldenFrozen`, `TermsKept`, `DenominatorShared`, under
  `Rounds == Sequential /\ "init" \notin Faults`. `FrozenInv` has five parts: at most one child is live
  (`OneLive`); while the master writes, none is (`MasterAlone`); a child between its look at the archive
  and its rename still sees no measured golden (`PromoteInv`); what the master is about to write keeps
  the latencies it read (`MasterInv`); and a measured golden means one promotion, no golden or a shell none
  (`GoldenInv`).

  `DenominatorShared == Rounds /\ Spec => []OneDenominator`: all children spawned from a complete golden are
  compared with one profile. `SeedsKept` gives each its own seed as denominator; `GoldenSeeds` says that every
  seed handed out so far is the profile of the golden there is, in the file or, while `init_campaign`
  rewrites it, in memory, so two seeds cannot differ. TLC checks `GoldenSeeds` as a part of `RoundsInv`; two
  children seeded by different goldens would take more children than the run has, so `OneDenominator` itself
  is only proved.

  Neither assumption can be dropped: two children at a time may both find a shell at `bench_utils.py:299`
  and both rename over it at 319; and `init_campaign` backfills a measured golden with a plain
  `write_text` (`master.py:472`), which, killed half way, leaves what the next profile takes for a shell.

The theorems of `SupervisionProofs` hold for every set of helpers and streams and any number of lines,
whatever exits, escapes or raises: `TypeCorrect`, `CleanExitsCount`, `TimeoutsEndGroups` and
`TranscriptsAreComplete`, all from one invariant `SInv`. `LeaderInv` ties what was polled to the status
and to who has been waited for: a leader is reaped only at the end or when `poll` has found its status, so
where `poll` found none the kill finds the group (`GroupInv`), and an exit after `poll` is an exit after
the deadline. `LinesInv` counts each line begun in exactly one place (transcript, buffer, pipe or
unfinished), and a stream leaves the selector with nothing left in it; the types of the counters need
this as well.

The theorems of `LanesProofs` hold for any commands, names, paths and skills, with failing git, files and
checks and with kills: `Complete`, `Ownership`, `Rollback`, `Agreement` and the refinement
`RegistryImplemented == Spec => LanesStay`, from `LInv`. `OwnerInv` is its
core: git refuses a branch or a path that exists, so from there to its end a `create_lane` is the only one
at its name and its worktree, and what it undoes is its own. `BuiltInv` says how much of the lane is
there, so that the registry, written last, names a complete one; `CompleteInv` keeps this while the
record of a lane is torn; `RecordInv` says how far a runner is with the two records. The refinement maps a
name to the worktree in its registry record and the skills there. The last write of `create_lane` is a step of
`LaneRegistry`, at a path no other lane has (`AtWorktree`); a command that builds or undoes works in a worktree
that is in no record, a runner and a kill rewrite records only, and so every other step is a stutter. That a
lane lacks no skill needs `LockAssumption`: the lock file of a lane maps each skill to a hash or is missing.

The theorems of `CampaignProofs` hold for any rounds, names and edits, both profiles, every fault and
kills: `EvidenceGate == Spec => []ArchivedIsProven`, `OutcomesFollow == Spec => []OutcomeFollowsKernel`,
`CleanExits == Spec => []CleanExitIsProven` and the refinement `ArchiveImplemented == Spec => ArchiveIsAtomic`,
from `CInv == GateInv /\ SeedInv /\ ExitInv`. Of `GateInv`, `StageInv` ties a staging directory to the call
at work on it, whatever an earlier attempt has left in its place; hence a rename publishes files of one
call, under a name that is still free, with a parent that is still there, and that is a step of `Archive`.
Every other step leaves what is published as it is. `ProvenInv` carries the comparison of the gate to the
moment the kernel is read. `SeedInv`: what the outcome compares with is the hash of the kernel the round was
given, or nothing when the sub wiped it, from the end of `spawn_child` through every way `run_sub_phase1`
returns, and `kernel.py` stays what the agent left while nothing touches it; `NoneAssumption` says that a missing hash is no kernel. `ExitInv`: wherever a round of a production
campaign counts as clean, its run has passed, because each failure on the way sets the exit status as well.

The theorems of `TrajectoryProofs` hold for any benchmarks, labels and overlaps and any number of edits,
from `TInv`. `PackedInv`: what is undisturbed since it was packed, file by file, is what the blob and the
solution hold. `FillingInv`: a directory being filled has one process, the one whose `mkdir` made it, and of
what it holds each file is missing, half copied or what that process has packed; only a race makes a
`mkdir` fail. `DirectoryInv` is `ResultsOfSources` for finished ones. `ComparedInv` follows a comparison through
the files of the directory it found: a file that is there stays as it is (`FillingInv`: its maker alone writes
there, and each file once), so what was read of a source remains true, and of a directory that was
complete the comparison has read all of it, its own configuration included. Hence `ComparisonFair`,
`LossNeedsRace`, and `NeverOverwritten` as an action property.

Only model-checked: liveness (`RunsSettle`, `TimeoutReturns`, `LaneEnds`), which is out of the prover's reach.
Every other property of a passing run is a theorem; the bounds, counts and small sets of the runs are not in
the theorems' assumptions.

## Not modelled

Most lines of the repository are kernels archived under `reference/` and the runners that measure them
(local, Modal, sanitizer, profilers, benchmark adapters): numerical work and I/O without a protocol of
their own. To the models they are commands that succeed, fail or take too long.

Of the parts with logic of their own:

* scoring and workload selection (`compute_score`, `select_workload_uuids`, `parse_int_filter`): arithmetic
  and filters over one process's own data. One thing met while reading: `_compute_subset_coverage` says it
  "Mirrors the filter logic in build_bench_trace_set", and for a group together with extremes, or a smoke
  run without an axis, the two select differently.
* the comparison of training trajectories: tolerances on floating-point records, nothing else.
* campaign start: a linear sequence of checks before `init_campaign`, which is modelled.
* `send_retrospective_prompt`: one supervised command whose text is returned.
* the population of a child beyond its kernel, configuration and seed (templates, names, documents,
  admission of a configuration): copies whose failure leaves the half-made directory `Campaign` has.
* the command lines and session ids of `agent_runtime.py`, configuration parsing, reports and status:
  formatting and validation. What the configuration fixes is constants of the models.
