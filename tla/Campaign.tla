------------------------------ MODULE Campaign ------------------------------
(***************************************************************************)
(* The rounds of a closed-loop campaign (master/master.py): spawn_child,   *)
(* run_sub_phase1, verify_production_evidence, archive_variant and         *)
(* archive_failed over the directory of one family and the children, with  *)
(* a sub agent at work in the child, processes it leaves behind, files     *)
(* that cannot be written, and a master session that may be killed.        *)
(*                                                                         *)
(* A solution is solution/kernel.py and the rest, its other source files,  *)
(* each a version number: two versions are equal exactly when the bytes    *)
(* are (comments a header adds left aside), and a hash is the version it   *)
(* was taken of.  Version 0 is the reference, or what was spawned beside   *)
(* it.  Run evidence is bound to both; the seed hash and the archive know  *)
(* kernel.py only.                                                         *)
(***************************************************************************)
EXTENDS Naturals, Sequences

CONSTANTS
    Rounds,      \* round labels
    Names,       \* names a master may give a variant
    Profiles,    \* which of "standard" and "production" a campaign may be locked to
    Faults,      \* what may raise: "files", the "store"
    Crashes,     \* the master session may be killed
    MaxEdits,    \* bound on the versions of all files
    Solution,    \* kernel_path is the child's solution, not a snapshot
    None

ASSUME CampaignAssumption ==
    /\ Rounds \cap Names = {}
    /\ Profiles \subseteq {"standard", "production"}
    /\ Faults \subseteq {"files", "store"}
    /\ Crashes \in BOOLEAN
    /\ MaxEdits \in Nat

VARIABLES
    profile,      \* locked in the campaign's baseline.json
    measured,     \* that baseline holds latencies
    published,    \* variants/<name> and _failed/<round>, by name or round
    staging,      \* the .<name>.tmp beside each
    dir,          \* rounds that have a child directory
    own,          \* the run of run_sub_phase1 in each child's run store
    proven,       \* the sources that run is bound to
    child,        \* the files of the child of the current round
    pc, job,      \* the master: program counter and local variables
    edits,        \* versions made so far
    disturbed     \* history: children whose kernel was edited between the evidence check
                  \* and the archive

familyVars == <<profile, measured, published, staging>>
runVars    == <<own, proven>>
vars       == <<familyVars, dir, runVars, child, pc, job, edits, disturbed>>

Slots    == Names \cup Rounds
Versions == 0 .. MaxEdits
\* What a call of archive_variant or archive_failed writes down.
Calls == [round : Rounds, text : Versions, parent : Names \cup {None}]

\* The solution directory, which is config.candidate in a child (spawn.py:769).
Trees == [kernel : Versions \cup {None}, rest : Versions]

ASSUME NoneAssumption ==
    /\ None \notin Calls \cup Versions \cup Trees
    /\ Solution \notin Versions \cup {None}

\* The files of an archive, in the order they are written: of a variant the kernel,
\* what goes with it (config.toml, parent.txt, spawn.json) and its measurements, if
\* it has any; of a failure what the child left, if anything, and the summary.
VariantMembers == <<"kernel", "meta", "result">>
BundleMembers  == <<"transcript", "summary">>
MembersOf(s) == IF s \in Names THEN VariantMembers ELSE BundleMembers
Optional == {"result", "transcript"}
Members  == {"kernel", "meta", "result", "transcript", "summary"}

\* A directory of an archive: the call that wrote each of its files.
Empty  == [m \in Members |-> None]
Absent == [m \in {} |-> None]
NoJob  == [round |-> None, slot |-> None, parent |-> None, art |-> None, call |-> None,
           i |-> 1, exit |-> "ok", changed |-> FALSE]
\* solution/kernel.py (None: removed) and the other sources, the kernels the
\* trajectory kept, .ako/seed-kernel.sha256, whether a run was started later than
\* the master's, and, for the properties, the kernel it was given, the one there was
\* when the agent exited, whether .ako was wiped, and whether kernel.py was written
\* between that exit and the comparison.
NoChild == [kernel |-> None, rest |-> 0, snapshots |-> {}, seed |-> None, doctored |-> FALSE,
            base |-> None, left |-> None, wiped |-> FALSE, touched |-> FALSE]
Tree == [kernel |-> child.kernel, rest |-> child.rest]

Init ==
    /\ profile \in Profiles
    /\ measured = FALSE
    /\ published = [s \in Slots |-> Absent]
    /\ staging = [s \in Slots |-> Absent]
    /\ dir = {}
    /\ own = [r \in Rounds |-> None]
    /\ proven = [r \in Rounds |-> None]
    /\ child = NoChild
    /\ pc = "ready"
    /\ job = NoJob
    /\ edits = 0
    /\ disturbed = {}

Goto(label) == pc' = label
\* The call raises or the round is over: the master turns to something else, and
\* reads nothing of this child again (a later round has a label of its own).
Raise == pc' = "ready" /\ job' = NoJob /\ child' = NoChild
Is(label) == pc = label
R == job.round

-----------------------------------------------------------------------------
(* spawn_child and spawn.py.                                               *)

\* Without a parent only while the family has no latencies or nothing below
\* variants/, where the remains of a staging directory count as well
\* (master.py:571).  spawn.py refuses a directory that exists.
SpawnChild(r, parent) ==
    /\ Is("ready")
    /\ r \notin dir
    /\ parent = None =>
         ~(measured /\ \E n \in Names : published[n] # Absent \/ staging[n] # Absent)
    /\ parent # None => published[parent] # Absent
    /\ dir' = dir \cup {r}
    /\ job' = [NoJob EXCEPT !.round = r, !.parent = parent]
    /\ Goto("populate")
    /\ UNCHANGED <<familyVars, runVars, child, edits, disturbed>>

\* populate_child copies the parent's kernel or extracts the reference.  When it
\* fails or takes too long the half-made directory stays.
PopulateChild ==
    /\ Is("populate")
    /\ LET base == IF job.parent = None THEN 0 ELSE published[job.parent]["kernel"].text
       IN \/ /\ child' = [NoChild EXCEPT !.kernel = base, !.base = base]
             /\ Goto("seed")
             /\ UNCHANGED job
          \/ "files" \in Faults /\ Raise
    /\ UNCHANGED <<familyVars, dir, runVars, edits, disturbed>>

\* The hash that later tells a changed kernel from the one the child started with.
RecordSeed ==
    /\ Is("seed")
    /\ \/ /\ child' = [child EXCEPT !.seed = child.kernel]
          /\ Goto("spawned")
          /\ UNCHANGED job
       \/ "files" \in Faults /\ Raise
    /\ UNCHANGED <<familyVars, dir, runVars, edits, disturbed>>

-----------------------------------------------------------------------------
(* run_sub_phase1.                                                         *)

\* The run is marked FAILED, unless the store raises once more: then the call does.
MarkFailed ==
    \/ /\ own' = [own EXCEPT ![R] = "FAILED"]
       /\ job' = [job EXCEPT !.exit = "failed"]
       /\ Goto("collect")
       /\ UNCHANGED child
    \/ "store" \in Faults /\ Raise /\ UNCHANGED own

\* A production child gets a run first; new_run may insert its row and then raise.
StartPhase1 ==
    /\ Is("spawned")
    /\ \/ profile = "standard" /\ Goto("agent") /\ UNCHANGED <<own, job>>
       \/ /\ profile = "production"
          /\ own' = [own EXCEPT ![R] = "running"]
          /\ \/ Goto("prepare") /\ UNCHANGED job
             \/ "store" \in Faults /\ Goto("collect") /\ job' = [job EXCEPT !.exit = "failed"]
    /\ UNCHANGED <<familyVars, dir, proven, child, edits, disturbed>>

\* "Hard boundary": no agent before the baseline evidence.
Prepare ==
    /\ Is("prepare")
    /\ \/ Goto("agent") /\ UNCHANGED <<own, child, job>>
       \/ MarkFailed
    /\ UNCHANGED <<familyVars, dir, proven, edits, disturbed>>

\* _run_bounded returns: the agent has exited or been killed at the timeout.
AgentReturns(exit) ==
    /\ Is("agent")
    /\ CASE profile = "production" /\ exit = "failed" -> MarkFailed
         [] OTHER ->
              /\ job' = [job EXCEPT !.exit = exit]
              /\ child' = [child EXCEPT !.left = child.kernel]
              /\ Goto(IF profile = "production" THEN "validate" ELSE "collect")
              /\ UNCHANGED own
    /\ UNCHANGED <<familyVars, dir, proven, edits, disturbed>>

\* Mutant: a validation that raises leaves the exit status of the agent.
ValidateKeepsExit ==
    /\ Is("validate")
    /\ \/ /\ own' = [own EXCEPT ![R] = "PROMOTABLE"]
          /\ proven' = [proven EXCEPT ![R] = Tree]
       \/ own' = [own EXCEPT ![R] = "FAILED"] /\ UNCHANGED proven
    /\ Goto("collect")
    /\ UNCHANGED <<familyVars, dir, child, job, edits, disturbed>>

\* validate_candidate, whose promise ProductionPipeline states: PROMOTABLE means
\* that all evidence was measured from the bytes the run is bound to.
Validate ==
    /\ Is("validate")
    /\ \/ /\ own' = [own EXCEPT ![R] = "PROMOTABLE"]
          /\ proven' = [proven EXCEPT ![R] = Tree]
          /\ Goto("collect")
          /\ UNCHANGED <<child, job>>
       \/ MarkFailed /\ UNCHANGED proven
    /\ UNCHANGED <<familyVars, dir, edits, disturbed>>

\* Mutant: "sub crashed leaving the seed" is told by the file being there.
ChangedIfThere == child.kernel # None

\* kernel.py alone is looked at, and has to exist; then a missing seed hash counts
\* as changed.
KernelChanged == child.kernel # None /\ (child.seed = None \/ child.kernel # child.seed)

\* Transcript and logs are written, the session id is parsed (a transcript without
\* one fails the round), and the kernel is compared with the seed.
Collect ==
    /\ Is("collect")
    /\ \/ /\ \E exit \in {job.exit, "failed"} :
                 job' = [job EXCEPT !.exit = exit, !.changed = KernelChanged]
          /\ Goto("outcome")
          /\ UNCHANGED child
       \/ "files" \in Faults /\ Raise
    /\ UNCHANGED <<familyVars, dir, runVars, edits, disturbed>>

-----------------------------------------------------------------------------
(* The outcome branch of the master's round loop, and the evidence gate.   *)

\* What the properties remember of a child they remember until its outcome.
Settled == [child EXCEPT !.left = None, !.wiped = FALSE, !.touched = FALSE]

\* A failed round goes to _failed/<label>.
FailedRound ==
    /\ Is("outcome") /\ job.exit = "failed"
    /\ job' = [job EXCEPT !.slot = R, !.parent = None, !.art = 0]
    /\ child' = Settled
    /\ Goto("archive")
    /\ UNCHANGED <<familyVars, dir, runVars, edits, disturbed>>

\* A clean round with a changed kernel: the master takes the solution or a snapshot
\* and gives it a name; in a production campaign the evidence comes first.
CleanRound(name, art) ==
    /\ Is("outcome") /\ job.exit = "ok" /\ job.changed
    /\ art \in {Solution} \cup child.snapshots
    /\ job' = [job EXCEPT !.slot = name, !.art = art]
    /\ child' = Settled
    /\ Goto(IF profile = "production" THEN "verify" ELSE "archive")
    /\ UNCHANGED <<familyVars, dir, runVars, edits, disturbed>>

UnchangedRound ==
    /\ Is("outcome") /\ job.exit = "ok" /\ ~job.changed
    /\ Raise
    /\ UNCHANGED <<familyVars, dir, runVars, edits, disturbed>>

\* The artifact at kernel_path: a snapshot stays what it is, the solution does not.
Artifact == IF job.art = Solution THEN child.kernel ELSE job.art

\* What verify_production_evidence asks of the latest run of the child's store:
\* a later run is a doctor's, whose state is never PROMOTABLE.
LatestIsPromotable == ~child.doctored /\ own[R] = "PROMOTABLE"

\* Mutant: the artifact is not compared with the candidate that passed.
TrustArtifact == LatestIsPromotable /\ Tree = proven[R]

EvidenceMatches ==
    /\ LatestIsPromotable
    /\ Tree = proven[R]
    /\ Artifact = child.kernel

VerifyEvidence ==
    /\ Is("verify")
    /\ Goto(IF EvidenceMatches THEN "archive" ELSE "denied")
    /\ UNCHANGED <<familyVars, dir, runVars, child, job, edits, disturbed>>

NoArchive ==
    /\ Is("denied")
    /\ Raise
    /\ UNCHANGED <<familyVars, dir, runVars, edits, disturbed>>

-----------------------------------------------------------------------------
(* archive_variant and archive_failed.                                     *)

\* Mutant: the staging directory is made with exist_ok and keeps what it held.
StageOver ==
    /\ Is("archive")
    /\ published[job.slot] = Absent
    /\ staging' = [staging EXCEPT ![job.slot] = IF @ = Absent THEN Empty ELSE @]
    /\ job' = [job EXCEPT !.i = 1]
    /\ Goto("stage")
    /\ UNCHANGED <<profile, measured, published, dir, runVars, child, edits, disturbed>>

\* The checks, then a fresh staging directory: remains are removed first, outside
\* the try block.
BeginArchive ==
    /\ Is("archive")
    /\ \/ /\ published[job.slot] = Absent
          /\ job.parent # None => published[job.parent] # Absent
          /\ staging' = [staging EXCEPT ![job.slot] = Empty]
          /\ job' = [job EXCEPT !.i = 1]
          /\ Goto("stage")
          /\ UNCHANGED child
       \/ published[job.slot] # Absent /\ Raise /\ UNCHANGED staging
       \/ "files" \in Faults /\ Raise /\ UNCHANGED staging
    /\ UNCHANGED <<profile, measured, published, dir, runVars, edits, disturbed>>

\* One file at a time; the kernel is read from kernel_path when it is written.
StageMember ==
    /\ Is("stage")
    /\ job.i <= Len(MembersOf(job.slot))
    /\ LET member == MembersOf(job.slot)[job.i]
           call == IF job.i = 1 THEN [round |-> R, text |-> Artifact, parent |-> job.parent]
                                ELSE job.call
       IN /\ \/ staging' = [staging EXCEPT ![job.slot][member] = call]
             \/ member \in Optional /\ UNCHANGED staging
          /\ job' = [job EXCEPT !.call = call, !.i = @ + 1]
    /\ UNCHANGED <<profile, measured, published, dir, runVars, child, pc, edits, disturbed>>

PublishStaged ==
    /\ Is("stage")
    /\ job.i = Len(MembersOf(job.slot)) + 1
    /\ published' = [published EXCEPT ![job.slot] = staging[job.slot]]
    /\ staging' = [staging EXCEPT ![job.slot] = Absent]
    /\ Raise
    /\ UNCHANGED <<profile, measured, dir, runVars, edits, disturbed>>

\* A write or the rename fails: rmtree, which ignores its own errors, and the
\* exception; the master calls again or gives up.
StagingFails ==
    /\ "files" \in Faults
    /\ Is("stage")
    /\ staging' \in {staging, [staging EXCEPT ![job.slot] = Absent]}
    /\ Raise \/ (Goto("archive") /\ UNCHANGED <<child, job>>)
    /\ UNCHANGED <<profile, measured, published, dir, runVars, edits, disturbed>>

-----------------------------------------------------------------------------
(* The sub at work, what it leaves running, and the end of a session.      *)

\* While phase 1 lasts the sub edits its solution, goes back to what it was given,
\* removes or renames kernel.py, benchmarks (which keeps a snapshot and measures the
\* baseline), runs the doctor its task file asks for, or wipes .ako with its
\* untracked files.
SubEdits ==
    /\ Is("agent") /\ edits < MaxEdits
    /\ child' \in {[child EXCEPT !.kernel = edits + 1], [child EXCEPT !.rest = edits + 1]}
    /\ edits' = edits + 1
    /\ UNCHANGED <<familyVars, dir, runVars, pc, job, disturbed>>

SubReverts ==
    /\ Is("agent")
    /\ child' = [child EXCEPT !.kernel = child.base, !.rest = 0]
    /\ UNCHANGED <<familyVars, dir, runVars, pc, job, edits, disturbed>>

SubRemoves ==
    /\ Is("agent")
    /\ child' = [child EXCEPT !.kernel = None]
    /\ UNCHANGED <<familyVars, dir, runVars, pc, job, edits, disturbed>>

SubBenches ==
    /\ Is("agent") /\ child.kernel # None
    /\ child' = [child EXCEPT !.snapshots = @ \cup {child.kernel}]
    /\ measured' = TRUE
    /\ UNCHANGED <<profile, published, staging, dir, runVars, pc, job, edits, disturbed>>

SubRunsDoctor ==
    /\ Is("agent") /\ profile = "production"
    /\ child' = [child EXCEPT !.doctored = TRUE]
    /\ UNCHANGED <<familyVars, dir, runVars, pc, job, edits, disturbed>>

SubWipes ==
    /\ Is("agent")
    /\ child' = [child EXCEPT !.seed = None, !.wiped = TRUE]
    /\ UNCHANGED <<familyVars, dir, runVars, pc, job, edits, disturbed>>

\* A process of an agent that has exited still writes the solution.
LateEdit ==
    /\ edits < MaxEdits
    /\ pc \in {"validate", "collect", "outcome", "verify", "archive", "stage"}
    /\ \/ /\ child' = [child EXCEPT !.kernel = edits + 1,
                                     !.touched = @ \/ pc \in {"validate", "collect"}]
          /\ disturbed' = IF pc \in {"archive", "stage"} THEN disturbed \cup {R} ELSE disturbed
       \/ child' = [child EXCEPT !.rest = edits + 1] /\ UNCHANGED disturbed
    /\ edits' = edits + 1
    /\ UNCHANGED <<familyVars, dir, runVars, pc, job>>

\* The session ends anywhere.  The next one repeats an archive call or moves on.
Crash ==
    /\ Crashes
    /\ ~Is("ready")
    /\ \/ Raise
       \/ pc \in {"archive", "stage"} /\ Goto("archive") /\ UNCHANGED <<child, job>>
    /\ UNCHANGED <<familyVars, dir, runVars, edits, disturbed>>

-----------------------------------------------------------------------------
Spawn   == (\E r \in Rounds, parent \in Names \cup {None} : SpawnChild(r, parent))
           \/ PopulateChild \/ RecordSeed
Phase1  == StartPhase1 \/ Prepare \/ (\E exit \in {"ok", "failed"} : AgentReturns(exit))
           \/ Validate \/ Collect
Outcome == FailedRound \/ UnchangedRound \/ VerifyEvidence \/ NoArchive
           \/ \E name \in Names, art \in {Solution} \cup Versions : CleanRound(name, art)
Keep    == BeginArchive \/ StageMember \/ PublishStaged \/ StagingFails
Sub     == SubEdits \/ SubReverts \/ SubRemoves \/ SubBenches \/ SubRunsDoctor \/ SubWipes
           \/ LateEdit

Next == Spawn \/ Phase1 \/ Outcome \/ Keep \/ Sub \/ Crash

Spec == Init /\ [][Next]_vars

-----------------------------------------------------------------------------
(* Properties.                                                             *)

Directory == [Members -> Calls \cup {None}] \cup {Absent}
Kernels   == Versions \cup {None}
Children  == [kernel : Kernels, rest : Versions, snapshots : SUBSET Versions, seed : Kernels,
              doctored : BOOLEAN, base : Kernels, left : Kernels, wiped : BOOLEAN,
              touched : BOOLEAN]
Jobs      == [round : Rounds \cup {None}, slot : Slots \cup {None}, parent : Names \cup {None},
              art : Kernels \cup {Solution}, call : Calls \cup {None},
              i : 1 .. Len(VariantMembers) + 1, exit : {"ok", "failed"}, changed : BOOLEAN]

\* Every variable has its type.
TypeOK ==
    /\ profile \in Profiles /\ measured \in BOOLEAN
    /\ published \in [Slots -> Directory] /\ staging \in [Slots -> Directory]
    /\ dir \subseteq Rounds /\ disturbed \subseteq Rounds
    /\ own \in [Rounds -> {None, "running", "PROMOTABLE", "FAILED"}]
    /\ proven \in [Rounds -> Trees \cup {None}]
    /\ child \in Children
    /\ pc \in {"ready", "populate", "seed", "spawned", "prepare", "agent", "validate", "collect",
               "outcome", "verify", "denied", "archive", "stage"}
    /\ job \in Jobs
    /\ edits \in Versions

\* The call that filled a directory, if one call wrote every file of it that must
\* be there, and no other call any.
Key(s) == IF s \in Names THEN "kernel" ELSE "summary"
Whole(s, d) ==
    /\ d # Absent
    /\ \A m \in Members :
         IF \E i \in 1 .. Len(MembersOf(s)) : MembersOf(s)[i] = m
         THEN d[m] = d[Key(s)] \/ (m \in Optional /\ d[m] = None)
         ELSE d[m] = None
    /\ d[Key(s)] # None

Mixture == [round |-> None]
EntryOf(s, d) == IF d = Absent THEN None ELSE IF Whole(s, d) THEN d[Key(s)] ELSE Mixture

\* The archive implements its promise whatever fails or is killed between the
\* first file of a staging directory and the rename, and whatever an earlier
\* attempt has left there.
PromisedArchive == INSTANCE Archive WITH
    Slots <- Slots, Calls <- Calls, None <- None,
    archived <- [s \in Slots |-> EntryOf(s, published[s])]
ArchiveIsAtomic == PromisedArchive!Spec

\* In a production campaign every archived kernel is, byte for byte, kernel.py of the
\* sources that passed its round's pipeline, whichever snapshot the master took and
\* whatever a process of the sub wrote after the agent's exit, up to the evidence
\* check.
ArchivedIsProven ==
    \A n \in Names : profile = "production" /\ published[n] # Absent =>
        LET r == published[n]["kernel"].round
        IN r \notin disturbed =>
             /\ own[r] = "PROMOTABLE" /\ proven[r] # None
             /\ proven[r].kernel = published[n]["kernel"].text

\* What decides a clean round is kernel.py at the agent's exit, whatever validation,
\* the doctor or a wiped .ako did since the spawn: the round counts as changed if it
\* exists and is not the kernel the child was given, or the seed hash is gone.  Work
\* that is in other sources only, and a removed kernel.py, count as unchanged.  Set
\* aside are rounds in which a process of the sub wrote kernel.py after the exit.
OutcomeFollowsKernel ==
    pc = "outcome" /\ job.exit = "ok" /\ ~child.touched =>
        job.changed = (child.left # None /\ (child.left # child.base \/ child.wiped))

\* What run_sub_phase1 reports as a clean exit of a production child has passed
\* the pipeline.
CleanExitIsProven ==
    pc \in {"outcome", "verify"} /\ profile = "production" /\ job.exit = "ok" =>
        own[R] = "PROMOTABLE" /\ proven[R] # None

\* "The bytes selected by master must still match that evidence"
\* (master/master.py:217): the gate refuses a clean round only if they do not.
DeniedIsUnproven ==
    pc = "denied" =>
        ~(own[R] = "PROMOTABLE" /\ Tree = proven[R] /\ Artifact = child.kernel)
=============================================================================
