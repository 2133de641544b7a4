-------------------------------- MODULE Lanes --------------------------------
(***************************************************************************)
(* Lanes (ako4x/lanes.py): create_lane with its rollback, and the records  *)
(* load_lane reads and the runners write, for several commands at work in  *)
(* one repository, with the skills skill_sources.py copies into a lane     *)
(* from directories that others may edit meanwhile.                        *)
(***************************************************************************)
EXTENDS Naturals

CONSTANTS
    Procs,       \* commands: lane-create and lane-run
    Names,       \* lane names
    Paths,       \* worktree directories, the default ones and --worktree
    Skills,      \* required external skills
    Tracked,     \* those the repository itself holds a copy of
    MaxVersion,  \* bound on the versions of a skill's source
    MaxRuns,     \* bound on the runs of all lanes
    Faults,      \* what may fail: "git" commands, "files", other "checks"
    Crashes,     \* commands may be killed
    None

ASSUME LanesAssumption ==
    /\ Tracked \subseteq Skills
    /\ MaxVersion \in Nat /\ MaxRuns \in Nat
    /\ Faults \subseteq {"git", "files", "checks"}
    /\ Crashes \in BOOLEAN
    /\ None \notin Procs \cup Names \cup Paths

\* The lock file of a lane is missing or maps each skill to a hash, never both.
ASSUME LockAssumption == None \notin [Skills -> (0 .. MaxVersion) \cup {None}]

VARIABLES
    branch,     \* names n with a branch ako4x/n
    tree,       \* what is at each path: nothing or a worktree
    registry,   \* .ako4x/lanes/<name>.json in the project
    source,     \* the version of each skill's source
    pc, job,    \* each command: program counter and local variables
    runs,       \* runs made so far
    maker,      \* history: the command that added the worktree at a path
    stranded,   \* history: names a killed command or a failing git left half-made
    split       \* history: lanes two runners recorded at once, or one in part

control == <<pc, job>>
history == <<maker, stranded, split>>
vars == <<branch, tree, registry, source, control, runs, history>>

Versions == 0 .. MaxVersion
Absent   == [lane |-> None]
NoRecord == [state |-> "absent", run |-> 0, path |-> None]
NoJob    == [name |-> None, path |-> None, hash |-> [s \in Skills |-> 0], left |-> {}, run |-> 0]

Init ==
    /\ branch = {}
    /\ tree = [d \in Paths |-> Absent]
    /\ registry = [n \in Names |-> NoRecord]
    /\ source = [s \in Skills |-> 0]
    /\ pc = [p \in Procs |-> "idle"]
    /\ job = [p \in Procs |-> NoJob]
    /\ runs = 0
    /\ maker = [d \in Paths |-> None]
    /\ stranded = {} /\ split = {}

At(p, label)   == pc[p] = label
Goto(p, label) == pc' = [pc EXCEPT ![p] = label]
Name(p) == job[p].name
Path(p) == job[p].path
\* The command is over, with a result or an exception.
End(p)  == Goto(p, "idle") /\ job' = [job EXCEPT ![p] = NoJob]

-----------------------------------------------------------------------------
(* create_lane up to the worktree.                                         *)

\* Name, mode, adapter, clean tree and agent are fine, or the call raises with
\* nothing done; the destination must not exist.
CreateLane(p, n, d) ==
    /\ At(p, "idle")
    /\ tree[d] = Absent
    /\ job' = [job EXCEPT ![p] = [NoJob EXCEPT !.name = n, !.path = d]]
    /\ Goto(p, "add")
    /\ UNCHANGED <<branch, tree, registry, source, runs, history>>

\* The worktree of HEAD, with the skills the repository tracks.
Checkout(n) == [lane |-> n, skills |-> [s \in Skills |-> IF s \in Tracked THEN 0 ELSE None],
                lock |-> None, record |-> NoRecord]

\* Mutant: the command is inside the try block.
AddInsideTry(p) ==
    /\ At(p, "add")
    /\ IF Name(p) \notin branch /\ tree[Path(p)] = Absent
       THEN /\ branch' = branch \cup {Name(p)}
            /\ tree' = [tree EXCEPT ![Path(p)] = Checkout(Name(p))]
            /\ maker' = [maker EXCEPT ![Path(p)] = p]
            /\ Goto(p, "resolve")
       ELSE Goto(p, "remove") /\ UNCHANGED <<branch, tree, maker>>
    /\ UNCHANGED <<registry, source, job, runs, stranded, split>>

\* git worktree add -b: refused for a branch or a path that exists.  A git that
\* fails may leave the branch behind.  Outside the try block: nothing is undone.
AddWorktree(p) ==
    /\ At(p, "add")
    /\ \/ /\ Name(p) \notin branch /\ tree[Path(p)] = Absent
          /\ branch' = branch \cup {Name(p)}
          /\ tree' = [tree EXCEPT ![Path(p)] = Checkout(Name(p))]
          /\ maker' = [maker EXCEPT ![Path(p)] = p]
          /\ Goto(p, "resolve")
          /\ UNCHANGED <<job, stranded>>
       \/ /\ Name(p) \in branch \/ tree[Path(p)] # Absent
          /\ End(p)
          /\ UNCHANGED <<branch, tree, maker, stranded>>
       \/ /\ "git" \in Faults
          /\ Name(p) \notin branch
          /\ branch' = branch \cup {Name(p)}
          /\ stranded' = stranded \cup {Name(p)}
          /\ End(p)
          /\ UNCHANGED <<tree, maker>>
    /\ UNCHANGED <<registry, source, runs, split>>

-----------------------------------------------------------------------------
(* The body of the try block.                                              *)

\* Any exception in it.
Undo(p) == Goto(p, "remove")

\* resolve_skills hashes each source it finds; one that is missing raises, as does
\* a built-in skill that conflicts with one of the repository's.
ResolveSkills(p) ==
    /\ At(p, "resolve")
    /\ \/ /\ job' = [job EXCEPT ![p].hash = source, ![p].left = Skills]
          /\ Goto(p, "copy")
       \/ "checks" \in Faults /\ Undo(p) /\ UNCHANGED job
    /\ UNCHANGED <<branch, tree, registry, source, runs, history>>

\* Mutant: the copy is not compared with the hash of its source.
CopyUnverified(p, s) ==
    /\ At(p, "copy") /\ s \in job[p].left
    /\ tree' = [tree EXCEPT ![Path(p)].skills[s] = IF @ = None THEN source[s] ELSE @]
    /\ job' = [job EXCEPT ![p].left = @ \ {s}]
    /\ UNCHANGED <<branch, registry, source, pc, runs, history>>

\* A skill that is there must be the one that was resolved, and so must a copy:
\* otherwise the copy is removed and the call raises.
CopySkill(p, s) ==
    /\ At(p, "copy") /\ s \in job[p].left
    /\ LET present == tree[Path(p)].skills[s]
           copied  == IF present = None THEN source[s] ELSE present
       IN IF copied = job[p].hash[s]
          THEN /\ tree' = [tree EXCEPT ![Path(p)].skills[s] = copied]
               /\ job' = [job EXCEPT ![p].left = @ \ {s}]
               /\ UNCHANGED pc
          ELSE Undo(p) /\ UNCHANGED <<tree, job>>
    /\ UNCHANGED <<branch, registry, source, runs, history>>

WriteLock(p) ==
    /\ At(p, "copy") /\ job[p].left = {}
    /\ tree' = [tree EXCEPT ![Path(p)].lock = job[p].hash]
    /\ Goto(p, "local")
    /\ UNCHANGED <<branch, registry, source, job, runs, history>>

FirstRecord(p) == [state |-> "whole", run |-> 0, path |-> Path(p)]

\* Mutant: the registry is written before the last step that can fail.
RegisterFirst(p) ==
    /\ At(p, "local")
    /\ tree' = [tree EXCEPT ![Path(p)].record = FirstRecord(p)]
    /\ registry' = [registry EXCEPT ![Name(p)] = FirstRecord(p)]
    /\ Goto(p, "register")
    /\ UNCHANGED <<branch, source, job, runs, history>>

\* The adapter still makes sense in the worktree, and lane.json is written there.
WriteLocal(p) ==
    /\ At(p, "local")
    /\ \/ /\ tree' = [tree EXCEPT ![Path(p)].record = FirstRecord(p)]
          /\ Goto(p, "register")
       \/ Faults \cap {"checks", "files"} # {} /\ Undo(p) /\ UNCHANGED tree
    /\ UNCHANGED <<branch, registry, source, job, runs, history>>

\* Last of all the registry.  A write that fails leaves a torn file.
Register(p) ==
    /\ At(p, "register")
    /\ \/ /\ registry' = [registry EXCEPT ![Name(p)] = FirstRecord(p)]
          /\ End(p)
       \/ /\ "files" \in Faults
          /\ registry' = [registry EXCEPT ![Name(p)].state = "torn"]
          /\ Undo(p)
          /\ UNCHANGED job
    /\ UNCHANGED <<branch, tree, source, runs, history>>

-----------------------------------------------------------------------------
(* Its except clause.                                                      *)

\* git worktree remove --force; if that fails its exception replaces the first
\* one and the branch stays too.
RemoveWorktree(p) ==
    /\ At(p, "remove")
    /\ \/ /\ tree' = [tree EXCEPT ![Path(p)] = Absent]
          /\ maker' = [maker EXCEPT ![Path(p)] = None]
          /\ Goto(p, "delete")
          /\ UNCHANGED <<job, stranded>>
       \/ /\ "git" \in Faults
          /\ stranded' = stranded \cup {Name(p)}
          /\ End(p)
          /\ UNCHANGED <<tree, maker>>
    /\ UNCHANGED <<branch, registry, source, runs, split>>

\* Mutant: the branch stays.
BranchStays(p) ==
    /\ At(p, "delete")
    /\ End(p)
    /\ UNCHANGED <<branch, tree, registry, source, runs, history>>

\* git branch -D; a failure is swallowed.
DeleteBranch(p) ==
    /\ At(p, "delete")
    /\ \/ branch' = branch \ {Name(p)} /\ UNCHANGED stranded
       \/ "git" \in Faults /\ stranded' = stranded \cup {Name(p)} /\ UNCHANGED branch
    /\ End(p)
    /\ UNCHANGED <<tree, registry, source, runs, maker, split>>

-----------------------------------------------------------------------------
(* load_lane and the runners.                                              *)

Recording(n) == {p \in Procs : Name(p) = n /\ pc[p] \in {"record", "publish"}}

\* load_lane raises for a record that is absent or torn; new_run opens the run
\* store of the worktree.
LaneRun(p, n) ==
    /\ At(p, "idle")
    /\ registry[n].state = "whole"
    /\ runs < MaxRuns
    /\ runs' = runs + 1
    /\ job' = [job EXCEPT ![p] = [NoJob EXCEPT !.name = n, !.path = registry[n].path, !.run = runs + 1]]
    /\ Goto(p, "record")
    /\ split' = IF Recording(n) = {} THEN split ELSE split \cup {n}
    /\ UNCHANGED <<branch, tree, registry, source, maker, stranded>>

\* _record_run: lane.json, then the registry.  A failure raises outside the try
\* block of the runner, and leaves a torn file and a run in its first state.
RecordLocal(p) ==
    /\ At(p, "record")
    /\ \/ /\ tree' = [tree EXCEPT ![Path(p)].record = [@ EXCEPT !.state = "whole", !.run = job[p].run]]
          /\ Goto(p, "publish")
          /\ UNCHANGED <<job, split>>
       \/ /\ "files" \in Faults
          /\ tree' = [tree EXCEPT ![Path(p)].record.state = "torn"]
          /\ split' = split \cup {Name(p)}
          /\ End(p)
    /\ UNCHANGED <<branch, registry, source, runs, maker, stranded>>

\* Mutant: the run id is kept in the worktree only.
RecordHere(p) ==
    /\ At(p, "publish")
    /\ Goto(p, "work")
    /\ UNCHANGED <<branch, tree, registry, source, job, runs, history>>

RecordPublic(p) ==
    /\ At(p, "publish")
    /\ \/ /\ registry' = [registry EXCEPT ![Name(p)] = [@ EXCEPT !.state = "whole", !.run = job[p].run]]
          /\ Goto(p, "work")
          /\ UNCHANGED <<job, split>>
       \/ /\ "files" \in Faults
          /\ registry' = [registry EXCEPT ![Name(p)].state = "torn"]
          /\ split' = split \cup {Name(p)}
          /\ End(p)
    /\ UNCHANGED <<branch, tree, source, runs, maker, stranded>>

\* The rest of the runner is a pipeline's (ProductionPipeline) and an agent's
\* (Supervision).
RunnerEnds(p) ==
    /\ At(p, "work")
    /\ End(p)
    /\ UNCHANGED <<branch, tree, registry, source, runs, history>>

-----------------------------------------------------------------------------
(* The world.                                                              *)

SourceChanges(s) ==
    /\ source[s] < MaxVersion
    /\ source' = [source EXCEPT ![s] = @ + 1]
    /\ UNCHANGED <<branch, tree, registry, control, runs, history>>

\* create_lane at its worktree.
Making == {"resolve", "copy", "local", "register", "remove"}

\* A command is killed; the record it was writing may be torn.
Crash(p) ==
    /\ Crashes
    /\ ~At(p, "idle")
    /\ End(p)
    /\ \/ UNCHANGED <<tree, registry>>
       \/ /\ pc[p] \in {"local", "record"}
          /\ tree' = [tree EXCEPT ![Path(p)].record.state = "torn"]
          /\ UNCHANGED registry
       \/ /\ pc[p] \in {"register", "publish"}
          /\ registry' = [registry EXCEPT ![Name(p)].state = "torn"]
          /\ UNCHANGED tree
    /\ stranded' = IF pc[p] \in Making \cup {"delete"} THEN stranded \cup {Name(p)} ELSE stranded
    /\ split' = IF pc[p] \in {"record", "publish"} THEN split \cup {Name(p)} ELSE split
    /\ UNCHANGED <<branch, source, runs, maker>>

Create(p) == (\E n \in Names, d \in Paths : CreateLane(p, n, d)) \/ AddWorktree(p)
             \/ ResolveSkills(p) \/ (\E s \in Skills : CopySkill(p, s)) \/ WriteLock(p)
             \/ WriteLocal(p) \/ Register(p) \/ RemoveWorktree(p) \/ DeleteBranch(p)
Run(p)    == (\E n \in Names : LaneRun(p, n)) \/ RecordLocal(p) \/ RecordPublic(p) \/ RunnerEnds(p)

Next == (\E p \in Procs : Create(p) \/ Run(p) \/ Crash(p)) \/ \E s \in Skills : SourceChanges(s)

Spec == Init /\ [][Next]_vars

-----------------------------------------------------------------------------
(* Properties.                                                             *)

Records   == [state : {"absent", "torn", "whole"}, run : 0 .. MaxRuns, path : Paths \cup {None}]
Worktrees == [lane : Names, skills : [Skills -> Versions \cup {None}],
              lock : [Skills -> Versions] \cup {None}, record : Records]
Jobs      == [name : Names \cup {None}, path : Paths \cup {None}, hash : [Skills -> Versions],
              left : SUBSET Skills, run : 0 .. MaxRuns]
Labels    == {"idle", "add", "resolve", "copy", "local", "register", "remove", "delete",
              "record", "publish", "work"}

\* Every variable has its type.
TypeOK ==
    /\ branch \subseteq Names
    /\ tree \in [Paths -> Worktrees \cup {Absent}]
    /\ registry \in [Names -> Records]
    /\ source \in [Skills -> Versions]
    /\ pc \in [Procs -> Labels] /\ job \in [Procs -> Jobs]
    /\ runs \in 0 .. MaxRuns
    /\ maker \in [Paths -> Procs \cup {None}]
    /\ stranded \subseteq Names /\ split \subseteq Names

\* A lane that load_lane returns is complete, whatever other commands fail, are
\* killed or undo: its branch and worktree are there, and the skills in it are
\* the ones its lock file names.
LoadableIsComplete ==
    \A n \in Names : registry[n].state = "whole" =>
        /\ n \in branch
        /\ tree[registry[n].path] # Absent
        /\ tree[registry[n].path].lane = n
        /\ tree[registry[n].path].lock = tree[registry[n].path].skills

\* create_lane undoes only what it did: nobody but its maker removes a worktree.
OnlyOwnUndone ==
    \A p \in Procs : pc[p] = "remove" => maker[Path(p)] = p

Registered(n) == registry[n].path # None

\* The worktree and the skills a runner of the lane finds.
LaneOf(n) ==
    LET d == registry[n].path IN
    IF Registered(n) /\ tree[d] # Absent THEN [path |-> d, skills |-> tree[d].skills] ELSE None

PromisedRegistry == INSTANCE LaneRegistry WITH lanes <- [n \in Names |-> LaneOf(n)]

\* The registry keeps its promise (LaneRegistry): a registered lane has a worktree no
\* other lane has, with every required skill, and no command that creates, undoes, runs
\* or is killed ever takes the worktree away or changes a skill in it.
LanesStay == PromisedRegistry!Spec

\* No branch and no worktree is left of a call that raised, unless git itself failed
\* or the command was killed.
NothingLeft ==
    \A n \in Names \ stranded :
        /\ n \in branch =>
             Registered(n) \/ \E p \in Procs : Name(p) = n /\ pc[p] \in Making \cup {"delete"}
        /\ \A d \in Paths : tree[d].lane = n =>
             registry[n].path = d \/ \E p \in Procs : Name(p) = n /\ Path(p) = d /\ pc[p] \in Making

\* The two records of a lane name one run, as long as its runners do not record at
\* once and none fails between the two writes.
RecordsAgree ==
    \A n \in Names \ split : registry[n].state = "whole" /\ Recording(n) = {} =>
        tree[registry[n].path].record = registry[n]
=============================================================================
