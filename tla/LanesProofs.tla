----------------------------- MODULE LanesProofs -----------------------------
(* Theorems about Lanes, for any commands, names, paths, skills and faults. *)
EXTENDS LanesInvariant, TLAPS

USE LanesAssumption

-----------------------------------------------------------------------------
(* The control state of one command changes at a time.                     *)

LEMMA NoJobType == NoJob \in Jobs
BY DEF NoJob, Jobs, Versions

LEMMA Went ==
    ASSUME TypeOK, NEW p \in Procs, NEW label \in Labels, Goto(p, label), UNCHANGED job
    PROVE  /\ pc' \in [Procs -> Labels] /\ job' \in [Procs -> Jobs]
           /\ pc'[p] = label
           /\ \A q \in Procs : q # p => pc'[q] = pc[q]
BY DEF Goto, TypeOK

LEMMA Ended ==
    ASSUME TypeOK, NEW p \in Procs, End(p)
    PROVE  /\ pc' \in [Procs -> Labels] /\ job' \in [Procs -> Jobs]
           /\ pc'[p] = "idle" /\ job'[p] = NoJob
           /\ \A q \in Procs : q # p => pc'[q] = pc[q] /\ job'[q] = job[q]
BY NoJobType DEF End, Goto, TypeOK, Labels

\* What a command at its worktree knows of it.
LEMMA AtWorktree ==
    ASSUME LInv, NEW p \in Procs, pc[p] \in Making
    PROVE  /\ Name(p) \in Names /\ Path(p) \in Paths
           /\ tree[Path(p)] \in Worktrees /\ tree[Path(p)] # Absent
           /\ tree[Path(p)].lane = Name(p) /\ maker[Path(p)] = p
           /\ ~Registered(Name(p)) /\ Name(p) \in branch
           /\ \A n \in Names : Registered(n) => registry[n].path # Path(p)
           /\ \A q \in Procs \ {p} : pc[q] \in Making => Path(q) # Path(p)
           /\ \A q \in Procs \ {p} : pc[q] \in {"record", "publish", "work"} => Path(q) # Path(p)
<1>1. /\ Name(p) \in Names /\ Path(p) \in Paths
      /\ tree[Path(p)] # Absent
      /\ tree[Path(p)].lane = Name(p) /\ maker[Path(p)] = p
      /\ ~Registered(Name(p)) /\ Name(p) \in branch
  BY DEF LInv, OwnerInv, Making, Labels
<1>2. tree[Path(p)] \in Worktrees
  BY <1>1 DEF LInv, TypeOK
<1>3. \A n \in Names : Registered(n) => registry[n].path # Path(p)
  BY <1>1 DEF LInv, CompleteInv
<1>4. \A q \in Procs \ {p} : pc[q] \in Making => Path(q) # Path(p)
  BY <1>1 DEF LInv, OwnerInv
<1>5. \A q \in Procs \ {p} : pc[q] \in {"record", "publish", "work"} => Path(q) # Path(p)
  BY <1>1, <1>3 DEF LInv, OwnerInv, CompleteInv
<1> QED BY <1>1, <1>2, <1>3, <1>4, <1>5

-----------------------------------------------------------------------------
(* Steps that build a lane.                                                *)

\* A step of the try block touches nothing but its own worktree.
LEMMA BuildKeeps ==
    ASSUME LInv, NEW p \in Procs, pc[p] \in {"resolve", "copy", "local"},
           pc' \in [Procs -> Labels], job' \in [Procs -> Jobs],
           pc'[p] \in Making, job'[p].name = job[p].name, job'[p].path = job[p].path,
           \A q \in Procs : q # p => pc'[q] = pc[q] /\ job'[q] = job[q],
           tree' \in [Paths -> Worktrees \cup {Absent}],
           \A d \in Paths : d # Path(p) => tree'[d] = tree[d],
           tree'[Path(p)] # Absent, tree'[Path(p)].lane = Name(p),
           pc'[p] = "copy" =>
             \A s \in Skills \ job'[p].left : tree'[Path(p)].skills[s] = job'[p].hash[s],
           pc'[p] \in {"local", "register"} => tree'[Path(p)].lock = tree'[Path(p)].skills,
           pc'[p] = "register" => tree'[Path(p)].record = FirstRecord(p),
           UNCHANGED <<branch, registry, source, runs, history>>
    PROVE  LInv'
<1> USE DEF Name, Path, Registered
<1>1. TypeOK /\ OwnerInv /\ BuiltInv /\ CompleteInv /\ RecordInv /\ NothingLeft
  BY DEF LInv
<1>2. pc[p] \in Making
  BY DEF Making
<1>3. /\ Name(p) \in Names /\ Path(p) \in Paths
      /\ ~Registered(Name(p)) /\ maker[Path(p)] = p /\ Name(p) \in branch
      /\ \A n \in Names : Registered(n) => registry[n].path # Path(p)
      /\ \A q \in Procs \ {p} : pc[q] \in Making => Path(q) # Path(p)
      /\ \A q \in Procs \ {p} : pc[q] \in {"record", "publish", "work"} => Path(q) # Path(p)
  BY <1>2, AtWorktree
<1>4. TypeOK'
  BY <1>1 DEF TypeOK, history
<1>5. OwnerInv'
  <2> SUFFICES ASSUME NEW q \in Procs
               PROVE  /\ pc'[q] # "idle" => job'[q].name \in Names /\ job'[q].path \in Paths
                      /\ pc'[q] \in Making \cup {"delete"} =>
                           /\ job'[q].name \in branch /\ ~Registered(job'[q].name)
                           /\ \A r \in Procs \ {q} :
                                pc'[r] \in Making \cup {"delete"} => job'[r].name # job'[q].name
                      /\ pc'[q] \in Making =>
                           /\ maker[job'[q].path] = q
                           /\ tree'[job'[q].path] # Absent /\ tree'[job'[q].path].lane = job'[q].name
      BY DEF OwnerInv, history
  <2>1. \A r \in Procs : pc'[r] \in Making \cup {"delete"} <=> pc[r] \in Making \cup {"delete"}
    BY <1>2
  <2>2. \A r \in Procs : job'[r].name = job[r].name /\ job'[r].path = job[r].path
    OBVIOUS
  <2>3. CASE q = p
    BY <1>1, <1>2, <1>3, <2>1, <2>2, <2>3 DEF OwnerInv
  <2>4. CASE q # p
    BY <1>1, <1>3, <2>1, <2>2, <2>4 DEF OwnerInv, Making
  <2> QED BY <2>3, <2>4
<1>6. BuiltInv'
  <2> SUFFICES ASSUME NEW q \in Procs
               PROVE  /\ pc'[q] = "copy" =>
                           \A s \in Skills \ job'[q].left : tree'[job'[q].path].skills[s] = job'[q].hash[s]
                      /\ pc'[q] \in {"local", "register"} =>
                           tree'[job'[q].path].lock = tree'[job'[q].path].skills
                      /\ pc'[q] = "register" => tree'[job'[q].path].record = FirstRecord(q)'
      BY DEF BuiltInv
  <2>1. FirstRecord(q)' = FirstRecord(q)
    BY DEF FirstRecord
  <2>2. CASE q = p
    BY <2>1, <2>2
  <2>3. CASE q # p /\ pc[q] \in Making
    BY <1>1, <1>3, <2>1, <2>3 DEF BuiltInv, OwnerInv
  <2>4. CASE q # p /\ pc[q] \notin Making
    BY <2>4 DEF Making
  <2> QED BY <2>2, <2>3, <2>4
<1>7. CompleteInv'
  <2>1. \A n \in Names : Registered(n) => tree'[registry[n].path] = tree[registry[n].path]
    BY <1>1, <1>3 DEF TypeOK, Records
  <2>2. \A q \in Procs : pc'[q] \in {"record", "publish", "work"} => q # p
    BY DEF Making
  <2> QED BY <1>1, <2>1, <2>2 DEF CompleteInv, history
<1>8. RecordInv'
  <2>1. \A n \in Names : Registered(n) => tree'[registry[n].path] = tree[registry[n].path]
    BY <1>1, <1>3 DEF TypeOK, Records
  <2>2. \A n \in Names : Recording(n)' = Recording(n)
    BY DEF Recording, Making
  <2>3. \A n \in Names : \A q \in Recording(n) : q \in Procs /\ q # p
    BY DEF Recording
  <2> QED BY <1>1, <2>1, <2>2, <2>3 DEF RecordInv, history
<1>9. NothingLeft'
  <2>1. \A d \in Paths : tree'[d].lane = tree[d].lane
    BY <1>1, <1>2 DEF OwnerInv
  <2>2. \A q \in Procs : pc[q] \in Making => pc'[q] \in Making
    OBVIOUS
  <2>3. \A q \in Procs : pc[q] \in Making \cup {"delete"} => pc'[q] \in Making \cup {"delete"}
    OBVIOUS
  <2> QED BY <1>1, <2>1, <2>2, <2>3 DEF NothingLeft, history
<1> QED BY <1>4, <1>5, <1>6, <1>7, <1>8, <1>9 DEF LInv

LEMMA ResolveSkillsKeeps ==
    ASSUME LInv, NEW p \in Procs, ResolveSkills(p)
    PROVE  LInv'
<1> USE DEF ResolveSkills, At, Goto, Undo
<1>1. pc[p] \in Making /\ TypeOK /\ source \in [Skills -> Versions]
  BY DEF Making, LInv, TypeOK
<1>2. /\ Path(p) \in Paths
      /\ tree[Path(p)] # Absent /\ tree[Path(p)].lane = Name(p)
  BY <1>1, AtWorktree
<1>3. pc' \in [Procs -> Labels] /\ pc'[p] \in {"copy", "remove"} /\ \A q \in Procs : q # p => pc'[q] = pc[q]
  BY <1>1 DEF TypeOK, Labels
<1>4. job' \in [Procs -> Jobs] /\ job'[p].name = job[p].name /\ job'[p].path = job[p].path
      /\ \A q \in Procs : q # p => job'[q] = job[q]
  BY <1>1 DEF TypeOK, Jobs
<1>5. pc'[p] = "copy" => job'[p].left = Skills
  BY <1>1 DEF TypeOK, Jobs
<1> QED BY <1>1, <1>2, <1>3, <1>4, <1>5, BuildKeeps DEF Making, TypeOK

LEMMA CopySkillKeeps ==
    ASSUME LInv, NEW p \in Procs, NEW s \in Skills, CopySkill(p, s)
    PROVE  LInv'
<1> DEFINE present == tree[Path(p)].skills[s]
           copied  == IF present = None THEN source[s] ELSE present
<1>1. TypeOK /\ pc[p] = "copy" /\ pc[p] \in Making /\ s \in job[p].left
      /\ UNCHANGED <<branch, registry, source, runs, history>>
  BY DEF CopySkill, At, Making, LInv
<1>2. /\ Path(p) \in Paths /\ tree[Path(p)] \in Worktrees
      /\ tree[Path(p)] # Absent /\ tree[Path(p)].lane = Name(p)
  BY <1>1, AtWorktree
<1>3. CASE copied # job[p].hash[s]
  <2>1. pc' = [pc EXCEPT ![p] = "remove"] /\ UNCHANGED <<tree, job>>
    BY <1>3 DEF CopySkill, Undo, Goto
  <2>2. pc' \in [Procs -> Labels] /\ pc'[p] = "remove" /\ \A q \in Procs : q # p => pc'[q] = pc[q]
    BY <1>1, <2>1 DEF TypeOK, Labels
  <2> QED BY <1>1, <1>2, <2>1, <2>2, BuildKeeps DEF Making, TypeOK
<1>4. CASE copied = job[p].hash[s]
  <2>1. /\ tree' = [tree EXCEPT ![Path(p)].skills[s] = copied]
        /\ job' = [job EXCEPT ![p].left = job[p].left \ {s}]
        /\ pc' = pc
    BY <1>4 DEF CopySkill
  <2>2. job[p] \in Jobs /\ copied \in Versions
    BY <1>1, <1>4 DEF TypeOK, Jobs
  <2> HIDE DEF copied
  <2>3. job' \in [Procs -> Jobs] /\ job'[p] = [job[p] EXCEPT !.left = job[p].left \ {s}]
        /\ \A q \in Procs : q # p => job'[q] = job[q]
    BY <1>1, <2>1, <2>2 DEF TypeOK, Jobs
  <2>4. job'[p].name = job[p].name /\ job'[p].path = job[p].path /\ job'[p].hash = job[p].hash
        /\ job'[p].left = job[p].left \ {s}
    BY <2>2, <2>3 DEF Jobs
  <2>5. tree'[Path(p)] = [tree[Path(p)] EXCEPT !.skills[s] = copied]
        /\ \A d \in Paths : d # Path(p) => tree'[d] = tree[d]
    BY <1>1, <1>2, <2>1 DEF TypeOK
  <2>6. tree'[Path(p)] \in Worktrees /\ tree'[Path(p)].lane = Name(p)
        /\ tree'[Path(p)].skills = [tree[Path(p)].skills EXCEPT ![s] = copied]
        /\ tree[Path(p)].skills \in [Skills -> Versions \cup {None}]
    BY <1>2, <2>2, <2>5 DEF Worktrees
  <2>7. tree'[Path(p)] # Absent
    BY <2>6 DEF Absent, Worktrees
  <2>8. tree' \in [Paths -> Worktrees \cup {Absent}]
    BY <1>1, <1>2, <2>1, <2>5, <2>6 DEF TypeOK
  <2>9. \A t \in Skills \ job'[p].left : tree'[Path(p)].skills[t] = job'[p].hash[t]
    <3> SUFFICES ASSUME NEW t \in Skills \ job'[p].left
                 PROVE  tree'[Path(p)].skills[t] = job'[p].hash[t]
        OBVIOUS
    <3>1. CASE t = s
      BY <1>4, <2>4, <2>6, <3>1
    <3>2. CASE t # s
      <4>1. tree[Path(p)].skills[t] = job[p].hash[t]
        BY <1>1, <2>4, <3>2 DEF LInv, BuiltInv
      <4> QED BY <2>4, <2>6, <3>2, <4>1
    <3> QED BY <3>1, <3>2
  <2>10. pc' \in [Procs -> Labels] /\ pc'[p] = "copy"
    BY <1>1, <2>1 DEF TypeOK
  <2> QED BY <1>1, <2>1, <2>3, <2>4, <2>5, <2>6, <2>7, <2>8, <2>9, <2>10, BuildKeeps DEF Making
<1> QED BY <1>3, <1>4

LEMMA WriteLockKeeps ==
    ASSUME LInv, NEW p \in Procs, WriteLock(p)
    PROVE  LInv'
<1>1. TypeOK /\ pc[p] = "copy" /\ pc[p] \in Making /\ job[p].left = {}
      /\ tree' = [tree EXCEPT ![Path(p)].lock = job[p].hash]
      /\ pc' = [pc EXCEPT ![p] = "local"]
      /\ UNCHANGED <<branch, registry, source, job, runs, history>>
  BY DEF WriteLock, At, Goto, Making, LInv
<1>2. /\ Path(p) \in Paths /\ tree[Path(p)] \in Worktrees
      /\ tree[Path(p)] # Absent /\ tree[Path(p)].lane = Name(p)
  BY <1>1, AtWorktree
<1>3. pc' \in [Procs -> Labels] /\ pc'[p] = "local" /\ \A q \in Procs : q # p => pc'[q] = pc[q]
  BY <1>1 DEF TypeOK, Labels
<1>4. job[p].hash \in [Skills -> Versions]
  BY <1>1 DEF TypeOK, Jobs
<1>5. tree'[Path(p)] = [tree[Path(p)] EXCEPT !.lock = job[p].hash]
      /\ \A d \in Paths : d # Path(p) => tree'[d] = tree[d]
  BY <1>1, <1>2 DEF TypeOK
<1>6. tree'[Path(p)] \in Worktrees /\ tree'[Path(p)].lane = Name(p)
      /\ tree'[Path(p)].lock = job[p].hash
      /\ tree'[Path(p)].skills = tree[Path(p)].skills
      /\ tree[Path(p)].skills \in [Skills -> Versions \cup {None}]
  BY <1>2, <1>4, <1>5 DEF Worktrees
<1>7. tree'[Path(p)] # Absent
  BY <1>6 DEF Absent, Worktrees
<1>8. tree' \in [Paths -> Worktrees \cup {Absent}]
  BY <1>1, <1>2, <1>5, <1>6 DEF TypeOK
<1>9. job[p].hash = tree[Path(p)].skills
  <2>1. \A s \in Skills : tree[Path(p)].skills[s] = job[p].hash[s]
    BY <1>1 DEF LInv, BuiltInv
  <2> QED BY <1>4, <1>6, <2>1
<1> QED BY <1>1, <1>3, <1>5, <1>6, <1>7, <1>8, <1>9, BuildKeeps DEF Making, TypeOK

LEMMA WriteLocalKeeps ==
    ASSUME LInv, NEW p \in Procs, WriteLocal(p)
    PROVE  LInv'
<1>1. TypeOK /\ pc[p] = "local" /\ pc[p] \in Making
      /\ UNCHANGED <<branch, registry, source, job, runs, history>>
  BY DEF WriteLocal, At, Making, LInv
<1>2. /\ Path(p) \in Paths /\ tree[Path(p)] \in Worktrees
      /\ tree[Path(p)] # Absent /\ tree[Path(p)].lane = Name(p)
  BY <1>1, AtWorktree
<1>3. tree[Path(p)].lock = tree[Path(p)].skills
  BY <1>1 DEF LInv, BuiltInv
<1>4. CASE pc' = [pc EXCEPT ![p] = "remove"] /\ UNCHANGED tree
  <2>1. pc' \in [Procs -> Labels] /\ pc'[p] = "remove" /\ \A q \in Procs : q # p => pc'[q] = pc[q]
    BY <1>1, <1>4 DEF TypeOK, Labels
  <2> QED BY <1>1, <1>2, <1>4, <2>1, BuildKeeps DEF Making, TypeOK
<1>5. CASE pc' = [pc EXCEPT ![p] = "register"] /\ tree' = [tree EXCEPT ![Path(p)].record = FirstRecord(p)]
  <2>1. pc' \in [Procs -> Labels] /\ pc'[p] = "register" /\ \A q \in Procs : q # p => pc'[q] = pc[q]
    BY <1>1, <1>5 DEF TypeOK, Labels
  <2>2. FirstRecord(p) \in Records
    BY <1>2 DEF FirstRecord, Records
  <2>3. tree'[Path(p)] = [tree[Path(p)] EXCEPT !.record = FirstRecord(p)]
        /\ \A d \in Paths : d # Path(p) => tree'[d] = tree[d]
    BY <1>1, <1>2, <1>5 DEF TypeOK
  <2>4. tree'[Path(p)] \in Worktrees /\ tree'[Path(p)].lane = Name(p)
        /\ tree'[Path(p)].record = FirstRecord(p)
        /\ tree'[Path(p)].lock = tree'[Path(p)].skills
    BY <1>2, <1>3, <2>2, <2>3 DEF Worktrees
  <2>5. tree'[Path(p)] # Absent
    BY <2>4 DEF Absent, Worktrees
  <2>6. tree' \in [Paths -> Worktrees \cup {Absent}]
    BY <1>1, <1>2, <1>5, <2>3, <2>4 DEF TypeOK
  <2> QED BY <1>1, <2>1, <2>3, <2>4, <2>5, <2>6, BuildKeeps DEF Making, TypeOK
<1> QED BY <1>4, <1>5 DEF WriteLocal, Goto, Undo


-----------------------------------------------------------------------------
(* Steps that end a command.                                               *)

\* A torn lane.json is all that changes of a worktree.
LEMMA TornTree ==
    ASSUME TypeOK, NEW d \in Paths, tree[d] # Absent,
           tree' = [tree EXCEPT ![d].record.state = "torn"]
    PROVE  /\ tree' \in [Paths -> Worktrees \cup {Absent}]
           /\ \A e \in Paths : e # d => tree'[e] = tree[e]
           /\ \A e \in Paths : /\ tree'[e] = Absent <=> tree[e] = Absent
                               /\ tree'[e].lane = tree[e].lane
                               /\ tree'[e].lock = tree[e].lock
                               /\ tree'[e].skills = tree[e].skills
<1>1. tree[d] \in Worktrees
  BY DEF TypeOK
<1>2. tree'[d] = [tree[d] EXCEPT !.record.state = "torn"] /\ \A e \in Paths : e # d => tree'[e] = tree[e]
  BY DEF TypeOK
<1>3. tree'[d] \in Worktrees /\ tree'[d].lane = tree[d].lane /\ tree'[d].lock = tree[d].lock
      /\ tree'[d].skills = tree[d].skills
  BY <1>1, <1>2 DEF Worktrees, Records
<1>4. tree'[d] # Absent
  BY <1>3 DEF Absent, Worktrees
<1>5. tree' \in [Paths -> Worktrees \cup {Absent}]
  BY <1>2, <1>3 DEF TypeOK
<1> QED BY <1>2, <1>3, <1>4, <1>5

LEMMA TornRegistry ==
    ASSUME TypeOK, NEW n \in Names, registry' = [registry EXCEPT ![n].state = "torn"]
    PROVE  /\ registry' \in [Names -> Records]
           /\ \A m \in Names : m # n => registry'[m] = registry[m]
           /\ \A m \in Names : /\ registry'[m].path = registry[m].path
                               /\ registry'[m].state = "whole" => registry[m].state = "whole"
BY DEF TypeOK, Records

LEMMA EndKeeps ==
    ASSUME LInv, NEW p \in Procs, pc[p] # "idle", End(p),
           branch \subseteq branch', branch' \subseteq branch \cup stranded', branch' \subseteq Names,
           tree' \in [Paths -> Worktrees \cup {Absent}],
           \A d \in Paths : pc[p] \notin {"local", "record"} \/ d # Path(p) => tree'[d] = tree[d],
           \A d \in Paths : /\ tree'[d] = Absent <=> tree[d] = Absent
                            /\ tree'[d].lane = tree[d].lane
                            /\ tree'[d].lock = tree[d].lock
                            /\ tree'[d].skills = tree[d].skills,
           registry' \in [Names -> Records],
           \A n \in Names : pc[p] \notin {"register", "publish"} \/ n # Name(p) => registry'[n] = registry[n],
           \A n \in Names : /\ registry'[n].path = registry[n].path
                            /\ registry'[n].state = "whole" => registry[n].state = "whole",
           stranded \subseteq stranded', stranded' \subseteq Names,
           pc[p] \in Making \cup {"delete"} => Name(p) \in stranded',
           split \subseteq split', split' \subseteq Names,
           pc[p] \in {"record", "publish"} => Name(p) \in split',
           UNCHANGED <<source, runs, maker>>
    PROVE  LInv'
<1>1. TypeOK /\ OwnerInv /\ BuiltInv /\ CompleteInv /\ RecordInv /\ NothingLeft
  BY DEF LInv
<1>2. /\ pc' \in [Procs -> Labels] /\ job' \in [Procs -> Jobs]
      /\ pc'[p] = "idle" /\ job'[p] = NoJob
      /\ \A q \in Procs : q # p => pc'[q] = pc[q] /\ job'[q] = job[q]
  BY <1>1, Ended
<1>3. /\ \A q \in Procs : pc'[q] # "idle" => q # p
      /\ \A q \in Procs : q # p => Name(q)' = Name(q) /\ Path(q)' = Path(q)
      /\ \A n \in Names : Registered(n)' <=> Registered(n)
  BY <1>2 DEF Name, Path, Registered
<1>4. Name(p) \in Names /\ Path(p) \in Paths
  BY <1>1 DEF OwnerInv
<1>5. TypeOK'
  BY <1>1, <1>2 DEF TypeOK
<1>6. OwnerInv'
  <2> SUFFICES ASSUME NEW q \in Procs, pc'[q] # "idle"
               PROVE  /\ Name(q)' \in Names /\ Path(q)' \in Paths
                      /\ pc'[q] \in Making \cup {"delete"} =>
                           /\ Name(q)' \in branch' /\ ~Registered(Name(q))'
                           /\ \A r \in Procs \ {q} :
                                pc'[r] \in Making \cup {"delete"} => Name(r)' # Name(q)'
                      /\ pc'[q] \in Making =>
                           /\ maker'[Path(q)'] = q
                           /\ tree'[Path(q)'] # Absent /\ tree'[Path(q)'].lane = Name(q)'
      BY DEF OwnerInv, Making, Absent, Registered, Name, Path
  <2>1. q # p /\ pc'[q] = pc[q] /\ Name(q)' = Name(q) /\ Path(q)' = Path(q)
    BY <1>2, <1>3
  <2>2. Name(q) \in Names /\ Path(q) \in Paths
    BY <1>1, <2>1 DEF OwnerInv
  <2>3. pc[q] \in Making \cup {"delete"} => Name(q) \in branch' /\ ~Registered(Name(q))'
    BY <1>1, <1>3, <2>1, <2>2 DEF OwnerInv
  <2>4. ASSUME pc[q] \in Making \cup {"delete"}, NEW r \in Procs \ {q}, pc'[r] \in Making \cup {"delete"}
        PROVE  Name(r)' # Name(q)'
    <3>1. r # p /\ pc[r] \in Making \cup {"delete"} /\ Name(r)' = Name(r)
      BY <1>2, <1>3, <2>4 DEF Making
    <3> QED BY <1>1, <2>1, <2>4, <3>1 DEF OwnerInv
  <2>5. pc[q] \in Making => maker[Path(q)] = q /\ tree'[Path(q)] # Absent /\ tree'[Path(q)].lane = Name(q)
    BY <1>1, <2>2 DEF OwnerInv
  <2> QED BY <2>1, <2>2, <2>3, <2>4, <2>5 DEF Registered
<1>7. BuiltInv'
  <2>0. \A q \in Procs : pc'[q] \in {"copy", "local", "register"} =>
          q # p /\ pc'[q] = pc[q] /\ job'[q] = job[q] /\ Path(q)' = Path(q) /\ FirstRecord(q)' = FirstRecord(q)
    BY <1>2, <1>3 DEF FirstRecord
  <2> SUFFICES ASSUME NEW q \in Procs, q # p, pc[q] \in {"copy", "local", "register"}
               PROVE  /\ pc[q] = "copy" =>
                           \A s \in Skills \ job[q].left : tree'[Path(q)].skills[s] = job[q].hash[s]
                      /\ pc[q] \in {"local", "register"} => tree'[Path(q)].lock = tree'[Path(q)].skills
                      /\ pc[q] = "register" => tree'[Path(q)].record = FirstRecord(q)
    BY <2>0 DEF BuiltInv
  <2>1. pc[q] \in Making /\ Path(q) \in Paths
    BY <1>1 DEF Making, OwnerInv
  <2>2. pc[p] \in {"local", "record"} => Path(q) # Path(p)
    BY <1>1, <2>1, AtWorktree DEF Making
  <2> QED BY <1>1, <2>1, <2>2 DEF BuiltInv
<1>8. CompleteInv'
  <2>1. \A n \in Names : Registered(n) => registry[n].path \in Paths
    BY <1>1 DEF TypeOK, Records, Registered
  <2>2. \A n \in Names : registry'[n].state = "whole" => Registered(n)'
    BY <1>1, <1>3 DEF CompleteInv
  <2>3. \A n \in Names : Registered(n)' =>
         /\ n \in branch'
         /\ tree'[registry'[n].path] # Absent
         /\ tree'[registry'[n].path].lane = n
         /\ tree'[registry'[n].path].lock = tree'[registry'[n].path].skills
    BY <1>1, <1>3, <2>1 DEF CompleteInv
  <2>4. ASSUME NEW q \in Procs, pc'[q] \in {"record", "publish", "work"}
        PROVE  Registered(Name(q))' /\ registry'[Name(q)'].path = Path(q)'
    <3>1. q # p /\ pc[q] = pc'[q] /\ Name(q)' = Name(q) /\ Path(q)' = Path(q) /\ Name(q) \in Names
      BY <1>1, <1>2, <1>3, <2>4 DEF OwnerInv
    <3>2. Registered(Name(q)) /\ registry[Name(q)].path = Path(q)
      BY <1>1, <2>4, <3>1 DEF CompleteInv
    <3> QED BY <3>1, <3>2 DEF Registered
  <2> QED BY <2>2, <2>3, <2>4 DEF CompleteInv, Absent, Registered, Name, Path
<1>9. RecordInv'
  <2> SUFFICES ASSUME NEW n \in Names \ split', Registered(n)
               PROVE  /\ registry'[n].state = "whole"
                      /\ \A q, r \in Recording(n)' : q = r
                      /\ (\A q \in Recording(n)' : pc'[q] = "record") =>
                           tree'[registry'[n].path].record = registry'[n]
                      /\ \A q \in Recording(n)' : pc'[q] = "publish" =>
                           tree'[registry'[n].path].record = [registry'[n] EXCEPT !.run = job'[q].run]
    BY <1>3 DEF RecordInv, Recording
  <2>1. n \in Names \ split
    OBVIOUS
  <2>2. p \notin Recording(n)
    BY DEF Recording
  <2>3. Recording(n)' = Recording(n)
    BY <1>2, <2>2 DEF Recording, Name
  <2>4. \A q \in Recording(n) : q \in Procs /\ q # p /\ pc'[q] = pc[q] /\ job'[q] = job[q]
    BY <1>2, <2>2 DEF Recording
  <2>5. registry'[n] = registry[n]
    <3>1. CASE pc[p] = "register"
      BY <1>1, <3>1 DEF OwnerInv, Making
    <3>2. CASE pc[p] = "publish"
      BY <3>2
    <3> QED BY <3>1, <3>2
  <2>6. tree'[registry[n].path] = tree[registry[n].path]
    <3>1. registry[n].path \in Paths /\ tree[registry[n].path].lane = n
      BY <1>1 DEF CompleteInv, TypeOK, Records, Registered
    <3>2. CASE pc[p] = "local"
      <4>1. pc[p] \in Making
        BY <3>2 DEF Making
      <4> QED BY <3>1, <4>1, AtWorktree
    <3>3. CASE pc[p] = "record"
      <4>1. Registered(Name(p)) /\ registry[Name(p)].path = Path(p)
        BY <1>1, <3>3 DEF CompleteInv
      <4>2. tree[Path(p)].lane = Name(p)
        BY <1>1, <1>4, <4>1 DEF CompleteInv
      <4> QED BY <3>1, <3>3, <4>2
    <3> QED BY <3>1, <3>2, <3>3
  <2>7. /\ registry[n].state = "whole"
        /\ \A q, r \in Recording(n) : q = r
        /\ (\A q \in Recording(n) : pc[q] = "record") => tree[registry[n].path].record = registry[n]
        /\ \A q \in Recording(n) : pc[q] = "publish" =>
             tree[registry[n].path].record = [registry[n] EXCEPT !.run = job[q].run]
    BY <1>1, <2>1 DEF RecordInv
  <2>8. (\A q \in Recording(n)' : pc'[q] = "record") => \A q \in Recording(n) : pc[q] = "record"
    BY <2>3, <2>4
  <2> QED BY <2>3, <2>4, <2>5, <2>6, <2>7, <2>8
<1>10. NothingLeft'
  <2> SUFFICES ASSUME NEW n \in Names \ stranded'
               PROVE  /\ n \in branch' =>
                           Registered(n)' \/ \E q \in Procs : Name(q)' = n /\ pc'[q] \in Making \cup {"delete"}
                      /\ \A d \in Paths : tree'[d].lane = n =>
                           registry'[n].path = d
                           \/ \E q \in Procs : Name(q)' = n /\ Path(q)' = d /\ pc'[q] \in Making
    BY DEF NothingLeft, Registered, Name, Path
  <2>1. n \in Names \ stranded /\ (n \in branch' => n \in branch)
    OBVIOUS
  <2>2. \A q \in Procs : Name(q) = n /\ pc[q] \in Making \cup {"delete"} => q # p
    BY <2>1
  <2>3. n \in branch => Registered(n) \/ \E q \in Procs : Name(q) = n /\ pc[q] \in Making \cup {"delete"}
    BY <1>1, <2>1 DEF NothingLeft
  <2>4. \A d \in Paths : tree[d].lane = n =>
          registry[n].path = d \/ \E q \in Procs : Name(q) = n /\ Path(q) = d /\ pc[q] \in Making
    BY <1>1, <2>1 DEF NothingLeft
  <2> QED BY <1>2, <1>3, <2>1, <2>2, <2>3, <2>4
<1> QED BY <1>5, <1>6, <1>7, <1>8, <1>9, <1>10 DEF LInv

LEMMA DeleteBranchKeeps ==
    ASSUME LInv, NEW p \in Procs, DeleteBranch(p)
    PROVE  LInv'
<1>1. TypeOK /\ OwnerInv /\ BuiltInv /\ CompleteInv /\ RecordInv /\ NothingLeft /\ pc[p] = "delete" /\ End(p)
  BY DEF LInv, DeleteBranch, At
<1>2. /\ pc' \in [Procs -> Labels] /\ job' \in [Procs -> Jobs]
      /\ pc'[p] = "idle" /\ job'[p] = NoJob
      /\ \A q \in Procs : q # p => pc'[q] = pc[q] /\ job'[q] = job[q]
  BY <1>1, Ended
<1>3. Name(p) \in Names /\ Path(p) \in Paths /\ ~Registered(Name(p))
      /\ \A q \in Procs \ {p} : pc[q] \in Making \cup {"delete"} => Name(q) # Name(p)
  BY <1>1 DEF OwnerInv
<1>4. CASE stranded' = stranded \cup {Name(p)} /\ UNCHANGED branch
  <2> QED BY <1>1, <1>3, <1>4, EndKeeps DEF DeleteBranch, TypeOK
<1>5. CASE branch' = branch \ {Name(p)} /\ UNCHANGED stranded
  <2>1. UNCHANGED <<tree, registry, source, runs, maker, split, stranded>>
    BY <1>5 DEF DeleteBranch
  <2>2. \A q \in Procs : pc'[q] # "idle" =>
          q # p /\ pc'[q] = pc[q] /\ Name(q)' = Name(q) /\ Path(q)' = Path(q) /\ job'[q] = job[q]
    BY <1>2 DEF Name, Path
  <2>3. TypeOK'
    BY <1>1, <1>2, <1>5, <2>1 DEF TypeOK
  <2>4. OwnerInv'
    <3> SUFFICES ASSUME NEW q \in Procs, q # p, pc[q] # "idle"
                 PROVE  /\ Name(q) \in Names /\ Path(q) \in Paths
                        /\ pc[q] \in Making \cup {"delete"} =>
                             /\ Name(q) \in branch' /\ ~Registered(Name(q))
                             /\ \A r \in Procs \ {q, p} :
                                  pc[r] \in Making \cup {"delete"} => Name(r) # Name(q)
                        /\ pc[q] \in Making =>
                             /\ maker[Path(q)] = q
                             /\ tree[Path(q)] # Absent /\ tree[Path(q)].lane = Name(q)
      BY <2>1, <2>2 DEF OwnerInv, Registered, Making
    <3> QED BY <1>1, <1>3, <1>5 DEF OwnerInv
  <2>5. BuiltInv'
    BY <1>1, <2>1, <2>2 DEF BuiltInv, FirstRecord
  <2>6. CompleteInv'
    BY <1>1, <1>3, <1>5, <2>1, <2>2 DEF CompleteInv, Registered
  <2>7. RecordInv'
    <3>1. \A n \in Names : Recording(n)' = Recording(n)
      BY <1>1, <1>2, <2>2 DEF Recording, Name
    <3>2. \A n \in Names : \A q \in Recording(n) : q \in Procs /\ pc'[q] = pc[q] /\ job'[q] = job[q]
      BY <1>1, <1>2 DEF Recording
    <3> QED BY <1>1, <2>1, <3>1, <3>2 DEF RecordInv, Registered
  <2>8. NothingLeft'
    <3>1. \A q \in Procs : q # p => pc'[q] = pc[q] /\ Name(q)' = Name(q) /\ Path(q)' = Path(q)
      BY <1>2 DEF Name, Path
    <3>2. pc[p] \notin Making
      BY <1>1 DEF Making
    <3>3. \A n \in Names : Registered(n)' = Registered(n)
      BY <2>1 DEF Registered
    <3> QED BY <1>1, <1>5, <2>1, <3>1, <3>2, <3>3 DEF NothingLeft
  <2> QED BY <2>3, <2>4, <2>5, <2>6, <2>7, <2>8 DEF LInv
<1> QED BY <1>4, <1>5 DEF DeleteBranch

LEMMA RunnerEndsKeeps ==
    ASSUME LInv, NEW p \in Procs, RunnerEnds(p)
    PROVE  LInv'
BY EndKeeps DEF RunnerEnds, At, LInv, TypeOK, Making, history

LEMMA CrashKeeps ==
    ASSUME LInv, NEW p \in Procs, Crash(p)
    PROVE  LInv'
<1>1. TypeOK /\ OwnerInv /\ CompleteInv /\ pc[p] # "idle" /\ End(p) /\ UNCHANGED <<branch, source, runs, maker>>
  BY DEF LInv, Crash, At
<1>2. Name(p) \in Names /\ Path(p) \in Paths
  BY <1>1 DEF OwnerInv
<1>3. /\ pc[p] \in Making \cup {"delete"} => Name(p) \in stranded'
      /\ pc[p] \in {"record", "publish"} => Name(p) \in split'
      /\ stranded \subseteq stranded' /\ split \subseteq split'
      /\ stranded' \subseteq Names /\ split' \subseteq Names
  BY <1>1, <1>2 DEF Crash, TypeOK
<1>4. branch \subseteq branch' /\ branch' \subseteq branch \cup stranded' /\ branch' \subseteq Names
  BY <1>1 DEF TypeOK
<1>5. CASE UNCHANGED <<tree, registry>>
  BY <1>1, <1>3, <1>4, <1>5, EndKeeps DEF TypeOK
<1>6. CASE /\ pc[p] \in {"local", "record"}
           /\ tree' = [tree EXCEPT ![Path(p)].record.state = "torn"]
           /\ UNCHANGED registry
  <2>1. tree[Path(p)] # Absent
    BY <1>1, <1>2, <1>6 DEF OwnerInv, CompleteInv, Making
  <2>2. /\ tree' \in [Paths -> Worktrees \cup {Absent}]
        /\ \A e \in Paths : e # Path(p) => tree'[e] = tree[e]
        /\ \A e \in Paths : /\ tree'[e] = Absent <=> tree[e] = Absent
                            /\ tree'[e].lane = tree[e].lane
                            /\ tree'[e].lock = tree[e].lock
                            /\ tree'[e].skills = tree[e].skills
    BY <1>1, <1>2, <1>6, <2>1, TornTree
  <2>3. registry' \in [Names -> Records]
    BY <1>1, <1>6 DEF TypeOK
  <2> QED BY <1>1, <1>3, <1>4, <1>6, <2>2, <2>3, EndKeeps
<1>7. CASE /\ pc[p] \in {"register", "publish"}
           /\ registry' = [registry EXCEPT ![Name(p)].state = "torn"]
           /\ UNCHANGED tree
  <2>1. /\ registry' \in [Names -> Records]
        /\ \A m \in Names : m # Name(p) => registry'[m] = registry[m]
        /\ \A m \in Names : /\ registry'[m].path = registry[m].path
                            /\ registry'[m].state = "whole" => registry[m].state = "whole"
    BY <1>1, <1>2, <1>7, TornRegistry
  <2>2. tree' \in [Paths -> Worktrees \cup {Absent}]
    BY <1>1, <1>7 DEF TypeOK
  <2> QED BY <1>1, <1>3, <1>4, <1>7, <2>1, <2>2, EndKeeps
<1> QED BY <1>5, <1>6, <1>7 DEF Crash

-----------------------------------------------------------------------------
(* Steps that add and remove a worktree.                                   *)

LEMMA CreateLaneKeeps ==
    ASSUME LInv, NEW p \in Procs, NEW n \in Names, NEW d \in Paths, CreateLane(p, n, d)
    PROVE  LInv'
<1>1. TypeOK /\ OwnerInv /\ BuiltInv /\ CompleteInv /\ RecordInv /\ NothingLeft /\ pc[p] = "idle"
      /\ UNCHANGED <<branch, tree, registry, source, runs, maker, stranded, split>>
  BY DEF LInv, CreateLane, At, history
<1>2. [NoJob EXCEPT !.name = n, !.path = d] \in Jobs
  BY NoJobType DEF Jobs
<1>3. /\ pc' \in [Procs -> Labels] /\ job' \in [Procs -> Jobs]
      /\ pc'[p] = "add" /\ job'[p].name = n /\ job'[p].path = d
      /\ \A q \in Procs : q # p => pc'[q] = pc[q] /\ job'[q] = job[q]
  BY <1>1, <1>2 DEF CreateLane, Goto, TypeOK, Labels, NoJob
<1>4. \A q \in Procs : q # p => Name(q)' = Name(q) /\ Path(q)' = Path(q)
  BY <1>3 DEF Name, Path
<1>5. TypeOK'
  BY <1>1, <1>3 DEF TypeOK
<1>6. OwnerInv'
  BY <1>1, <1>3, <1>4 DEF OwnerInv, Name, Path, Making, Registered
<1>7. BuiltInv'
  BY <1>1, <1>3, <1>4 DEF BuiltInv, FirstRecord
<1>8. CompleteInv'
  BY <1>1, <1>3, <1>4 DEF CompleteInv, Registered
<1>9. RecordInv'
  <2>1. \A m \in Names : Recording(m)' = Recording(m)
    BY <1>1, <1>3, <1>4 DEF Recording
  <2>2. \A m \in Names : \A q \in Recording(m) : q \in Procs /\ pc'[q] = pc[q] /\ job'[q] = job[q]
    BY <1>1, <1>3 DEF Recording
  <2> QED BY <1>1, <2>1, <2>2 DEF RecordInv, Registered
<1>10. NothingLeft'
  BY <1>1, <1>3, <1>4 DEF NothingLeft, Registered, Making
<1> QED BY <1>5, <1>6, <1>7, <1>8, <1>9, <1>10 DEF LInv

LEMMA CheckoutType ==
    ASSUME NEW n \in Names
    PROVE  Checkout(n) \in Worktrees /\ Checkout(n) # Absent /\ Checkout(n).lane = n
BY DEF Checkout, Worktrees, Absent, NoRecord, Records, Versions

LEMMA AddWorktreeKeeps ==
    ASSUME LInv, NEW p \in Procs, AddWorktree(p)
    PROVE  LInv'
<1>1. TypeOK /\ OwnerInv /\ BuiltInv /\ CompleteInv /\ RecordInv /\ NothingLeft /\ pc[p] = "add"
      /\ pc[p] \notin Making \cup {"delete"}
      /\ UNCHANGED <<registry, source, runs, split>>
  BY DEF LInv, AddWorktree, At, Making
<1>2. Name(p) \in Names /\ Path(p) \in Paths
  BY <1>1 DEF OwnerInv
<1>3. CASE End(p) /\ UNCHANGED <<branch, tree, maker, stranded>>
  BY <1>1, <1>2, <1>3, EndKeeps DEF TypeOK
<1>4. CASE /\ branch' = branch \cup {Name(p)} /\ stranded' = stranded \cup {Name(p)}
           /\ End(p) /\ UNCHANGED <<tree, maker>>
  BY <1>1, <1>2, <1>4, EndKeeps DEF TypeOK
<1>5. CASE /\ Name(p) \notin branch /\ tree[Path(p)] = Absent
           /\ branch' = branch \cup {Name(p)}
           /\ tree' = [tree EXCEPT ![Path(p)] = Checkout(Name(p))]
           /\ maker' = [maker EXCEPT ![Path(p)] = p]
           /\ Goto(p, "resolve")
           /\ UNCHANGED <<job, stranded>>
  <2>1. /\ pc' \in [Procs -> Labels] /\ pc'[p] = "resolve"
        /\ \A q \in Procs : q # p => pc'[q] = pc[q]
    BY <1>1, <1>5, Went DEF Labels
  <2>2. \A q \in Procs : Name(q)' = Name(q) /\ Path(q)' = Path(q)
    BY <1>5 DEF Name, Path
  <2>3. /\ tree' \in [Paths -> Worktrees \cup {Absent}]
        /\ tree'[Path(p)] = Checkout(Name(p))
        /\ \A d \in Paths : d # Path(p) => tree'[d] = tree[d]
        /\ maker' \in [Paths -> Procs \cup {None}] /\ maker'[Path(p)] = p
        /\ \A d \in Paths : d # Path(p) => maker'[d] = maker[d]
    BY <1>1, <1>2, <1>5, CheckoutType DEF TypeOK
  <2>4. /\ ~Registered(Name(p))
        /\ \A n \in Names : Registered(n) => registry[n].path \in Paths /\ registry[n].path # Path(p)
        /\ \A q \in Procs \ {p} : pc[q] \in Making => Path(q) # Path(p)
        /\ \A q \in Procs \ {p} : pc[q] \in Making \cup {"delete"} => Name(q) # Name(p)
    BY <1>1, <1>2, <1>5 DEF CompleteInv, OwnerInv, TypeOK, Records, Registered
  <2>5. TypeOK'
    BY <1>1, <1>2, <1>5, <2>1, <2>3 DEF TypeOK
  <2>6. OwnerInv'
    <3> SUFFICES ASSUME NEW q \in Procs
                 PROVE  /\ pc'[q] # "idle" => Name(q) \in Names /\ Path(q) \in Paths
                        /\ pc'[q] \in Making \cup {"delete"} =>
                             /\ Name(q) \in branch' /\ ~Registered(Name(q))
                             /\ \A r \in Procs \ {q} :
                                  pc'[r] \in Making \cup {"delete"} => Name(r) # Name(q)
                        /\ pc'[q] \in Making =>
                             /\ maker'[Path(q)] = q
                             /\ tree'[Path(q)] # Absent /\ tree'[Path(q)].lane = Name(q)
      BY <1>1, <2>2 DEF OwnerInv, Registered, Absent
    <3>1. CASE q = p
      BY <1>2, <1>5, <2>1, <2>3, <2>4, <3>1, CheckoutType
    <3>2. CASE q # p
      BY <1>1, <1>5, <2>1, <2>3, <2>4, <3>2 DEF OwnerInv, Making
    <3> QED BY <3>1, <3>2
  <2>7. BuiltInv'
    <3> SUFFICES ASSUME NEW q \in Procs, q # p, pc[q] \in {"copy", "local", "register"}
                 PROVE  /\ pc[q] = "copy" =>
                             \A s \in Skills \ job[q].left : tree'[Path(q)].skills[s] = job[q].hash[s]
                        /\ pc[q] \in {"local", "register"} => tree'[Path(q)].lock = tree'[Path(q)].skills
                        /\ pc[q] = "register" => tree'[Path(q)].record = FirstRecord(q)
      BY <1>5, <2>1, <2>2 DEF BuiltInv, FirstRecord
    <3>1. tree'[Path(q)] = tree[Path(q)]
      BY <1>1, <2>3, <2>4 DEF OwnerInv, Making
    <3> QED BY <1>1, <3>1 DEF BuiltInv
  <2>8. CompleteInv'
    <3>1. \A n \in Names : Registered(n) => tree'[registry[n].path] = tree[registry[n].path]
      BY <2>3, <2>4
    <3>2. \A q \in Procs : pc'[q] \in {"record", "publish", "work"} => pc[q] = pc'[q]
      BY <2>1
    <3> QED BY <1>1, <1>5, <2>2, <3>1, <3>2 DEF CompleteInv, Registered, Absent
  <2>9. RecordInv'
    <3>1. \A n \in Names : Recording(n)' = Recording(n)
      BY <1>1, <2>1, <2>2 DEF Recording
    <3>2. \A n \in Names : \A q \in Recording(n) : q \in Procs /\ pc'[q] = pc[q]
      BY <1>1, <2>1 DEF Recording
    <3>3. \A n \in Names : Registered(n) => tree'[registry[n].path] = tree[registry[n].path]
      BY <2>3, <2>4
    <3> QED BY <1>1, <1>5, <3>1, <3>2, <3>3 DEF RecordInv, Registered
  <2>10. NothingLeft'
    <3>1. \A q \in Procs : pc[q] \in Making \cup {"delete"} => pc'[q] = pc[q]
      BY <1>1, <2>1
    <3>2. pc'[p] \in Making
      BY <2>1 DEF Making
    <3> SUFFICES ASSUME NEW n \in Names \ stranded
                 PROVE  /\ n \in branch' =>
                             Registered(n) \/ \E q \in Procs : Name(q) = n /\ pc'[q] \in Making \cup {"delete"}
                        /\ \A d \in Paths : tree'[d].lane = n =>
                             registry[n].path = d
                             \/ \E q \in Procs : Name(q) = n /\ Path(q) = d /\ pc'[q] \in Making
      BY <1>1, <1>5, <2>2 DEF NothingLeft, Registered
    <3>3. n \in branch => Registered(n) \/ \E q \in Procs : Name(q) = n /\ pc[q] \in Making \cup {"delete"}
      BY <1>1 DEF NothingLeft
    <3>4. \A d \in Paths : tree[d].lane = n =>
            registry[n].path = d \/ \E q \in Procs : Name(q) = n /\ Path(q) = d /\ pc[q] \in Making
      BY <1>1 DEF NothingLeft
    <3>5. tree'[Path(p)].lane = n => Name(p) = n
      BY <1>2, <2>3, CheckoutType
    <3> QED BY <1>5, <2>3, <3>1, <3>2, <3>3, <3>4, <3>5
  <2> QED BY <2>5, <2>6, <2>7, <2>8, <2>9, <2>10 DEF LInv
<1> QED BY <1>3, <1>4, <1>5 DEF AddWorktree

LEMMA RemoveWorktreeKeeps ==
    ASSUME LInv, NEW p \in Procs, RemoveWorktree(p)
    PROVE  LInv'
<1>1. TypeOK /\ OwnerInv /\ BuiltInv /\ CompleteInv /\ RecordInv /\ NothingLeft
      /\ pc[p] = "remove" /\ pc[p] \in Making
      /\ UNCHANGED <<branch, registry, source, runs, split>>
  BY DEF LInv, RemoveWorktree, At, Making
<1>2. /\ Name(p) \in Names /\ Path(p) \in Paths
      /\ tree[Path(p)].lane = Name(p) /\ ~Registered(Name(p)) /\ Name(p) \in branch
      /\ \A n \in Names : Registered(n) => registry[n].path # Path(p)
      /\ \A q \in Procs \ {p} : pc[q] \in Making => Path(q) # Path(p)
  BY <1>1, AtWorktree
<1>3. CASE stranded' = stranded \cup {Name(p)} /\ End(p) /\ UNCHANGED <<tree, maker>>
  BY <1>1, <1>2, <1>3, EndKeeps DEF TypeOK
<1>4. CASE /\ tree' = [tree EXCEPT ![Path(p)] = Absent]
           /\ maker' = [maker EXCEPT ![Path(p)] = None]
           /\ Goto(p, "delete")
           /\ UNCHANGED <<job, stranded>>
  <2>1. /\ pc' \in [Procs -> Labels] /\ pc'[p] = "delete"
        /\ \A q \in Procs : q # p => pc'[q] = pc[q]
    BY <1>1, <1>4, Went DEF Labels
  <2>2. \A q \in Procs : Name(q)' = Name(q) /\ Path(q)' = Path(q)
    BY <1>4 DEF Name, Path
  <2>3. /\ tree' \in [Paths -> Worktrees \cup {Absent}]
        /\ tree'[Path(p)] = Absent
        /\ \A d \in Paths : d # Path(p) => tree'[d] = tree[d]
        /\ maker' \in [Paths -> Procs \cup {None}]
        /\ \A d \in Paths : d # Path(p) => maker'[d] = maker[d]
    BY <1>1, <1>2, <1>4 DEF TypeOK
  <2>4. \A n \in Names : Registered(n) => tree'[registry[n].path] = tree[registry[n].path]
    BY <1>1, <1>2, <2>3 DEF TypeOK, Records, Registered
  <2>5. TypeOK'
    BY <1>1, <1>4, <2>1, <2>3 DEF TypeOK
  <2>6. OwnerInv'
    <3> SUFFICES ASSUME NEW q \in Procs
                 PROVE  /\ pc'[q] # "idle" => Name(q) \in Names /\ Path(q) \in Paths
                        /\ pc'[q] \in Making \cup {"delete"} =>
                             /\ Name(q) \in branch /\ ~Registered(Name(q))
                             /\ \A r \in Procs \ {q} :
                                  pc'[r] \in Making \cup {"delete"} => Name(r) # Name(q)
                        /\ pc'[q] \in Making =>
                             /\ maker'[Path(q)] = q
                             /\ tree'[Path(q)] # Absent /\ tree'[Path(q)].lane = Name(q)
      BY <1>1, <2>2 DEF OwnerInv, Registered, Absent
    <3>1. \A r \in Procs : pc'[r] \in Making \cup {"delete"} <=> pc[r] \in Making \cup {"delete"}
      BY <1>1, <2>1
    <3>2. CASE q = p
      BY <1>1, <1>2, <2>1, <3>1, <3>2 DEF OwnerInv, Making
    <3>3. CASE q # p
      <4>1. pc'[q] = pc[q] /\ (pc[q] # "idle" => Name(q) \in Names /\ Path(q) \in Paths)
        BY <1>1, <2>1, <3>3 DEF OwnerInv
      <4>2. pc[q] \in Making \cup {"delete"} =>
              /\ Name(q) \in branch /\ ~Registered(Name(q))
              /\ \A r \in Procs \ {q} : pc[r] \in Making \cup {"delete"} => Name(r) # Name(q)
        BY <1>1 DEF OwnerInv
      <4>3. pc[q] \in Making => tree'[Path(q)] = tree[Path(q)] /\ maker'[Path(q)] = maker[Path(q)]
        BY <1>2, <2>3, <3>3, <4>1 DEF Making
      <4>4. pc[q] \in Making =>
              maker[Path(q)] = q /\ tree[Path(q)] # Absent /\ tree[Path(q)].lane = Name(q)
        BY <1>1 DEF OwnerInv
      <4> QED BY <3>1, <4>1, <4>2, <4>3, <4>4
    <3> QED BY <3>2, <3>3
  <2>7. BuiltInv'
    <3> SUFFICES ASSUME NEW q \in Procs, q # p, pc[q] \in {"copy", "local", "register"}
                 PROVE  /\ pc[q] = "copy" =>
                             \A s \in Skills \ job[q].left : tree'[Path(q)].skills[s] = job[q].hash[s]
                        /\ pc[q] \in {"local", "register"} => tree'[Path(q)].lock = tree'[Path(q)].skills
                        /\ pc[q] = "register" => tree'[Path(q)].record = FirstRecord(q)
      BY <1>4, <2>1, <2>2 DEF BuiltInv, FirstRecord
    <3>1. tree'[Path(q)] = tree[Path(q)]
      BY <1>1, <1>2, <2>3 DEF OwnerInv, Making
    <3> QED BY <1>1, <3>1 DEF BuiltInv
  <2>8. CompleteInv'
    <3>1. \A q \in Procs : pc'[q] \in {"record", "publish", "work"} => pc[q] = pc'[q]
      BY <2>1
    <3> QED BY <1>1, <1>4, <2>2, <2>4, <3>1 DEF CompleteInv, Registered, Absent
  <2>9. RecordInv'
    <3>1. \A n \in Names : Recording(n)' = Recording(n)
      BY <1>1, <2>1, <2>2 DEF Recording
    <3>2. \A n \in Names : \A q \in Recording(n) : q \in Procs /\ pc'[q] = pc[q]
      BY <1>1, <2>1 DEF Recording
    <3> QED BY <1>1, <1>4, <2>4, <3>1, <3>2 DEF RecordInv, Registered
  <2>10. NothingLeft'
    <3>1. \A q \in Procs : pc[q] \in Making \cup {"delete"} => pc'[q] \in Making \cup {"delete"}
      BY <2>1
    <3>2. \A q \in Procs \ {p} : pc[q] \in Making => pc'[q] \in Making
      BY <2>1
    <3>3. \A n \in Names : n # Absent.lane
      BY LanesAssumption DEF Absent
    <3> SUFFICES ASSUME NEW n \in Names \ stranded
                 PROVE  /\ n \in branch =>
                             Registered(n) \/ \E q \in Procs : Name(q) = n /\ pc'[q] \in Making \cup {"delete"}
                        /\ \A d \in Paths : tree'[d].lane = n =>
                             registry[n].path = d
                             \/ \E q \in Procs : Name(q) = n /\ Path(q) = d /\ pc'[q] \in Making
      BY <1>1, <1>4, <2>2 DEF NothingLeft, Registered
    <3>4. n \in branch => Registered(n) \/ \E q \in Procs : Name(q) = n /\ pc[q] \in Making \cup {"delete"}
      BY <1>1, <1>4 DEF NothingLeft
    <3>5. \A d \in Paths : tree[d].lane = n =>
            registry[n].path = d \/ \E q \in Procs : Name(q) = n /\ Path(q) = d /\ pc[q] \in Making
      BY <1>1, <1>4 DEF NothingLeft
    <3>6. \A d \in Paths : tree'[d].lane = n => d # Path(p) /\ tree[d].lane = n
      BY <2>3, <3>3
    <3> QED BY <3>1, <3>2, <3>4, <3>5, <3>6
  <2> QED BY <2>5, <2>6, <2>7, <2>8, <2>9, <2>10 DEF LInv
<1> QED BY <1>3, <1>4 DEF RemoveWorktree

-----------------------------------------------------------------------------
(* Steps that write the records.                                           *)

LEMMA RegisterKeeps ==
    ASSUME LInv, NEW p \in Procs, Register(p)
    PROVE  LInv'
<1>1. TypeOK /\ OwnerInv /\ BuiltInv /\ CompleteInv /\ RecordInv /\ NothingLeft
      /\ pc[p] = "register" /\ pc[p] \in Making
      /\ UNCHANGED <<branch, tree, source, runs, maker, stranded, split>>
  BY DEF LInv, Register, At, Making, history
<1>2. /\ Name(p) \in Names /\ Path(p) \in Paths
      /\ tree[Path(p)] # Absent
      /\ tree[Path(p)].lane = Name(p) /\ ~Registered(Name(p)) /\ Name(p) \in branch
  BY <1>1, AtWorktree
<1>3. /\ \A q \in Procs \ {p} : pc[q] \in Making \cup {"delete"} => Name(q) # Name(p)
      /\ \A q \in Procs : pc[q] \in {"record", "publish", "work"} => Name(q) # Name(p)
  BY <1>1, <1>2 DEF OwnerInv, CompleteInv
<1>4. CASE registry' = [registry EXCEPT ![Name(p)] = FirstRecord(p)] /\ End(p)
  <2>1. /\ pc' \in [Procs -> Labels] /\ job' \in [Procs -> Jobs]
        /\ pc'[p] = "idle"
        /\ \A q \in Procs : q # p => pc'[q] = pc[q] /\ job'[q] = job[q]
    BY <1>1, <1>4, Ended
  <2>2. \A q \in Procs : q # p => Name(q)' = Name(q) /\ Path(q)' = Path(q)
    BY <2>1 DEF Name, Path
  <2>3. /\ registry' \in [Names -> Records]
        /\ registry'[Name(p)] = FirstRecord(p)
        /\ \A n \in Names : n # Name(p) => registry'[n] = registry[n]
    BY <1>1, <1>2, <1>4 DEF TypeOK, FirstRecord, Records
  <2>4. FirstRecord(p).path = Path(p) /\ FirstRecord(p).state = "whole" /\ Path(p) # None
    BY <1>2, LanesAssumption DEF FirstRecord
  <2>5. TypeOK'
    BY <1>1, <2>1, <2>3 DEF TypeOK
  <2>6. OwnerInv'
    BY <1>1, <1>3, <2>1, <2>2, <2>3 DEF OwnerInv, Registered, Making
  <2>7. BuiltInv'
    BY <1>1, <2>1, <2>2 DEF BuiltInv, FirstRecord
  <2>8. CompleteInv'
    <3>1. \A q \in Procs : pc'[q] \in {"record", "publish", "work"} => q # p
      BY <2>1
    <3>2. tree[Path(p)].lock = tree[Path(p)].skills
      BY <1>1 DEF BuiltInv
    <3>3. \A n \in Names : registry'[n].state = "whole" => Registered(n)'
      BY <1>1, <2>3, <2>4 DEF CompleteInv, Registered
    <3>4. ASSUME NEW n \in Names, Registered(n)'
          PROVE  /\ n \in branch
                 /\ tree[registry'[n].path] # Absent
                 /\ tree[registry'[n].path].lane = n
                 /\ tree[registry'[n].path].lock = tree[registry'[n].path].skills
      <4>1. CASE n = Name(p)
        BY <1>2, <2>3, <2>4, <3>2, <4>1
      <4>2. CASE n # Name(p)
        BY <1>1, <2>3, <3>4, <4>2 DEF CompleteInv, Registered
      <4> QED BY <4>1, <4>2
    <3>5. ASSUME NEW q \in Procs, pc'[q] \in {"record", "publish", "work"}
          PROVE  registry'[Name(q)].path # None /\ registry'[Name(q)].path = Path(q)
      <4>1. q # p /\ pc[q] = pc'[q] /\ Name(q) \in Names /\ Name(q) # Name(p)
        BY <1>1, <1>3, <2>1, <3>1, <3>5 DEF OwnerInv
      <4> QED BY <1>1, <2>3, <3>5, <4>1 DEF CompleteInv, Registered
    <3> QED BY <1>1, <2>2, <3>1, <3>3, <3>4, <3>5 DEF CompleteInv, Registered, Absent
  <2>9. RecordInv'
    <3>1. p \notin Recording(Name(p)) /\ \A n \in Names : p \notin Recording(n)
      BY <1>1 DEF Recording
    <3>2. \A n \in Names : Recording(n)' = Recording(n)
      BY <2>1, <2>2, <3>1 DEF Recording
    <3>3. Recording(Name(p)) = {}
      BY <1>1, <1>3 DEF Recording
    <3>4. \A n \in Names : \A q \in Recording(n) : q \in Procs /\ pc'[q] = pc[q] /\ job'[q] = job[q]
      BY <2>1, <3>1 DEF Recording
    <3>5. tree[Path(p)].record = FirstRecord(p)
      BY <1>1 DEF BuiltInv
    <3> SUFFICES ASSUME NEW n \in Names \ split, registry'[n].path # None
                 PROVE  /\ registry'[n].state = "whole"
                        /\ \A q, r \in Recording(n) : q = r
                        /\ (\A q \in Recording(n) : pc[q] = "record") =>
                             tree[registry'[n].path].record = registry'[n]
                        /\ \A q \in Recording(n) : pc[q] = "publish" =>
                             tree[registry'[n].path].record = [registry'[n] EXCEPT !.run = job[q].run]
      BY <1>1, <3>2, <3>4 DEF RecordInv, Registered
    <3>6. CASE n = Name(p)
      BY <2>3, <2>4, <3>3, <3>5, <3>6
    <3>7. CASE n # Name(p)
      BY <1>1, <2>3, <3>7 DEF RecordInv, Registered
    <3> QED BY <3>6, <3>7
  <2>10. NothingLeft'
    <3> SUFFICES ASSUME NEW n \in Names \ stranded
                 PROVE  /\ n \in branch =>
                             registry'[n].path # None
                             \/ \E q \in Procs : q # p /\ Name(q) = n /\ pc[q] \in Making \cup {"delete"}
                        /\ \A d \in Paths : tree[d].lane = n =>
                             registry'[n].path = d
                             \/ \E q \in Procs : q # p /\ Name(q) = n /\ Path(q) = d /\ pc[q] \in Making
      BY <1>1, <2>1, <2>2 DEF NothingLeft, Registered
    <3>1. n \in branch => Registered(n) \/ \E q \in Procs : Name(q) = n /\ pc[q] \in Making \cup {"delete"}
      BY <1>1 DEF NothingLeft
    <3>2. \A d \in Paths : tree[d].lane = n =>
            registry[n].path = d \/ \E q \in Procs : Name(q) = n /\ Path(q) = d /\ pc[q] \in Making
      BY <1>1 DEF NothingLeft
    <3>3. CASE n = Name(p)
      BY <1>2, <1>3, <2>3, <2>4, <3>1, <3>2, <3>3 DEF Registered, TypeOK, Records, Making
    <3>4. CASE n # Name(p)
      BY <2>3, <3>1, <3>2, <3>4 DEF Registered
    <3> QED BY <3>3, <3>4
  <2> QED BY <2>5, <2>6, <2>7, <2>8, <2>9, <2>10 DEF LInv
<1>5. CASE registry' = [registry EXCEPT ![Name(p)].state = "torn"] /\ Goto(p, "remove") /\ UNCHANGED job
  <2>1. /\ registry' \in [Names -> Records]
        /\ \A n \in Names : n # Name(p) => registry'[n] = registry[n]
        /\ \A n \in Names : /\ registry'[n].path = registry[n].path
                            /\ registry'[n].state = "whole" => registry[n].state = "whole"
    BY <1>1, <1>2, <1>5, TornRegistry
  <2>2. /\ pc' \in [Procs -> Labels] /\ pc'[p] = "remove" /\ job' \in [Procs -> Jobs]
        /\ \A q \in Procs : q # p => pc'[q] = pc[q]
    BY <1>1, <1>5, Went DEF Labels
  <2>3. /\ \A q \in Procs : Name(q)' = Name(q) /\ Path(q)' = Path(q)
        /\ \A n \in Names : Registered(n)' <=> Registered(n)
    BY <1>5, <2>1 DEF Name, Path, Registered
  <2>4. \A q \in Procs : /\ pc'[q] \in Making \cup {"delete"} <=> pc[q] \in Making \cup {"delete"}
                         /\ pc'[q] \in Making <=> pc[q] \in Making
                         /\ pc'[q] \in {"copy", "local", "register", "record", "publish", "work"} => pc'[q] = pc[q]
    BY <1>1, <2>2 DEF Making
  <2>5. TypeOK'
    BY <1>1, <2>1, <2>2 DEF TypeOK
  <2>6. OwnerInv'
    <3> SUFFICES ASSUME NEW q \in Procs
                 PROVE  /\ pc'[q] # "idle" => Name(q) \in Names /\ Path(q) \in Paths
                        /\ pc[q] \in Making \cup {"delete"} =>
                             /\ Name(q) \in branch /\ registry'[Name(q)].path = None
                             /\ \A r \in Procs \ {q} :
                                  pc[r] \in Making \cup {"delete"} => Name(r) # Name(q)
                        /\ pc[q] \in Making =>
                             /\ maker[Path(q)] = q
                             /\ tree[Path(q)] # Absent /\ tree[Path(q)].lane = Name(q)
      BY <1>1, <2>3, <2>4 DEF OwnerInv, Registered, Absent
    <3>1. pc[q] = "idle" => pc'[q] = "idle"
      BY <1>1, <2>2
    <3>2. pc[q] # "idle" => Name(q) \in Names /\ Path(q) \in Paths
      BY <1>1 DEF OwnerInv
    <3>3. pc[q] \in Making \cup {"delete"} =>
            /\ Name(q) \in branch /\ registry[Name(q)].path = None
            /\ \A r \in Procs \ {q} : pc[r] \in Making \cup {"delete"} => Name(r) # Name(q)
      BY <1>1 DEF OwnerInv, Registered
    <3>4. pc[q] \in Making =>
            /\ maker[Path(q)] = q
            /\ tree[Path(q)] # Absent /\ tree[Path(q)].lane = Name(q)
      BY <1>1 DEF OwnerInv
    <3>5. pc[q] \in Making \cup {"delete"} => pc[q] # "idle"
      BY DEF Making
    <3> QED BY <2>1, <3>1, <3>2, <3>3, <3>4, <3>5
  <2>7. BuiltInv'
    BY <1>1, <1>5, <2>3, <2>4 DEF BuiltInv, FirstRecord
  <2>8. CompleteInv'
    BY <1>1, <2>1, <2>3, <2>4 DEF CompleteInv, OwnerInv
  <2>9. RecordInv'
    <3>1. \A n \in Names : Recording(n)' = Recording(n)
      BY <1>1, <2>2, <2>3 DEF Recording
    <3>2. \A n \in Names : \A q \in Recording(n) : q \in Procs /\ pc'[q] = pc[q]
      BY <1>1, <2>2 DEF Recording
    <3>3. \A n \in Names : Registered(n) => registry'[n] = registry[n]
      BY <1>2, <2>1
    <3> SUFFICES ASSUME NEW n \in Names \ split, Registered(n)
                 PROVE  /\ registry'[n].state = "whole"
                        /\ \A q, r \in Recording(n) : q = r
                        /\ (\A q \in Recording(n) : pc[q] = "record") =>
                             tree[registry'[n].path].record = registry'[n]
                        /\ \A q \in Recording(n) : pc[q] = "publish" =>
                             tree[registry'[n].path].record = [registry'[n] EXCEPT !.run = job[q].run]
      BY <1>1, <1>5, <2>3, <3>1, <3>2 DEF RecordInv
    <3> QED BY <1>1, <3>3 DEF RecordInv
  <2>10. NothingLeft'
    BY <1>1, <2>1, <2>3, <2>4 DEF NothingLeft
  <2> QED BY <2>5, <2>6, <2>7, <2>8, <2>9, <2>10 DEF LInv
<1> QED BY <1>4, <1>5 DEF Register, Undo

LEMMA LaneRunKeeps ==
    ASSUME LInv, NEW p \in Procs, NEW n \in Names, LaneRun(p, n)
    PROVE  LInv'
<1>1. TypeOK /\ OwnerInv /\ BuiltInv /\ CompleteInv /\ RecordInv /\ NothingLeft
      /\ pc[p] = "idle" /\ registry[n].state = "whole" /\ Registered(n)
      /\ UNCHANGED <<branch, tree, registry, source, maker, stranded>>
  BY DEF LInv, LaneRun, At, CompleteInv
<1>2. registry[n].path \in Paths /\ runs + 1 \in 0 .. MaxRuns /\ runs' = runs + 1
  BY <1>1, LanesAssumption DEF LaneRun, TypeOK, Records, Registered
<1>3. [NoJob EXCEPT !.name = n, !.path = registry[n].path, !.run = runs + 1] \in Jobs
  BY <1>2, NoJobType DEF Jobs
<1>4. /\ pc' \in [Procs -> Labels] /\ job' \in [Procs -> Jobs]
      /\ pc'[p] = "record" /\ job'[p].name = n /\ job'[p].path = registry[n].path
      /\ \A q \in Procs : q # p => pc'[q] = pc[q] /\ job'[q] = job[q]
  BY <1>1, <1>3 DEF LaneRun, Goto, TypeOK, Labels, NoJob
<1>5. /\ \A q \in Procs : q # p => Name(q)' = Name(q) /\ Path(q)' = Path(q)
      /\ Name(p)' = n /\ Path(p)' = registry[n].path
  BY <1>4 DEF Name, Path
<1>6. split' = IF Recording(n) = {} THEN split ELSE split \cup {n}
  BY DEF LaneRun
<1>7. TypeOK'
  BY <1>1, <1>2, <1>4, <1>6 DEF TypeOK
<1>8. OwnerInv'
  <2> SUFFICES ASSUME NEW q \in Procs
               PROVE  /\ pc'[q] # "idle" => Name(q)' \in Names /\ Path(q)' \in Paths
                      /\ pc'[q] \in Making \cup {"delete"} =>
                           /\ Name(q)' \in branch /\ ~Registered(Name(q)')
                           /\ \A r \in Procs \ {q} :
                                pc'[r] \in Making \cup {"delete"} => Name(r)' # Name(q)'
                      /\ pc'[q] \in Making =>
                           /\ maker[Path(q)'] = q
                           /\ tree[Path(q)'] # Absent /\ tree[Path(q)'].lane = Name(q)'
    BY <1>1 DEF OwnerInv, Registered, Absent
  <2>1. pc'[p] \notin Making \cup {"delete"}
    BY <1>4 DEF Making
  <2>2. CASE q = p
    BY <1>2, <1>5, <2>1, <2>2
  <2>3. CASE q # p
    <3>1. pc'[q] = pc[q] /\ Name(q)' = Name(q) /\ Path(q)' = Path(q)
      BY <1>4, <1>5, <2>3
    <3>2. \A r \in Procs : pc'[r] \in Making \cup {"delete"} =>
            pc[r] \in Making \cup {"delete"} /\ Name(r)' = Name(r)
      BY <1>4, <1>5, <2>1
    <3> QED BY <1>1, <3>1, <3>2 DEF OwnerInv
  <2> QED BY <2>2, <2>3
<1>9. BuiltInv'
  BY <1>1, <1>4, <1>5 DEF BuiltInv, FirstRecord
<1>10. CompleteInv'
  BY <1>1, <1>4, <1>5 DEF CompleteInv, Registered
<1>11. RecordInv'
  <2>1. \A m \in Names : m # n => Recording(m)' = Recording(m)
    BY <1>1, <1>4, <1>5 DEF Recording
  <2>2. Recording(n)' = Recording(n) \cup {p}
    BY <1>1, <1>4, <1>5 DEF Recording
  <2>3. \A m \in Names : \A q \in Recording(m) : q \in Procs /\ pc'[q] = pc[q] /\ job'[q] = job[q]
    BY <1>1, <1>4 DEF Recording
  <2> SUFFICES ASSUME NEW m \in Names \ split', Registered(m)
               PROVE  /\ registry[m].state = "whole"
                      /\ \A q, r \in Recording(m)' : q = r
                      /\ (\A q \in Recording(m)' : pc'[q] = "record") =>
                           tree[registry[m].path].record = registry[m]
                      /\ \A q \in Recording(m)' : pc'[q] = "publish" =>
                           tree[registry[m].path].record = [registry[m] EXCEPT !.run = job'[q].run]
    BY <1>1 DEF RecordInv, Registered
  <2>4. m \notin split
    BY <1>6
  <2>5. CASE m = n
    <3>1. Recording(n) = {}
      BY <1>6, <2>5
    <3>2. Recording(n)' = {p} /\ pc'[p] = "record"
      BY <1>4, <2>2, <3>1
    <3> QED BY <1>1, <2>4, <2>5, <3>1, <3>2 DEF RecordInv
  <2>6. CASE m # n
    BY <1>1, <2>1, <2>3, <2>4, <2>6 DEF RecordInv
  <2> QED BY <2>5, <2>6
<1>12. NothingLeft'
  BY <1>1, <1>4, <1>5 DEF NothingLeft, Registered, Making
<1> QED BY <1>7, <1>8, <1>9, <1>10, <1>11, <1>12 DEF LInv

LEMMA RecordLocalKeeps ==
    ASSUME LInv, NEW p \in Procs, RecordLocal(p)
    PROVE  LInv'
<1>1. TypeOK /\ OwnerInv /\ BuiltInv /\ CompleteInv /\ RecordInv /\ NothingLeft
      /\ pc[p] = "record" /\ pc[p] \notin Making \cup {"delete"}
      /\ UNCHANGED <<branch, registry, source, runs, maker, stranded>>
  BY DEF LInv, RecordLocal, At, Making
<1>2. /\ Name(p) \in Names /\ Path(p) \in Paths
      /\ Registered(Name(p)) /\ registry[Name(p)].path = Path(p)
  BY <1>1 DEF OwnerInv, CompleteInv
<1>3. /\ tree[Path(p)] \in Worktrees /\ tree[Path(p)] # Absent
      /\ tree[Path(p)].lane = Name(p) /\ tree[Path(p)].lock = tree[Path(p)].skills
  BY <1>1, <1>2 DEF CompleteInv, TypeOK
<1>4. \A q \in Procs : pc[q] \in Making => Path(q) # Path(p)
  BY <1>1, <1>2, AtWorktree DEF LInv
<1>5. CASE /\ tree' = [tree EXCEPT ![Path(p)].record.state = "torn"]
           /\ split' = split \cup {Name(p)}
           /\ End(p)
  <2>1. /\ tree' \in [Paths -> Worktrees \cup {Absent}]
        /\ \A e \in Paths : e # Path(p) => tree'[e] = tree[e]
        /\ \A e \in Paths : /\ tree'[e] = Absent <=> tree[e] = Absent
                            /\ tree'[e].lane = tree[e].lane
                            /\ tree'[e].lock = tree[e].lock
                            /\ tree'[e].skills = tree[e].skills
    BY <1>1, <1>2, <1>3, <1>5, TornTree
  <2>2. registry' \in [Names -> Records] /\ branch \subseteq Names /\ stranded \subseteq Names
        /\ split' \subseteq Names
    BY <1>1, <1>2, <1>5 DEF TypeOK
  <2> QED BY <1>1, <1>2, <1>5, <2>1, <2>2, EndKeeps
<1>6. CASE /\ tree' = [tree EXCEPT ![Path(p)].record = [@ EXCEPT !.state = "whole", !.run = job[p].run]]
           /\ Goto(p, "publish")
           /\ UNCHANGED <<job, split>>
  <2>1. /\ pc' \in [Procs -> Labels] /\ pc'[p] = "publish" /\ job' \in [Procs -> Jobs]
        /\ \A q \in Procs : q # p => pc'[q] = pc[q]
    BY <1>1, <1>6, Went DEF Labels
  <2>2. \A q \in Procs : Name(q)' = Name(q) /\ Path(q)' = Path(q)
    BY <1>6 DEF Name, Path
  <2>3. job[p].run \in 0 .. MaxRuns
    BY <1>1 DEF TypeOK, Jobs
  <2>4. /\ tree'[Path(p)] = [tree[Path(p)] EXCEPT
             !.record = [tree[Path(p)].record EXCEPT !.state = "whole", !.run = job[p].run]]
        /\ \A d \in Paths : d # Path(p) => tree'[d] = tree[d]
    BY <1>1, <1>2, <1>6 DEF TypeOK
  <2>5. /\ tree'[Path(p)] \in Worktrees
        /\ tree'[Path(p)].lane = Name(p) /\ tree'[Path(p)].lock = tree'[Path(p)].skills
        /\ tree'[Path(p)].record = [tree[Path(p)].record EXCEPT !.state = "whole", !.run = job[p].run]
    <3> DEFINE r == [tree[Path(p)].record EXCEPT !.state = "whole", !.run = job[p].run]
    <3>1. r \in Records
      BY <1>3, <2>3 DEF Worktrees, Records
    <3>2. tree'[Path(p)] = [tree[Path(p)] EXCEPT !.record = r]
      BY <2>4
    <3> HIDE DEF r
    <3>3. tree'[Path(p)] \in Worktrees /\ tree'[Path(p)].record = r
          /\ tree'[Path(p)].lane = Name(p) /\ tree'[Path(p)].lock = tree'[Path(p)].skills
      BY <1>3, <3>1, <3>2 DEF Worktrees
    <3> QED BY <3>3 DEF r
  <2>6. tree'[Path(p)] # Absent
    BY <2>5 DEF Absent, Worktrees
  <2>7. tree' \in [Paths -> Worktrees \cup {Absent}]
    BY <1>1, <1>2, <1>6, <2>4, <2>5 DEF TypeOK
  <2>8. /\ \A d \in Paths : tree'[d].lane = tree[d].lane
        /\ \A d \in Paths : tree'[d] = Absent <=> tree[d] = Absent
        /\ \A d \in Paths : tree[d].lock = tree[d].skills => tree'[d].lock = tree'[d].skills
    BY <1>3, <2>4, <2>5, <2>6
  <2>9. \A q \in Procs : /\ pc'[q] \in Making \cup {"delete"} <=> pc[q] \in Making \cup {"delete"}
                         /\ pc'[q] \in Making <=> pc[q] \in Making
                         /\ pc'[q] \in {"copy", "local", "register"} => pc'[q] = pc[q] /\ pc[q] \in Making
                         /\ pc'[q] \in {"record", "publish", "work"} => pc[q] \in {"record", "publish", "work"}
                         /\ pc'[q] # "idle" => pc[q] # "idle"
    BY <1>1, <2>1 DEF Making
  <2>10. TypeOK'
    BY <1>1, <1>6, <2>1, <2>7 DEF TypeOK
  <2>11. OwnerInv'
    <3> SUFFICES ASSUME NEW q \in Procs
                 PROVE  /\ pc'[q] # "idle" => Name(q) \in Names /\ Path(q) \in Paths
                        /\ pc[q] \in Making \cup {"delete"} =>
                             /\ Name(q) \in branch /\ ~Registered(Name(q))
                             /\ \A r \in Procs \ {q} :
                                  pc[r] \in Making \cup {"delete"} => Name(r) # Name(q)
                        /\ pc[q] \in Making =>
                             /\ maker[Path(q)] = q
                             /\ tree'[Path(q)] # Absent /\ tree'[Path(q)].lane = Name(q)
      BY <1>1, <2>2, <2>9 DEF OwnerInv, Registered, Absent
    <3> QED BY <1>1, <1>4, <2>4, <2>9 DEF OwnerInv, Making
  <2>12. BuiltInv'
    <3> SUFFICES ASSUME NEW q \in Procs, pc[q] \in {"copy", "local", "register"}, Path(q) # Path(p)
                 PROVE  /\ pc[q] = "copy" =>
                             \A s \in Skills \ job[q].left : tree'[Path(q)].skills[s] = job[q].hash[s]
                        /\ pc[q] \in {"local", "register"} => tree'[Path(q)].lock = tree'[Path(q)].skills
                        /\ pc[q] = "register" => tree'[Path(q)].record = FirstRecord(q)
      BY <1>4, <1>6, <2>2, <2>9 DEF BuiltInv, FirstRecord
    <3>1. tree'[Path(q)] = tree[Path(q)]
      BY <1>1, <2>4 DEF OwnerInv
    <3> QED BY <1>1, <3>1 DEF BuiltInv
  <2>13. CompleteInv'
    <3>1. \A n \in Names : Registered(n) => registry[n].path \in Paths
      BY <1>1 DEF TypeOK, Records, Registered
    <3> QED BY <1>1, <2>2, <2>8, <2>9, <3>1 DEF CompleteInv, Registered, Absent
  <2>14. RecordInv'
    <3>1. \A n \in Names : Recording(n)' = Recording(n)
      BY <1>1, <2>1, <2>2 DEF Recording
    <3> SUFFICES ASSUME NEW n \in Names \ split, Registered(n)
                 PROVE  /\ registry[n].state = "whole"
                        /\ \A q, r \in Recording(n) : q = r
                        /\ (\A q \in Recording(n) : pc'[q] = "record") =>
                             tree'[registry[n].path].record = registry[n]
                        /\ \A q \in Recording(n) : pc'[q] = "publish" =>
                             tree'[registry[n].path].record = [registry[n] EXCEPT !.run = job[q].run]
      BY <1>1, <1>6, <3>1 DEF RecordInv, Registered
    <3>2. registry[n].state = "whole" /\ \A q, r \in Recording(n) : q = r
      BY <1>1 DEF RecordInv
    <3>3. CASE n = Name(p)
      <4>1. Recording(n) = {p}
        BY <1>1, <3>2, <3>3 DEF Recording
      <4>2. tree[Path(p)].record = registry[n]
        BY <1>1, <1>2, <3>3, <4>1 DEF RecordInv
      <4>3. tree'[Path(p)].record = [registry[n] EXCEPT !.run = job[p].run]
        <5>1. registry[n] \in Records
          BY <1>1 DEF TypeOK
        <5> QED BY <2>5, <3>2, <4>2, <5>1 DEF Records
      <4> QED BY <1>2, <2>1, <3>2, <3>3, <4>1, <4>3
    <3>4. CASE n # Name(p)
      <4>1. p \notin Recording(n) /\ \A q \in Recording(n) : q \in Procs /\ pc'[q] = pc[q]
        BY <2>1, <3>4 DEF Recording
      <4>2. registry[n].path \in Paths /\ registry[n].path # Path(p)
        BY <1>1, <1>3, <3>4 DEF CompleteInv, TypeOK, Records, Registered
      <4>3. tree'[registry[n].path] = tree[registry[n].path]
        BY <2>4, <4>2
      <4> QED BY <1>1, <4>1, <4>3 DEF RecordInv
    <3> QED BY <3>3, <3>4
  <2>15. NothingLeft'
    BY <1>1, <2>2, <2>8, <2>9 DEF NothingLeft, Registered
  <2> QED BY <2>10, <2>11, <2>12, <2>13, <2>14, <2>15 DEF LInv
<1> QED BY <1>5, <1>6 DEF RecordLocal

LEMMA RecordPublicKeeps ==
    ASSUME LInv, NEW p \in Procs, RecordPublic(p)
    PROVE  LInv'
<1>1. TypeOK /\ OwnerInv /\ BuiltInv /\ CompleteInv /\ RecordInv /\ NothingLeft
      /\ pc[p] = "publish" /\ pc[p] \notin Making \cup {"delete"}
      /\ UNCHANGED <<branch, tree, source, runs, maker, stranded>>
  BY DEF LInv, RecordPublic, At, Making
<1>2. /\ Name(p) \in Names /\ Path(p) \in Paths
      /\ Registered(Name(p)) /\ registry[Name(p)].path = Path(p)
  BY <1>1 DEF OwnerInv, CompleteInv
<1>3. CASE /\ registry' = [registry EXCEPT ![Name(p)].state = "torn"]
           /\ split' = split \cup {Name(p)}
           /\ End(p)
  <2>1. /\ registry' \in [Names -> Records]
        /\ \A m \in Names : m # Name(p) => registry'[m] = registry[m]
        /\ \A m \in Names : /\ registry'[m].path = registry[m].path
                            /\ registry'[m].state = "whole" => registry[m].state = "whole"
    BY <1>1, <1>2, <1>3, TornRegistry
  <2>2. tree' \in [Paths -> Worktrees \cup {Absent}] /\ branch \subseteq Names /\ stranded \subseteq Names
        /\ split' \subseteq Names
    BY <1>1, <1>2, <1>3 DEF TypeOK
  <2> QED BY <1>1, <1>2, <1>3, <2>1, <2>2, EndKeeps
<1>4. CASE /\ registry' = [registry EXCEPT ![Name(p)] = [@ EXCEPT !.state = "whole", !.run = job[p].run]]
           /\ Goto(p, "work")
           /\ UNCHANGED <<job, split>>
  <2>1. /\ pc' \in [Procs -> Labels] /\ pc'[p] = "work" /\ job' \in [Procs -> Jobs]
        /\ \A q \in Procs : q # p => pc'[q] = pc[q]
    BY <1>1, <1>4, Went DEF Labels
  <2>2. \A q \in Procs : Name(q)' = Name(q) /\ Path(q)' = Path(q)
    BY <1>4 DEF Name, Path
  <2>3. registry[Name(p)] \in Records /\ job[p].run \in 0 .. MaxRuns
    BY <1>1, <1>2 DEF TypeOK, Jobs
  <2>4. /\ registry'[Name(p)] = [registry[Name(p)] EXCEPT !.state = "whole", !.run = job[p].run]
        /\ \A n \in Names : n # Name(p) => registry'[n] = registry[n]
    BY <1>1, <1>2, <1>4 DEF TypeOK
  <2>5. registry'[Name(p)] \in Records /\ registry'[Name(p)].path = Path(p)
        /\ registry'[Name(p)].state = "whole"
    BY <1>2, <2>3, <2>4 DEF Records
  <2>6. registry' \in [Names -> Records]
    BY <1>1, <1>4, <2>4, <2>5 DEF TypeOK
  <2>7. \A n \in Names : registry'[n].path = registry[n].path /\ (Registered(n)' <=> Registered(n))
    BY <1>2, <2>4, <2>5 DEF Registered
  <2>8. \A q \in Procs : /\ pc'[q] \in Making \cup {"delete"} <=> pc[q] \in Making \cup {"delete"}
                         /\ pc'[q] \in Making <=> pc[q] \in Making
                         /\ pc'[q] \in {"copy", "local", "register"} => pc'[q] = pc[q]
                         /\ pc'[q] \in {"record", "publish", "work"} => pc[q] \in {"record", "publish", "work"}
                         /\ pc'[q] # "idle" => pc[q] # "idle"
    BY <1>1, <2>1 DEF Making
  <2>9. TypeOK'
    BY <1>1, <1>4, <2>1, <2>6 DEF TypeOK
  <2>10. OwnerInv'
    <3> SUFFICES ASSUME NEW q \in Procs
                 PROVE  /\ pc[q] # "idle" => Name(q) \in Names /\ Path(q) \in Paths
                        /\ pc[q] \in Making \cup {"delete"} =>
                             /\ Name(q) \in branch /\ registry'[Name(q)].path = None
                             /\ \A r \in Procs \ {q} :
                                  pc[r] \in Making \cup {"delete"} => Name(r) # Name(q)
                        /\ pc[q] \in Making =>
                             /\ maker[Path(q)] = q
                             /\ tree[Path(q)] # Absent /\ tree[Path(q)].lane = Name(q)
      BY <1>1, <2>2, <2>8 DEF OwnerInv, Registered, Absent
    <3>1. pc[q] \in Making \cup {"delete"} => pc[q] # "idle"
      BY DEF Making
    <3> QED BY <1>1, <2>7, <3>1 DEF OwnerInv, Registered
  <2>11. BuiltInv'
    BY <1>1, <1>4, <2>2, <2>8 DEF BuiltInv, FirstRecord
  <2>12. CompleteInv'
    <3>1. \A n \in Names : registry'[n].state = "whole" => Registered(n)
      BY <1>1, <1>2, <2>4 DEF CompleteInv
    <3>2. \A n \in Names : Registered(n) =>
           /\ n \in branch
           /\ tree[registry'[n].path] # Absent
           /\ tree[registry'[n].path].lane = n
           /\ tree[registry'[n].path].lock = tree[registry'[n].path].skills
      BY <1>1, <2>7 DEF CompleteInv
    <3>3. ASSUME NEW q \in Procs, pc'[q] \in {"record", "publish", "work"}
          PROVE  registry'[Name(q)].path # None /\ registry'[Name(q)].path = Path(q)
      <4>1. pc[q] \in {"record", "publish", "work"} /\ Name(q) \in Names
        BY <1>1, <2>8, <3>3 DEF OwnerInv
      <4> QED BY <1>1, <2>7, <4>1 DEF CompleteInv, Registered
    <3> QED BY <1>1, <2>2, <2>7, <3>1, <3>2, <3>3 DEF CompleteInv, Registered, Absent
  <2>13. RecordInv'
    <3>1. \A n \in Names : Recording(n)' = Recording(n) \ {p}
      BY <1>1, <2>1, <2>2 DEF Recording
    <3>2. \A n \in Names : \A q \in Recording(n) \ {p} : q \in Procs /\ pc'[q] = pc[q]
      BY <2>1 DEF Recording
    <3> SUFFICES ASSUME NEW n \in Names \ split, Registered(n)
                 PROVE  /\ registry'[n].state = "whole"
                        /\ \A q, r \in Recording(n) \ {p} : q = r
                        /\ (\A q \in Recording(n) \ {p} : pc[q] = "record") =>
                             tree[registry'[n].path].record = registry'[n]
                        /\ \A q \in Recording(n) \ {p} : pc[q] = "publish" =>
                             tree[registry'[n].path].record = [registry'[n] EXCEPT !.run = job[q].run]
      BY <1>1, <1>4, <2>7, <3>1, <3>2 DEF RecordInv
    <3>3. registry[n].state = "whole" /\ \A q, r \in Recording(n) : q = r
      BY <1>1 DEF RecordInv
    <3>4. CASE n = Name(p)
      <4>1. Recording(n) = {p}
        BY <1>1, <3>3, <3>4 DEF Recording
      <4>2. tree[Path(p)].record = [registry[n] EXCEPT !.run = job[p].run]
        BY <1>1, <1>2, <3>4, <4>1 DEF RecordInv
      <4>3. registry'[n] = [registry[n] EXCEPT !.run = job[p].run]
        BY <2>3, <2>4, <3>3, <3>4 DEF Records
      <4> QED BY <2>5, <3>4, <4>1, <4>2, <4>3
    <3>5. CASE n # Name(p)
      <4>1. p \notin Recording(n)
        BY <3>5 DEF Recording
      <4> QED BY <1>1, <2>4, <3>5, <4>1 DEF RecordInv
    <3> QED BY <3>4, <3>5
  <2>14. NothingLeft'
    BY <1>1, <2>2, <2>7, <2>8 DEF NothingLeft
  <2> QED BY <2>9, <2>10, <2>11, <2>12, <2>13, <2>14 DEF LInv
<1> QED BY <1>3, <1>4 DEF RecordPublic

-----------------------------------------------------------------------------
(* The theorems.                                                           *)

LEMMA InitKeeps == Init => LInv
<1> SUFFICES ASSUME Init PROVE LInv
  OBVIOUS
<1>1. TypeOK
  BY NoJobType DEF Init, TypeOK, NoRecord, Records, Versions, Labels
<1>2. OwnerInv /\ BuiltInv
  BY DEF Init, OwnerInv, BuiltInv, Making
<1>3. CompleteInv
  BY DEF Init, CompleteInv, Registered, NoRecord
<1>4. RecordInv
  BY DEF Init, RecordInv, Registered, NoRecord
<1>5. NothingLeft
  BY LanesAssumption DEF Init, NothingLeft, Absent
<1> QED BY <1>1, <1>2, <1>3, <1>4, <1>5 DEF LInv

\* What the invariant says of the program's variables is kept when they are.
LEMMA SameKeeps ==
    ASSUME LInv, UNCHANGED <<branch, tree, registry, pc, job, maker, stranded, split, runs>>,
           source' \in [Skills -> Versions]
    PROVE  LInv'
<1>1. TypeOK /\ OwnerInv /\ BuiltInv /\ CompleteInv /\ RecordInv /\ NothingLeft
  BY DEF LInv
<1>2. /\ \A q \in Procs : Name(q)' = Name(q) /\ Path(q)' = Path(q) /\ FirstRecord(q)' = FirstRecord(q)
      /\ \A n \in Names : Registered(n)' = Registered(n) /\ Recording(n)' = Recording(n)
  BY DEF Name, Path, FirstRecord, Registered, Recording
<1>3. TypeOK'
  BY <1>1 DEF TypeOK
<1>4. OwnerInv'
  BY <1>1, <1>2 DEF OwnerInv, Registered
<1>5. BuiltInv' /\ CompleteInv'
  BY <1>1, <1>2 DEF BuiltInv, CompleteInv, Registered
<1>6. RecordInv'
  BY <1>1, <1>2 DEF RecordInv
<1>7. NothingLeft'
  BY <1>1, <1>2 DEF NothingLeft
<1> QED BY <1>3, <1>4, <1>5, <1>6, <1>7 DEF LInv

LEMMA SourceChangesKeeps ==
    ASSUME LInv, NEW s \in Skills, SourceChanges(s)
    PROVE  LInv'
<1>1. source[s] \in Versions /\ source \in [Skills -> Versions]
  BY DEF LInv, TypeOK
<1>2. source[s] + 1 \in Versions
  BY <1>1 DEF SourceChanges, Versions
<1>3. source' \in [Skills -> Versions]
  BY <1>1, <1>2 DEF SourceChanges
<1> QED BY <1>3, SameKeeps DEF SourceChanges, control, history

LEMMA StepKeeps == LInv /\ [Next]_vars => LInv'
<1> SUFFICES ASSUME LInv, [Next]_vars PROVE LInv'
  OBVIOUS
<1>1. ASSUME NEW p \in Procs, Create(p) PROVE LInv'
  BY <1>1, CreateLaneKeeps, AddWorktreeKeeps, ResolveSkillsKeeps, CopySkillKeeps, WriteLockKeeps,
     WriteLocalKeeps, RegisterKeeps, RemoveWorktreeKeeps, DeleteBranchKeeps DEF Create
<1>2. ASSUME NEW p \in Procs, Run(p) PROVE LInv'
  BY <1>2, LaneRunKeeps, RecordLocalKeeps, RecordPublicKeeps, RunnerEndsKeeps DEF Run
<1>3. ASSUME NEW p \in Procs, Crash(p) PROVE LInv'
  BY <1>3, CrashKeeps
<1>4. ASSUME NEW s \in Skills, SourceChanges(s) PROVE LInv'
  BY <1>4, SourceChangesKeeps
<1>5. CASE UNCHANGED vars
  BY <1>5, SameKeeps DEF vars, control, history, LInv, TypeOK
<1> QED BY <1>1, <1>2, <1>3, <1>4, <1>5 DEF Next

\* Commands own what they make, a registered lane is complete, and its records
\* differ only while one runner writes them (create_lane, _record_run).
THEOREM Inductive == Spec => []LInv
BY InitKeeps, StepKeeps, PTL DEF Spec

\* Every variable keeps its type.
THEOREM TypeCorrect == Spec => []TypeOK
<1>1. LInv => TypeOK
  BY DEF LInv
<1> QED BY <1>1, Inductive, PTL

\* A lane load_lane accepts has its branch, its worktree and the skills its lock
\* file names, however many commands are at work, fail or are killed.
THEOREM Complete == Spec => []LoadableIsComplete
<1>1. LInv => LoadableIsComplete
  BY DEF LInv, CompleteInv, LoadableIsComplete
<1> QED BY <1>1, Inductive, PTL

\* create_lane's rollback removes no worktree but its own.
THEOREM Ownership == Spec => []OnlyOwnUndone
<1>1. LInv => OnlyOwnUndone
  BY DEF LInv, OwnerInv, OnlyOwnUndone, Making
<1> QED BY <1>1, Inductive, PTL

\* A create_lane that raised leaves neither branch nor worktree, unless git failed in
\* it or it was killed.
THEOREM Rollback == Spec => []NothingLeft
<1>1. LInv => NothingLeft
  BY DEF LInv
<1> QED BY <1>1, Inductive, PTL

\* lane.json and the registry name the same run unless two runners recorded at once or
\* one failed between its two writes.
THEOREM Agreement == Spec => []RecordsAgree
<1>1. LInv => RecordsAgree
  BY DEF LInv, CompleteInv, RecordInv, RecordsAgree
<1> QED BY <1>1, Inductive, PTL

-----------------------------------------------------------------------------
(* The registry implements its promise (LaneRegistry).                     *)

\* What a runner of a lane finds depends on its path in the registry and on the
\* skills in that worktree.
LEMMA LaneStays ==
    ASSUME LInv, NEW n \in Names, registry'[n].path = registry[n].path,
           \A d \in Paths : Registered(n) /\ registry[n].path = d =>
               tree'[d] # Absent /\ tree'[d].skills = tree[d].skills
    PROVE  LaneOf(n)' = LaneOf(n)
<1>1. CASE ~Registered(n)
  BY <1>1 DEF LaneOf, Registered
<1>2. CASE Registered(n)
  <2>1. PICK d \in Paths : registry[n].path = d
    BY <1>2 DEF LInv, TypeOK, Records, Registered
  <2>2. tree[d] # Absent
    BY <1>2, <2>1 DEF LInv, CompleteInv
  <2> QED BY <1>2, <2>1, <2>2 DEF LaneOf, Registered, Absent
<1> QED BY <1>1, <1>2

\* A command at work in the worktree it made changes no lane.
LEMMA OwnWorktree ==
    ASSUME LInv, NEW p \in Procs, pc[p] \in Making, registry' = registry,
           \A d \in Paths : d # Path(p) => tree'[d] = tree[d],
           NEW n \in Names
    PROVE  LaneOf(n)' = LaneOf(n)
<1>1. Registered(n) => registry[n].path # Path(p)
  BY AtWorktree
<1>2. \A d \in Paths : Registered(n) /\ registry[n].path = d => tree[d] # Absent
  BY DEF LInv, CompleteInv
<1>3. \A d \in Paths : Registered(n) /\ registry[n].path = d => tree'[d] = tree[d]
  BY <1>1
<1> QED BY <1>2, <1>3, LaneStays

\* A step that only rewrites records changes no lane.
LEMMA RecordsOnly ==
    ASSUME LInv, \A m \in Names : registry'[m].path = registry[m].path,
           \A d \in Paths : tree[d] # Absent => tree'[d] # Absent /\ tree'[d].skills = tree[d].skills,
           NEW n \in Names
    PROVE  LaneOf(n)' = LaneOf(n)
<1>1. \A d \in Paths : Registered(n) /\ registry[n].path = d => tree[d] # Absent
  BY DEF LInv, CompleteInv
<1> QED BY <1>1, LaneStays

\* A record that is rewritten leaves the worktree and its skills.
LEMMA RecordRewritten ==
    ASSUME TypeOK, NEW d \in Paths, tree[d] # Absent, NEW record \in Records,
           tree' = [tree EXCEPT ![d].record = record]
    PROVE  \A e \in Paths : tree[e] # Absent => tree'[e] # Absent /\ tree'[e].skills = tree[e].skills
<1>1. tree[d] \in Worktrees
  BY DEF TypeOK
<1>2. [tree[d] EXCEPT !.record = record] \in Worktrees
  BY <1>1 DEF Worktrees
<1>3. /\ [tree[d] EXCEPT !.record = record] # Absent
      /\ [tree[d] EXCEPT !.record = record].skills = tree[d].skills
  BY <1>1, <1>2 DEF Worktrees, Absent
<1> QED BY <1>3 DEF TypeOK

LEMMA CreateKeepsLanes ==
    ASSUME LInv, NEW p \in Procs, Create(p), ~Register(p), NEW n \in Names
    PROVE  LaneOf(n)' = LaneOf(n)
<1>0. TypeOK
  BY DEF LInv
<1>1. CASE \/ \E m \in Names, d \in Paths : CreateLane(p, m, d)
           \/ DeleteBranch(p)
  <2>1. tree' = tree /\ registry' = registry
    BY <1>1 DEF CreateLane, DeleteBranch
  <2> QED BY <2>1, RecordsOnly
<1>2. CASE AddWorktree(p)
  <2>1. registry' = registry /\ Name(p) \in Names /\ Path(p) \in Paths
    BY <1>2 DEF AddWorktree, At, LInv, OwnerInv
  <2>2. CASE tree' = tree
    BY <2>1, <2>2, RecordsOnly
  <2>3. CASE tree[Path(p)] = Absent /\ tree' = [tree EXCEPT ![Path(p)] = Checkout(Name(p))]
    <3>1. \A d \in Paths : tree[d] # Absent => tree'[d] = tree[d]
      BY <1>0, <2>3 DEF TypeOK
    <3> QED BY <2>1, <3>1, RecordsOnly
  <2> QED BY <1>2, <2>2, <2>3 DEF AddWorktree
<1>3. CASE \/ ResolveSkills(p) \/ WriteLock(p) \/ WriteLocal(p) \/ RemoveWorktree(p)
           \/ \E s \in Skills : CopySkill(p, s)
  <2>1. pc[p] \in Making /\ registry' = registry
    BY <1>3 DEF ResolveSkills, WriteLock, WriteLocal, RemoveWorktree, CopySkill, At, Making
  <2>2. \A d \in Paths : d # Path(p) => tree'[d] = tree[d]
    <3>1. CASE ResolveSkills(p) \/ WriteLock(p) \/ WriteLocal(p) \/ RemoveWorktree(p)
      BY <1>0, <3>1 DEF ResolveSkills, WriteLock, WriteLocal, RemoveWorktree, TypeOK
    <3>2. ASSUME NEW s \in Skills, CopySkill(p, s)
          PROVE  \A d \in Paths : d # Path(p) => tree'[d] = tree[d]
      BY <1>0, <3>2 DEF CopySkill, TypeOK
    <3> QED BY <1>3, <3>1, <3>2
  <2> QED BY <2>1, <2>2, OwnWorktree
<1> QED BY <1>1, <1>2, <1>3 DEF Create

LEMMA RunKeepsLanes ==
    ASSUME LInv, NEW p \in Procs, Run(p), NEW n \in Names
    PROVE  LaneOf(n)' = LaneOf(n)
<1>0. TypeOK
  BY DEF LInv
<1>1. CASE (\E m \in Names : LaneRun(p, m)) \/ RunnerEnds(p)
  <2>1. tree' = tree /\ registry' = registry
    BY <1>1 DEF LaneRun, RunnerEnds
  <2> QED BY <2>1, RecordsOnly
<1>2. CASE RecordLocal(p)
  <2>1. /\ registry' = registry /\ pc[p] = "record" /\ Path(p) \in Paths
        /\ tree[Path(p)] # Absent
    BY <1>2 DEF RecordLocal, At, LInv, OwnerInv, CompleteInv
  <2>2. tree[Path(p)] \in Worktrees /\ tree[Path(p)].record \in Records
    BY <1>0, <2>1 DEF TypeOK, Worktrees
  <2>3. job[p].run \in 0 .. MaxRuns
    BY <1>0 DEF TypeOK, Jobs
  <2>4. CASE tree' = [tree EXCEPT ![Path(p)].record.state = "torn"]
    BY <1>0, <2>1, <2>4, TornTree, RecordsOnly
  <2>5. CASE tree' = [tree EXCEPT ![Path(p)].record = [@ EXCEPT !.state = "whole", !.run = job[p].run]]
    <3> DEFINE record == [tree[Path(p)].record EXCEPT !.state = "whole", !.run = job[p].run]
    <3>1. record \in Records
      BY <2>2, <2>3 DEF Records
    <3>2. tree' = [tree EXCEPT ![Path(p)].record = record]
      BY <2>5
    <3> HIDE DEF record
    <3> QED BY <1>0, <2>1, <3>1, <3>2, RecordRewritten, RecordsOnly
  <2> QED BY <1>2, <2>4, <2>5 DEF RecordLocal
<1>3. CASE RecordPublic(p)
  <2>1. tree' = tree /\ Name(p) \in Names
    BY <1>3 DEF RecordPublic, At, LInv, OwnerInv
  <2>2. CASE registry' = [registry EXCEPT ![Name(p)].state = "torn"]
    BY <1>0, <2>1, <2>2, TornRegistry, RecordsOnly
  <2>3. CASE registry' = [registry EXCEPT ![Name(p)] = [@ EXCEPT !.state = "whole", !.run = job[p].run]]
    <3>1. \A m \in Names : registry'[m].path = registry[m].path
      BY <1>0, <2>3 DEF TypeOK, Records
    <3> QED BY <2>1, <3>1, RecordsOnly
  <2> QED BY <1>3, <2>2, <2>3 DEF RecordPublic
<1> QED BY <1>1, <1>2, <1>3 DEF Run

LEMMA CrashKeepsLanes ==
    ASSUME LInv, NEW p \in Procs, Crash(p), NEW n \in Names
    PROVE  LaneOf(n)' = LaneOf(n)
<1>0. TypeOK
  BY DEF LInv
<1>1. CASE UNCHANGED <<tree, registry>>
  BY <1>1, RecordsOnly
<1>2. CASE /\ pc[p] \in {"local", "record"}
           /\ tree' = [tree EXCEPT ![Path(p)].record.state = "torn"]
           /\ UNCHANGED registry
  <2>1. Path(p) \in Paths /\ tree[Path(p)] # Absent
    BY <1>2 DEF LInv, OwnerInv, CompleteInv, Making
  <2> QED BY <1>0, <1>2, <2>1, TornTree, RecordsOnly
<1>3. CASE UNCHANGED tree /\ registry' = [registry EXCEPT ![Name(p)].state = "torn"]
  <2>1. \A m \in Names : registry'[m].path = registry[m].path
    BY <1>0, <1>3 DEF TypeOK, Records
  <2> QED BY <1>3, <2>1, RecordsOnly
<1> QED BY <1>1, <1>2, <1>3 DEF Crash

\* The last write of create_lane opens the lane, all at once.
LEMMA RegisterOpens ==
    ASSUME LInv, NEW p \in Procs, Register(p)
    PROVE  \/ \A n \in Names : LaneOf(n)' = LaneOf(n)
           \/ PromisedRegistry!Next
<1>0. TypeOK /\ pc[p] = "register" /\ pc[p] \in Making /\ tree' = tree
  BY DEF LInv, Register, At, Making
<1>1. PICK n \in Names, d \in Paths :
        /\ Name(p) = n /\ Path(p) = d
        /\ tree[d] \in Worktrees /\ tree[d] # Absent
        /\ ~Registered(n)
        /\ \A m \in Names : Registered(m) => registry[m].path # d
  BY <1>0, AtWorktree
<1>2. CASE registry' = [registry EXCEPT ![n].state = "torn"]
  BY <1>0, <1>2, TornRegistry, RecordsOnly
<1>3. CASE registry' = [registry EXCEPT ![n] = FirstRecord(p)]
  <2>1. tree[d].skills \in [Skills -> Versions]
    <3>1. /\ tree[d].lock = tree[d].skills
          /\ tree[d].skills \in [Skills -> Versions \cup {None}]
          /\ tree[d].lock \in [Skills -> Versions] \cup {None}
      BY <1>0, <1>1 DEF LInv, BuiltInv, Worktrees
    <3> QED BY <3>1, LockAssumption DEF Versions
  <2>2. LaneOf(n) = None /\ LaneOf(n)' = [path |-> d, skills |-> tree[d].skills]
    <3>1. registry'[n].path = d /\ d # None
      BY <1>0, <1>1, <1>3 DEF TypeOK, FirstRecord
    <3>2. tree'[d] = tree[d] /\ tree'[d] # Absent
      BY <1>0, <1>1
    <3> QED BY <1>1, <3>1, <3>2 DEF LaneOf, Registered, Absent
  <2>3. \A m \in Names \ {n} : LaneOf(m)' = LaneOf(m)
    <3>1. \A m \in Names \ {n} : registry'[m] = registry[m]
      BY <1>0, <1>1, <1>3 DEF TypeOK
    <3> QED BY <1>0, <3>1 DEF LaneOf, Registered, Absent
  <2>4. \A m \in Names : LaneOf(m) # None => LaneOf(m).path # d
    BY <1>1 DEF LaneOf
  <2>5. \A m \in Names : LaneOf(m)' = IF m = n THEN [path |-> d, skills |-> tree[d].skills] ELSE LaneOf(m)
    BY <2>2, <2>3
  <2>6. [m \in Names |-> LaneOf(m)]'
          = [[m \in Names |-> LaneOf(m)] EXCEPT ![n] = [path |-> d, skills |-> tree[d].skills]]
    BY <2>5
  <2>7. PromisedRegistry!Open(n, d)
    BY <2>1, <2>2, <2>4, <2>6 DEF PromisedRegistry!Open
  <2> QED BY <2>7 DEF PromisedRegistry!Next
<1> QED BY <1>1, <1>2, <1>3 DEF Register

\* Every step opens one lane or none.
LEMMA RegistryStep ==
    LInv /\ [Next]_vars => [PromisedRegistry!Next]_[n \in Names |-> LaneOf(n)]
<1> SUFFICES ASSUME LInv, [Next]_vars
             PROVE  \/ PromisedRegistry!Next
                    \/ \A n \in Names : LaneOf(n)' = LaneOf(n)
  OBVIOUS
<1>1. ASSUME NEW s \in Skills, SourceChanges(s)
      PROVE  \A n \in Names : LaneOf(n)' = LaneOf(n)
  BY <1>1, RecordsOnly DEF SourceChanges
<1>2. CASE UNCHANGED vars
  BY <1>2, RecordsOnly DEF vars
<1> QED BY <1>1, <1>2, RegisterOpens, CreateKeepsLanes, RunKeepsLanes, CrashKeepsLanes DEF Next

\* The registry implements its promise: a lane is opened by one write, in a worktree no
\* other lane has and with every required skill, and no command ever takes the worktree
\* away or changes a skill in it, whatever fails or is killed (lanes.py:75 create_lane).
THEOREM RegistryImplemented == Spec => LanesStay
<1>1. Init => PromisedRegistry!Init
  <2>1. Init => \A n \in Names : LaneOf(n) = None
    BY DEF Init, LaneOf, Registered, NoRecord
  <2> QED BY <2>1 DEF PromisedRegistry!Init
<1> QED BY <1>1, RegistryStep, Inductive, PTL DEF Spec, LanesStay, PromisedRegistry!Spec
=============================================================================
