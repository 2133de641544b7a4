---------------------------- MODULE BaselineCache ----------------------------
(***************************************************************************)
(* The denominator of every speedup.  A campaign keeps one golden baseline,*)
(* reference/<family>/baseline.json; a child workspace keeps a cache of    *)
(* it.  master.init_campaign seeds the golden as a shell without           *)
(* latencies, spawn copies it into a child, and the first child that       *)
(* profiles the reference replaces the shell (bench_utils.save_baseline).  *)
(***************************************************************************)
EXTENDS Integers, FiniteSets

CONSTANTS
    Children, Workloads,
    Envs,          \* gpu and backend
    Unknown,       \* the gpu or backend of a config that does not name it
    Sources,       \* what is profiled: the reference or an expert solution
    Modes, Kits,   \* terms of a campaign: its mode; its agent and profile
    DefaultKit,    \* what a baseline without agent and profile stands for
    None,          \* a field that is missing
    Calls,         \* subset of {"report", "variance", "compare"}
    Forcing,       \* --force-baseline is used
    Sequential,    \* one child at a time, and the master acts between rounds
    Faults,        \* subset of {"measure", "bench", "init"}: what may go wrong
    MaxMeasures, MaxInits   \* bounds: profiles of the reference, init_campaign calls

ASSUME CallsAssumption == Calls \subseteq {"report", "variance", "compare"}
ASSUME BoundsAssumption == {Forcing, Sequential} \subseteq BOOLEAN /\ MaxMeasures \in Nat /\ MaxInits \in Nat
ASSUME TermsAssumption == DefaultKit \in Kits /\ None \notin Kits /\ None \notin Modes
ASSUME EnvAssumption == None \notin Envs \cup {Unknown}
ASSUME SourceAssumption == None \notin Sources
ASSUME WorkloadsAssumption == Workloads # {}

VARIABLES
    golden,    \* reference/<family>/baseline.json
    tmp,       \* baseline.json.tmp beside it
    master,    \* the init_campaign call in progress and what it will write
    local,     \* [Children -> baseline.json of the child]
    child,     \* [Children -> configuration fixed at spawn, and history]
    pc,        \* [Children -> where its spawn or bench command is]
    job,       \* [Children -> locals of that command]
    measures, inits,  \* profiles and init_campaign calls so far
    promotions, \* history: times a run has written the golden
    scores      \* history: full benchmarks and their denominators

counts == <<measures, inits>>
vars == <<golden, tmp, master, local, child, pc, job, counts, promotions, scores>>

-----------------------------------------------------------------------------
(* A baseline file is absent, torn (no JSON) or JSON.                      *)

Absent == [kind |-> "absent"]
Torn   == [kind |-> "torn"]
Json(id, works, env, source, mode, kit) ==
    [kind |-> "json", id |-> id, works |-> works, env |-> env, source |-> source,
     mode |-> mode, kit |-> kit]

\* _shell_baseline: terms and environment, no latencies.
ShellOf(env, mode, kit) == Json(0, {}, env, "bootstrap", mode, kit)

Readable(file) == file.kind = "json"
Measured(file) == Readable(file) /\ file.works # {}

\* _archive_is_shell: what cannot be parsed counts as a shell.
IsShell(file) == ~Measured(file)

\* Mutant: an environment that cannot be detected counts as another one.
SameEnv(cached, current) == cached # None /\ current = cached

Comparable(cached, current) == cached # None /\ current \in {Unknown, cached}

\* load_baseline: the same workloads, source and environment.
Usable(file, c) ==
    /\ Readable(file)
    /\ file.works = Workloads
    /\ file.source = child[c].source
    /\ Comparable(file.env, child[c].env)

Load(c) == IF Usable(local[c], c) THEN local[c] ELSE Absent
NoJob == [call |-> None, sel |-> {}, quick |-> FALSE, base |-> Absent, data |-> Absent]
Quiet(c) == pc[c] \in {"unspawned", "idle", "over"}

Init ==
    /\ golden = Absent
    /\ tmp = Absent
    /\ master = [pc |-> "idle", data |-> Absent]
    /\ local = [c \in Children |-> Absent]
    /\ child = [c \in Children |->
                  [env |-> None, source |-> None, seed |-> 0, forced |-> FALSE]]
    /\ pc = [c \in Children |-> "unspawned"]
    /\ job = [c \in Children |-> NoJob]
    /\ measures = 0
    /\ inits = 0
    /\ promotions = 0
    /\ scores = {}

-----------------------------------------------------------------------------
(* master.init_campaign                                                    *)

\* The rounds of MASTER.md: nothing of a child runs when the master acts.  The
\* code does not enforce it.
BetweenRounds == Sequential => \A c \in Children : pc[c] \in {"unspawned", "over"}

KitOf(file) == IF file.kit = None THEN DefaultKit ELSE file.kit

Matches(file, env, kit) == Readable(file) /\ file.env = env /\ KitOf(file) = kit

\* Mutant: a mismatch re-seeds a measured baseline too.
InitReseeds(file, env, mode, kit) ==
    IF file = Absent \/ (Readable(file) /\ ~Matches(file, env, kit))
    THEN ShellOf(env, mode, kit) ELSE Absent

\* What init_campaign writes over the file it read; Absent: it writes nothing,
\* because the campaign is initialised already or the call is refused.
InitWrites(file, env, mode, kit) ==
    CASE file = Absent \/ (Readable(file) /\ ~Measured(file) /\ ~Matches(file, env, kit))
              -> ShellOf(env, mode, kit)
      [] /\ Matches(file, env, kit)
         /\ file.mode \in {None, mode}
         /\ None \in {file.mode, file.kit}
              -> [file EXCEPT !.mode = mode, !.kit = kit]
      [] OTHER -> Absent

\* A call that writes nothing leaves no trace; neither does one that finds the
\* mode field corrupted, which only an edit by hand does.
InitRead(env, mode, kit) ==
    /\ master.pc = "idle" /\ inits < MaxInits /\ BetweenRounds
    /\ InitWrites(golden, env, mode, kit) # Absent
    /\ inits' = inits + 1
    /\ master' = [pc |-> "truncate", data |-> InitWrites(golden, env, mode, kit)]
    /\ UNCHANGED <<golden, tmp, local, child, pc, job, measures, promotions, scores>>

\* write_text truncates the file, then writes it.
InitTruncate ==
    /\ master.pc = "truncate"
    /\ golden' = Torn
    /\ master' = [master EXCEPT !.pc = "write"]
    /\ UNCHANGED <<tmp, local, child, pc, job, counts, promotions, scores>>

InitWrite ==
    /\ master.pc = "write"
    /\ golden' = master.data
    /\ master' = [pc |-> "idle", data |-> Absent]
    /\ UNCHANGED <<tmp, local, child, pc, job, counts, promotions, scores>>

InitCrash ==
    /\ "init" \in Faults /\ master.pc # "idle"
    /\ master' = [pc |-> "idle", data |-> Absent]
    /\ UNCHANGED <<golden, tmp, local, child, pc, job, counts, promotions, scores>>

-----------------------------------------------------------------------------
(* spawn_child and spawn.py                                                *)

Configure(c, env) ==
    \E source \in Sources :
        child' = [child EXCEPT ![c] = [@ EXCEPT !.env = env, !.source = source]]

\* spawn_child and init_campaign are calls of one master.  _read_campaign_env
\* refuses a golden that is missing or torn.
SpawnRead(c) ==
    /\ pc[c] = "unspawned" /\ BetweenRounds /\ master.pc = "idle"
    /\ Readable(golden)
    /\ Configure(c, golden.env)
    /\ pc' = [pc EXCEPT ![c] = "copy"]
    /\ UNCHANGED <<golden, tmp, master, local, job, counts, promotions, scores>>

\* spawn.py by hand takes the environment from its arguments.
SpawnByHand(c) ==
    /\ pc[c] = "unspawned" /\ BetweenRounds /\ (Sequential => master.pc = "idle")
    /\ \E env \in Envs \cup {Unknown} : Configure(c, env)
    /\ pc' = [pc EXCEPT ![c] = "copy"]
    /\ UNCHANGED <<golden, tmp, master, local, job, counts, promotions, scores>>

\* History: the golden is complete and was measured as this child would.
Seeds(c) ==
    /\ Measured(golden)
    /\ golden.works = Workloads
    /\ golden.source = child[c].source
    /\ child[c].env \in {Unknown, golden.env}

SpawnCopy(c) ==
    /\ pc[c] = "copy"
    /\ local' = [local EXCEPT ![c] = golden]
    /\ child' = [child EXCEPT ![c].seed = IF Seeds(c) THEN golden.id ELSE 0]
    /\ pc' = [pc EXCEPT ![c] = "idle"]
    /\ UNCHANGED <<golden, tmp, master, job, counts, promotions, scores>>

EndRound(c) ==
    /\ pc[c] = "idle"
    /\ pc' = [pc EXCEPT ![c] = "over"]
    /\ UNCHANGED <<golden, tmp, master, local, child, job, counts, promotions, scores>>

-----------------------------------------------------------------------------
(* run_and_report, run_variance_check and run_ab_compare                   *)

Goto(c, op) == pc' = [pc EXCEPT ![c] = op]
Stop(c) == Goto(c, "idle") /\ job' = [job EXCEPT ![c] = NoJob]

\* With a filter (quick) a subset of the workloads is selected.  A report with
\* a cached baseline of an unmodified reference ends here and changes nothing.
Start(c, call, sel, quick, force) ==
    /\ pc[c] = "idle"
    /\ force => call = "report" /\ Forcing
    /\ quick \/ sel = Workloads
    /\ LET base == IF force THEN Absent ELSE Load(c) IN
       /\ Goto(c, IF base = Absent THEN "profile" ELSE "score")
       /\ job' = [job EXCEPT ![c] = [call |-> call, sel |-> sel, quick |-> quick,
                                     base |-> base, data |-> Absent]]
    /\ child' = [child EXCEPT ![c].forced = @ \/ force]
    /\ UNCHANGED <<golden, tmp, master, local, counts, promotions, scores>>

Measurement(c, works) == Json(measures + 1, works, child[c].env, child[c].source, None, None)
Private(c) == job[c].call = "report" /\ job[c].quick

\* A workload whose profile fails has no latency.  save_baseline writes nothing
\* when all of them fail; a quick report keeps its profile to itself; every
\* other call saves whatever it measured.  A report of a solution that is still
\* the reference (shortcut) takes its own latencies for the profile, and loads
\* the cache again even when it saved nothing.
Profile(c) ==
    /\ pc[c] = "profile" /\ measures < MaxMeasures
    /\ measures' = measures + 1
    /\ \E works \in SUBSET job[c].sel, shortcut \in BOOLEAN :
        /\ works = job[c].sel \/ "measure" \in Faults
        /\ shortcut => job[c].call = "report" /\ child[c].source = "reference"
        /\ \/ /\ Private(c) /\ ~shortcut
              /\ Goto(c, "score") /\ job' = [job EXCEPT ![c].base = Measurement(c, works)]
           \/ /\ ~Private(c) /\ works # {}
              /\ Goto(c, "save") /\ job' = [job EXCEPT ![c].data = Measurement(c, works)]
           \/ /\ IF Private(c) THEN shortcut ELSE works = {}
              /\ Goto(c, "reload") /\ UNCHANGED job
    /\ UNCHANGED <<golden, tmp, master, local, child, inits, promotions, scores>>

\* The runner returns nothing: a report ends, the others exit with an error.
NoResults(c) ==
    /\ pc[c] \in {"profile", "score"} /\ "measure" \in Faults
    /\ Stop(c)
    /\ UNCHANGED <<golden, tmp, master, local, child, counts, promotions, scores>>

-----------------------------------------------------------------------------
(* save_baseline: the child's cache first, then the golden if it is absent *)
(* or a shell.  Both by _atomic_write_json; nobody else opens the child's, *)
(* so its two steps are one.                                               *)

SaveLocal(c) ==
    /\ pc[c] = "save"
    /\ local' = [local EXCEPT ![c] = job[c].data]
    /\ Goto(c, "check")
    /\ UNCHANGED <<golden, tmp, master, child, job, counts, promotions, scores>>

\* Mutant: the archive is taken for promotable unless it is complete.
CheckComplete(c) ==
    /\ pc[c] = "check"
    /\ Goto(c, IF Measured(golden) /\ golden.works = Workloads THEN "reload" ELSE "carry")
    /\ UNCHANGED <<golden, tmp, master, local, child, job, counts, promotions, scores>>

CheckArchive(c) ==
    /\ pc[c] = "check"
    /\ Goto(c, IF IsShell(golden) THEN "carry" ELSE "reload")
    /\ UNCHANGED <<golden, tmp, master, local, child, job, counts, promotions, scores>>

\* Mutant: nothing is carried.
CarryNothing(c) ==
    /\ pc[c] = "carry"
    /\ Goto(c, "tmp")
    /\ UNCHANGED <<golden, tmp, master, local, child, job, counts, promotions, scores>>

\* The terms of the campaign are read from the file about to be replaced; from a
\* torn one nothing is carried.
CarryForward(c) ==
    /\ pc[c] = "carry"
    /\ job' = [job EXCEPT ![c].data =
                  IF Readable(golden) THEN [@ EXCEPT !.mode = golden.mode, !.kit = golden.kit] ELSE @]
    /\ Goto(c, "tmp")
    /\ UNCHANGED <<golden, tmp, master, local, child, counts, promotions, scores>>

WriteTmp(c) ==
    /\ pc[c] = "tmp"
    /\ tmp' = job[c].data
    /\ Goto(c, "rename")
    /\ UNCHANGED <<golden, master, local, child, job, counts, promotions, scores>>

\* Path.replace; FileNotFoundError when another child has renamed the same
\* temporary file.
RenameTmp(c) ==
    /\ pc[c] = "rename"
    /\ IF tmp = Absent
       THEN Stop(c) /\ UNCHANGED <<golden, tmp, promotions>>
       ELSE /\ golden' = tmp
            /\ tmp' = Absent
            /\ promotions' = promotions + 1
            /\ Goto(c, "reload")
            /\ UNCHANGED job
    /\ UNCHANGED <<master, local, child, counts, scores>>

\* Mutant: what was measured is used as it is.
UseMeasured(c) ==
    /\ pc[c] = "reload"
    /\ Goto(c, "score") /\ job' = [job EXCEPT ![c].base = job[c].data]
    /\ UNCHANGED <<golden, tmp, master, local, child, counts, promotions, scores>>

\* load_baseline once more.  Without a baseline a report goes on unscored, the
\* other calls exit.
Reload(c) ==
    /\ pc[c] = "reload"
    /\ IF Load(c) = Absent /\ job[c].call # "report"
       THEN Stop(c)
       ELSE Goto(c, "score") /\ job' = [job EXCEPT ![c].base = Load(c)]
    /\ UNCHANGED <<golden, tmp, master, local, child, counts, promotions, scores>>

\* inject_baseline and compute_score.  Only scores over all workloads are kept.
Score(c) ==
    /\ pc[c] = "score"
    /\ scores' = scores \cup
         IF job[c].sel = Workloads /\ ~job[c].quick /\ Readable(job[c].base)
         THEN {[base |-> job[c].base, env |-> child[c].env, source |-> child[c].source,
                seed |-> child[c].seed, forced |-> child[c].forced]}
         ELSE {}
    /\ Stop(c)
    /\ UNCHANGED <<golden, tmp, master, local, child, counts, promotions>>

\* The command is killed (timeout 600 in front of bench.sh); its writes are
\* atomic but for the temporary file.
BenchCrash(c) ==
    /\ "bench" \in Faults
    /\ ~Quiet(c) /\ pc[c] # "copy"
    /\ tmp' \in {tmp} \cup (IF pc[c] = "tmp" THEN {Torn} ELSE {})
    /\ Stop(c)
    /\ UNCHANGED <<golden, master, local, child, counts, promotions, scores>>

-----------------------------------------------------------------------------
Master ==
    \/ \E env \in Envs, mode \in Modes, kit \in Kits : InitRead(env, mode, kit)
    \/ InitTruncate \/ InitWrite \/ InitCrash

Bench(c) ==
    \/ \E call \in Calls, sel \in SUBSET Workloads \ {{}}, quick, force \in BOOLEAN :
          Start(c, call, sel, quick, force)
    \/ Profile(c) \/ NoResults(c)
    \/ SaveLocal(c) \/ CheckArchive(c) \/ CarryForward(c) \/ WriteTmp(c) \/ RenameTmp(c)
    \/ Reload(c) \/ Score(c) \/ BenchCrash(c)

Spawn(c) == SpawnRead(c) \/ SpawnByHand(c) \/ SpawnCopy(c) \/ EndRound(c)

Next == Master \/ \E c \in Children : Spawn(c) \/ Bench(c)

Spec == Init /\ [][Next]_vars

-----------------------------------------------------------------------------
Files == {Absent, Torn} \cup
    [kind : {"json"}, id : Nat, works : SUBSET Workloads, env : Envs \cup {Unknown},
     source : Sources \cup {"bootstrap"}, mode : Modes \cup {None}, kit : Kits \cup {None}]

ChildRecord ==
    [env : Envs \cup {Unknown, None}, source : Sources \cup {None}, seed : Nat, forced : BOOLEAN]

JobRecord ==
    [call : Calls \cup {None}, sel : SUBSET Workloads, quick : BOOLEAN, base : Files, data : Files]

ScoreRecord ==
    [base : Files, env : Envs \cup {Unknown, None}, source : Sources \cup {None},
     seed : Nat, forced : BOOLEAN]

\* The variables have their types.
TypeOK ==
    /\ {golden, tmp} \subseteq Files
    /\ master \in [pc : {"idle", "truncate", "write"}, data : Files]
    /\ local \in [Children -> Files]
    /\ child \in [Children -> ChildRecord]
    /\ \A c \in Children : pc[c] # "unspawned" => None \notin {child[c].env, child[c].source}
    /\ pc \in [Children -> {"unspawned", "copy", "idle", "over", "profile", "save", "check",
                            "carry", "tmp", "rename", "reload", "score"}]
    /\ job \in [Children -> JobRecord]
    /\ \A c \in Children :
          pc[c] \in {"save", "check", "carry", "tmp", "rename"} => Readable(job[c].data)
    /\ {measures, inits, promotions} \subseteq Nat
    /\ scores \subseteq ScoreRecord

SameLatencies(f, g) == Readable(f) /\ Readable(g) /\ f.id = g.id /\ f.works = g.works /\ f.env = g.env

\* While one child works at a time, nothing replaces a measured golden: no run,
\* and of init_campaign only a backfill that keeps its latencies
\* (docs/closed-loop.md, "First-time auto-promote").
GoldenIsFrozen ==
    [][Measured(golden) /\ golden' # golden =>
         master.pc = "truncate" /\ SameLatencies(master.data, golden)]_vars

\* A family's golden is promoted once, whatever was killed or failed.
PromotedOnce == promotions <= 1

\* A run that replaces the shell keeps the mode, agent and profile that
\* init_campaign locked in it (save_baseline, "Carry forward").
TermsStay ==
    [][Readable(golden) /\ Readable(golden') /\ golden' # golden =>
         golden'.mode = golden.mode /\ golden'.kit = golden.kit]_vars

\* No full score has a denominator from part of the workloads, another
\* environment or another source, though a profile may come back with holes.
ScoresAreWhole ==
    \A s \in scores :
        /\ s.base.works = Workloads
        /\ s.base.source = s.source
        /\ Comparable(s.base.env, s.env)

\* A child spawned from a complete golden scores against that golden in all its
\* rounds, other children and crashes notwithstanding, unless told to re-profile.
SeededScores ==
    \A s \in scores : s.seed # 0 /\ ~s.forced => s.base.id = s.seed

=============================================================================
