------------------------------ MODULE Trajectory ------------------------------
(***************************************************************************)
(* The benchmarks of one child (scripts/bench_utils.py, pack_solution.py): *)
(* each packs the solution into solution.json, measures what it reads back *)
(* and leaves a snapshot under trajectory/, which a later A/B comparison   *)
(* looks up by label.  Benchmarks may overlap, and the agent edits the     *)
(* solution whenever it likes.  Files are read and copied one at a time,   *)
(* in any order, and a copy is empty before it is whole; one file is read  *)
(* at one moment.  The denominators are in BaselineCache.                  *)
(***************************************************************************)
EXTENDS Naturals

CONSTANTS
    Benches,     \* benchmark processes
    Labels,      \* values of --label
    Calls,       \* command lines: [kind, label, prior], None where not given
    Within,      \* pairs <<l, m>>: the text of l occurs in that of m
    Anchors,     \* labels with a kernel under docs/prior/variants
    MaxEdits,    \* bound on the versions of a file of the solution
    MaxBenches,  \* bound on benchmarks
    Seconds,     \* what folder names show of the clock, local time
    Crashes,     \* benchmarks may be killed
    Sources,     \* the files of solution/
    Torn,        \* the content of a copy that was opened and not filled
    None

Files == Sources \cup {"config"}
Names == [second : Seconds \cup {None}, label : Labels \cup {None}, suffix : 0 .. MaxBenches]

ASSUME TrajectoryAssumption ==
    /\ Within \subseteq Labels \X Labels
    /\ Calls \subseteq [kind : {"report", "compare", "variance"},
                       label : Labels \cup {None}, prior : Labels \cup {None}]
    /\ \A c \in Calls : (c.kind = "compare") = (c.prior # None)
    /\ MaxEdits \in Nat /\ MaxBenches \in Nat
    /\ Crashes \in BOOLEAN
    /\ None \notin Benches \cup Labels \cup Seconds \cup Nat \cup Names
    /\ Torn \notin Nat \cup {None}
    /\ Sources # {} /\ "config" \notin Sources

VARIABLES
    work,       \* the version of each file of the solution
    blob,       \* solution.json: the versions packed in it
    dirs,       \* trajectory/: what each directory holds, or Absent
    benches,    \* benchmarks begun
    pc, job,    \* each process: program counter and local variables
    mixed       \* history: directories whose results are of a solution that was
                \* edited, or a blob that was replaced, before the snapshot was taken

control == <<pc, job>>
vars == <<work, blob, dirs, benches, control, mixed>>

Absent   == [maker |-> None]
Missing  == [f \in Files |-> None]
NoResult == [state |-> "absent", of |-> Missing]
NoName   == [second |-> None, label |-> None, suffix |-> 0]
NoCall   == [kind |-> None, label |-> None, prior |-> None]
\* disturbed, raced and settled are history: the solution or the blob has changed since
\* it was packed; another benchmark has made the directory since the name was looked up;
\* the snapshot had all its files when it was found.
NoJob    == [call |-> NoCall, blob |-> Missing, found |-> None, listed |-> {}, against |-> Missing,
             name |-> NoName, disturbed |-> FALSE, raced |-> FALSE, settled |-> FALSE]

Init ==
    /\ work = [f \in Files |-> 0]
    /\ blob = Missing
    /\ dirs = [n \in Names |-> Absent]
    /\ benches = 0
    /\ pc = [p \in Benches |-> "idle"]
    /\ job = [p \in Benches |-> NoJob]
    /\ mixed = {}

At(p, label)   == pc[p] = label
Goto(p, label) == pc' = [pc EXCEPT ![p] = label]
\* The process is over, with or without an exception.
End(p) == Goto(p, "idle") /\ job' = [job EXCEPT ![p] = NoJob]

-----------------------------------------------------------------------------
(* Packing and measuring.                                                  *)

\* build_solution reads the configuration, then the files of the solution.
Pack(p, call) ==
    /\ At(p, "idle")
    /\ benches < MaxBenches
    /\ benches' = benches + 1
    /\ job' = [job EXCEPT ![p] = [NoJob EXCEPT !.call = call, !.blob["config"] = work["config"]]]
    /\ Goto(p, "packing")
    /\ UNCHANGED <<work, blob, dirs, mixed>>

Unpacked(p) == {f \in Sources : job[p].blob[f] = None}

PackSource(p, f) ==
    /\ At(p, "packing") /\ f \in Unpacked(p)
    /\ job' = [job EXCEPT ![p].blob[f] = work[f]]
    /\ UNCHANGED <<work, blob, dirs, benches, pc, mixed>>

\* pack_solution leaves the blob in solution.json, which all benchmarks share.
WriteBlob(p) ==
    /\ At(p, "packing") /\ Unpacked(p) = {}
    /\ blob' = job[p].blob
    /\ job' = [q \in Benches |-> IF q # p /\ At(q, "read") THEN [job[q] EXCEPT !.disturbed = TRUE]
                                                        ELSE job[q]]
    /\ Goto(p, "read")
    /\ UNCHANGED <<work, dirs, benches, mixed>>

\* main reads it back; it does not parse while another benchmark writes it.
ReadBlob(p) ==
    /\ At(p, "read")
    /\ \/ /\ job' = [job EXCEPT ![p].blob = blob]
          /\ Goto(p, IF job[p].call.kind = "compare" THEN "find" ELSE "measure")
       \/ (\E q \in Benches : At(q, "packing") /\ Unpacked(q) = {}) /\ End(p)
    /\ UNCHANGED <<work, blob, dirs, benches, mixed>>

\* The benchmark itself.  It may have no results, or nothing to measure; a comparison
\* saves its own side under a label only.
Measure(p) ==
    /\ At(p, "measure")
    /\ \/ /\ job[p].call.kind = "variance"
          /\ Goto(p, "noise") /\ UNCHANGED job
       \/ /\ job[p].call.kind = "report" \/ (job[p].call.kind = "compare" /\ job[p].call.label # None)
          /\ Goto(p, "stamp")
          /\ job' = [job EXCEPT ![p].found = None, ![p].against = Missing, ![p].settled = FALSE]
       \/ End(p)
    /\ UNCHANGED <<work, blob, dirs, benches, mixed>>

-----------------------------------------------------------------------------
(* _find_trajectory_snapshot and _pack_snapshot.                           *)

Present(n)    == dirs[n] # Absent
HasSources(n) == Present(n) /\ \E f \in Sources : dirs[n].files[f] # None
Matching(l)   == {n \in Names : n.label # None /\ <<l, n.label>> \in Within /\ HasSources(n)}
Complete(n)   == \A f \in Files : dirs[n].files[f] \notin {None, Torn}

\* The latest of the candidates by mtime: with overlapping benchmarks and killed ones
\* that may be any of them.  Without one the anchor's kernel, which is the first
\* version of the solution; else the process exits.
Find(p) ==
    /\ At(p, "find")
    /\ \/ \E n \in Matching(job[p].call.prior) :
             job' = [job EXCEPT ![p].found = n, ![p].settled = Complete(n)] /\ Goto(p, "pair")
       \/ /\ Matching(job[p].call.prior) = {}
          /\ IF job[p].call.prior \in Anchors
             THEN job' = [job EXCEPT ![p].against = [f \in Files |-> 0]] /\ Goto(p, "measure")
             ELSE End(p)
    /\ UNCHANGED <<work, blob, dirs, benches, mixed>>

Reading(p) == dirs[job[p].found].files

\* Mutant: the project's configuration is always taken.
ChooseProject(p) ==
    /\ At(p, "pair")
    /\ Goto(p, "project")
    /\ UNCHANGED <<work, blob, dirs, benches, job, mixed>>

\* A snapshot without a configuration takes the project's.
ChooseConfig(p) ==
    /\ At(p, "pair")
    /\ Goto(p, IF Reading(p)["config"] = None THEN "project" ELSE "own")
    /\ UNCHANGED <<work, blob, dirs, benches, job, mixed>>

\* One that is not written yet may not parse, or parse as something else.
ReadConfig(p) ==
    LET config == IF At(p, "own") THEN Reading(p)["config"] ELSE work["config"] IN
    /\ pc[p] \in {"own", "project"}
    /\ \/ job' = [job EXCEPT ![p].against["config"] = config] /\ Goto(p, "list")
       \/ config = Torn /\ End(p)
    /\ UNCHANGED <<work, blob, dirs, benches, mixed>>

\* iterdir() reads the names at once, the loop the files one by one.
ListSources(p) ==
    /\ At(p, "list")
    /\ job' = [job EXCEPT ![p].listed = {f \in Sources : Reading(p)[f] # None}]
    /\ Goto(p, "stage")
    /\ UNCHANGED <<work, blob, dirs, benches, mixed>>

StageSource(p, f) ==
    /\ At(p, "stage") /\ f \in job[p].listed
    /\ job' = [job EXCEPT ![p].against[f] = Reading(p)[f], ![p].listed = @ \ {f}]
    /\ Goto(p, IF job[p].listed = {f} THEN "measure" ELSE "stage")
    /\ UNCHANGED <<work, blob, dirs, benches, mixed>>

-----------------------------------------------------------------------------
(* save_trajectory.                                                        *)

\* Local time: it may show a second again.
Stamp(p) ==
    /\ At(p, "stamp")
    /\ \E now \in Seconds :
         job' = [job EXCEPT ![p].name = [second |-> now, label |-> job[p].call.label, suffix |-> 0]]
    /\ Goto(p, "look")
    /\ UNCHANGED <<work, blob, dirs, benches, mixed>>

\* Mutant: the first name is taken as it is.
LookNever(p) ==
    /\ At(p, "look")
    /\ Goto(p, "mkdir")
    /\ UNCHANGED <<work, blob, dirs, benches, job, mixed>>

\* The loop over suffixes until a name is free; with MaxBenches benchmarks, one below
\* MaxBenches is.
Look(p) ==
    /\ At(p, "look")
    /\ IF Present(job[p].name)
       THEN job[p].name.suffix < MaxBenches /\ job' = [job EXCEPT ![p].name.suffix = @ + 1] /\ UNCHANGED pc
       ELSE Goto(p, "mkdir") /\ UNCHANGED job
    /\ UNCHANGED <<work, blob, dirs, benches, mixed>>

New(p)      == [maker |-> p, files |-> Missing, results |-> NoResult]
Rivals(p)   == {q \in Benches \ {p} : At(q, "mkdir") /\ job[q].name = job[p].name}
Outraced(p) == job' = [q \in Benches |-> IF q \in Rivals(p) THEN [job[q] EXCEPT !.raced = TRUE] ELSE job[q]]

\* Mutant: a directory that exists is used.
MakeOrUse(p) ==
    /\ At(p, "mkdir")
    /\ dirs' = IF Present(job[p].name) THEN dirs ELSE [dirs EXCEPT ![job[p].name] = New(p)]
    /\ Outraced(p)
    /\ Goto(p, "copy")
    /\ UNCHANGED <<work, blob, benches, mixed>>

\* mkdir raises when the directory exists by now: the results are lost.
MakeDir(p) ==
    /\ At(p, "mkdir")
    /\ IF Present(job[p].name)
       THEN End(p) /\ UNCHANGED dirs
       ELSE /\ dirs' = [dirs EXCEPT ![job[p].name] = New(p)]
            /\ Outraced(p)
            /\ Goto(p, "copy")
    /\ UNCHANGED <<work, blob, benches, mixed>>

Copied(p) == dirs[job[p].name].files

\* Mutant: the configuration is copied first, and the sources are forgotten.
ConfigFirst(p) == IF Copied(p)["config"] = None THEN {"config"} ELSE {f \in Sources : Copied(p)[f] = None}

\* The files that may come next: the sources in any order, the configuration last.
ToCopy(p) ==
    LET missing == {f \in Sources : Copied(p)[f] = None}
    IN IF missing = {} THEN {"config"} ELSE missing

\* shutil.copy2 opens one copy at a time, which is empty until it is filled with the
\* file as it is then.
OpenCopy(p, f) ==
    /\ At(p, "copy")
    /\ \A g \in Files : Copied(p)[g] # Torn
    /\ f \in ToCopy(p)
    /\ dirs' = [dirs EXCEPT ![job[p].name].files[f] = Torn]
    /\ UNCHANGED <<work, blob, benches, control, mixed>>

FillCopy(p, f) ==
    /\ At(p, "copy") /\ Copied(p)[f] = Torn
    /\ dirs' = [dirs EXCEPT ![job[p].name].files[f] = work[f]]
    /\ Goto(p, IF f = "config" THEN "results" ELSE "copy")
    /\ UNCHANGED <<work, blob, benches, job, mixed>>

\* Mutant: the results go with whatever solution.json holds by now.
WriteWithBlob(p) ==
    /\ At(p, "results")
    /\ dirs' = [dirs EXCEPT ![job[p].name].results = [state |-> "whole", of |-> blob]]
    /\ mixed' = IF job[p].disturbed THEN mixed \cup {job[p].name} ELSE mixed
    /\ End(p)
    /\ UNCHANGED <<work, blob, benches>>

WriteResults(p) ==
    /\ At(p, "results")
    /\ dirs' = [dirs EXCEPT ![job[p].name].results = [state |-> "whole", of |-> job[p].blob]]
    /\ mixed' = IF job[p].disturbed THEN mixed \cup {job[p].name} ELSE mixed
    /\ End(p)
    /\ UNCHANGED <<work, blob, benches>>

\* run_variance_check keeps its noise floor in a directory named by the label alone.
NoiseFloor(p) ==
    /\ At(p, "noise")
    /\ LET n == [NoName EXCEPT !.label = job[p].call.label]
       IN IF job[p].call.label = None \/ Present(n)
          THEN UNCHANGED dirs
          ELSE dirs' = [dirs EXCEPT ![n] = New(p)]
    /\ End(p)
    /\ UNCHANGED <<work, blob, benches, mixed>>

-----------------------------------------------------------------------------
(* The world.                                                              *)

\* The agent edits a file.
Edit(f) ==
    /\ work[f] < MaxEdits
    /\ work' = [work EXCEPT ![f] = @ + 1]
    /\ job' = [p \in Benches |-> IF pc[p] \in {"idle", "results", "noise"} THEN job[p]
                                ELSE [job[p] EXCEPT !.disturbed = TRUE]]
    /\ UNCHANGED <<blob, dirs, benches, pc, mixed>>

\* A benchmark is killed; the results it was writing may be torn.
Crash(p) ==
    /\ Crashes
    /\ ~At(p, "idle")
    /\ End(p)
    /\ \/ UNCHANGED dirs
       \/ /\ At(p, "results")
          /\ dirs' = [dirs EXCEPT ![job[p].name].results.state = "torn"]
    /\ UNCHANGED <<work, blob, benches, mixed>>

Step(p) ==
    \/ WriteBlob(p) \/ ReadBlob(p) \/ Find(p) \/ ChooseConfig(p) \/ ReadConfig(p) \/ ListSources(p)
    \/ Measure(p) \/ Stamp(p) \/ Look(p) \/ MakeDir(p) \/ WriteResults(p) \/ NoiseFloor(p)
    \/ \E f \in Files : PackSource(p, f) \/ StageSource(p, f) \/ OpenCopy(p, f) \/ FillCopy(p, f)

Next == (\E p \in Benches : (\E call \in Calls : Pack(p, call)) \/ Step(p) \/ Crash(p))
        \/ (\E f \in Files : Edit(f))

Spec == Init /\ [][Next]_vars

-----------------------------------------------------------------------------
(* Properties.                                                             *)

Versions  == 0 .. MaxEdits
Packages  == [Files -> Versions \cup {None}]
Contents  == [Files -> Versions \cup {None, Torn}]
Results   == [state : {"absent", "torn", "whole"}, of : Packages]
Snapshots == [maker : Benches, files : Contents, results : Results]
Jobs      == [call : Calls \cup {NoCall}, blob : Packages, found : Names \cup {None},
              listed : SUBSET Sources, against : Contents, name : Names,
              disturbed : BOOLEAN, raced : BOOLEAN, settled : BOOLEAN]
Labs      == {"idle", "packing", "read", "find", "pair", "own", "project", "list", "stage", "measure",
              "stamp", "look", "mkdir", "copy", "results", "noise"}

\* Every variable has its type.
TypeOK ==
    /\ work \in [Files -> Versions]
    /\ blob \in Packages
    /\ dirs \in [Names -> Snapshots \cup {Absent}]
    /\ benches \in 0 .. MaxBenches
    /\ pc \in [Benches -> Labs] /\ job \in [Benches -> Jobs]
    /\ mixed \subseteq Names

Whole(n) == Present(n) /\ dirs[n].results.state = "whole"

\* The kernel and configuration in a snapshot are the ones its results were measured
\* on, if no edit and no other benchmark's pack came in between.
ResultsOfSources ==
    \A n \in Names \ mixed : Whole(n) => dirs[n].files = dirs[n].results.of

\* A comparison against such a snapshot measures those same files if they were all
\* there when it was found.  One that met them while they were being copied may run on
\* less, a file missing or half copied, but never on another version of a source.
ComparedAsMeasured ==
    \A p \in Benches : LET n == job[p].found IN
        At(p, "measure") /\ n # None /\ n \in {m \in Names \ mixed : Whole(m)} =>
            /\ job[p].settled => job[p].against = dirs[n].results.of
            /\ \A f \in Sources : job[p].against[f] \in {None, Torn, dirs[n].results.of[f]}

\* A measured result fails to find a directory of its own only if another benchmark
\* made that directory since it looked.
LostOnlyToRace ==
    \A p \in Benches : At(p, "mkdir") /\ Present(job[p].name) => job[p].raced

\* A snapshot with its results never changes, whatever other benchmarks save.
SnapshotsStay ==
    [][\A n \in Names : Whole(n) => dirs'[n] = dirs[n]]_vars
=============================================================================
