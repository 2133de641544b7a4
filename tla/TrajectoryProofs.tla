-------------------------- MODULE TrajectoryProofs --------------------------
(* Theorems about the snapshots of overlapping benchmarks, and their       *)
(* proofs, for any number of them, of labels, of sources and of edits.     *)
EXTENDS TrajectoryInvariant, TLAPS

-----------------------------------------------------------------------------
(* Types.                                                                  *)

LEMMA Apart ==
    /\ None \notin Nat /\ None \notin Labels /\ None \notin Benches /\ None \notin Names
    /\ None \notin Seconds /\ None \notin Versions /\ Torn \notin Versions /\ Torn # None
    /\ Absent \notin Snapshots
    /\ Missing \in Packages /\ NoResult \in Results /\ NoName \in Names /\ NoJob \in Jobs
    /\ \A p \in Benches : New(p) \in Snapshots
    /\ 0 \in Versions /\ Versions \subseteq Nat
    /\ Packages \subseteq Contents /\ Versioned \subseteq Packages
    /\ "config" \in Files /\ Sources \subseteq Files /\ "config" \notin Sources
<1>1. None \notin Nat /\ None \notin Labels /\ None \notin Benches /\ None \notin Names /\ None \notin Seconds
  BY TrajectoryAssumption
<1>2. Absent \notin Snapshots
  BY <1>1 DEF Absent, Snapshots
<1>3. Missing \in Packages /\ Missing \in Contents /\ NoResult \in Results
  BY DEF Missing, NoResult, Packages, Contents, Results
<1>4. NoName \in Names /\ 0 \in Versions /\ Versions \subseteq Nat
  BY TrajectoryAssumption DEF NoName, Names, Versions
<1>5. NoJob \in Jobs
  BY <1>3, <1>4 DEF NoJob, Jobs
<1>6. \A p \in Benches : New(p) \in Snapshots
  BY <1>3 DEF New, Snapshots
<1>7. Packages \subseteq Contents /\ Versioned \subseteq Packages
  BY DEF Packages, Contents, Versioned
<1>8. None \notin Versions /\ Torn \notin Versions /\ Torn # None
  BY <1>1, <1>4, TrajectoryAssumption
<1>9. "config" \in Files /\ Sources \subseteq Files /\ "config" \notin Sources
  BY TrajectoryAssumption DEF Files
<1>q. QED BY <1>1, <1>2, <1>3, <1>4, <1>5, <1>6, <1>7, <1>8, <1>9

LEMMA InitType == Init => TypeOK
BY Apart, TrajectoryAssumption DEF Init, TypeOK, Labs

\* Packing, reading and measuring keep the types.
LEMMA TypeMeasure ==
    ASSUME TypeOK, NEW p \in Benches,
           \/ \E call \in Calls : Pack(p, call)
           \/ \E f \in Files : PackSource(p, f)
           \/ WriteBlob(p) \/ ReadBlob(p) \/ Measure(p)
    PROVE  TypeOK'
<1> USE DEF At, Goto, End
<1>0. /\ work \in [Files -> Versions] /\ blob \in Packages
      /\ pc \in [Benches -> Labs] /\ job \in [Benches -> Jobs] /\ job[p] \in Jobs
  BY DEF TypeOK
<1>1. ASSUME NEW call \in Calls, Pack(p, call) PROVE TypeOK'
  <2>1. [NoJob EXCEPT !.call = call, !.blob["config"] = work["config"]] \in Jobs
    <3>1. [NoJob.blob EXCEPT !["config"] = work["config"]] \in Packages
      BY <1>0, Apart DEF Jobs, Packages
    <3>q. QED BY <3>1, Apart DEF Jobs
  <2>2. benches' = benches + 1 /\ benches < MaxBenches
    BY <1>1 DEF Pack
  <2>3. benches \in 0 .. MaxBenches /\ MaxBenches \in Nat
    BY TrajectoryAssumption DEF TypeOK
  <2>4. benches' \in 0 .. MaxBenches
    BY <2>2, <2>3
  <2>q. QED BY <1>0, <1>1, <2>1, <2>4 DEF Pack, TypeOK, Labs
<1>2. ASSUME NEW f \in Files, PackSource(p, f) PROVE TypeOK'
  <2>1. [job[p].blob EXCEPT ![f] = work[f]] \in Packages
    BY <1>0 DEF Jobs, Packages
  <2>2. [job[p] EXCEPT !.blob = [job[p].blob EXCEPT ![f] = work[f]]] \in Jobs
    BY <1>0, <2>1 DEF Jobs
  <2>3. job' = [job EXCEPT ![p] = [job[p] EXCEPT !.blob = [job[p].blob EXCEPT ![f] = work[f]]]]
    BY <1>0, <1>2 DEF PackSource
  <2>q. QED BY <1>0, <1>2, <2>2, <2>3 DEF PackSource, TypeOK
<1>3. CASE WriteBlob(p)
  <2>1. \A q \in Benches : job[q] \in Jobs /\ [job[q] EXCEPT !.disturbed = TRUE] \in Jobs
    BY <1>0 DEF Jobs
  <2>2. job' \in [Benches -> Jobs] /\ blob' \in Packages
    BY <1>0, <1>3, <2>1 DEF WriteBlob, Jobs
  <2>q. QED BY <1>3, <2>2 DEF WriteBlob, TypeOK, Labs
<1>4. CASE ReadBlob(p)
  <2>1. [job[p] EXCEPT !.blob = blob] \in Jobs
    BY <1>0 DEF Jobs
  <2>q. QED BY <1>0, <1>4, <2>1, Apart DEF ReadBlob, TypeOK, Labs
<1>5. CASE Measure(p)
  <2>1. [job[p] EXCEPT !.found = None, !.against = Missing, !.settled = FALSE] \in Jobs
    BY <1>0, Apart DEF Jobs
  <2>2. [job EXCEPT ![p].found = None, ![p].against = Missing, ![p].settled = FALSE] \in [Benches -> Jobs]
    BY <1>0, <2>1
  <2>3. job' \in [Benches -> Jobs]
    BY <1>0, <1>5, <2>2, Apart DEF Measure
  <2>4. pc' \in [Benches -> Labs]
    BY <1>0, <1>5 DEF Measure, Labs
  <2>q. QED BY <1>5, <2>3, <2>4 DEF Measure, TypeOK
<1>q. QED BY <1>1, <1>2, <1>3, <1>4, <1>5

\* So do the lookups of a comparison.
LEMMA TypeCompare ==
    ASSUME TypeOK, NEW p \in Benches,
           \/ Find(p) \/ ChooseConfig(p) \/ ListSources(p)
           \/ /\ job[p].found # None /\ Present(job[p].found)
              /\ ReadConfig(p) \/ \E f \in Files : StageSource(p, f)
    PROVE  TypeOK'
<1> USE DEF At, Goto, End
<1>0. /\ work \in [Files -> Versions]
      /\ pc \in [Benches -> Labs] /\ job \in [Benches -> Jobs] /\ job[p] \in Jobs
  BY DEF TypeOK
<1>1. CASE Find(p)
  <2>1. \A n \in Names : [job[p] EXCEPT !.found = n, !.settled = Complete(n)] \in Jobs
    BY <1>0 DEF Jobs, Complete
  <2>2. [job[p] EXCEPT !.against = [f \in Files |-> 0]] \in Jobs
    BY <1>0, Apart DEF Jobs, Contents
  <2>3. Matching(job[p].call.prior) \subseteq Names
    BY DEF Matching
  <2>4. \/ \E n \in Matching(job[p].call.prior) :
             job' = [job EXCEPT ![p] = [job[p] EXCEPT !.found = n, !.settled = Complete(n)]]
        \/ job' = [job EXCEPT ![p] = [job[p] EXCEPT !.against = [f \in Files |-> 0]]]
        \/ job' = [job EXCEPT ![p] = NoJob]
    BY <1>0, <1>1 DEF Find
  <2>5. job' \in [Benches -> Jobs]
    <3>1. ASSUME NEW new \in Jobs PROVE [job EXCEPT ![p] = new] \in [Benches -> Jobs]
      BY <1>0
    <3>2. ASSUME NEW n \in Matching(job[p].call.prior),
                 job' = [job EXCEPT ![p] = [job[p] EXCEPT !.found = n, !.settled = Complete(n)]]
          PROVE  job' \in [Benches -> Jobs]
      <4>1. [job[p] EXCEPT !.found = n, !.settled = Complete(n)] \in Jobs
        BY <2>1, <2>3
      <4>q. QED BY <3>1, <3>2, <4>1
    <3>q. QED BY <2>2, <2>4, <3>1, <3>2, Apart
  <2>q. QED BY <1>0, <1>1, <2>5 DEF Find, TypeOK, Labs
<1>2. CASE ChooseConfig(p)
  BY <1>0, <1>2 DEF ChooseConfig, TypeOK, Labs
<1>3. CASE ListSources(p)
  <2>1. [job[p] EXCEPT !.listed = {f \in Sources : Reading(p)[f] # None}] \in Jobs
    BY <1>0 DEF Jobs
  <2>q. QED BY <1>0, <1>3, <2>1 DEF ListSources, TypeOK, Labs
<1>4. ASSUME job[p].found # None, Present(job[p].found) PROVE Reading(p) \in Contents
  <2>1. job[p].found \in Names /\ dirs[job[p].found] \in Snapshots
    BY <1>0, <1>4 DEF Jobs, TypeOK, Present
  <2>q. QED BY <2>1 DEF Reading, Snapshots
<1>5. CASE job[p].found # None /\ Present(job[p].found) /\ ReadConfig(p)
  <2>1. PICK config : config = IF At(p, "own") THEN Reading(p)["config"] ELSE work["config"]
    OBVIOUS
  <2>2. config \in Versions \cup {None, Torn}
    BY <1>0, <1>4, <1>5, <2>1, Apart DEF Contents
  <2>3. [job[p].against EXCEPT !["config"] = config] \in Contents
    BY <1>0, <2>2 DEF Jobs, Contents
  <2>4. [job[p] EXCEPT !.against = [job[p].against EXCEPT !["config"] = config]] \in Jobs
    BY <1>0, <2>3 DEF Jobs
  <2>5. \/ /\ job' = [job EXCEPT ![p] = [job[p] EXCEPT !.against = [job[p].against EXCEPT !["config"] = config]]]
           /\ pc' = [pc EXCEPT ![p] = "list"]
        \/ pc' = [pc EXCEPT ![p] = "idle"] /\ job' = [job EXCEPT ![p] = NoJob]
    BY <1>0, <1>5, <2>1 DEF ReadConfig
  <2>q. QED BY <1>0, <1>5, <2>4, <2>5, Apart DEF ReadConfig, TypeOK, Labs
<1>6. ASSUME job[p].found # None, Present(job[p].found), NEW f \in Files, StageSource(p, f) PROVE TypeOK'
  <2> DEFINE against == [job[p].against EXCEPT ![f] = Reading(p)[f]]
  <2>1. against \in Contents
    BY <1>0, <1>4, <1>6 DEF Jobs, Contents
  <2>2. [job[p] EXCEPT !.against = against, !.listed = job[p].listed \ {f}] \in Jobs
    <3>1. job[p].listed \ {f} \subseteq Sources
      BY <1>0 DEF Jobs
    <3> HIDE DEF against
    <3>q. QED BY <1>0, <2>1, <3>1 DEF Jobs
  <2>3. job' = [job EXCEPT ![p] = [job[p] EXCEPT !.against = against, !.listed = job[p].listed \ {f}]]
    BY <1>0, <1>6 DEF StageSource
  <2>4. job' \in [Benches -> Jobs]
    <3> HIDE DEF against
    <3>q. QED BY <1>0, <2>2, <2>3
  <2>q. QED BY <1>0, <1>6, <2>4 DEF StageSource, TypeOK, Labs
<1>q. QED BY <1>1, <1>2, <1>3, <1>5, <1>6

LEMMA TypeName ==
    ASSUME TypeOK, NEW p \in Benches, Stamp(p) \/ Look(p)
    PROVE  TypeOK'
<1> USE DEF At, Goto, End
<1>0. /\ pc \in [Benches -> Labs] /\ job \in [Benches -> Jobs] /\ job[p] \in Jobs
      /\ MaxBenches \in Nat /\ job[p].name \in Names
  BY TrajectoryAssumption DEF TypeOK, Jobs
<1>1. CASE Stamp(p)
  <2>1. job[p].call.label \in Labels \cup {None}
    BY <1>0, TrajectoryAssumption DEF Jobs, NoCall
  <2>2. \A now \in Seconds : [second |-> now, label |-> job[p].call.label, suffix |-> 0] \in Names
    BY <1>0, <2>1 DEF Names
  <2>3. \A now \in Seconds :
          [job[p] EXCEPT !.name = [second |-> now, label |-> job[p].call.label, suffix |-> 0]] \in Jobs
    BY <1>0, <2>2 DEF Jobs
  <2>q. QED BY <1>0, <1>1, <2>3 DEF Stamp, TypeOK, Labs
<1>2. CASE Look(p) /\ ~Present(job[p].name)
  BY <1>0, <1>2 DEF Look, TypeOK, Labs
<1>3. CASE Look(p) /\ Present(job[p].name)
  <2>1. job[p].name.suffix + 1 \in 0 .. MaxBenches
    BY <1>0, <1>3 DEF Look, Names
  <2>2. [job[p].name EXCEPT !.suffix = @ + 1] \in Names
    BY <1>0, <2>1 DEF Names
  <2>3. [job[p] EXCEPT !.name = [job[p].name EXCEPT !.suffix = @ + 1]] \in Jobs
    BY <1>0, <2>2 DEF Jobs
  <2>4. job' = [job EXCEPT ![p] = [job[p] EXCEPT !.name = [job[p].name EXCEPT !.suffix = @ + 1]]]
    BY <1>0, <1>3 DEF Look
  <2>q. QED BY <1>0, <1>3, <2>3, <2>4 DEF Look, TypeOK, Labs
<1>q. QED BY <1>2, <1>3, <1>1

\* A directory that is there may be filled.
LEMMA TypeDirectory ==
    ASSUME TypeOK, NEW n \in Names, NEW s \in Snapshots
    PROVE  [dirs EXCEPT ![n] = s] \in [Names -> Snapshots \cup {Absent}]
BY DEF TypeOK

LEMMA TypeFill ==
    ASSUME TypeOK, NEW p \in Benches,
           \/ MakeDir(p) \/ NoiseFloor(p)
           \/ /\ Present(job[p].name)
              /\ (\E f \in Files : OpenCopy(p, f) \/ FillCopy(p, f)) \/ WriteResults(p) \/ Crash(p)
           \/ Crash(p) /\ ~At(p, "results")
    PROVE  TypeOK'
<1> USE DEF At, Goto, End
<1>0. /\ pc \in [Benches -> Labs] /\ job \in [Benches -> Jobs] /\ job[p] \in Jobs
      /\ work \in [Files -> Versions] /\ job[p].name \in Names /\ job[p].blob \in Packages
  BY DEF TypeOK, Jobs
<1> DEFINE n == job[p].name
<1>1. ASSUME Present(n) PROVE dirs[n] \in Snapshots
  BY <1>0, <1>1 DEF TypeOK, Present
<1>2. CASE MakeDir(p)
  <2>1. dirs' \in [Names -> Snapshots \cup {Absent}]
    BY <1>0, <1>2, Apart DEF MakeDir, TypeOK
  <2>2. \A q \in Benches : [job[q] EXCEPT !.raced = TRUE] \in Jobs /\ job[q] \in Jobs
    BY <1>0 DEF Jobs
  <2>3. job' \in [Benches -> Jobs]
    BY <1>0, <1>2, <2>2, Apart DEF MakeDir, Outraced
  <2>q. QED BY <1>0, <1>2, <2>1, <2>3 DEF MakeDir, TypeOK, Labs
<1>3. CASE NoiseFloor(p)
  <2>1. job[p].call.label \in Labels \cup {None}
    BY <1>0, TrajectoryAssumption DEF Jobs, NoCall
  <2>2. [NoName EXCEPT !.label = job[p].call.label] \in Names
    BY <2>1, Apart DEF Names
  <2>3. dirs' \in [Names -> Snapshots \cup {Absent}]
    BY <1>3, <2>2, Apart DEF NoiseFloor, TypeOK
  <2>q. QED BY <1>0, <1>3, <2>3, Apart DEF NoiseFloor, TypeOK, Labs
<1>4. ASSUME Present(n), NEW f \in Files, NEW v \in Versions \cup {Torn},
             dirs' = [dirs EXCEPT ![n].files[f] = v]
      PROVE  dirs' \in [Names -> Snapshots \cup {Absent}]
  <2>1. [dirs[n] EXCEPT !.files = [dirs[n].files EXCEPT ![f] = v]] \in Snapshots
    BY <1>0, <1>1, <1>4 DEF Snapshots, Contents
  <2>2. dirs' = [dirs EXCEPT ![n] = [dirs[n] EXCEPT !.files = [dirs[n].files EXCEPT ![f] = v]]]
    BY <1>4
  <2>q. QED BY <1>0, <2>1, <2>2, TypeDirectory
<1>5. ASSUME Present(n), NEW f \in Files, OpenCopy(p, f) \/ FillCopy(p, f) PROVE TypeOK'
  <2>1. dirs' \in [Names -> Snapshots \cup {Absent}]
    BY <1>0, <1>4, <1>5 DEF OpenCopy, FillCopy
  <2>q. QED BY <1>0, <1>5, <2>1 DEF OpenCopy, FillCopy, TypeOK, Labs, control
<1>6. CASE Present(n) /\ WriteResults(p)
  <2>1. [dirs[n] EXCEPT !.results = [state |-> "whole", of |-> job[p].blob]] \in Snapshots
    BY <1>0, <1>1, <1>6 DEF Snapshots, Results
  <2>2. dirs' = [dirs EXCEPT ![n] = [dirs[n] EXCEPT !.results = [state |-> "whole", of |-> job[p].blob]]]
    BY <1>6 DEF WriteResults
  <2>3. dirs' \in [Names -> Snapshots \cup {Absent}]
    BY <1>0, <2>1, <2>2, TypeDirectory
  <2>4. mixed' \subseteq Names
    BY <1>0, <1>6 DEF WriteResults, TypeOK
  <2>q. QED BY <1>0, <1>6, <2>3, <2>4, Apart DEF WriteResults, TypeOK, Labs
<1>7. CASE Crash(p) /\ (Present(n) \/ ~At(p, "results"))
  <2>1. dirs' \in [Names -> Snapshots \cup {Absent}]
    <3>1. CASE UNCHANGED dirs
      BY <3>1 DEF TypeOK
    <3>2. CASE At(p, "results") /\ dirs' = [dirs EXCEPT ![n].results.state = "torn"]
      <4>1. [dirs[n] EXCEPT !.results = [dirs[n].results EXCEPT !.state = "torn"]] \in Snapshots
        BY <1>1, <1>7, <3>2 DEF Snapshots, Results
      <4>2. dirs' = [dirs EXCEPT ![n] = [dirs[n] EXCEPT !.results = [dirs[n].results EXCEPT !.state = "torn"]]]
        BY <3>2
      <4>q. QED BY <1>0, <4>1, <4>2, TypeDirectory
    <3>q. QED BY <1>7, <3>1, <3>2 DEF Crash
  <2>q. QED BY <1>0, <1>7, <2>1, Apart DEF Crash, TypeOK, Labs
<1>q. QED BY <1>2, <1>3, <1>5, <1>6, <1>7

LEMMA TypeEdit ==
    ASSUME TypeOK, NEW f \in Files, Edit(f)
    PROVE  TypeOK'
<1>0. job \in [Benches -> Jobs] /\ work \in [Files -> Versions] /\ MaxEdits \in Nat
  BY TrajectoryAssumption DEF TypeOK
<1>1. work[f] + 1 \in Versions
  BY <1>0 DEF Edit, Versions
<1>2. work' \in [Files -> Versions]
  BY <1>0, <1>1 DEF Edit
<1>3. \A p \in Benches : [job[p] EXCEPT !.disturbed = TRUE] \in Jobs /\ job[p] \in Jobs
  BY <1>0 DEF Jobs
<1>4. job' \in [Benches -> Jobs]
  BY <1>3 DEF Edit
<1>q. QED BY <1>2, <1>4 DEF Edit, TypeOK

-----------------------------------------------------------------------------
(* What a step leaves of the other processes.                              *)

\* The process q stays where it is, with at most more history.
Kept(q) ==
    /\ pc'[q] = pc[q]
    /\ job'[q].blob = job[q].blob /\ job'[q].name = job[q].name
    /\ job'[q].found = job[q].found /\ job'[q].against = job[q].against
    /\ job'[q].listed = job[q].listed /\ job'[q].settled = job[q].settled
    /\ job[q].disturbed => job'[q].disturbed
    /\ job[q].raced => job'[q].raced

\* The directory n stays, and of its files those that are copied.
Grown(n) ==
    /\ Present(n)'
    /\ \A f \in Files : dirs[n].files[f] \in {None, Torn} \/ dirs'[n].files[f] = dirs[n].files[f]

LEMMA PackedKept ==
    ASSUME TInv, NEW q \in Benches, Kept(q),
           work' = work \/ pc[q] \in {"idle", "results", "noise"} \/ job'[q].disturbed,
           blob' = blob \/ ~At(q, "read") \/ (job'[q].disturbed /\ blob' \in Versioned)
    PROVE  PackedInv(q)'
BY DEF TInv, PackedInv, Kept, At

LEMMA FillingKept ==
    ASSUME TInv, NEW p \in Benches, NEW q \in Benches, p # q, Kept(q),
           \A n \in Names : Present(n) /\ ~Fills(p, n) => dirs'[n] = dirs[n],
           \A n \in Names : Present(n)' /\ ~Present(n) /\ n.second # None /\ At(q, "mkdir") /\ job[q].name = n
               => job'[q].raced
    PROVE  FillingInv(q)'
<1>0. job[q].name \in Names /\ FillingInv(q) /\ FillingInv(p)
  BY DEF TInv, TypeOK, Jobs
<1>1. ASSUME pc[q] \in Filling PROVE dirs'[job[q].name] = dirs[job[q].name]
  BY <1>0, <1>1 DEF FillingInv, Fills
<1>2. ASSUME At(q, "mkdir"), Present(job[q].name)' PROVE job'[q].raced
  <2>1. job[q].name.second # None
    BY <1>0, <1>2 DEF FillingInv, At
  <2>2. CASE Present(job[q].name)
    BY <1>0, <1>2, <2>2 DEF FillingInv, Kept
  <2>q. QED BY <1>0, <1>2, <2>1, <2>2 DEF Kept, Present
<1>q. QED BY <1>0, <1>1, <1>2 DEF FillingInv, Kept, At, Present, Filling

\* What a comparison has read stays true while directories only grow.
LEMMA ComparedKept ==
    ASSUME TInv, NEW q \in Benches, Kept(q), \A n \in Names : Present(n) => Grown(n), TypeOK'
    PROVE  ComparedInv(q)'
<1> SUFFICES ASSUME job'[q].found # None PROVE ComparedInv(q)'
  BY DEF ComparedInv
<1> DEFINE n == job[q].found
<1>1. n \in Names /\ job'[q].found = n /\ ComparedInv(q) /\ job'[q].against = job[q].against
      /\ job'[q].listed = job[q].listed /\ job'[q].settled = job[q].settled /\ pc'[q] = pc[q] /\ n # None
  BY DEF TInv, TypeOK, Jobs, Kept
<1>2. Present(n) /\ Grown(n) /\ Sources \subseteq Files
  BY <1>1, Apart DEF ComparedInv
<1>3. dirs[n].files \in Contents /\ dirs'[n].files \in Contents
  BY <1>1, <1>2 DEF TInv, TypeOK, Snapshots, Present, Grown
<1>4. \A f \in Sources : job[q].against[f] \in {None, Torn, dirs'[n].files[f]}
  BY <1>1, <1>2 DEF ComparedInv, Grown
<1>5. job[q].settled => dirs'[n].files = dirs[n].files
  <2>1. ASSUME job[q].settled PROVE \A f \in Files : dirs'[n].files[f] = dirs[n].files[f]
    BY <1>1, <1>2, <2>1, Apart DEF ComparedInv, Grown, Versioned
  <2>q. QED BY <1>3, <2>1 DEF Contents
<1>q. QED BY <1>1, <1>2, <1>4, <1>5 DEF ComparedInv, Grown, At

LEMMA DirectoryKept ==
    ASSUME TInv, NEW n \in Names, dirs'[n] = dirs[n], n \in mixed' <=> n \in mixed
    PROVE  DirectoryInv(n)' /\ (Present(n) => Grown(n))
BY DEF TInv, DirectoryInv, Whole, Present, New, Grown

\* A step of p that touches nothing but its own variables.
LEMMA LocalStep ==
    ASSUME TInv, TypeOK', NEW p \in Benches,
           pc' = [pc EXCEPT ![p] = pc'[p]], job' = [job EXCEPT ![p] = job'[p]],
           UNCHANGED <<work, blob, dirs, mixed>>,
           PackedInv(p)', FillingInv(p)', ComparedInv(p)'
    PROVE  TInv'
<1>0. pc \in [Benches -> Labs] /\ job \in [Benches -> Jobs]
  BY DEF TInv, TypeOK
<1>1. ASSUME NEW q \in Benches, q # p PROVE PackedInv(q)' /\ FillingInv(q)' /\ ComparedInv(q)'
  <2>1. Kept(q)
    BY <1>0, <1>1 DEF Kept
  <2>2. PackedInv(q)'
    BY <2>1, PackedKept
  <2>3. FillingInv(q)'
    BY <1>1, <2>1, FillingKept DEF Present
  <2>4. ComparedInv(q)'
    BY <2>1, ComparedKept, DirectoryKept
  <2>q. QED BY <2>2, <2>3, <2>4
<1>2. \A n \in Names : DirectoryInv(n)'
  BY DirectoryKept
<1>q. QED BY <1>1, <1>2 DEF TInv

\* A step of p that touches one directory, which p fills or which is new.
LEMMA FillStep ==
    ASSUME TInv, TypeOK', NEW p \in Benches, NEW n \in Names,
           \A q \in Benches : q # p => Kept(q),
           UNCHANGED <<work, blob>>,
           \A m \in Names : m # n => dirs'[m] = dirs[m] /\ (m \in mixed' <=> m \in mixed),
           ~Present(n) \/ (Fills(p, n) /\ Grown(n)),
           \A q \in Benches : q # p /\ At(q, "mkdir") /\ job[q].name = n /\ n.second # None /\ ~Present(n)
               => job'[q].raced,
           PackedInv(p)', FillingInv(p)', ComparedInv(p)', DirectoryInv(n)'
    PROVE  TInv'
<1>1. ASSUME NEW q \in Benches, q # p PROVE PackedInv(q)' /\ FillingInv(q)' /\ ComparedInv(q)'
  <2>1. Kept(q)
    BY <1>1
  <2>2. PackedInv(q)'
    BY <2>1, PackedKept
  <2>3. FillingInv(q)'
    <3>1. \A m \in Names : Present(m) /\ ~Fills(p, m) => dirs'[m] = dirs[m]
      OBVIOUS
    <3>2. \A m \in Names : Present(m)' /\ ~Present(m) /\ m.second # None /\ At(q, "mkdir") /\ job[q].name = m
            => job'[q].raced
      BY <1>1 DEF Present
    <3>q. QED BY <1>1, <2>1, <3>1, <3>2, FillingKept
  <2>4. ComparedInv(q)'
    BY <2>1, ComparedKept, DirectoryKept
  <2>q. QED BY <2>2, <2>3, <2>4
<1>2. ASSUME NEW m \in Names, m # n PROVE DirectoryInv(m)'
  BY <1>2, DirectoryKept
<1>q. QED BY <1>1, <1>2 DEF TInv

\* A process that fills its directory.
LEMMA Filler ==
    ASSUME TInv, NEW p \in Benches, pc[p] \in Filling
    PROVE  /\ job[p].name \in Names /\ job[p].name.second # None
           /\ Present(job[p].name) /\ dirs[job[p].name] \in Snapshots /\ Fills(p, job[p].name)
           /\ ~Whole(job[p].name) /\ job[p].name \notin mixed
           /\ job[p].blob \in Versioned /\ job[p].found = None
<1>1. FillingInv(p) /\ PackedInv(p) /\ job[p].name \in Names /\ pc[p] \notin {"idle", "packing", "measure"}
  BY DEF TInv, TypeOK, Jobs, Filling
<1>2. ~Whole(job[p].name)
  BY <1>1 DEF FillingInv, Whole, NoResult
<1>3. job[p].found = None
  BY DEF TInv, ComparedInv, Filling
<1>4. dirs[job[p].name] \in Snapshots /\ job[p].name \notin mixed
  BY <1>1, <1>2 DEF FillingInv, TInv, TypeOK, DirectoryInv, Present
<1>q. QED BY <1>1, <1>2, <1>3, <1>4 DEF FillingInv, PackedInv, Fills, At, Filling

\* The end of a process.
LEMMA Ended ==
    ASSUME TInv, NEW p \in Benches, End(p)
    PROVE  /\ PackedInv(p)' /\ FillingInv(p)' /\ ComparedInv(p)'
           /\ \A q \in Benches : q # p => Kept(q)
           /\ pc' = [pc EXCEPT ![p] = pc'[p]] /\ job' = [job EXCEPT ![p] = job'[p]]
<1>1. pc' = [pc EXCEPT ![p] = "idle"] /\ job' = [job EXCEPT ![p] = NoJob]
      /\ pc \in [Benches -> Labs] /\ job \in [Benches -> Jobs]
  BY DEF TInv, TypeOK, End, Goto
<1>2. pc'[p] = "idle" /\ job'[p].found = None
  BY <1>1 DEF NoJob
<1>3. PackedInv(p)' /\ FillingInv(p)' /\ ComparedInv(p)'
  BY <1>2 DEF PackedInv, FillingInv, ComparedInv, At, Filling
<1>q. QED BY <1>1, <1>3 DEF Kept

-----------------------------------------------------------------------------
(* The steps.                                                              *)

\* A process that ends and leaves everything as it is.
LEMMA EndKeeps ==
    ASSUME TInv, TypeOK', NEW p \in Benches, End(p), UNCHANGED <<work, blob, dirs, mixed>>
    PROVE  TInv'
BY Ended, LocalStep

LEMMA PackKeeps ==
    ASSUME TInv, NEW p \in Benches,
           (\E call \in Calls : Pack(p, call)) \/ (\E f \in Files : PackSource(p, f))
    PROVE  TInv'
<1> USE DEF At, Goto
<1>0. /\ TypeOK /\ TypeOK' /\ pc \in [Benches -> Labs] /\ job \in [Benches -> Jobs] /\ job[p] \in Jobs
      /\ work \in Versioned /\ PackedInv(p) /\ FillingInv(p) /\ ComparedInv(p)
  BY TypeMeasure DEF TInv, TypeOK, Versioned
<1>1. ASSUME NEW call \in Calls, Pack(p, call) PROVE TInv'
  <2>1. /\ job' = [job EXCEPT ![p] = [NoJob EXCEPT !.call = call, !.blob["config"] = work["config"]]]
        /\ pc' = [pc EXCEPT ![p] = "packing"] /\ UNCHANGED <<work, blob, dirs, mixed>>
    BY <1>1 DEF Pack
  <2>2. /\ job'[p].blob = [Missing EXCEPT !["config"] = work["config"]] /\ job'[p].found = None
        /\ job'[p].against = Missing /\ pc'[p] = "packing" /\ job' = [job EXCEPT ![p] = job'[p]]
        /\ pc' = [pc EXCEPT ![p] = pc'[p]]
    BY <1>0, <2>1 DEF NoJob
  <2>3. job'[p].blob["config"] # None /\ \A f \in Files : job'[p].blob[f] \in {None, work[f]}
    BY <1>0, <2>2, Apart DEF Missing, Versioned
  <2>4. PackedInv(p)' /\ FillingInv(p)' /\ ComparedInv(p)'
    BY <2>1, <2>2, <2>3 DEF PackedInv, FillingInv, ComparedInv, Filling
  <2>q. QED BY <1>0, <2>1, <2>2, <2>4, LocalStep
<1>2. ASSUME NEW f \in Files, PackSource(p, f) PROVE TInv'
  <2>1. /\ job' = [job EXCEPT ![p] = [job[p] EXCEPT !.blob = [job[p].blob EXCEPT ![f] = work[f]]]]
        /\ pc[p] = "packing" /\ f # "config" /\ UNCHANGED <<work, blob, dirs, mixed, pc>>
    BY <1>0, <1>2, Apart DEF PackSource, Unpacked
  <2>2. /\ job'[p].blob = [job[p].blob EXCEPT ![f] = work[f]] /\ job'[p].found = job[p].found
        /\ job'[p].against = job[p].against /\ job'[p].disturbed = job[p].disturbed
        /\ job' = [job EXCEPT ![p] = job'[p]] /\ pc' = [pc EXCEPT ![p] = pc'[p]]
        /\ job[p].blob \in Packages
    BY <1>0, <2>1 DEF Jobs
  <2>3. /\ job'[p].blob["config"] = job[p].blob["config"]
        /\ \A g \in Files : job'[p].blob[g] = IF g = f THEN work[f] ELSE job[p].blob[g]
    BY <2>1, <2>2, Apart DEF Packages
  <2>4. PackedInv(p)'
    BY <1>0, <2>1, <2>2, <2>3 DEF PackedInv
  <2>5. FillingInv(p)' /\ ComparedInv(p)'
    BY <1>0, <2>1, <2>2 DEF FillingInv, ComparedInv, Filling
  <2>q. QED BY <1>0, <2>1, <2>2, <2>4, <2>5, LocalStep
<1>q. QED BY <1>1, <1>2

LEMMA MeasureKeeps ==
    ASSUME TInv, NEW p \in Benches, ReadBlob(p) \/ Measure(p) \/ Stamp(p) \/ Look(p)
    PROVE  TInv'
<1> USE DEF At, Goto
<1>0. /\ TypeOK /\ TypeOK' /\ pc \in [Benches -> Labs] /\ job \in [Benches -> Jobs] /\ job[p] \in Jobs
      /\ work \in Versioned /\ PackedInv(p) /\ FillingInv(p) /\ ComparedInv(p)
  BY TypeMeasure, TypeName DEF TInv, TypeOK, Versioned
<1>1. CASE ReadBlob(p) /\ ~End(p)
  <2>1. /\ job' = [job EXCEPT ![p].blob = blob] /\ pc[p] = "read" /\ pc'[p] \in {"find", "measure"}
        /\ pc' = [pc EXCEPT ![p] = pc'[p]] /\ UNCHANGED <<work, blob, dirs, mixed>>
    BY <1>0, <1>1 DEF ReadBlob
  <2>2. /\ job'[p].blob = blob /\ job'[p].found = job[p].found /\ job'[p].against = job[p].against
        /\ job'[p].disturbed = job[p].disturbed /\ job' = [job EXCEPT ![p] = job'[p]]
    BY <1>0, <2>1 DEF Jobs
  <2>3. job[p].found = None
    BY <1>0, <2>1 DEF ComparedInv
  <2>4. PackedInv(p)' /\ FillingInv(p)' /\ ComparedInv(p)'
    BY <1>0, <2>1, <2>2, <2>3 DEF PackedInv, FillingInv, ComparedInv, Filling
  <2>q. QED BY <1>0, <2>1, <2>2, <2>4, LocalStep
<1>2. CASE Measure(p) /\ ~End(p)
  <2>1. /\ pc[p] = "measure" /\ pc'[p] \in {"noise", "stamp"} /\ pc' = [pc EXCEPT ![p] = pc'[p]]
        /\ UNCHANGED <<work, blob, dirs, mixed>>
    BY <1>0, <1>2 DEF Measure
  <2>2. /\ job' = [job EXCEPT ![p] = job'[p]]
        /\ job'[p].blob = job[p].blob /\ job'[p].disturbed = job[p].disturbed
        /\ pc'[p] = "stamp" => job'[p].found = None
        /\ pc'[p] = "noise" => job'[p] = job[p]
    BY <1>0, <1>2 DEF Measure, Jobs
  <2>3. PackedInv(p)' /\ FillingInv(p)'
    BY <1>0, <2>1, <2>2 DEF PackedInv, FillingInv, Filling
  <2>4. ComparedInv(p)'
    BY <1>0, <2>1, <2>2 DEF ComparedInv, Present
  <2>q. QED BY <1>0, <2>1, <2>2, <2>3, <2>4, LocalStep
<1>3. CASE Stamp(p)
  <2>1. PICK now \in Seconds :
          job' = [job EXCEPT ![p].name = [second |-> now, label |-> job[p].call.label, suffix |-> 0]]
    BY <1>3 DEF Stamp
  <2>2. /\ pc[p] = "stamp" /\ pc' = [pc EXCEPT ![p] = "look"] /\ UNCHANGED <<work, blob, dirs, mixed>>
        /\ job' = [job EXCEPT ![p] = job'[p]] /\ pc'[p] = "look"
        /\ job'[p].blob = job[p].blob /\ job'[p].found = job[p].found
        /\ job'[p].disturbed = job[p].disturbed
        /\ job'[p].name = [second |-> now, label |-> job[p].call.label, suffix |-> 0]
    BY <1>0, <1>3, <2>1 DEF Stamp, Jobs
  <2>3. job'[p].name.second # None
    BY <2>2, Apart
  <2>4. PackedInv(p)' /\ FillingInv(p)' /\ ComparedInv(p)'
    BY <1>0, <2>2, <2>3 DEF PackedInv, FillingInv, ComparedInv, Filling
  <2>q. QED BY <1>0, <2>2, <2>4, LocalStep
<1>4. CASE Look(p)
  <2>1. /\ pc[p] = "look" /\ UNCHANGED <<work, blob, dirs, mixed>>
        /\ pc' = [pc EXCEPT ![p] = pc'[p]] /\ pc'[p] \in {"look", "mkdir"}
        /\ job' = [job EXCEPT ![p] = job'[p]]
        /\ job'[p].blob = job[p].blob /\ job'[p].found = job[p].found
        /\ job'[p].disturbed = job[p].disturbed /\ job'[p].name.second = job[p].name.second
        /\ pc'[p] = "mkdir" => job'[p].name = job[p].name /\ ~Present(job[p].name)
    BY <1>0, <1>4 DEF Look, Jobs, Names
  <2>2. PackedInv(p)' /\ FillingInv(p)' /\ ComparedInv(p)'
    BY <1>0, <2>1 DEF PackedInv, FillingInv, ComparedInv, Filling, Present
  <2>q. QED BY <1>0, <2>1, <2>2, LocalStep
<1>5. CASE (ReadBlob(p) \/ Measure(p)) /\ End(p)
  BY <1>0, <1>5, EndKeeps DEF ReadBlob, Measure
<1>q. QED BY <1>1, <1>2, <1>3, <1>4, <1>5

\* What a process that compares knows of the snapshot it found.
LEMMA Comparing ==
    ASSUME TInv, NEW p \in Benches, job[p].found # None
    PROVE  /\ job[p].found \in Names /\ Present(job[p].found)
           /\ Reading(p) \in Contents /\ ComparedInv(p)
<1>1. job[p].found \in Names /\ ComparedInv(p)
  BY DEF TInv, TypeOK, Jobs
<1>2. Present(job[p].found)
  BY <1>1 DEF ComparedInv
<1>q. QED BY <1>1, <1>2 DEF Reading, TInv, TypeOK, Present, Snapshots

LEMMA FindKeeps ==
    ASSUME TInv, NEW p \in Benches, Find(p)
    PROVE  TInv'
<1> USE DEF At, Goto
<1>0. /\ TypeOK /\ TypeOK' /\ pc \in [Benches -> Labs] /\ job \in [Benches -> Jobs] /\ job[p] \in Jobs
      /\ pc[p] = "find" /\ UNCHANGED <<work, blob, dirs, mixed>>
      /\ PackedInv(p) /\ FillingInv(p) /\ ComparedInv(p)
  BY TypeCompare DEF TInv, TypeOK, Find
<1>1. job[p].found = None /\ job[p].against = Missing
  BY <1>0 DEF ComparedInv, PackedInv
<1>2. ASSUME NEW n \in Matching(job[p].call.prior), pc' = [pc EXCEPT ![p] = "pair"],
             job' = [job EXCEPT ![p].found = n, ![p].settled = Complete(n)]
      PROVE  TInv'
  <2>1. /\ job' = [job EXCEPT ![p] = job'[p]] /\ pc' = [pc EXCEPT ![p] = pc'[p]] /\ pc'[p] = "pair"
        /\ job'[p].found = n /\ job'[p].settled = Complete(n) /\ job'[p].against = Missing
        /\ job'[p].blob = job[p].blob /\ job'[p].disturbed = job[p].disturbed
    BY <1>0, <1>1, <1>2 DEF Jobs
  <2>2. n \in Names /\ n # None /\ Present(n)
    BY Apart DEF Matching, HasSources
  <2>3. dirs[n].files \in Contents
    BY <1>0, <2>2 DEF TypeOK, Present, Snapshots
  <2>4. Complete(n) => dirs[n].files \in Versioned
    BY <2>3 DEF Complete, Contents, Versioned
  <2>5. PackedInv(p)' /\ FillingInv(p)'
    BY <1>0, <2>1, <2>2 DEF PackedInv, FillingInv, Filling
  <2>6. \A f \in Sources : job'[p].against[f] = None
    BY <2>1, Apart DEF Missing
  <2>7. ComparedInv(p)'
    BY <1>0, <2>1, <2>2, <2>4, <2>6 DEF ComparedInv, Present
  <2>q. QED BY <1>0, <2>1, <2>5, <2>7, LocalStep
<1>3. CASE job' = [job EXCEPT ![p].against = [f \in Files |-> 0]] /\ pc' = [pc EXCEPT ![p] = "measure"]
  <2>1. /\ job' = [job EXCEPT ![p] = job'[p]] /\ pc' = [pc EXCEPT ![p] = pc'[p]] /\ pc'[p] = "measure"
        /\ job'[p].found = None
        /\ job'[p].blob = job[p].blob /\ job'[p].disturbed = job[p].disturbed
    BY <1>0, <1>1, <1>3 DEF Jobs
  <2>2. PackedInv(p)' /\ FillingInv(p)' /\ ComparedInv(p)'
    BY <1>0, <2>1 DEF PackedInv, FillingInv, ComparedInv, Filling
  <2>q. QED BY <1>0, <2>1, <2>2, LocalStep
<1>4. CASE End(p)
  BY <1>0, <1>4, EndKeeps
<1>q. QED BY <1>2, <1>3, <1>4 DEF Find

LEMMA ConfigKeeps ==
    ASSUME TInv, NEW p \in Benches, ChooseConfig(p) \/ ReadConfig(p)
    PROVE  TInv'
<1> USE DEF At, Goto
<1>0. /\ TypeOK /\ pc \in [Benches -> Labs] /\ job \in [Benches -> Jobs] /\ job[p] \in Jobs
      /\ pc[p] \in {"pair", "own", "project"} /\ UNCHANGED <<work, blob, dirs, mixed>>
      /\ PackedInv(p) /\ FillingInv(p) /\ job[p].found # None
  BY DEF TInv, TypeOK, PackedInv, ChooseConfig, ReadConfig
<1> DEFINE n == job[p].found
<1>1. n \in Names /\ Present(n) /\ Reading(p) \in Contents /\ ComparedInv(p) /\ Reading(p) = dirs[n].files
  BY <1>0, Comparing DEF Reading
<1>2. TypeOK'
  BY <1>0, <1>1, TypeCompare
<1>3. CASE ChooseConfig(p)
  <2>1. /\ pc' = [pc EXCEPT ![p] = pc'[p]] /\ pc'[p] \in {"own", "project"} /\ job' = job /\ pc[p] = "pair"
        /\ pc'[p] = "project" => dirs[n].files["config"] = None
    BY <1>0, <1>1, <1>3 DEF ChooseConfig
  <2>2. job[p].settled => pc'[p] # "project"
    BY <1>0, <1>1, <2>1, Apart DEF ComparedInv, Versioned
  <2>3. PackedInv(p)' /\ FillingInv(p)' /\ ComparedInv(p)'
    BY <1>0, <1>1, <2>1, <2>2 DEF PackedInv, FillingInv, ComparedInv, Filling, Present
  <2>q. QED BY <1>0, <1>2, <2>1, <2>3, LocalStep
<1>4. ASSUME ReadConfig(p), ~End(p) PROVE TInv'
  <2>1. PICK config : /\ job' = [job EXCEPT ![p].against["config"] = config]
                      /\ pc[p] = "own" => config = dirs[n].files["config"]
    BY <1>0, <1>1, <1>4 DEF ReadConfig
  <2>2. /\ pc' = [pc EXCEPT ![p] = pc'[p]] /\ pc'[p] = "list" /\ job' = [job EXCEPT ![p] = job'[p]]
        /\ job'[p].against = [job[p].against EXCEPT !["config"] = config] /\ pc[p] \in {"own", "project"}
        /\ job'[p].blob = job[p].blob /\ job'[p].disturbed = job[p].disturbed
        /\ job'[p].found = n /\ job'[p].settled = job[p].settled /\ job[p].against \in Contents
    BY <1>0, <1>4, <2>1 DEF ReadConfig, Jobs
  <2>3. job'[p].against["config"] = config /\ \A f \in Sources : job'[p].against[f] = job[p].against[f]
    BY <2>2, Apart DEF Contents
  <2>4. PackedInv(p)' /\ FillingInv(p)'
    BY <1>0, <2>2 DEF PackedInv, FillingInv, Filling
  <2>5. ComparedInv(p)'
    BY <1>0, <1>1, <2>1, <2>2, <2>3 DEF ComparedInv, Present
  <2>q. QED BY <1>0, <1>2, <2>2, <2>4, <2>5, LocalStep
<1>5. CASE ReadConfig(p) /\ End(p)
  BY <1>0, <1>2, <1>5, EndKeeps
<1>q. QED BY <1>3, <1>4, <1>5

LEMMA StageKeeps ==
    ASSUME TInv, NEW p \in Benches, ListSources(p) \/ \E f \in Files : StageSource(p, f)
    PROVE  TInv'
<1> USE DEF At, Goto
<1>0. /\ TypeOK /\ pc \in [Benches -> Labs] /\ job \in [Benches -> Jobs] /\ job[p] \in Jobs
      /\ pc[p] \in {"list", "stage"} /\ UNCHANGED <<work, blob, dirs, mixed>>
      /\ PackedInv(p) /\ FillingInv(p) /\ job[p].found # None
  BY DEF TInv, TypeOK, PackedInv, ListSources, StageSource
<1> DEFINE n == job[p].found
           files == dirs[n].files
<1>1. n \in Names /\ Present(n) /\ Reading(p) \in Contents /\ ComparedInv(p) /\ Reading(p) = files
  BY <1>0, Comparing DEF Reading
<1>2. TypeOK'
  BY <1>0, <1>1, TypeCompare
<1>3. CASE ListSources(p)
  <2>1. /\ pc' = [pc EXCEPT ![p] = pc'[p]] /\ pc'[p] = "stage" /\ pc[p] = "list"
        /\ job' = [job EXCEPT ![p] = job'[p]] /\ job'[p].listed = {f \in Sources : files[f] # None}
        /\ job'[p].blob = job[p].blob /\ job'[p].disturbed = job[p].disturbed
        /\ job'[p].found = n /\ job'[p].settled = job[p].settled /\ job'[p].against = job[p].against
    BY <1>0, <1>1, <1>3 DEF ListSources, Jobs
  <2>2. job[p].settled => job'[p].listed = Sources
    BY <1>0, <1>1, <2>1, Apart DEF ComparedInv, Versioned
  <2>3. PackedInv(p)' /\ FillingInv(p)'
    BY <1>0, <2>1 DEF PackedInv, FillingInv, Filling
  <2>4. ComparedInv(p)'
    BY <1>0, <1>1, <2>1, <2>2 DEF ComparedInv, Present
  <2>q. QED BY <1>0, <1>2, <2>1, <2>3, <2>4, LocalStep
<1>4. ASSUME NEW f \in Files, StageSource(p, f) PROVE TInv'
  <2>1. /\ pc' = [pc EXCEPT ![p] = IF job[p].listed = {f} THEN "measure" ELSE "stage"] /\ pc[p] = "stage"
        /\ f \in job[p].listed /\ job[p].listed \subseteq Sources /\ job[p].against \in Contents
        /\ job' = [job EXCEPT ![p].against[f] = files[f], ![p].listed = job[p].listed \ {f}]
    BY <1>0, <1>1, <1>4 DEF StageSource, Jobs
  <2>2. /\ pc' = [pc EXCEPT ![p] = pc'[p]] /\ pc'[p] = (IF job[p].listed = {f} THEN "measure" ELSE "stage")
        /\ job' = [job EXCEPT ![p] = job'[p]] /\ job'[p].listed = job[p].listed \ {f}
        /\ job'[p].against = [job[p].against EXCEPT ![f] = files[f]]
        /\ job'[p].blob = job[p].blob /\ job'[p].disturbed = job[p].disturbed
        /\ job'[p].found = n /\ job'[p].settled = job[p].settled
    BY <1>0, <2>1 DEF Jobs
  <2>3. \A g \in Files : job'[p].against[g] = IF g = f THEN files[g] ELSE job[p].against[g]
    BY <2>1, <2>2 DEF Contents
  <2>4. \A g \in Sources : job'[p].against[g] \in {None, Torn, files[g]}
    BY <1>0, <1>1, <2>3, Apart DEF ComparedInv
  <2>5. ASSUME job[p].settled
        PROVE  /\ files \in Versioned /\ job'[p].against["config"] = files["config"]
               /\ \A g \in Sources \ job'[p].listed : job'[p].against[g] = files[g]
    <3>1. /\ files \in Versioned /\ job[p].against["config"] = files["config"]
          /\ \A g \in Sources \ job[p].listed : job[p].against[g] = files[g]
      BY <1>0, <1>1, <2>1, <2>5 DEF ComparedInv
    <3>2. f # "config"
      BY <2>1, Apart
    <3>q. QED BY <2>2, <2>3, <3>1, <3>2, Apart
  <2>6. ASSUME job[p].settled, pc'[p] = "measure" PROVE job'[p].against = files
    <3>1. job'[p].listed = {}
      BY <2>2, <2>6
    <3>2. \A g \in Files : job'[p].against[g] = files[g]
      <4>1. \A g \in Sources : job'[p].against[g] = files[g]
        BY <2>5, <2>6, <3>1
      <4>2. job'[p].against["config"] = files["config"]
        BY <2>5, <2>6
      <4>q. QED BY <4>1, <4>2 DEF Files
    <3>3. job'[p].against \in Contents /\ files \in Contents
      BY <1>1, <1>2 DEF TypeOK, Jobs
    <3> HIDE DEF files
    <3>q. QED BY <3>2, <3>3 DEF Contents
  <2>7. PackedInv(p)' /\ FillingInv(p)'
    BY <1>0, <2>1, <2>2 DEF PackedInv, FillingInv, Filling
  <2>8. ComparedInv(p)'
    <3>1. dirs' = dirs /\ Present(n)' /\ n # None /\ job'[p].found = n /\ pc'[p] \in {"stage", "measure"}
      BY <1>0, <1>1, <2>2 DEF Present
    <3>2. job'[p].settled = job[p].settled
      BY <2>2
    <3>3. pc'[p] = "measure" /\ job'[p].settled => job'[p].against = files
      BY <2>6, <3>2
    <3>q. QED BY <2>4, <2>5, <3>1, <3>2, <3>3 DEF ComparedInv
  <2>q. QED BY <1>0, <1>2, <2>2, <2>7, <2>8, LocalStep
<1>q. QED BY <1>3, <1>4

LEMMA WriteBlobKeeps ==
    ASSUME TInv, NEW p \in Benches, WriteBlob(p)
    PROVE  TInv'
<1> USE DEF At, Goto
<1>0. /\ TypeOK /\ TypeOK' /\ pc \in [Benches -> Labs] /\ job \in [Benches -> Jobs] /\ job[p] \in Jobs
      /\ PackedInv(p) /\ pc[p] = "packing" /\ Unpacked(p) = {}
  BY TypeMeasure DEF TInv, TypeOK, WriteBlob
<1>1. job[p].blob \in Versioned /\ (~job[p].disturbed => job[p].blob = work) /\ work \in Versioned
  <2>1. job[p].blob \in Packages /\ work \in Versioned
    BY <1>0 DEF Jobs, TypeOK, Versioned
  <2>2. \A f \in Files : job[p].blob[f] # None
    BY <1>0 DEF Unpacked, PackedInv, Files
  <2>3. job[p].blob \in Versioned
    BY <2>1, <2>2 DEF Packages, Versioned
  <2>4. ~job[p].disturbed => \A f \in Files : job[p].blob[f] = work[f]
    BY <1>0, <2>2 DEF PackedInv
  <2>q. QED BY <2>1, <2>3, <2>4 DEF Versioned
<1>2. \A q \in Benches : q # p => Kept(q) /\ (At(q, "read") => job'[q].disturbed)
  <2>1. ASSUME NEW q \in Benches, q # p PROVE Kept(q) /\ (At(q, "read") => job'[q].disturbed)
    <3>1. job[q] \in Jobs /\ pc'[q] = pc[q]
      BY <1>0, <2>1 DEF WriteBlob
    <3>2. job'[q] = IF pc[q] = "read" THEN [job[q] EXCEPT !.disturbed = TRUE] ELSE job[q]
      BY <2>1 DEF WriteBlob
    <3>q. QED BY <3>1, <3>2 DEF Kept, Jobs
  <2>q. QED BY <2>1
<1>3. job'[p] = job[p] /\ pc'[p] = "read" /\ blob' = job[p].blob /\ UNCHANGED <<work, dirs, mixed>>
  BY <1>0 DEF WriteBlob
<1>4. PackedInv(p)' /\ FillingInv(p)'
  BY <1>0, <1>1, <1>3 DEF PackedInv, FillingInv, Filling
<1>5. ComparedInv(p)'
  <2>1. job[p].found = None
    BY <1>0 DEF TInv, ComparedInv
  <2>q. QED BY <1>3, <2>1 DEF ComparedInv
<1>6. ASSUME NEW q \in Benches, q # p PROVE PackedInv(q)' /\ FillingInv(q)' /\ ComparedInv(q)'
  <2>1. PackedInv(q)'
    BY <1>1, <1>2, <1>3, <1>6, PackedKept
  <2>2. FillingInv(q)'
    BY <1>2, <1>3, <1>6, FillingKept DEF Present
  <2>3. ComparedInv(q)'
    BY <1>0, <1>2, <1>3, <1>6, ComparedKept, DirectoryKept
  <2>q. QED BY <2>1, <2>2, <2>3
<1>7. \A n \in Names : DirectoryInv(n)'
  BY <1>3, DirectoryKept
<1>q. QED BY <1>0, <1>4, <1>5, <1>6, <1>7 DEF TInv

LEMMA MakeKeeps ==
    ASSUME TInv, NEW p \in Benches, MakeDir(p)
    PROVE  TInv'
<1> USE DEF At, Goto
<1>0. /\ TypeOK /\ TypeOK' /\ pc \in [Benches -> Labs] /\ job \in [Benches -> Jobs] /\ pc[p] = "mkdir"
      /\ PackedInv(p) /\ FillingInv(p) /\ ComparedInv(p)
  BY TypeFill DEF TInv, TypeOK, MakeDir
<1>1. CASE Present(job[p].name)
  BY <1>0, <1>1, EndKeeps DEF MakeDir
<1>2. CASE ~Present(job[p].name)
  <2>1. PICK n \in Names : n = job[p].name
    BY <1>0 DEF Jobs
  <2>2. /\ dirs' = [dirs EXCEPT ![n] = New(p)] /\ pc' = [pc EXCEPT ![p] = "copy"]
        /\ job' = [q \in Benches |-> IF q \in Rivals(p) THEN [job[q] EXCEPT !.raced = TRUE] ELSE job[q]]
        /\ UNCHANGED <<work, blob, mixed>> /\ n.second # None /\ ~Present(n)
    BY <1>0, <1>2, <2>1 DEF MakeDir, Outraced, FillingInv
  <2>3. dirs'[n] = New(p) /\ Present(n)' /\ \A m \in Names : m # n => dirs'[m] = dirs[m]
    BY <1>0, <2>2, Apart DEF TypeOK, Present
  <2>4. job'[p] = job[p] /\ pc'[p] = "copy" /\ job[p].found = None
    BY <1>0, <2>2 DEF Rivals, ComparedInv
  <2>5. \A q \in Benches : q # p => Kept(q) /\ (At(q, "mkdir") /\ job[q].name = n => job'[q].raced)
    <3>1. ASSUME NEW q \in Benches, q # p
          PROVE  Kept(q) /\ (At(q, "mkdir") /\ job[q].name = n => job'[q].raced)
      <4>1. job[q] \in Jobs /\ pc'[q] = pc[q]
        BY <1>0, <2>2, <3>1
      <4>2. job'[q] = IF pc[q] = "mkdir" /\ job[q].name = n THEN [job[q] EXCEPT !.raced = TRUE] ELSE job[q]
        BY <2>1, <2>2, <3>1 DEF Rivals
      <4>q. QED BY <4>1, <4>2 DEF Kept, Jobs
    <3>q. QED BY <3>1
  <2>6. n \notin mixed
    BY <2>2 DEF TInv, DirectoryInv, Whole
  <2>7. PackedInv(p)'
    BY <1>0, <2>2, <2>4 DEF PackedInv
  <2>8. FillingInv(p)'
    <3>1. New(p).maker = p /\ New(p).results = NoResult /\ \A f \in Files : New(p).files[f] = None
      BY DEF New, Missing
    <3>q. QED BY <1>0, <2>1, <2>2, <2>3, <2>4, <3>1, Apart DEF FillingInv, Filling
  <2>9. ComparedInv(p)'
    BY <2>4 DEF ComparedInv
  <2>10. DirectoryInv(n)'
    BY <2>2, <2>3, <2>6 DEF DirectoryInv, Whole, New, NoResult
  <2>q. QED BY <1>0, <2>2, <2>3, <2>5, <2>7, <2>8, <2>9, <2>10, FillStep
<1>q. QED BY <1>1, <1>2

\* Opening and filling one copy: p writes v into the file f of its directory.
LEMMA CopyKeeps ==
    ASSUME TInv, NEW p \in Benches, NEW f \in Files, OpenCopy(p, f) \/ FillCopy(p, f)
    PROVE  TInv'
<1> USE DEF At, Goto
<1>0. /\ TypeOK /\ pc \in [Benches -> Labs] /\ job \in [Benches -> Jobs] /\ pc[p] = "copy"
      /\ PackedInv(p) /\ FillingInv(p) /\ work \in Versioned /\ UNCHANGED <<work, blob, job, mixed>>
  BY DEF TInv, TypeOK, OpenCopy, FillCopy, Versioned, control
<1>1. PICK n \in Names : n = job[p].name
  BY <1>0, Filler DEF Filling
<1>2. /\ n.second # None /\ Present(n) /\ dirs[n] \in Snapshots /\ Fills(p, n) /\ n \notin mixed
      /\ job[p].found = None /\ dirs[n].maker = p /\ dirs[n].results = NoResult /\ dirs[n].files \in Contents
  BY <1>0, <1>1, Filler DEF Filling, FillingInv, Snapshots
<1> DEFINE old == dirs[n].files
<1>3. TypeOK'
  BY <1>0, <1>1, <1>2, TypeFill
<1>4. /\ old["config"] \in {None, Torn}
      /\ old["config"] = Torn => \A g \in Sources : old[g] \in Versions
      /\ ~job[p].disturbed => (\A g \in Files : old[g] \in {None, Torn, job[p].blob[g]}) /\ job[p].blob = work
  BY <1>0, <1>1 DEF FillingInv, PackedInv
<1>5. PICK v \in Versions \cup {Torn} :
        /\ dirs' = [dirs EXCEPT ![n].files[f] = v]
        /\ old[f] \in {None, Torn}
        /\ \/ /\ v = Torn /\ pc' = pc
              /\ f = "config" => \A g \in Sources : old[g] \in Versions
              /\ f # "config" => old["config"] # Torn
           \/ /\ v = work[f] /\ old[f] = Torn
              /\ pc' = [pc EXCEPT ![p] = IF f = "config" THEN "results" ELSE "copy"]
  <2>1. CASE OpenCopy(p, f)
    <3>1. /\ dirs' = [dirs EXCEPT ![n].files[f] = Torn] /\ pc' = pc
          /\ \A g \in Files : old[g] # Torn
          /\ f \in IF {g \in Sources : old[g] = None} = {} THEN {"config"} ELSE {g \in Sources : old[g] = None}
      BY <1>1, <2>1 DEF OpenCopy, ToCopy, Copied, control
    <3>2. f = "config" => \A g \in Sources : old[g] \in Versions
      BY <1>2, <3>1, Apart DEF Contents
    <3>3. old[f] \in {None, Torn}
      BY <1>4, <3>1
    <3>q. QED BY <3>1, <3>2, <3>3, Apart
  <2>2. CASE FillCopy(p, f)
    <3>1. /\ dirs' = [dirs EXCEPT ![n].files[f] = work[f]] /\ old[f] = Torn
          /\ pc' = [pc EXCEPT ![p] = IF f = "config" THEN "results" ELSE "copy"]
      BY <1>1, <2>2 DEF FillCopy, Copied
    <3>2. work[f] \in Versions
      BY <1>0 DEF Versioned
    <3>q. QED BY <3>1, <3>2
  <2>q. QED BY <2>1, <2>2
<1>6. /\ dirs'[n] = [dirs[n] EXCEPT !.files = [old EXCEPT ![f] = v]]
      /\ \A m \in Names : m # n => dirs'[m] = dirs[m]
  BY <1>0, <1>5 DEF TypeOK
<1>7. /\ dirs'[n].maker = p /\ dirs'[n].results = NoResult
      /\ \A g \in Files : dirs'[n].files[g] = IF g = f THEN v ELSE old[g]
  BY <1>2, <1>6 DEF Snapshots, Contents
<1>8. Present(n)' /\ Grown(n) /\ dirs'[n].files \in Contents
  <2>1. Present(n)'
    BY <1>7, Apart DEF Present, Absent
  <2>q. QED BY <1>3, <1>5, <1>7, <2>1 DEF Grown, TypeOK, Present, Snapshots
<1>9. PackedInv(p)' /\ ComparedInv(p)'
  BY <1>0, <1>2, <1>5 DEF PackedInv, ComparedInv
<1>10. FillingInv(p)'
  <2> DEFINE new == dirs'[n].files
  <2>1. ASSUME NEW g \in Files, ~job[p].disturbed PROVE new[g] \in {None, Torn, job[p].blob[g]}
    BY <1>4, <1>5, <1>7, <2>1
  <2>2. CASE pc'[p] = "copy"
    <3>1. ~(f = "config" /\ v = work[f]) \/ v = Torn
      BY <1>0, <1>5, <2>2
    <3>2. new["config"] \in {None, Torn}
      BY <1>4, <1>5, <1>7, <3>1, Apart
    <3>3. new["config"] = Torn => \A g \in Sources : new[g] \in Versions
      BY <1>0, <1>4, <1>5, <1>7, Apart DEF Versioned
    <3> HIDE DEF new
    <3>q. QED BY <1>0, <1>1, <1>2, <1>7, <1>8, <2>1, <2>2, <3>2, <3>3 DEF FillingInv, Filling, new
  <2>3. CASE pc'[p] = "results"
    <3>1. f = "config" /\ v = work[f] /\ old[f] = Torn
      BY <1>0, <1>5, <2>3
    <3>2. \A g \in Files : new[g] \in Versions
      BY <1>0, <1>4, <1>7, <3>1 DEF Files, Versioned
    <3>3. new \in Versioned
      BY <1>8, <3>2 DEF Contents, Versioned
    <3>4. ASSUME ~job[p].disturbed PROVE new = job[p].blob
      <4>1. \A g \in Files : new[g] = job[p].blob[g]
        BY <2>1, <3>2, <3>4, Apart
      <4>q. QED BY <1>0, <1>4, <3>3, <3>4, <4>1 DEF Versioned
    <3> HIDE DEF new
    <3>q. QED BY <1>0, <1>1, <1>2, <1>7, <1>8, <2>3, <3>3, <3>4 DEF FillingInv, Filling, new
  <2>q. QED BY <1>0, <1>5, <2>2, <2>3
<1>11. DirectoryInv(n)'
  BY <1>0, <1>2, <1>7 DEF DirectoryInv, Whole, NoResult
<1>12. \A q \in Benches : q # p => Kept(q)
  BY <1>0, <1>5 DEF Kept
<1>q. QED BY <1>0, <1>2, <1>3, <1>6, <1>8, <1>9, <1>10, <1>11, <1>12, FillStep

LEMMA ResultsKeep ==
    ASSUME TInv, NEW p \in Benches, WriteResults(p)
    PROVE  TInv'
<1>0. /\ TypeOK /\ pc[p] = "results" /\ FillingInv(p) /\ End(p)
  BY DEF TInv, WriteResults, At
<1>1. PICK n \in Names : n = job[p].name
  BY <1>0, Filler DEF Filling
<1>2. /\ n.second # None /\ Present(n) /\ dirs[n] \in Snapshots /\ Fills(p, n) /\ ~Whole(n)
      /\ n \notin mixed /\ job[p].blob \in Versioned
  BY <1>0, <1>1, Filler DEF Filling
<1>3. TypeOK'
  BY <1>0, <1>1, <1>2, TypeFill
<1> DEFINE results == [state |-> "whole", of |-> job[p].blob]
<1>4. /\ dirs' = [dirs EXCEPT ![n] = [dirs[n] EXCEPT !.results = results]]
      /\ mixed' = (IF job[p].disturbed THEN mixed \cup {n} ELSE mixed) /\ UNCHANGED <<work, blob>>
  BY <1>1 DEF WriteResults
<1>5. /\ dirs'[n].results = results /\ dirs'[n].files = dirs[n].files /\ dirs'[n].maker = dirs[n].maker
      /\ dirs'[n] # Absent /\ \A m \in Names : m # n => dirs'[m] = dirs[m]
  <2>1. /\ dirs'[n] = [dirs[n] EXCEPT !.results = results]
        /\ \A m \in Names : m # n => dirs'[m] = dirs[m]
    BY <1>0, <1>4 DEF TypeOK
  <2>2. dirs'[n].maker = dirs[n].maker /\ dirs'[n].maker # None
    BY <1>2, <2>1, Apart DEF Snapshots
  <2>q. QED BY <1>2, <2>1, <2>2 DEF Snapshots, Absent
<1>6. Present(n)' /\ Whole(n)' /\ dirs'[n].results.of = job[p].blob /\ Grown(n)
  BY <1>5 DEF Present, Whole, Grown
<1>7. DirectoryInv(n)'
  <2>1. dirs[n].files \in Versioned /\ (n \notin mixed' => dirs[n].files = job[p].blob)
    BY <1>0, <1>1, <1>4 DEF FillingInv, At
  <2>q. QED BY <1>2, <1>5, <1>6, <2>1 DEF DirectoryInv
<1>8. \A m \in Names : m # n => (m \in mixed' <=> m \in mixed)
  BY <1>4
<1>q. QED BY <1>0, <1>2, <1>3, <1>4, <1>5, <1>6, <1>7, <1>8, Ended, FillStep

LEMMA NoiseKeeps ==
    ASSUME TInv, NEW p \in Benches, NoiseFloor(p)
    PROVE  TInv'
<1>0. /\ TypeOK /\ TypeOK' /\ End(p) /\ UNCHANGED <<work, blob, mixed>>
      /\ pc \in [Benches -> Labs] /\ job \in [Benches -> Jobs]
  BY TypeFill DEF TInv, TypeOK, NoiseFloor
<1>1. PICK n : n = [NoName EXCEPT !.label = job[p].call.label]
  OBVIOUS
<1>2. n \in Names /\ n.second = None
  <2>1. job[p].call.label \in Labels \cup {None}
    BY <1>0, TrajectoryAssumption DEF Jobs, NoCall
  <2>q. QED BY <1>1, <2>1, Apart DEF Names, NoName
<1>3. CASE UNCHANGED dirs
  BY <1>0, <1>3, EndKeeps
<1>4. CASE ~Present(n) /\ dirs' = [dirs EXCEPT ![n] = New(p)]
  <2>1. dirs'[n] = New(p) /\ \A m \in Names : m # n => dirs'[m] = dirs[m]
    BY <1>0, <1>2, <1>4 DEF TypeOK
  <2>2. n \notin mixed
    BY <1>2, <1>4 DEF TInv, DirectoryInv, Whole
  <2>3. DirectoryInv(n)'
    BY <1>0, <2>1, <2>2 DEF DirectoryInv, Whole, New, NoResult
  <2>q. QED BY <1>0, <1>2, <1>4, <2>1, <2>2, <2>3, Ended, FillStep
<1>q. QED BY <1>1, <1>3, <1>4 DEF NoiseFloor

LEMMA CrashKeeps ==
    ASSUME TInv, NEW p \in Benches, Crash(p)
    PROVE  TInv'
<1>0. /\ TypeOK /\ End(p) /\ UNCHANGED <<work, blob, mixed>>
      /\ pc \in [Benches -> Labs] /\ job \in [Benches -> Jobs] /\ FillingInv(p)
  BY DEF TInv, TypeOK, Crash
<1>1. At(p, "results") => Present(job[p].name)
  BY <1>0 DEF FillingInv, Filling, At
<1>2. TypeOK'
  BY <1>0, <1>1, TypeFill
<1>3. CASE UNCHANGED dirs
  BY <1>0, <1>2, <1>3, EndKeeps
<1>4. CASE At(p, "results") /\ dirs' = [dirs EXCEPT ![job[p].name].results.state = "torn"]
  <2>1. PICK n \in Names : n = job[p].name
    BY <1>4, Filler DEF Filling, At
  <2>2. n.second # None /\ dirs[n] \in Snapshots /\ Fills(p, n) /\ n \notin mixed /\ Present(n)
    BY <1>4, <2>1, Filler DEF Filling, At
  <2>3. dirs' = [dirs EXCEPT ![n] = [dirs[n] EXCEPT !.results = [dirs[n].results EXCEPT !.state = "torn"]]]
    BY <1>4, <2>1
  <2>4. /\ dirs'[n].results = [dirs[n].results EXCEPT !.state = "torn"]
        /\ dirs'[n].files = dirs[n].files /\ \A m \in Names : m # n => dirs'[m] = dirs[m]
    BY <1>0, <2>2, <2>3 DEF TypeOK, Snapshots
  <2>5. dirs'[n] \in Snapshots
    BY <1>0, <2>2, <2>3 DEF TypeOK, Snapshots, Results
  <2>6. ~Whole(n)' /\ Present(n)' /\ Grown(n)
    BY <2>2, <2>4, <2>5, Apart DEF Whole, Present, Snapshots, Results, Grown
  <2>7. DirectoryInv(n)'
    BY <1>0, <2>2, <2>6 DEF DirectoryInv
  <2>q. QED BY <1>0, <1>2, <2>2, <2>4, <2>6, <2>7, Ended, FillStep
<1>q. QED BY <1>3, <1>4 DEF Crash

LEMMA EditKeeps ==
    ASSUME TInv, NEW f \in Files, Edit(f)
    PROVE  TInv'
<1>0. TypeOK' /\ UNCHANGED <<blob, dirs, pc, mixed>> /\ job \in [Benches -> Jobs]
  BY TypeEdit DEF TInv, TypeOK, Edit
<1>1. ASSUME NEW q \in Benches
      PROVE  /\ Kept(q)
             /\ pc[q] \in {"idle", "results", "noise"} \/ job'[q].disturbed
  <2>1. job[q] \in Jobs
    BY <1>0
  <2>2. job'[q] = IF pc[q] \in {"idle", "results", "noise"} THEN job[q] ELSE [job[q] EXCEPT !.disturbed = TRUE]
    BY DEF Edit
  <2>q. QED BY <1>0, <2>1, <2>2 DEF Kept, Jobs
<1>2. ASSUME NEW q \in Benches PROVE PackedInv(q)' /\ FillingInv(q)' /\ ComparedInv(q)'
  <2>1. PackedInv(q)'
    BY <1>0, <1>1, PackedKept
  <2>2. FillingInv(q)'
    BY <1>0, <1>1 DEF TInv, FillingInv, Kept, At, Present
  <2>3. ComparedInv(q)'
    BY <1>0, <1>1, ComparedKept, DirectoryKept
  <2>q. QED BY <2>1, <2>2, <2>3
<1>3. \A n \in Names : DirectoryInv(n)'
  BY <1>0, DirectoryKept
<1>q. QED BY <1>0, <1>2, <1>3 DEF TInv

LEMMA InitHolds == Init => TInv
<1> SUFFICES ASSUME Init PROVE TInv
  OBVIOUS
<1>1. TypeOK
  BY InitType
<1>2. \A p \in Benches : pc[p] = "idle" /\ job[p] = NoJob /\ NoJob.found = None
  BY DEF Init, NoJob
<1>3. \A p \in Benches : PackedInv(p) /\ FillingInv(p) /\ ComparedInv(p)
  BY <1>2 DEF PackedInv, FillingInv, ComparedInv, At, Filling
<1>4. \A n \in Names : DirectoryInv(n)
  BY DEF Init, DirectoryInv, Whole, Present
<1>q. QED BY <1>1, <1>3, <1>4 DEF TInv

LEMMA StepKeeps == TInv /\ [Next]_vars => TInv'
<1> SUFFICES ASSUME TInv, [Next]_vars PROVE TInv'
  OBVIOUS
<1>1. CASE UNCHANGED vars
  BY <1>1 DEF vars, control, TInv, TypeOK, PackedInv, FillingInv, ComparedInv, DirectoryInv, At,
              Whole, Present
<1>2. ASSUME NEW p \in Benches, (\E call \in Calls : Pack(p, call)) \/ Step(p) \/ Crash(p)
      PROVE  TInv'
  BY <1>2, PackKeeps, MeasureKeeps, FindKeeps, ConfigKeeps, StageKeeps, WriteBlobKeeps, MakeKeeps, CopyKeeps,
     ResultsKeep, NoiseKeeps, CrashKeeps DEF Step
<1>q. QED BY <1>1, <1>2, EditKeeps DEF Next

-----------------------------------------------------------------------------
(* The theorems.                                                           *)

\* The inductive invariant holds: directories have one maker, copies stay as they are,
\* and what is undisturbed is still what was packed (save_trajectory, _pack_snapshot).
THEOREM Inductive == Spec => []TInv
BY InitHolds, StepKeeps, PTL DEF Spec

\* Every variable keeps its type.
THEOREM TypeCorrect == Spec => []TypeOK
BY Inductive, PTL DEF TInv

\* The kernel and configuration in a snapshot are the ones its results were measured
\* on, unless one was edited or solution.json replaced in between (save_trajectory).
THEOREM SourcesOfResults == Spec => []ResultsOfSources
<1>1. TInv => ResultsOfSources
  BY DEF TInv, DirectoryInv, ResultsOfSources
<1>q. QED BY <1>1, Inductive, PTL

\* A comparison against such a snapshot measures the files its results are of, if they
\* were all there when it was found; if they were being copied it may run on less, but
\* never on another version of a source (_pack_snapshot).
THEOREM ComparisonFair == Spec => []ComparedAsMeasured
<1>1. ASSUME TInv, NEW p \in Benches, At(p, "measure"), job[p].found # None,
             job[p].found \in Names \ mixed, Whole(job[p].found)
      PROVE  /\ job[p].settled => job[p].against = dirs[job[p].found].results.of
             /\ \A f \in Sources : job[p].against[f] \in {None, Torn, dirs[job[p].found].results.of[f]}
  <2>1. dirs[job[p].found].files = dirs[job[p].found].results.of
    BY <1>1 DEF TInv, DirectoryInv
  <2>2. ComparedInv(p)
    BY <1>1 DEF TInv
  <2>q. QED BY <1>1, <2>1, <2>2 DEF ComparedInv
<1>2. TInv => ComparedAsMeasured
  BY <1>1 DEF ComparedAsMeasured
<1>q. QED BY <1>2, Inductive, PTL

\* A measured result misses a directory of its own only if another benchmark made that
\* directory since it looked (save_trajectory's loop and mkdir).
THEOREM LossNeedsRace == Spec => []LostOnlyToRace
<1>1. TInv => LostOnlyToRace
  BY DEF TInv, FillingInv, LostOnlyToRace
<1>q. QED BY <1>1, Inductive, PTL

\* A snapshot with its results is never changed again, whatever other benchmarks save,
\* are killed at or find already there (save_trajectory).
THEOREM NeverOverwritten == Spec => SnapshotsStay
<1>1. ASSUME TInv, [Next]_vars, NEW n \in Names, Whole(n) PROVE dirs'[n] = dirs[n]
  <2>0. Present(n) /\ dirs \in [Names -> Snapshots \cup {Absent}]
    BY <1>1 DEF Whole, TInv, TypeOK
  <2>1. ASSUME NEW p \in Benches, pc[p] \in Filling PROVE job[p].name # n /\ job[p].name \in Names
    BY <1>1, <2>1, Filler
  <2>2. ASSUME NEW p \in Benches, MakeDir(p) \/ NoiseFloor(p) PROVE dirs'[n] = dirs[n]
    BY <2>0, <2>2 DEF MakeDir, NoiseFloor
  <2>3. ASSUME NEW p \in Benches,
               (\E f \in Files : OpenCopy(p, f) \/ FillCopy(p, f)) \/ WriteResults(p) \/ Crash(p)
        PROVE  dirs'[n] = dirs[n]
    BY <2>0, <2>1, <2>3 DEF OpenCopy, FillCopy, WriteResults, Crash, At, Filling
  <2>4. ASSUME NEW p \in Benches,
               \/ (\E call \in Calls : Pack(p, call)) \/ WriteBlob(p) \/ ReadBlob(p) \/ Find(p) \/ Measure(p)
               \/ ChooseConfig(p) \/ ReadConfig(p) \/ ListSources(p) \/ Stamp(p) \/ Look(p)
               \/ \E f \in Files : PackSource(p, f) \/ StageSource(p, f)
        PROVE  dirs'[n] = dirs[n]
    BY <2>4 DEF Pack, PackSource, WriteBlob, ReadBlob, Find, Measure, ChooseConfig, ReadConfig, ListSources,
                StageSource, Stamp, Look
  <2>5. CASE (\E f \in Files : Edit(f)) \/ UNCHANGED vars
    BY <2>5 DEF Edit, vars
  <2>q. QED BY <1>1, <2>2, <2>3, <2>4, <2>5 DEF Next, Step
<1>2. TInv /\ [Next]_vars => [\A n \in Names : Whole(n) => dirs'[n] = dirs[n]]_vars
  BY <1>1
<1>q. QED BY <1>2, Inductive, PTL DEF Spec, SnapshotsStay
=============================================================================
