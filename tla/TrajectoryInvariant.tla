------------------------- MODULE TrajectoryInvariant -------------------------
(***************************************************************************)
(* Why the properties of Trajectory hold, as an inductive invariant.  What *)
(* is undisturbed since it was packed is still the solution, a directory   *)
(* has one process that fills it, file by file, and a file that is there   *)
(* never changes, so that what a comparison has read of it stays true.     *)
(***************************************************************************)
EXTENDS Trajectory

Versioned == [Files -> Versions]

Filling == {"copy", "results"}

\* Process p fills directory n.
Fills(p, n) == pc[p] \in Filling /\ job[p].name = n

\* What a process has packed, and that it looked up what it compares with.
PackedInv(p) ==
    /\ pc[p] \in {"packing", "read", "find"} => job[p].against = Missing
    /\ At(p, "packing") => job[p].blob["config"] # None
    /\ At(p, "packing") /\ ~job[p].disturbed => \A f \in Files : job[p].blob[f] \in {None, work[f]}
    /\ pc[p] \notin {"idle", "packing"} => job[p].blob \in Versioned
    /\ pc[p] \notin {"idle", "packing", "results", "noise"} /\ ~job[p].disturbed => job[p].blob = work
    /\ At(p, "read") => blob \in Versioned /\ (~job[p].disturbed => blob = job[p].blob)
    /\ pc[p] \in {"pair", "own", "project", "list", "stage"} => job[p].found # None

\* The directory a process has named, and the files it has copied there.
FillingInv(p) ==
    LET name == job[p].name  files == dirs[name].files  IN
    /\ pc[p] \in {"look", "mkdir"} \cup Filling => name.second # None
    /\ At(p, "mkdir") /\ Present(name) => job[p].raced
    /\ pc[p] \in Filling => Present(name) /\ dirs[name].maker = p /\ dirs[name].results = NoResult
    /\ At(p, "copy") =>
         /\ files["config"] \in {None, Torn}
         /\ files["config"] = Torn => \A f \in Sources : files[f] \in Versions
         /\ ~job[p].disturbed => \A f \in Files : files[f] \in {None, Torn, job[p].blob[f]}
    /\ At(p, "results") => files \in Versioned /\ (~job[p].disturbed => files = job[p].blob)

DirectoryInv(n) ==
    /\ n \in mixed => Whole(n)
    /\ Whole(n) => dirs[n].files \in Versioned /\ dirs[n].results.of \in Versioned
    /\ Whole(n) /\ n \notin mixed => dirs[n].files = dirs[n].results.of
    /\ Present(n) /\ n.second = None => dirs[n] = New(dirs[n].maker)

\* What a comparison has read of a source is what is there, unless it came too early;
\* and it has read everything of a snapshot whose files were all there.
ComparedInv(p) ==
    LET n == job[p].found  against == job[p].against  files == dirs[n].files  IN
    n # None =>
        /\ pc[p] \in {"pair", "own", "project", "list", "stage", "measure", "noise"}
        /\ Present(n)
        /\ \A f \in Sources : against[f] \in {None, Torn, files[f]}
        /\ job[p].settled =>
             /\ files \in Versioned /\ ~At(p, "project")
             /\ pc[p] \in {"list", "stage", "measure"} => against["config"] = files["config"]
             /\ At(p, "stage") => \A f \in Sources \ job[p].listed : against[f] = files[f]
             /\ At(p, "measure") => against = files

\* The inductive invariant.
TInv ==
    /\ TypeOK
    /\ \A p \in Benches : PackedInv(p) /\ FillingInv(p) /\ ComparedInv(p)
    /\ \A n \in Names : DirectoryInv(n)
=============================================================================
