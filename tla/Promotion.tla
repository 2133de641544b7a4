----------------------------- MODULE Promotion -----------------------------
(***************************************************************************)
(* ProductionPipeline.promote: any number of `ako4x-lab promote` processes *)
(* beside the pipelines, which share the run store and the tree with them. *)
(***************************************************************************)
EXTENDS ProductionPipeline

CONSTANTS
    Promoters,     \* invocations of `ako4x-lab promote`
    Destinations   \* values given to --destination; {}: only the default is used

VARIABLES
    ppc,                    \* program counter
    prun, pdest,            \* --run-id and --destination
    copied, copiedUnhashed, \* what it copied below its destination
    bundle                  \* its destination directory: absent, made, described

args      == <<prun, pdest>>
directory == <<copied, copiedUnhashed, bundle>>
promVars  == <<ppc, args, directory>>
allVars   == <<vars, promVars>>

Torn == -2         \* a copy that is no version of the candidate

PInit ==
    /\ Init
    /\ ppc = [p \in Promoters |-> "idle"]
    /\ prun \in [Promoters -> Runs]
    /\ pdest \in [Promoters -> Destinations \cup {"default"}]
    /\ copied = [p \in Promoters |-> NoHash]
    /\ copiedUnhashed = [p \in Promoters |-> NoHash]
    /\ bundle = [p \in Promoters |-> "absent"]

PGoto(p, op) == ppc' = [ppc EXCEPT ![p] = op]
PResting == {"idle", "refused", "promoted", "crashed"}

\* The row is read once; its hashes do not change after PROMOTABLE, so the later
\* checks read them from the row.
ReadRun(p) ==
    /\ ppc[p] = "idle"
    /\ PGoto(p, IF state[prun[p]] = "PROMOTABLE" THEN "source" ELSE "refused")
    /\ state[prun[p]] # Absent
    /\ UNCHANGED <<vars, args, directory>>

CheckSource(p) ==
    /\ ppc[p] = "source"
    /\ PGoto(p, IF candidate = sourceHash[prun[p]] THEN "integrity" ELSE "refused")
    /\ UNCHANGED <<vars, args, directory>>

CheckIntegrity(p) ==
    /\ ppc[p] = "integrity"
    /\ PGoto(p, IF protected = integrityHash[prun[p]] THEN "mkdir" ELSE "refused")
    /\ UNCHANGED <<vars, args, directory>>

\* The directory of a promotion: --destination, or one named after the hash.
Path(p) == <<pdest[p], IF pdest[p] = "default" THEN sourceHash[prun[p]] ELSE NoHash>>
Exists(path) == \E q \in Promoters : bundle[q] # "absent" /\ Path(q) = path

\* Mutant: mkdir(exist_ok=True).
MakeOrReuse(p) ==
    /\ ppc[p] = "mkdir"
    /\ bundle' = [bundle EXCEPT ![p] = "made"]
    /\ PGoto(p, "copy")
    /\ UNCHANGED <<vars, args, copied, copiedUnhashed>>

\* exists() and mkdir() without exist_ok: only one process makes a directory.
MakeDestination(p) ==
    /\ ppc[p] = "mkdir"
    /\ \/ /\ Exists(Path(p)) \/ "files" \in Faults
          /\ PGoto(p, "refused")
          /\ UNCHANGED bundle
       \/ /\ ~Exists(Path(p))
          /\ bundle' = [bundle EXCEPT ![p] = "made"]
          /\ PGoto(p, "copy")
    /\ UNCHANGED <<vars, args, copied, copiedUnhashed>>

\* copytree copies every file, those source_hash skips too.  An edit while it
\* walks the tree leaves a mixture.
CopyCandidate(p) ==
    /\ ppc[p] = "copy"
    /\ \/ /\ \E version \in {candidate, Torn} : copied' = [copied EXCEPT ![p] = version]
          /\ copiedUnhashed' = [copiedUnhashed EXCEPT ![p] = unhashed]
          /\ PGoto(p, "describe")
       \/ "files" \in Faults /\ PGoto(p, "refused") /\ UNCHANGED <<copied, copiedUnhashed>>
    /\ UNCHANGED <<vars, args, bundle>>

\* The fingerprint and promotion.json.
WriteManifest(p) ==
    /\ ppc[p] = "describe"
    /\ \/ bundle' = [bundle EXCEPT ![p] = "described"] /\ PGoto(p, "check")
       \/ "files" \in Faults /\ UNCHANGED bundle /\ PGoto(p, "refused")
    /\ UNCHANGED <<vars, args, copied, copiedUnhashed>>

\* Mutant: the copy is trusted.
TrustCopy(p) ==
    /\ ppc[p] = "check"
    /\ PGoto(p, "transition")
    /\ UNCHANGED <<vars, args, directory>>

\* Mutant: a bad copy is refused and left behind.
LeaveCopy(p) ==
    /\ ppc[p] = "check"
    /\ PGoto(p, IF copied[p] = sourceHash[prun[p]] THEN "transition" ELSE "refused")
    /\ UNCHANGED <<vars, args, directory>>

\* Hash the copy; remove the whole destination when it is not the source that
\* passed.  rmtree ignores its own errors.
CheckCopy(p) ==
    /\ ppc[p] = "check"
    /\ IF copied[p] = sourceHash[prun[p]]
       THEN PGoto(p, "transition") /\ UNCHANGED bundle
       ELSE /\ PGoto(p, "refused")
            /\ bundle' \in {[bundle EXCEPT ![p] = "absent"]}
                          \cup (IF "files" \in Faults THEN {bundle} ELSE {})
    /\ UNCHANGED <<vars, args, copied, copiedUnhashed>>

CheckPromoted(p) ==
    /\ ppc[p] = "transition"
    /\ PGoto(p, IF Allowed(state[prun[p]], "PROMOTED") THEN "update" ELSE "refused")
    /\ UNCHANGED <<vars, args, directory>>

UpdatePromoted(p) ==
    /\ ppc[p] = "update"
    /\ SetState(prun[p], "PROMOTED")
    /\ PGoto(p, "emit")
    /\ UNCHANGED <<sourceHash, integrityHash, log, pc, localVars, treeVars, fileVars, args, directory>>

EmitPromoted(p) ==
    /\ ppc[p] = "emit"
    /\ log' = [log EXCEPT ![prun[p]] = Append(@, "PROMOTED")]
    /\ PGoto(p, "promoted")
    /\ UNCHANGED <<state, status, sourceHash, integrityHash, pc, localVars, treeVars, fileVars, args, directory>>

PromotionStoreFails(p) ==
    /\ "store" \in Faults
    /\ ppc[p] \in {"update", "emit"}
    /\ PGoto(p, "refused")
    /\ UNCHANGED <<vars, args, directory>>

CrashPromoter(p) ==
    /\ Crashes
    /\ ppc[p] \notin PResting
    /\ PGoto(p, "crashed")
    /\ UNCHANGED <<vars, args, directory>>

-----------------------------------------------------------------------------
Promote(p) == ReadRun(p) \/ CheckSource(p) \/ CheckIntegrity(p) \/ MakeDestination(p)
              \/ CopyCandidate(p) \/ WriteManifest(p) \/ CheckCopy(p)
              \/ CheckPromoted(p) \/ UpdatePromoted(p) \/ EmitPromoted(p)
              \/ PromotionStoreFails(p)

PNext ==
    \/ Next /\ UNCHANGED promVars
    \/ \E p \in Promoters : Promote(p) \/ CrashPromoter(p)

PSpec == PInit /\ [][PNext]_allVars

-----------------------------------------------------------------------------
(* Properties.                                                             *)

\* Every variable has its type.
PTypeOK ==
    /\ TypeOK
    /\ ppc \in [Promoters -> PResting \cup {"source", "integrity", "mkdir", "copy", "describe",
                                            "check", "transition", "update", "emit"}]
    /\ prun \in [Promoters -> Runs]
    /\ pdest \in [Promoters -> Destinations \cup {"default"}]
    /\ copied \in [Promoters -> Hash \cup {Torn}]
    /\ copiedUnhashed \in [Promoters -> Hash]
    /\ bundle \in [Promoters -> {"absent", "made", "described"}]

\* A promoted run has a complete bundle on disk whose sources are the version the
\* evidence was bound to, however often the candidate was edited while promote
\* checked, copied and checked again (production.py:291-323).
PromotedHasBundle ==
    \A r \in Runs : state[r] = "PROMOTED" =>
        \E p \in Promoters : prun[p] = r /\ bundle[p] = "described"
                             /\ copied[p] = sourceHash[r]

\* From end to end: what lies in the bundle of a promoted run is, byte for byte, what
\* each gate, the benchmark and each profile of that very run measured, under the
\* protected files the run is bound to (production.py:243-326).  It needs pipelines
\* that take turns, no abandoned command, and edits that never restore a version.
PromotedIsMeasured ==
    \A r \in Runs : state[r] = "PROMOTED" =>
        \E p \in Promoters :
            /\ prun[p] = r /\ bundle[p] = "described"
            /\ \A c \in Required : \E e \in EvidenceFor(r, c) :
                   e.by = r /\ e.source = copied[p] /\ e.protected = integrityHash[r]

\* No two promote commands both promote the same run.
OnePromotion ==
    \A p, q \in Promoters :
        ppc[p] \in {"emit", "promoted"} /\ ppc[q] \in {"emit", "promoted"}
        /\ prun[p] = prun[q] => p = q

\* A directory stays behind only for a promotion that succeeded: a refused promote
\* can be retried, mkdir() will not find the remains of the last attempt.
NoRemains == \A p \in Promoters : bundle[p] # "absent" => ppc[p] # "refused"
=============================================================================
