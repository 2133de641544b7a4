------------------------- MODULE CampaignInvariant -------------------------
(***************************************************************************)
(* The inductive invariant behind the properties of Campaign: what the     *)
(* local state of the master's calls has to do with the family's directory *)
(* and the child's run store.                                              *)
(***************************************************************************)
EXTENDS Campaign

Archiving == pc \in {"archive", "stage"}

\* A round in progress has a child; from the moment it is populated the child was
\* given a kernel; a changed round has one still; what is about to be archived has
\* a name.
RoundInv ==
    /\ pc # "ready" => R \in dir
    /\ pc \notin {"ready", "populate"} => child.base \in Versions
    /\ pc = "outcome" /\ job.changed => child.kernel \in Versions
    /\ (pc = "verify" \/ Archiving) /\ job.art = Solution => child.kernel \in Versions
    /\ pc = "populate" /\ job.parent # None => published[job.parent] # Absent
    /\ pc = "verify" \/ Archiving => job.slot \in Slots /\ job.art \in Versions \cup {Solution}
    /\ pc = "verify" => job.slot \in Names

Written(m) == \E k \in 1 .. Len(MembersOf(job.slot)) : k < job.i /\ MembersOf(job.slot)[k] = m

\* While files are staged the slot stays free and the parent stays, and the staging
\* directory holds what this call has written and nothing else.
StageInv ==
    pc = "stage" =>
        /\ published[job.slot] = Absent
        /\ job.parent # None => published[job.parent] # Absent
        /\ job.i > 1 => /\ job.call \in Calls
                        /\ job.call.round = R /\ job.call.parent = job.parent
        /\ job.i <= Len(MembersOf(job.slot)) + 1
        /\ staging[job.slot] # Absent
        /\ \A m \in Members :
             IF Written(m)
             THEN staging[job.slot][m] = job.call \/ (m \in Optional /\ staging[job.slot][m] = None)
             ELSE staging[job.slot][m] = None

\* Every directory of the archive was filled by one call, of a round that has a child.
KeptInv ==
    \A s \in Slots : published[s] # Absent =>
        Whole(s, published[s]) /\ published[s][Key(s)].round \in dir

\* Nothing of a round is archived before its outcome, and in a production campaign
\* what is about to be archived has passed.
ProvenInv ==
    /\ pc \in {"populate", "seed", "spawned", "prepare", "agent", "validate"} =>
         \A n \in Names : published[n] # Absent => published[n]["kernel"].round # R
    /\ profile = "production" /\ Archiving /\ job.slot \in Names /\ R \notin disturbed =>
         /\ own[R] = "PROMOTABLE" /\ proven[R] # None
         /\ Artifact = proven[R].kernel
         /\ pc = "stage" /\ job.i > 1 => job.call.text = proven[R].kernel

\* The hash recorded before the sub starts is that of the kernel it was given, until
\* the sub wipes it.  The kernel stays what the agent left unless it is touched, and
\* the outcome compares it with the hash.
SeedInv ==
    /\ pc = "seed" => child.kernel = child.base /\ ~child.wiped
    /\ pc \in {"spawned", "prepare", "agent", "validate", "collect", "outcome"} =>
         child.seed = IF child.wiped THEN None ELSE child.base
    /\ pc \in {"validate", "collect"} /\ job.exit = "ok" /\ ~child.touched =>
         child.left = child.kernel
    /\ pc = "outcome" /\ job.exit = "ok" /\ ~child.touched =>
         job.changed = (child.left # None /\ (child.seed = None \/ child.left # child.seed))

\* From the end of the validation a clean exit stands for a run that has passed.
ExitInv ==
    profile = "production" /\ pc \in {"collect", "outcome", "verify"} /\ job.exit = "ok" =>
        own[R] = "PROMOTABLE" /\ proven[R] # None

GateInv == TypeOK /\ RoundInv /\ StageInv /\ KeptInv /\ ProvenInv /\ ArchivedIsProven
CInv == GateInv /\ SeedInv /\ ExitInv
=============================================================================
