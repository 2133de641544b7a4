--------------------------- MODULE CampaignProofs ---------------------------
(* Theorems about Campaign, for any rounds, names, faults and bounds. *)
EXTENDS CampaignInvariant, TLAPS

-----------------------------------------------------------------------------
(* What the files of an archive are.                                       *)

LEMMA VariantFacts ==
    ASSUME NEW n \in Names
    PROVE  /\ n \in Slots /\ n \notin Rounds
           /\ MembersOf(n) = <<"kernel", "meta", "result">>
           /\ Len(MembersOf(n)) = 3
           /\ Key(n) = "kernel"
BY CampaignAssumption DEF Slots, MembersOf, VariantMembers, Key

LEMMA BundleFacts ==
    ASSUME NEW r \in Rounds
    PROVE  /\ r \in Slots /\ r \notin Names
           /\ MembersOf(r) = <<"transcript", "summary">>
           /\ Len(MembersOf(r)) = 2
           /\ Key(r) = "summary"
BY CampaignAssumption DEF Slots, MembersOf, BundleMembers, Key

LEMMA MemberFacts ==
    ASSUME NEW s \in Slots
    PROVE  /\ Len(MembersOf(s)) \in {2, 3}
           /\ \A k \in 1 .. Len(MembersOf(s)) : MembersOf(s)[k] \in Members
           /\ \A k, l \in 1 .. Len(MembersOf(s)) : MembersOf(s)[k] = MembersOf(s)[l] => k = l
           /\ MembersOf(s)[1] \in {"kernel", "transcript"}
           /\ Key(s) \in Members \ Optional
           /\ \E k \in 1 .. Len(MembersOf(s)) : MembersOf(s)[k] = Key(s)
<1>1. CASE s \in Names
  BY <1>1, VariantFacts DEF Members, Optional
<1>2. CASE s \in Rounds
  BY <1>2, BundleFacts DEF Members, Optional
<1> QED BY <1>1, <1>2 DEF Slots

\* A directory with files is not the absence of one.
LEMMA DirectoryFacts ==
    ASSUME NEW d \in Directory, d # Absent
    PROVE  d \in [Members -> Calls \cup {None}]
BY DEF Directory

LEMMA FilesPresent ==
    ASSUME NEW d \in [Members -> Calls \cup {None}]
    PROVE  d # Absent
<1>1. "kernel" \in DOMAIN d
  BY DEF Members
<1>2. "kernel" \notin DOMAIN Absent
  BY DEF Absent
<1> QED BY <1>1, <1>2

\* The kernel of an archived variant was written by one call of a round.
LEMMA KernelFacts ==
    ASSUME TypeOK, KeptInv, NEW n \in Names, published[n] # Absent
    PROVE  /\ published[n] \in [Members -> Calls \cup {None}]
           /\ published[n]["kernel"] \in Calls
           /\ published[n]["kernel"].round \in dir
           /\ published[n]["kernel"].text \in Versions
           /\ published[n]["kernel"].parent \in Names \cup {None}
<1>1. n \in Slots /\ Key(n) = "kernel"
  BY VariantFacts
<1>2. published[n] \in [Members -> Calls \cup {None}]
  BY <1>1, DirectoryFacts DEF TypeOK
<1>3. published[n]["kernel"] # None /\ published[n]["kernel"].round \in dir
  BY <1>1 DEF KeptInv, Whole
<1>4. published[n]["kernel"] \in Calls
  BY <1>2, <1>3 DEF Members
<1> QED BY <1>2, <1>3, <1>4 DEF Calls

-----------------------------------------------------------------------------
(* What a step need not touch, it keeps.                                   *)

LEMMA KeptKept ==
    ASSUME KeptInv, UNCHANGED published, dir \subseteq dir'
    PROVE  KeptInv'
BY DEF KeptInv

LEMMA ArchivedKept ==
    ASSUME ArchivedIsProven, UNCHANGED <<profile, published, own, proven>>,
           disturbed \subseteq disturbed'
    PROVE  ArchivedIsProven'
BY DEF ArchivedIsProven

\* The run of the current round changes while nothing of it is archived.
LEMMA ArchivedKeptInRun ==
    ASSUME TypeOK, KeptInv, ArchivedIsProven, UNCHANGED <<profile, published, disturbed>>,
           NEW r \in Rounds,
           \A n \in Names : published[n] # Absent => published[n]["kernel"].round # r,
           \A q \in Rounds : q # r => own'[q] = own[q] /\ proven'[q] = proven[q]
    PROVE  ArchivedIsProven'
<1> SUFFICES ASSUME NEW n \in Names, profile = "production", published[n] # Absent,
                    published[n]["kernel"].round \notin disturbed
             PROVE  LET q == published[n]["kernel"].round
                    IN own'[q] = "PROMOTABLE" /\ proven'[q] # None
                       /\ proven'[q].kernel = published[n]["kernel"].text
    BY DEF ArchivedIsProven
<1>1. published[n]["kernel"].round \in Rounds /\ published[n]["kernel"].round # r
  BY KernelFacts DEF TypeOK
<1> QED BY <1>1 DEF ArchivedIsProven

LEMMA ReferenceVersion == 0 \in Versions
BY CampaignAssumption DEF Versions

LEMMA NoWorkTypes == NoJob \in Jobs /\ NoChild \in Children
<1>1. 1 \in 1 .. Len(VariantMembers) + 1
  BY DEF VariantMembers
<1> QED BY <1>1, ReferenceVersion DEF NoJob, Jobs, NoChild, Children, Kernels

\* What the source hash covers is a kernel, or none, and the rest.
LEMMA TreeFacts ==
    ASSUME TypeOK
    PROVE  Tree \in Trees /\ Tree # None /\ Tree.kernel = child.kernel /\ None \notin Trees
BY NoneAssumption DEF TypeOK, Children, Kernels, Tree, Trees

\* A round that is over leaves the master with nothing to do.
LEMMA Raised ==
    ASSUME Raise
    PROVE  /\ pc' = "ready" /\ job' \in Jobs /\ child' \in Children
           /\ RoundInv' /\ StageInv' /\ ProvenInv'
<1>1. RoundInv' /\ StageInv' /\ ProvenInv'
  BY DEF Raise, RoundInv, StageInv, ProvenInv, Archiving
<1> QED BY <1>1, NoWorkTypes DEF Raise

LEMMA InitKeeps == Init => GateInv
<1> SUFFICES ASSUME Init PROVE GateInv
    OBVIOUS
<1>1. TypeOK
  <2>1. job \in Jobs
    <3>1. 1 \in 1 .. Len(VariantMembers) + 1
      BY DEF VariantMembers
    <3> QED BY <3>1 DEF Init, NoJob, Kernels, Jobs
  <2>2. child \in Children
    BY NoWorkTypes DEF Init
  <2>3. published \in [Slots -> Directory] /\ staging \in [Slots -> Directory]
    BY DEF Init, Directory
  <2>4. edits \in Versions
    BY CampaignAssumption DEF Init, Versions
  <2>5. own \in [Rounds -> {None, "running", "PROMOTABLE", "FAILED"}] /\ proven \in [Rounds -> Trees \cup {None}]
    BY DEF Init
  <2>6. measured \in BOOLEAN /\ profile \in Profiles /\ dir = {} /\ disturbed = {} /\ pc = "ready"
    BY DEF Init
  <2> QED BY <2>1, <2>2, <2>3, <2>4, <2>5, <2>6 DEF TypeOK
<1>2. RoundInv /\ StageInv /\ KeptInv /\ ProvenInv /\ ArchivedIsProven
  <2>1. \A s \in Slots : published[s] = Absent
    BY DEF Init
  <2>2. \A n \in Names : published[n] = Absent
    BY <2>1 DEF Slots
  <2> QED BY <2>1, <2>2 DEF Init, RoundInv, StageInv, KeptInv, ProvenInv, ArchivedIsProven, Archiving
<1> QED BY <1>1, <1>2 DEF GateInv

-----------------------------------------------------------------------------
(* One lemma per action.                                                   *)

LEMMA SpawnChildKeeps ==
    ASSUME GateInv, NEW r \in Rounds, NEW parent \in Names \cup {None}, SpawnChild(r, parent)
    PROVE  GateInv'
<1> USE DEF GateInv, SpawnChild, Goto, Is
<1>1. job' \in Jobs
  BY NoWorkTypes DEF Jobs
<1>2. TypeOK'
  BY <1>1 DEF TypeOK, familyVars, runVars
<1>3. RoundInv'
  BY DEF RoundInv, Archiving, R, NoJob, familyVars
<1>4. ProvenInv'
  BY KernelFacts DEF ProvenInv, Archiving, R, NoJob, familyVars
<1>5. StageInv' /\ KeptInv' /\ ArchivedIsProven'
  BY KeptKept, ArchivedKept DEF StageInv, familyVars, runVars
<1> QED BY <1>2, <1>3, <1>4, <1>5

LEMMA PopulateChildKeeps ==
    ASSUME GateInv, PopulateChild
    PROVE  GateInv'
<1> USE DEF GateInv, PopulateChild, Goto, Is
<1>1. KeptInv' /\ ArchivedIsProven'
  BY KeptKept, ArchivedKept DEF familyVars, runVars
<1>2. CASE Raise
  BY <1>1, <1>2, Raised DEF TypeOK, familyVars, runVars
<1>3. CASE ~Raise
  <2> DEFINE base == IF job.parent = None THEN 0 ELSE published[job.parent]["kernel"].text
  <2>1. child' = [NoChild EXCEPT !.kernel = base, !.base = base] /\ pc' = "seed" /\ job' = job
    BY <1>3
  <2>2. base \in Versions
    BY KernelFacts, CampaignAssumption DEF RoundInv, TypeOK, Jobs, Versions
  <2> HIDE DEF base
  <2>3. child' \in Children /\ child'.kernel \in Versions /\ child'.base \in Versions
    BY <2>1, <2>2, NoWorkTypes DEF Children, Kernels
  <2>4. TypeOK'
    BY <2>1, <2>3 DEF TypeOK, familyVars, runVars
  <2>5. RoundInv' /\ StageInv' /\ ProvenInv'
    BY <2>1, <2>3 DEF RoundInv, StageInv, ProvenInv, Archiving, R, familyVars, runVars
  <2> QED BY <1>1, <2>4, <2>5
<1> QED BY <1>2, <1>3

LEMMA RecordSeedKeeps ==
    ASSUME GateInv, RecordSeed
    PROVE  GateInv'
<1> USE DEF GateInv, RecordSeed, Goto, Is
<1>1. KeptInv' /\ ArchivedIsProven'
  BY KeptKept, ArchivedKept DEF familyVars, runVars
<1>2. CASE Raise
  BY <1>1, <1>2, Raised DEF TypeOK, familyVars, runVars
<1>3. CASE ~Raise
  <2>1. child' = [child EXCEPT !.seed = child.kernel] /\ pc' = "spawned" /\ job' = job
    BY <1>3
  <2>2. child' \in Children /\ child'.kernel = child.kernel /\ child'.base = child.base
    BY <2>1 DEF Children, TypeOK
  <2>3. TypeOK'
    BY <2>1, <2>2 DEF TypeOK, familyVars, runVars
  <2>4. RoundInv' /\ StageInv' /\ ProvenInv'
    BY <2>1, <2>2 DEF RoundInv, StageInv, ProvenInv, Archiving, R, familyVars, runVars
  <2> QED BY <1>1, <2>3, <2>4
<1> QED BY <1>2, <1>3

-----------------------------------------------------------------------------
(* Phase 1.                                                                *)

LEMMA MarkFailedKeeps ==
    ASSUME GateInv, MarkFailed, pc \in {"prepare", "agent", "validate"},
           UNCHANGED <<familyVars, dir, proven, edits, disturbed>>
    PROVE  GateInv'
<1> USE DEF GateInv, MarkFailed, Goto
<1>1. R \in Rounds /\ \A n \in Names : published[n] # Absent => published[n]["kernel"].round # R
  BY DEF RoundInv, ProvenInv, TypeOK
<1>2. KeptInv'
  BY KeptKept DEF familyVars
<1>3. CASE Raise /\ UNCHANGED own
  BY <1>2, <1>3, Raised, ArchivedKept DEF TypeOK, familyVars
<1>4. CASE own' = [own EXCEPT ![R] = "FAILED"] /\ job' = [job EXCEPT !.exit = "failed"]
           /\ pc' = "collect" /\ UNCHANGED child
  <2>1. job' \in Jobs /\ R' = R
    BY <1>4 DEF TypeOK, Jobs, R
  <2>2. TypeOK'
    BY <1>4, <2>1 DEF TypeOK, familyVars
  <2>3. RoundInv' /\ StageInv' /\ ProvenInv'
    BY <1>4, <2>1 DEF RoundInv, StageInv, ProvenInv, Archiving, familyVars
  <2>4. \A q \in Rounds : q # R => own'[q] = own[q] /\ proven'[q] = proven[q]
    BY <1>4 DEF TypeOK
  <2>5. ArchivedIsProven'
    BY <1>1, <2>4, ArchivedKeptInRun DEF familyVars
  <2> QED BY <1>2, <2>2, <2>3, <2>5
<1> QED BY <1>3, <1>4

LEMMA StartPhase1Keeps ==
    ASSUME GateInv, StartPhase1
    PROVE  GateInv'
<1> USE DEF GateInv, StartPhase1, Goto, Is
<1>1. R \in Rounds /\ \A n \in Names : published[n] # Absent => published[n]["kernel"].round # R
  BY DEF RoundInv, ProvenInv, TypeOK
<1>2. job' \in Jobs /\ R' = R /\ pc' \in {"agent", "prepare", "collect"}
  BY DEF TypeOK, Jobs, R
<1>3. own' \in [Rounds -> {None, "running", "PROMOTABLE", "FAILED"}]
      /\ \A q \in Rounds : q # R => own'[q] = own[q] /\ proven'[q] = proven[q]
  BY <1>1 DEF TypeOK
<1>4. TypeOK'
  BY <1>2, <1>3 DEF TypeOK, familyVars
<1>5. RoundInv' /\ StageInv' /\ ProvenInv'
  BY <1>2 DEF RoundInv, StageInv, ProvenInv, Archiving, familyVars
<1>6. KeptInv' /\ ArchivedIsProven'
  BY <1>1, <1>3, KeptKept, ArchivedKeptInRun DEF familyVars
<1> QED BY <1>4, <1>5, <1>6

LEMMA PrepareKeeps ==
    ASSUME GateInv, Prepare
    PROVE  GateInv'
<1> USE DEF GateInv, Prepare, Goto, Is
<1>1. CASE MarkFailed
  BY <1>1, MarkFailedKeeps
<1>2. CASE pc' = "agent" /\ UNCHANGED <<own, child, job>>
  <2>1. TypeOK'
    BY <1>2 DEF TypeOK, familyVars
  <2>2. RoundInv' /\ StageInv' /\ ProvenInv'
    BY <1>2 DEF RoundInv, StageInv, ProvenInv, Archiving, R, familyVars
  <2>3. KeptInv' /\ ArchivedIsProven'
    BY <1>2, KeptKept, ArchivedKept DEF familyVars
  <2> QED BY <2>1, <2>2, <2>3
<1> QED BY <1>1, <1>2

LEMMA AgentReturnsKeeps ==
    ASSUME GateInv, NEW exit \in {"ok", "failed"}, AgentReturns(exit)
    PROVE  GateInv'
<1> USE DEF GateInv, AgentReturns, Goto, Is
<1>1. CASE profile = "production" /\ exit = "failed"
  BY <1>1, MarkFailedKeeps
<1>2. CASE ~(profile = "production" /\ exit = "failed")
  <2>1. /\ job' = [job EXCEPT !.exit = exit] /\ pc' \in {"validate", "collect"} /\ UNCHANGED own
        /\ child' = [child EXCEPT !.left = child.kernel]
    BY <1>2
  <2>2. /\ job' \in Jobs /\ R' = R
        /\ child' \in Children /\ child'.base = child.base
    BY <2>1 DEF TypeOK, Jobs, R, Children
  <2>3. TypeOK'
    BY <2>1, <2>2 DEF TypeOK, familyVars
  <2>4. RoundInv' /\ StageInv' /\ ProvenInv'
    BY <2>1, <2>2 DEF RoundInv, StageInv, ProvenInv, Archiving, familyVars
  <2>5. KeptInv' /\ ArchivedIsProven'
    BY <2>1, KeptKept, ArchivedKept DEF familyVars
  <2> QED BY <2>3, <2>4, <2>5
<1> QED BY <1>1, <1>2

LEMMA ValidateKeeps ==
    ASSUME GateInv, Validate
    PROVE  GateInv'
<1> USE DEF GateInv, Validate, Goto, Is
<1>1. CASE MarkFailed /\ UNCHANGED proven
  BY <1>1, MarkFailedKeeps
<1>2. CASE /\ own' = [own EXCEPT ![R] = "PROMOTABLE"]
           /\ proven' = [proven EXCEPT ![R] = Tree]
           /\ pc' = "collect" /\ UNCHANGED <<child, job>>
  <2>1. R \in Rounds /\ \A n \in Names : published[n] # Absent => published[n]["kernel"].round # R
    BY DEF RoundInv, ProvenInv, TypeOK
  <2>2. Tree \in Trees
    BY TreeFacts
  <2>3. TypeOK'
    BY <1>2, <2>1, <2>2 DEF TypeOK, familyVars
  <2>4. RoundInv' /\ StageInv' /\ ProvenInv'
    BY <1>2 DEF RoundInv, StageInv, ProvenInv, Archiving, R, familyVars
  <2>5. \A q \in Rounds : q # R => own'[q] = own[q] /\ proven'[q] = proven[q]
    BY <1>2 DEF TypeOK
  <2>6. KeptInv' /\ ArchivedIsProven'
    BY <2>1, <2>5, KeptKept, ArchivedKeptInRun DEF familyVars
  <2> QED BY <2>3, <2>4, <2>6
<1> QED BY <1>1, <1>2

LEMMA CollectKeeps ==
    ASSUME GateInv, Collect
    PROVE  GateInv'
<1> USE DEF GateInv, Collect, Goto, Is
<1>1. KeptInv' /\ ArchivedIsProven'
  BY KeptKept, ArchivedKept DEF familyVars, runVars
<1>2. CASE Raise
  BY <1>1, <1>2, Raised DEF TypeOK, familyVars, runVars
<1>3. CASE ~Raise
  <2>1. PICK exit \in {job.exit, "failed"} :
            job' = [job EXCEPT !.exit = exit, !.changed = KernelChanged]
    BY <1>3
  <2>2. KernelChanged \in BOOLEAN /\ exit \in {"ok", "failed"}
    BY DEF KernelChanged, TypeOK, Jobs
  <2>3. job' \in Jobs /\ R' = R
    BY <2>1, <2>2 DEF TypeOK, Jobs, R
  <2>4. UNCHANGED child /\ pc' = "outcome"
    BY <1>3
  <2>5. job'.changed => child.kernel \in Versions
    BY <2>1 DEF KernelChanged, TypeOK, Jobs, Children, Kernels
  <2>6. TypeOK'
    BY <2>3, <2>4 DEF TypeOK, familyVars, runVars
  <2>7. RoundInv' /\ StageInv' /\ ProvenInv'
    BY <2>3, <2>4, <2>5 DEF RoundInv, StageInv, ProvenInv, Archiving, familyVars
  <2> QED BY <1>1, <2>6, <2>7
<1> QED BY <1>2, <1>3

-----------------------------------------------------------------------------
(* The outcome and the evidence gate.                                      *)

\* Of a child whose outcome is known the sources stay what they are.
LEMMA SettledFacts ==
    ASSUME TypeOK
    PROVE  /\ Settled \in Children /\ Settled.kernel = child.kernel
           /\ Settled.base = child.base
BY DEF Settled, TypeOK, Children, Kernels

LEMMA FailedRoundKeeps ==
    ASSUME GateInv, FailedRound
    PROVE  GateInv'
<1> USE DEF GateInv, FailedRound, Goto, Is
<1>1. R \in Rounds /\ R \in Slots /\ R \notin Names
  BY BundleFacts DEF RoundInv, TypeOK
<1>2. job' \in Jobs /\ R' = R /\ job'.slot = R /\ job'.art = 0
  <2>1. 0 \in Kernels
    BY CampaignAssumption DEF Kernels, Versions
  <2>2. job \in Jobs /\ job' = [job EXCEPT !.slot = R, !.parent = None, !.art = 0]
    BY DEF TypeOK
  <2> QED BY <1>1, <2>1, <2>2 DEF Jobs, R
<1>3. TypeOK'
  BY <1>2, SettledFacts DEF TypeOK, familyVars, runVars
<1>4. RoundInv' /\ StageInv' /\ ProvenInv'
  <2>1. 0 \in Versions /\ job'.art # Solution
    BY <1>2, ReferenceVersion, NoneAssumption
  <2> QED BY <1>1, <1>2, <2>1, SettledFacts DEF RoundInv, StageInv, ProvenInv, Archiving, familyVars
<1>5. KeptInv' /\ ArchivedIsProven'
  BY KeptKept, ArchivedKept DEF familyVars, runVars
<1> QED BY <1>3, <1>4, <1>5

LEMMA CleanRoundKeeps ==
    ASSUME GateInv, NEW name \in Names, NEW art \in {Solution} \cup Versions, CleanRound(name, art)
    PROVE  GateInv'
<1> USE DEF GateInv, CleanRound, Goto, Is
<1>1. job' \in Jobs /\ R' = R /\ job'.slot = name /\ job'.art = art
  BY DEF TypeOK, Jobs, R, Kernels, Slots
<1>2. pc' = IF profile = "production" THEN "verify" ELSE "archive"
  OBVIOUS
<1>3. TypeOK'
  BY <1>1, <1>2, SettledFacts DEF TypeOK, familyVars, runVars
<1>4. RoundInv' /\ StageInv' /\ ProvenInv'
  BY <1>1, <1>2, SettledFacts DEF RoundInv, StageInv, ProvenInv, Archiving, familyVars, Slots
<1>5. KeptInv' /\ ArchivedIsProven'
  BY KeptKept, ArchivedKept DEF familyVars, runVars
<1> QED BY <1>3, <1>4, <1>5

LEMMA RoundOverKeeps ==
    ASSUME GateInv, Raise, UNCHANGED <<familyVars, dir, runVars, edits, disturbed>>
    PROVE  GateInv'
BY Raised, KeptKept, ArchivedKept DEF GateInv, TypeOK, familyVars, runVars

\* Past the gate the artifact is what the run is bound to.
LEMMA VerifyEvidenceKeeps ==
    ASSUME GateInv, VerifyEvidence
    PROVE  GateInv'
<1> USE DEF GateInv, VerifyEvidence, Goto, Is
<1>1. TypeOK'
  BY DEF TypeOK, familyVars, runVars
<1>2. RoundInv' /\ StageInv'
  BY DEF RoundInv, StageInv, Archiving, R, familyVars
<1>3. ProvenInv'
  <2>1. EvidenceMatches =>
          own[R] = "PROMOTABLE" /\ proven[R] # None /\ Artifact = proven[R].kernel
    BY TreeFacts DEF EvidenceMatches, LatestIsPromotable
  <2> QED BY <2>1 DEF ProvenInv, Archiving, R, familyVars, runVars, Artifact
<1>4. KeptInv' /\ ArchivedIsProven'
  BY KeptKept, ArchivedKept DEF familyVars, runVars
<1> QED BY <1>1, <1>2, <1>3, <1>4

-----------------------------------------------------------------------------
(* Staging and publishing.                                                 *)

LEMMA BeginArchiveKeeps ==
    ASSUME GateInv, BeginArchive
    PROVE  GateInv'
<1> USE DEF GateInv, BeginArchive, Goto, Is
<1>1. KeptInv' /\ ArchivedIsProven'
  BY KeptKept, ArchivedKept DEF familyVars, runVars
<1>2. CASE Raise /\ UNCHANGED staging
  BY <1>1, <1>2, Raised DEF TypeOK, familyVars, runVars
<1>3. CASE /\ published[job.slot] = Absent
           /\ job.parent # None => published[job.parent] # Absent
           /\ staging' = [staging EXCEPT ![job.slot] = Empty]
           /\ job' = [job EXCEPT !.i = 1]
           /\ pc' = "stage"
           /\ UNCHANGED child
  <2>1. job.slot \in Slots /\ R \in Rounds
    BY DEF RoundInv, Archiving, TypeOK
  <2>2. 1 \in 1 .. Len(VariantMembers) + 1
    BY DEF VariantMembers
  <2>3. job' \in Jobs /\ R' = R /\ job'.i = 1 /\ job'.slot = job.slot /\ job'.art = job.art
        /\ job'.parent = job.parent
    BY <1>3, <2>2 DEF TypeOK, Jobs, R
  <2>4. Empty \in [Members -> Calls \cup {None}] /\ Empty # Absent
    BY FilesPresent DEF Empty
  <2>5. staging' \in [Slots -> Directory] /\ staging'[job.slot] = Empty
    BY <1>3, <2>1, <2>4 DEF TypeOK, Directory
  <2>6. TypeOK'
    BY <1>3, <2>3, <2>5 DEF TypeOK, runVars
  <2>7. StageInv'
    <3>1. \A m \in Members : ~Written(m)'
      BY <2>3 DEF Written
    <3>2. \A m \in Members : staging'[job.slot][m] = None
      BY <2>5 DEF Empty
    <3> QED BY <1>3, <2>1, <2>3, <2>4, <2>5, <3>1, <3>2, MemberFacts DEF StageInv
  <2>8. RoundInv' /\ ProvenInv'
    BY <1>3, <2>1, <2>3 DEF RoundInv, ProvenInv, Archiving, Artifact, runVars
  <2> QED BY <1>1, <2>6, <2>7, <2>8
<1> QED BY <1>2, <1>3

LEMMA StageMemberKeeps ==
    ASSUME GateInv, StageMember
    PROVE  GateInv'
<1> DEFINE member == MembersOf(job.slot)[job.i]
           call == IF job.i = 1 THEN [round |-> R, text |-> Artifact, parent |-> job.parent]
                                ELSE job.call
<1>0. TypeOK /\ RoundInv /\ StageInv /\ KeptInv /\ ProvenInv /\ ArchivedIsProven
  BY DEF GateInv
<1>1. /\ pc = "stage" /\ job.i <= Len(MembersOf(job.slot))
      /\ \/ staging' = [staging EXCEPT ![job.slot][member] = call]
         \/ member \in Optional /\ UNCHANGED staging
      /\ job' = [job EXCEPT !.call = call, !.i = job.i + 1]
      /\ UNCHANGED <<profile, measured, published, dir, runVars, child, pc, edits, disturbed>>
  BY DEF StageMember, Is
<1>2. /\ job.slot \in Slots /\ R \in Rounds /\ job.parent \in Names \cup {None}
      /\ job.i \in 1 .. Len(MembersOf(job.slot)) /\ job.i \in 1 .. 3
  <2>1. job.slot \in Slots /\ R \in Rounds
    BY <1>0, <1>1 DEF RoundInv, Archiving, TypeOK
  <2>2. job.i \in 1 .. Len(VariantMembers) + 1 /\ job.parent \in Names \cup {None}
    BY <1>0 DEF TypeOK, Jobs
  <2>3. job.i \in Nat
    BY <2>2 DEF VariantMembers
  <2> QED BY <1>1, <2>1, <2>2, <2>3, MemberFacts
<1>3. Artifact \in Versions
  BY <1>0, <1>1 DEF Artifact, RoundInv, Archiving
<1>4. call \in Calls /\ call.round = R /\ call.parent = job.parent
  BY <1>0, <1>1, <1>2, <1>3 DEF Calls, StageInv
<1>5. /\ job.i = 1 => call.text = Artifact
      /\ job.i # 1 => call = job.call
  OBVIOUS
<1>6. member \in Members
  BY <1>2, MemberFacts
<1>7. \A m \in Members : Written(m) => m # member /\ job.i > 1
  BY <1>2, MemberFacts DEF Written
<1>8. job' \in Jobs /\ R' = R /\ job'.i = job.i + 1 /\ job'.slot = job.slot /\ job'.art = job.art
      /\ job'.parent = job.parent /\ job'.call = call
  <2> HIDE DEF call
  <2>1. job.i + 1 \in 1 .. Len(VariantMembers) + 1
    BY <1>2 DEF VariantMembers
  <2>2. job \in Jobs
    BY <1>0 DEF TypeOK
  <2> QED BY <1>1, <1>4, <2>1, <2>2 DEF Jobs, R
<1>9. \A m \in Members : Written(m)' <=> m = member \/ Written(m)
  <2>1. MembersOf(job.slot)' = MembersOf(job.slot)
    BY <1>8 DEF MembersOf
  <2>2. \A k \in 1 .. Len(MembersOf(job.slot)) : k < job'.i <=> k = job.i \/ k < job.i
    BY <1>2, <1>8
  <2>3. Len(MembersOf(job.slot))' = Len(MembersOf(job.slot))
    BY <2>1
  <2> QED BY <1>2, <1>8, <2>1, <2>2, <2>3 DEF Written
<1> HIDE DEF call, member
<1>10. staging[job.slot] \in [Members -> Calls \cup {None}]
  <2>1. staging[job.slot] \in Directory /\ staging[job.slot] # Absent
    BY <1>0, <1>1, <1>2 DEF StageInv, TypeOK
  <2> QED BY <2>1, DirectoryFacts
<1>11. /\ staging' \in [Slots -> Directory]
       /\ staging'[job.slot] \in [Members -> Calls \cup {None}]
       /\ \A m \in Members : m # member => staging'[job.slot][m] = staging[job.slot][m]
       /\ staging'[job.slot][member] = call \/ (member \in Optional /\ UNCHANGED staging)
  BY <1>0, <1>1, <1>2, <1>4, <1>6, <1>10 DEF TypeOK, Directory
<1>12. TypeOK'
  BY <1>0, <1>1, <1>8, <1>11 DEF TypeOK, runVars
<1>13. StageInv'
  <2>1. \A m \in Members :
          IF Written(m)'
          THEN staging'[job.slot][m] = call \/ (m \in Optional /\ staging'[job.slot][m] = None)
          ELSE staging'[job.slot][m] = None
    <3> SUFFICES ASSUME NEW m \in Members
                 PROVE  IF Written(m)'
                        THEN staging'[job.slot][m] = call \/ (m \in Optional /\ staging'[job.slot][m] = None)
                        ELSE staging'[job.slot][m] = None
        OBVIOUS
    <3>1. IF Written(m) THEN staging[job.slot][m] = job.call \/ (m \in Optional /\ staging[job.slot][m] = None)
                        ELSE staging[job.slot][m] = None
      BY <1>0, <1>1 DEF StageInv
    <3>2. CASE m = member
      BY <1>6, <1>7, <1>9, <1>11, <3>1, <3>2
    <3>3. CASE m # member
      BY <1>5, <1>7, <1>9, <1>11, <3>1, <3>3
    <3> QED BY <3>2, <3>3
  <2>2. staging'[job.slot] # Absent
    BY <1>11, FilesPresent
  <2>3. /\ published[job.slot] = Absent
        /\ job.parent # None => published[job.parent] # Absent
    BY <1>0, <1>1 DEF StageInv
  <2>4. job'.i <= Len(MembersOf(job'.slot)) + 1
    BY <1>2, <1>8, MemberFacts
  <2> QED BY <1>1, <1>2, <1>4, <1>8, <2>1, <2>2, <2>3, <2>4 DEF StageInv
<1>14. RoundInv'
  BY <1>0, <1>1, <1>8 DEF RoundInv, Archiving
<1>15. ProvenInv'
  <2>1. Artifact' = Artifact
    BY <1>1, <1>8 DEF Artifact
  <2>2. profile = "production" /\ job.slot \in Names /\ R \notin disturbed =>
          /\ own[R] = "PROMOTABLE" /\ proven[R] # None
          /\ Artifact = proven[R].kernel /\ call.text = proven[R].kernel
    BY <1>0, <1>1, <1>2, <1>5 DEF ProvenInv, Archiving
  <2> QED BY <1>1, <1>8, <2>1, <2>2 DEF ProvenInv, Archiving, runVars
<1>16. KeptInv' /\ ArchivedIsProven'
  BY <1>0, <1>1, KeptKept, ArchivedKept DEF runVars
<1> QED BY <1>12, <1>13, <1>14, <1>15, <1>16 DEF GateInv

\* All files of a staging directory are there when it is moved.
LEMMA StagedIsWhole ==
    ASSUME TypeOK, StageInv, RoundInv, pc = "stage", job.i = Len(MembersOf(job.slot)) + 1
    PROVE  /\ job.slot \in Slots /\ R \in dir
           /\ staging[job.slot] \in [Members -> Calls \cup {None}]
           /\ Whole(job.slot, staging[job.slot])
           /\ staging[job.slot][Key(job.slot)] = job.call
           /\ job.call \in Calls /\ job.call.round = R /\ job.call.parent = job.parent
<1>1. job.slot \in Slots /\ R \in dir
  BY DEF RoundInv, Archiving
<1>2. staging[job.slot] \in [Members -> Calls \cup {None}] /\ staging[job.slot] # Absent
  BY <1>1, DirectoryFacts DEF StageInv, TypeOK
<1>3. job.call \in Calls /\ job.call.round = R /\ job.call.parent = job.parent
  BY <1>1, MemberFacts DEF StageInv
<1>4. \A m \in Members : Written(m) <=> \E k \in 1 .. Len(MembersOf(job.slot)) : MembersOf(job.slot)[k] = m
  BY <1>1, MemberFacts DEF Written
<1>5. staging[job.slot][Key(job.slot)] = job.call
  BY <1>1, <1>4, MemberFacts DEF StageInv
<1>6. Whole(job.slot, staging[job.slot])
  BY <1>2, <1>3, <1>4, <1>5, NoneAssumption DEF Whole, StageInv
<1> QED BY <1>1, <1>2, <1>3, <1>5, <1>6

LEMMA PublishStagedKeeps ==
    ASSUME GateInv, PublishStaged
    PROVE  GateInv'
<1> USE DEF GateInv, PublishStaged, Is
<1>1. /\ job.slot \in Slots /\ R \in dir
      /\ staging[job.slot] \in [Members -> Calls \cup {None}]
      /\ Whole(job.slot, staging[job.slot])
      /\ staging[job.slot][Key(job.slot)] = job.call
      /\ job.call \in Calls /\ job.call.round = R
  BY StagedIsWhole
<1>2. /\ published' \in [Slots -> Directory] /\ staging' \in [Slots -> Directory]
      /\ published'[job.slot] = staging[job.slot]
      /\ \A s \in Slots : s # job.slot => published'[s] = published[s]
  BY <1>1 DEF TypeOK, Directory
<1>3. TypeOK' /\ RoundInv' /\ StageInv' /\ ProvenInv'
  BY <1>2, Raised DEF TypeOK, runVars
<1>4. KeptInv'
  BY <1>1, <1>2 DEF KeptInv
<1>5. ArchivedIsProven'
  <2> SUFFICES ASSUME NEW n \in Names, profile = "production", published'[n] # Absent,
                      published'[n]["kernel"].round \notin disturbed
               PROVE  LET r == published'[n]["kernel"].round
                      IN own[r] = "PROMOTABLE" /\ proven[r] # None
                         /\ proven[r].kernel = published'[n]["kernel"].text
    BY DEF ArchivedIsProven, runVars
  <2>1. CASE n = job.slot
    <3>1. Key(n) = "kernel" /\ job.i > 1
      BY <2>1, VariantFacts
    <3> QED BY <1>1, <1>2, <2>1, <3>1 DEF ProvenInv, Archiving
  <2>2. CASE n # job.slot
    BY <1>2, <2>2, VariantFacts DEF ArchivedIsProven
  <2> QED BY <2>1, <2>2
<1> QED BY <1>3, <1>4, <1>5

LEMMA StagingFailsKeeps ==
    ASSUME GateInv, StagingFails
    PROVE  GateInv'
<1> USE DEF GateInv, StagingFails, Goto, Is
<1>1. KeptInv' /\ ArchivedIsProven'
  BY KeptKept, ArchivedKept DEF familyVars, runVars
<1>2. staging' \in [Slots -> Directory]
  BY DEF TypeOK, Directory, RoundInv, Archiving
<1>3. CASE Raise
  BY <1>1, <1>2, <1>3, Raised DEF TypeOK, runVars
<1>4. CASE pc' = "archive" /\ UNCHANGED <<child, job>>
  <2>1. TypeOK'
    BY <1>2, <1>4 DEF TypeOK, runVars
  <2>2. RoundInv' /\ StageInv' /\ ProvenInv'
    BY <1>4 DEF RoundInv, StageInv, ProvenInv, Archiving, R, Artifact, runVars
  <2> QED BY <1>1, <2>1, <2>2
<1> QED BY <1>3, <1>4

LEMMA CrashKeeps ==
    ASSUME GateInv, Crash
    PROVE  GateInv'
<1> USE DEF GateInv, Crash, Goto, Is
<1>1. CASE Raise
  BY <1>1, RoundOverKeeps
<1>2. CASE pc \in {"archive", "stage"} /\ pc' = "archive" /\ UNCHANGED <<child, job>>
  <2>1. TypeOK'
    BY <1>2 DEF TypeOK, familyVars, runVars
  <2>2. RoundInv' /\ StageInv' /\ ProvenInv'
    BY <1>2 DEF RoundInv, StageInv, ProvenInv, Archiving, R, Artifact, familyVars, runVars
  <2>3. KeptInv' /\ ArchivedIsProven'
    BY KeptKept, ArchivedKept DEF familyVars, runVars
  <2> QED BY <2>1, <2>2, <2>3
<1> QED BY <1>1, <1>2

-----------------------------------------------------------------------------
(* The sub and what it leaves.                                             *)

\* During phase 1 the sub may do anything to the files of its child.
LEMMA SubWorkKeeps ==
    ASSUME GateInv, pc = "agent", child' \in Children,
           child'.base = child.base, edits' \in Versions, measured' \in BOOLEAN,
           UNCHANGED <<profile, published, staging, dir, runVars, pc, job, disturbed>>
    PROVE  GateInv'
<1> USE DEF GateInv
<1>1. TypeOK'
  BY DEF TypeOK, runVars
<1>2. RoundInv' /\ StageInv' /\ ProvenInv'
  BY DEF RoundInv, StageInv, ProvenInv, Archiving, R, runVars
<1>3. KeptInv' /\ ArchivedIsProven'
  BY KeptKept, ArchivedKept DEF runVars
<1> QED BY <1>1, <1>2, <1>3

LEMMA VersionFacts ==
    ASSUME TypeOK, edits < MaxEdits
    PROVE  edits + 1 \in Versions
BY CampaignAssumption DEF TypeOK, Versions

LEMMA SubKeeps ==
    ASSUME GateInv, SubEdits \/ SubReverts \/ SubRemoves \/ SubBenches \/ SubRunsDoctor \/ SubWipes
    PROVE  GateInv'
<1>1. pc = "agent" /\ child \in Children /\ child.base \in Versions
      /\ edits \in Versions /\ measured \in BOOLEAN
  BY DEF GateInv, RoundInv, TypeOK, SubEdits, SubReverts, SubRemoves, SubBenches, SubRunsDoctor,
         SubWipes, Is
<1>2. CASE SubEdits
  <2>1. child' \in Children /\ child'.base = child.base /\ edits' \in Versions
    BY <1>1, <1>2, VersionFacts DEF GateInv, SubEdits, Children, Kernels
  <2> QED BY <1>1, <1>2, <2>1, SubWorkKeeps DEF SubEdits, familyVars
<1>3. CASE SubReverts
  <2>1. child' \in Children /\ child'.base = child.base
    BY <1>1, <1>3, ReferenceVersion DEF SubReverts, Children, Kernels
  <2> QED BY <1>1, <1>3, <2>1, SubWorkKeeps DEF SubReverts, familyVars
<1>4. CASE SubRemoves
  <2>1. child' \in Children /\ child'.base = child.base
    BY <1>1, <1>4 DEF SubRemoves, Children, Kernels
  <2> QED BY <1>1, <1>4, <2>1, SubWorkKeeps DEF SubRemoves, familyVars
<1>5. CASE SubBenches
  <2>1. child' \in Children /\ child'.base = child.base
    BY <1>1, <1>5 DEF SubBenches, Children, Kernels
  <2> QED BY <1>1, <1>5, <2>1, SubWorkKeeps DEF SubBenches
<1>6. CASE SubRunsDoctor
  <2>1. child' \in Children /\ child'.base = child.base
    BY <1>1, <1>6 DEF SubRunsDoctor, Children
  <2> QED BY <1>1, <1>6, <2>1, SubWorkKeeps DEF SubRunsDoctor, familyVars
<1>7. CASE SubWipes
  <2>1. child' \in Children /\ child'.base = child.base
    BY <1>1, <1>7 DEF SubWipes, Children, Kernels
  <2> QED BY <1>1, <1>7, <2>1, SubWorkKeeps DEF SubWipes, familyVars
<1> QED BY <1>2, <1>3, <1>4, <1>5, <1>6, <1>7

\* Once the artifact has been checked, a late edit of it counts the child as disturbed.
LEMMA LateEditKeeps ==
    ASSUME GateInv, LateEdit
    PROVE  GateInv'
<1> USE DEF GateInv
<1>1. edits + 1 \in Versions /\ R \in Rounds /\ child \in Children /\ R' = R
  BY VersionFacts DEF LateEdit, RoundInv, TypeOK, R
<1>2. /\ child' \in Children /\ child'.base = child.base
      /\ child.kernel \in Versions => child'.kernel \in Versions
      /\ child'.kernel = child.kernel \/ (Archiving => R \in disturbed')
  <2>1. CASE /\ child' = [child EXCEPT !.kernel = edits + 1,
                                        !.touched = @ \/ pc \in {"validate", "collect"}]
             /\ disturbed' = IF pc \in {"archive", "stage"} THEN disturbed \cup {R} ELSE disturbed
    BY <1>1, <2>1 DEF Children, Kernels, Archiving
  <2>2. CASE child' = [child EXCEPT !.rest = edits + 1]
    BY <1>1, <2>2 DEF Children
  <2> QED BY <2>1, <2>2 DEF LateEdit
<1>3. /\ UNCHANGED <<profile, measured, published, staging, dir, own, proven, pc, job>>
      /\ edits' = edits + 1 /\ pc # "populate"
      /\ disturbed \subseteq disturbed' /\ disturbed' \subseteq Rounds
  BY <1>1 DEF LateEdit, TypeOK, familyVars, runVars
<1>4. TypeOK'
  BY <1>1, <1>2, <1>3 DEF TypeOK
<1>5. RoundInv'
  BY <1>1, <1>2, <1>3 DEF RoundInv, Archiving
<1>6. ProvenInv'
  <2>1. R \notin disturbed' /\ Archiving => Artifact' = Artifact
    BY <1>2, <1>3 DEF Artifact
  <2> QED BY <1>1, <1>3, <2>1 DEF ProvenInv, Archiving
<1>7. StageInv'
  BY <1>1, <1>3 DEF StageInv, Written
<1>8. KeptInv' /\ ArchivedIsProven'
  BY <1>3, KeptKept, ArchivedKept
<1> QED BY <1>4, <1>5, <1>6, <1>7, <1>8

-----------------------------------------------------------------------------
(* The invariant.                                                          *)

LEMMA StepKeeps == GateInv /\ [Next]_vars => GateInv'
<1> SUFFICES ASSUME GateInv, [Next]_vars PROVE GateInv'
    OBVIOUS
<1>1. CASE Spawn
  BY <1>1, SpawnChildKeeps, PopulateChildKeeps, RecordSeedKeeps DEF Spawn
<1>2. CASE Phase1
  BY <1>2, StartPhase1Keeps, PrepareKeeps, AgentReturnsKeeps, ValidateKeeps, CollectKeeps DEF Phase1
<1>3. CASE Outcome
  BY <1>3, FailedRoundKeeps, CleanRoundKeeps, RoundOverKeeps, VerifyEvidenceKeeps
     DEF Outcome, UnchangedRound, NoArchive
<1>4. CASE Keep
  BY <1>4, BeginArchiveKeeps, StageMemberKeeps, PublishStagedKeeps, StagingFailsKeeps DEF Keep
<1>5. CASE Sub
  BY <1>5, SubKeeps, LateEditKeeps DEF Sub
<1>6. CASE Crash
  BY <1>6, CrashKeeps
<1>7. CASE UNCHANGED vars
  <2>1. TypeOK'
    BY <1>7 DEF GateInv, TypeOK, vars, familyVars, runVars
  <2>2. RoundInv' /\ StageInv' /\ ProvenInv'
    BY <1>7 DEF GateInv, RoundInv, StageInv, ProvenInv, Archiving, R, Written, Artifact, vars, familyVars, runVars
  <2>3. KeptInv' /\ ArchivedIsProven'
    BY <1>7, KeptKept, ArchivedKept DEF GateInv, vars, familyVars, runVars
  <2> QED BY <2>1, <2>2, <2>3 DEF GateInv
<1> QED BY <1>1, <1>2, <1>3, <1>4, <1>5, <1>6, <1>7 DEF Next

-----------------------------------------------------------------------------
(* What the outcome of a round says.                                       *)

\* A round that is over has no outcome yet, and what the calls after the outcome do
\* leaves the run of the round alone.
LEMMA NoOutcome ==
    ASSUME pc' \in {"ready", "populate", "denied", "archive", "stage"}
    PROVE  SeedInv' /\ ExitInv'
BY DEF SeedInv, ExitInv

\* During phase 1 the master leaves the child alone; only of a clean exit it is said
\* what the agent left.
LEMMA SeedKept ==
    ASSUME SeedInv, UNCHANGED child,
           pc \in {"spawned", "prepare", "agent", "validate", "collect"},
           pc' \in {"prepare", "agent", "validate", "collect"},
           pc' \in {"validate", "collect"} =>
             job'.exit = "failed" \/ (pc \in {"validate", "collect"} /\ job'.exit = job.exit)
    PROVE  SeedInv'
BY DEF SeedInv

LEMMA SpawnOutcome ==
    ASSUME GateInv, SeedInv, Spawn
    PROVE  SeedInv' /\ ExitInv'
<1>1. CASE \E r \in Rounds, parent \in Names \cup {None} : SpawnChild(r, parent)
  BY <1>1, NoOutcome DEF SpawnChild, Goto
<1>2. CASE PopulateChild
  <2>1. CASE Raise
    BY <2>1, NoOutcome DEF Raise
  <2>2. CASE ~Raise
    <3>1. pc' = "seed" /\ child'.kernel = child'.base /\ ~child'.wiped
      BY <1>2, <2>2 DEF PopulateChild, Goto, NoChild
    <3> QED BY <3>1 DEF SeedInv, ExitInv
  <2> QED BY <2>1, <2>2
<1>3. CASE RecordSeed
  <2>1. CASE Raise
    BY <2>1, NoOutcome DEF Raise
  <2>2. CASE ~Raise
    <3>1. /\ pc = "seed" /\ pc' = "spawned" /\ child \in Children
          /\ child' = [child EXCEPT !.seed = child.kernel]
      BY <1>3, <2>2 DEF RecordSeed, Goto, Is, GateInv, TypeOK
    <3>2. child'.seed = child.kernel /\ child'.base = child.base /\ child'.wiped = child.wiped
      BY <3>1 DEF Children
    <3> QED BY <3>1, <3>2 DEF SeedInv, ExitInv
  <2> QED BY <2>1, <2>2
<1> QED BY <1>1, <1>2, <1>3 DEF Spawn

LEMMA MarkFailedOutcome ==
    ASSUME GateInv, SeedInv, MarkFailed, pc \in {"prepare", "agent", "validate"}
    PROVE  SeedInv' /\ ExitInv'
<1>1. CASE Raise
  BY <1>1, NoOutcome DEF Raise
<1>2. CASE ~Raise
  <2>1. pc' = "collect" /\ UNCHANGED child /\ job' = [job EXCEPT !.exit = "failed"]
    BY <1>2 DEF MarkFailed, Goto
  <2>2. job'.exit = "failed"
    BY <2>1 DEF GateInv, TypeOK, Jobs
  <2> QED BY <2>1, <2>2, SeedKept DEF ExitInv
<1> QED BY <1>1, <1>2

LEMMA Phase1Outcome ==
    ASSUME GateInv, SeedInv, ExitInv, Phase1
    PROVE  SeedInv' /\ ExitInv'
<1>0. job \in Jobs /\ child \in Children /\ R \in Rounds \cup {None}
  BY DEF GateInv, TypeOK, Jobs, R
<1>1. CASE StartPhase1
  <2>1. /\ pc = "spawned" /\ UNCHANGED <<profile, child>> /\ pc' \in {"prepare", "agent", "collect"}
        /\ pc' = "collect" => job'.exit = "failed"
    BY <1>0, <1>1 DEF StartPhase1, Goto, Is, familyVars, Jobs
  <2> QED BY <2>1, SeedKept DEF ExitInv
<1>2. CASE Prepare
  <2>1. CASE MarkFailed
    BY <1>2, <2>1, MarkFailedOutcome DEF Prepare, Is
  <2>2. CASE ~MarkFailed
    BY <1>2, <2>2, SeedKept DEF Prepare, Goto, Is, ExitInv
  <2> QED BY <2>1, <2>2
<1>3. ASSUME NEW exit \in {"ok", "failed"}, AgentReturns(exit)
      PROVE  SeedInv' /\ ExitInv'
  <2>1. CASE MarkFailed
    BY <1>3, <2>1, MarkFailedOutcome DEF AgentReturns, Is
  <2>2. CASE ~MarkFailed
    <3>1. /\ pc = "agent" /\ UNCHANGED profile
          /\ pc' = IF profile = "production" THEN "validate" ELSE "collect"
          /\ child' = [child EXCEPT !.left = child.kernel]
      BY <1>3, <2>2 DEF AgentReturns, Goto, Is, familyVars
    <3>2. /\ child'.left = child'.kernel /\ child'.seed = child.seed
          /\ child'.base = child.base /\ child'.wiped = child.wiped
      BY <1>0, <3>1 DEF Children
    <3> QED BY <3>1, <3>2 DEF SeedInv, ExitInv
  <2> QED BY <2>1, <2>2
<1>4. CASE Validate
  <2>1. CASE MarkFailed
    BY <1>4, <2>1, MarkFailedOutcome DEF Validate, Is
  <2>2. CASE ~MarkFailed
    <3>1. /\ pc = "validate" /\ pc' = "collect" /\ UNCHANGED <<child, job>>
          /\ own' = [own EXCEPT ![R] = "PROMOTABLE"]
          /\ proven' = [proven EXCEPT ![R] = Tree]
      BY <1>4, <2>2 DEF Validate, Goto, Is
    <3>2. R \in Rounds /\ R' = R /\ Tree # None
      BY <3>1, TreeFacts DEF GateInv, RoundInv, TypeOK, R
    <3>3. own'[R] = "PROMOTABLE" /\ proven'[R] # None
      BY <3>1, <3>2 DEF GateInv, TypeOK
    <3> QED BY <3>1, <3>2, <3>3, SeedKept DEF ExitInv
  <2> QED BY <2>1, <2>2
<1>5. CASE Collect
  <2>1. CASE Raise
    BY <2>1, NoOutcome DEF Raise
  <2>2. CASE ~Raise
    <3>1. /\ pc = "collect" /\ pc' = "outcome" /\ UNCHANGED <<profile, own, proven, child>>
      BY <1>5, <2>2 DEF Collect, Goto, Is, familyVars, runVars
    <3>2. PICK exit \in {job.exit, "failed"} :
                 job' = [job EXCEPT !.exit = exit, !.changed = KernelChanged]
      BY <1>5, <2>2 DEF Collect
    <3>3. job'.changed = KernelChanged /\ job'.exit = exit /\ R' = R
      BY <1>0, <3>2 DEF Jobs, R
    <3>4. SeedInv'
      BY <3>1, <3>2, <3>3 DEF SeedInv, KernelChanged
    <3>5. ExitInv'
      BY <3>1, <3>2, <3>3 DEF ExitInv
    <3> QED BY <3>4, <3>5
  <2> QED BY <2>1, <2>2
<1> QED BY <1>1, <1>2, <1>3, <1>4, <1>5 DEF Phase1

LEMMA OutcomeOutcome ==
    ASSUME GateInv, ExitInv, Outcome
    PROVE  SeedInv' /\ ExitInv'
<1>1. CASE FailedRound \/ UnchangedRound \/ VerifyEvidence \/ NoArchive
  <2>1. pc' \in {"ready", "denied", "archive"}
    BY <1>1 DEF FailedRound, UnchangedRound, VerifyEvidence, NoArchive, Raise, Goto
  <2> QED BY <2>1, NoOutcome
<1>2. ASSUME NEW name \in Names, NEW art \in {Solution} \cup Versions, CleanRound(name, art)
      PROVE  SeedInv' /\ ExitInv'
  <2>1. /\ pc = "outcome" /\ pc' \in {"verify", "archive"} /\ UNCHANGED <<profile, own, proven>>
        /\ job' = [job EXCEPT !.slot = name, !.art = art]
    BY <1>2 DEF CleanRound, Goto, Is, familyVars, runVars
  <2>2. job'.exit = job.exit /\ R' = R
    BY <2>1 DEF GateInv, TypeOK, Jobs, R
  <2> QED BY <2>1, <2>2 DEF SeedInv, ExitInv
<1> QED BY <1>1, <1>2 DEF Outcome

LEMMA SubOutcome ==
    ASSUME GateInv, SeedInv, ExitInv, Sub
    PROVE  SeedInv' /\ ExitInv'
<1>1. child \in Children
  BY DEF GateInv, TypeOK
<1>2. CASE LateEdit
  <2>1. /\ pc' = pc /\ job' = job /\ UNCHANGED <<profile, own, proven>>
        /\ pc \notin {"seed", "spawned", "prepare", "agent"}
    BY <1>2 DEF LateEdit, familyVars, runVars
  <2>2. /\ UNCHANGED <<child.seed, child.base, child.left, child.wiped>>
        /\ child'.touched = child.touched \/ pc \in {"validate", "collect"}
        /\ ~child'.touched => ~child.touched
        /\ pc \in {"validate", "collect"} /\ ~child'.touched => child'.kernel = child.kernel
    <3>1. CASE child' = [child EXCEPT !.kernel = edits + 1,
                                      !.touched = @ \/ pc \in {"validate", "collect"}]
      BY <1>1, <3>1 DEF Children
    <3>2. CASE child' = [child EXCEPT !.rest = edits + 1]
      BY <1>1, <3>2 DEF Children
    <3> QED BY <1>2, <3>1, <3>2 DEF LateEdit
  <2> QED BY <2>1, <2>2 DEF SeedInv, ExitInv, R
<1>3. CASE SubEdits \/ SubReverts \/ SubRemoves \/ SubBenches \/ SubRunsDoctor \/ SubWipes
  <2>1. pc = "agent" /\ pc' = "agent"
    BY <1>3 DEF SubEdits, SubReverts, SubRemoves, SubBenches, SubRunsDoctor, SubWipes, Is
  <2>2. /\ child'.base = child.base
        /\ UNCHANGED <<child.seed, child.wiped>> \/ (child'.seed = None /\ child'.wiped)
    BY <1>1, <1>3 DEF SubEdits, SubReverts, SubRemoves, SubBenches, SubRunsDoctor, SubWipes, Children
  <2> QED BY <2>1, <2>2 DEF SeedInv, ExitInv
<1> QED BY <1>2, <1>3 DEF Sub

LEMMA OutcomeStep == CInv /\ [Next]_vars => CInv'
<1> SUFFICES ASSUME GateInv, SeedInv, ExitInv, [Next]_vars PROVE SeedInv' /\ ExitInv'
    BY StepKeeps DEF CInv
<1>1. CASE Keep \/ Crash
  <2>1. pc' \in {"ready", "archive", "stage"}
    BY <1>1 DEF Keep, Crash, BeginArchive, StageMember, PublishStaged, StagingFails, Raise, Goto, Is
  <2> QED BY <2>1, NoOutcome
<1>2. CASE UNCHANGED vars
  BY <1>2 DEF SeedInv, ExitInv, R, vars, familyVars, runVars
<1> QED BY <1>1, <1>2, SpawnOutcome, Phase1Outcome, OutcomeOutcome, SubOutcome DEF Next

LEMMA OutcomeStarts == Init => CInv
BY InitKeeps DEF CInv, SeedInv, ExitInv, Init

\* The invariant of the campaign, in every state of every behaviour.
THEOREM Inductive == Spec => []CInv
BY OutcomeStarts, OutcomeStep, PTL DEF Spec

\* Every variable keeps its type.
THEOREM TypeCorrect == Spec => []TypeOK
<1>1. CInv => TypeOK
  BY DEF CInv, GateInv
<1> QED BY <1>1, Inductive, PTL

\* What a production campaign archives has passed its round's pipeline
\* (master.py:208 verify_production_evidence before archive_variant).
THEOREM EvidenceGate == Spec => []ArchivedIsProven
<1>1. CInv => ArchivedIsProven
  BY DEF CInv, GateInv
<1> QED BY <1>1, Inductive, PTL

\* A clean round counts as changed exactly if kernel.py, at the agent's exit, exists
\* and is not the kernel the child was given or the seed hash is gone, late writes set
\* aside (master.py:757 run_sub_phase1, against the hash of 626).
THEOREM OutcomesFollow == Spec => []OutcomeFollowsKernel
<1>1. CInv => OutcomeFollowsKernel
  <2> SUFFICES ASSUME CInv, pc = "outcome", job.exit = "ok", ~child.touched
               PROVE  job.changed = (child.left # None /\ (child.left # child.base \/ child.wiped))
      BY DEF OutcomeFollowsKernel
  <2>1. child.base # None
    BY NoneAssumption DEF CInv, GateInv, RoundInv
  <2> QED BY <2>1 DEF CInv, SeedInv
<1> QED BY <1>1, Inductive, PTL

\* A clean exit of a production child stands for a run that is PROMOTABLE and bound
\* to a source (master.py:714 run_sub_phase1).
THEOREM CleanExits == Spec => []CleanExitIsProven
<1>1. CInv => CleanExitIsProven
  BY DEF CInv, ExitInv, CleanExitIsProven
<1> QED BY <1>1, Inductive, PTL

-----------------------------------------------------------------------------
(* The archive implements its promise.                                     *)

Promised == [s \in Slots |-> EntryOf(s, published[s])]

LEMMA EntryFacts ==
    ASSUME KeptInv, NEW s \in Slots
    PROVE  Promised[s] = IF published[s] = Absent THEN None ELSE published[s][Key(s)]
BY DEF Promised, EntryOf, KeptInv

LEMMA PromiseStarts == Init => PromisedArchive!Init
BY DEF Init, PromisedArchive!Init, EntryOf

\* The rename is the one step at which an entry appears.
LEMMA RenamePublishes ==
    ASSUME GateInv, PublishStaged
    PROVE  PromisedArchive!Next
<1>1. /\ job.slot \in Slots /\ Whole(job.slot, staging[job.slot])
      /\ staging[job.slot][Key(job.slot)] = job.call
      /\ job.call \in Calls /\ job.call.parent = job.parent
      /\ staging[job.slot] # Absent
  BY StagedIsWhole DEF GateInv, PublishStaged, Is, Whole
<1>2. /\ published[job.slot] = Absent /\ published'[job.slot] = staging[job.slot]
      /\ \A s \in Slots : s # job.slot => published'[s] = published[s]
      /\ job.parent # None => published[job.parent] # Absent
      /\ job.parent \in Names \cup {None}
  BY <1>1 DEF GateInv, StageInv, TypeOK, Jobs, PublishStaged, Is
<1>3. KeptInv'
  BY PublishStagedKeeps DEF GateInv
<1>4. Promised'[job.slot] = job.call
  BY <1>1, <1>2, <1>3 DEF Promised, EntryOf
<1>5. Promised[job.slot] = None
  BY <1>1, <1>2 DEF Promised, EntryOf
<1>6. Promised' = [Promised EXCEPT ![job.slot] = job.call]
  BY <1>1, <1>2, <1>4 DEF Promised
<1>7. job.call.parent # None => Promised[job.call.parent] # None
  <2> SUFFICES ASSUME job.parent # None PROVE Promised[job.parent] # None
    BY <1>1
  <2>1. job.parent \in Names /\ job.parent \in Slots /\ published[job.parent] # Absent
    BY <1>2 DEF Slots
  <2> QED BY <2>1, EntryFacts DEF GateInv, KeptInv, Whole
<1> QED BY <1>1, <1>4, <1>5, <1>6, <1>7 DEF PromisedArchive!Next, PromisedArchive!Publish, Promised

LEMMA PromiseStep == GateInv /\ [Next]_vars => [PromisedArchive!Next]_Promised
<1> SUFFICES ASSUME GateInv, [Next]_vars PROVE PromisedArchive!Next \/ UNCHANGED Promised
    OBVIOUS
<1>1. CASE PublishStaged
  BY <1>1, RenamePublishes
<1>2. CASE UNCHANGED published
  BY <1>2 DEF Promised
<1>3. PublishStaged \/ UNCHANGED published
  BY DEF Next, Spawn, Phase1, Outcome, Keep, Sub, vars, familyVars, SpawnChild, PopulateChild, RecordSeed,
         StartPhase1, Prepare, AgentReturns, Validate, Collect, FailedRound, CleanRound,
         UnchangedRound, VerifyEvidence, NoArchive, BeginArchive, StageMember, StagingFails,
         SubEdits, SubReverts, SubRemoves, SubBenches, SubRunsDoctor, SubWipes, LateEdit, Crash
<1> QED BY <1>1, <1>2, <1>3

\* Entries of the archive appear whole, under free names, after their parents,
\* and never change (master.py:841 archive_variant, 936 archive_failed).
THEOREM ArchiveImplemented == Spec => ArchiveIsAtomic
<1>1. CInv /\ [Next]_vars => [PromisedArchive!Next]_[s \in Slots |-> EntryOf(s, published[s])]
  BY PromiseStep DEF Promised, CInv
<1> QED BY <1>1, PromiseStarts, Inductive, PTL DEF Spec, ArchiveIsAtomic, PromisedArchive!Spec
=============================================================================
