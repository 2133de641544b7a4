--------------------------- MODULE BaselineProofs ---------------------------
(* Theorems about BaselineCache and their proofs.                          *)
EXTENDS BaselineInvariant, TLAPS

-----------------------------------------------------------------------------
(* Types                                                                   *)

LEMMA FilesFacts ==
    /\ Absent \in Files /\ Torn \in Files
    /\ \A id \in Nat, works \in SUBSET Workloads, env \in Envs \cup {Unknown},
          source \in Sources \cup {"bootstrap"}, mode \in Modes \cup {None}, kit \in Kits \cup {None} :
          Json(id, works, env, source, mode, kit) \in Files
BY DEF Files, Absent, Torn, Json

LEMMA ReadableFacts ==
    ASSUME NEW f \in Files, Readable(f)
    PROVE  /\ f = Json(f.id, f.works, f.env, f.source, f.mode, f.kit)
           /\ f.id \in Nat /\ f.works \subseteq Workloads /\ f.env \in Envs \cup {Unknown}
           /\ f.source \in Sources \cup {"bootstrap"}
           /\ f.mode \in Modes \cup {None} /\ f.kit \in Kits \cup {None}
BY DEF Files, Readable, Absent, Torn, Json

LEMMA InitWritesFile ==
    ASSUME NEW f \in Files, NEW env \in Envs, NEW mode \in Modes, NEW kit \in Kits
    PROVE  InitWrites(f, env, mode, kit) \in Files
<1>1. CASE f = Absent \/ (Readable(f) /\ ~Measured(f) /\ ~Matches(f, env, kit))
  BY <1>1, FilesFacts DEF InitWrites, ShellOf, Matches, Readable, Absent
<1>2. CASE /\ ~(f = Absent \/ (Readable(f) /\ ~Measured(f) /\ ~Matches(f, env, kit)))
           /\ Matches(f, env, kit) /\ f.mode \in {None, mode} /\ None \in {f.mode, f.kit}
  <2>1. InitWrites(f, env, mode, kit) = [f EXCEPT !.mode = mode, !.kit = kit]
    BY <1>2 DEF InitWrites
  <2>2. Readable(f)
    BY <1>2 DEF Matches
  <2>3. [f EXCEPT !.mode = mode, !.kit = kit] \in Files
    BY <2>2 DEF Files, Readable, Absent, Torn
  <2> QED BY <2>1, <2>3
<1>3. CASE /\ ~(f = Absent \/ (Readable(f) /\ ~Measured(f) /\ ~Matches(f, env, kit)))
           /\ ~(Matches(f, env, kit) /\ f.mode \in {None, mode} /\ None \in {f.mode, f.kit})
  BY <1>3, FilesFacts DEF InitWrites
<1> QED BY <1>1, <1>2, <1>3

LEMMA LoadIsFile ==
    ASSUME TypeOK, NEW c \in Children
    PROVE  Load(c) \in Files
BY FilesFacts DEF TypeOK, Load

LEMMA TypeStep == TypeOK /\ [Next]_vars => TypeOK'
<1> SUFFICES ASSUME TypeOK, [Next]_vars
             PROVE  TypeOK'
  OBVIOUS
<1> USE DEF TypeOK, counts
<1>1. ASSUME NEW env \in Envs, NEW mode \in Modes, NEW kit \in Kits, InitRead(env, mode, kit)
      PROVE  TypeOK'
  BY <1>1, InitWritesFile DEF InitRead
<1>2. CASE InitTruncate
  BY <1>2, FilesFacts DEF InitTruncate
<1>3. CASE InitWrite
  BY <1>3, FilesFacts DEF InitWrite
<1>4. CASE InitCrash
  BY <1>4, FilesFacts DEF InitCrash
<1>5. ASSUME NEW c \in Children, NEW env \in Envs \cup {Unknown}, Configure(c, env),
             pc' = [pc EXCEPT ![c] = "copy"]
      PROVE  /\ child' \in [Children -> ChildRecord]
             /\ \A d \in Children : pc'[d] # "unspawned" => None \notin {child'[d].env, child'[d].source}
  <2>1. PICK source \in Sources :
          child' = [child EXCEPT ![c] = [@ EXCEPT !.env = env, !.source = source]]
    BY <1>5 DEF Configure
  <2>2. [child[c] EXCEPT !.env = env, !.source = source] \in ChildRecord
    BY DEF ChildRecord
  <2>3. child'[c].env = env /\ child'[c].source = source
    BY <2>1 DEF ChildRecord
  <2>4. \A d \in Children : d # c => child'[d] = child[d] /\ pc'[d] = pc[d]
    BY <1>5, <2>1
  <2>5. None \notin {env, source}
    BY EnvAssumption, SourceAssumption
  <2> QED BY <2>1, <2>2, <2>3, <2>4, <2>5
<1>6. ASSUME NEW c \in Children, SpawnRead(c)
      PROVE  TypeOK'
  <2>1. golden.env \in Envs \cup {Unknown}
    BY <1>6, ReadableFacts DEF SpawnRead
  <2>2. Configure(c, golden.env) /\ pc' = [pc EXCEPT ![c] = "copy"]
    BY <1>6 DEF SpawnRead
  <2> QED BY <1>5, <1>6, <2>1, <2>2 DEF SpawnRead
<1>7. ASSUME NEW c \in Children, SpawnByHand(c)
      PROVE  TypeOK'
  BY <1>5, <1>7 DEF SpawnByHand
<1>8. ASSUME NEW c \in Children, SpawnCopy(c)
      PROVE  TypeOK'
  <2> DEFINE seed == IF Seeds(c) THEN golden.id ELSE 0
  <2>1. seed \in Nat
    BY ReadableFacts DEF Seeds, Measured
  <2>2. child' = [child EXCEPT ![c] = [@ EXCEPT !.seed = seed]]
    BY <1>8 DEF SpawnCopy
  <2> HIDE DEF seed
  <2>3. child' \in [Children -> ChildRecord]
    BY <2>1, <2>2 DEF ChildRecord
  <2> QED BY <1>8, <2>3 DEF SpawnCopy
<1>9. ASSUME NEW c \in Children, EndRound(c)
      PROVE  TypeOK'
  BY <1>9 DEF EndRound
<1>10. ASSUME NEW c \in Children, NEW call \in Calls, NEW sel \in SUBSET Workloads,
              NEW quick \in BOOLEAN, NEW force \in BOOLEAN, Start(c, call, sel, quick, force)
       PROVE  TypeOK'
  <2>1. (IF force THEN Absent ELSE Load(c)) \in Files
    BY FilesFacts, LoadIsFile
  <2>2. job' \in [Children -> JobRecord]
    BY <1>10, <2>1, FilesFacts DEF Start, JobRecord
  <2> DEFINE forced == child[c].forced \/ force
  <2>3. forced \in BOOLEAN
    OBVIOUS
  <2>4. child' = [child EXCEPT ![c] = [@ EXCEPT !.forced = forced]]
    BY <1>10 DEF Start
  <2> HIDE DEF forced
  <2>5. child' \in [Children -> ChildRecord]
    BY <2>3, <2>4 DEF ChildRecord
  <2> QED BY <1>10, <2>2, <2>5 DEF Start, Goto
<1>11. ASSUME NEW c \in Children, Profile(c)
       PROVE  TypeOK'
  <2>1. /\ child[c].env \in Envs \cup {Unknown} /\ child[c].source \in Sources
        /\ job[c].sel \subseteq Workloads /\ measures + 1 \in Nat
    BY <1>11 DEF Profile, ChildRecord, JobRecord
  <2>3. \A works \in SUBSET job[c].sel : Measurement(c, works) \in Files
    BY <2>1, FilesFacts DEF Measurement
  <2>2. job' \in [Children -> JobRecord]
    BY <1>11, <2>3 DEF Profile, JobRecord
  <2>4. pc'[c] = "save" => Readable(job'[c].data)
    BY <1>11 DEF Profile, Goto, Measurement, Json, Readable, JobRecord
  <2>5. \A d \in Children \ {c} : pc'[d] = pc[d] /\ job'[d] = job[d]
    BY <1>11 DEF Profile, Goto
  <2>6. pc'[c] \in {"score", "save", "reload"}
    BY <1>11 DEF Profile, Goto
  <2> QED BY <1>11, <2>2, <2>4, <2>5, <2>6 DEF Profile, Goto
<1>12. ASSUME NEW c \in Children, Stop(c)
       PROVE  /\ pc' = [pc EXCEPT ![c] = "idle"]
              /\ job' \in [Children -> JobRecord]
              /\ \A d \in Children :
                    pc'[d] \in {"save", "check", "carry", "tmp", "rename"} => Readable(job'[d].data)
  <2>1. NoJob \in JobRecord
    BY FilesFacts DEF NoJob, JobRecord
  <2>2. \A d \in Children \ {c} : pc'[d] = pc[d] /\ job'[d] = job[d]
    BY <1>12 DEF Stop, Goto
  <2> QED BY <1>12, <2>1, <2>2 DEF Stop, Goto
<1>13. ASSUME NEW c \in Children, NoResults(c)
       PROVE  TypeOK'
  BY <1>12, <1>13 DEF NoResults
<1>14. ASSUME NEW c \in Children, SaveLocal(c)
       PROVE  TypeOK'
  BY <1>14 DEF SaveLocal, Goto, JobRecord
<1>15. ASSUME NEW c \in Children, CheckArchive(c)
       PROVE  TypeOK'
  BY <1>15 DEF CheckArchive, Goto
<1>16. ASSUME NEW c \in Children, CarryForward(c)
       PROVE  TypeOK'
  <2> DEFINE data == IF Readable(golden)
                     THEN [job[c].data EXCEPT !.mode = golden.mode, !.kit = golden.kit]
                     ELSE job[c].data
  <2>1. job[c].data \in Files /\ Readable(job[c].data)
    BY <1>16 DEF CarryForward, JobRecord
  <2>2. data \in Files /\ Readable(data)
    BY <2>1, ReadableFacts DEF Files, Readable, Absent, Torn
  <2>3. job' = [job EXCEPT ![c] = [@ EXCEPT !.data = data]]
    BY <1>16 DEF CarryForward
  <2> HIDE DEF data
  <2>4. job' \in [Children -> JobRecord] /\ job'[c].data = data
    BY <2>2, <2>3 DEF JobRecord
  <2>5. \A d \in Children \ {c} : job'[d] = job[d]
    BY <2>3
  <2> QED BY <1>16, <2>2, <2>4, <2>5 DEF CarryForward, Goto
<1>17. ASSUME NEW c \in Children, WriteTmp(c)
       PROVE  TypeOK'
  BY <1>17 DEF WriteTmp, Goto, JobRecord
<1>18. ASSUME NEW c \in Children, RenameTmp(c)
       PROVE  TypeOK'
  <2>1. CASE tmp = Absent
    BY <1>12, <1>18, <2>1 DEF RenameTmp
  <2>2. CASE tmp # Absent
    BY <1>18, <2>2, FilesFacts DEF RenameTmp, Goto
  <2> QED BY <2>1, <2>2
<1>19. ASSUME NEW c \in Children, Reload(c)
       PROVE  TypeOK'
  <2>1. CASE Load(c) = Absent /\ job[c].call # "report"
    BY <1>12, <1>19, <2>1 DEF Reload
  <2>2. CASE ~(Load(c) = Absent /\ job[c].call # "report")
    <3>1. job' \in [Children -> JobRecord]
      BY <1>19, <2>2, LoadIsFile DEF Reload, JobRecord
    <3> QED BY <1>19, <2>2, <3>1 DEF Reload, Goto
  <2> QED BY <2>1, <2>2
<1>20. ASSUME NEW c \in Children, Score(c)
       PROVE  TypeOK'
  <2>1. scores' \subseteq ScoreRecord
    BY <1>20 DEF Score, ScoreRecord, ChildRecord, JobRecord
  <2> QED BY <1>12, <1>20, <2>1 DEF Score
<1>21. ASSUME NEW c \in Children, BenchCrash(c)
       PROVE  TypeOK'
  BY <1>12, <1>21, FilesFacts DEF BenchCrash, Quiet
<1>22. CASE UNCHANGED vars
  BY <1>22 DEF vars
<1> HIDE DEF TypeOK
<1>23. CASE Master
  BY <1>1, <1>2, <1>3, <1>4, <1>23 DEF Master
<1>24. ASSUME NEW c \in Children, Spawn(c)
       PROVE  TypeOK'
  BY <1>6, <1>7, <1>8, <1>9, <1>24 DEF Spawn
<1>25. ASSUME NEW c \in Children, Bench(c)
       PROVE  TypeOK'
  BY <1>10, <1>11, <1>13, <1>14, <1>15, <1>16, <1>17, <1>18, <1>19, <1>20, <1>21, <1>25 DEF Bench
<1> QED BY <1>22, <1>23, <1>24, <1>25 DEF Next

\* In every state each variable has its type, and a spawned child is configured.
THEOREM TypeCorrect == Spec => []TypeOK
<1>1. Init => TypeOK
  BY FilesFacts DEF Init, TypeOK, ChildRecord, JobRecord, NoJob
<1> QED BY <1>1, TypeStep, PTL DEF Spec

-----------------------------------------------------------------------------
(* What a step leaves alone                                                *)

\* A step of one child touches no other child's workspace or command.
LEMMA OthersKeep ==
    ASSUME TypeOK, NEW c \in Children, Spawn(c) \/ Bench(c), NEW d \in Children, d # c
    PROVE  UNCHANGED <<local[d], child[d], pc[d], job[d]>>
<1> USE DEF TypeOK
<1>1. CASE SpawnRead(c) \/ SpawnByHand(c) \/ SpawnCopy(c) \/ EndRound(c)
  BY <1>1 DEF SpawnRead, SpawnByHand, SpawnCopy, EndRound, Configure
<1>2. ASSUME NEW call \in Calls, NEW sel \in SUBSET Workloads, NEW quick \in BOOLEAN,
             NEW force \in BOOLEAN, Start(c, call, sel, quick, force)
      PROVE  UNCHANGED <<local[d], child[d], pc[d], job[d]>>
  BY <1>2 DEF Start, Goto
<1>3. CASE Profile(c)
  BY <1>3 DEF Profile, Goto
<1>4. CASE NoResults(c) \/ Score(c) \/ BenchCrash(c)
  BY <1>4 DEF NoResults, Score, BenchCrash, Stop, Goto
<1>5. CASE SaveLocal(c) \/ CheckArchive(c) \/ CarryForward(c) \/ WriteTmp(c)
  BY <1>5 DEF SaveLocal, CheckArchive, CarryForward, WriteTmp, Goto
<1>6. CASE RenameTmp(c) \/ Reload(c)
  BY <1>6 DEF RenameTmp, Reload, Stop, Goto
<1> HIDE DEF TypeOK
<1> QED BY <1>1, <1>2, <1>3, <1>4, <1>5, <1>6 DEF Spawn, Bench

\* init_campaign touches the golden baseline only.
LEMMA MasterKeeps ==
    ASSUME Master
    PROVE  UNCHANGED <<tmp, local, child, pc, job, measures, promotions, scores>>
BY DEF Master, InitRead, InitTruncate, InitWrite, InitCrash, counts

-----------------------------------------------------------------------------
(* Full scores have whole denominators                                     *)

LEMMA LoadIsUsable ==
    ASSUME NEW c \in Children, Readable(Load(c))
    PROVE  Load(c) = local[c] /\ Usable(local[c], c)
BY DEF Load, Readable, Absent

LEMMA BaseStep == TypeOK /\ BaseInv /\ [Next]_vars => BaseInv'
<1> SUFFICES ASSUME TypeOK, BaseInv, [Next]_vars,
                    NEW d \in Children, pc'[d] = "score", Readable(job'[d].base), ~job'[d].quick
             PROVE  Usable(job[d].base, d)'
  BY DEF BaseInv
<1>1. ASSUME UNCHANGED <<child[d], pc[d], job[d]>>
      PROVE  Usable(job[d].base, d)'
  BY <1>1 DEF BaseInv, Usable
<1>2. CASE Master \/ UNCHANGED vars
  BY <1>1, <1>2, MasterKeeps DEF vars
<1>3. ASSUME NEW c \in Children, Spawn(c) \/ Bench(c), c # d
      PROVE  Usable(job[d].base, d)'
  BY <1>1, <1>3, OthersKeep
<1>4. CASE Spawn(d)
  BY <1>4 DEF Spawn, SpawnRead, SpawnByHand, SpawnCopy, EndRound, TypeOK
<1>5. CASE Bench(d)
  <2>1. ASSUME NEW call \in Calls, NEW sel \in SUBSET Workloads, NEW quick \in BOOLEAN,
               NEW force \in BOOLEAN, Start(d, call, sel, quick, force)
        PROVE  Usable(job[d].base, d)'
    <3>1. job'[d].base = (IF force THEN Absent ELSE Load(d))
      BY <2>1 DEF Start, TypeOK, JobRecord
    <3>2. job'[d].base = local[d] /\ Usable(local[d], d)
      BY <3>1, LoadIsUsable DEF Readable, Absent
    <3>3. child'[d].env = child[d].env /\ child'[d].source = child[d].source
      BY <2>1 DEF Start, TypeOK, ChildRecord
    <3> QED BY <3>2, <3>3 DEF Usable
  <2>2. CASE Profile(d)
    BY <2>2 DEF Profile, Private, Goto, TypeOK, JobRecord
  <2>3. CASE Reload(d)
    <3>1. job'[d].base = Load(d) /\ UNCHANGED child
      BY <2>3 DEF Reload, Stop, Goto, TypeOK, JobRecord
    <3> QED BY <3>1, LoadIsUsable DEF Usable
  <2>4. CASE NoResults(d) \/ Score(d) \/ BenchCrash(d)
    BY <2>4 DEF NoResults, Score, BenchCrash, Stop, Goto, TypeOK
  <2>5. CASE SaveLocal(d) \/ CheckArchive(d) \/ CarryForward(d) \/ WriteTmp(d) \/ RenameTmp(d)
    BY <2>5 DEF SaveLocal, CheckArchive, CarryForward, WriteTmp, RenameTmp, Stop, Goto, TypeOK
  <2> QED BY <1>5, <2>1, <2>2, <2>3, <2>4, <2>5 DEF Bench
<1> QED BY <1>2, <1>3, <1>4, <1>5 DEF Next

\* A command that is not quick scores with a usable cache: it has just measured it,
\* or load_baseline accepted it.
THEOREM BasesUsable == Spec => []BaseInv
<1>1. Init => BaseInv
  BY DEF Init, BaseInv
<1> QED BY <1>1, BaseStep, TypeCorrect, PTL DEF Spec

\* Only Score writes scores, and what it adds.
LEMMA ScoresGrow ==
    ASSUME TypeOK, [Next]_vars
    PROVE  \A s \in scores' \ scores : \E c \in Children :
             /\ Score(c)
             /\ pc[c] = "score" /\ ~job[c].quick /\ Readable(job[c].base)
             /\ s = [base |-> job[c].base, env |-> child[c].env, source |-> child[c].source,
                     seed |-> child[c].seed, forced |-> child[c].forced]
<1>1. CASE Master \/ UNCHANGED vars
  BY <1>1, MasterKeeps DEF vars
<1>2. ASSUME NEW c \in Children, Score(c)
      PROVE  \A s \in scores' \ scores :
               /\ pc[c] = "score" /\ ~job[c].quick /\ Readable(job[c].base)
               /\ s = [base |-> job[c].base, env |-> child[c].env, source |-> child[c].source,
                       seed |-> child[c].seed, forced |-> child[c].forced]
  BY <1>2 DEF Score
<1>3. ASSUME NEW c \in Children, Spawn(c) \/ Bench(c), ~Score(c)
      PROVE  scores' = scores
  BY <1>3 DEF Spawn, Bench, SpawnRead, SpawnByHand, SpawnCopy, EndRound, Start, Profile, NoResults,
     SaveLocal, CheckArchive, CarryForward, WriteTmp, RenameTmp, Reload, BenchCrash
<1> QED BY <1>1, <1>2, <1>3 DEF Next

\* Whatever fails, and however many children run: a full score is taken against
\* a baseline of all workloads, of the child's source and environment.
THEOREM WholeDenominators == Spec => []ScoresAreWhole
<1>1. Init => BaseInv /\ ScoresAreWhole
  BY DEF Init, BaseInv, ScoresAreWhole
<1>2. TypeOK /\ BaseInv /\ ScoresAreWhole /\ [Next]_vars => ScoresAreWhole'
  <2> SUFFICES ASSUME TypeOK, BaseInv, ScoresAreWhole, [Next]_vars, NEW s \in scores'
               PROVE  /\ s.base.works = Workloads
                      /\ s.base.source = s.source
                      /\ Comparable(s.base.env, s.env)
    BY DEF ScoresAreWhole, Comparable
  <2>1. CASE s \in scores
    BY <2>1 DEF ScoresAreWhole
  <2>2. CASE s \notin scores
    BY <2>2, ScoresGrow DEF BaseInv, Usable
  <2> QED BY <2>1, <2>2
<1> QED BY <1>1, <1>2, BaseStep, TypeCorrect, PTL DEF Spec

-----------------------------------------------------------------------------
(* A child seeded with a complete golden scores against it                 *)

SeedInvOf(c) ==
    /\ pc[c] \in {"unspawned", "copy"} => child[c].seed = 0
    /\ child[c].seed # 0 /\ ~child[c].forced =>
         /\ Usable(local[c], c)
         /\ local[c].id = child[c].seed
         /\ pc[c] \in {"idle", "over", "score"}
         /\ pc[c] = "score" => job[c].base = local[c]

LEMMA SeedStep == TypeOK /\ SeedInv /\ [Next]_vars => SeedInv'
<1> SUFFICES ASSUME TypeOK, SeedInv, [Next]_vars, NEW d \in Children
             PROVE  SeedInvOf(d)'
  BY DEF SeedInv, SeedInvOf
<1>0. SeedInvOf(d)
  BY DEF SeedInv, SeedInvOf
<1> USE DEF TypeOK
<1>1. ASSUME UNCHANGED <<local[d], child[d], pc[d], job[d]>>
      PROVE  SeedInvOf(d)'
  BY <1>0, <1>1 DEF SeedInvOf, Usable
<1>2. CASE Master \/ UNCHANGED vars
  BY <1>1, <1>2, MasterKeeps DEF vars
<1>3. ASSUME NEW c \in Children, Spawn(c) \/ Bench(c), c # d
      PROVE  SeedInvOf(d)'
  BY <1>1, <1>3, OthersKeep
<1>4. CASE SpawnRead(d) \/ SpawnByHand(d)
  <2>1. pc'[d] = "copy" /\ child'[d].seed = child[d].seed /\ pc[d] = "unspawned"
    <3>1. ASSUME NEW env, Configure(d, env)
          PROVE  child'[d].seed = child[d].seed
      BY <3>1 DEF Configure, ChildRecord
    <3>2. /\ pc'[d] = "copy" /\ pc[d] = "unspawned"
          /\ Configure(d, golden.env) \/ \E env \in Envs \cup {Unknown} : Configure(d, env)
      BY <1>4 DEF SpawnRead, SpawnByHand
    <3> QED BY <3>1, <3>2
  <2> QED BY <1>0, <2>1 DEF SeedInvOf
<1>5. CASE SpawnCopy(d)
  <2> DEFINE seed == IF Seeds(d) THEN golden.id ELSE 0
  <2>1. pc'[d] = "idle" /\ local'[d] = golden
    BY <1>5 DEF SpawnCopy
  <2>2. child'[d].env = child[d].env /\ child'[d].source = child[d].source /\ child'[d].seed = seed
    BY <1>5 DEF SpawnCopy, ChildRecord
  <2>3. ASSUME Seeds(d)
        PROVE  Usable(local[d], d)'
    <3>1. Readable(golden) /\ golden.env # None
      BY <2>3, ReadableFacts, EnvAssumption DEF Seeds, Measured
    <3> QED BY <2>1, <2>2, <2>3, <3>1 DEF Seeds, Usable, Comparable
  <2> QED BY <2>1, <2>2, <2>3 DEF SeedInvOf
<1>6. CASE EndRound(d)
  BY <1>0, <1>6 DEF EndRound, SeedInvOf, Usable
<1>7. ASSUME NEW call \in Calls, NEW sel \in SUBSET Workloads, NEW quick \in BOOLEAN,
             NEW force \in BOOLEAN, Start(d, call, sel, quick, force)
      PROVE  SeedInvOf(d)'
  <2>1. /\ child'[d].env = child[d].env /\ child'[d].source = child[d].source
        /\ child'[d].seed = child[d].seed /\ local' = local
        /\ pc[d] = "idle" /\ pc'[d] \in {"profile", "score"}
    BY <1>7 DEF Start, Goto, ChildRecord
  <2>2. child'[d].forced = (child[d].forced \/ force)
    BY <1>7 DEF Start, ChildRecord
  <2>3. ASSUME ~force, Usable(local[d], d)
        PROVE  pc'[d] = "score" /\ job'[d].base = local[d]
    BY <1>7, <2>3 DEF Start, Goto, Load, Usable, Readable, Absent, JobRecord
  <2> QED BY <1>0, <2>1, <2>2, <2>3 DEF SeedInvOf, Usable
<1>8. CASE NoResults(d) \/ Score(d) \/ BenchCrash(d)
  <2>1. UNCHANGED <<local, child>> /\ pc'[d] = "idle" /\ pc[d] \notin {"unspawned", "copy"}
    BY <1>8 DEF NoResults, Score, BenchCrash, Stop, Goto, Quiet
  <2> QED BY <1>0, <2>1 DEF SeedInvOf, Usable
<1>9. CASE \/ Profile(d) \/ SaveLocal(d) \/ CheckArchive(d) \/ CarryForward(d) \/ WriteTmp(d)
           \/ RenameTmp(d) \/ Reload(d)
  <2>1. /\ pc[d] \notin {"unspawned", "copy", "idle", "over", "score"}
        /\ pc'[d] \notin {"unspawned", "copy"}
        /\ child' = child
    BY <1>9 DEF Profile, SaveLocal, CheckArchive, CarryForward, WriteTmp, RenameTmp, Reload, Stop, Goto
  <2> QED BY <1>0, <2>1 DEF SeedInvOf
<1> HIDE DEF TypeOK
<1>10. CASE Spawn(d)
  BY <1>4, <1>5, <1>6, <1>10 DEF Spawn
<1>11. CASE Bench(d)
  BY <1>7, <1>8, <1>9, <1>11 DEF Bench
<1> QED BY <1>2, <1>3, <1>10, <1>11 DEF Next

\* A child seeded with a complete golden keeps it as its cache, and every command of it
\* that is not told to re-profile loads that.
THEOREM SeedsUsed == Spec => []SeedInv
<1>1. Init => SeedInv
  BY DEF Init, SeedInv
<1> QED BY <1>1, SeedStep, TypeCorrect, PTL DEF Spec

\* A full score of a child spawned from a complete golden has the golden's
\* latencies below the line, whatever other children and crashes do.
THEOREM SeedsKept == Spec => []SeededScores
<1>1. Init => SeedInv /\ SeededScores
  BY DEF Init, SeedInv, SeededScores
<1>2. TypeOK /\ SeedInv /\ SeededScores /\ [Next]_vars => SeededScores'
  <2> SUFFICES ASSUME TypeOK, SeedInv, SeededScores, [Next]_vars,
                      NEW s \in scores', s.seed # 0, ~s.forced
               PROVE  s.base.id = s.seed
    BY DEF SeededScores
  <2>1. CASE s \in scores
    BY <2>1 DEF SeededScores
  <2>2. CASE s \notin scores
    BY <2>2, ScoresGrow DEF SeedInv
  <2> QED BY <2>1, <2>2
<1> QED BY <1>1, <1>2, SeedStep, TypeCorrect, PTL DEF Spec

-----------------------------------------------------------------------------
(* One child at a time: the golden is promoted once and then frozen        *)

Rounds == Sequential /\ "init" \notin Faults

LEMMA InitWritesFacts ==
    ASSUME NEW f \in Files, NEW env \in Envs, NEW mode \in Modes, NEW kit \in Kits,
           InitWrites(f, env, mode, kit) # Absent, Measured(f)
    PROVE  SameLatencies(InitWrites(f, env, mode, kit), f)
<1>1. Readable(f) /\ f # Absent
  BY DEF Measured, Readable, Absent
<1>2. InitWrites(f, env, mode, kit) = [f EXCEPT !.mode = mode, !.kit = kit]
  BY <1>1 DEF InitWrites
<1> QED BY <1>1, <1>2, ReadableFacts DEF SameLatencies, Readable, Json

LEMMA OneLiveStep == Rounds /\ TypeOK /\ OneLive /\ MasterAlone /\ [Next]_vars => (OneLive /\ MasterAlone)'
<1> SUFFICES ASSUME Rounds, TypeOK, OneLive, MasterAlone, [Next]_vars
             PROVE  (OneLive /\ MasterAlone)'
  OBVIOUS
<1> USE DEF Live
<1>1. CASE UNCHANGED vars
  BY <1>1 DEF vars, OneLive, MasterAlone
<1>2. ASSUME NEW env \in Envs, NEW mode \in Modes, NEW kit \in Kits, InitRead(env, mode, kit)
      PROVE  (OneLive /\ MasterAlone)'
  BY <1>2 DEF InitRead, BetweenRounds, Rounds, OneLive, MasterAlone
<1>3. CASE InitTruncate \/ InitWrite \/ InitCrash
  BY <1>3 DEF InitTruncate, InitWrite, InitCrash, OneLive, MasterAlone
<1>4. ASSUME NEW c \in Children, SpawnRead(c) \/ SpawnByHand(c)
      PROVE  (OneLive /\ MasterAlone)'
  BY <1>4 DEF SpawnRead, SpawnByHand, BetweenRounds, Rounds, OneLive, MasterAlone, TypeOK
<1>5. ASSUME NEW c \in Children, Spawn(c) \/ Bench(c), Live(c)
      PROVE  (OneLive /\ MasterAlone)'
  <2>1. \A d \in Children : d # c => pc'[d] = pc[d]
    BY <1>5, OthersKeep
  <2>2. master.pc = "idle"
    BY <1>5 DEF MasterAlone
  <2>3. master' = master
    BY <1>5 DEF Spawn, Bench, SpawnRead, SpawnByHand, SpawnCopy, EndRound, Start, Profile, NoResults,
       SaveLocal, CheckArchive, CarryForward, WriteTmp, RenameTmp, Reload, Score, BenchCrash
  <2> QED BY <1>5, <2>1, <2>2, <2>3 DEF OneLive, MasterAlone
<1>6. ASSUME NEW c \in Children, Spawn(c) \/ Bench(c)
      PROVE  SpawnRead(c) \/ SpawnByHand(c) \/ Live(c)
  BY <1>6 DEF Spawn, Bench, SpawnCopy, EndRound, Start, Profile, NoResults,
     SaveLocal, CheckArchive, CarryForward, WriteTmp, RenameTmp, Reload, Score, BenchCrash, Quiet
<1> QED BY <1>1, <1>2, <1>3, <1>4, <1>5, <1>6 DEF Next, Master

\* Only a rename and init_campaign write the golden.
LEMMA GoldenKept ==
    ASSUME TypeOK, NEW c \in Children, Spawn(c) \/ Bench(c), ~RenameTmp(c)
    PROVE  UNCHANGED <<golden, promotions>>
BY DEF Spawn, Bench, SpawnRead, SpawnByHand, SpawnCopy, EndRound, Start, Profile, NoResults,
   SaveLocal, CheckArchive, CarryForward, WriteTmp, Reload, Score, BenchCrash

PromoteInvOf(c) ==
    /\ pc[c] \in {"save", "check", "carry", "tmp", "rename"} => Measured(job[c].data)
    /\ pc[c] \in {"carry", "tmp", "rename"} => ~Measured(golden)
    /\ pc[c] \in {"tmp", "rename"} /\ Readable(golden) =>
         job[c].data.mode = golden.mode /\ job[c].data.kit = golden.kit
    /\ pc[c] = "rename" => tmp = job[c].data

LEMMA PromoteStep == Rounds /\ TypeOK /\ FrozenInv /\ [Next]_vars => PromoteInv'
<1> SUFFICES ASSUME Rounds, TypeOK, FrozenInv, [Next]_vars, NEW d \in Children
             PROVE  PromoteInvOf(d)'
  BY DEF PromoteInv, PromoteInvOf
<1>0. PromoteInvOf(d)
  BY DEF FrozenInv, PromoteInv, PromoteInvOf
<1> USE DEF TypeOK
<1>1. CASE UNCHANGED vars
  BY <1>0, <1>1 DEF vars, PromoteInvOf, Measured, Readable
<1>2. ASSUME ~Live(d), UNCHANGED pc[d]
      PROVE  PromoteInvOf(d)'
  BY <1>2 DEF PromoteInvOf, Live
<1>3. ASSUME NEW env \in Envs, NEW mode \in Modes, NEW kit \in Kits, InitRead(env, mode, kit)
      PROVE  PromoteInvOf(d)'
  BY <1>0, <1>3 DEF InitRead, PromoteInvOf, Measured, Readable
<1>4. CASE InitTruncate \/ InitWrite \/ InitCrash
  BY <1>2, <1>4 DEF InitTruncate, InitWrite, InitCrash, FrozenInv, MasterAlone
<1>5. ASSUME NEW c \in Children, Spawn(c) \/ Bench(c), c # d
      PROVE  PromoteInvOf(d)'
  <2>1. CASE SpawnRead(c) \/ SpawnByHand(c)
    <3>1. ~Live(d)
      BY <2>1 DEF SpawnRead, SpawnByHand, BetweenRounds, Rounds, Live
    <3> QED BY <1>2, <1>5, <3>1, OthersKeep
  <2>2. CASE ~(SpawnRead(c) \/ SpawnByHand(c))
    <3>1. Live(c)
      BY <1>5, <2>2 DEF Live, Spawn, Bench, SpawnCopy, EndRound, Start, Profile, NoResults,
         SaveLocal, CheckArchive, CarryForward, WriteTmp, RenameTmp, Reload, Score, BenchCrash, Quiet
    <3>2. ~Live(d)
      BY <1>5, <3>1 DEF FrozenInv, OneLive
    <3> QED BY <1>2, <1>5, <3>2, OthersKeep
  <2> QED BY <2>1, <2>2
<1>6. ASSUME pc'[d] \notin {"save", "check", "carry", "tmp", "rename"}
      PROVE  PromoteInvOf(d)'
  BY <1>6 DEF PromoteInvOf
<1>7. CASE Spawn(d)
  BY <1>6, <1>7 DEF Spawn, SpawnRead, SpawnByHand, SpawnCopy, EndRound
<1>8. ASSUME NEW call \in Calls, NEW sel \in SUBSET Workloads, NEW quick \in BOOLEAN,
             NEW force \in BOOLEAN, Start(d, call, sel, quick, force)
      PROVE  PromoteInvOf(d)'
  BY <1>6, <1>8 DEF Start, Goto
<1>9. CASE NoResults(d) \/ Score(d) \/ BenchCrash(d) \/ RenameTmp(d) \/ Reload(d)
  BY <1>6, <1>9 DEF NoResults, Score, BenchCrash, RenameTmp, Reload, Stop, Goto
<1>10. CASE Profile(d)
  <2>1. pc'[d] \in {"score", "save", "reload"}
    BY <1>10 DEF Profile, Goto
  <2>2. pc'[d] = "save" => Measured(job'[d].data)
    BY <1>10 DEF Profile, Goto, Measurement, Json, Measured, Readable, JobRecord
  <2> QED BY <2>1, <2>2 DEF PromoteInvOf, Measured, Readable
<1>11. CASE SaveLocal(d) \/ CheckArchive(d)
  BY <1>0, <1>11 DEF SaveLocal, CheckArchive, Goto, PromoteInvOf, IsShell, Measured, Readable
<1>12. CASE CarryForward(d)
  <2> DEFINE data == IF Readable(golden)
                     THEN [job[d].data EXCEPT !.mode = golden.mode, !.kit = golden.kit]
                     ELSE job[d].data
  <2>1. job[d].data \in Files /\ Measured(job[d].data) /\ ~Measured(golden)
    BY <1>0, <1>12 DEF CarryForward, JobRecord, PromoteInvOf
  <2>2. Measured(data) /\ (Readable(golden) => data.mode = golden.mode /\ data.kit = golden.kit)
    BY <2>1, ReadableFacts DEF Measured, Readable, Json
  <2>3. job' = [job EXCEPT ![d] = [@ EXCEPT !.data = data]]
    BY <1>12 DEF CarryForward
  <2> HIDE DEF data
  <2>4. job'[d].data = data
    BY <2>3 DEF JobRecord
  <2>5. golden' = golden /\ pc'[d] = "tmp"
    BY <1>12 DEF CarryForward, Goto
  <2> QED BY <2>1, <2>2, <2>4, <2>5 DEF PromoteInvOf, Measured, Readable
<1>13. CASE WriteTmp(d)
  BY <1>0, <1>13 DEF WriteTmp, Goto, PromoteInvOf, Measured, Readable
<1> HIDE DEF TypeOK
<1>14. CASE Bench(d)
  BY <1>8, <1>9, <1>10, <1>11, <1>12, <1>13, <1>14 DEF Bench
<1> QED BY <1>1, <1>3, <1>4, <1>5, <1>7, <1>14 DEF Next, Master

\* A rename finds neither a measured golden nor the master at work.
LEMMA RenameFacts ==
    ASSUME TypeOK, FrozenInv, NEW c \in Children, RenameTmp(c)
    PROVE  /\ ~Measured(golden) /\ master.pc = "idle" /\ promotions = 0
           /\ golden' = tmp /\ Measured(tmp) /\ promotions' = 1
           /\ Readable(golden) => tmp.mode = golden.mode /\ tmp.kit = golden.kit
<1>1. /\ ~Measured(golden) /\ tmp = job[c].data /\ Measured(job[c].data)
      /\ Readable(golden) => tmp.mode = golden.mode /\ tmp.kit = golden.kit
  BY DEF FrozenInv, PromoteInv, RenameTmp
<1>2. tmp # Absent
  BY <1>1 DEF Measured, Readable, Absent
<1>3. master.pc = "idle"
  BY DEF FrozenInv, MasterAlone, Live, RenameTmp
<1>4. promotions = 0
  BY <1>1, <1>3 DEF FrozenInv, GoldenInv
<1> QED BY <1>1, <1>2, <1>3, <1>4 DEF RenameTmp

LEMMA GoldenStep == Rounds /\ TypeOK /\ FrozenInv /\ [Next]_vars => (MasterInv /\ GoldenInv)'
<1> SUFFICES ASSUME Rounds, TypeOK, FrozenInv, [Next]_vars
             PROVE  (MasterInv /\ GoldenInv)'
  OBVIOUS
<1> USE DEF FrozenInv, MasterInv, GoldenInv
<1>1. CASE UNCHANGED vars
  BY <1>1 DEF vars, Measured, Readable, SameLatencies
<1>2. ASSUME NEW env \in Envs, NEW mode \in Modes, NEW kit \in Kits, InitRead(env, mode, kit)
      PROVE  (MasterInv /\ GoldenInv)'
  BY <1>2, InitWritesFacts DEF InitRead, Measured, Readable, SameLatencies, TypeOK
<1>3. CASE InitTruncate
  <2>1. Measured(golden) => Measured(master.data)
    BY <1>3 DEF InitTruncate, SameLatencies, Measured
  <2> QED BY <1>3, <2>1 DEF InitTruncate, Measured, Readable, Torn, TypeOK
<1>4. CASE InitWrite
  BY <1>4 DEF InitWrite, Measured, Readable, Torn
<1>5. CASE InitCrash
  BY <1>5 DEF InitCrash, Rounds
<1>6. ASSUME NEW c \in Children, RenameTmp(c)
      PROVE  (MasterInv /\ GoldenInv)'
  BY <1>6, RenameFacts DEF RenameTmp, Measured, Readable
<1>7. ASSUME NEW c \in Children, Spawn(c) \/ Bench(c), ~RenameTmp(c)
      PROVE  (MasterInv /\ GoldenInv)'
  <2>1. master' = master
    BY <1>7 DEF Spawn, Bench, SpawnRead, SpawnByHand, SpawnCopy, EndRound, Start, Profile, NoResults,
       SaveLocal, CheckArchive, CarryForward, WriteTmp, Reload, Score, BenchCrash
  <2> QED BY <1>7, <2>1, GoldenKept DEF Measured, Readable, SameLatencies
<1> QED BY <1>1, <1>2, <1>3, <1>4, <1>5, <1>6, <1>7 DEF Next, Master

\* One child at a time, and init_campaign not killed halfway: what save_baseline and
\* init_campaign decided on is still so when they write.
THEOREM FrozenInvariant == Rounds /\ Spec => []FrozenInv
<1>1. Init => FrozenInv
  BY DEF Init, FrozenInv, OneLive, MasterAlone, PromoteInv, MasterInv, GoldenInv, Live
<1>2. Rounds /\ TypeOK /\ FrozenInv /\ [Next]_vars => FrozenInv'
  BY OneLiveStep, PromoteStep, GoldenStep DEF FrozenInv
<1>3. CASE Rounds
  BY <1>1, <1>2, <1>3, TypeCorrect, PTL DEF Spec
<1>4. CASE ~Rounds
  BY <1>4, PTL
<1> QED BY <1>3, <1>4

\* The golden's profile stays the golden's, in the file or, while init_campaign rewrites
\* it, in memory.
LEMMA GoldenProfileStays ==
    ASSUME Rounds, TypeOK, FrozenInv, [Next]_vars, NEW id \in Nat, IsGolden(id)
    PROVE  IsGolden(id)'
<1> USE DEF IsGolden
<1>0. master.pc = "write" => ~Measured(golden)
  BY DEF FrozenInv, MasterInv, Measured, Readable, Torn
<1>1. CASE UNCHANGED vars
  BY <1>1 DEF vars, Measured, Readable
<1>2. ASSUME NEW env \in Envs, NEW mode \in Modes, NEW kit \in Kits, InitRead(env, mode, kit)
      PROVE  IsGolden(id)'
  BY <1>2 DEF InitRead, Measured, Readable
<1>3. CASE InitTruncate
  <2>1. Measured(master.data) /\ master.data.id = id
    BY <1>3 DEF InitTruncate, FrozenInv, MasterInv, SameLatencies, Measured
  <2>2. master'.pc = "write" /\ master'.data = master.data
    BY <1>3 DEF InitTruncate, TypeOK
  <2> QED BY <2>1, <2>2 DEF Measured, Readable
<1>4. CASE InitWrite
  BY <1>0, <1>4 DEF InitWrite, Measured, Readable
<1>5. CASE InitCrash
  BY <1>5 DEF InitCrash, Rounds
<1>6. ASSUME NEW c \in Children, RenameTmp(c)
      PROVE  FALSE
  BY <1>6, RenameFacts
<1>7. ASSUME NEW c \in Children, Spawn(c) \/ Bench(c), ~RenameTmp(c)
      PROVE  IsGolden(id)'
  <2>1. master' = master
    BY <1>7 DEF Spawn, Bench, SpawnRead, SpawnByHand, SpawnCopy, EndRound, Start, Profile, NoResults,
       SaveLocal, CheckArchive, CarryForward, WriteTmp, Reload, Score, BenchCrash
  <2> QED BY <1>7, <2>1, GoldenKept DEF Measured, Readable
<1> QED BY <1>1, <1>2, <1>3, <1>4, <1>5, <1>6, <1>7 DEF Next, Master

\* A child is seeded once, with the golden there is.
LEMMA SeedsComeFromGolden ==
    ASSUME TypeOK, [Next]_vars, NEW c \in Children
    PROVE  \/ child'[c].seed \in {child[c].seed, 0}
           \/ Measured(golden) /\ child'[c].seed = golden.id
<1> USE DEF TypeOK
<1>1. CASE Master \/ UNCHANGED vars
  BY <1>1, MasterKeeps DEF vars
<1>2. ASSUME NEW d \in Children, Spawn(d) \/ Bench(d), d # c
      PROVE  child'[c] = child[c]
  BY <1>2, OthersKeep
<1>3. ASSUME NEW env, Configure(c, env)
      PROVE  child'[c].seed = child[c].seed
  BY <1>3 DEF Configure, ChildRecord
<1>4. CASE SpawnRead(c) \/ SpawnByHand(c)
  BY <1>3, <1>4 DEF SpawnRead, SpawnByHand
<1>5. CASE SpawnCopy(c)
  <2>1. child'[c].seed = IF Seeds(c) THEN golden.id ELSE 0
    BY <1>5 DEF SpawnCopy, ChildRecord
  <2> QED BY <2>1 DEF Seeds
<1>6. ASSUME NEW call \in Calls, NEW sel \in SUBSET Workloads, NEW quick \in BOOLEAN,
             NEW force \in BOOLEAN, Start(c, call, sel, quick, force)
      PROVE  child'[c].seed = child[c].seed
  BY <1>6 DEF Start, ChildRecord
<1>7. CASE \/ EndRound(c) \/ Profile(c) \/ NoResults(c) \/ SaveLocal(c) \/ CheckArchive(c)
           \/ CarryForward(c) \/ WriteTmp(c) \/ RenameTmp(c) \/ Reload(c) \/ Score(c)
           \/ BenchCrash(c)
  BY <1>7 DEF EndRound, Profile, NoResults, SaveLocal, CheckArchive, CarryForward, WriteTmp,
     RenameTmp, Reload, Score, BenchCrash
<1> HIDE DEF TypeOK
<1> QED BY <1>1, <1>2, <1>4, <1>5, <1>6, <1>7 DEF Next, Spawn, Bench

\* In the rounds of a campaign every seed is the golden's profile, which is why two seeds
\* cannot differ.
THEOREM SeedsAreGolden == Rounds /\ Spec => []GoldenSeeds
<1>1. Init => GoldenSeeds
  BY DEF Init, GoldenSeeds
<1>2. Rounds /\ TypeOK /\ FrozenInv /\ GoldenSeeds /\ [Next]_vars => GoldenSeeds'
  <2> SUFFICES ASSUME Rounds, TypeOK, FrozenInv, GoldenSeeds, [Next]_vars
               PROVE  GoldenSeeds'
    OBVIOUS
  <2>1. ASSUME NEW c \in Children, child'[c].seed # 0
        PROVE  IsGolden(child[c].seed)'
    <3>1. PICK id \in Nat : id = child'[c].seed
      BY TypeStep DEF TypeOK, ChildRecord
    <3>2. IsGolden(id)
      BY <2>1, <3>1, SeedsComeFromGolden DEF GoldenSeeds, IsGolden
    <3>3. IsGolden(id)'
      BY <3>2, GoldenProfileStays
    <3> QED BY <3>1, <3>3 DEF IsGolden
  <2>2. ASSUME NEW s \in scores', s.seed # 0
        PROVE  IsGolden(s.seed)'
    <3>1. s.seed \in Nat
      BY TypeStep DEF TypeOK, ScoreRecord
    <3>2. IsGolden(s.seed)
      <4>1. CASE s \in scores
        BY <2>2, <4>1 DEF GoldenSeeds
      <4>2. CASE s \notin scores
        BY <2>2, <4>2, ScoresGrow DEF GoldenSeeds
      <4> QED BY <4>1, <4>2
    <3> QED BY <3>1, <3>2, GoldenProfileStays
  <2> QED BY <2>1, <2>2 DEF GoldenSeeds
<1>3. CASE Rounds
  BY <1>1, <1>2, <1>3, FrozenInvariant, TypeCorrect, PTL DEF Spec
<1>4. CASE ~Rounds
  BY <1>4, PTL
<1> QED BY <1>3, <1>4

\* In such a campaign all children seeded with a complete golden are compared with one
\* profile (SeededScores for each, and no two seeds differ).
THEOREM DenominatorShared == Rounds /\ Spec => []OneDenominator
<1>1. FrozenInv /\ GoldenSeeds /\ SeededScores => OneDenominator
  <2> SUFFICES ASSUME FrozenInv, GoldenSeeds, SeededScores, NEW s \in scores, NEW t \in scores,
                      s.seed # 0, t.seed # 0, ~s.forced, ~t.forced
               PROVE  s.base.id = t.base.id
    BY DEF OneDenominator
  <2>1. IsGolden(s.seed) /\ IsGolden(t.seed)
    BY DEF GoldenSeeds
  <2>2. master.pc = "write" => ~Measured(golden)
    BY DEF FrozenInv, MasterInv, Measured, Readable, Torn
  <2>3. s.seed = t.seed
    BY <2>1, <2>2 DEF IsGolden
  <2> QED BY <2>3 DEF SeededScores
<1> QED BY <1>1, FrozenInvariant, SeedsAreGolden, SeedsKept, PTL

\* In a campaign of rounds the five invariants hold together; the first three hold of
\* overlapping children as well.
THEOREM Inductive == Rounds /\ Spec => []RoundsInv
<1>1. TypeOK /\ BaseInv /\ SeedInv /\ FrozenInv /\ GoldenSeeds => RoundsInv
  BY DEF RoundsInv
<1> QED BY <1>1, TypeCorrect, BasesUsable, SeedsUsed, FrozenInvariant, SeedsAreGolden, PTL

\* In a campaign of rounds, where init_campaign is not killed halfway, a family's
\* golden is promoted at most once.
THEOREM GoldenPromotedOnce == Rounds /\ Spec => []PromotedOnce
<1>1. FrozenInv => PromotedOnce
  BY DEF FrozenInv, GoldenInv, PromotedOnce
<1> QED BY <1>1, FrozenInvariant, PTL

\* In such a campaign nothing but a backfill of init_campaign, which keeps the
\* latencies, ever writes over a measured golden.
THEOREM GoldenFrozen == Rounds /\ Spec => GoldenIsFrozen
<1>1. ASSUME TypeOK, FrozenInv, [Next]_vars, Measured(golden), golden' # golden
      PROVE  master.pc = "truncate" /\ SameLatencies(master.data, golden)
  <2>1. ASSUME NEW c \in Children, Spawn(c) \/ Bench(c)
        PROVE  FALSE
    BY <1>1, <2>1, RenameFacts, GoldenKept
  <2>2. CASE InitTruncate
    BY <1>1, <2>2 DEF InitTruncate, FrozenInv, MasterInv
  <2>3. CASE InitWrite
    BY <1>1, <2>3 DEF InitWrite, FrozenInv, MasterInv, Measured, Readable, Torn
  <2> QED BY <1>1, <2>1, <2>2, <2>3 DEF Next, Master, InitRead, InitCrash, vars
<1>2. TypeOK /\ FrozenInv /\ [Next]_vars =>
        [Measured(golden) /\ golden' # golden =>
           master.pc = "truncate" /\ SameLatencies(master.data, golden)]_vars
  BY <1>1
<1>3. CASE Rounds
  BY <1>2, <1>3, FrozenInvariant, TypeCorrect, PTL DEF Spec, GoldenIsFrozen
<1>4. CASE ~Rounds
  BY <1>4
<1> QED BY <1>3, <1>4

\* In such a campaign a run that replaces the shell keeps its mode, agent and
\* profile.
THEOREM TermsKept == Rounds /\ Spec => TermsStay
<1>1. ASSUME TypeOK, FrozenInv, [Next]_vars, Readable(golden), Readable(golden'), golden' # golden
      PROVE  golden'.mode = golden.mode /\ golden'.kit = golden.kit
  <2>1. ASSUME NEW c \in Children, Spawn(c) \/ Bench(c)
        PROVE  golden'.mode = golden.mode /\ golden'.kit = golden.kit
    BY <1>1, <2>1, RenameFacts, GoldenKept
  <2>2. CASE InitTruncate
    BY <1>1, <2>2 DEF InitTruncate, Readable, Torn
  <2>3. CASE InitWrite
    BY <1>1, <2>3 DEF InitWrite, FrozenInv, MasterInv, Readable, Torn
  <2> QED BY <1>1, <2>1, <2>2, <2>3 DEF Next, Master, InitRead, InitCrash, vars
<1>2. TypeOK /\ FrozenInv /\ [Next]_vars =>
        [Readable(golden) /\ Readable(golden') /\ golden' # golden =>
           golden'.mode = golden.mode /\ golden'.kit = golden.kit]_vars
  BY <1>1
<1>3. CASE Rounds
  BY <1>2, <1>3, FrozenInvariant, TypeCorrect, PTL DEF Spec, TermsStay
<1>4. CASE ~Rounds
  BY <1>4
<1> QED BY <1>3, <1>4
=============================================================================
