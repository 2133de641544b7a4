-------------------------- MODULE BaselineInvariant --------------------------
(* Inductive invariants of BaselineCache: what the proofs carry from step  *)
(* to step, and TLC checks first.                                          *)
EXTENDS BaselineCache

\* What a command will score with is a usable cache, unless it is a quick report.
BaseInv ==
    \A c \in Children :
        pc[c] = "score" /\ Readable(job[c].base) /\ ~job[c].quick => Usable(job[c].base, c)

\* A child seeded with a complete golden keeps it as its cache and never
\* profiles, because load_baseline accepts it every time.
SeedInv ==
    \A c \in Children :
        /\ pc[c] \in {"unspawned", "copy"} => child[c].seed = 0
        /\ child[c].seed # 0 /\ ~child[c].forced =>
             /\ Usable(local[c], c)
             /\ local[c].id = child[c].seed
             /\ pc[c] \in {"idle", "over", "score"}
             /\ pc[c] = "score" => job[c].base = local[c]

Live(c) == pc[c] \notin {"unspawned", "over"}

OneLive == \A c, d \in Children : Live(c) /\ Live(d) => c = d

MasterAlone == master.pc # "idle" => \A c \in Children : ~Live(c)

\* What save_baseline found when it decided to promote is still so when it
\* renames, and what it renames is what it measured and carried.
PromoteInv ==
    \A c \in Children :
        /\ pc[c] \in {"save", "check", "carry", "tmp", "rename"} => Measured(job[c].data)
        /\ pc[c] \in {"carry", "tmp", "rename"} => ~Measured(golden)
        /\ pc[c] \in {"tmp", "rename"} /\ Readable(golden) =>
             job[c].data.mode = golden.mode /\ job[c].data.kit = golden.kit
        /\ pc[c] = "rename" => tmp = job[c].data

\* init_campaign puts back the latencies it read.
MasterInv ==
    /\ master.pc = "truncate" /\ Measured(golden) => SameLatencies(master.data, golden)
    /\ master.pc = "write" => golden = Torn

GoldenInv ==
    /\ promotions \in {0, 1}
    /\ promotions = 1 => Measured(golden) \/ (master.pc = "write" /\ Measured(master.data))

\* One child at a time, and init_campaign is not killed halfway.
FrozenInv == OneLive /\ MasterAlone /\ PromoteInv /\ MasterInv /\ GoldenInv

\* The profile the golden was made of; while init_campaign rewrites the file, the one
\* it holds in memory.
IsGolden(id) ==
    \/ Measured(golden) /\ golden.id = id
    \/ master.pc = "write" /\ Measured(master.data) /\ master.data.id = id

\* Whoever was seeded with a complete golden was seeded with the one there is.
GoldenSeeds ==
    /\ \A c \in Children : child[c].seed # 0 => IsGolden(child[c].seed)
    /\ \A s \in scores : s.seed # 0 => IsGolden(s.seed)

\* One child at a time: all children spawned from a complete golden are compared with
\* one and the same profile, in whichever round and through whatever backfill, unless
\* told to re-profile (docs/closed-loop.md, "First-time auto-promote").
OneDenominator ==
    \A s, t \in scores :
        s.seed # 0 /\ t.seed # 0 /\ ~s.forced /\ ~t.forced => s.base.id = t.base.id

\* All that holds in the rounds of a campaign.
RoundsInv == TypeOK /\ BaseInv /\ SeedInv /\ FrozenInv /\ GoldenSeeds
=============================================================================
