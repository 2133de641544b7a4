--------------------------- MODULE LanesInvariant ---------------------------
(* The inductive invariant of Lanes. *)
EXTENDS Lanes

\* A command between the worktree and the end of create_lane owns its name, its
\* branch and, until it removes it, the worktree.
OwnerInv ==
    \A p \in Procs :
        /\ pc[p] # "idle" => Name(p) \in Names /\ Path(p) \in Paths
        /\ pc[p] \in Making \cup {"delete"} =>
             /\ Name(p) \in branch /\ ~Registered(Name(p))
             /\ \A q \in Procs \ {p} : pc[q] \in Making \cup {"delete"} => Name(q) # Name(p)
        /\ pc[p] \in Making =>
             /\ maker[Path(p)] = p
             /\ tree[Path(p)] # Absent /\ tree[Path(p)].lane = Name(p)

\* What is in its worktree so far.
BuiltInv ==
    \A p \in Procs :
        /\ pc[p] = "copy" =>
             \A s \in Skills \ job[p].left : tree[Path(p)].skills[s] = job[p].hash[s]
        /\ pc[p] \in {"local", "register"} => tree[Path(p)].lock = tree[Path(p)].skills
        /\ pc[p] = "register" => tree[Path(p)].record = FirstRecord(p)

\* A lane in the registry is complete even while its record is torn, and a runner
\* works on one.
CompleteInv ==
    /\ \A n \in Names : registry[n].state = "whole" => Registered(n)
    /\ \A n \in Names : Registered(n) =>
         /\ n \in branch
         /\ tree[registry[n].path] # Absent
         /\ tree[registry[n].path].lane = n
         /\ tree[registry[n].path].lock = tree[registry[n].path].skills
    /\ \A p \in Procs : pc[p] \in {"record", "publish", "work"} =>
         Registered(Name(p)) /\ registry[Name(p)].path = Path(p)

\* How far a runner has come with the two records.
RecordInv ==
    \A n \in Names \ split : Registered(n) =>
        /\ registry[n].state = "whole"
        /\ \A p, q \in Recording(n) : p = q
        /\ (\A p \in Recording(n) : pc[p] = "record") => tree[registry[n].path].record = registry[n]
        /\ \A p \in Recording(n) : pc[p] = "publish" =>
             tree[registry[n].path].record = [registry[n] EXCEPT !.run = job[p].run]

LInv == TypeOK /\ OwnerInv /\ BuiltInv /\ CompleteInv /\ RecordInv /\ NothingLeft
=============================================================================
