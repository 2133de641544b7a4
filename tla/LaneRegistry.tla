---------------------------- MODULE LaneRegistry ----------------------------
(***************************************************************************)
(* What the registry of lanes promises to the runners that read it: a lane *)
(* appears once, whole, in a worktree of its own that holds each required  *)
(* skill at one version, and from then on neither its worktree nor its     *)
(* skills change, whatever other commands do (ako4x/lanes.py).             *)
(***************************************************************************)
CONSTANTS Names, Paths, Skills, Versions, None

VARIABLE lanes   \* the worktree and the skills of each lane, or None

Init == lanes = [n \in Names |-> None]

Open(n, d) ==
    /\ lanes[n] = None
    /\ \A m \in Names : lanes[m] # None => lanes[m].path # d
    /\ \E skills \in [Skills -> Versions] :
          lanes' = [lanes EXCEPT ![n] = [path |-> d, skills |-> skills]]

Next == \E n \in Names, d \in Paths : Open(n, d)

Spec == Init /\ [][Next]_lanes
=============================================================================
