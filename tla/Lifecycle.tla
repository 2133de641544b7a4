----------------------------- MODULE Lifecycle -----------------------------
(***************************************************************************)
(* What the run store promises of every run, whoever writes it: a row is   *)
(* created once, then moves one state at a time along STATES or to FAILED, *)
(* and FAILED and PROMOTED are never left ("strict lifecycle transitions", *)
(* ako4x/events.py:1).                                                     *)
(***************************************************************************)
EXTENDS RunStates

CONSTANT Runs
VARIABLE state

Init == state = [r \in Runs |-> Absent]

Create(r) ==
    /\ state[r] = Absent
    /\ state' = [state EXCEPT ![r] = "CREATED"]

Move(r, target) ==
    /\ state[r] # Absent
    /\ Allowed(state[r], target)
    /\ state' = [state EXCEPT ![r] = target]

Next == \E r \in Runs : Create(r) \/ \E target \in RunState : Move(r, target)

Spec == Init /\ [][Next]_state
=============================================================================
