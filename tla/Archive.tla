------------------------------- MODULE Archive -------------------------------
(***************************************************************************)
(* What the archive of a family promises to the rounds that read it: an    *)
(* entry appears whole, by one call, under a free name, with a parent that *)
(* is in the archive, and then never changes ("Refuses to overwrite an     *)
(* existing variant directory", master/master.py:868).                     *)
(***************************************************************************)
CONSTANTS Slots, Calls, None

VARIABLE archived   \* the call that filled each slot, or None

Init == archived = [s \in Slots |-> None]

Publish(s) ==
    LET call == archived'[s] IN
    /\ archived[s] = None
    /\ call \in Calls
    /\ call.parent = None \/ archived[call.parent] # None
    /\ archived' = [archived EXCEPT ![s] = call]

Next == \E s \in Slots : Publish(s)

Spec == Init /\ [][Next]_archived
=============================================================================
