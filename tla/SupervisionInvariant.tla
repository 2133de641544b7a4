------------------------ MODULE SupervisionInvariant ------------------------
(* The inductive invariant of Supervision. *)
EXTENDS Supervision

Pending(s) == IF tail[s] = "none" THEN 0 ELSE 1

NobodyInGroup == \A p \in Processes : ~InGroup(p)

\* Each supervisor has program points of its own, and its result is its end.
PlaceInv ==
    /\ kind = "bounded" => pc \in {"communicate", "poll", "kill", "drain", "over"}
    /\ kind = "lane" => pc \in {"loop", "read", "wait", "expired", "over"}
    /\ result.how # "none" <=> pc = "over"
    /\ kind = "bounded" => result.how # "store"
    /\ pc \in {"poll", "kill", "drain", "expired"} => late

\* Who has a status, who was killed, and who has been waited for.
LeaderInv ==
    /\ agent = "running" <=> status = None
    /\ inTime => agent # "running" /\ status # Killed
    /\ status = Killed => polled = None /\ pc \in {"drain", "expired", "over"}
    /\ polled # None => polled = status /\ agent = "reaped" /\ pc \in {"kill", "drain", "over"}
    /\ agent = "reaped" => pc = "over" \/ polled # None
    /\ pc = "over" /\ result.how # "store" => agent = "reaped"
    /\ pc \in {"kill", "drain"} /\ polled = None => ~inTime
    /\ CleanExitCounts

\* A leader nobody has waited for is killed with its group, and nobody is left
\* to start another process in it.
GroupInv ==
    /\ pc \in {"drain", "expired"} /\ polled = None => NobodyInGroup
    /\ result.how = "timeout" => NobodyInGroup

\* Every line is somewhere between its writer and the transcript, and a stream
\* leaves the selector empty.
LinesInv ==
    /\ \A s \in Streams : wrote[s] = read[s] + buffer[s] + pipe[s] + Pending(s)
    /\ \A s \in Streams \ open : Closed(s) /\ buffer[s] = 0 /\ pipe[s] = 0 /\ tail[s] = "none"
    /\ pc = "wait" => open = {}
    /\ kind = "lane" /\ result.how = "exit" => open = {}

\* All of it: what the proofs carry from step to step.
SInv == TypeOK /\ PlaceInv /\ LeaderInv /\ GroupInv /\ LinesInv
=============================================================================
