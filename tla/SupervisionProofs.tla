-------------------------- MODULE SupervisionProofs --------------------------
(* Theorems about Supervision, for any helpers, streams and number of lines. *)
EXTENDS SupervisionInvariant, TLAPS

USE BoundAssumption, AgentAssumption, StatusAssumption

-----------------------------------------------------------------------------
(* What a step need not touch, it keeps.                                   *)

LEMMA PlaceKept ==
    ASSUME PlaceInv, UNCHANGED <<kind, pc, result>>, late => late'
    PROVE  PlaceInv'
BY DEF PlaceInv

LEMMA LeaderKept ==
    ASSUME LeaderInv, UNCHANGED <<kind, agent, status, inTime, pc, polled, result>>
    PROVE  LeaderInv'
BY DEF LeaderInv, CleanExitCounts

\* A group without a leader does not grow.
LEMMA GroupKept ==
    ASSUME GroupInv, UNCHANGED <<pc, polled, result>>, NobodyInGroup => NobodyInGroup'
    PROVE  GroupInv'
BY DEF GroupInv

LEMMA LinesKept ==
    ASSUME LinesInv,
           UNCHANGED <<kind, streams, reader, pc, result>>,
           \A s \in Streams : Closed(s) => Closed(s)'
    PROVE  LinesInv'
BY DEF LinesInv, streams, reader, Pending

\* The supervisor goes on without looking at the lines.
LEMMA LinesKeptElsewhere ==
    ASSUME LinesInv,
           UNCHANGED <<kind, streams, open, buffer, read>>,
           \A s \in Streams : Closed(s) => Closed(s)',
           pc' = "wait" => open = {},
           kind = "lane" /\ result'.how = "exit" => open = {}
    PROVE  LinesInv'
BY DEF LinesInv, streams, Pending

LEMMA SameProcesses ==
    ASSUME UNCHANGED <<agent, helper>>
    PROVE  NobodyInGroup => NobodyInGroup'
BY DEF NobodyInGroup, InGroup, Alive

-----------------------------------------------------------------------------
(* Steps of the agent, of what it starts, and of time.                     *)

LEMMA InitKeeps == Init => SInv
<1> SUFFICES ASSUME Init PROVE SInv
    OBVIOUS
<1>1. TypeOK
  <2>1. 0 \in 0 .. MaxLines
    OBVIOUS
  <2>2. holds \in [Streams -> SUBSET Processes]
    BY DEF Init, Processes
  <2>3. result \in [how : {"none", "exit", "timeout", "store"}, status : {None, 0, 1, Killed}]
    BY DEF Init, NoResult
  <2>4. pc \in {"communicate", "poll", "kill", "drain", "loop", "read", "wait", "expired", "over"}
    BY DEF Init
  <2> QED
    BY <2>1, <2>2, <2>3, <2>4 DEF Init, TypeOK
<1>2. PlaceInv
  BY DEF Init, PlaceInv, NoResult
<1>3. LeaderInv
  BY DEF Init, LeaderInv, NoResult, CleanExitCounts
<1>4. GroupInv
  BY DEF Init, GroupInv, NoResult
<1>5. LinesInv
  BY DEF Init, LinesInv, NoResult, Pending
<1> QED
  BY <1>1, <1>2, <1>3, <1>4, <1>5 DEF SInv

LEMMA ForkKeeps ==
    ASSUME SInv, NEW h \in Helpers, Fork(h)
    PROVE  SInv'
<1>1. TypeOK'
  BY DEF SInv, Fork, TypeOK, streams, reader, Processes
<1>2. PlaceInv'
  BY PlaceKept DEF SInv, Fork, streams, reader
<1>3. LeaderInv'
  BY LeaderKept DEF SInv, Fork, streams, reader
<1>4. GroupInv'
  <2>1. ~NobodyInGroup
    BY DEF Fork, NobodyInGroup, InGroup, Alive, Processes
  <2> QED
    BY <2>1, GroupKept DEF SInv, Fork, reader
<1>5. LinesInv'
  <2>1. ASSUME NEW s \in Streams, Closed(s)
        PROVE  Closed(s)'
    BY <2>1 DEF SInv, Fork, Closed, TypeOK
  <2> QED
    BY <2>1, LinesKept DEF SInv, Fork, reader, streams
<1> QED
  BY <1>1, <1>2, <1>3, <1>4, <1>5 DEF SInv

LEMMA EscapeKeeps ==
    ASSUME SInv, NEW h \in Helpers, Escape(h)
    PROVE  SInv'
<1>1. TypeOK'
  BY DEF SInv, Escape, TypeOK, streams, reader
<1>2. PlaceInv'
  BY PlaceKept DEF SInv, Escape, streams, reader
<1>3. LeaderInv'
  BY LeaderKept DEF SInv, Escape, streams, reader
<1>4. GroupInv'
  <2>1. ~NobodyInGroup
    BY DEF Escape, NobodyInGroup, InGroup, Alive, Processes
  <2> QED
    BY <2>1, GroupKept DEF SInv, Escape, reader
<1>5. LinesInv'
  BY LinesKept DEF SInv, Escape, reader, streams, Closed
<1> QED
  BY <1>1, <1>2, <1>3, <1>4, <1>5 DEF SInv

LEMMA WriteKeeps ==
    ASSUME SInv, NEW p \in Processes, NEW s \in Streams, NEW whole \in BOOLEAN, Write(p, s, whole)
    PROVE  SInv'
<1>0. /\ wrote[s] = read[s] + buffer[s] + pipe[s] + Pending(s)
      /\ wrote[s] \in Nat /\ read[s] \in Nat /\ buffer[s] \in Nat /\ pipe[s] \in Nat
      /\ Pending(s) = IF tail[s] = "none" THEN 0 ELSE 1
  BY DEF SInv, LinesInv, TypeOK, Pending
<1>1. TypeOK'
  <2>1. wrote' \in [Streams -> 0 .. MaxLines]
    BY DEF SInv, Write, TypeOK
  <2>2. pipe' \in [Streams -> 0 .. MaxLines]
    <3>1. whole => pipe[s] + 1 \in 0 .. MaxLines
      BY <1>0 DEF SInv, Write, TypeOK
    <3> QED
      BY <3>1 DEF SInv, Write, TypeOK
  <2>3. tail' \in [Streams -> {"none", "pipe", "buffer"}]
    BY DEF SInv, Write, TypeOK
  <2> QED
    BY <2>1, <2>2, <2>3 DEF SInv, Write, TypeOK, processes, reader
<1>2. PlaceInv'
  BY PlaceKept DEF SInv, Write, processes, reader
<1>3. LeaderInv'
  BY LeaderKept DEF SInv, Write, processes, reader
<1>4. GroupInv'
  BY GroupKept, SameProcesses DEF SInv, Write, processes, reader
<1>5. LinesInv'
  <2>1. s \in open
    BY DEF SInv, LinesInv, Write, Closed
  <2>2. ASSUME NEW t \in Streams
        PROVE  wrote'[t] = read'[t] + buffer'[t] + pipe'[t] + Pending(t)'
    <3>1. CASE t = s
      BY <3>1, <1>0 DEF SInv, Write, TypeOK, reader, Pending
    <3>2. CASE t # s
      BY <3>2 DEF SInv, LinesInv, Write, TypeOK, reader, Pending
    <3> QED
      BY <3>1, <3>2
  <2>3. \A t \in Streams \ open' :
            Closed(t)' /\ buffer'[t] = 0 /\ pipe'[t] = 0 /\ tail'[t] = "none"
    BY <2>1 DEF SInv, LinesInv, Write, TypeOK, reader, processes, Closed
  <2>4. pc' = "wait" => open' = {}
    BY DEF SInv, LinesInv, Write, reader
  <2>5. kind' = "lane" /\ result'.how = "exit" => open' = {}
    BY DEF SInv, LinesInv, Write, reader
  <2> QED
    BY <2>2, <2>3, <2>4, <2>5 DEF LinesInv
<1> QED
  BY <1>1, <1>2, <1>3, <1>4, <1>5 DEF SInv

LEMMA CloseStreamKeeps ==
    ASSUME SInv, NEW p \in Processes, NEW s \in Streams, CloseStream(p, s)
    PROVE  SInv'
<1>1. TypeOK'
  BY DEF SInv, CloseStream, TypeOK, streams, reader
<1>2. PlaceInv'
  BY PlaceKept DEF SInv, CloseStream, streams, reader
<1>3. LeaderInv'
  BY LeaderKept DEF SInv, CloseStream, streams, reader
<1>4. GroupInv'
  BY GroupKept, SameProcesses DEF SInv, CloseStream, reader
<1>5. LinesInv'
  <2>1. ASSUME NEW t \in Streams, Closed(t)
        PROVE  Closed(t)'
    BY <2>1 DEF SInv, CloseStream, Closed, TypeOK
  <2> QED
    BY <2>1, LinesKept DEF SInv, CloseStream, reader, streams
<1> QED
  BY <1>1, <1>2, <1>3, <1>4, <1>5 DEF SInv

LEMMA AgentExitKeeps ==
    ASSUME SInv, NEW code \in {0, 1}, AgentExit(code)
    PROVE  SInv'
<1>1. TypeOK'
  BY DEF SInv, AgentExit, TypeOK, streams, reader, Released, Processes
<1>2. PlaceInv'
  BY PlaceKept DEF SInv, AgentExit, streams, reader
<1>3. LeaderInv'
  <2>1. polled = None /\ (pc # "over" \/ result.how = "store")
    BY DEF SInv, LeaderInv, AgentExit
  <2>2. pc \in {"kill", "drain"} => late
    BY DEF SInv, PlaceInv
  <2>3. result.how \notin {"exit", "timeout"}
    BY <2>1 DEF SInv, PlaceInv, TypeOK
  <2> QED
    BY <2>1, <2>2, <2>3 DEF SInv, LeaderInv, AgentExit, CleanExitCounts, streams, reader
<1>4. GroupInv'
  <2>1. ~NobodyInGroup
    BY DEF AgentExit, NobodyInGroup, InGroup, Alive, Processes
  <2> QED
    BY <2>1, GroupKept DEF SInv, AgentExit, reader
<1>5. LinesInv'
  <2>1. ASSUME NEW t \in Streams, Closed(t)
        PROVE  Closed(t)'
    BY <2>1 DEF SInv, AgentExit, Closed, TypeOK, Released
  <2> QED
    BY <2>1, LinesKept DEF SInv, AgentExit, reader, streams
<1> QED
  BY <1>1, <1>2, <1>3, <1>4, <1>5 DEF SInv

LEMMA HelperExitKeeps ==
    ASSUME SInv, NEW h \in Helpers, HelperExit(h)
    PROVE  SInv'
<1>1. TypeOK'
  BY DEF SInv, HelperExit, TypeOK, streams, reader, Released
<1>2. PlaceInv'
  BY PlaceKept DEF SInv, HelperExit, streams, reader
<1>3. LeaderInv'
  BY LeaderKept DEF SInv, HelperExit, streams, reader
<1>4. GroupInv'
  <2>1. NobodyInGroup => NobodyInGroup'
    BY DEF SInv, HelperExit, NobodyInGroup, InGroup, Alive, Processes, TypeOK
  <2> QED
    BY <2>1, GroupKept DEF SInv, HelperExit, reader
<1>5. LinesInv'
  <2>1. ASSUME NEW t \in Streams, Closed(t)
        PROVE  Closed(t)'
    BY <2>1 DEF SInv, HelperExit, Closed, TypeOK, Released
  <2> QED
    BY <2>1, LinesKept DEF SInv, HelperExit, reader, streams
<1> QED
  BY <1>1, <1>2, <1>3, <1>4, <1>5 DEF SInv

LEMMA DeadlineKeeps ==
    ASSUME SInv, Deadline
    PROVE  SInv'
<1>1. TypeOK'
  BY DEF SInv, Deadline, TypeOK, streams, reader, processes
<1>2. PlaceInv'
  BY PlaceKept DEF SInv, Deadline, streams, reader, processes
<1>3. LeaderInv'
  BY LeaderKept DEF SInv, Deadline, streams, reader, processes
<1>4. GroupInv'
  BY GroupKept, SameProcesses DEF SInv, Deadline, reader, processes
<1>5. LinesInv'
  BY LinesKept DEF SInv, Deadline, reader, streams, processes, Closed
<1> QED
  BY <1>1, <1>2, <1>3, <1>4, <1>5 DEF SInv

-----------------------------------------------------------------------------
(* The kill of the group, and waiting for the leader.                      *)

ProcessTypes ==
    /\ agent \in {"running", "zombie", "reaped"} /\ status \in {None, 0, 1, Killed}
    /\ helper \in [Helpers -> {"absent", "running", "escaped", "gone"}]
    /\ holds \in [Streams -> SUBSET Processes] /\ inTime \in BOOLEAN

LEMMA KillGroupEffect ==
    ASSUME TypeOK, KillGroup
    PROVE  /\ ProcessTypes' /\ inTime' = inTime
           /\ IF agent = "running" THEN agent' = "zombie" /\ status' = Killed
                                   ELSE UNCHANGED <<agent, status>>
           /\ agent # "reaped" => NobodyInGroup'
           /\ NobodyInGroup => NobodyInGroup'
           /\ \A s \in Streams : Closed(s) => Closed(s)'
<1>1. CASE agent = "reaped"
  BY <1>1 DEF KillGroup, processes, TypeOK, ProcessTypes, Closed, NobodyInGroup, InGroup, Alive
<1>2. CASE agent # "reaped"
  <2> DEFINE group == {p \in Processes : InGroup(p)}
  <2>1. KillAll(group)
    BY <1>2 DEF KillGroup
  <2>2. Agent \in group <=> agent = "running"
    BY DEF Processes, InGroup, Alive
  <2>3. \A h \in Helpers : h \in group <=> helper[h] = "running"
    BY DEF Processes, InGroup, Alive
  <2> HIDE DEF group
  <2>4. \A h \in Helpers : helper'[h] = IF helper[h] = "running" THEN "gone" ELSE helper[h]
    BY <2>1, <2>3 DEF KillAll
  <2>5. helper' \in [Helpers -> {"absent", "running", "escaped", "gone"}]
    BY <2>1 DEF KillAll, TypeOK
  <2>6. IF agent = "running" THEN agent' = "zombie" /\ status' = Killed
                             ELSE UNCHANGED <<agent, status>>
    BY <2>1, <2>2 DEF KillAll
  <2>7. NobodyInGroup'
    BY <2>4, <2>6 DEF NobodyInGroup, Processes, InGroup, Alive
  <2>8. holds' \in [Streams -> SUBSET Processes] /\ \A s \in Streams : Closed(s) => Closed(s)'
    BY <2>1 DEF KillAll, TypeOK, Closed
  <2>9. inTime' = inTime
    BY <2>1 DEF KillAll
  <2> QED
    BY <2>5, <2>6, <2>7, <2>8, <2>9 DEF ProcessTypes, TypeOK
<1> QED
  BY <1>1, <1>2

LEMMA ReapEffect ==
    ASSUME TypeOK, Reap
    PROVE  /\ ProcessTypes' /\ UNCHANGED <<status, inTime>>
           /\ agent # "running" /\ agent' = "reaped"
           /\ NobodyInGroup => NobodyInGroup'
           /\ \A s \in Streams : Closed(s) => Closed(s)'
BY DEF Reap, TypeOK, ProcessTypes, NobodyInGroup, InGroup, Alive, Closed

LEMMA CommunicatedKeeps ==
    ASSUME SInv, Communicated
    PROVE  SInv'
<1>0. /\ ProcessTypes' /\ UNCHANGED <<status, inTime>>
      /\ agent # "running" /\ agent' = "reaped"
      /\ \A s \in Streams : Closed(s) => Closed(s)'
  BY ReapEffect DEF SInv, Communicated
<1>k. kind = "bounded" /\ polled = None /\ status # Killed /\ status # None
  BY <1>0 DEF SInv, PlaceInv, LeaderInv, Communicated, TypeOK
<1>1. TypeOK'
  BY <1>0 DEF SInv, Communicated, TypeOK, ProcessTypes, streams, reader, Goto, Report
<1>2. PlaceInv'
  BY <1>k DEF SInv, PlaceInv, Communicated, Goto, Report
<1>3. LeaderInv'
  BY <1>0, <1>k DEF SInv, LeaderInv, CleanExitCounts, Communicated, Goto, Report
<1>4. GroupInv'
  BY DEF GroupInv, Communicated, Goto, Report
<1>5. LinesInv'
  BY <1>0, <1>k, LinesKeptElsewhere DEF SInv, Communicated, Goto, Report, reader
<1> QED
  BY <1>1, <1>2, <1>3, <1>4, <1>5 DEF SInv

LEMMA TimeoutExpiredKeeps ==
    ASSUME SInv, TimeoutExpired
    PROVE  SInv'
<1>k. kind = "bounded" /\ result.how = "none"
  BY DEF TypeOK, SInv, PlaceInv, TimeoutExpired
<1>1. TypeOK'
  BY DEF SInv, TimeoutExpired, TypeOK, processes, streams, reader, Goto
<1>2. PlaceInv'
  BY <1>k DEF SInv, PlaceInv, TimeoutExpired, Goto
<1>3. LeaderInv'
  BY <1>k DEF SInv, LeaderInv, CleanExitCounts, TimeoutExpired, Goto, processes
<1>4. GroupInv'
  BY <1>k DEF GroupInv, TimeoutExpired, Goto
<1>5. LinesInv'
  BY <1>k, LinesKeptElsewhere DEF SInv, TimeoutExpired, Goto, reader, processes, Closed
<1> QED
  BY <1>1, <1>2, <1>3, <1>4, <1>5 DEF SInv

LEMMA PollKeeps ==
    ASSUME SInv, Poll
    PROVE  SInv'
<1>k. kind = "bounded" /\ result.how = "none" /\ polled = None /\ status # Killed /\ late
  BY DEF TypeOK, SInv, PlaceInv, LeaderInv, Poll
<1>0. /\ ProcessTypes' /\ UNCHANGED <<status, inTime>>
      /\ IF agent = "running" THEN polled' = polled /\ agent' = agent
                              ELSE polled' = status /\ agent' = "reaped"
      /\ \A s \in Streams : Closed(s) => Closed(s)'
  BY ReapEffect DEF SInv, Poll, TypeOK, ProcessTypes, processes, Closed
<1>1. TypeOK'
  <2>1. polled' \in {None, 0, 1}
    BY <1>0, <1>k DEF SInv, TypeOK
  <2> QED
    BY <1>0, <2>1 DEF SInv, Poll, TypeOK, ProcessTypes, streams, reader, Goto
<1>2. PlaceInv'
  BY <1>k DEF SInv, PlaceInv, Poll, Goto
<1>3. LeaderInv'
  BY <1>0, <1>k DEF SInv, LeaderInv, CleanExitCounts, Poll, Goto
<1>4. GroupInv'
  BY <1>k DEF GroupInv, Poll, Goto
<1>5. LinesInv'
  BY <1>0, <1>k, LinesKeptElsewhere DEF SInv, Poll, Goto, reader
<1> QED
  BY <1>1, <1>2, <1>3, <1>4, <1>5 DEF SInv

LEMMA KillKeeps ==
    ASSUME SInv, Kill
    PROVE  SInv'
<1>k. kind = "bounded" /\ result.how = "none" /\ late
  BY DEF TypeOK, SInv, PlaceInv, Kill
<1>0. /\ ProcessTypes' /\ inTime' = inTime
      /\ IF agent = "running" THEN agent' = "zombie" /\ status' = Killed
                              ELSE UNCHANGED <<agent, status>>
      /\ agent # "reaped" => NobodyInGroup'
      /\ \A s \in Streams : Closed(s) => Closed(s)'
  BY KillGroupEffect DEF SInv, Kill
<1>1. TypeOK'
  BY <1>0 DEF SInv, Kill, TypeOK, ProcessTypes, streams, reader, Goto
<1>2. PlaceInv'
  BY <1>k DEF SInv, PlaceInv, Kill, Goto
<1>3. LeaderInv'
  BY <1>0, <1>k DEF SInv, LeaderInv, CleanExitCounts, Kill, Goto
<1>4. GroupInv'
  <2>1. polled = None => agent # "reaped"
    BY DEF SInv, LeaderInv, Kill
  <2> QED
    BY <2>1, <1>0, <1>k DEF GroupInv, Kill, Goto
<1>5. LinesInv'
  BY <1>0, <1>k, LinesKeptElsewhere DEF SInv, Kill, Goto, reader
<1> QED
  BY <1>1, <1>2, <1>3, <1>4, <1>5 DEF SInv

LEMMA DrainedKeeps ==
    ASSUME SInv, Drained
    PROVE  SInv'
<1>0. /\ ProcessTypes' /\ UNCHANGED <<status, inTime>>
      /\ agent # "running" /\ agent' = "reaped"
      /\ NobodyInGroup => NobodyInGroup'
      /\ \A s \in Streams : Closed(s) => Closed(s)'
  BY ReapEffect DEF SInv, Drained
<1>k. /\ kind = "bounded" /\ UNCHANGED <<kind, late, polled, streams, reader>> /\ pc' = "over"
      /\ polled = None => ~inTime
      /\ polled # None => polled = status /\ status # Killed
      /\ result' = IF polled = None THEN [how |-> "timeout", status |-> None]
                                    ELSE [how |-> "exit", status |-> polled]
  BY DEF SInv, PlaceInv, LeaderInv, TypeOK, Drained, Goto, Report
<1>1. TypeOK'
  BY <1>0, <1>k DEF SInv, TypeOK, ProcessTypes, streams, reader
<1>2. PlaceInv'
  BY <1>k DEF SInv, PlaceInv
<1>3. LeaderInv'
  BY <1>0, <1>k DEF SInv, LeaderInv, CleanExitCounts
<1>4. GroupInv'
  <2>1. polled = None => NobodyInGroup'
    BY <1>0 DEF SInv, GroupInv, Drained
  <2> QED
    BY <2>1, <1>k DEF GroupInv
<1>5. LinesInv'
  BY <1>0, <1>k, LinesKeptElsewhere DEF SInv, reader
<1> QED
  BY <1>1, <1>2, <1>3, <1>4, <1>5 DEF SInv

-----------------------------------------------------------------------------
(* The loop of the lane.                                                   *)

LEMMA LoopEndsKeeps ==
    ASSUME SInv, LoopEnds
    PROVE  SInv'
<1>k. kind = "lane" /\ result.how = "none"
  BY DEF TypeOK, SInv, PlaceInv, LoopEnds
<1>1. TypeOK'
  BY DEF SInv, LoopEnds, TypeOK, processes, streams, reader, Goto
<1>2. PlaceInv'
  BY <1>k DEF SInv, PlaceInv, LoopEnds, Goto
<1>3. LeaderInv'
  BY <1>k DEF SInv, LeaderInv, CleanExitCounts, LoopEnds, Goto, processes
<1>4. GroupInv'
  BY <1>k DEF GroupInv, LoopEnds, Goto
<1>5. LinesInv'
  BY <1>k, LinesKeptElsewhere DEF SInv, LoopEnds, Goto, reader, processes, Closed
<1> QED
  BY <1>1, <1>2, <1>3, <1>4, <1>5 DEF SInv

LEMMA LaneTimesOutKeeps ==
    ASSUME SInv, LaneTimesOut
    PROVE  SInv'
<1>k. kind = "lane" /\ result.how = "none" /\ polled = None /\ agent # "reaped"
  BY DEF TypeOK, SInv, PlaceInv, LeaderInv, LaneTimesOut
<1>0. /\ ProcessTypes' /\ inTime' = inTime
      /\ IF agent = "running" THEN agent' = "zombie" /\ status' = Killed
                              ELSE UNCHANGED <<agent, status>>
      /\ NobodyInGroup'
      /\ \A s \in Streams : Closed(s) => Closed(s)'
  BY <1>k, KillGroupEffect DEF SInv, LaneTimesOut
<1>1. TypeOK'
  BY <1>0 DEF SInv, LaneTimesOut, TypeOK, ProcessTypes, streams, reader, Goto
<1>2. PlaceInv'
  BY <1>k DEF SInv, PlaceInv, LaneTimesOut, Goto
<1>3. LeaderInv'
  BY <1>0, <1>k DEF SInv, LeaderInv, CleanExitCounts, LaneTimesOut, Goto
<1>4. GroupInv'
  BY <1>0, <1>k DEF GroupInv, LaneTimesOut, Goto
<1>5. LinesInv'
  BY <1>0, <1>k, LinesKeptElsewhere DEF SInv, LaneTimesOut, Goto, reader
<1> QED
  BY <1>1, <1>2, <1>3, <1>4, <1>5 DEF SInv

LEMMA SelectKeeps ==
    ASSUME SInv, Select
    PROVE  SInv'
<1>k. kind = "lane" /\ result.how = "none"
  BY DEF TypeOK, SInv, PlaceInv, Select
<1>1. TypeOK'
  BY DEF SInv, Select, TypeOK, processes, streams, Goto
<1>2. PlaceInv'
  BY <1>k DEF SInv, PlaceInv, Select, Goto
<1>3. LeaderInv'
  BY <1>k DEF SInv, LeaderInv, CleanExitCounts, Select, Goto, processes
<1>4. GroupInv'
  BY <1>k DEF GroupInv, Select, Goto
<1>5. LinesInv'
  BY <1>k, LinesKeptElsewhere DEF SInv, Select, Goto, processes, Closed
<1> QED
  BY <1>1, <1>2, <1>3, <1>4, <1>5 DEF SInv

LEMMA LoopAgainKeeps ==
    ASSUME SInv, LoopAgain
    PROVE  SInv'
<1>k. kind = "lane" /\ result.how = "none"
  BY DEF TypeOK, SInv, PlaceInv, LoopAgain
<1>1. TypeOK'
  BY DEF SInv, LoopAgain, TypeOK, processes, streams, reader, Goto
<1>2. PlaceInv'
  BY <1>k DEF SInv, PlaceInv, LoopAgain, Goto
<1>3. LeaderInv'
  BY <1>k DEF SInv, LeaderInv, CleanExitCounts, LoopAgain, Goto, processes
<1>4. GroupInv'
  BY <1>k DEF GroupInv, LoopAgain, Goto
<1>5. LinesInv'
  BY <1>k, LinesKeptElsewhere DEF SInv, LoopAgain, Goto, reader, processes, Closed
<1> QED
  BY <1>1, <1>2, <1>3, <1>4, <1>5 DEF SInv

LEMMA StoreRaisesKeeps ==
    ASSUME SInv, StoreRaises
    PROVE  SInv'
<1>k. /\ kind = "lane" /\ result.how = "none" /\ pc = "read" /\ pc' = "over"
      /\ result' = [how |-> "store", status |-> None]
      /\ UNCHANGED <<kind, processes, streams, late, polled, reader>>
  BY DEF TypeOK, SInv, PlaceInv, StoreRaises, Goto, Report
<1>1. TypeOK'
  BY <1>k DEF SInv, TypeOK, processes, streams, reader
<1>2. PlaceInv'
  BY <1>k DEF SInv, PlaceInv
<1>3. LeaderInv'
  BY <1>k DEF SInv, LeaderInv, CleanExitCounts, processes
<1>4. GroupInv'
  BY <1>k DEF GroupInv
<1>5. LinesInv'
  BY <1>k, LinesKeptElsewhere DEF SInv, reader, processes, Closed
<1> QED
  BY <1>1, <1>2, <1>3, <1>4, <1>5 DEF SInv

LEMMA WaitKeeps ==
    ASSUME SInv, Wait
    PROVE  SInv'
<1>0. /\ ProcessTypes' /\ UNCHANGED <<status, inTime>>
      /\ agent # "running" /\ agent' = "reaped"
      /\ NobodyInGroup => NobodyInGroup'
      /\ \A s \in Streams : Closed(s) => Closed(s)'
  BY ReapEffect DEF SInv, Wait
<1>k. /\ kind = "lane" /\ UNCHANGED <<kind, late, polled, streams, reader>> /\ pc' = "over"
      /\ pc \in {"wait", "expired"} /\ polled = None
      /\ result' = IF pc = "wait" THEN [how |-> "exit", status |-> status]
                                  ELSE [how |-> "timeout", status |-> None]
  BY DEF SInv, PlaceInv, LeaderInv, TypeOK, Wait, Goto, Report
<1>1. TypeOK'
  BY <1>0, <1>k DEF SInv, TypeOK, ProcessTypes, streams, reader
<1>2. PlaceInv'
  BY <1>k DEF SInv, PlaceInv
<1>3. LeaderInv'
  BY <1>0, <1>k DEF SInv, LeaderInv, CleanExitCounts
<1>4. GroupInv'
  BY <1>0, <1>k DEF SInv, GroupInv
<1>5. LinesInv'
  <2>1. pc = "wait" => open = {}
    BY DEF SInv, LinesInv
  <2> QED
    BY <1>0, <1>k, <2>1, LinesKeptElsewhere DEF SInv, reader
<1> QED
  BY <1>1, <1>2, <1>3, <1>4, <1>5 DEF SInv

\* readline() moves lines from the pipe to its buffer and from there to the
\* transcript, or finds the end of the stream.
LEMMA ReadLineKeeps ==
    ASSUME SInv, NEW s \in Streams, ReadLine(s)
    PROVE  SInv'
<1>k. kind = "lane" /\ result.how = "none" /\ pc = "read"
  BY DEF TypeOK, SInv, PlaceInv, ReadLine
<1>0. /\ wrote[s] = read[s] + buffer[s] + pipe[s] + Pending(s)
      /\ wrote[s] \in 0 .. MaxLines /\ read[s] \in Nat /\ buffer[s] \in Nat /\ pipe[s] \in Nat
      /\ s \in open
      /\ Pending(s) = IF tail[s] = "none" THEN 0 ELSE 1
  BY DEF SInv, LinesInv, TypeOK, Pending, ReadLine
<1>f. UNCHANGED <<kind, agent, status, helper, holds, inTime, late, pc, polled, result, wrote>>
  BY DEF ReadLine, processes
\* What becomes of the stream s, in the three cases.
<1>s. /\ \A t \in Streams \ {s} : /\ read'[t] = read[t] /\ buffer'[t] = buffer[t]
                                 /\ pipe'[t] = pipe[t] /\ tail'[t] = tail[t]
      /\ read' \in [Streams -> Nat] /\ buffer' \in [Streams -> Nat] /\ pipe' \in [Streams -> Nat]
      /\ tail' \in [Streams -> {"none", "pipe", "buffer"}]
      /\ wrote[s] = read'[s] + buffer'[s] + pipe'[s] + Pending(s)'
      /\ \/ open' = open
         \/ /\ open' = open \ {s} /\ Closed(s)
            /\ buffer'[s] = 0 /\ pipe'[s] = 0 /\ tail'[s] = "none"
  <2>1. CASE buffer[s] > 0
    BY <2>1, <1>0 DEF SInv, TypeOK, ReadLine, Pending
  <2>2. CASE buffer[s] = 0 /\ pipe[s] > 0
    BY <2>2, <1>0 DEF SInv, TypeOK, ReadLine, Pending
  <2>3. CASE buffer[s] + pipe[s] = 0
    <3>1. buffer[s] = 0 /\ pipe[s] = 0
      BY <2>3, <1>0
    <3>2. CASE tail[s] = "none"
      BY <2>3, <3>1, <3>2, <1>0 DEF SInv, TypeOK, ReadLine, Pending
    <3>3. CASE tail[s] # "none"
      BY <2>3, <3>1, <3>3, <1>0 DEF SInv, TypeOK, ReadLine, Pending
    <3> QED
      BY <3>2, <3>3
  <2> QED
    BY <2>1, <2>2, <2>3, <1>0
<1>a. \A t \in Streams : wrote'[t] = read'[t] + buffer'[t] + pipe'[t] + Pending(t)'
  BY <1>s, <1>f DEF SInv, LinesInv, Pending
<1>1. TypeOK'
  <2>1. ASSUME NEW t \in Streams
        PROVE  /\ read'[t] \in 0 .. MaxLines /\ buffer'[t] \in 0 .. MaxLines
               /\ pipe'[t] \in 0 .. MaxLines
    <3>1. wrote'[t] \in 0 .. MaxLines /\ Pending(t)' \in Nat
      BY <1>f DEF SInv, TypeOK, Pending
    <3> QED
      BY <3>1, <1>a, <1>s
  <2>2. /\ read' \in [Streams -> 0 .. MaxLines] /\ buffer' \in [Streams -> 0 .. MaxLines]
        /\ pipe' \in [Streams -> 0 .. MaxLines]
    BY <2>1, <1>s
  <2>3. open' \subseteq Streams /\ ready' \subseteq open'
    BY <1>s DEF SInv, TypeOK, ReadLine
  <2> QED
    BY <2>2, <2>3, <1>s, <1>f DEF SInv, TypeOK
<1>2. PlaceInv'
  BY <1>f, PlaceKept DEF SInv
<1>3. LeaderInv'
  BY <1>f, LeaderKept DEF SInv
<1>4. GroupInv'
  BY <1>f, GroupKept, SameProcesses DEF SInv
<1>5. LinesInv'
  <2>1. ASSUME NEW t \in Streams \ open'
        PROVE  Closed(t)' /\ buffer'[t] = 0 /\ pipe'[t] = 0 /\ tail'[t] = "none"
    BY <1>s, <1>f, <1>0 DEF SInv, LinesInv, Closed
  <2> QED
    BY <1>a, <2>1, <1>k, <1>f DEF LinesInv
<1> QED
  BY <1>1, <1>2, <1>3, <1>4, <1>5 DEF SInv

-----------------------------------------------------------------------------
LEMMA StutterKeeps ==
    ASSUME SInv, UNCHANGED vars
    PROVE  SInv'
BY DEF vars, processes, streams, reader, SInv, TypeOK, PlaceInv, LeaderInv, CleanExitCounts,
       GroupInv, LinesInv, NobodyInGroup, InGroup, Alive, Closed, Pending

LEMMA StepKeeps == SInv /\ [Next]_vars => SInv'
<1> SUFFICES ASSUME SInv, [Next]_vars PROVE SInv'
    OBVIOUS
<1>1. CASE Environment
  BY <1>1, ForkKeeps, EscapeKeeps, HelperExitKeeps, CloseStreamKeeps, WriteKeeps, AgentExitKeeps
     DEF Environment
<1>2. CASE Deadline
  BY <1>2, DeadlineKeeps
<1>3. CASE Bounded
  BY <1>3, CommunicatedKeeps, TimeoutExpiredKeeps, PollKeeps, KillKeeps, DrainedKeeps DEF Bounded
<1>4. CASE Lane
  BY <1>4, LoopEndsKeeps, LaneTimesOutKeeps, SelectKeeps, ReadLineKeeps, LoopAgainKeeps, WaitKeeps
     DEF Lane
<1>5. CASE StoreRaises
  BY <1>5, StoreRaisesKeeps
<1>6. CASE UNCHANGED vars
  BY <1>6, StutterKeeps
<1> QED
  BY <1>1, <1>2, <1>3, <1>4, <1>5, <1>6 DEF Next

\* The invariant holds in every state, whoever runs, exits, writes or is killed.
THEOREM Inductive == Spec => []SInv
BY InitKeeps, StepKeeps, PTL DEF Spec

-----------------------------------------------------------------------------
(* The variables have their types.                                         *)
THEOREM TypeCorrect == Spec => []TypeOK
<1>1. SInv => TypeOK
  BY DEF SInv
<1> QED
  BY <1>1, Inductive, PTL

(* What _run_bounded reports of an agent: never a timeout if it exited      *)
(* before the deadline, and otherwise the status it exited with.            *)
THEOREM CleanExitsCount == Spec => []CleanExitCounts
<1>1. SInv => CleanExitCounts
  BY DEF SInv, LeaderInv
<1> QED
  BY <1>1, Inductive, PTL

(* A reported timeout means that no process of the agent's group is alive.  *)
THEOREM TimeoutsEndGroups == Spec => []TimeoutEndsGroup
<1>1. SInv => TimeoutEndsGroup
  BY DEF SInv, GroupInv, NobodyInGroup, TimeoutEndsGroup
<1> QED
  BY <1>1, Inductive, PTL

(* The transcript of a lane that did not time out has every line written.   *)
THEOREM TranscriptsAreComplete == Spec => []TranscriptIsComplete
<1>1. SInv => TranscriptIsComplete
  <2> SUFFICES ASSUME SInv, kind = "lane", result.how = "exit" PROVE read = wrote
      BY DEF TranscriptIsComplete
  <2>1. open = {}
    BY DEF SInv, LinesInv
  <2>2. ASSUME NEW s \in Streams PROVE read[s] = wrote[s]
    BY <2>1 DEF SInv, LinesInv, Pending, TypeOK
  <2> QED
    BY <2>2 DEF SInv, TypeOK
<1> QED
  BY <1>1, Inductive, PTL
=============================================================================
