----------------------------- MODULE Supervision -----------------------------
(***************************************************************************)
(* The two supervisors of an agent process: master._run_bounded and        *)
(* lanes._run_agent.  Both start the agent as the leader of a process      *)
(* group, read its standard streams until nobody holds them, and kill the  *)
(* group at a deadline.  What the agent starts inherits group and streams. *)
(***************************************************************************)
EXTENDS Naturals, FiniteSets

CONSTANTS
    Helpers,   \* processes the agent starts: benchmarks, remote clients
    Streams,   \* the standard output and the standard error of the agent
    MaxLines   \* bound: lines written to each stream

CONSTANTS Agent, None, Killed   \* the leader; no value; the status of a killed process

ASSUME BoundAssumption == MaxLines \in Nat
ASSUME AgentAssumption == Agent \notin Helpers
ASSUME StatusAssumption == None \notin {0, 1, Killed} /\ Killed \notin {0, 1}

VARIABLES
    kind,       \* "bounded": _run_bounded; "lane": _run_agent
    agent,      \* the leader: running, a zombie nobody has waited for, or reaped
    status,     \* what it exited with
    helper,     \* [Helpers -> absent, running in the group, escaped from it, gone]
    holds,      \* [Streams -> processes with the write end]
    pipe,       \* [Streams -> complete lines in the pipe]
    tail,       \* [Streams -> where an unfinished line is: none, pipe, buffer]
    late,       \* the deadline has passed
    pc,         \* where the supervisor is
    polled,     \* _run_bounded: what poll() said at the deadline
    open,       \* _run_agent: streams registered with the selector
    ready,      \* _run_agent: what select() returned and is not read yet
    buffer,     \* _run_agent: [Streams -> complete lines below readline()]
    read,       \* _run_agent: [Streams -> lines in the transcript]
    result,     \* what the supervisor reports
    wrote,      \* history: [Streams -> lines begun]
    inTime      \* history: the agent exited by itself before the deadline

processes == <<agent, status, helper, holds, inTime>>
streams   == <<pipe, tail, wrote>>
reader    == <<open, ready, buffer, read>>
vars == <<kind, processes, streams, late, pc, polled, reader, result>>

NoResult == [how |-> "none", status |-> None]

Init ==
    /\ kind \in {"bounded", "lane"}
    /\ agent = "running" /\ status = None
    /\ helper = [h \in Helpers |-> "absent"]
    /\ holds = [s \in Streams |-> {Agent}]
    /\ pipe = [s \in Streams |-> 0] /\ tail = [s \in Streams |-> "none"]
    /\ late = FALSE
    /\ pc = IF kind = "bounded" THEN "communicate" ELSE "loop"
    /\ polled = None
    /\ open = Streams /\ ready = {}
    /\ buffer = [s \in Streams |-> 0] /\ read = [s \in Streams |-> 0]
    /\ result = NoResult
    /\ wrote = [s \in Streams |-> 0] /\ inTime = FALSE

-----------------------------------------------------------------------------
(* The agent and what it starts.                                           *)

Alive(p) == IF p = Agent THEN agent = "running" ELSE helper[p] \in {"running", "escaped"}
Processes == Helpers \cup {Agent}
Closed(s) == holds[s] = {}
Released(p) == [s \in Streams |-> holds[s] \ {p}]

\* A child inherits the streams that are not redirected.
Fork(h) ==
    /\ agent = "running" /\ helper[h] = "absent"
    /\ helper' = [helper EXCEPT ![h] = "running"]
    /\ \E kept \in SUBSET {s \in Streams : Agent \in holds[s]} :
          holds' = [s \in Streams |-> holds[s] \cup (IF s \in kept THEN {h} ELSE {})]
    /\ UNCHANGED <<kind, agent, status, inTime, streams, late, pc, polled, reader, result>>

\* setsid
Escape(h) ==
    /\ helper[h] = "running"
    /\ helper' = [helper EXCEPT ![h] = "escaped"]
    /\ UNCHANGED <<kind, agent, status, holds, inTime, streams, late, pc, polled, reader, result>>

\* A whole line, the end of one, or a part without its end.
Write(p, s, whole) ==
    /\ Alive(p) /\ p \in holds[s]
    /\ tail[s] = "none" => wrote[s] < MaxLines
    /\ wrote' = [wrote EXCEPT ![s] = IF tail[s] = "none" THEN @ + 1 ELSE @]
    /\ pipe' = [pipe EXCEPT ![s] = IF whole THEN @ + 1 ELSE @]
    /\ tail' = [tail EXCEPT ![s] = IF whole THEN "none" ELSE "pipe"]
    /\ UNCHANGED <<kind, processes, late, pc, polled, reader, result>>

CloseStream(p, s) ==
    /\ Alive(p) /\ p \in holds[s]
    /\ holds' = [holds EXCEPT ![s] = @ \ {p}]
    /\ UNCHANGED <<kind, agent, status, helper, inTime, streams, late, pc, polled, reader, result>>

AgentExit(code) ==
    /\ agent = "running"
    /\ agent' = "zombie" /\ status' = code /\ inTime' = ~late
    /\ holds' = Released(Agent)
    /\ UNCHANGED <<kind, helper, streams, late, pc, polled, reader, result>>

HelperExit(h) ==
    /\ Alive(h)
    /\ helper' = [helper EXCEPT ![h] = "gone"]
    /\ holds' = Released(h)
    /\ UNCHANGED <<kind, agent, status, inTime, streams, late, pc, polled, reader, result>>

Deadline ==
    /\ ~late /\ late' = TRUE
    /\ UNCHANGED <<kind, processes, streams, pc, polled, reader, result>>

-----------------------------------------------------------------------------
(* os.killpg(os.getpgid(proc.pid), SIGKILL), else proc.kill()              *)

InGroup(p) == Alive(p) /\ (p # Agent => helper[p] = "running")

KillAll(group) ==
    /\ agent' = IF Agent \in group THEN "zombie" ELSE agent
    /\ status' = IF Agent \in group THEN Killed ELSE status
    /\ helper' = [h \in Helpers |-> IF h \in group THEN "gone" ELSE helper[h]]
    /\ holds' = [s \in Streams |-> holds[s] \ group]
    /\ UNCHANGED inTime

\* Mutant: only the process that was started, as subprocess.run does.
KillLeader == KillAll({p \in {Agent} : InGroup(p)})

\* getpgid of a leader that has been waited for raises ProcessLookupError, and
\* the proc.kill() in its place does nothing.
KillGroup ==
    IF agent = "reaped" THEN UNCHANGED processes
    ELSE KillAll({p \in Processes : InGroup(p)})

Reap ==
    /\ agent # "running"
    /\ agent' = "reaped"
    /\ UNCHANGED <<status, helper, holds, inTime>>

Goto(op) == pc' = op
Report(how, code) == Goto("over") /\ result' = [how |-> how, status |-> code]

-----------------------------------------------------------------------------
(* _run_bounded.  communicate() reads both streams to their end and then    *)
(* waits for the process; what it has read survives a timeout.              *)

Communicated ==
    /\ pc = "communicate" /\ \A s \in Streams : Closed(s)
    /\ Reap
    /\ Report("exit", status)
    /\ UNCHANGED <<kind, streams, late, polled, reader>>

TimeoutExpired ==
    /\ pc = "communicate" /\ late
    /\ ~(agent # "running" /\ \A s \in Streams : Closed(s))
    /\ Goto("poll")
    /\ UNCHANGED <<kind, processes, streams, late, polled, reader, result>>

\* Mutant: the group is killed first.
PollAfterKill ==
    /\ pc = "poll"
    /\ KillGroup
    /\ polled' = status'
    /\ Goto("kill")
    /\ UNCHANGED <<kind, streams, late, reader, result>>

\* poll() reaps.
Poll ==
    /\ pc = "poll"
    /\ IF agent = "running" THEN UNCHANGED <<processes, polled>> ELSE Reap /\ polled' = status
    /\ Goto("kill")
    /\ UNCHANGED <<kind, streams, late, reader, result>>

Kill ==
    /\ pc = "kill"
    /\ KillGroup
    /\ Goto("drain")
    /\ UNCHANGED <<kind, streams, late, polled, reader, result>>

\* Mutant: a process that exited is reported as timed out when its streams
\* were held open.
DrainedAlwaysLate ==
    /\ pc = "drain" /\ \A s \in Streams : Closed(s)
    /\ Reap
    /\ Report("timeout", None)
    /\ UNCHANGED <<kind, streams, late, polled, reader>>

\* communicate() again, without a timeout.
Drained ==
    /\ pc = "drain" /\ \A s \in Streams : Closed(s)
    /\ Reap
    /\ IF polled = None THEN Report("timeout", None) ELSE Report("exit", polled)
    /\ UNCHANGED <<kind, streams, late, polled, reader>>

Bounded == Communicated \/ TimeoutExpired \/ Poll \/ Kill \/ Drained

-----------------------------------------------------------------------------
(* _run_agent                                                              *)

\* Mutant: the loop ends when the process has ended.
LoopEndsWithAgent ==
    /\ pc = "loop" /\ (open = {} \/ agent # "running")
    /\ Goto("wait")
    /\ UNCHANGED <<kind, processes, streams, late, polled, reader, result>>

LoopEnds ==
    /\ pc = "loop" /\ open = {}
    /\ Goto("wait")
    /\ UNCHANGED <<kind, processes, streams, late, polled, reader, result>>

\* Mutant: the loop is left without a kill.
LaneGivesUp ==
    /\ pc = "loop" /\ open # {} /\ late
    /\ Goto("expired")
    /\ UNCHANGED <<kind, processes, streams, late, polled, reader, result>>

LaneTimesOut ==
    /\ pc = "loop" /\ open # {} /\ late
    /\ KillGroup
    /\ Goto("expired")
    /\ UNCHANGED <<kind, streams, late, polled, reader, result>>

\* What readline() keeps in its buffer is invisible to select().
Select ==
    /\ pc = "loop" /\ open # {} /\ ~late
    /\ ready' = {s \in open : pipe[s] > 0 \/ tail[s] = "pipe" \/ Closed(s)}
    /\ Goto("read")
    /\ UNCHANGED <<kind, processes, streams, late, polled, open, buffer, read, result>>

\* readline() returns a buffered line, or takes what is in the pipe and waits
\* until it holds the end of a line or the end of the stream.
ReadLine(s) ==
    /\ pc = "read" /\ s \in ready
    /\ ready' = ready \ {s}
    /\ \/ /\ buffer[s] + pipe[s] > 0
          /\ read' = [read EXCEPT ![s] = @ + 1]
          /\ buffer' = [buffer EXCEPT ![s] = IF @ > 0 THEN @ - 1 ELSE pipe[s] - 1]
          /\ pipe' = [pipe EXCEPT ![s] = IF buffer[s] > 0 THEN @ ELSE 0]
          /\ tail' = [tail EXCEPT ![s] = IF buffer[s] = 0 /\ @ = "pipe" THEN "buffer" ELSE @]
          /\ UNCHANGED open
       \/ /\ buffer[s] + pipe[s] = 0 /\ Closed(s)
          /\ IF tail[s] = "none"
             THEN open' = open \ {s} /\ UNCHANGED <<tail, read>>
             ELSE /\ tail' = [tail EXCEPT ![s] = "none"]
                  /\ read' = [read EXCEPT ![s] = @ + 1]
                  /\ UNCHANGED open
          /\ UNCHANGED <<pipe, buffer>>
    /\ UNCHANGED <<kind, processes, late, pc, polled, result, wrote>>

\* The events of the lines, and the heartbeat, go to the run store; an exception
\* out of it leaves the loop and the agent as they are.
StoreRaises ==
    /\ pc = "read" /\ "stdout" \notin ready
    /\ Report("store", None)
    /\ UNCHANGED <<kind, processes, streams, late, polled, reader>>

LoopAgain ==
    /\ pc = "read" /\ ready = {}
    /\ Goto("loop")
    /\ UNCHANGED <<kind, processes, streams, late, polled, reader, result>>

Wait ==
    /\ pc \in {"wait", "expired"}
    /\ Reap
    /\ IF pc = "wait" THEN Report("exit", status) ELSE Report("timeout", None)
    /\ UNCHANGED <<kind, streams, late, polled, reader>>

Lane == LoopEnds \/ LaneTimesOut \/ Select \/ (\E s \in Streams : ReadLine(s)) \/ LoopAgain \/ Wait

-----------------------------------------------------------------------------
Environment ==
    \/ \E h \in Helpers : Fork(h) \/ Escape(h) \/ HelperExit(h)
    \/ \E p \in Processes, s \in Streams :
          CloseStream(p, s) \/ \E whole \in BOOLEAN : Write(p, s, whole)
    \/ \E code \in {0, 1} : AgentExit(code)

Next == Environment \/ Deadline \/ Bounded \/ Lane \/ StoreRaises

Spec == Init /\ [][Next]_vars

\* Time passes and the supervisor runs; nobody else need do anything.
FairSpec == Spec /\ WF_vars(Deadline) /\ WF_vars(Bounded \/ Lane)

-----------------------------------------------------------------------------
(* Properties.                                                             *)

\* The variables have their types.
TypeOK ==
    /\ kind \in {"bounded", "lane"}
    /\ agent \in {"running", "zombie", "reaped"} /\ status \in {None, 0, 1, Killed}
    /\ helper \in [Helpers -> {"absent", "running", "escaped", "gone"}]
    /\ holds \in [Streams -> SUBSET Processes]
    /\ pipe \in [Streams -> 0 .. MaxLines] /\ tail \in [Streams -> {"none", "pipe", "buffer"}]
    /\ late \in BOOLEAN /\ inTime \in BOOLEAN
    /\ pc \in {"communicate", "poll", "kill", "drain", "loop", "read", "wait", "expired", "over"}
    /\ polled \in {None, 0, 1}
    /\ open \subseteq Streams /\ ready \subseteq open
    /\ buffer \in [Streams -> 0 .. MaxLines] /\ read \in [Streams -> 0 .. MaxLines]
    /\ result \in [how : {"none", "exit", "timeout", "store"}, status : {None, 0, 1, Killed}]
    /\ wrote \in [Streams -> 0 .. MaxLines]

\* _run_bounded never reports as timed out an agent that exited before the
\* deadline, whoever held its streams, and else reports the agent's own status
\* ("Orphan-grandchild false-positive", master.py:316-329).
CleanExitCounts ==
    kind = "bounded" =>
        /\ result.how = "timeout" => ~inTime
        /\ result.how = "exit" => result.status = status /\ status # Killed

\* Once a timeout is reported nothing in the agent's process group writes into
\* the workspace (master.py:307-311, lanes.py:293).
TimeoutEndsGroup ==
    result.how = "timeout" => \A p \in Processes : ~InGroup(p)

\* Unless it times out, the transcript of a lane has every line that anybody
\* wrote, also those that select() no longer announces.
TranscriptIsComplete ==
    kind = "lane" /\ result.how = "exit" => read = wrote

NoEscapes == \A h \in Helpers : helper[h] # "escaped"

\* The agent ends its lines and holds its streams as long as it runs.
Orderly == \A s \in Streams : tail[s] = "none" /\ (agent = "running" => Agent \in holds[s])

\* _run_bounded returns from the timeout of an agent that is still running.
TimeoutReturns ==
    kind = "bounded" /\ []NoEscapes =>
        (pc = "kill" /\ polled = None ~> pc = "over")

\* An autonomous lane ends at its deadline, if the agent is orderly.
LaneEnds ==
    kind = "lane" /\ []Orderly => (late ~> pc = "over")

\* _run_bounded ends after its deadline: "Run `cmd` with a hard timeout, killing
\* the whole process group on expiry" (master.py:304-305).
BoundedEnds ==
    kind = "bounded" /\ []NoEscapes => (late ~> pc = "over")
=============================================================================
