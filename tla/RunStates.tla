----------------------------- MODULE RunStates -----------------------------
(***************************************************************************)
(* The lifecycle vocabulary of ako4x/events.py: the states of a row of the *)
(* `runs` table, the check RunStore.transition makes before it writes one, *)
(* and the status it writes beside it.  Constant-level: no variables.      *)
(***************************************************************************)
EXTENDS Integers, Sequences

\* The order a run goes through; FAILED is outside it.
STATES == << "CREATED", "PREFLIGHTED", "BASELINED", "PROFILED_BASELINE",
             "OPTIMIZING", "VERIFIED", "BENCHMARKED", "PROFILED_CANDIDATE",
             "PROMOTABLE", "PROMOTED" >>

TERMINAL_STATES == {"FAILED", "PROMOTED"}

RunState == {"CREATED", "PREFLIGHTED", "BASELINED", "PROFILED_BASELINE",
             "OPTIMIZING", "VERIFIED", "BENCHMARKED", "PROFILED_CANDIDATE",
             "PROMOTABLE", "PROMOTED", "FAILED"}

\* No row yet.
Absent == "ABSENT"

\* The rule RunStore.transition enforces on the state it has just read:
\* FAILED from any state that is not terminal, otherwise the next one.
Allowed(current, target) ==
    \/ target = "FAILED" /\ current \notin TERMINAL_STATES
    \/ \E i \in 1 .. Len(STATES) - 1 : current = STATES[i] /\ target = STATES[i + 1]

StatusOf(target) ==
    IF target = "FAILED" THEN "failed"
    ELSE IF target = "PROMOTED" THEN "complete" ELSE "running"

\* Position in the lifecycle, FAILED last: what "later" means for a state.
Rank(s) ==
    IF s = "FAILED" THEN Len(STATES) + 1
    ELSE CHOOSE i \in 1 .. Len(STATES) : STATES[i] = s
=============================================================================
