----------------------------- MODULE CrashBudget -----------------------------
(***************************************************************************)
(* What the crash-loop protection of api/lifecycle/backoff.ts promises,    *)
(* without the timers, the HTTP handlers and the desktop that implement    *)
(* it: an agent that keeps crashing earns at most MaxConsecutiveCrashes-1  *)
(* automatic restarts, one per counted crash, until it has been stable,    *)
(* and is given up on by the crash that exhausts the budget and by nothing *)
(* else.                                                                   *)
(* AgentLifecycle is shown to implement this module.                       *)
(***************************************************************************)
EXTENDS Naturals

CONSTANTS Agents, MaxConsecutiveCrashes

VARIABLES
    crashes,   \* consecutive crashes counted against each agent
    pending,   \* automatic restarts granted to each agent and not started yet
    givenUp    \* agents given up on

vars == <<crashes, pending, givenUp>>

Init ==
    /\ crashes = [a \in Agents |-> 0]
    /\ pending = [a \in Agents |-> 0]
    /\ givenUp = {}

\* A crash is counted; it earns a restart while the budget lasts, and with the last
\* crash of the budget the agent is given up on.
Crash(a) ==
    /\ crashes' = [crashes EXCEPT ![a] = @ + 1]
    /\ IF crashes[a] + 1 < MaxConsecutiveCrashes
       THEN /\ pending' = [pending EXCEPT ![a] = @ + 1]
            /\ givenUp' = givenUp \ {a}
       ELSE /\ givenUp' = givenUp \cup {a}
            /\ UNCHANGED pending

\* An agent given up on is started again by hand, by a restart granted before, or its
\* terminal ends in order after all.  Its crashes stay counted.
Retry(a) ==
    /\ a \in givenUp
    /\ givenUp' = givenUp \ {a}
    /\ UNCHANGED <<crashes, pending>>

\* A granted restart starts, or a manual restart takes its place.
UseRestart(a) ==
    /\ pending[a] > 0
    /\ pending' = [pending EXCEPT ![a] = @ - 1]
    /\ givenUp' \in {givenUp, givenUp \ {a}}
    /\ UNCHANGED crashes

\* No crash has been counted for long enough: those counted are forgiven. No restart
\* granted for a forgiven crash is left over, and no agent given up on is forgiven.
Forgive(a) ==
    /\ pending[a] = 0
    /\ a \notin givenUp
    /\ crashes' = [crashes EXCEPT ![a] = 0]
    /\ UNCHANGED <<pending, givenUp>>

\* The sidecar process dies: the counters live in memory only.
Forget ==
    /\ crashes' = [a \in Agents |-> 0]
    /\ pending' = [a \in Agents |-> 0]
    /\ givenUp' = {}

Next ==
    \/ \E a \in Agents: Crash(a) \/ Retry(a) \/ UseRestart(a) \/ Forgive(a)
    \/ Forget

Spec == Init /\ [][Next]_vars

\* What this comes to: no more restarts than crashes, never as many as the budget,
\* and nobody is given up on, or stays so, with crashes to spare.
WithinBudget ==
    \A a \in Agents: pending[a] <= crashes[a] /\ pending[a] < MaxConsecutiveCrashes
GivenUpIsSpent == \A a \in givenUp: crashes[a] >= MaxConsecutiveCrashes

==============================================================================
