------------------------------- MODULE UserStop -------------------------------
(***************************************************************************)
(* AgentLifecycle with one history variable: which agents the user has     *)
(* stopped and nobody has started since.  It states what a comment in      *)
(* api/lifecycle/backoff.ts says of the kill route.                        *)
(***************************************************************************)
EXTENDS AgentLifecycle

VARIABLE stoppedByUser

\* A kill request of a is answered with status 'stopped'.
Stops(a) == \E h \in Handlers: handlers[h].agent = a /\ KillAnswered(h)

\* A spawn, restart or registration of a makes a step, or the desktop spawns a.
Starts(a) ==
    \/ \E h \in Handlers:
         /\ handlers'[h] # handlers[h]
         /\ \E r \in {handlers[h], handlers'[h]}:
              r.agent = a /\ r.op \in {"spawn", "restart", "register"}
    \/ DesktopSpawnsAlone(a)

StopInit == Init /\ stoppedByUser = [a \in Agents |-> FALSE]

StopNext ==
    /\ Next
    /\ stoppedByUser' = [a \in Agents |-> Stops(a) \/ (stoppedByUser[a] /\ ~Starts(a))]

StopSpec == StopInit /\ [][StopNext]_<<vars, stoppedByUser>>

------------------------------------------------------------------------------
\* backoff.ts:113-119: "the kill/stop route sets status='stopped' BEFORE tearing
\* down the PTY ... never resurrect an agent the user explicitly stopped".  A
\* crash restart never asks the desktop to spawn an agent the user has stopped.
StopIsHonoured ==
    [][\A h \in Handlers:
          /\ handlers[h].op = "crashRestart"
          /\ handlers[h].at = "boot"
          /\ handlers'[h].at = "spawning"
          => ~stoppedByUser[handlers[h].agent]
      ]_<<vars, stoppedByUser>>

==============================================================================
