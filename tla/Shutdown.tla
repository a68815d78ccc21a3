------------------------------- MODULE Shutdown -------------------------------
(***************************************************************************)
(* The end of the sidecar: src/api/lifecycle/shutdown.ts.                  *)
(*                                                                         *)
(* The first signal starts the sequence: stop the timers, notify the       *)
(* desktop (3 s), close the server, exit.  The server closes when its last *)
(* connection has, which an event stream does only when its window goes    *)
(* away; a force timer (10 s) ends the wait.  Requests are served all the  *)
(* time until then, and may arm a lifecycle timer when they are done.      *)
(***************************************************************************)
EXTENDS Integers

CONSTANTS
    ConnectionBound,  \* requests and event streams at a time (model bound)
    NotifyLimit,      \* 3000 ms, in ticks
    ForceLimit        \* SHUTDOWN_TIMEOUT_MS, in ticks

ASSUME ShutdownAssumption ==
    /\ ConnectionBound \in Nat
    /\ NotifyLimit \in Nat /\ ForceLimit \in Nat /\ NotifyLimit < ForceLimit

VARIABLES
    phase,    \* how far the sequence is
    clock,    \* ticks since the signal
    open,     \* requests in progress
    streams,  \* open event streams
    armed,    \* a lifecycle timer is armed
    code      \* the exit code

shutdownVars == <<phase, clock, open, streams, armed, code>>

Phases == {"up", "notifying", "closing", "exited"}

ShutdownTypeOK ==
    /\ phase \in Phases
    /\ clock \in 0..ForceLimit
    /\ open \in 0..ConnectionBound /\ streams \in 0..ConnectionBound
    /\ armed \in BOOLEAN
    /\ code \in {-1, 0, 1}

ShutdownInit ==
    /\ phase = "up" /\ clock = 0 /\ code = -1
    /\ open = 0 /\ streams = 0
    /\ armed = FALSE

-----------------------------------------------------------------------------
(* Connections, while there is a process. *)

Listening == phase \in {"up", "notifying"}

RequestArrives ==
    /\ Listening
    /\ open < ConnectionBound
    /\ open' = open + 1
    /\ UNCHANGED <<phase, clock, streams, armed, code>>

\* A request is done; a spawn or an exit report may leave a timer armed.
RequestDone ==
    /\ phase # "exited" /\ open > 0
    /\ open' = open - 1
    /\ armed' \in {armed, TRUE}
    /\ UNCHANGED <<phase, clock, streams, code>>

StreamOpens ==
    /\ Listening
    /\ streams < ConnectionBound
    /\ streams' = streams + 1
    /\ UNCHANGED <<phase, clock, open, armed, code>>

StreamCloses ==
    /\ phase # "exited" /\ streams > 0
    /\ streams' = streams - 1
    /\ UNCHANGED <<phase, clock, open, armed, code>>

TimerFires ==
    /\ phase # "exited" /\ armed
    /\ armed' = FALSE
    /\ UNCHANGED <<phase, clock, open, streams, code>>

-----------------------------------------------------------------------------
(* The sequence. *)

\* SIGTERM or SIGINT; another one is ignored.
Signal ==
    /\ phase = "up"
    /\ phase' = "notifying"
    /\ armed' = FALSE
    /\ UNCHANGED <<clock, open, streams, code>>

\* The desktop has answered, refused, or the notification is cut off.
Notified ==
    /\ phase = "notifying"
    /\ phase' = "closing"
    /\ UNCHANGED <<clock, open, streams, armed, code>>

Exits(c) == phase' = "exited" /\ code' = c /\ UNCHANGED <<clock, open, streams, armed>>

\* One of the stops throws: the rest of the sequence is left out.
StopThrows ==
    /\ phase = "up"
    /\ Exits(1)

ServerCloses ==
    /\ phase = "closing" /\ open = 0 /\ streams = 0
    /\ Exits(0)

ForceTimerLost == FALSE                                         \* mutant
ForceTimer == phase \in {"notifying", "closing"} /\ clock = ForceLimit

Forced == ForceTimer /\ Exits(1)

\* A tick, as far as the timers that are due let it pass.
Elapses ==
    /\ phase \in {"notifying", "closing"}
    /\ clock < IF phase = "notifying" THEN NotifyLimit ELSE ForceLimit
    /\ clock' = clock + 1
    /\ UNCHANGED <<phase, open, streams, armed, code>>

ShutdownNext ==
    \/ RequestArrives \/ RequestDone \/ StreamOpens \/ StreamCloses \/ TimerFires
    \/ Signal \/ StopThrows \/ Notified \/ ServerCloses \/ Forced \/ Elapses

\* Time passes, and the timers and callbacks that are due run.
ShutdownStep == Notified \/ ServerCloses \/ Forced \/ Elapses

ShutdownSpec == ShutdownInit /\ [][ShutdownNext]_shutdownVars /\ WF_shutdownVars(ShutdownStep)

-----------------------------------------------------------------------------
(* Properties. *)

\* "Force-exit after 10s if stalled": a signal ends the process, in whatever state
\* windows and desktop are; and with code 0 only when every request in progress
\* was answered first.
ShutdownEnds ==
    /\ phase # "up" ~> phase = "exited"
    /\ [](code = 0 => open = 0 /\ streams = 0)
=============================================================================
