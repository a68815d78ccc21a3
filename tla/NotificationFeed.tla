--------------------------- MODULE NotificationFeed ---------------------------
(***************************************************************************)
(* What api/sse/upstreamSignalRManager.ts promises the windows, without    *)
(* connections, timers and the hub: mail notifications come for exactly    *)
(* the agents tracked now or for none, a refresh or a stop cuts them off   *)
(* at once, and after a stop they come back before the next refresh only   *)
(* through an attempt that was waiting for its token when the manager was  *)
(* stopped.  UpstreamSubscriptions is shown to implement this module.      *)
(***************************************************************************)

CONSTANT Agents

VARIABLES
    running,   \* the manager has been started and not stopped since
    tracked,   \* the agents of the last start
    feeds,     \* the lists of agents the hub sends notifications for
    late       \* an attempt has survived the stop, or what came of it has

vars == <<running, tracked, feeds, late>>

Init ==
    /\ tracked \in SUBSET Agents
    /\ running = (tracked # {})
    /\ feeds = {}
    /\ late = FALSE

Refreshes(A) ==
    /\ running' = TRUE /\ tracked' = A
    /\ feeds' = {}
    /\ late' = FALSE

\* Only a stop of a running manager can leave an attempt behind.
Stops ==
    /\ running' = FALSE
    /\ feeds' = {}
    /\ late' \in BOOLEAN
    /\ late' => late \/ running
    /\ UNCHANGED tracked

Subscribes ==
    /\ running \/ late
    /\ feeds = {}
    /\ feeds' = {tracked}
    /\ UNCHANGED <<running, tracked, late>>

\* The connection is lost or closed, or a late attempt comes to nothing.
Drops ==
    /\ feeds' = {}
    /\ late' \in {late, FALSE}
    /\ UNCHANGED <<running, tracked>>

Next ==
    \/ \E A \in SUBSET Agents \ {{}} : Refreshes(A)
    \/ Stops \/ Subscribes \/ Drops

Spec == Init /\ [][Next]_vars
==============================================================================
