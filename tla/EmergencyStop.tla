----------------------------- MODULE EmergencyStop -----------------------------
(***************************************************************************)
(* What an emergency stop promises (src/autonomy/supervisor.js 240-243:    *)
(* "Emergency hard stop - immediate kill"), observed on the supervisor: a  *)
(* history variable remembers that one was answered and that nobody has    *)
(* asked for a start since.                                                *)
(***************************************************************************)
EXTENDS Supervisor

VARIABLE halted    \* an emergency stop was answered, and no start requested since

hvars == <<vars, halted>>

HInit == Init /\ halted = FALSE

\* POST /autonomy/unattended/emergency-stop when it finds nothing running: it
\* answers not_running and changes nothing.
EmergencyStopIdle ==
    /\ ~Running
    /\ UNCHANGED vars

HaltRequest ==
    /\ EmergencyStop \/ EmergencyStopIdle
    /\ halted' = TRUE

StartRequest ==
    /\ Start \/ \E s \in Starts : UnattendedStart(s)
    /\ halted' = FALSE

HNext ==
    \/ HaltRequest
    \/ StartRequest
    \/ /\ \/ Stop \/ UnattendedStop \/ PauseAnnounced
          \/ \E s \in Starts : StartResumes(s)
          \/ PingTimerFires \/ PingChecks \/ PingFails \/ DeadManTick
          \/ ZeroSinceAges \/ RunBecomesOverdue \/ ClientsChange
       /\ UNCHANGED halted

HSpec == HInit /\ [][HNext]_hvars

\* After an emergency stop, unattended mode is off until somebody asks for it
\* again.  (Refuted: a restart waiting for the webhook of the session it has
\* stopped is neither seen nor cancelled by the emergency stop, which finds
\* nothing running, and switches the mode on when the webhook answers.)
EmergencyStopHolds == halted => ~sup.unattendedMode

\* Nothing runs, and no start waits to go on.
AtRest ==
    /\ ~Running
    /\ \A s \in Starts : starts[s].at = "none"

\* The other half of that finding: nothing but such a start can undo an
\* emergency stop.  One that is answered while no start waits leaves the
\* supervisor at rest, and at rest it stays, whatever pings, webhooks and
\* timers are still to come, until somebody asks for a start.
QuietEmergencyStopHolds ==
    [][/\ HaltRequest /\ (\A s \in Starts : starts[s].at = "none") => AtRest'
       /\ halted /\ AtRest /\ halted' => AtRest']_hvars
=============================================================================
