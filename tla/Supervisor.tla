------------------------------- MODULE Supervisor -------------------------------
(***************************************************************************)
(* The autonomy supervisor (src/autonomy/supervisor.js and its routes in   *)
(* src/api/routes/autonomy.js): runs with a stop condition, unattended     *)
(* mode with its ping timer and its dead man's switch, and the pause and   *)
(* start events sent to the desktop's windows.                             *)
(*                                                                         *)
(* The autonomy state is kept in memory (agents/session_manager.js         *)
(* 419-429), so an await of it resumes before the next request or timer is *)
(* looked at: an action runs from one wait for I/O to the next.  The code  *)
(* waits for I/O in two places: the notify webhook of a stop, and the      *)
(* requests a ping makes (project, tasks, mail).  Early returns and errors *)
(* that change nothing (a start of a running run, a stop of none) are not  *)
(* actions.                                                                *)
(***************************************************************************)
EXTENDS Integers

CONSTANTS
    Starts,       \* concurrent POST /unattended/start requests
    PingBound,    \* pings waiting for their requests (model bound)
    PauseBound    \* stops waiting for their webhook (model bound)

ASSUME BoundsAssumption == PingBound \in Nat \ {0} /\ PauseBound \in Nat \ {0}

VARIABLES
    sup,      \* fields of the Supervisor object
    run,      \* the autonomy state of the storage
    starts,   \* startUnattended calls waiting for a webhook
    pings,    \* number of _sendPing calls waiting for their requests
    pausing,  \* number of stopUnattended calls waiting for the webhook
    clients,  \* is any SSE client connected (sseClientCount > 0)?
    told      \* the last unattended-* event the windows were sent

vars == <<sup, run, starts, pings, pausing, clients, told>>

StopReasons == {"none", "manual", "restart", "dead_mans_switch", "condition",
                "emergency"}

Sup == [unattendedMode : BOOLEAN,
        pingTimer      : BOOLEAN,
        pingConfig     : BOOLEAN,
        deadManTimer   : BOOLEAN,
        zeroSince      : {"none", "recent", "old"}]

Run == [enabled    : BOOLEAN,
        stopReason : StopReasons,
        hasLead    : BOOLEAN,
        webhook    : BOOLEAN,
        overdue    : BOOLEAN]     \* maxRuntimeHours have passed since startedAt

\* What startUnattended keeps across a wait: where it waits, and its config.
StartCall == [at      : {"none", "restarting", "clearing"},
              hasLead : BOOLEAN,
              webhook : BOOLEAN]

NoStart == [at |-> "none", hasLead |-> FALSE, webhook |-> FALSE]

Configs == {c \in StartCall : c.at = "none"}

TypeOK ==
    /\ sup \in Sup
    /\ run \in Run
    /\ starts \in [Starts -> StartCall]
    /\ pings \in 0..PingBound
    /\ pausing \in 0..PauseBound
    /\ clients \in BOOLEAN
    /\ told \in {"nothing", "started", "paused"}

Init ==
    /\ sup = [unattendedMode |-> FALSE, pingTimer |-> FALSE,
              pingConfig |-> FALSE, deadManTimer |-> FALSE, zeroSince |-> "none"]
    /\ run = [enabled |-> FALSE, stopReason |-> "none", hasLead |-> FALSE,
              webhook |-> FALSE, overdue |-> FALSE]
    /\ starts = [s \in Starts |-> NoStart]
    /\ pings = 0
    /\ pausing = 0
    /\ clients = FALSE
    /\ told = "nothing"

-----------------------------------------------------------------------------
(* Pieces of the handlers, as functions of the two records. *)

\* stopDeadManSwitch
StopDeadManKeepsClock(S) == [S EXCEPT !.deadManTimer = FALSE]   \* mutant
StopDeadMan(S) == [S EXCEPT !.deadManTimer = FALSE, !.zeroSince = "none"]

\* What stopUnattended and emergencyStop do before their first await.
QuietKeepsPings(S) ==                                           \* mutant
    [StopDeadMan(S) EXCEPT !.unattendedMode = FALSE, !.pingConfig = FALSE]
Quiet(S) ==
    [StopDeadMan(S) EXCEPT !.unattendedMode = FALSE, !.pingTimer = FALSE,
                           !.pingConfig = FALSE]

\* stop: the end of a run; without a run it throws and changes nothing.
Stopped(R, reason) ==
    IF R.enabled THEN [R EXCEPT !.enabled = FALSE, !.stopReason = reason] ELSE R

\* stop waits for the webhook of the run it ends.
Notifies(R) == R.enabled /\ R.webhook

\* start, called when no run is enabled.
Started(R, c) ==
    [R EXCEPT !.enabled = TRUE, !.stopReason = "none", !.webhook = c.webhook,
              !.overdue = FALSE]

\* startUnattended from `start` on: the run, the mode, the two timers, the
\* event and the first ping (which a run without a lead agent does not send).
\* startDeadManSwitch leaves a switch that is already running alone.
BeginUnattended(S, R, c) ==
    /\ c.hasLead => pings < PingBound
    /\ run' = [Started(R, c) EXCEPT !.hasLead = c.hasLead]
    /\ sup' = [S EXCEPT !.unattendedMode = TRUE, !.pingConfig = TRUE,
                        !.pingTimer = TRUE, !.deadManTimer = TRUE]
    /\ pings' = IF c.hasLead THEN pings + 1 ELSE pings
    /\ told' = "started"

\* startUnattended from its reading of the stored state on: a run it finds
\* enabled is stopped first, which may wait for that run's webhook.
ClearAndBegin(s, S, R, c) ==
    \/ /\ Notifies(R)
       /\ sup' = S
       /\ run' = Stopped(R, "restart")
       /\ starts' = [starts EXCEPT ![s] = [c EXCEPT !.at = "clearing"]]
       /\ UNCHANGED pings
    \/ /\ ~Notifies(R)
       /\ BeginUnattended(S, Stopped(R, "restart"), c)
       /\ starts' = [starts EXCEPT ![s] = NoStart]

\* stopUnattended: the mode, the timers and the run at once; the pause is
\* announced now, or after the webhook has answered.
StopRunOnly(reason) ==                                          \* mutant
    /\ run' = Stopped(run, reason)
    /\ UNCHANGED <<sup, pausing, told>>
StopUnattended(reason) ==
    /\ sup' = Quiet(sup)
    /\ run' = Stopped(run, reason)
    /\ IF Notifies(run)
       THEN /\ pausing < PauseBound
            /\ pausing' = pausing + 1
            /\ UNCHANGED told
       ELSE /\ told' = "paused"
            /\ UNCHANGED pausing

-----------------------------------------------------------------------------
(* The routes. *)

\* POST /autonomy/start
Start ==
    /\ ~run.enabled
    /\ \E c \in Configs : run' = Started(run, c)
    /\ UNCHANGED <<sup, starts, pings, pausing, clients, told>>

\* POST /autonomy/stop.  Nothing happens after its webhook.
Stop ==
    /\ run.enabled
    /\ run' = Stopped(run, "manual")
    /\ UNCHANGED <<sup, starts, pings, pausing, clients, told>>

\* POST /autonomy/unattended/start: an active mode is stopped first, which
\* may wait for the webhook.  (The pause it announces otherwise is followed
\* by the start's own event in the same action.)
UnattendedStart(s) ==
    /\ starts[s].at = "none"
    /\ \E c \in Configs :
         \/ /\ sup.unattendedMode
            /\ Notifies(run)
            /\ sup' = Quiet(sup)
            /\ run' = Stopped(run, "restart")
            /\ starts' = [starts EXCEPT ![s] = [c EXCEPT !.at = "restarting"]]
            /\ UNCHANGED <<pings, told>>
         \/ /\ sup.unattendedMode
            /\ ~Notifies(run)
            /\ BeginUnattended(Quiet(sup), Stopped(run, "restart"), c)
            /\ UNCHANGED starts
         \/ /\ ~sup.unattendedMode
            /\ ClearAndBegin(s, sup, run, c)
            /\ (Notifies(run) => UNCHANGED told)
    /\ UNCHANGED <<pausing, clients>>

\* The webhook of the restart's stopUnattended has answered or failed.
RestartResumes(s) ==
    /\ starts[s].at = "restarting"
    /\ ClearAndBegin(s, sup, run, [starts[s] EXCEPT !.at = "none"])
    /\ (Notifies(run) => told' = "paused")
    /\ UNCHANGED <<pausing, clients>>

\* The webhook of the clearing stop has answered or failed.  `start` throws
\* if another request has enabled a run meanwhile.
ClearingResumes(s) ==
    /\ starts[s].at = "clearing"
    /\ starts' = [starts EXCEPT ![s] = NoStart]
    /\ \/ /\ ~run.enabled
          /\ BeginUnattended(sup, run, [starts[s] EXCEPT !.at = "none"])
       \/ /\ run.enabled
          /\ UNCHANGED <<sup, run, pings, told>>
    /\ UNCHANGED <<pausing, clients>>

StartResumes(s) == RestartResumes(s) \/ ClearingResumes(s)

\* POST /autonomy/unattended/stop
UnattendedStop ==
    /\ StopUnattended("manual")
    /\ UNCHANGED <<starts, pings, clients>>

\* The webhook of a stop has answered or failed: the pause is announced.
PauseAnnouncedSilently ==                                       \* mutant
    /\ pausing > 0
    /\ pausing' = pausing - 1
    /\ UNCHANGED <<sup, run, starts, pings, clients, told>>
PauseAnnouncedTwice ==                                          \* mutant
    /\ pausing' = pausing - 1
    /\ told' = "paused"
    /\ UNCHANGED <<sup, run, starts, pings, clients>>
PauseAnnounced ==
    /\ pausing > 0
    /\ pausing' = pausing - 1
    /\ told' = "paused"
    /\ UNCHANGED <<sup, run, starts, pings, clients>>

\* POST /autonomy/unattended/emergency-stop
Running == sup.unattendedMode \/ run.enabled

EmergencyStop ==
    /\ Running
    /\ sup' = Quiet(sup)
    /\ run' = [run EXCEPT !.enabled = FALSE, !.stopReason = "emergency"]
    /\ told' = "paused"
    /\ UNCHANGED <<starts, pings, pausing, clients>>

-----------------------------------------------------------------------------
(* The timers. *)

\* _sendPing, called by the ping timer, up to its requests.
PingTimerFires ==
    /\ sup.pingTimer
    /\ sup.unattendedMode
    /\ sup.pingConfig
    /\ run.hasLead
    /\ pings < PingBound
    /\ pings' = pings + 1
    /\ UNCHANGED <<sup, run, starts, pausing, clients, told>>

\* checkStopConditions: the milestone (of the board just read), the runtime,
\* the memory.
MilestoneMet(met) == run.enabled /\ met                         \* mutant
ConditionsMet(met) ==
    /\ run.enabled
    /\ run.overdue \/ met

\* _sendPing after its mail: the tasks are read and the conditions checked.
PingChecks ==
    /\ pings > 0
    /\ pings' = pings - 1
    /\ \E met \in BOOLEAN :
         \/ /\ ConditionsMet(met)
            /\ StopUnattended("condition")
         \/ /\ ~ConditionsMet(met)
            /\ UNCHANGED <<sup, run, pausing, told>>
    /\ UNCHANGED <<starts, clients>>

\* _sendPing after its mail: the project or its tasks cannot be read.
PingFails ==
    /\ pings > 0
    /\ pings' = pings - 1
    /\ UNCHANGED <<sup, run, starts, pausing, clients, told>>

\* _checkDeadMan, called every ten seconds.
DeadManTickForgets ==                                           \* mutant
    /\ sup.deadManTimer
    /\ sup.unattendedMode
    /\ sup' = [sup EXCEPT !.zeroSince = IF clients THEN "none" ELSE "recent"]
    /\ UNCHANGED <<run, pausing, told>>
    /\ UNCHANGED <<starts, pings, clients>>
DeadManTick ==
    /\ sup.deadManTimer
    /\ sup.unattendedMode
    /\ \/ /\ clients
          /\ sup.zeroSince # "none"
          /\ sup' = [sup EXCEPT !.zeroSince = "none"]
          /\ UNCHANGED <<run, pausing, told>>
       \/ /\ ~clients
          /\ sup.zeroSince = "none"
          /\ sup' = [sup EXCEPT !.zeroSince = "recent"]
          /\ UNCHANGED <<run, pausing, told>>
       \/ /\ ~clients
          /\ sup.zeroSince = "old"
          /\ StopUnattended("dead_mans_switch")
    /\ UNCHANGED <<starts, pings, clients>>

-----------------------------------------------------------------------------
(* The environment. *)

\* deadManTimeoutMs have passed since zeroSince.
ZeroSinceAges ==
    /\ sup.zeroSince = "recent"
    /\ sup' = [sup EXCEPT !.zeroSince = "old"]
    /\ UNCHANGED <<run, starts, pings, pausing, clients, told>>

\* maxRuntimeHours have passed since startedAt.
RunBecomesOverdue ==
    /\ run.enabled
    /\ ~run.overdue
    /\ run' = [run EXCEPT !.overdue = TRUE]
    /\ UNCHANGED <<sup, starts, pings, pausing, clients, told>>

\* The first window connects, or the last one disconnects.
ClientsChange ==
    /\ clients' = ~clients
    /\ UNCHANGED <<sup, run, starts, pings, pausing, told>>

Next ==
    \/ Start \/ Stop \/ UnattendedStop \/ EmergencyStop
    \/ \E s \in Starts : UnattendedStart(s) \/ StartResumes(s)
    \/ PauseAnnounced
    \/ PingTimerFires \/ PingChecks \/ PingFails \/ DeadManTick
    \/ ZeroSinceAges \/ RunBecomesOverdue \/ ClientsChange

\* Timers fire and time passes.  A webhook answers or its fetch fails, and
\* that is strong fairness only because the model bounds the pings in flight.
\* The last conjunct is an assumption about the cloud: pings do not fail to
\* read the board for ever.
Fairness ==
    /\ WF_vars(PingTimerFires)
    /\ SF_vars(DeadManTick)
    /\ WF_vars(ZeroSinceAges)
    /\ WF_vars(PauseAnnounced)
    /\ \A s \in Starts : SF_vars(StartResumes(s))
    /\ SF_vars(PingChecks)

Spec == Init /\ [][Next]_vars /\ Fairness

-----------------------------------------------------------------------------
(* Properties. *)

\* The ping timer, its configuration and the dead man's switch exist exactly
\* while unattended mode is on, whichever stop, restart or emergency stop ran
\* last and whatever it overtook: no timer outlives its session, and no
\* session runs without its guards.
TimersMatchMode ==
    /\ sup.pingTimer = sup.unattendedMode
    /\ sup.pingConfig = sup.unattendedMode
    /\ sup.deadManTimer = sup.unattendedMode

\* The dead man's clock runs only while unattended mode is on.
ClockNeedsMode == sup.zeroSince # "none" => sup.unattendedMode

\* Start s begins its session: `start` has not thrown, and nothing is waited for.
Begins(s) ==
    /\ UnattendedStart(s) \/ StartResumes(s)
    /\ starts'[s] = NoStart
    /\ starts[s].at = "clearing" => ~run.enabled

\* startDeadManSwitch keeps a switch that is running, and with it the clock
\* (supervisor.js:33).  Even so a session begins with a clock that runs in one
\* case only: its start waited at a webhook and another start, whose session it
\* takes over, has switched the mode on meanwhile.  Every other session gets its
\* full timeout, whatever stops, emergency stops and restarts came before it.
\* (So "stop first then restart cleanly", supervisor.js:111, fails in that case only.)
ClockInheritedOnlyByOvertaken ==
    [][\A s \in Starts :
          Begins(s) /\ sup'.zeroSince # "none" =>
              starts[s].at # "none" /\ sup.unattendedMode]_vars

\* Windows that were last told that unattended mode has started, while it has
\* not, are about to be told: a call is waiting that announces the pause (or
\* the next start) when its webhook has answered.
PausesAreAnnounced ==
    told = "started" /\ ~sup.unattendedMode =>
        \/ pausing > 0
        \/ \E s \in Starts : starts[s].at = "restarting"

\* Unattended mode outlives the run it guards, and with it every stop
\* condition, in two cases only: POST /autonomy/stop ended the run, or a
\* restart is waiting for that run's webhook.
ModeOutsideRun ==
    sup.unattendedMode /\ ~run.enabled =>
        \/ run.stopReason = "manual"
        \/ \E s \in Starts : starts[s].at = "clearing"

\* An unattended run with a lead agent ends when its time is over: a ping
\* gets round to the stop conditions however many pings, stops and restarts
\* overlap.
StopConditionStops ==
    (sup.unattendedMode /\ run.enabled /\ run.hasLead /\ run.overdue)
        ~> ~(run.enabled /\ run.overdue)

\* Unattended mode without any window connected ends, unless the user restarts
\* it for ever: the dead man's switch is never disarmed, and its clock never
\* reset, by a restart it overlaps or by a stop of the run alone.
DeadManPauses ==
    <>[][~ \E s \in Starts : UnattendedStart(s)]_vars
        => ((sup.unattendedMode /\ ~clients) ~> (~sup.unattendedMode \/ clients))
=============================================================================
