---------------------------- MODULE Supervisor_proofs ----------------------------
(***************************************************************************)
(* The safety properties of the supervisor, for any number of concurrent   *)
(* starts, pings and stops.  They are inductive together.                  *)
(***************************************************************************)
EXTENDS EmergencyStop, TLAPS

\* The inductive invariant: the timers follow the mode, and what the mode,
\* the run and the windows disagree about is owed to a call that waits.
SupInv ==
    /\ TypeOK
    /\ TimersMatchMode
    /\ ClockNeedsMode
    /\ PausesAreAnnounced
    /\ ModeOutsideRun

IsOff(S) ==
    /\ ~S.unattendedMode /\ ~S.pingTimer /\ ~S.pingConfig /\ ~S.deadManTimer
    /\ S.zeroSince = "none"

\* The fields a stop leaves: everything is off.
LEMMA QuietIsOff ==
    ASSUME NEW S \in Sup
    PROVE  Quiet(S) \in Sup /\ IsOff(Quiet(S))
BY DEF Quiet, StopDeadMan, Sup, IsOff

\* The end of a run is a run that is not enabled; its reason changes only if
\* it was enabled.
LEMMA StoppedIsOff ==
    ASSUME NEW R \in Run, NEW reason \in StopReasons
    PROVE  /\ Stopped(R, reason) \in Run
           /\ ~Stopped(R, reason).enabled
           /\ ~R.enabled => Stopped(R, reason) = R
           /\ R.enabled => Stopped(R, reason).stopReason = reason
BY DEF Stopped, Run

\* A start enables the run.
LEMMA StartedIsOn ==
    ASSUME NEW R \in Run, NEW c \in StartCall
    PROVE  /\ Started(R, c) \in Run
           /\ Started(R, c).enabled
BY DEF Started, Run, StartCall, StopReasons

\* The supervisor after a start: everything on, the dead man's clock as it was.
LEMMA BeginIsOn ==
    ASSUME NEW S \in Sup, NEW R \in Run, NEW c \in StartCall, TypeOK,
           BeginUnattended(S, R, c)
    PROVE  /\ sup' \in Sup
           /\ sup'.unattendedMode /\ sup'.pingTimer
           /\ sup'.pingConfig /\ sup'.deadManTimer
           /\ run' \in Run
           /\ run'.enabled
           /\ pings' \in 0..PingBound
           /\ told' = "started"
<1>1. Started(R, c) \in Run /\ Started(R, c).enabled
  BY StartedIsOn
<1>2. run' \in Run /\ run'.enabled
  BY <1>1 DEF BeginUnattended, Run, StartCall
<1>3. /\ sup' \in Sup
      /\ sup'.unattendedMode /\ sup'.pingTimer
      /\ sup'.pingConfig /\ sup'.deadManTimer
  BY DEF BeginUnattended, Sup
<1>4. pings' \in 0..PingBound
  BY BoundsAssumption DEF BeginUnattended, TypeOK
<1>5. told' = "started"
  BY DEF BeginUnattended
<1> QED BY <1>2, <1>3, <1>4, <1>5

\* stopUnattended, called by a request, a ping or the dead man's switch.
LEMMA StopUnattendedKeeps ==
    ASSUME SupInv, NEW reason \in StopReasons, StopUnattended(reason),
           starts' = starts, pings' \in 0..PingBound, clients' = clients
    PROVE  SupInv'
<1>1. sup \in Sup /\ run \in Run /\ pausing \in Nat
  BY BoundsAssumption DEF SupInv, TypeOK
<1>2. sup' \in Sup /\ IsOff(sup')
  BY <1>1, QuietIsOff DEF StopUnattended
<1>3. run' \in Run
  BY <1>1, StoppedIsOff DEF StopUnattended
<1>4. /\ pausing' \in 0..PauseBound
      /\ told' \in {"nothing", "started", "paused"}
      /\ told' = "started" => pausing' > 0
  BY BoundsAssumption DEF StopUnattended, SupInv, TypeOK
<1>5. TypeOK'
  BY <1>2, <1>3, <1>4 DEF SupInv, TypeOK
<1>6. TimersMatchMode' /\ ClockNeedsMode' /\ ModeOutsideRun'
  BY <1>2 DEF Sup, IsOff, TimersMatchMode, ClockNeedsMode, ModeOutsideRun
<1>7. PausesAreAnnounced'
  BY <1>4 DEF PausesAreAnnounced
<1> QED BY <1>5, <1>6, <1>7 DEF SupInv

\* startUnattended from its reading of the stored state on.
LEMMA ClearAndBeginKeeps ==
    ASSUME SupInv, NEW s \in Starts, NEW c \in Configs,
           ClearAndBegin(s, sup, run, c),
           Notifies(run) => \/ told' = told /\ starts[s].at # "restarting"
                            \/ told' = "paused",
           pausing' = pausing, clients' = clients
    PROVE  SupInv'
<1>1. /\ sup \in Sup /\ run \in Run /\ c \in StartCall
      /\ starts \in [Starts -> StartCall]
  BY DEF SupInv, TypeOK, Configs
<1>2. CASE Notifies(run)
  <2>1. /\ sup' = sup
        /\ run' = Stopped(run, "restart")
        /\ starts' = [starts EXCEPT ![s] = [c EXCEPT !.at = "clearing"]]
        /\ pings' = pings
    BY <1>2 DEF ClearAndBegin
  <2>2. run' \in Run
    BY <1>1, <2>1, StoppedIsOff DEF StopReasons
  <2>3. [c EXCEPT !.at = "clearing"] \in StartCall
    BY <1>1 DEF StartCall
  <2>4. /\ starts' \in [Starts -> StartCall]
        /\ starts'[s].at = "clearing"
        /\ \A t \in Starts \ {s} : starts'[t] = starts[t]
    BY <1>1, <2>1, <2>3 DEF StartCall
  <2>5. TypeOK'
    BY <1>2, <2>1, <2>2, <2>4 DEF SupInv, TypeOK
  <2>6. TimersMatchMode' /\ ClockNeedsMode'
    BY <2>1 DEF SupInv, TimersMatchMode, ClockNeedsMode
  <2>7. ModeOutsideRun'
    BY <2>4 DEF ModeOutsideRun
  <2>8. PausesAreAnnounced'
    <3>1. CASE told' = "paused"
      BY <3>1 DEF PausesAreAnnounced
    <3>2. CASE told' = told /\ starts[s].at # "restarting"
      BY <2>1, <2>4, <3>2 DEF SupInv, PausesAreAnnounced
    <3> QED BY <1>2, <3>1, <3>2
  <2> QED BY <2>5, <2>6, <2>7, <2>8 DEF SupInv
<1>3. CASE ~Notifies(run)
  <2>1. /\ BeginUnattended(sup, Stopped(run, "restart"), c)
        /\ starts' = [starts EXCEPT ![s] = NoStart]
    BY <1>3 DEF ClearAndBegin
  <2>2. Stopped(run, "restart") \in Run
    BY <1>1, StoppedIsOff DEF StopReasons
  <2>3. /\ sup' \in Sup
        /\ sup'.unattendedMode /\ sup'.pingTimer
        /\ sup'.pingConfig /\ sup'.deadManTimer
        /\ run' \in Run
        /\ run'.enabled
        /\ pings' \in 0..PingBound
        /\ told' = "started"
    BY <1>1, <2>1, <2>2, BeginIsOn DEF SupInv
  <2>4. starts' \in [Starts -> StartCall]
    BY <1>1, <2>1 DEF NoStart, StartCall
  <2>5. TypeOK'
    BY <2>3, <2>4 DEF SupInv, TypeOK
  <2> QED BY <2>3, <2>5
        DEF SupInv, Sup, TimersMatchMode, ClockNeedsMode, PausesAreAnnounced,
            ModeOutsideRun
<1> QED BY <1>2, <1>3

LEMMA InitHolds == Init => SupInv
<1> SUFFICES ASSUME Init PROVE SupInv
  OBVIOUS
<1>1. sup \in Sup /\ run \in Run
  BY DEF Init, Sup, Run, StopReasons
<1>2. starts \in [Starts -> StartCall]
  BY DEF Init, NoStart, StartCall
<1>3. pings \in 0..PingBound /\ pausing \in 0..PauseBound
  BY BoundsAssumption DEF Init
<1>4. TypeOK
  BY <1>1, <1>2, <1>3 DEF Init, TypeOK
<1> QED BY <1>4
   DEF Init, SupInv, TimersMatchMode, ClockNeedsMode, PausesAreAnnounced,
       ModeOutsideRun

\* POST /autonomy/unattended/start.
LEMMA UnattendedStartKeeps ==
    ASSUME SupInv, NEW s \in Starts, UnattendedStart(s)
    PROVE  SupInv'
<1>1. /\ sup \in Sup /\ run \in Run /\ starts \in [Starts -> StartCall]
      /\ pausing' = pausing /\ clients' = clients /\ starts[s].at = "none"
  BY DEF SupInv, TypeOK, UnattendedStart
<1>2. Quiet(sup) \in Sup /\ IsOff(Quiet(sup))
  BY <1>1, QuietIsOff
<1>3. Stopped(run, "restart") \in Run
  BY <1>1, StoppedIsOff DEF StopReasons
<1>4. PICK c \in Configs :
         \/ /\ Notifies(run)
            /\ sup' = Quiet(sup)
            /\ run' = Stopped(run, "restart")
            /\ starts' = [starts EXCEPT ![s] = [c EXCEPT !.at = "restarting"]]
            /\ UNCHANGED <<pings, told>>
         \/ /\ BeginUnattended(Quiet(sup), Stopped(run, "restart"), c)
            /\ UNCHANGED starts
         \/ /\ ClearAndBegin(s, sup, run, c)
            /\ (Notifies(run) => UNCHANGED told)
  BY DEF UnattendedStart
<1>5. c \in StartCall
  BY DEF Configs
<1>6. CASE /\ Notifies(run)
           /\ sup' = Quiet(sup)
           /\ run' = Stopped(run, "restart")
           /\ starts' = [starts EXCEPT ![s] = [c EXCEPT !.at = "restarting"]]
           /\ UNCHANGED <<pings, told>>
  <2>1. /\ starts' \in [Starts -> StartCall]
        /\ starts'[s].at = "restarting"
    BY <1>1, <1>5, <1>6 DEF StartCall
  <2>2. sup' \in Sup /\ ~sup'.unattendedMode
    BY <1>2, <1>6 DEF IsOff
  <2>3. TypeOK'
    BY <1>1, <1>3, <1>6, <2>1, <2>2 DEF SupInv, TypeOK
  <2>4. TimersMatchMode' /\ ClockNeedsMode' /\ ModeOutsideRun'
    BY <1>2, <1>6 DEF Sup, IsOff, TimersMatchMode, ClockNeedsMode, ModeOutsideRun
  <2>5. PausesAreAnnounced'
    BY <2>1 DEF PausesAreAnnounced
  <2> QED BY <2>3, <2>4, <2>5 DEF SupInv
<1>7. CASE /\ BeginUnattended(Quiet(sup), Stopped(run, "restart"), c)
           /\ UNCHANGED starts
  <2>1. Quiet(sup) \in Sup
    BY <1>2
  <2>2. /\ sup' \in Sup
        /\ sup'.unattendedMode /\ sup'.pingTimer
        /\ sup'.pingConfig /\ sup'.deadManTimer
        /\ run' \in Run
        /\ run'.enabled
        /\ pings' \in 0..PingBound
        /\ told' = "started"
    BY <1>3, <1>5, <1>7, <2>1, BeginIsOn DEF SupInv
  <2>3. TypeOK'
    BY <1>1, <1>7, <2>2 DEF SupInv, TypeOK
  <2> QED BY <2>2, <2>3
        DEF SupInv, Sup, TimersMatchMode, ClockNeedsMode, PausesAreAnnounced,
            ModeOutsideRun
<1>8. CASE ClearAndBegin(s, sup, run, c) /\ (Notifies(run) => UNCHANGED told)
  BY <1>1, <1>8, ClearAndBeginKeeps
<1> QED BY <1>4, <1>6, <1>7, <1>8

\* startUnattended after the webhook of the clearing stop.
LEMMA ClearingKeeps ==
    ASSUME SupInv, NEW s \in Starts, ClearingResumes(s)
    PROVE  SupInv'
<1>1. /\ sup \in Sup /\ run \in Run /\ starts \in [Starts -> StartCall]
      /\ starts' = [starts EXCEPT ![s] = NoStart]
      /\ starts[s].at = "clearing"
      /\ pausing' = pausing /\ clients' = clients
  BY DEF SupInv, TypeOK, ClearingResumes
<1>2. /\ starts' \in [Starts -> StartCall]
      /\ \A t \in Starts \ {s} : starts'[t] = starts[t]
  BY <1>1 DEF NoStart, StartCall
<1>3. CASE run.enabled
  <2>1. UNCHANGED <<sup, run, pings, told>>
    BY <1>3 DEF ClearingResumes
  <2>2. TypeOK'
    BY <1>1, <1>2, <2>1 DEF SupInv, TypeOK
  <2>3. PausesAreAnnounced'
    BY <1>1, <1>2, <2>1 DEF SupInv, PausesAreAnnounced
  <2> QED BY <1>3, <2>1, <2>2, <2>3
        DEF SupInv, TimersMatchMode, ClockNeedsMode, ModeOutsideRun
<1>4. CASE ~run.enabled
  <2> DEFINE c == [starts[s] EXCEPT !.at = "none"]
  <2>1. BeginUnattended(sup, run, c)
    BY <1>4 DEF ClearingResumes
  <2>2. c \in StartCall
    BY <1>1 DEF StartCall
  <2>3. /\ sup' \in Sup
        /\ sup'.unattendedMode /\ sup'.pingTimer
        /\ sup'.pingConfig /\ sup'.deadManTimer
        /\ run' \in Run
        /\ run'.enabled
        /\ pings' \in 0..PingBound
        /\ told' = "started"
    <3> HIDE DEF c
    <3> QED BY <1>1, <2>1, <2>2, BeginIsOn DEF SupInv
  <2>4. TypeOK'
    BY <1>1, <1>2, <2>3 DEF SupInv, TypeOK
  <2> QED BY <2>3, <2>4
        DEF SupInv, Sup, TimersMatchMode, ClockNeedsMode, PausesAreAnnounced,
            ModeOutsideRun
<1> QED BY <1>3, <1>4

\* Every step keeps the invariant.
LEMMA StepKeeps == SupInv /\ [Next]_vars => SupInv'
<1> SUFFICES ASSUME SupInv, [Next]_vars PROVE SupInv'
  OBVIOUS
<1> USE DEF SupInv
<1>0. /\ sup \in Sup /\ run \in Run /\ starts \in [Starts -> StartCall]
      /\ pings \in Nat /\ pausing \in Nat
      /\ "manual" \in StopReasons /\ "condition" \in StopReasons
      /\ "dead_mans_switch" \in StopReasons /\ "emergency" \in StopReasons
  BY BoundsAssumption DEF TypeOK, StopReasons
<1>1. CASE Start
  <2>1. PICK c \in Configs : run' = Started(run, c)
    BY <1>1 DEF Start
  <2>2. run' \in Run /\ run'.enabled
    BY <1>0, <2>1, StartedIsOn DEF Configs
  <2>3. UNCHANGED <<sup, starts, pings, pausing, clients, told>>
    BY <1>1 DEF Start
  <2> QED BY <2>2, <2>3
        DEF TypeOK, TimersMatchMode, ClockNeedsMode, PausesAreAnnounced,
            ModeOutsideRun
<1>2. CASE Stop
  <2>1. run' \in Run /\ run'.stopReason = "manual"
    BY <1>0, <1>2, StoppedIsOff DEF Stop
  <2>2. UNCHANGED <<sup, starts, pings, pausing, clients, told>>
    BY <1>2 DEF Stop
  <2> QED BY <2>1, <2>2
        DEF TypeOK, TimersMatchMode, ClockNeedsMode, PausesAreAnnounced,
            ModeOutsideRun
<1>3. CASE UnattendedStop
  BY <1>0, <1>3, StopUnattendedKeeps DEF UnattendedStop, TypeOK
<1>4. CASE EmergencyStop
  <2>1. sup' \in Sup /\ IsOff(sup')
    BY <1>0, <1>4, QuietIsOff DEF EmergencyStop
  <2>2. run' \in Run
    BY <1>0, <1>4 DEF EmergencyStop, Run
  <2>3. UNCHANGED <<starts, pings, pausing, clients>> /\ told' = "paused"
    BY <1>4 DEF EmergencyStop
  <2> QED BY <2>1, <2>2, <2>3
        DEF TypeOK, Sup, IsOff, TimersMatchMode, ClockNeedsMode, PausesAreAnnounced,
            ModeOutsideRun
<1>5. CASE \E s \in Starts : UnattendedStart(s)
  BY <1>5, UnattendedStartKeeps
<1>6. CASE \E s \in Starts : StartResumes(s)
  <2>1. PICK s \in Starts : StartResumes(s)
    BY <1>6
  <2>2. CASE RestartResumes(s)
    <3> DEFINE c == [starts[s] EXCEPT !.at = "none"]
    <3>1. c \in Configs
      BY <1>0 DEF Configs, StartCall
    <3>2. /\ ClearAndBegin(s, sup, run, c)
          /\ Notifies(run) => told' = "paused"
          /\ pausing' = pausing /\ clients' = clients
      BY <2>2 DEF RestartResumes
    <3> HIDE DEF c
    <3> QED BY <3>1, <3>2, ClearAndBeginKeeps
  <2>3. CASE ClearingResumes(s)
    BY <2>3, ClearingKeeps
  <2> QED BY <2>1, <2>2, <2>3 DEF StartResumes
<1>7. CASE PauseAnnounced
  <2>1. pausing' \in 0..PauseBound
    BY <1>7, BoundsAssumption DEF PauseAnnounced, TypeOK
  <2>2. UNCHANGED <<sup, run, starts, pings, clients>> /\ told' = "paused"
    BY <1>7 DEF PauseAnnounced
  <2> QED BY <2>1, <2>2
        DEF TypeOK, TimersMatchMode, ClockNeedsMode, PausesAreAnnounced,
            ModeOutsideRun
<1>8. CASE PingTimerFires
  <2>1. pings' \in 0..PingBound
    BY <1>8, BoundsAssumption DEF PingTimerFires, TypeOK
  <2>2. UNCHANGED <<sup, run, starts, pausing, clients, told>>
    BY <1>8 DEF PingTimerFires
  <2> QED BY <2>1, <2>2
        DEF TypeOK, TimersMatchMode, ClockNeedsMode, PausesAreAnnounced,
            ModeOutsideRun
<1>9. CASE PingChecks
  <2>1. pings' \in 0..PingBound /\ starts' = starts /\ clients' = clients
    BY <1>0, <1>9, BoundsAssumption DEF PingChecks, TypeOK
  <2>2. CASE StopUnattended("condition")
    BY <1>0, <2>1, <2>2, StopUnattendedKeeps
  <2>3. CASE UNCHANGED <<sup, run, pausing, told>>
    BY <2>1, <2>3
       DEF TypeOK, TimersMatchMode, ClockNeedsMode, PausesAreAnnounced,
           ModeOutsideRun
  <2> QED BY <1>9, <2>2, <2>3 DEF PingChecks
<1>10. CASE PingFails
  BY <1>0, <1>10, BoundsAssumption
     DEF PingFails, TypeOK, TimersMatchMode, ClockNeedsMode,
         PausesAreAnnounced, ModeOutsideRun
<1>11. CASE DeadManTick
  <2>1. UNCHANGED <<starts, pings, clients>> /\ sup.unattendedMode
    BY <1>11 DEF DeadManTick
  <2>2. CASE StopUnattended("dead_mans_switch")
    BY <1>0, <2>1, <2>2, StopUnattendedKeeps DEF TypeOK
  <2>3. ASSUME NEW z \in {"none", "recent"},
               sup' = [sup EXCEPT !.zeroSince = z],
               UNCHANGED <<run, pausing, told>>
        PROVE  SupInv'
    BY <1>0, <2>1, <2>3
       DEF TypeOK, Sup, TimersMatchMode, ClockNeedsMode, PausesAreAnnounced,
           ModeOutsideRun
  <2> QED BY <1>11, <2>2, <2>3 DEF DeadManTick
<1>12. CASE ZeroSinceAges
  BY <1>0, <1>12
     DEF ZeroSinceAges, TypeOK, Sup, TimersMatchMode, ClockNeedsMode,
         PausesAreAnnounced, ModeOutsideRun
<1>13. CASE RunBecomesOverdue
  BY <1>0, <1>13
     DEF RunBecomesOverdue, TypeOK, Run, TimersMatchMode, ClockNeedsMode,
         PausesAreAnnounced, ModeOutsideRun
<1>14. CASE ClientsChange
  BY <1>14
     DEF ClientsChange, TypeOK, TimersMatchMode, ClockNeedsMode,
         PausesAreAnnounced, ModeOutsideRun
<1>15. CASE UNCHANGED vars
  BY <1>15
     DEF vars, TypeOK, TimersMatchMode, ClockNeedsMode, PausesAreAnnounced,
         ModeOutsideRun
<1> QED BY <1>1, <1>2, <1>3, <1>4, <1>5, <1>6, <1>7, <1>8, <1>9, <1>10, <1>11,
           <1>12, <1>13, <1>14, <1>15 DEF Next

-----------------------------------------------------------------------------
\* The invariant of supervisor.js: it holds in every reachable state, for any
\* number of concurrent starts, pings and stops.
THEOREM Invariance == Spec => []SupInv
<1>1. Init => SupInv
  BY InitHolds
<1>2. SupInv /\ [Next]_vars => SupInv'
  BY StepKeeps
<1> QED BY <1>1, <1>2, PTL DEF Spec

\* Every variable of the supervisor keeps its type.
THEOREM TypeCorrect == Spec => []TypeOK
<1>1. SupInv => TypeOK
  BY DEF SupInv
<1> QED BY <1>1, Invariance, PTL

\* The ping timer, its configuration and the dead man's switch of
\* supervisor.js exist exactly while unattended mode is on.
THEOREM TimersCorrect == Spec => []TimersMatchMode
<1>1. SupInv => TimersMatchMode
  BY DEF SupInv
<1> QED BY <1>1, Invariance, PTL

\* A session begins with the dead man's clock running only if its start has
\* waited, and finds the session of another start on.
THEOREM DeadManCorrect == Spec => ClockInheritedOnlyByOvertaken
<1>1. ASSUME SupInv, NEW s \in Starts, Begins(s), sup'.zeroSince # "none"
      PROVE  starts[s].at # "none" /\ sup.unattendedMode
  <2>1. /\ sup \in Sup /\ starts \in [Starts -> StartCall]
        /\ sup.zeroSince # "none" => sup.unattendedMode
    BY <1>1 DEF SupInv, TypeOK, ClockNeedsMode
  <2>2. starts'[s].at = "none"
    BY <1>1 DEF Begins, NoStart
  <2>3. ASSUME NEW S \in Sup, NEW R, NEW c, BeginUnattended(S, R, c)
        PROVE  S.zeroSince # "none"
    BY <1>1, <2>3 DEF BeginUnattended, Sup
  <2>4. ASSUME NEW c, ClearAndBegin(s, sup, run, c)
        PROVE  sup.unattendedMode
    BY <1>1, <2>1, <2>3, <2>4 DEF ClearAndBegin
  <2>5. CASE UnattendedStart(s)
    <3>1. PICK c \in Configs :
             \/ starts' = [starts EXCEPT ![s] = [c EXCEPT !.at = "restarting"]]
             \/ BeginUnattended(Quiet(sup), Stopped(run, "restart"), c)
             \/ ~sup.unattendedMode /\ ClearAndBegin(s, sup, run, c)
      BY <2>5 DEF UnattendedStart
    <3>2. starts' # [starts EXCEPT ![s] = [c EXCEPT !.at = "restarting"]]
      BY <2>1, <2>2 DEF Configs, StartCall
    <3>3. ~BeginUnattended(Quiet(sup), Stopped(run, "restart"), c)
      BY <2>1, <2>3, QuietIsOff DEF IsOff
    <3> QED BY <2>4, <3>1, <3>2, <3>3
  <2>6. CASE RestartResumes(s)
    BY <2>4, <2>6 DEF RestartResumes
  <2>7. CASE ClearingResumes(s)
    <3>1. starts[s].at = "clearing" /\ ~run.enabled
      BY <1>1, <2>7 DEF Begins, ClearingResumes
    <3>2. BeginUnattended(sup, run, [starts[s] EXCEPT !.at = "none"])
      BY <2>7, <3>1 DEF ClearingResumes
    <3> QED BY <2>1, <2>3, <3>1, <3>2
  <2> QED BY <1>1, <2>5, <2>6, <2>7 DEF Begins, StartResumes
<1>2. SupInv /\ [Next]_vars =>
        [\A s \in Starts : Begins(s) /\ sup'.zeroSince # "none" =>
            starts[s].at # "none" /\ sup.unattendedMode]_vars
  BY <1>1
<1> QED BY <1>2, Invariance, PTL DEF Spec, ClockInheritedOnlyByOvertaken

\* Windows that were told of a session that is over are owed a pause by a
\* call that waits for its webhook.
THEOREM PausesCorrect == Spec => []PausesAreAnnounced
<1>1. SupInv => PausesAreAnnounced
  BY DEF SupInv
<1> QED BY <1>1, Invariance, PTL

\* Unattended mode outlives its run only after POST /autonomy/stop or while a
\* restart waits for the run's webhook.
THEOREM ModeCorrect == Spec => []ModeOutsideRun
<1>1. SupInv => ModeOutsideRun
  BY DEF SupInv
<1> QED BY <1>1, Invariance, PTL

-----------------------------------------------------------------------------
(* Emergency stops. *)

\* The history changes nothing of what the supervisor does.
LEMMA HaltIsSupervisor == HSpec => []SupInv
<1>1. HInit => SupInv
  BY InitHolds DEF HInit
<1>2. SupInv /\ [HNext]_hvars => SupInv'
  <2> SUFFICES ASSUME SupInv, [HNext]_hvars PROVE SupInv'
    OBVIOUS
  <2>1. [Next]_vars
    BY DEF HNext, Next, hvars, HaltRequest, EmergencyStopIdle, StartRequest
  <2> QED BY <2>1, StepKeeps
<1> QED BY <1>1, <1>2, PTL DEF HSpec

\* At rest, only a request for a start ends the rest.
LEMMA RestKeeps ==
    ASSUME TypeOK, AtRest, [HNext]_hvars, halted, halted'
    PROVE  AtRest'
<1> USE DEF AtRest, Running
<1>1. sup \in Sup /\ run \in Run
  BY DEF TypeOK
<1>2. ASSUME NEW reason \in StopReasons, StopUnattended(reason), starts' = starts
      PROVE  AtRest'
  <2>1. IsOff(sup')
    BY <1>1, <1>2, QuietIsOff DEF StopUnattended
  <2>2. ~run'.enabled
    BY <1>1, <1>2, StoppedIsOff DEF StopUnattended
  <2> QED BY <1>2, <2>1, <2>2 DEF IsOff
<1>3. CASE HaltRequest
  <2>1. ~EmergencyStop
    BY DEF EmergencyStop
  <2> QED BY <1>3, <2>1 DEF HaltRequest, EmergencyStopIdle, vars
<1>4. ~StartRequest
  BY DEF StartRequest
<1>5. ~Stop /\ ~PingTimerFires /\ ~DeadManTick /\ ~RunBecomesOverdue
  BY DEF Stop, PingTimerFires, DeadManTick, RunBecomesOverdue
<1>6. \A s \in Starts : ~StartResumes(s)
  BY DEF StartResumes, RestartResumes, ClearingResumes
<1>7. CASE UnattendedStop
  BY <1>2, <1>7 DEF UnattendedStop, StopReasons
<1>8. CASE PingChecks
  <2>1. starts' = starts
    BY <1>8 DEF PingChecks
  <2>2. CASE StopUnattended("condition")
    BY <1>2, <2>1, <2>2 DEF StopReasons
  <2> QED BY <1>8, <2>1, <2>2 DEF PingChecks
<1>9. CASE PauseAnnounced \/ PingFails \/ ClientsChange
  BY <1>9 DEF PauseAnnounced, PingFails, ClientsChange
<1>10. CASE ZeroSinceAges
  BY <1>1, <1>10 DEF ZeroSinceAges, Sup
<1>11. CASE UNCHANGED hvars
  BY <1>11 DEF hvars, vars
<1> QED BY <1>3, <1>4, <1>5, <1>6, <1>7, <1>8, <1>9, <1>10, <1>11 DEF HNext

\* An emergency stop that overtakes no suspended start holds until somebody
\* asks for a start: what emergencyStop promises, short of its finding.
THEOREM QuietEmergencyStopCorrect == HSpec => QuietEmergencyStopHolds
<1>1. ASSUME SupInv, HaltRequest, \A s \in Starts : starts[s].at = "none"
      PROVE  AtRest'
  <2>1. sup \in Sup /\ run \in Run
    BY <1>1 DEF SupInv, TypeOK
  <2>2. CASE EmergencyStop
    <3>1. IsOff(sup')
      BY <2>1, <2>2, QuietIsOff DEF EmergencyStop
    <3>2. ~run'.enabled /\ starts' = starts
      BY <2>1, <2>2 DEF EmergencyStop, Run
    <3> QED BY <1>1, <3>1, <3>2 DEF AtRest, Running, IsOff
  <2>3. CASE EmergencyStopIdle
    BY <1>1, <2>3 DEF EmergencyStopIdle, AtRest, Running, vars
  <2> QED BY <1>1, <2>2, <2>3 DEF HaltRequest
<1>2. ASSUME SupInv, [HNext]_hvars, halted, AtRest, halted'
      PROVE  AtRest'
  BY <1>2, RestKeeps DEF SupInv
<1>3. SupInv /\ [HNext]_hvars =>
        [/\ HaltRequest /\ (\A s \in Starts : starts[s].at = "none") => AtRest'
         /\ halted /\ AtRest /\ halted' => AtRest']_hvars
  BY <1>1, <1>2
<1> QED BY <1>3, HaltIsSupervisor, PTL DEF HSpec, QuietEmergencyStopHolds
=============================================================================
