---------------------------- MODULE AgentLifecycle ----------------------------
(***************************************************************************)
(* Agent lifecycle of the ACP sidecar: the per-agent state of              *)
(* BackoffManager (api/lifecycle/backoff.ts), the spawn, kill and restart  *)
(* routes (api/routes/agentLifecycle.ts), the crash restart timer          *)
(* (api/lifecycle/crashRestart.ts), the exit and health callbacks          *)
(* (api/lifecycle/healthMonitor.ts) and the internal PTY routes of         *)
(* api/server.js.  The desktop (Electron), which owns the terminals, is    *)
(* the environment.                                                        *)
(*                                                                         *)
(* The sidecar is one Node process: code between two awaits is atomic, and *)
(* everything else may run at an await.  A handler or a timer body is a    *)
(* record in handlers, and each action is one such atomic segment.         *)
(***************************************************************************)
EXTENDS Naturals, FiniteSets

CONSTANTS
    Agents,                  \* agent names
    Projects,                \* project ids a spawn may name
    Terminals,               \* terminal ids the desktop hands out
    Handlers,                \* slots for requests and timer bodies in flight
    None,                    \* null: no terminal, no project, no operation
    MaxConsecutiveCrashes,   \* 5 in the code
    CrashBound,              \* bound: exits are reported while crashes < CrashBound
    ExitBound                \* bound: terminals exit while fewer reports are on their way

ASSUME LifecycleAssumption ==
    /\ MaxConsecutiveCrashes \in Nat \ {0}
    /\ CrashBound \in Nat
    /\ ExitBound \in Nat

VARIABLES
    agents,            \* BackoffManager.agents: one AgentState per name
    handlers,          \* requests and timer bodies between two awaits
    pty,               \* desktop: the live terminal of each agent
    exits              \* exit reports on their way from the desktop

vars == <<agents, handlers, pty, exits>>

------------------------------------------------------------------------------
(* Types *)

Status == {"spawning", "ready", "busy", "idle", "stopped", "error", "failed", "unknown"}

\* The stability timer is armed or not.  The handle restartTimer is null,
\* refers to a timer that is still pending, or to one that has fired: the code
\* never nulls it on firing.  Scheduling again overwrites the handle, and a
\* pending timer it referred to becomes an orphan that nothing can cancel.
AgentState == [
    status: Status,
    terminalId: Terminals \cup {None},
    projectId: Projects \cup {None},
    crashes: Nat,
    exited: BOOLEAN,      \* lastExitCode is not null
    stability: BOOLEAN,
    restartTimer: {"null", "pending", "fired"},
    orphans: Nat]

NewAgent == [
    status |-> "stopped", terminalId |-> None, projectId |-> None, crashes |-> 0,
    exited |-> FALSE, stability |-> FALSE, restartTimer |-> "null", orphans |-> 0]

Operation == {"spawn", "restart", "kill", "register", "crashRestart"}

\* Where a handler waits: for bootstrap, for a restart's first lookups, for the
\* desktop to kill or to spawn, or for the desktop's answer to travel back.
Stage == {"boot", "resolve", "killing", "killAnswer", "spawning", "spawnAnswer"}

\* The desktop's answer to a spawn.
Answer == {"ok", "conflict", "conflictNoId", "refused"}

Handler == [
    op: Operation \cup {None}, agent: Agents \cup {None}, at: Stage \cup {None},
    terminal: Terminals \cup {None},   \* the terminal sent, or the one answered
    answer: Answer \cup {None}]

ASSUME NoneAssumption ==
    None \notin Agents \cup Projects \cup Terminals \cup Operation \cup Stage

Idle == [op |-> None, agent |-> None, at |-> None, terminal |-> None, answer |-> None]

ExitReport == [agent: Agents, terminal: Terminals, code: {"zero", "nonzero"}, deliberate: BOOLEAN]

TypeOK ==
    /\ agents \in [Agents -> AgentState]
    /\ handlers \in [Handlers -> Handler]
    /\ pty \in [Agents -> Terminals \cup {None}]
    /\ exits \subseteq ExitReport

------------------------------------------------------------------------------
(* BackoffManager: each operation maps an agent's state to its next state *)

BACKOFF_BASE_MS == 2000
BACKOFF_MAX_MS == 60000
STABILITY_RESET_MS == 300000

\* The delay markExited asks for after the n-th consecutive crash.
RestartDelay(n) ==
    LET d == BACKOFF_BASE_MS * 2^(n - 1)
    IN IF d < BACKOFF_MAX_MS THEN d ELSE BACKOFF_MAX_MS

\* Mutation of MarkSpawned: the exit code of the previous run stays.
MarkSpawnedKeepsExit(s, t) ==
    [s EXCEPT !.status = "ready", !.terminalId = t, !.stability = TRUE]

MarkSpawned(s, t) ==
    [s EXCEPT !.status = "ready", !.terminalId = t, !.exited = FALSE, !.stability = TRUE]

\* Mutation of ClearStability: the timer survives.
KeepStability(s) == s

ClearStability(s) == [s EXCEPT !.stability = FALSE]

\* Mutation of BudgetSpent: one crash too many is tolerated.
BudgetSpentLate(crashes) == crashes > MaxConsecutiveCrashes

BudgetSpent(crashes) == crashes >= MaxConsecutiveCrashes

\* Mutation of StopIntended: the recorded stop is not looked at.
StopIgnored(s) == FALSE

\* markExited's guard for an agent the user stopped.
StopIntended(s) == s.status = "stopped"

MarkExited(s, code) ==
    LET e == [ClearStability(s) EXCEPT !.exited = TRUE, !.terminalId = None]
    IN IF StopIntended(s) THEN e
       ELSE IF code = "zero" THEN [e EXCEPT !.status = "stopped"]
       ELSE [e EXCEPT !.crashes = @ + 1,
                      !.status = IF BudgetSpent(s.crashes + 1) THEN "failed" ELSE "error"]

\* markExited's shouldRestart: a counted crash within the budget.
ShouldRestart(s, code) ==
    /\ ~StopIntended(s)
    /\ code # "zero"
    /\ ~BudgetSpent(s.crashes + 1)

\* makeCrashRestartScheduler: a new timer, its handle overwriting the last.
ScheduleRestart(s) ==
    [s EXCEPT !.restartTimer = "pending",
              !.orphans = IF s.restartTimer = "pending" THEN @ + 1 ELSE @]

\* Mutation of MarkManualRestart: the timer is cancelled, its handle is kept,
\* and the cancelled timer is taken for an orphan.
MarkManualRestartLeaks(s) ==
    [s EXCEPT !.status = "spawning", !.orphans = @ + 1, !.restartTimer = "null"]

MarkManualRestart(s) == [s EXCEPT !.status = "spawning", !.restartTimer = "null"]

MarkUnknown(s) ==
    IF s.status \in {"ready", "busy", "idle"} THEN [s EXCEPT !.status = "unknown"] ELSE s

\* Crash restarts scheduled for an agent and not fired yet.
RestartsPending(s) == IF s.restartTimer = "pending" THEN s.orphans + 1 ELSE s.orphans

\* Mutation of FireRestart: a firing timer is always counted as an orphan.
FireUncounted(s) == {[s EXCEPT !.orphans = @ - 1]}

\* A pending timer fires: the one the handle refers to, or an orphan.
FireRestart(s) ==
    { f \in {[s EXCEPT !.restartTimer = "fired"]} : s.restartTimer = "pending" }
    \cup { f \in {[s EXCEPT !.orphans = @ - 1]} : s.orphans > 0 }

------------------------------------------------------------------------------
(* Handlers *)

Request(op, a, at, t) ==
    [op |-> op, agent |-> a, at |-> at, terminal |-> t, answer |-> None]

Start(h, r) ==
    /\ handlers[h] = Idle
    /\ handlers' = [handlers EXCEPT ![h] = r]

At(h, ops, stages) == handlers[h].op \in ops /\ handlers[h].at \in stages

\* The handler goes on to its next await; a terminal it has sent is not used again.
MoveOn(h, at) == handlers' = [handlers EXCEPT ![h].at = at, ![h].terminal = None]

Finish(h) == handlers' = [handlers EXCEPT ![h] = Idle]

Update(a, s) == agents' = [agents EXCEPT ![a] = s]

desktop == <<pty, exits>>

Init ==
    /\ agents = [a \in Agents |-> NewAgent]
    /\ handlers = [h \in Handlers |-> Idle]
    /\ pty = [a \in Agents |-> None]
    /\ exits = {}

------------------------------------------------------------------------------
(* Requests and timers start a handler *)

\* POST /:name/spawn up to its first await.
SpawnRequest(h, a, p) ==
    /\ Start(h, Request("spawn", a, "boot", None))
    /\ Update(a, [agents[a] EXCEPT !.status = "spawning", !.projectId = p])
    /\ UNCHANGED desktop

\* What a restart does once nothing can refuse it: markManualRestart, then the
\* kill of a recorded terminal, else bootstrap.
ProceedRestart(h, a) ==
    /\ Update(a, MarkManualRestart(agents[a]))
    /\ handlers' = [handlers EXCEPT ![h] =
           Request("restart", a, IF agents[a].terminalId = None THEN "boot" ELSE "killing",
                   agents[a].terminalId)]

\* POST /:name/restart up to its first await: with a project the roster is
\* read before anything changes.
RestartRequest(h, a) ==
    /\ handlers[h] = Idle
    /\ IF agents[a].projectId = None
       THEN ProceedRestart(h, a)
       ELSE /\ handlers' = [handlers EXCEPT ![h] = Request("restart", a, "resolve", None)]
            /\ UNCHANGED agents
    /\ UNCHANGED desktop

\* POST /:name/kill: 404 without a recorded terminal.
KillRequest(h, a) ==
    /\ agents[a].terminalId # None
    /\ Start(h, Request("kill", a, "killing", agents[a].terminalId))
    /\ UNCHANGED <<agents, desktop>>

\* POST /internal/pty/register for a terminal the desktop spawned by itself.
RegisterRequest(h, a) ==
    /\ pty[a] # None
    /\ Start(h, Request("register", a, "boot", pty[a]))
    /\ UNCHANGED <<agents, desktop>>

\* Mutation of RestartTimerFires: a timer whose agent is not in error is skipped.
RestartTimerFiresOnError(h, a) ==
    /\ agents[a].status = "error"
    /\ Start(h, Request("crashRestart", a, "boot", None))
    /\ RestartsPending(agents[a]) > 0
    /\ \E s \in FireRestart(agents[a]): Update(a, s)
    /\ UNCHANGED desktop

\* A restart timer fires; its handle is not nulled.
RestartTimerFires(h, a) ==
    /\ Start(h, Request("crashRestart", a, "boot", None))
    /\ RestartsPending(agents[a]) > 0
    /\ \E s \in FireRestart(agents[a]): Update(a, s)
    /\ UNCHANGED desktop

\* The stability timer fires five minutes after markSpawned armed it.  A restart
\* timer still pending was set by an exit before that, and RestartDelay is far
\* shorter (DelayBeforeStability in MCAgentLifecycle), so none is pending.
StabilityTimerFires(a) ==
    /\ agents[a].stability
    /\ RestartsPending(agents[a]) = 0
    /\ Update(a, [agents[a] EXCEPT !.crashes = 0, !.stability = FALSE])
    /\ UNCHANGED <<handlers, desktop>>

------------------------------------------------------------------------------
(* Handlers resume after an await *)

\* bootstrap() returned and, for a spawn or a crash restart with a project, the
\* roster and runtime lookups after it: the handler changes nothing in between.
Bootstrapped(h) ==
    /\ At(h, {"spawn", "restart", "crashRestart"}, {"boot"})
    /\ MoveOn(h, "spawning")
    /\ UNCHANGED <<agents, desktop>>

\* The register route's bootstrap returned.
Registered(h) ==
    /\ At(h, {"register"}, {"boot"})
    /\ LET a == handlers[h].agent
       IN \E p \in Projects:
            Update(a, MarkSpawned([agents[a] EXCEPT !.projectId = p], handlers[h].terminal))
    /\ Finish(h)
    /\ UNCHANGED desktop

\* A restart's lookups returned: the roster names the agent or could not be read.
RestartResolved(h) ==
    /\ At(h, {"restart"}, {"resolve"})
    /\ ProceedRestart(h, handlers[h].agent)
    /\ UNCHANGED desktop

\* A restart forgets the terminal whether the kill was answered or threw.
RestartKillReturns(h) ==
    /\ At(h, {"restart"}, {"killing", "killAnswer"})
    /\ Update(handlers[h].agent, [agents[handlers[h].agent] EXCEPT !.terminalId = None])
    /\ MoveOn(h, "boot")
    /\ UNCHANGED desktop

\* The kill route records the stop only now, whatever status the desktop gave.
KillAnswered(h) ==
    /\ At(h, {"kill"}, {"killAnswer"})
    /\ LET a == handlers[h].agent
       IN Update(a, [agents[a] EXCEPT !.status = "stopped", !.terminalId = None])
    /\ Finish(h)
    /\ UNCHANGED desktop

\* What each caller makes of the desktop's answer to a spawn.  A restart does
\* not adopt a running terminal; a crash restart takes any 409 for success.
Answered(s, op, answer, t) ==
    IF answer = "ok" \/ (answer = "conflict" /\ op # "restart") THEN MarkSpawned(s, t)
    ELSE IF answer = "conflictNoId" /\ op = "crashRestart" THEN [s EXCEPT !.status = "ready"]
    ELSE [s EXCEPT !.status = "error"]

SpawnAnswered(h) ==
    /\ At(h, {"spawn", "restart", "crashRestart"}, {"spawnAnswer"})
    /\ LET a == handlers[h].agent
       IN Update(a, Answered(agents[a], handlers[h].op, handlers[h].answer, handlers[h].terminal))
    /\ Finish(h)
    /\ UNCHANGED desktop

\* Mutation of SpawnFails: the catch block forgets the status.
SpawnFailsSilently(h) ==
    /\ At(h, {"spawn", "crashRestart"}, {"boot", "spawning", "spawnAnswer"})
    /\ Finish(h)
    /\ UNCHANGED <<agents, desktop>>

\* A spawn or a crash restart is refused (ENGAGEMENT_REQUIRED) or throws: a
\* timeout, an unreachable desktop, a failed bootstrap.
SpawnFails(h) ==
    /\ At(h, {"spawn", "crashRestart"}, {"boot", "spawning", "spawnAnswer"})
    /\ Update(handlers[h].agent, [agents[handlers[h].agent] EXCEPT !.status = "error"])
    /\ Finish(h)
    /\ UNCHANGED desktop

\* A restart is refused or throws outside its kill: the answer is 409 or 502 and
\* nothing is recorded.
RestartFails(h) ==
    /\ At(h, {"restart"}, {"boot", "resolve", "spawning", "spawnAnswer"})
    /\ Finish(h)
    /\ UNCHANGED <<agents, desktop>>

\* A kill or a registration throws: nothing is recorded.
KillOrRegisterFails(h) ==
    /\ At(h, {"kill", "register"}, {"boot", "killing", "killAnswer"})
    /\ Finish(h)
    /\ UNCHANGED <<agents, desktop>>

------------------------------------------------------------------------------
(* Callbacks from the desktop *)

\* HealthMonitor.handlePtyExit.  The terminal the report names is not compared
\* with the recorded one, and a deliberate kill is told apart only by reason.
HandlePtyExit(e, reason) ==
    /\ agents[e.agent].crashes < CrashBound
    /\ exits' = exits \ {e}
    /\ IF reason THEN UNCHANGED agents
       ELSE LET s == agents[e.agent]
                m == MarkExited(s, e.code)
            IN Update(e.agent, IF ShouldRestart(s, e.code) THEN ScheduleRestart(m) ELSE m)
    /\ UNCHANGED <<handlers, pty>>

\* POST /internal/pty/exit of server.js: the reason is not passed on.
PtyExitReport(e) == HandlePtyExit(e, FALSE)

\* POST /internal/pty-exit of the lifecycle router: it is.
LifecyclePtyExitReport(e) == HandlePtyExit(e, e.deliberate)

\* The third health check in a row fails, or a later one of the same outage: the
\* running agents are marked unknown.  The count of failures is left out.
CallbackDown ==
    /\ agents' = [a \in Agents |-> MarkUnknown(agents[a])]
    /\ UNCHANGED <<handlers, desktop>>

------------------------------------------------------------------------------
(* The desktop, which runs at most one terminal per agent *)

Unused(t) ==
    /\ \A a \in Agents: pty[a] # t /\ agents[a].terminalId # t
    /\ \A h \in Handlers: handlers[h].terminal # t
    /\ \A e \in exits: e.terminal # t

Reply(h, answer, t) ==
    handlers' = [handlers EXCEPT ![h].at = "spawnAnswer", ![h].answer = answer, ![h].terminal = t]

DesktopSpawns(h) ==
    /\ At(h, {"spawn", "restart", "crashRestart"}, {"spawning"})
    /\ pty[handlers[h].agent] = None
    /\ \E t \in Terminals:
         /\ Unused(t)
         /\ pty' = [pty EXCEPT ![handlers[h].agent] = t]
         /\ Reply(h, "ok", t)
    /\ UNCHANGED <<agents, exits>>

DesktopConflict(h) ==
    /\ At(h, {"spawn", "restart", "crashRestart"}, {"spawning"})
    /\ pty[handlers[h].agent] # None
    /\ \/ Reply(h, "conflict", pty[handlers[h].agent])
       \/ Reply(h, "conflictNoId", None)
    /\ UNCHANGED <<agents, desktop>>

DesktopRefuses(h) ==
    /\ At(h, {"spawn", "restart", "crashRestart"}, {"spawning"})
    /\ Reply(h, "refused", None)
    /\ UNCHANGED <<agents, desktop>>

Dies(a, code, deliberate) ==
    /\ Cardinality(exits) < ExitBound
    /\ exits' = exits \cup {[agent |-> a, terminal |-> pty[a], code |-> code, deliberate |-> deliberate]}
    /\ pty' = [pty EXCEPT ![a] = None]

\* A tree kill exits non-zero.
DesktopKills(h) ==
    /\ At(h, {"kill", "restart"}, {"killing"})
    /\ pty[handlers[h].agent] = handlers[h].terminal
    /\ Dies(handlers[h].agent, "nonzero", TRUE)
    /\ MoveOn(h, "killAnswer")
    /\ UNCHANGED agents

\* The terminal is not there any more, or the desktop answers with an error.
DesktopKillsNothing(h) ==
    /\ At(h, {"kill", "restart"}, {"killing"})
    /\ MoveOn(h, "killAnswer")
    /\ UNCHANGED <<agents, desktop>>

\* A terminal exits by itself, or the desktop tears it down.
TerminalExits(a) ==
    /\ pty[a] # None
    /\ Dies(a, "zero", FALSE) \/ \E deliberate \in BOOLEAN: Dies(a, "nonzero", deliberate)
    /\ UNCHANGED <<agents, handlers>>

\* The desktop spawns an agent by itself, or completes a spawn whose request
\* has timed out in the sidecar.
DesktopSpawnsAlone(a) ==
    /\ pty[a] = None
    /\ \E t \in Terminals: Unused(t) /\ pty' = [pty EXCEPT ![a] = t]
    /\ UNCHANGED <<agents, handlers, exits>>

\* The sidecar process ends and starts again; the terminals live on, and
\* reports that met a closed port are lost.
SidecarRestarts ==
    /\ agents' = [a \in Agents |-> NewAgent]
    /\ handlers' = [h \in Handlers |-> Idle]
    /\ exits' \in SUBSET exits
    /\ UNCHANGED pty

------------------------------------------------------------------------------
HandlerResumes(h) ==
    \/ Bootstrapped(h) \/ Registered(h) \/ RestartResolved(h)
    \/ RestartKillReturns(h) \/ KillAnswered(h) \/ SpawnAnswered(h)
    \/ SpawnFails(h) \/ RestartFails(h) \/ KillOrRegisterFails(h)

DesktopAnswers(h) ==
    \/ DesktopSpawns(h) \/ DesktopConflict(h) \/ DesktopRefuses(h)
    \/ DesktopKills(h) \/ DesktopKillsNothing(h)

RequestArrives(h, a) ==
    \/ \E p \in Projects \cup {None}: SpawnRequest(h, a, p)
    \/ RestartRequest(h, a) \/ KillRequest(h, a) \/ RegisterRequest(h, a)

Next ==
    \/ \E h \in Handlers, a \in Agents: RequestArrives(h, a) \/ RestartTimerFires(h, a)
    \/ \E h \in Handlers: HandlerResumes(h) \/ DesktopAnswers(h)
    \/ \E e \in exits: PtyExitReport(e) \/ LifecyclePtyExitReport(e)
    \/ \E a \in Agents: StabilityTimerFires(a) \/ TerminalExits(a) \/ DesktopSpawnsAlone(a)
    \/ CallbackDown \/ SidecarRestarts

Spec == Init /\ [][Next]_vars

\* Node runs what is ready: every await of a handler ends (fetch returns, throws
\* or is aborted), and a due timer gets its turn; strong fairness for the
\* timers because only this model's number of slots can keep one waiting.
Fairness ==
    /\ \A h \in Handlers: WF_vars(HandlerResumes(h))
    /\ \A a \in Agents: SF_vars(\E h \in Handlers: RestartTimerFires(h, a))

FairSpec == Spec /\ Fairness

------------------------------------------------------------------------------
(* Properties *)

\* An agent is given up on ('failed') only after MaxConsecutiveCrashes crashes
\* in a row, and no stability timer left over from an earlier run can forgive
\* them behind its back (backoff.ts:101-143).
FailedMeansExhausted ==
    \A a \in Agents: agents[a].status = "failed" =>
        agents[a].crashes >= MaxConsecutiveCrashes /\ ~agents[a].stability

\* However exits, manual restarts and overwritten timer handles interleave, an
\* agent never has more crash restarts outstanding than crashes counted, nor
\* as many as the budget (crashRestart.ts:34-36, backoff.ts:130-142).
RestartsWithinBudget ==
    \A a \in Agents:
        /\ RestartsPending(agents[a]) <= agents[a].crashes
        /\ RestartsPending(agents[a]) < MaxConsecutiveCrashes

\* An armed stability timer has seen no exit: a report that is taken for an exit
\* disarms it, and only a terminal that comes up after it arms it again, so the
\* crashes of a loop are forgiven only after a stretch without any
\* (backoff.ts:88-111).  It does not say that the agent is up: an exit reported
\* as deliberate is not taken for one (healthMonitor.ts:71-77) and leaves the timer
\* armed, which then forgives the crashes of an agent that is down.
ArmedSinceLastExit ==
    \A a \in Agents: agents[a].stability => ~agents[a].exited

\* A request that will still decide what becomes of an agent in 'spawning'.
Owned(a) ==
    \E h \in Handlers:
        /\ handlers[h].agent = a
        /\ \/ handlers[h].op = "spawn"
           \/ handlers[h].op = "restart" /\ handlers[h].at # "resolve"

\* The only step that leaves an agent in 'spawning' with no request working on
\* it is a restart ending without an answer from the desktop: every other end
\* of every other request settles the status (agentLifecycle.ts:183-190,321-326).
OnlyFailedRestartsStrand ==
    [][\A a \in Agents:
          (agents'[a].status = "spawning" /\ ~Owned(a)') =>
             \/ agents[a].status = "spawning" /\ ~Owned(a)
             \/ \E h \in Handlers: /\ handlers[h].op = "restart" /\ handlers[h].agent = a
                                   /\ handlers'[h] = Idle
      ]_vars

\* The agent is stopped and nothing is left that could respawn it: no restart
\* timer, no request but kills.
Quiet(a) ==
    /\ agents[a].status = "stopped"
    /\ RestartsPending(agents[a]) = 0
    /\ \A h \in Handlers: handlers[h].agent = a => handlers[h].op = "kill"

\* A stop with nothing left in flight holds: the late, non-zero exit of the killed
\* terminal neither counts as a crash nor schedules a restart.  Only a new
\* request ends it (backoff.ts:113-122).
QuietStopHolds ==
    [][\A a \in Agents:
          Quiet(a) => \/ Quiet(a)'
                      \/ \E h \in Handlers:
                            /\ handlers[h] = Idle
                            /\ handlers'[h].op \in {"spawn", "restart", "register"}
                            /\ handlers'[h].agent = a
      ]_vars

\* Crash restarts that were scheduled are all started or cancelled in the end,
\* those included whose handle was overwritten (crashRestart.ts:36).
ScheduledRestartsRun ==
    \A a \in Agents: RestartsPending(agents[a]) > 0 ~> RestartsPending(agents[a]) = 0

\* The sidecar implements the crash budget (CrashBudget).
Budget == INSTANCE CrashBudget WITH
    crashes <- [a \in Agents |-> agents[a].crashes],
    pending <- [a \in Agents |-> RestartsPending(agents[a])],
    givenUp <- {a \in Agents: agents[a].status = "failed"}

BudgetSpec == Budget!Spec

\* What healthMonitor.ts:61-70 says: the exit of a terminal the desktop killed
\* on purpose is never counted as a crash.
DeliberateExitIsNoCrash ==
    [][\A e \in exits \ exits': e.deliberate => agents'[e.agent].crashes <= agents[e.agent].crashes]_vars

==============================================================================
