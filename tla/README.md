# TLA+ models of the ACP sidecar (acp-api)

The ACP sidecar is one Node/Express process that runs beside the desktop
application (Electron). It keeps the life cycle of the agents' terminals, the
user's session at the identity provider (IDP), unattended mode, notifications
and output streams, and it proxies kanban, mail, projects and teams to cloud
services. Everything it knows is in memory.

**Concurrency.** Node runs one piece of code at a time. Code between two waits
for I/O is atomic; while a handler waits (for the desktop, the IDP, a webhook,
a cloud request) anything else may run. An `await` of something already in
memory only yields to other microtasks and resumes before the next request or
timer is looked at, so it is no point of interleaving. Every module below has
one action per atomic segment, and a record (or a counter) for each call
suspended between two segments.

## 1. Inventory

| Component | State | Operations | Talks to | What is hard | What makes it correct |
|---|---|---|---|---|---|
| Agent lifecycle (`api/lifecycle/backoff.ts`, `crashRestart.ts`, `healthMonitor.ts`, `api/routes/agentLifecycle.ts`, PTY routes of `server.js`) | per agent: status, terminal, crash counter, exit code, stability timer, restart timer | spawn, kill, restart, register, exit reports, health failures, timers | desktop over HTTP, roster, bootstrap | exit reports race answers; two exit routes; timer handles overwritten; process restart | a crash budget; a stopped agent stays stopped; no status nobody settles |
| IDP session (`api/auth/tokenManager.ts`, `api/routes/auth.ts`) | session, shared refresh, dead latch, failure counter | login, pushed session, logout, token and status requests | IDP; every proxy | single-use refresh tokens, lost answers, sessions replaced during a refresh | single flight; no spent token presented; no session of another user; a storm of refreshes ends |
| Autonomy supervisor (`autonomy/supervisor.js`, `api/routes/autonomy.js`) | run, unattended mode, ping timer, dead man's switch | start, stop, restart, emergency stop, ping, dead-man check | storage, webhook, mail, SSE windows | restarts and stops overlap at the webhook; stop conditions only at pings | timers live as long as the mode; sessions end; pauses are announced |
| Upstream notifications (`upstreamSignalRManager.ts`, `sseStream.ts`, `localEventBus.ts`) | connection, wanted agents, subscribed agents, clients | start, stop, refresh, connect, subscribe, notify | SignalR hub, token manager, windows | stop and refresh during a connect; reconnect | one connection, subscribed to the tracked agents, shown as it is, found again after a loss |
| Terminal output bridge (`terminal/terminalOutputBridge.ts`, `POST /internal/pty/output`) | per terminal: unfinished line and its age; per agent: token bucket | push, periodic flush (`flush` and `drop` are called by nothing) | windows | terminals of an agent share a bucket; nothing flushes at an exit | a rate per agent over any stretch of time; a last line is sent in the end |
| Kanban (`kanban/board.js`, `review.js`, `routes/kanban.ts`) | none here; card and trail in the cloud | create, edit, comment, move, force, assign, claim, review, archive | cloud kanban, mail, windows | chains of cloud calls that fail half-way and overlap; checks on a remote read | the trail ends where the card is; windows are told; the checks hold of the card as it was read |
| Party engine (`collaboration/party_engine.js`, `relevance.js`, `routes/party.js`) | timer, pool of agents | tick, signal, told of sent mails | storage, windows | - | it calls storage operations that do not exist here, and catches what they throw |
| Agent sessions, bootstrap (`agents/session_manager.js`, `core/`) | roster, project list, current project, session records | hydrate, register, resolve, bootstrap | cloud, token manager | one shared load; caches per process, not per account | whoever waits for a load is answered; an agent is refused only by a roster that lacks it; a project is answered to its own account |
| Project and team caches (`projects/cache.ts`, `team/cache.ts`) with `routes/projects.ts`, `team.ts`, `teams.ts`, `agents.ts` | entries per user: list, current, team, team sync | read with fallback, write and clear, resolve a member live | cloud, token manager, spawns | writes race reads, their answers are lost, accounts change, some writes clear nothing | an outdated entry has a known cause; what is labelled live is live |
| Mail proxy (`routes/mailProxy.ts`) | none between requests | one call with one retry on 401; the inboxes of many agents by a pool | cloud, token manager | shared cursor; partial failure; clients told to retry | no inbox lost or asked for twice; a retry does nothing twice without a lost answer |
| Chat persistence (`chat/persistence.ts`, `routes/chat.ts`) | conversations, threads, messages, in memory | create, append, read | - | - | appends without a wait inside keep their order |
| Hooks and shutdown (`lifecycle/hooks.ts`, `shutdown.ts`) | shutting-down flag | signal, stop parts, exit | all parts | handlers in flight arm timers; second signal | exits within its limit, once |
| Contractors (`api/contractors/*`) | contracts, queue | hire, spawn, expire, kill | storage | - | disabled by default, and the in-memory storage lacks the operations it calls |

Middleware, logging, response formatting and stateless proxies (documents,
stand-ups, terminal replay) keep nothing that other parts read back. The hazards of each part, at their source
lines, are in `PROJECT.json`.

## 2. Modules

| Module | Models | Extends |
|---|---|---|
| `AgentLifecycle` | lifecycle of the agents, with the desktop as environment | |
| `CrashBudget` | what the crash-loop protection promises (abstract) | |
| `UserStop` | the lifecycle with the memory of which agents the user stopped | `AgentLifecycle` |
| `AgentLifecycle_proofs` | its theorems, refinement included | `AgentLifecycle` |
| `TokenManager` | the IDP session, with the IDP as environment | |
| `IdpSession` | what the sidecar promises of the session (abstract) | |
| `TokenManager_proofs` | its theorems, refinement included | `TokenManager` |
| `Supervisor` | runs, unattended mode, its timers and its events | |
| `EmergencyStop` | the supervisor with the memory of an emergency stop | `Supervisor` |
| `Supervisor_proofs` | its theorems | `EmergencyStop` |
| `UpstreamSubscriptions` | the hub connection of mail notifications and its subscriptions | |
| `NotificationFeed` | what the upstream promises the windows (abstract) | |
| `UpstreamSubscriptions_proofs` | its theorems, refinement included | `UpstreamSubscriptions` |
| `ProjectCache` | the project and team caches under reads, writes, fallbacks and a changing account | |
| `Kanban` | the kanban requests as chains of cloud calls over one card | |
| `SessionCaches` | the caches that are kept per process, and the shared load of the roster | |
| `MailProxy` | mails as one call with a retry, and the pool of the inboxes | |
| `TerminalBridge` | terminal lines, buckets and the periodic flush | |
| `Shutdown` | the shutdown sequence among requests and streams in progress | |
| `ProjectCache_proofs`, `SessionCaches_proofs` | their theorems | each its module |
| `CloudData_proofs` | theorems of the kanban requests, and of `MCCloudData` as a whole | `MCCloudData`, `ProjectCache_proofs` |
| `Services_proofs` | theorems of the terminal bridge, the mail proxy and the shutdown, and of `MCServices` as a whole | `MCServices`, `SessionCaches_proofs` |
| `MCAgentLifecycle`, `MCUserStop`, `MCTokenManager` | small instances | |
| `MCCloudData` | small instances of `ProjectCache` and `Kanban` | both |
| `MCServices` | small instances of `SessionCaches`, `MailProxy`, `TerminalBridge` and `Shutdown` | all four |

`MCCloudData` and `MCServices` put modules that share nothing into one run: a
behaviour is one of one part (the variable `part`), the others stand still, and
fairness is asked of that part only. They say nothing about interaction; what
the parts have in common, the session, is in each module as the part sees it
(an account that changes at any time, a token that may not be had).

### AgentLifecycle

`agents[a]` is the `AgentState` of `BackoffManager`; `markSpawned`,
`markExited`, `markManualRestart`, `markAllUnknown` are the operators
`MarkSpawned`, `MarkExited`, `MarkManualRestart`, `MarkUnknown` from a record to
a record. `handlers[h]` is a request or a timer body between two awaits: its
operation, its agent, where it waits and what it keeps. A spawn is
`SpawnRequest`, `Bootstrapped`, a desktop action, `SpawnAnswered` or
`SpawnFails`; a restart first resolves its agent and kills; a crash restart is
`RestartTimerFires` followed by the stages of a spawn. `exits` is the set of
exit reports on their way, which the two exit routes consume in any order
(`PtyExitReport`, `LifecyclePtyExitReport`). The desktop kills, spawns,
answers 409 or fails, and terminals die by themselves. `SidecarRestarts` is a
crash of the process: everything in memory is lost, terminals live on.

`restartTimer` keeps the fact that the code never nulls the handle of a timer
that has fired, and `orphans` counts pending timers whose handle was
overwritten: nothing can cancel those.

Abstractions: the health monitor's third and later failure in a row is one
action (`CallbackDown`); sessions and project resolution are an outcome
(found, not engaged, failed); exit codes are zero or not; delays are kept only
as far as their order matters. `MCAgentLifecycle` has an assumption that
compares the delay before a restart with the stability interval.

`CrashBudget` keeps the crashes counted, the restarts granted and the agents
given up on (`failed`). A crash that exhausts the budget gives an agent up; a
request, a restart granted before, or an exit in order ends that again, while its
crashes stay counted.

### TokenManager

`session`, `inflight`, `dead`, `failures` are the module's four variables.
`callers[c]` is one asynchronous call: a login, a logout, or a caller of
`ensureValidToken`/`forceRefresh` that catches its errors ("token": the
proxies) or does not ("status": `GET /status`, `GET /token`). The caller that
starts a refresh owns `inflight`; the others wait and resume one by one after
it has settled. Tokens are numbered in the order the IDP issues them; `valid`
are those it would honour, `forfeited` those the sidecar could not know to be
spent (revoked, or rotated in an answer that was lost). The IDP rotates, renews
without rotating, rejects, fails and loses answers. A pushed session
(`ExternalSession`) brings a token the IDP has issued to the desktop. JWT
decoding, binding headers and logging are left out. In the two unguarded
routes the dereference of a session that a logout has cleared ends the process
(`SidecarExits`): memory is lost.

`IdpSession` is the same without calls, tokens and IDP: whose session it is, the
latch, the count of failures and whether a refresh runs, changed by a login, a
logout, the start of a refresh and its three outcomes. A logout leaves latch and
count alone, and a refresh that returns after it resets the count for nobody, as
in the code.

### Supervisor

`sup` are the fields of the `Supervisor` object, `run` is the stored autonomy
state. The storage is in memory, so the code waits in two places: the webhook
of `_notify`, and the requests of `_sendPing`. `starts[s]` is a
`startUnattended` suspended in the webhook of the session it restarts
("restarting") or of the stored run it clears ("clearing"); `pausing` counts
stops whose pause event follows the webhook; `pings` counts pings in flight,
which carry no state. A ping reads the board after its mail and then checks the
stop conditions of the run of that moment, which need not be the run it was
sent for. `overdue` and `zeroSince` are the two clocks (runtime, dead man),
reduced to what their comparisons tell apart. A start that finds a
switch running keeps it with its clock, as `startDeadManSwitch` does: a restart
that another start has overtaken at the webhook begins its session on that
clock. Milestone and memory conditions are a choice of the environment. Stand-up entries and `escalation.js` (a
classification function) are not modelled.

### UpstreamSubscriptions

`mgr` are the fields of `UpstreamSignalRManager`, with the wait at which
`ensureConnection` is suspended (`at`, `mine`; `none` is `connecting = false`):
the stop of the old connection, the token, the start, the answer to
`SubscribeToAgents`. `shown` is the state all agents share. `conns` are the hub
connections that are alive or closing, as the SignalR client behaves towards
this code: a stop of a connection between two attempts may be over at once, one
that was up calls `onclose` when it has stopped, an interrupted start throws. `wanted`
says whether the windows ask for agents; which ones is the choice of
`WindowsChange`, and `mgr.agents` keeps it. A stop during the wait for the token
is not noticed by the code: the model has the connection that is then built
for nobody.

`NotificationFeed` is what the windows see of it: the tracked agents, the lists
the hub sends notifications for, whether the manager runs, and whether an attempt
has survived its stop (`late`). Only an attempt that waits for its token, or for
the end of the old connection, can: one that waits for its start is broken off
by the stop and, with `running` false, leaves no retry.

### ProjectCache

`calls[c]` is a request between two awaits, with a lane for each call it makes
(`/sync` reads the list and the pointer at once); the cloud answers a lane at
one moment and the handler resumes at a later one (`AnswerRead`, `FileAnswer`;
`ApplyWrite`, `WriteDone`). Data is a version, `cloud[k]`; `store[k]` is the
entry of the watched user. `ReadFails` serves the last entry, with the version
it was stored with, or a default; a part of a reply keeps its source and whether
the cloud had replaced it before it was asked for (`old`), which is what the
label of the reply is checked against. `Refused` is a 401 with its one retry, which takes the session of that moment:
data fetched for the account that has signed in meanwhile is filed under the
user of the request. `Clears` is what the handler of each write clears,
`Touches` what the write changes; `excuse` remembers why an entry may be old.
The list is kept under the user alone, whatever the filters of the request
that filled it; filters are left out.

### Kanban

`jobs[j]` is a request at its write, its audit entry or its mails and event.
Between any two another request may run; any call may fail, and a write whose
answer is lost has happened (`AnswerLost`). `ReadCard` is the read and its
checks, `Wanted` the graph of transitions and the other conditions. Task fields
other than status, owner and archive mark are one operation (`edit`). A review
note is one that writes nothing: `reviewedBy` and `reviewNotes` are no fields of
`updateTask`. `trail` keeps the last words of the activity trail: the `to_status`
of its last entry on the status, and that of its last entry on the assignee, which
is the assignee's name (`assignTask` writes the names into `from_status` and
`to_status`). A card may be created with an assignee, of whom the `created` entry
says nothing. `from_status` is left out.

### SessionCaches, MailProxy, TerminalBridge, Shutdown

In `SessionCaches` a *scope* is an account at work in a project, and an entry is
the scope it is of. `hydration` is `_rosterHydrating`, shared by all who wait;
the project list, the current project and the ids by name (`Own`) are loaded
by a call per request. Without a session a request is answered the last known
value. `GET /health` loads the roster by a call of its own at each check, shared
with nobody (`HealthCheck`). An agent is refused by the word of the roster at
hand: one past its TTL when no session is there to load another, and one that was
loaded young for another account. In `MailProxy` a mail is what a client wants done and may try again;
`accepted` and `lost` count what the cloud did and what answers never came; the
hooks of a send run after its response.
`batch` is one request for many inboxes: workers take agents from a cursor.
`TerminalBridge` counts lines. A buffer is the fact that a terminal has an
unfinished line (`partial`), and `age` its time since the last chunk. Buckets
refill by elapsed time, here once a tick. `Shutdown` counts requests and event
streams; the clock starts with the signal, and a stop that throws ends the process
(`StopThrows`).

No-op early returns (stop of a stopped run, start of a running one, refusals)
are no actions in any module.

## 3. Runs

| Run | Specification and bounds | Shows |
|---|---|---|
| `lifecycle` | `Spec`; 1 agent, 1 project, 2 terminals, 2 handlers, budget 2, `CrashBound` 3, `ExitBound` 1; symmetric | types; `FailedMeansExhausted`; an armed stability timer has seen no exit but deliberate ones; no request but a failed restart strands an agent in `spawning`; a stop with nothing in flight holds |
| `restart_timers` | `FairSpec`; 1 handler, budget 3, `CrashBound` 4 | crash restarts stay within the budget though handles are overwritten; `CrashBudget` is implemented, `failed` included; scheduled restarts run or are cancelled |
| `user_stop` | `UserStop` | violated: see findings |
| `deliberate_exit` | `Spec` | violated: see findings |
| `token_manager` | `Spec`; 2 users, 3 callers, 3 tokens, net closes at 2; symmetric | types, single flight, no spent token is presented, only a login changes the user; `IdpSession` is implemented (a dead session is over, the net closes exactly) |
| `stale_refresh` | `Spec` | violated: see findings |
| `supervisor` | `Spec`; 2 concurrent starts, 2 pings, 2 waiting stops | types; timers follow the mode; a session begins with a running dead man's clock only if its start was overtaken by another; pauses are announced; the mode outlives a run only as described; a due session ends; the dead man's switch fires |
| `emergency_stop` | `EmergencyStop` | violated: see findings |
| `upstream` | `Spec`; 2 agents, 3 connections alive or closing, 2 retry timers | types; one connection; it is subscribed to the tracked agents; it is shown connected only when it is; `NotificationFeed` is implemented; a manager left alone gets its connection |
| `cloud_data` | `MCCloudData!Spec`; caches: 2 requests, one other account, each kind of data changed once, watched: none, list and current, team, or team sync; kanban: 2 requests, 2 agents, those that move a card apart from those that assign, archive and edit it; symmetric requests | types; old entries have a known cause; what is labelled `cloud`, and what a spawn is told, is live; the trail's last words on status and assignee are true or their lag has a known cause; windows are told |
| `services` | `MCServices!Spec`; 2 scopes, 2 clients, one own cache; 1 mail with 3 tries, 2 workers over up to 4 agents; 1 agent with 2 terminals, burst 2, refill 1, stale after 1 tick; 2 requests and 2 streams, notification cut off at 1 tick, force exit at 3 | types; a refusal comes from a loaded roster, and from one past its TTL only without a session; waiting for a load ends; no inbox is lost; retries; the rate; last lines are sent; shutdown ends |
| `active_project` | `SessionCaches!SoftSpec`; 2 scopes, 1 client | violated: see findings |

`cloud_data` is the largest run, of about 1.6 million distinct states (one
to two minutes on two workers); the others take seconds to a minute.

**Why the bounds are enough.** Agents share nothing but the slots for handlers,
so one agent shows all interleavings of its own handlers; two handlers give
every pair of a manual and an automatic operation; two terminals tell an old
exit from a new one; the budget and the net are small so that their limit is
reached and passed. Three callers are one that refreshes, one that waits and
one that replaces the session; three tokens are a session, its successor and a
session pushed in between. Two concurrent starts, with stops, pings and timers
beside them, reach both waits of a restart. Three connections are one that
comes up while two others, told to stop, have yet to close. `TimerBound` counts
that many retry timers or more as that many. `CrashBound`, `ExitBound`,
`TokenBound`, `PingBound` and `PauseBound` are the bounds of the models and
appear only in guards. Two requests are a read and the write
that overtakes it, or two requests for one card at any two of their stages; the
kinds of data meet only in `/sync`, which reads two, so they are watched apart.
One change in the cloud tells new from old. Three tries are a loss, a refusal
and a success; a pool of two over four agents has a worker that goes on and one
that ends. Two terminals share a bucket that a chunk of two lines empties.
`VersionBound`, `TryBound`, `BatchBound`, `ChunkBound`, `SinceBound` and
`ConnectionBound` are the bounds of these models. The theorems of section 5
hold for all their values.

**Fairness.** Runs without liveness use none. `FairSpec` of `AgentLifecycle`: an
await ends (fetches have time limits or fail; the one of a token refresh,
`tokenManager.ts:325`, has no limit of its own but the runtime's), and a due timer gets its turn -
strong fairness because only the number of handler slots can keep it waiting.
`Supervisor`: timers fire, time passes, webhooks answer or fail (strong where
the bound on pings in flight may hold a step up). `SF(PingChecks)` is an
assumption about the environment: pings do not fail to read the board for ever.
`UpstreamSubscriptions`: retry timers fire, the client library completes stops
and calls; strong fairness of the token, of a start and of a reconnect are
assumptions about the environment (`nextRetryDelayInMilliseconds` never gives
up, so attempts do not end). `MCServices`: the call of a roster load ends (it is
cut off after 10 s; a token refresh before it ends by the runtime's limit of a
fetch), the interval that flushes stale buffers runs and time
passes, and the timers and callbacks of a shutdown run when they are due. Nothing
is assumed of windows, desktop or cloud there.

**Two liveness properties depend on more than the code.** `StopConditionStops`
assumes a lead agent and that board: without a lead agent a ping returns before
it reaches the stop conditions, and without an active project its board cannot
be read, so `max_runtime` never ends such a session. `DeadManPauses` assumes
that the user does not restart the session for ever: each restart starts the
clock anew.

Each property of a passing run comes with a mutation of a definition (an
operator beside it, marked as such) that makes the property fail: a dropped
guard, a missing reset, an off-by-one.

## 4. Findings

1. `StopIsHonoured` (`user_stop`). The kill route records `stopped` only after
   the desktop has answered; `backoff.ts:113` says before. The exit of the
   killed terminal may be processed first: it counts as a crash and schedules
   the restart that resurrects the agent the user stopped.
2. `DeliberateExitIsNoCrash` (`deliberate_exit`). `POST /internal/pty/exit`
   drops the reason of an exit, so a deliberate kill spends the crash budget,
   against `healthMonitor.ts:61`.
3. `FreshSessionSurvives` (`stale_refresh`). A rejected refresh kills the
   session that has replaced the one it belonged to: the failure path lacks
   the comparison of the success path.
4. `EmergencyStopHolds` (`emergency_stop`). An emergency stop during a restart
   that waits for the webhook finds nothing running, answers `not_running`, and
   the restart then switches unattended mode on (`supervisor.js:248`).
5. `ActiveProjectIsOwn` (`active_project`). `getActiveProjectId` answers the last
   current project for its TTL to whoever asks; no login or logout clears it
   (`session_manager.js:308`, against the comment at `:303`).

Three more disagreements with a text of the repository, without a run of their
own; each model contains the behaviour, and the second and the third are the
exact exceptions that a checked property states.

* *Moves and claims are bypassable.* `moveTask` and `assignTask` check the card
  as it was read and write it unconditionally: of two that read the same card
  before either writes, the second moves it off the graph or takes it from its new
  owner (two `ReadCard`, then two `WriteCard`). `board.js:9` says "Agents move only
  along these edges", `:19-20` "so transitions/assignment-lock are unbypassable".
  A property of the checks would have to excuse every overlap, so there is none.
* *A restart is not always clean.* Of two restarts that overlap at the webhook
  the later one begins its session on the dead man's clock of the earlier one:
  `startDeadManSwitch` keeps a running switch (`supervisor.js:33`, against `:111`,
  "stop first then restart cleanly"). `ClockInheritedOnlyByOvertaken` says that it
  happens in this case and in no other.
* *A roster that cannot be resolved may refuse.* Once a roster was loaded, the
  want of a session leaves the old one in place, and agents it lacks are answered
  401 "not registered" (`session_manager.js:187`, against `localAuth.ts:88-91`: a
  resolve failure must "NEVER fall through to 'not registered'").
  `RefusalIsHonest` names the case.

Things met while modelling that no text of the repository denies, each
contained in a model: an exit reported as deliberate leaves the stability timer
armed, which forgives the crashes of an agent that is down
(`healthMonitor.ts:71`); a young roster of another account refuses agents of
this one; a failing review mail turns a done review into an
error, with no event; a retry after a 401 under another account files that
account's data under the user of the request; the team sync's cache and the ids
by name are never cleared, and the relayed writes of `teams.ts` and `agents.ts`
clear nothing; a mail whose answer is lost is sent again by the client that is
told to retry. And one that is outside the models: the periodic flush sends a
line as agent `unknown` without a project, so a window that filters on the agent
misses it.

## 5. Theorems

All proofs are checked by TLAPS, for any sets of agents, terminals, handlers,
users, callers, starts and connections and any values of the limits, from the assumptions
the modules state: `LifecycleAssumption`, `TokenAssumption` and
`BoundsAssumption` (limits are positive or natural numbers),
`NoneAssumption` (null is not one of the values it stands beside) and
`UpstreamAssumption` (both); `CacheAssumption` (the accounts differ, the
watched kinds are kinds), `KanbanAssumption` (`None` is no agent and no status),
`ScopeAssumption` (no scope, and no answer, is taken for another),
`BridgeAssumption`, `MailAssumption` and `ShutdownAssumption` (numbers; a pool has
a worker; the notification is cut off before the force timer).

* **AgentLifecycle_proofs.** `TypeCorrect`, `FailedCorrect`, `RestartsBounded`,
  `ArmedCorrect`, and `ImplementsBudget`: the lifecycle implements
  `CrashBudget`. The inductive invariant `LifecycleInv` is the type with
  one condition for each agent (`AgentOK`: `failed` only with the budget spent
  and no stability timer; restarts outstanding at most the crashes counted and
  below the budget, however many handles were overwritten; an armed stability
  timer means that no exit has been reported since the last spawn, but deliberate
  ones, which return before `markExited`) and one for each handler
  (`HandlerOK`: it names its agent, a kill its terminal).
  Lemmas state once what each operation of the
  backoff manager preserves; the step lemma has one case per action; the
  refinement maps each step to a crash, a used or cancelled restart, a retry of
  an agent given up on, a reset, or a stutter (`BudgetStep`). `BudgetMeans` says
  what any implementation of the budget comes to. `StrandCorrect` and `QuietStopCorrect` are action properties
  that need the types only: `SlotStep` says what a step of one slot may do to
  one agent, and each action is shown to be such a step of the slot's agent
  and none of any other.
* **TokenManager_proofs.** `TypeCorrect`, `DeadIsQuiet`, `FailuresCorrect`,
  `SingleFlight`, `PresentedOnce`, `UserCorrect`. `TokenInv` is
  `FlightInv /\ RefreshHolds /\ LoginHolds /\ SessionHolds`. That no spent token
  is presented is not inductive by itself: one must know who holds which token.
  `RefreshHolds` says it of the refresh in flight and of the tokens its answer
  brings, `LoginHolds` of the answers of logins, and `SessionHolds` of the
  session, whose token is usable or is being replaced by an answer under way
  that carries its successor for the same user. `ImplementsIdpSession` maps a
  login and a pushed session to `Begins`, the start of a refresh (not the joining
  of one) to `RefreshStarts`, and the body of a refresh, whoever waits for it, to
  `Refreshed`, `Refused` or `FailsAgain`; it needs `TokenInv` to know that a
  refresh adopts tokens for the user who is logged in, and that a dead session
  has none running. `PromiseMeans` proves of `IdpSession` itself what
  `DeadMeansQuiet` and `FailuresCapped` say of the code.
* **Supervisor_proofs.** `TypeCorrect`, `TimersCorrect`, `DeadManCorrect`,
  `PausesCorrect`, `ModeCorrect`, `QuietEmergencyStopCorrect`. The four safety
  properties and the type are
  inductive together (`SupInv`): that the mode is on exactly while the timers
  run is what makes the dead man's clock disappear with them, so that a session which
  begins on a running clock began while the mode was on (`DeadManCorrect`, an
  action property), and the two
  properties about events and runs each name the suspended call that owes the
  missing step. `QuietEmergencyStopCorrect` is the other side of finding 4: an
  emergency stop that overtakes no suspended start holds until the next request
  for one (`RestKeeps`: what pings, webhooks and timers still do at rest).
* **UpstreamSubscriptions_proofs.** `TypeCorrect`, `OneConnectionCorrect`,
  `SubscriptionsCorrect`, `ShownCorrect`. `UpstreamInv` adds what holds at each
  wait (`WaitOK`): at the token the manager has no connection that the new one
  could push out of sight, and at the stop the old connection is closing.
  `ImplementsFeed`: with one connection, subscribed to the tracked agents, the
  hub's lists are that one or none (`OneFeed`), so a step is a refresh, a stop, a
  subscription, or loses the feed; no step of `ensureConnection` or of the
  library begins an attempt while the manager is stopped and none goes on.
* **ProjectCache_proofs.** `TypeCorrect`, `StaleCorrect`, `LabelCorrect`.
  `CacheInv` adds how old the answer of each read can be (`LaneOK`: an answer is
  no older than its request, and a part served that the cloud had replaced has a
  source that says so) and
  that only writes have a write to clear up after (`CallOK`).
* **CloudData_proofs.** Of the kanban requests: `KanbanTypeCorrect`,
  `TrailCorrect`, `WindowsCorrect`. `KanbanInv` adds that what a request
  wants of the card is of the kind it writes (`CheckedJob`) and that a change the
  trail tells of is stored once written (`StoredJob`). Of the specification the run `cloud_data` checks:
  `ImplementsCaches` and `ImplementsKanban` (each step of it is a step of the part
  or leaves it alone), which carry the parts' theorems over to it
  (`CloudDataTypeCorrect`, `CloudDataCorrect`).
* **SessionCaches_proofs.** `TypeCorrect`, `SharedCorrect`, `RefusalCorrect`.
  `SoftInv` adds that a cache that was ever loaded is of a scope, and that calls
  have a bearer; from it every refusal comes from a loaded roster, and one from an old roster
  from the want of a session.
* **Services_proofs.** `RateCorrect`: the lines since any moment and the tokens
  left are together within burst and refill (`Budget`), which is inductive where
  the bound on the lines is not. `RetryCorrect`: what the cloud did for a mail is
  what was lost, but for an answer on its way or received (`Settled`).
  `InboxesCorrect`: while there are agents to take every worker of the batch is
  busy, with an agent below the cursor that no other worker has (`Pooled`).
  `ExitCorrect`: exit code 0 means that every request was answered. Types of
  all three. `ImplementsServices` carries these, and those of
  `SessionCaches_proofs`, over to the specification the run `services` checks
  (`ServicesTypeCorrect`, `ServicesCorrect`). It is about the steps: the fairness
  of the parts is a matter of ENABLED, which the prover does not reason about.

**Model-checked only.** Liveness (`ScheduledRestartsRun`, `StopConditionStops`,
`DeadManPauses`, `ConnectRecovers`, `HydrationSettles`, `TailsAreEmitted`,
and the first part of `ShutdownEnds`: fairness is out of the prover's reach).
Every other property of a passing run is stated by a theorem.

**Proved only.** `DeadMeansQuiet` and `FailuresCapped` of `TokenManager` are in
no run of their own: `IdpSessionSpec`, which a run checks, implies them
(`PromiseMeans`), and `DeadIsQuiet` and `FailuresCorrect` prove them of the code's
model directly. `QuietEmergencyStopHolds` is about `EmergencyStop`, whose run is of
the property that is violated there.

## 6. Plan

Done, the most important behaviour first: `AgentLifecycle`, `TokenManager`,
`Supervisor`, `UpstreamSubscriptions`; then `ProjectCache`, `Kanban`,
`SessionCaches`, `TerminalBridge`, `MailProxy` and `Shutdown`; proofs for all of
them, `QuietStopHolds` and `OnlyFailedRestartsStrand` included; the abstract
`CrashBudget`, `IdpSession` and `NotificationFeed` with their refinements proved,
and the theorems of the parts carried over to the two runs that put parts
together.

Left, in this order:

1. The composition of `Shutdown` with `AgentLifecycle`: which of its timers the
   sequence stops, and which a handler in flight arms again.
2. `TokenManager` as the environment of `ProjectCache` and `SessionCaches`,
   in place of the session that changes at any time there.

## 7. Not modelled

Contractors (disabled, and unreachable in this build) and their process hygiene;
the party engine, whose storage operations do not exist in this build.
Documents, stand-ups, terminal replay and the reading requests of kanban and
projects: one call passed through. The filters of the event streams, heartbeats
and the wording of events. Chat (maps in memory, one synchronous
change per request), session records (a map with one
write per request), `exec` and `modify`. Mappers, formatting, logging and header
checks. The contents of mails, tasks, prompts and terminal lines, scrubbing and
the counters of dropped lines. What the cloud services do, other than answer,
refuse, lose an answer or fail.
