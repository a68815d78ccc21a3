------------------------- MODULE AgentLifecycle_proofs -------------------------
(***************************************************************************)
(* Theorems about AgentLifecycle.  The invariant is a statement about each *)
(* agent's state by itself (AgentOK), so the proof first shows that every  *)
(* operation of BackoffManager preserves it, and then that every action    *)
(* changes agents only by those operations.                                *)
(***************************************************************************)
EXTENDS AgentLifecycle, TLAPS

\* What the theorems need of one agent: its type, and the three invariants.
AgentOK(s) ==
    /\ s \in AgentState
    /\ s.status = "failed" => s.crashes >= MaxConsecutiveCrashes /\ ~s.stability
    /\ RestartsPending(s) <= s.crashes
    /\ RestartsPending(s) < MaxConsecutiveCrashes
    /\ s.stability => ~s.exited

\* A slot in use serves an agent, and a kill names a terminal.
HandlerOK(r) ==
    /\ r \in Handler
    /\ r # Idle => r.agent # None
    /\ r.at = "killing" => r.terminal # None

\* The inductive invariant: every agent and every slot is in order.
LifecycleInv ==
    /\ TypeOK
    /\ \A a \in Agents: AgentOK(agents[a])
    /\ \A h \in Handlers: HandlerOK(handlers[h])

------------------------------------------------------------------------------
(* The operations of BackoffManager preserve AgentOK *)

LEMMA NewAgentOK == AgentOK(NewAgent)
BY LifecycleAssumption DEF AgentOK, NewAgent, AgentState, Status, RestartsPending

\* An operation that leaves the crash counter alone, does not give up on the agent,
\* schedules nothing and arms no stability timer over an exit.
LEMMA HarmlessOK ==
    ASSUME NEW s, AgentOK(s), NEW r \in AgentState,
           r.status # "failed" \/ (r.status = s.status /\ r.stability = s.stability),
           r.crashes = s.crashes,
           RestartsPending(r) <= RestartsPending(s),
           r.stability => ~r.exited
    PROVE  AgentOK(r)
<1>1. s \in AgentState /\ s.crashes \in Nat /\ s.orphans \in Nat /\ r.orphans \in Nat
  BY DEF AgentOK, AgentState
<1>2. RestartsPending(s) \in Nat /\ RestartsPending(r) \in Nat
  BY <1>1 DEF RestartsPending
<1>3. MaxConsecutiveCrashes \in Nat
  BY LifecycleAssumption
<1>. QED  BY <1>1, <1>2, <1>3 DEF AgentOK

LEMMA MarkSpawnedOK ==
    ASSUME NEW s, AgentOK(s), NEW t \in Terminals \cup {None}
    PROVE  AgentOK(MarkSpawned(s, t))
BY DEF AgentOK, MarkSpawned, AgentState, Status, RestartsPending

LEMMA MarkManualRestartOK ==
    ASSUME NEW s, AgentOK(s)
    PROVE  AgentOK(MarkManualRestart(s))
<1> DEFINE r == MarkManualRestart(s)
<1>1. s \in AgentState /\ (s.stability => ~s.exited)
  BY DEF AgentOK
<1>2. /\ r \in AgentState
      /\ r.status = "spawning" /\ r.crashes = s.crashes /\ r.orphans = s.orphans
      /\ r.restartTimer = "null" /\ r.stability = s.stability /\ r.exited = s.exited
  BY <1>1 DEF AgentState, Status, MarkManualRestart
<1>3. RestartsPending(r) <= RestartsPending(s)
  BY <1>1, <1>2 DEF RestartsPending, AgentState
<1>. SUFFICES AgentOK(r)  OBVIOUS
<1>. HIDE DEF r
<1>. QED  BY <1>1, <1>2, <1>3, HarmlessOK

LEMMA MarkUnknownOK ==
    ASSUME NEW s, AgentOK(s)
    PROVE  AgentOK(MarkUnknown(s))
BY LifecycleAssumption DEF AgentOK, MarkUnknown, AgentState, Status, RestartsPending

\* A handler that writes only a status other than 'failed', a terminal or a project.
LEMMA WriteOK ==
    ASSUME NEW s, AgentOK(s), NEW r \in AgentState, r.status # "failed",
           r.crashes = s.crashes, r.exited = s.exited, r.stability = s.stability,
           r.restartTimer = s.restartTimer, r.orphans = s.orphans
    PROVE  AgentOK(r)
<1>1. s \in AgentState /\ (s.stability => ~s.exited)
  BY DEF AgentOK
<1>2. RestartsPending(r) <= RestartsPending(s)
  BY <1>1 DEF RestartsPending, AgentState
<1>. QED  BY <1>1, <1>2, HarmlessOK

LEMMA StatusOK ==
    ASSUME NEW s, AgentOK(s), NEW status \in Status \ {"failed"}
    PROVE  AgentOK([s EXCEPT !.status = status])
<1> DEFINE r == [s EXCEPT !.status = status]
<1>1. s \in AgentState
  BY DEF AgentOK
<1>2. /\ r \in AgentState
      /\ r.status = status /\ r.crashes = s.crashes /\ r.orphans = s.orphans
      /\ r.restartTimer = s.restartTimer /\ r.stability = s.stability /\ r.exited = s.exited
  BY <1>1 DEF AgentState
<1>. SUFFICES AgentOK(r)  OBVIOUS
<1>. HIDE DEF r
<1>. QED  BY <1>2, WriteOK

LEMMA FireRestartOK ==
    ASSUME NEW s, AgentOK(s), NEW f \in FireRestart(s)
    PROVE  /\ AgentOK(f)
           /\ f.crashes = s.crashes
           /\ f.status = s.status
           /\ RestartsPending(f) = RestartsPending(s) - 1
           /\ RestartsPending(s) > 0
BY LifecycleAssumption DEF AgentOK, FireRestart, AgentState, Status, RestartsPending

LEMMA ForgiveOK ==
    ASSUME NEW s, AgentOK(s), RestartsPending(s) = 0, s.stability
    PROVE  AgentOK([s EXCEPT !.crashes = 0, !.stability = FALSE])
<1> DEFINE r == [s EXCEPT !.crashes = 0, !.stability = FALSE]
<1>1. s \in AgentState /\ s.status # "failed"
  BY DEF AgentOK
<1>2. /\ r \in AgentState
      /\ r.status = s.status /\ r.crashes = 0 /\ r.orphans = s.orphans
      /\ r.restartTimer = s.restartTimer /\ ~r.stability
  BY <1>1 DEF AgentState
<1>3. RestartsPending(r) = 0
  BY <1>2 DEF RestartsPending
<1>. SUFFICES AgentOK(r)  OBVIOUS
<1>. HIDE DEF r
<1>. QED  BY <1>1, <1>2, <1>3, LifecycleAssumption DEF AgentOK

\* What an exit report makes of an agent.
ExitResult(s, code) ==
    IF ShouldRestart(s, code) THEN ScheduleRestart(MarkExited(s, code)) ELSE MarkExited(s, code)

\* An exit that counts as a crash, and one that is answered with a restart.
Counted(s, code) == s.status # "stopped" /\ code = "nonzero"
Granted(s, code) == Counted(s, code) /\ ~(s.crashes + 1 >= MaxConsecutiveCrashes)

LEMMA GrantedMeans ==
    ASSUME NEW s \in AgentState, NEW code \in {"zero", "nonzero"}
    PROVE  ShouldRestart(s, code) <=> Granted(s, code)
BY DEF ShouldRestart, StopIntended, BudgetSpent, Granted, Counted

\* markExited disarms the stability timer and touches no restart timer.  It counts
\* a crash or nothing, and gives up only on an agent whose budget is spent.
LEMMA ExitedFields ==
    ASSUME NEW s \in AgentState, NEW code \in {"zero", "nonzero"}
    PROVE  /\ MarkExited(s, code) \in AgentState
           /\ ~MarkExited(s, code).stability
           /\ MarkExited(s, code).restartTimer = s.restartTimer
           /\ MarkExited(s, code).orphans = s.orphans
           /\ ~Counted(s, code) => MarkExited(s, code).crashes = s.crashes
           /\ Counted(s, code) => MarkExited(s, code).crashes = s.crashes + 1
           /\ s.status = "stopped" => MarkExited(s, code).status = "stopped"
           /\ s.status # "stopped" =>
                 (MarkExited(s, code).status = "failed" <=>
                     Counted(s, code) /\ s.crashes + 1 >= MaxConsecutiveCrashes)
<1> DEFINE e == [ClearStability(s) EXCEPT !.exited = TRUE, !.terminalId = None]
<1>1. /\ e \in AgentState
      /\ ~e.stability /\ e.restartTimer = s.restartTimer /\ e.orphans = s.orphans
      /\ e.crashes = s.crashes /\ e.status = s.status
  BY DEF ClearStability, AgentState
<1>2. MarkExited(s, code) =
        IF StopIntended(s) THEN e
        ELSE IF code = "zero" THEN [e EXCEPT !.status = "stopped"]
        ELSE [e EXCEPT !.crashes = @ + 1,
                       !.status = IF BudgetSpent(s.crashes + 1) THEN "failed" ELSE "error"]
  BY DEF MarkExited
<1>. HIDE DEF e
<1>3. CASE StopIntended(s)
  BY <1>1, <1>2, <1>3 DEF StopIntended, Counted
<1>4. CASE ~StopIntended(s) /\ code = "zero"
  <2>1. MarkExited(s, code) = [e EXCEPT !.status = "stopped"]
    BY <1>2, <1>4
  <2>. QED  BY <1>1, <1>4, <2>1 DEF StopIntended, Counted, AgentState, Status
<1>5. CASE ~StopIntended(s) /\ code = "nonzero"
  <2> DEFINE st == IF BudgetSpent(s.crashes + 1) THEN "failed" ELSE "error"
             n == s.crashes + 1
             r == [e EXCEPT !.crashes = n, !.status = st]
  <2>1. MarkExited(s, code) = r
    BY <1>1, <1>2, <1>5
  <2>2. st \in Status /\ (st = "failed" <=> s.crashes + 1 >= MaxConsecutiveCrashes)
    BY DEF BudgetSpent, Status
  <2>3. n \in Nat /\ n = s.crashes + 1
    BY DEF AgentState
  <2>. HIDE DEF st, n
  <2>4. /\ r \in AgentState
        /\ ~r.stability /\ r.restartTimer = s.restartTimer /\ r.orphans = s.orphans
        /\ r.crashes = n /\ r.status = st
    BY <1>1, <2>2, <2>3 DEF AgentState
  <2>. HIDE DEF r
  <2>5. Counted(s, code) /\ s.status # "stopped"
    BY <1>5 DEF StopIntended, Counted
  <2>. QED  BY <2>1, <2>2, <2>3, <2>4, <2>5
<1>. QED  BY <1>3, <1>4, <1>5

\* Scheduling adds exactly one outstanding restart, whatever the handle was.
LEMMA ScheduleFields ==
    ASSUME NEW s \in AgentState
    PROVE  /\ ScheduleRestart(s) \in AgentState
           /\ ScheduleRestart(s).stability = s.stability
           /\ ScheduleRestart(s).crashes = s.crashes
           /\ ScheduleRestart(s).status = s.status
           /\ RestartsPending(ScheduleRestart(s)) = RestartsPending(s) + 1
<1> DEFINE n == IF s.restartTimer = "pending" THEN s.orphans + 1 ELSE s.orphans
           r == [s EXCEPT !.restartTimer = "pending", !.orphans = n]
<1>1. ScheduleRestart(s) = r
  BY DEF ScheduleRestart
<1>2. n \in Nat /\ n = RestartsPending(s)
  BY DEF AgentState, RestartsPending
<1>. HIDE DEF n
<1>3. /\ r \in AgentState /\ r.restartTimer = "pending" /\ r.orphans = n
      /\ r.stability = s.stability /\ r.crashes = s.crashes /\ r.status = s.status
  BY <1>2 DEF AgentState
<1>. HIDE DEF r
<1>. QED  BY <1>1, <1>2, <1>3 DEF RestartsPending

LEMMA ExitOK ==
    ASSUME NEW s, AgentOK(s), NEW code \in {"zero", "nonzero"}
    PROVE  /\ AgentOK(ExitResult(s, code))
           /\ ExitResult(s, code).crashes = IF Counted(s, code) THEN s.crashes + 1 ELSE s.crashes
           /\ RestartsPending(ExitResult(s, code)) =
                 IF Granted(s, code) THEN RestartsPending(s) + 1 ELSE RestartsPending(s)
           /\ ExitResult(s, code).status = "failed" <=>
                 Counted(s, code) /\ s.crashes + 1 >= MaxConsecutiveCrashes
<1> DEFINE m == MarkExited(s, code)
           r == ExitResult(s, code)
<1>1. /\ s \in AgentState /\ s.crashes \in Nat /\ s.orphans \in Nat
      /\ MaxConsecutiveCrashes \in Nat \ {0} /\ RestartsPending(s) <= s.crashes
      /\ RestartsPending(s) < MaxConsecutiveCrashes
  BY LifecycleAssumption DEF AgentOK, AgentState
<1>2. RestartsPending(s) \in Nat /\ RestartsPending(m) = RestartsPending(s)
  BY <1>1, ExitedFields DEF RestartsPending
<1>3. r = IF Granted(s, code) THEN ScheduleRestart(m) ELSE m
  BY <1>1, GrantedMeans DEF ExitResult
<1>4. /\ m \in AgentState /\ ~m.stability
      /\ m.crashes = IF Counted(s, code) THEN s.crashes + 1 ELSE s.crashes
      /\ m.status = "failed" <=> Counted(s, code) /\ s.crashes + 1 >= MaxConsecutiveCrashes
  BY <1>1, ExitedFields DEF Counted
<1>. SUFFICES /\ AgentOK(r)
              /\ r.crashes = IF Counted(s, code) THEN s.crashes + 1 ELSE s.crashes
              /\ RestartsPending(r) =
                    IF Granted(s, code) THEN RestartsPending(s) + 1 ELSE RestartsPending(s)
              /\ r.status = "failed" <=> Counted(s, code) /\ s.crashes + 1 >= MaxConsecutiveCrashes
  OBVIOUS
<1>. HIDE DEF m, r
<1>5. /\ r \in AgentState /\ ~r.stability
      /\ r.crashes = m.crashes /\ r.status = m.status
      /\ RestartsPending(r) = IF Granted(s, code) THEN RestartsPending(m) + 1 ELSE RestartsPending(m)
  BY <1>3, <1>4, ScheduleFields
<1>. QED  BY <1>1, <1>2, <1>4, <1>5 DEF AgentOK, Granted, Counted

LEMMA AnsweredOK ==
    ASSUME NEW s, AgentOK(s), NEW op, NEW answer, NEW t \in Terminals \cup {None}
    PROVE  AgentOK(Answered(s, op, answer, t))
BY MarkSpawnedOK, StatusOK DEF Answered, Status

------------------------------------------------------------------------------
(* Every step changes agents by those operations *)

\* What one step may do to an agent's crash counter, its outstanding restarts and
\* whether it is given up on: change none of them but to try the agent again, start or
\* drop a restart, count a crash, or forgive the crashes.
Failed(s) == s.status = "failed"

BudgetStep(s, r) ==
    \/ /\ r.crashes = s.crashes /\ RestartsPending(r) = RestartsPending(s)
       /\ Failed(r) => Failed(s)
    \/ /\ r.crashes = s.crashes
       /\ RestartsPending(s) > 0 /\ RestartsPending(r) = RestartsPending(s) - 1
       /\ Failed(r) => Failed(s)
    \/ /\ r.crashes = s.crashes + 1
       /\ RestartsPending(r) = IF s.crashes + 1 < MaxConsecutiveCrashes
                               THEN RestartsPending(s) + 1 ELSE RestartsPending(s)
       /\ Failed(r) <=> s.crashes + 1 >= MaxConsecutiveCrashes
    \/ /\ r.crashes = 0 /\ RestartsPending(s) = 0 /\ RestartsPending(r) = 0
       /\ ~Failed(s) /\ ~Failed(r)

\* A step of one agent by an operation of BackoffManager.
Operates(a) ==
    \E r \in AgentState: AgentOK(r) /\ BudgetStep(agents[a], r) /\ Update(a, r)

AgentsStep ==
    \/ UNCHANGED agents
    \/ \E a \in Agents: Operates(a)
    \/ agents' = [a \in Agents |-> MarkUnknown(agents[a])]
    \/ agents' = [a \in Agents |-> NewAgent]

LEMMA OperatesIntro ==
    ASSUME NEW a \in Agents, NEW r, AgentOK(r), BudgetStep(agents[a], r), Update(a, r)
    PROVE  AgentsStep
BY DEF AgentsStep, Operates, AgentOK

\* The fields no budget step looks at may change freely.
LEMMA SameBudget ==
    ASSUME NEW s, NEW r, r.crashes = s.crashes,
           r.restartTimer = s.restartTimer, r.orphans = s.orphans,
           Failed(r) => Failed(s)
    PROVE  BudgetStep(s, r)
BY DEF BudgetStep, RestartsPending

\* A manual restart drops the restart its handle refers to, and no other.
LEMMA ManualRestartStep ==
    ASSUME NEW s \in AgentState
    PROVE  BudgetStep(s, MarkManualRestart(s))
<1> DEFINE r == MarkManualRestart(s)
<1>1. /\ s.orphans \in Nat /\ r.orphans = s.orphans /\ r.crashes = s.crashes
      /\ r.restartTimer = "null" /\ ~Failed(r)
  BY DEF MarkManualRestart, AgentState, Failed
<1>. SUFFICES BudgetStep(s, r)  OBVIOUS
<1>. HIDE DEF r
<1>. QED  BY <1>1 DEF BudgetStep, RestartsPending

LEMMA ProceedOK ==
    ASSUME NEW h, NEW a \in Agents, AgentOK(agents[a]), ProceedRestart(h, a)
    PROVE  AgentsStep
BY MarkManualRestartOK, ManualRestartStep, OperatesIntro DEF ProceedRestart, AgentOK

\* A handler that resumes serves an agent.
LEMMA AtAgent ==
    ASSUME LifecycleInv, NEW h \in Handlers, NEW ops \in SUBSET Operation, NEW stages,
           At(h, ops, stages)
    PROVE  /\ handlers[h].agent \in Agents
           /\ handlers[h].terminal \in Terminals \cup {None}
           /\ AgentOK(agents[handlers[h].agent])
           /\ agents[handlers[h].agent] \in AgentState
<1>1. handlers[h] # Idle
  BY NoneAssumption DEF At, Idle
<1>. QED  BY <1>1 DEF LifecycleInv, TypeOK, HandlerOK, Handler

LEMMA RequestAgents ==
    ASSUME LifecycleInv, NEW h \in Handlers, NEW a \in Agents, RequestArrives(h, a)
    PROVE  AgentsStep
<1>1. AgentOK(agents[a]) /\ agents[a] \in AgentState
  BY DEF LifecycleInv, TypeOK
<1>2. ASSUME NEW p \in Projects \cup {None}, SpawnRequest(h, a, p)
      PROVE  AgentsStep
  <2> DEFINE r == [agents[a] EXCEPT !.status = "spawning", !.projectId = p]
  <2>1. /\ r \in AgentState /\ r.status = "spawning"
        /\ r.crashes = agents[a].crashes /\ r.exited = agents[a].exited
        /\ r.stability = agents[a].stability
        /\ r.restartTimer = agents[a].restartTimer /\ r.orphans = agents[a].orphans
    BY <1>1 DEF AgentState, Status
  <2>2. Update(a, r)
    BY <1>2 DEF SpawnRequest
  <2>. HIDE DEF r
  <2>3. AgentOK(r) /\ BudgetStep(agents[a], r)
    BY <1>1, <2>1, WriteOK, SameBudget DEF Failed
  <2>. QED  BY <2>2, <2>3, OperatesIntro
<1>3. CASE RestartRequest(h, a)
  BY <1>1, <1>3, ProceedOK DEF RestartRequest, AgentsStep
<1>4. CASE KillRequest(h, a) \/ RegisterRequest(h, a)
  BY <1>4 DEF KillRequest, RegisterRequest, AgentsStep
<1>. QED  BY <1>2, <1>3, <1>4 DEF RequestArrives

LEMMA TimerAgents ==
    ASSUME LifecycleInv, NEW a \in Agents,
           (\E h \in Handlers: RestartTimerFires(h, a)) \/ StabilityTimerFires(a)
    PROVE  AgentsStep
<1>1. AgentOK(agents[a]) /\ agents[a] \in AgentState
  BY DEF LifecycleInv, TypeOK
<1>2. CASE \E h \in Handlers: RestartTimerFires(h, a)
  <2>1. PICK s \in FireRestart(agents[a]) : Update(a, s)
    BY <1>2 DEF RestartTimerFires
  <2>2. AgentOK(s) /\ BudgetStep(agents[a], s)
    BY <1>1, FireRestartOK DEF BudgetStep, Failed
  <2>. QED  BY <2>1, <2>2, OperatesIntro
<1>3. CASE StabilityTimerFires(a)
  <2> DEFINE r == [agents[a] EXCEPT !.crashes = 0, !.stability = FALSE]
  <2>1. Update(a, r) /\ RestartsPending(agents[a]) = 0 /\ agents[a].stability
    BY <1>3 DEF StabilityTimerFires
  <2>2. /\ r.crashes = 0 /\ r.restartTimer = agents[a].restartTimer
        /\ r.orphans = agents[a].orphans /\ ~Failed(agents[a]) /\ ~Failed(r)
    BY <1>1, <2>1 DEF AgentOK, AgentState, Failed
  <2>3. AgentOK(r)
    BY <1>1, <2>1, ForgiveOK
  <2>. HIDE DEF r
  <2>4. BudgetStep(agents[a], r)
    BY <2>1, <2>2 DEF BudgetStep, RestartsPending
  <2>. QED  BY <2>1, <2>3, <2>4, OperatesIntro
<1>. QED  BY <1>2, <1>3

LEMMA HandlerAgents ==
    ASSUME LifecycleInv, NEW h \in Handlers, HandlerResumes(h)
    PROVE  AgentsStep
<1> DEFINE a == handlers[h].agent
           s == agents[a]
<1>1. ASSUME NEW ops \in SUBSET Operation, NEW stages, At(h, ops, stages)
      PROVE  /\ a \in Agents /\ AgentOK(s) /\ s \in AgentState
             /\ handlers[h].terminal \in Terminals \cup {None}
  BY <1>1, AtAgent
<1>2. ASSUME a \in Agents, AgentOK(s), s \in AgentState,
             NEW status \in Status \ {"failed"}, NEW t \in Terminals \cup {None}
      PROVE  /\ AgentOK([s EXCEPT !.status = status])
             /\ BudgetStep(s, [s EXCEPT !.status = status])
             /\ BudgetStep(s, MarkSpawned(s, t))
  <2> DEFINE r == [s EXCEPT !.status = status]
             m == MarkSpawned(s, t)
  <2>1. /\ r.crashes = s.crashes /\ r.restartTimer = s.restartTimer /\ r.orphans = s.orphans
        /\ ~Failed(r)
    BY <1>2 DEF AgentState, Failed
  <2>2. /\ m.crashes = s.crashes /\ m.restartTimer = s.restartTimer /\ m.orphans = s.orphans
        /\ ~Failed(m)
    BY <1>2 DEF AgentState, MarkSpawned, Failed
  <2>. SUFFICES AgentOK(r) /\ BudgetStep(s, r) /\ BudgetStep(s, m)  OBVIOUS
  <2>3. AgentOK(r)
    BY <1>2, StatusOK
  <2>. HIDE DEF r, m
  <2>. QED  BY <2>1, <2>2, <2>3, SameBudget
<1>3. CASE Bootstrapped(h) \/ RestartFails(h) \/ KillOrRegisterFails(h)
  BY <1>3 DEF Bootstrapped, RestartFails, KillOrRegisterFails, AgentsStep
<1>4. CASE Registered(h)
  <2>1. a \in Agents /\ AgentOK(s) /\ s \in AgentState /\ handlers[h].terminal \in Terminals \cup {None}
    BY <1>4, <1>1 DEF Registered, Operation
  <2>2. PICK p \in Projects : Update(a, MarkSpawned([s EXCEPT !.projectId = p], handlers[h].terminal))
    BY <1>4 DEF Registered
  <2> DEFINE r == [s EXCEPT !.projectId = p]
             m == MarkSpawned(r, handlers[h].terminal)
  <2>3. /\ AgentOK(r) /\ r \in AgentState
        /\ r.crashes = s.crashes /\ r.restartTimer = s.restartTimer /\ r.orphans = s.orphans
    BY <2>1 DEF AgentOK, AgentState, RestartsPending
  <2>4. Update(a, m)
    BY <2>2
  <2>. HIDE DEF r
  <2>5. AgentOK(m)
    BY <2>1, <2>3, MarkSpawnedOK
  <2>6. /\ m.crashes = r.crashes /\ m.restartTimer = r.restartTimer /\ m.orphans = r.orphans
        /\ ~Failed(m)
    BY <2>3 DEF AgentState, MarkSpawned, Failed
  <2>. HIDE DEF m
  <2>7. BudgetStep(s, m)
    BY <2>3, <2>6, SameBudget
  <2>. QED  BY <2>1, <2>4, <2>5, <2>7, OperatesIntro
<1>5. CASE RestartResolved(h)
  BY <1>1, <1>5, ProceedOK DEF RestartResolved, Operation
<1>6. CASE RestartKillReturns(h)
  <2>1. a \in Agents /\ AgentOK(s) /\ s \in AgentState
    BY <1>6, <1>1 DEF RestartKillReturns, Operation
  <2> DEFINE r == [s EXCEPT !.terminalId = None]
  <2>2. /\ AgentOK(r)
        /\ r.crashes = s.crashes /\ r.restartTimer = s.restartTimer /\ r.orphans = s.orphans
        /\ Failed(r) => Failed(s)
    BY <2>1 DEF AgentOK, AgentState, RestartsPending, Failed
  <2>3. Update(a, r)
    BY <1>6 DEF RestartKillReturns
  <2>. HIDE DEF r
  <2>. QED  BY <2>1, <2>2, <2>3, SameBudget, OperatesIntro
<1>7. CASE KillAnswered(h)
  <2>1. a \in Agents /\ AgentOK(s) /\ s \in AgentState
    BY <1>7, <1>1 DEF KillAnswered, Operation
  <2> DEFINE r == [s EXCEPT !.status = "stopped", !.terminalId = None]
  <2>2. /\ AgentOK(r)
        /\ r.crashes = s.crashes /\ r.restartTimer = s.restartTimer /\ r.orphans = s.orphans
        /\ ~Failed(r)
    BY <2>1 DEF AgentOK, AgentState, Status, RestartsPending, Failed
  <2>3. Update(a, r)
    BY <1>7 DEF KillAnswered
  <2>. HIDE DEF r
  <2>. QED  BY <2>1, <2>2, <2>3, SameBudget, OperatesIntro
<1>8. CASE SpawnAnswered(h)
  <2>1. a \in Agents /\ AgentOK(s) /\ s \in AgentState /\ handlers[h].terminal \in Terminals \cup {None}
    BY <1>8, <1>1 DEF SpawnAnswered, Operation
  <2> DEFINE r == Answered(s, handlers[h].op, handlers[h].answer, handlers[h].terminal)
  <2>2. AgentOK(r)
    BY <2>1, AnsweredOK
  <2>3. BudgetStep(s, r)
    BY <1>2, <2>1 DEF Answered, Status
  <2>4. Update(a, r)
    BY <1>8 DEF SpawnAnswered
  <2>. HIDE DEF r
  <2>. QED  BY <2>1, <2>2, <2>3, <2>4, OperatesIntro
<1>9. CASE SpawnFails(h)
  <2>1. a \in Agents /\ AgentOK(s) /\ s \in AgentState
    BY <1>9, <1>1 DEF SpawnFails, Operation
  <2> DEFINE r == [s EXCEPT !.status = "error"]
  <2>2. AgentOK(r) /\ BudgetStep(s, r)
    BY <1>2, <2>1 DEF Status
  <2>3. Update(a, r)
    BY <1>9 DEF SpawnFails
  <2>. HIDE DEF r
  <2>. QED  BY <2>1, <2>2, <2>3, OperatesIntro
<1>. QED  BY <1>3, <1>4, <1>5, <1>6, <1>7, <1>8, <1>9 DEF HandlerResumes

LEMMA ExitAgents ==
    ASSUME LifecycleInv, NEW e \in exits, PtyExitReport(e) \/ LifecyclePtyExitReport(e)
    PROVE  AgentsStep
<1> DEFINE s == agents[e.agent]
           r == ExitResult(s, e.code)
<1>1. e.agent \in Agents /\ e.code \in {"zero", "nonzero"}
  BY DEF LifecycleInv, TypeOK, ExitReport
<1>2. AgentOK(s) /\ s \in AgentState
  BY <1>1 DEF LifecycleInv, TypeOK
<1>3. UNCHANGED agents \/ Update(e.agent, r)
  BY DEF PtyExitReport, LifecyclePtyExitReport, HandlePtyExit, ExitResult
<1>4. AgentOK(r) /\ BudgetStep(s, r)
  <2>1. s.crashes \in Nat /\ MaxConsecutiveCrashes \in Nat
    BY <1>2, LifecycleAssumption DEF AgentState
  <2>. HIDE DEF s, r
  <2>2. /\ AgentOK(r) /\ r.crashes = IF Counted(s, e.code) THEN s.crashes + 1 ELSE s.crashes
        /\ RestartsPending(r) =
              IF Granted(s, e.code) THEN RestartsPending(s) + 1 ELSE RestartsPending(s)
        /\ Failed(r) <=> Counted(s, e.code) /\ s.crashes + 1 >= MaxConsecutiveCrashes
    BY <1>1, <1>2, ExitOK DEF r, Failed
  <2>. QED  BY <2>1, <2>2 DEF BudgetStep, Granted
<1>. HIDE DEF r
<1>. QED  BY <1>1, <1>3, <1>4, OperatesIntro DEF AgentsStep

LEMMA NextAgents == LifecycleInv /\ [Next]_vars => AgentsStep
<1>. SUFFICES ASSUME LifecycleInv, [Next]_vars PROVE AgentsStep
  OBVIOUS
<1>1. CASE UNCHANGED vars
  BY <1>1 DEF vars, AgentsStep
<1>2. ASSUME NEW h \in Handlers, DesktopAnswers(h) PROVE AgentsStep
  BY <1>2 DEF DesktopAnswers, DesktopSpawns, DesktopConflict, DesktopRefuses, DesktopKills,
              DesktopKillsNothing, AgentsStep
<1>3. ASSUME NEW a \in Agents, TerminalExits(a) \/ DesktopSpawnsAlone(a) PROVE AgentsStep
  BY <1>3 DEF TerminalExits, DesktopSpawnsAlone, AgentsStep
<1>4. CASE CallbackDown \/ SidecarRestarts
  BY <1>4 DEF CallbackDown, SidecarRestarts, AgentsStep
<1>. QED  BY <1>1, <1>2, <1>3, <1>4, RequestAgents, TimerAgents, HandlerAgents, ExitAgents DEF Next

------------------------------------------------------------------------------
(* The invariant *)

LEMMA AgentsStepOK ==
    ASSUME LifecycleInv, AgentsStep
    PROVE  agents' \in [Agents -> AgentState] /\ \A a \in Agents: AgentOK(agents'[a])
<1>1. CASE UNCHANGED agents
  BY <1>1 DEF LifecycleInv, TypeOK
<1>2. CASE \E a \in Agents: Operates(a)
  BY <1>2 DEF Operates, Update, LifecycleInv, TypeOK
<1>3. CASE agents' = [a \in Agents |-> MarkUnknown(agents[a])]
  BY <1>3, MarkUnknownOK DEF LifecycleInv, AgentOK
<1>4. CASE agents' = [a \in Agents |-> NewAgent]
  BY <1>4, NewAgentOK DEF AgentOK
<1>. QED  BY <1>1, <1>2, <1>3, <1>4 DEF AgentsStep

\* The part of the invariant about the slots, the terminals and the reports.
HandlersOK ==
    handlers \in [Handlers -> Handler] /\ \A h \in Handlers: HandlerOK(handlers[h])

DesktopOK ==
    /\ pty \in [Agents -> Terminals \cup {None}]
    /\ exits \subseteq ExitReport

LEMMA IdleOK == HandlerOK(Idle)
BY NoneAssumption DEF HandlerOK, Idle, Handler, Stage

LEMMA SlotOK ==
    ASSUME HandlersOK, NEW h \in Handlers, NEW r, HandlerOK(r), handlers' = [handlers EXCEPT ![h] = r]
    PROVE  HandlersOK'
BY DEF HandlersOK, HandlerOK

\* A slot takes a request for an agent.
LEMMA StartOK ==
    ASSUME HandlersOK, NEW h \in Handlers, NEW op \in Operation, NEW a \in Agents,
           NEW at \in Stage, NEW t \in Terminals \cup {None}, at = "killing" => t # None,
           handlers' = [handlers EXCEPT ![h] = Request(op, a, at, t)]
    PROVE  HandlersOK'
<1>1. HandlerOK(Request(op, a, at, t))
  BY NoneAssumption DEF Request, HandlerOK, Handler
<1>. QED  BY <1>1, SlotOK

\* It goes on to another await for the same agent.
LEMMA MoveOnOK ==
    ASSUME HandlersOK, NEW h \in Handlers, handlers[h].agent # None,
           NEW at \in Stage \ {"killing"}, MoveOn(h, at)
    PROVE  HandlersOK'
<1> DEFINE r == [handlers[h] EXCEPT !.at = at, !.terminal = None]
<1>1. handlers[h] \in Handler /\ handlers' = [handlers EXCEPT ![h] = r]
  BY DEF HandlersOK, MoveOn
<1>2. r \in Handler /\ r.agent = handlers[h].agent /\ r.at = at
  BY <1>1 DEF Handler
<1>. HIDE DEF r
<1>. QED  BY <1>1, <1>2, SlotOK DEF HandlerOK

LEMMA ReplyOK ==
    ASSUME HandlersOK, NEW h \in Handlers, handlers[h].agent # None, NEW answer \in Answer,
           NEW t \in Terminals \cup {None}, Reply(h, answer, t)
    PROVE  HandlersOK'
<1> DEFINE r == [handlers[h] EXCEPT !.at = "spawnAnswer", !.answer = answer, !.terminal = t]
<1>1. handlers[h] \in Handler /\ handlers' = [handlers EXCEPT ![h] = r]
  BY DEF HandlersOK, Reply
<1>2. r \in Handler /\ r.agent = handlers[h].agent /\ r.at = "spawnAnswer"
  BY <1>1 DEF Handler, Stage
<1>. HIDE DEF r
<1>. QED  BY <1>1, <1>2, SlotOK DEF HandlerOK

LEMMA FinishOK ==
    ASSUME HandlersOK, NEW h \in Handlers, Finish(h)
    PROVE  HandlersOK'
BY IdleOK, SlotOK DEF Finish

\* A terminal dies and its exit is reported.
LEMMA DiesOK ==
    ASSUME DesktopOK, NEW a \in Agents, pty[a] \in Terminals, NEW code \in {"zero", "nonzero"},
           NEW deliberate \in BOOLEAN, Dies(a, code, deliberate)
    PROVE  DesktopOK'
BY DEF DesktopOK, Dies, ExitReport

LEMMA ProceedSlots ==
    ASSUME HandlersOK, NEW h \in Handlers, NEW a \in Agents,
           agents[a].terminalId \in Terminals \cup {None}, ProceedRestart(h, a)
    PROVE  HandlersOK'
BY StartOK DEF ProceedRestart, Operation, Stage

LEMMA RequestSlots ==
    ASSUME LifecycleInv, HandlersOK, NEW h \in Handlers, NEW a \in Agents,
           RequestArrives(h, a) \/ RestartTimerFires(h, a)
    PROVE  HandlersOK' /\ UNCHANGED desktop
<1>1. agents[a].terminalId \in Terminals \cup {None} /\ pty[a] \in Terminals \cup {None}
  BY DEF LifecycleInv, TypeOK, AgentState
<1>2. ASSUME NEW p, SpawnRequest(h, a, p) PROVE HandlersOK' /\ UNCHANGED desktop
  BY <1>2, StartOK DEF SpawnRequest, Start, Operation, Stage
<1>3. CASE RestartRequest(h, a)
  <2>1. CASE agents[a].projectId = None
    BY <1>1, <1>3, <2>1, ProceedSlots DEF RestartRequest
  <2>2. CASE agents[a].projectId # None
    BY <1>3, <2>2, StartOK DEF RestartRequest, Operation, Stage
  <2>. QED  BY <2>1, <2>2
<1>4. CASE KillRequest(h, a)
  BY <1>1, <1>4, StartOK DEF KillRequest, Start, Operation, Stage
<1>5. CASE RegisterRequest(h, a)
  BY <1>1, <1>5, StartOK DEF RegisterRequest, Start, Operation, Stage
<1>6. CASE RestartTimerFires(h, a)
  BY <1>6, StartOK DEF RestartTimerFires, Start, Operation, Stage
<1>. QED  BY <1>2, <1>3, <1>4, <1>5, <1>6 DEF RequestArrives

LEMMA HandlerSlots ==
    ASSUME LifecycleInv, HandlersOK, NEW h \in Handlers, HandlerResumes(h)
    PROVE  HandlersOK' /\ UNCHANGED desktop
<1>1. ASSUME NEW ops \in SUBSET Operation, NEW stages, At(h, ops, stages)
      PROVE  /\ handlers[h].agent # None /\ handlers[h].agent \in Agents
             /\ agents[handlers[h].agent].terminalId \in Terminals \cup {None}
  BY <1>1, AtAgent, NoneAssumption DEF AgentState
<1>2. CASE Bootstrapped(h)
  BY <1>1, <1>2, MoveOnOK DEF Bootstrapped, Operation, Stage
<1>3. CASE RestartKillReturns(h)
  BY <1>1, <1>3, MoveOnOK DEF RestartKillReturns, Operation, Stage
<1>4. CASE RestartResolved(h)
  BY <1>1, <1>4, ProceedSlots DEF RestartResolved, Operation
<1>5. CASE \/ Registered(h) \/ KillAnswered(h) \/ SpawnAnswered(h)
           \/ SpawnFails(h) \/ RestartFails(h) \/ KillOrRegisterFails(h)
  BY <1>5, FinishOK DEF Registered, KillAnswered, SpawnAnswered, SpawnFails, RestartFails,
                        KillOrRegisterFails
<1>. QED  BY <1>2, <1>3, <1>4, <1>5 DEF HandlerResumes

LEMMA DesktopSlots ==
    ASSUME LifecycleInv, HandlersOK, DesktopOK, NEW h \in Handlers, DesktopAnswers(h)
    PROVE  HandlersOK' /\ DesktopOK'
<1>1. ASSUME NEW ops \in SUBSET Operation, NEW stages, At(h, ops, stages)
      PROVE  /\ handlers[h].agent # None /\ handlers[h].agent \in Agents
             /\ pty[handlers[h].agent] \in Terminals \cup {None}
  BY <1>1, AtAgent, NoneAssumption DEF DesktopOK
<1>2. CASE DesktopSpawns(h)
  <2>1. /\ handlers[h].agent # None /\ handlers[h].agent \in Agents
    BY <1>1, <1>2 DEF DesktopSpawns, Operation
  <2>2. PICK t \in Terminals : pty' = [pty EXCEPT ![handlers[h].agent] = t] /\ Reply(h, "ok", t)
    BY <1>2 DEF DesktopSpawns
  <2>3. HandlersOK'
    BY <2>1, <2>2, ReplyOK DEF Answer
  <2>4. DesktopOK'
    BY <1>2, <2>1, <2>2 DEF DesktopSpawns, DesktopOK
  <2>. QED  BY <2>3, <2>4
<1>3. CASE DesktopConflict(h) \/ DesktopRefuses(h)
  BY <1>1, <1>3, ReplyOK
     DEF DesktopConflict, DesktopRefuses, Operation, Answer, DesktopOK, desktop
<1>4. CASE DesktopKills(h)
  <2>1. handlers[h].agent # None /\ handlers[h].agent \in Agents
    BY <1>1, <1>4 DEF DesktopKills, Operation
  <2>2. pty[handlers[h].agent] \in Terminals
    BY <1>4, <2>1 DEF DesktopKills, At, HandlersOK, HandlerOK, Handler
  <2>3. HandlersOK'
    BY <1>4, <2>1, MoveOnOK DEF DesktopKills, Stage
  <2>. QED  BY <1>4, <2>1, <2>2, <2>3, DiesOK DEF DesktopKills
<1>5. CASE DesktopKillsNothing(h)
  BY <1>1, <1>5, MoveOnOK DEF DesktopKillsNothing, Operation, Stage, DesktopOK, desktop
<1>. QED  BY <1>2, <1>3, <1>4, <1>5 DEF DesktopAnswers

LEMMA OthersOK ==
    ASSUME LifecycleInv, HandlersOK, DesktopOK, [Next]_vars
    PROVE  HandlersOK' /\ DesktopOK'
<1>1. CASE UNCHANGED vars
  BY <1>1 DEF vars, HandlersOK, DesktopOK
<1>2. ASSUME NEW h \in Handlers, NEW a \in Agents, RequestArrives(h, a) \/ RestartTimerFires(h, a)
      PROVE  HandlersOK' /\ DesktopOK'
  BY <1>2, RequestSlots DEF desktop, DesktopOK
<1>3. ASSUME NEW h \in Handlers, HandlerResumes(h) PROVE HandlersOK' /\ DesktopOK'
  BY <1>3, HandlerSlots DEF desktop, DesktopOK
<1>4. ASSUME NEW e \in exits, PtyExitReport(e) \/ LifecyclePtyExitReport(e)
      PROVE  HandlersOK' /\ DesktopOK'
  BY <1>4 DEF PtyExitReport, LifecyclePtyExitReport, HandlePtyExit, HandlersOK, DesktopOK
<1>5. ASSUME NEW a \in Agents, StabilityTimerFires(a) PROVE HandlersOK' /\ DesktopOK'
  BY <1>5 DEF StabilityTimerFires, desktop, HandlersOK, DesktopOK
<1>6. ASSUME NEW a \in Agents, TerminalExits(a) PROVE HandlersOK' /\ DesktopOK'
  BY <1>6, DiesOK DEF TerminalExits, HandlersOK, DesktopOK
<1>7. ASSUME NEW a \in Agents, DesktopSpawnsAlone(a) PROVE HandlersOK' /\ DesktopOK'
  BY <1>7 DEF DesktopSpawnsAlone, HandlersOK, DesktopOK
<1>8. CASE CallbackDown
  BY <1>8 DEF CallbackDown, desktop, HandlersOK, DesktopOK
<1>9. CASE SidecarRestarts
  BY <1>9, IdleOK DEF SidecarRestarts, HandlersOK, HandlerOK, DesktopOK
<1>. QED  BY <1>1, <1>2, <1>3, <1>4, <1>5, <1>6, <1>7, <1>8, <1>9, DesktopSlots DEF Next

LEMMA InvSplit == LifecycleInv <=> /\ agents \in [Agents -> AgentState]
                                   /\ \A a \in Agents: AgentOK(agents[a])
                                   /\ HandlersOK /\ DesktopOK
BY DEF LifecycleInv, TypeOK, HandlersOK, DesktopOK

LEMMA InitInv == Init => LifecycleInv
BY NewAgentOK, IdleOK DEF Init, LifecycleInv, TypeOK, AgentOK, HandlerOK

LEMMA NextInv == LifecycleInv /\ [Next]_vars => LifecycleInv'
<1>. SUFFICES ASSUME LifecycleInv, [Next]_vars PROVE LifecycleInv'
  OBVIOUS
<1>1. HandlersOK /\ DesktopOK
  BY InvSplit
<1>2. HandlersOK' /\ DesktopOK'
  BY <1>1, OthersOK
<1>3. agents' \in [Agents -> AgentState] /\ \A a \in Agents: AgentOK(agents'[a])
  BY NextAgents, AgentsStepOK
<1>. QED  BY <1>2, <1>3 DEF LifecycleInv, TypeOK, HandlersOK, DesktopOK, AgentOK, RestartsPending

\* The inductive invariant holds of every behaviour.
THEOREM Invariance == Spec => []LifecycleInv
BY InitInv, NextInv, PTL DEF Spec

\* Every agent record, request slot, terminal and exit report keeps its type: no
\* interleaving of routes, timers and callbacks writes a value the code does not expect.
THEOREM TypeCorrect == Spec => []TypeOK
<1>1. LifecycleInv => TypeOK
  BY DEF LifecycleInv
<1>. QED  BY <1>1, Invariance, PTL

\* For any budget and any number of agents and concurrent requests, 'failed' means
\* that the budget is spent and that no stability timer can forgive it.
THEOREM FailedCorrect == Spec => []FailedMeansExhausted
<1>1. LifecycleInv => FailedMeansExhausted
  BY DEF LifecycleInv, AgentOK, FailedMeansExhausted
<1>. QED  BY <1>1, Invariance, PTL

\* Overwritten timer handles never let more restarts be outstanding than crashes
\* counted, nor as many as the budget.
THEOREM RestartsBounded == Spec => []RestartsWithinBudget
<1>1. LifecycleInv => RestartsWithinBudget
  BY DEF LifecycleInv, AgentOK, RestartsWithinBudget
<1>. QED  BY <1>1, Invariance, PTL

\* An armed stability timer has seen no exit but deliberate ones.
THEOREM ArmedCorrect == Spec => []ArmedSinceLastExit
<1>1. LifecycleInv => ArmedSinceLastExit
  BY DEF LifecycleInv, AgentOK, ArmedSinceLastExit
<1>. QED  BY <1>1, Invariance, PTL

------------------------------------------------------------------------------
(* The sidecar implements CrashBudget *)

LEMMA BudgetInit == Init => Budget!Init
BY DEF Init, Budget!Init, NewAgent, RestartsPending

\* The abstract variables, and how one agent's step changes them.
Crashes == [a \in Agents |-> agents[a].crashes]
Pending == [a \in Agents |-> RestartsPending(agents[a])]
GivenUp == {a \in Agents: agents[a].status = "failed"}

LEMMA BudgetOperates ==
    ASSUME LifecycleInv, NEW a \in Agents, Operates(a)
    PROVE  \/ Budget!Crash(a) \/ Budget!Retry(a) \/ Budget!UseRestart(a) \/ Budget!Forgive(a)
           \/ UNCHANGED <<Crashes, Pending, GivenUp>>
<1> DEFINE s == agents[a]
<1>1. PICK r \in AgentState : BudgetStep(s, r) /\ Update(a, r)
  BY DEF Operates
<1>2. agents \in [Agents -> AgentState] /\ agents' = [agents EXCEPT ![a] = r]
  BY <1>1 DEF LifecycleInv, TypeOK, Update
<1>3. /\ Crashes[a] = s.crashes /\ Pending[a] = RestartsPending(s)
      /\ Crashes' = [Crashes EXCEPT ![a] = r.crashes]
      /\ Pending' = [Pending EXCEPT ![a] = RestartsPending(r)]
  BY <1>2 DEF Crashes, Pending
<1>4. Crashes = [Crashes EXCEPT ![a] = Crashes[a]] /\ Pending = [Pending EXCEPT ![a] = Pending[a]]
  BY DEF Crashes, Pending
<1>5. /\ a \in GivenUp <=> Failed(s)
      /\ GivenUp' = IF Failed(r) THEN GivenUp \cup {a} ELSE GivenUp \ {a}
  BY <1>2 DEF GivenUp, Failed
<1>6. s.crashes \in Nat /\ MaxConsecutiveCrashes \in Nat
  BY <1>2, LifecycleAssumption DEF AgentState
<1>. HIDE DEF s
<1>7. CASE /\ r.crashes = s.crashes /\ RestartsPending(r) = RestartsPending(s)
           /\ Failed(r) => Failed(s)
  <2>1. UNCHANGED <<Crashes, Pending>>
    BY <1>3, <1>4, <1>7
  <2>2. UNCHANGED GivenUp \/ (a \in GivenUp /\ GivenUp' = GivenUp \ {a})
    BY <1>5, <1>7
  <2>. QED  BY <2>1, <2>2 DEF Budget!Retry, Crashes, Pending, GivenUp
<1>8. CASE /\ r.crashes = s.crashes
           /\ RestartsPending(s) > 0 /\ RestartsPending(r) = RestartsPending(s) - 1
           /\ Failed(r) => Failed(s)
  <2>1. GivenUp' \in {GivenUp, GivenUp \ {a}}
    BY <1>5, <1>8
  <2>. QED  BY <1>3, <1>4, <1>8, <2>1 DEF Budget!UseRestart, Crashes, Pending, GivenUp
<1>9. CASE /\ r.crashes = s.crashes + 1
           /\ RestartsPending(r) = IF s.crashes + 1 < MaxConsecutiveCrashes
                                   THEN RestartsPending(s) + 1 ELSE RestartsPending(s)
           /\ Failed(r) <=> s.crashes + 1 >= MaxConsecutiveCrashes
  <2>1. Crashes' = [Crashes EXCEPT ![a] = @ + 1]
    BY <1>3, <1>9
  <2>2. IF Crashes[a] + 1 < MaxConsecutiveCrashes
        THEN Pending' = [Pending EXCEPT ![a] = @ + 1] ELSE UNCHANGED Pending
    BY <1>3, <1>4, <1>9
  <2>3. GivenUp' = IF Crashes[a] + 1 < MaxConsecutiveCrashes THEN GivenUp \ {a} ELSE GivenUp \cup {a}
    BY <1>3, <1>5, <1>6, <1>9
  <2>. QED  BY <2>1, <2>2, <2>3 DEF Budget!Crash, Crashes, Pending, GivenUp
<1>10. CASE /\ r.crashes = 0 /\ RestartsPending(s) = 0 /\ RestartsPending(r) = 0
            /\ ~Failed(s) /\ ~Failed(r)
  <2>1. a \notin GivenUp /\ UNCHANGED GivenUp
    BY <1>5, <1>10
  <2>. QED  BY <1>3, <1>4, <1>10, <2>1 DEF Budget!Forgive, Crashes, Pending, GivenUp
<1>. QED  BY <1>1, <1>7, <1>8, <1>9, <1>10 DEF BudgetStep

LEMMA BudgetNext == LifecycleInv /\ [Next]_vars => [Budget!Next]_(Budget!vars)
<1>. SUFFICES ASSUME LifecycleInv, AgentsStep
              PROVE  Budget!Next \/ UNCHANGED <<Crashes, Pending, GivenUp>>
  BY NextAgents DEF Budget!vars, Crashes, Pending, GivenUp
<1>1. CASE UNCHANGED agents
  BY <1>1 DEF Crashes, Pending, GivenUp
<1>2. CASE \E a \in Agents: Operates(a)
  BY <1>2, BudgetOperates DEF Budget!Next
<1>3. CASE agents' = [a \in Agents |-> MarkUnknown(agents[a])]
  <2>1. ASSUME NEW a \in Agents
        PROVE  /\ agents'[a].crashes = agents[a].crashes
               /\ RestartsPending(agents'[a]) = RestartsPending(agents[a])
               /\ agents'[a].status = "failed" <=> agents[a].status = "failed"
    BY <1>3 DEF LifecycleInv, TypeOK, AgentState, MarkUnknown, RestartsPending
  <2>. QED  BY <2>1 DEF Crashes, Pending, GivenUp
<1>4. CASE agents' = [a \in Agents |-> NewAgent]
  BY <1>4 DEF Budget!Next, Budget!Forget, NewAgent, RestartsPending
<1>. QED  BY <1>1, <1>2, <1>3, <1>4 DEF AgentsStep

\* The detailed specification implements the abstract one: whatever the desktop and
\* the requests do, five crashes in a row end in 'failed' and never in a restart storm.
THEOREM ImplementsBudget == Spec => BudgetSpec
BY BudgetInit, Invariance, BudgetNext, PTL DEF Spec, BudgetSpec, Budget!Spec

\* The inductive invariant of the abstract budget, over its variables.
BudgetHolds(crashes, pending, givenUp) ==
    /\ crashes \in [Agents -> Nat] /\ pending \in [Agents -> Nat] /\ givenUp \subseteq Agents
    /\ \A a \in Agents: pending[a] <= crashes[a] /\ pending[a] < MaxConsecutiveCrashes
    /\ \A a \in givenUp: crashes[a] >= MaxConsecutiveCrashes

BudgetInv == BudgetHolds(Crashes, Pending, GivenUp)

LEMMA BudgetStepOK == BudgetInv /\ [Budget!Next]_(Budget!vars) => BudgetInv'
<1>. SUFFICES ASSUME BudgetInv, [Budget!Next]_(Budget!vars) PROVE BudgetInv'
  OBVIOUS
<1>1. MaxConsecutiveCrashes \in Nat \ {0}
  BY LifecycleAssumption
<1>2. CASE UNCHANGED Budget!vars
  BY <1>2 DEF Budget!vars, BudgetInv, Crashes, Pending, GivenUp
<1>3. ASSUME NEW a \in Agents, Budget!Crash(a) PROVE BudgetInv'
  <2>1. /\ Crashes' = [Crashes EXCEPT ![a] = @ + 1]
        /\ IF Crashes[a] + 1 < MaxConsecutiveCrashes
           THEN Pending' = [Pending EXCEPT ![a] = @ + 1] /\ GivenUp' = GivenUp \ {a}
           ELSE GivenUp' = GivenUp \cup {a} /\ Pending' = Pending
    BY <1>3 DEF Budget!Crash, Crashes, Pending, GivenUp
  <2>. QED  BY <1>1, <2>1 DEF BudgetInv, BudgetHolds
<1>4. ASSUME NEW a \in Agents, Budget!Retry(a) PROVE BudgetInv'
  <2>1. Crashes' = Crashes /\ Pending' = Pending /\ GivenUp' = GivenUp \ {a}
    BY <1>4 DEF Budget!Retry, Crashes, Pending, GivenUp
  <2>. QED  BY <2>1 DEF BudgetInv, BudgetHolds
<1>5. ASSUME NEW a \in Agents, Budget!UseRestart(a) PROVE BudgetInv'
  <2>1. /\ Crashes' = Crashes /\ GivenUp' \in {GivenUp, GivenUp \ {a}}
        /\ Pending[a] > 0 /\ Pending' = [Pending EXCEPT ![a] = @ - 1]
    BY <1>5 DEF Budget!UseRestart, Crashes, Pending, GivenUp
  <2>. QED  BY <1>1, <2>1 DEF BudgetInv, BudgetHolds
<1>6. ASSUME NEW a \in Agents, Budget!Forgive(a) PROVE BudgetInv'
  <2>1. /\ Crashes' = [Crashes EXCEPT ![a] = 0] /\ Pending' = Pending /\ GivenUp' = GivenUp
        /\ Pending[a] = 0 /\ a \notin GivenUp
    BY <1>6 DEF Budget!Forgive, Crashes, Pending, GivenUp
  <2>. QED  BY <1>1, <2>1 DEF BudgetInv, BudgetHolds
<1>7. CASE Budget!Forget
  <2>1. /\ Crashes' = [a \in Agents |-> 0] /\ Pending' = [a \in Agents |-> 0] /\ GivenUp' = {}
    BY <1>7 DEF Budget!Forget, Crashes, Pending, GivenUp
  <2>. QED  BY <1>1, <2>1 DEF BudgetInv, BudgetHolds
<1>. QED  BY <1>2, <1>3, <1>4, <1>5, <1>6, <1>7 DEF Budget!Next

\* What the budget comes to, whoever keeps it: an agent has fewer restarts outstanding
\* than crashes tolerated, and is given up on only with its budget spent.
THEOREM BudgetMeans == BudgetSpec => [](Budget!WithinBudget /\ Budget!GivenUpIsSpent)
<1>1. Budget!Init => BudgetInv
  <2>. SUFFICES ASSUME Budget!Init PROVE BudgetInv
    OBVIOUS
  <2>1. Crashes = [a \in Agents |-> 0] /\ Pending = [a \in Agents |-> 0] /\ GivenUp = {}
    BY DEF Budget!Init, Crashes, Pending, GivenUp
  <2>. QED  BY <2>1, LifecycleAssumption DEF BudgetInv, BudgetHolds
<1>2. BudgetInv => Budget!WithinBudget /\ Budget!GivenUpIsSpent
  BY DEF BudgetInv, BudgetHolds, Budget!WithinBudget, Budget!GivenUpIsSpent, Crashes, Pending, GivenUp
<1>. QED  BY <1>1, <1>2, BudgetStepOK, PTL DEF BudgetSpec, Budget!Spec

------------------------------------------------------------------------------
(* What a step may leave behind: nobody's agent, or a stop that does not hold *)

\* Slot r is to settle the status of agent a.
Owns(r, a) == r.agent = a /\ (r.op = "spawn" \/ (r.op = "restart" /\ r.at # "resolve"))

\* The step strands agent a only by a restart that ends.
StrandOK(a) ==
    (agents'[a].status = "spawning" /\ ~Owned(a)') =>
        \/ agents[a].status = "spawning" /\ ~Owned(a)
        \/ \E h \in Handlers: /\ handlers[h].op = "restart" /\ handlers[h].agent = a
                              /\ handlers'[h] = Idle

\* The step ends the quiet of agent a only by a new request.
QuietOK(a) ==
    Quiet(a) => \/ Quiet(a)'
                \/ \E h \in Handlers:
                      /\ handlers[h] = Idle
                      /\ handlers'[h].op \in {"spawn", "restart", "register"}
                      /\ handlers'[h].agent = a

\* What is asked of a slot that becomes r: it may take up a spawning, lets go of it
\* only with the status settled or as a restart that ends, and does not take up a
\* quiet agent but by a request.
SlotStep(h, r, a) ==
    /\ agents'[a].status = "spawning" => agents[a].status = "spawning" \/ Owns(r, a)
    /\ Owns(handlers[h], a) /\ agents'[a].status = "spawning"
           => Owns(r, a) \/ (handlers[h].op = "restart" /\ r = Idle)
    /\ Quiet(a) => \/ /\ agents'[a].status = "stopped" /\ RestartsPending(agents'[a]) = 0
                      /\ r.agent = a => r.op = "kill"
                   \/ /\ handlers[h] = Idle /\ r.agent = a
                      /\ r.op \in {"spawn", "restart", "register"}

LEMMA SlotStepOK ==
    ASSUME HandlersOK, NEW h \in Handlers, NEW r, handlers' = [handlers EXCEPT ![h] = r],
           NEW a \in Agents, SlotStep(h, r, a)
    PROVE  StrandOK(a) /\ QuietOK(a)
<1>1. handlers'[h] = r /\ \A g \in Handlers : g # h => handlers'[g] = handlers[g]
  BY DEF HandlersOK
<1>2. StrandOK(a)
  BY <1>1 DEF SlotStep, StrandOK, Owned, Owns
<1>3. QuietOK(a)
  <2>1. CASE /\ agents'[a].status = "stopped" /\ RestartsPending(agents'[a]) = 0
             /\ r.agent = a => r.op = "kill"
    <3>1. RestartsPending(agents[a])' = 0
      BY <2>1 DEF RestartsPending
    <3>. QED  BY <1>1, <2>1, <3>1 DEF QuietOK, Quiet
  <2>2. CASE handlers[h] = Idle /\ r.agent = a /\ r.op \in {"spawn", "restart", "register"}
    BY <1>1, <2>2 DEF QuietOK
  <2>. QED  BY <2>1, <2>2 DEF SlotStep, QuietOK
<1>. QED  BY <1>2, <1>3

\* A step that leaves the slots alone.
LEMMA NoSlotOK ==
    ASSUME UNCHANGED handlers, NEW a \in Agents,
           agents'[a].status = "spawning" => agents[a].status = "spawning",
           agents[a].status = "stopped" /\ RestartsPending(agents[a]) = 0
               => agents'[a].status = "stopped" /\ RestartsPending(agents'[a]) = 0
    PROVE  StrandOK(a) /\ QuietOK(a)
<1>1. StrandOK(a)
  BY DEF StrandOK, Owned
<1>2. ASSUME Quiet(a) PROVE Quiet(a)'
  BY <1>2 DEF Quiet, RestartsPending
<1>. QED  BY <1>1, <1>2 DEF QuietOK

\* An agent after a step of agent b.
LEMMA Updated ==
    ASSUME LifecycleInv, NEW b \in Agents, NEW s, Update(b, s), NEW a \in Agents
    PROVE  agents'[a] = IF a = b THEN s ELSE agents[a]
BY DEF LifecycleInv, TypeOK, Update

\* A slot that becomes r, for an agent b whose state becomes s: what must be shown
\* of b is enough, for the slot has to do with no other agent.
LEMMA OneAgent ==
    ASSUME LifecycleInv, HandlersOK, NEW h \in Handlers, NEW r, handlers' = [handlers EXCEPT ![h] = r],
           NEW b \in Agents, NEW s, Update(b, s),
           handlers[h].agent \in {b, None}, r.agent \in {b, None},
           SlotStep(h, r, b), NEW a \in Agents
    PROVE  StrandOK(a) /\ QuietOK(a)
<1>1. CASE a = b
  BY <1>1, SlotStepOK
<1>2. CASE a # b
  <2>1. agents'[a] = agents[a]
    BY <1>2, Updated
  <2>2. SlotStep(h, r, a)
    BY <1>2, <2>1, NoneAssumption DEF SlotStep, Owns, Quiet
  <2>. QED  BY <2>2, SlotStepOK
<1>. QED  BY <1>1, <1>2

\* The same for a step of a slot that leaves the agents alone.
LEMMA SlotAlone ==
    ASSUME LifecycleInv, HandlersOK, NEW h \in Handlers, NEW r, handlers' = [handlers EXCEPT ![h] = r],
           UNCHANGED agents, NEW a \in Agents,
           Owns(handlers[h], a) => Owns(r, a) \/ (handlers[h].op = "restart" /\ r = Idle),
           r.agent = a => \/ r.op = "kill"
                          \/ handlers[h].agent = a /\ handlers[h].op = r.op
                          \/ handlers[h] = Idle /\ r.op \in {"spawn", "restart", "register"}
    PROVE  StrandOK(a) /\ QuietOK(a)
<1>1. SlotStep(h, r, a)
  BY DEF SlotStep, Quiet
<1>. QED  BY <1>1, SlotStepOK

LEMMA RequestKeeps ==
    ASSUME LifecycleInv, HandlersOK, NEW h \in Handlers, NEW b \in Agents,
           RequestArrives(h, b) \/ RestartTimerFires(h, b), NEW a \in Agents
    PROVE  StrandOK(a) /\ QuietOK(a)
<1>1. agents[b] \in AgentState /\ Idle.agent = None /\ Idle.op = None
  BY DEF LifecycleInv, TypeOK, Idle
<1>2. ASSUME NEW p, SpawnRequest(h, b, p) PROVE StrandOK(a) /\ QuietOK(a)
  <2> DEFINE r == Request("spawn", b, "boot", None)
             s == [agents[b] EXCEPT !.status = "spawning", !.projectId = p]
  <2>1. handlers[h] = Idle /\ handlers' = [handlers EXCEPT ![h] = r] /\ Update(b, s)
    BY <1>2 DEF SpawnRequest, Start
  <2>2. r.agent = b /\ r.op = "spawn"
    BY DEF Request
  <2>. HIDE DEF r, s
  <2>3. SlotStep(h, r, b)
    BY <2>1, <2>2 DEF SlotStep, Owns
  <2>. QED  BY <1>1, <2>1, <2>2, <2>3, OneAgent
<1>3. CASE RestartRequest(h, b)
  <2>1. CASE agents[b].projectId = None
    <3> DEFINE r == Request("restart", b,
                      IF agents[b].terminalId = None THEN "boot" ELSE "killing",
                      agents[b].terminalId)
               s == MarkManualRestart(agents[b])
    <3>1. handlers[h] = Idle /\ handlers' = [handlers EXCEPT ![h] = r] /\ Update(b, s)
      BY <1>3, <2>1 DEF RestartRequest, ProceedRestart
    <3>2. r.agent = b /\ r.op = "restart" /\ r.at # "resolve"
      BY DEF Request
    <3>. HIDE DEF r, s
    <3>3. SlotStep(h, r, b)
      BY <3>1, <3>2 DEF SlotStep, Owns
    <3>. QED  BY <1>1, <3>1, <3>2, <3>3, OneAgent
  <2>2. CASE agents[b].projectId # None
    <3> DEFINE r == Request("restart", b, "resolve", None)
    <3>1. handlers[h] = Idle /\ handlers' = [handlers EXCEPT ![h] = r] /\ UNCHANGED agents
      BY <1>3, <2>2 DEF RestartRequest
    <3>2. r.op = "restart"
      BY DEF Request
    <3>. HIDE DEF r
    <3>. QED  BY <1>1, <3>1, <3>2, SlotAlone, NoneAssumption DEF Owns
  <2>. QED  BY <2>1, <2>2
<1>4. CASE KillRequest(h, b)
  <2> DEFINE r == Request("kill", b, "killing", agents[b].terminalId)
  <2>1. handlers[h] = Idle /\ handlers' = [handlers EXCEPT ![h] = r] /\ UNCHANGED agents
    BY <1>4 DEF KillRequest, Start
  <2>2. r.op = "kill"
    BY DEF Request
  <2>. HIDE DEF r
  <2>. QED  BY <1>1, <2>1, <2>2, SlotAlone, NoneAssumption DEF Owns
<1>5. CASE RegisterRequest(h, b)
  <2> DEFINE r == Request("register", b, "boot", pty[b])
  <2>1. handlers[h] = Idle /\ handlers' = [handlers EXCEPT ![h] = r] /\ UNCHANGED agents
    BY <1>5 DEF RegisterRequest, Start
  <2>2. r.op = "register"
    BY DEF Request
  <2>. HIDE DEF r
  <2>. QED  BY <1>1, <2>1, <2>2, SlotAlone, NoneAssumption DEF Owns
<1>6. CASE RestartTimerFires(h, b)
  <2> DEFINE r == Request("crashRestart", b, "boot", None)
  <2>1. PICK s \in FireRestart(agents[b]) : Update(b, s)
    BY <1>6 DEF RestartTimerFires
  <2>2. handlers[h] = Idle /\ handlers' = [handlers EXCEPT ![h] = r] /\ RestartsPending(agents[b]) > 0
    BY <1>6 DEF RestartTimerFires, Start
  <2>3. r.agent = b
    BY DEF Request
  <2>4. s.status = agents[b].status
    BY <1>1 DEF FireRestart, AgentState
  <2>5. agents'[b] = s
    BY <2>1, Updated
  <2>6. ~Quiet(b)
    BY <2>2 DEF Quiet
  <2>. HIDE DEF r
  <2>7. SlotStep(h, r, b)
    BY <1>1, <2>2, <2>4, <2>5, <2>6, NoneAssumption DEF SlotStep, Owns
  <2>. QED  BY <1>1, <2>1, <2>2, <2>3, <2>7, OneAgent
<1>. QED  BY <1>2, <1>3, <1>4, <1>5, <1>6 DEF RequestArrives

LEMMA HandlerKeeps ==
    ASSUME LifecycleInv, HandlersOK, NEW h \in Handlers, HandlerResumes(h), NEW a \in Agents
    PROVE  StrandOK(a) /\ QuietOK(a)
<1> DEFINE b == handlers[h].agent
           R == handlers[h]
<1>1. /\ Idle.agent = None /\ Idle.op = None
      /\ R \in Handler
  BY DEF HandlersOK, Idle
<1>2. ASSUME NEW ops \in SUBSET Operation, NEW stages, At(h, ops, stages)
      PROVE  b \in Agents /\ agents[b] \in AgentState /\ R.op \in ops /\ R.at \in stages
  BY <1>2, AtAgent DEF At
<1>3. CASE Bootstrapped(h)
  <2> DEFINE r == [R EXCEPT !.at = "spawning", !.terminal = None]
  <2>1. handlers' = [handlers EXCEPT ![h] = r] /\ UNCHANGED agents
    BY <1>3 DEF Bootstrapped, MoveOn
  <2>2. r.agent = R.agent /\ r.op = R.op /\ r.at = "spawning"
    BY <1>1 DEF Handler
  <2>. HIDE DEF r
  <2>3. Owns(R, a) => Owns(r, a)
    BY <2>2 DEF Owns
  <2>. QED  BY <2>1, <2>2, <2>3, SlotAlone
<1>4. CASE RestartFails(h) \/ KillOrRegisterFails(h)
  <2>1. /\ handlers' = [handlers EXCEPT ![h] = Idle] /\ UNCHANGED agents
        /\ R.op \in {"restart", "kill", "register"}
    BY <1>4 DEF RestartFails, KillOrRegisterFails, Finish, At
  <2>2. Owns(R, a) => R.op = "restart"
    BY <2>1 DEF Owns
  <2>3. Idle.agent # a
    BY <1>1, NoneAssumption
  <2>. QED  BY <2>1, <2>2, <2>3, SlotAlone
<1>5. CASE Registered(h)
  <2>1. PICK p \in Projects :
          Update(b, MarkSpawned([agents[b] EXCEPT !.projectId = p], R.terminal))
    BY <1>5 DEF Registered
  <2> DEFINE s == MarkSpawned([agents[b] EXCEPT !.projectId = p], R.terminal)
  <2>2. /\ b \in Agents /\ agents[b] \in AgentState /\ R.op = "register"
        /\ handlers' = [handlers EXCEPT ![h] = Idle]
    BY <1>2, <1>5 DEF Registered, Finish, Operation
  <2>3. s.status = "ready"
    BY <2>2 DEF MarkSpawned, AgentState
  <2>4. Update(b, s)
    BY <2>1
  <2>. HIDE DEF s
  <2>5. agents'[b] = s
    BY <2>2, <2>4, Updated
  <2>6. SlotStep(h, Idle, b)
    BY <2>2, <2>3, <2>5 DEF SlotStep, Owns, Quiet
  <2>. QED  BY <1>1, <2>2, <2>4, <2>6, OneAgent
<1>6. CASE RestartResolved(h)
  <2> DEFINE r == Request("restart", b,
                    IF agents[b].terminalId = None THEN "boot" ELSE "killing",
                    agents[b].terminalId)
             s == MarkManualRestart(agents[b])
  <2>0. At(h, {"restart"}, {"resolve"})
    BY <1>6 DEF RestartResolved
  <2>1. handlers' = [handlers EXCEPT ![h] = r] /\ Update(b, s)
    BY <1>6 DEF RestartResolved, ProceedRestart
  <2>2. b \in Agents /\ R.op = "restart"
    BY <1>2, <2>0 DEF Operation
  <2>3. r.agent = b /\ r.op = "restart" /\ r.at # "resolve"
    BY DEF Request
  <2>. HIDE DEF r, s
  <2>4. SlotStep(h, r, b)
    BY <2>2, <2>3 DEF SlotStep, Owns, Quiet
  <2>. QED  BY <2>1, <2>2, <2>3, <2>4, OneAgent
<1>7. CASE RestartKillReturns(h)
  <2> DEFINE r == [R EXCEPT !.at = "boot", !.terminal = None]
             s == [agents[b] EXCEPT !.terminalId = None]
  <2>1. handlers' = [handlers EXCEPT ![h] = r] /\ Update(b, s)
    BY <1>7 DEF RestartKillReturns, MoveOn
  <2>2. b \in Agents /\ agents[b] \in AgentState /\ R.op = "restart"
    BY <1>2, <1>7 DEF RestartKillReturns, Operation
  <2>3. r.agent = b /\ r.op = "restart" /\ r.at = "boot"
    BY <1>1, <2>2 DEF Handler
  <2>. HIDE DEF r, s
  <2>4. SlotStep(h, r, b)
    BY <2>2, <2>3 DEF SlotStep, Owns, Quiet
  <2>. QED  BY <2>1, <2>2, <2>3, <2>4, OneAgent
<1>8. CASE KillAnswered(h)
  <2> DEFINE s == [agents[b] EXCEPT !.status = "stopped", !.terminalId = None]
  <2>0. At(h, {"kill"}, {"killAnswer"})
    BY <1>8 DEF KillAnswered
  <2>1. handlers' = [handlers EXCEPT ![h] = Idle] /\ Update(b, s)
    BY <1>8 DEF KillAnswered, Finish
  <2>2. b \in Agents /\ agents[b] \in AgentState /\ R.op = "kill"
    BY <1>2, <2>0 DEF Operation
  <2>3. s.status = "stopped" /\ RestartsPending(s) = RestartsPending(agents[b])
    BY <2>2 DEF AgentState, RestartsPending
  <2>. HIDE DEF s
  <2>4. agents'[b] = s
    BY <2>1, <2>2, Updated
  <2>5. SlotStep(h, Idle, b)
    BY <1>1, <2>2, <2>3, <2>4, NoneAssumption DEF SlotStep, Owns, Quiet
  <2>. QED  BY <1>1, <2>1, <2>2, <2>5, OneAgent
<1>9. CASE SpawnAnswered(h) \/ SpawnFails(h)
  <2>1. PICK s : Update(b, s) /\ s \in {Answered(agents[b], R.op, R.answer, R.terminal),
                                        [agents[b] EXCEPT !.status = "error"]}
    BY <1>9 DEF SpawnAnswered, SpawnFails
  <2>2. /\ b \in Agents /\ agents[b] \in AgentState
        /\ R.op \in {"spawn", "restart", "crashRestart"}
        /\ handlers' = [handlers EXCEPT ![h] = Idle]
    BY <1>2, <1>9 DEF SpawnAnswered, SpawnFails, Finish, Operation
  <2>3. s.status # "spawning"
    BY <2>1, <2>2 DEF Answered, MarkSpawned, AgentState
  <2>4. agents'[b] = s
    BY <2>1, <2>2, Updated
  <2>5. SlotStep(h, Idle, b)
    BY <2>2, <2>3, <2>4 DEF SlotStep, Quiet
  <2>. QED  BY <1>1, <2>1, <2>2, <2>5, OneAgent
<1>. QED  BY <1>3, <1>4, <1>5, <1>6, <1>7, <1>8, <1>9 DEF HandlerResumes

\* The desktop's answers move a slot on, short of the status.
LEMMA DesktopKeeps ==
    ASSUME LifecycleInv, HandlersOK, NEW h \in Handlers, DesktopAnswers(h), NEW a \in Agents
    PROVE  StrandOK(a) /\ QuietOK(a)
<1> DEFINE R == handlers[h]
<1>1. R \in Handler
  BY DEF HandlersOK
<1>2. CASE DesktopSpawns(h) \/ DesktopConflict(h) \/ DesktopRefuses(h)
  <2>1. UNCHANGED agents /\ \E answer, t : Reply(h, answer, t)
    BY <1>2 DEF DesktopSpawns, DesktopConflict, DesktopRefuses
  <2>2. PICK answer, t : Reply(h, answer, t)
    BY <2>1
  <2> DEFINE r == [R EXCEPT !.at = "spawnAnswer", !.answer = answer, !.terminal = t]
  <2>3. handlers' = [handlers EXCEPT ![h] = r]
    BY <2>2 DEF Reply
  <2>4. r.agent = R.agent /\ r.op = R.op /\ r.at = "spawnAnswer"
    BY <1>1 DEF Handler
  <2>. HIDE DEF r
  <2>5. Owns(R, a) => Owns(r, a)
    BY <2>4 DEF Owns
  <2>. QED  BY <2>1, <2>3, <2>4, <2>5, SlotAlone
<1>3. CASE DesktopKills(h) \/ DesktopKillsNothing(h)
  <2> DEFINE r == [R EXCEPT !.at = "killAnswer", !.terminal = None]
  <2>1. UNCHANGED agents /\ handlers' = [handlers EXCEPT ![h] = r]
    BY <1>3 DEF DesktopKills, DesktopKillsNothing, MoveOn
  <2>2. r.agent = R.agent /\ r.op = R.op /\ r.at = "killAnswer"
    BY <1>1 DEF Handler
  <2>. HIDE DEF r
  <2>3. Owns(R, a) => Owns(r, a)
    BY <2>2 DEF Owns
  <2>. QED  BY <2>1, <2>2, <2>3, SlotAlone
<1>. QED  BY <1>2, <1>3 DEF DesktopAnswers

\* An exit report leaves a stopped agent alone, and no agent in 'spawning' that was not.
LEMMA ExitKeeps ==
    ASSUME LifecycleInv, NEW e \in exits, PtyExitReport(e) \/ LifecyclePtyExitReport(e),
           NEW a \in Agents
    PROVE  StrandOK(a) /\ QuietOK(a)
<1> DEFINE s == agents[e.agent]
           r == ExitResult(s, e.code)
<1>1. e.agent \in Agents /\ e.code \in {"zero", "nonzero"} /\ s \in AgentState
  BY DEF LifecycleInv, TypeOK, ExitReport
<1>2. UNCHANGED handlers /\ (UNCHANGED agents \/ Update(e.agent, r))
  BY DEF PtyExitReport, LifecyclePtyExitReport, HandlePtyExit, ExitResult
<1>3. AgentOK(s)
  BY <1>1 DEF LifecycleInv
<1>4. RestartsPending(r) = IF Granted(s, e.code) THEN RestartsPending(s) + 1 ELSE RestartsPending(s)
  BY <1>1, <1>3, ExitOK
<1>5. MarkExited(s, e.code).status \in Status
  BY <1>1, ExitedFields DEF AgentState
<1>6. r.status = MarkExited(s, e.code).status
  BY <1>1, ExitedFields, ScheduleFields DEF ExitResult
<1>7. MarkExited(s, e.code).status # "spawning"
        /\ (s.status = "stopped" => MarkExited(s, e.code).status = "stopped")
  BY <1>1 DEF MarkExited, ClearStability, StopIntended, AgentState
<1>8. CASE UNCHANGED agents
  BY <1>2, <1>8, NoSlotOK
<1>9. CASE Update(e.agent, r)
  <2>. HIDE DEF r
  <2>1. agents'[a] = IF a = e.agent THEN r ELSE agents[a]
    BY <1>1, <1>9, Updated
  <2>. QED  BY <1>2, <1>4, <1>6, <1>7, <2>1, NoSlotOK DEF Granted, Counted
<1>. QED  BY <1>2, <1>8, <1>9

LEMMA NextKeeps ==
    ASSUME LifecycleInv, [Next]_vars, NEW a \in Agents
    PROVE  StrandOK(a) /\ QuietOK(a)
<1>1. HandlersOK /\ agents \in [Agents -> AgentState]
  BY InvSplit
<1>2. CASE UNCHANGED vars
  BY <1>2, NoSlotOK DEF vars
<1>3. ASSUME NEW b \in Agents, TerminalExits(b) \/ DesktopSpawnsAlone(b)
      PROVE  StrandOK(a) /\ QuietOK(a)
  BY <1>3, NoSlotOK DEF TerminalExits, DesktopSpawnsAlone
<1>4. ASSUME NEW b \in Agents, StabilityTimerFires(b)
      PROVE  StrandOK(a) /\ QuietOK(a)
  <2> DEFINE s == [agents[b] EXCEPT !.crashes = 0, !.stability = FALSE]
  <2>1. UNCHANGED handlers /\ Update(b, s)
    BY <1>4 DEF StabilityTimerFires
  <2>2. s.status = agents[b].status /\ RestartsPending(s) = RestartsPending(agents[b])
    BY <1>1 DEF AgentState, RestartsPending
  <2>. HIDE DEF s
  <2>3. agents'[a] = IF a = b THEN s ELSE agents[a]
    BY <2>1, Updated
  <2>. QED  BY <2>1, <2>2, <2>3, NoSlotOK
<1>5. CASE CallbackDown
  <2>1. UNCHANGED handlers /\ agents'[a] = MarkUnknown(agents[a])
    BY <1>5 DEF CallbackDown
  <2>2. /\ MarkUnknown(agents[a]).status = "spawning" => agents[a].status = "spawning"
        /\ agents[a].status = "stopped" => MarkUnknown(agents[a]) = agents[a]
    BY <1>1 DEF MarkUnknown, AgentState
  <2>. QED  BY <2>1, <2>2, NoSlotOK
<1>6. CASE SidecarRestarts
  <2>1. /\ agents'[a] = NewAgent /\ NewAgent.status = "stopped" /\ RestartsPending(NewAgent) = 0
        /\ \A h \in Handlers : handlers'[h].agent = None
    BY <1>6 DEF SidecarRestarts, NewAgent, RestartsPending, Idle
  <2>2. StrandOK(a)
    BY <2>1 DEF StrandOK
  <2>3. Quiet(a)'
    BY <2>1, NoneAssumption DEF Quiet, RestartsPending
  <2>. QED  BY <2>2, <2>3 DEF QuietOK
<1>. QED  BY <1>1, <1>2, <1>3, <1>4, <1>5, <1>6, RequestKeeps, HandlerKeeps, DesktopKeeps,
            ExitKeeps DEF Next

\* Only a restart that ends without an answer leaves an agent in 'spawning' with no
\* request to settle it, for any number of agents and requests in progress.
THEOREM StrandCorrect == Spec => OnlyFailedRestartsStrand
<1>1. LifecycleInv /\ [Next]_vars => \A a \in Agents : StrandOK(a)
  BY NextKeeps
<1>. QED  BY <1>1, Invariance, PTL DEF Spec, OnlyFailedRestartsStrand, StrandOK

\* A stop with nothing in flight holds until the next request, whatever exits are
\* reported late, for any number of agents and requests in progress.
THEOREM QuietStopCorrect == Spec => QuietStopHolds
<1>1. LifecycleInv /\ [Next]_vars => \A a \in Agents : QuietOK(a)
  BY NextKeeps
<1>. QED  BY <1>1, Invariance, PTL DEF Spec, QuietStopHolds, QuietOK

============================================================================
