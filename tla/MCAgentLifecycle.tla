--------------------------- MODULE MCAgentLifecycle ---------------------------
(* AgentLifecycle on a small instance. *)
EXTENDS AgentLifecycle, TLC

CONSTANTS a1, p1, t1, t2, h1, h2

MCAgents == {a1}
MCProjects == {p1}
MCTerminals == {t1, t2}
MCHandlers == {h1, h2}
MCOneHandler == {h1}
Symmetric == Permutations(MCTerminals) \cup Permutations(MCHandlers)

\* Every delay before a crash restart, capped as markExited caps it, ends before a
\* stability timer started after it can: the guard of StabilityTimerFires.
ASSUME DelayBeforeStability == \A n \in 1..12: RestartDelay(n) < STABILITY_RESET_MS

==============================================================================
