---------------------------- MODULE TerminalBridge ----------------------------
(***************************************************************************)
(* The terminal output bridge: src/api/terminal/terminalOutputBridge.ts    *)
(* behind POST /internal/pty/output (src/api/server.js).  Chunks of a      *)
(* terminal are cut into lines; the unfinished last one waits in the       *)
(* terminal's buffer.  Lines are throttled by a token bucket per agent.    *)
(*                                                                         *)
(* A line is counted, not spelt; one tick of the clock refills Refill      *)
(* tokens.  flush and drop are for the exit of a terminal, which calls     *)
(* neither of them: only the periodic flush empties a buffer.              *)
(***************************************************************************)
EXTENDS Integers

CONSTANTS
    Agents,      \* agents of this sidecar
    Terminals,   \* their terminals
    AgentOf,     \* the agent of each terminal
    Capacity,    \* THROTTLE_CAPACITY
    Refill,      \* THROTTLE_REFILL_PER_SEC, per tick
    Stale,       \* STALE_BUFFER_MS, in ticks
    ChunkBound,  \* lines in a chunk (model bound)
    SinceBound   \* length of the window that is watched (model bound)

ASSUME BridgeAssumption ==
    /\ AgentOf \in [Terminals -> Agents]
    /\ Capacity \in Nat /\ Refill \in Nat /\ Stale \in Nat
    /\ ChunkBound \in Nat /\ SinceBound \in Nat

VARIABLES
    known,     \* agents with a project and a session (BackoffManager)
    partial,   \* terminals with an unfinished line in their buffer
    age,       \* ticks since a terminal's last chunk; Gone without an entry
    tokens,    \* the agents' buckets
    window     \* history: lines of each agent since some moment, and the ticks

bridgeVars == <<known, partial, age, tokens, window>>

Gone == -1

BridgeTypeOK ==
    /\ known \subseteq Agents
    /\ partial \subseteq Terminals
    /\ age \in [Terminals -> Gone..(Stale + 1)]
    /\ tokens \in [Agents -> 0..Capacity]
    /\ window \in [Agents -> [lines : Nat, ticks : 0..SinceBound]]

\* A bucket is made full, at the agent's first line.
BridgeInit ==
    /\ known = {}
    /\ partial = {}
    /\ age = [t \in Terminals |-> Gone]
    /\ tokens = [a \in Agents |-> Capacity]
    /\ window = [a \in Agents |-> [lines |-> 0, ticks |-> 0]]

-----------------------------------------------------------------------------

\* POST /internal/pty/register, or a spawn.
Register(a) ==
    /\ known' = known \cup {a}
    /\ UNCHANGED <<partial, age, tokens, window>>

\* allowLine, for n lines in a row: how many pass.
AllowedAtZero(a, n) == IF n <= tokens[a] THEN n ELSE tokens[a] + 1   \* mutant
Allowed(a, n) == IF n <= tokens[a] THEN n ELSE tokens[a]

\* push: n lines are finished by the chunk, and it ends in an unfinished one or
\* not; without any (empty ones do not count) an unfinished line stays one.  (The
\* chunks of agents that are not known are counted and dropped.)
PushUntimed(t, n, tail) ==                                      \* mutant
    LET a == AgentOf[t] IN
    /\ a \in known
    /\ n = 0 /\ t \in partial => tail
    /\ partial' = IF tail THEN partial \cup {t} ELSE partial \ {t}
    /\ age' = IF n = 0 THEN age ELSE [age EXCEPT ![t] = 0]
    /\ tokens' = [tokens EXCEPT ![a] = @ - Allowed(a, n)]
    /\ window' = [window EXCEPT ![a].lines = @ + Allowed(a, n)]
    /\ UNCHANGED known
Push(t, n, tail) ==
    LET a == AgentOf[t] IN
    /\ a \in known
    /\ n = 0 /\ t \in partial => tail
    /\ partial' = IF tail THEN partial \cup {t} ELSE partial \ {t}
    /\ age' = [age EXCEPT ![t] = 0]
    /\ tokens' = [tokens EXCEPT ![a] = @ - Allowed(a, n)]
    /\ window' = [window EXCEPT ![a].lines = @ + Allowed(a, n)]
    /\ UNCHANGED known

\* flushStaleBuffers: the unfinished line is sent as it is, of agent 'unknown',
\* past every bucket.
FlushStaleBuffers ==
    LET stale == {t \in Terminals : age[t] > Stale} IN
    /\ stale # {}
    /\ partial' = partial \ stale
    /\ age' = [t \in Terminals |-> IF t \in stale THEN Gone ELSE age[t]]
    /\ UNCHANGED <<known, tokens, window>>

\* What a tick adds to a bucket.
RefilledUncapped(n) == n + Refill                               \* mutant
Refilled(n) == IF n + Refill > Capacity THEN Capacity ELSE n + Refill

\* Time passes.  (The window ends after SinceBound ticks, for the next one.)
Tick ==
    /\ age' = [t \in Terminals |->
                 IF age[t] \in 0..Stale THEN age[t] + 1 ELSE age[t]]
    /\ tokens' = [a \in Agents |-> Refilled(tokens[a])]
    /\ window' = [a \in Agents |->
                    IF window[a].ticks = SinceBound THEN [lines |-> 0, ticks |-> 0]
                    ELSE [window[a] EXCEPT !.ticks = @ + 1]]
    /\ UNCHANGED <<known, partial>>

\* History: a window may start at any moment.
WindowStarts(a) ==
    /\ window' = [window EXCEPT ![a] = [lines |-> 0, ticks |-> 0]]
    /\ UNCHANGED <<known, partial, age, tokens>>

BridgeNext ==
    \/ \E a \in Agents : Register(a)
    \/ \E t \in Terminals, n \in 0..ChunkBound, tail \in BOOLEAN : Push(t, n, tail)
    \/ FlushStaleBuffers
    \/ Tick
    \/ \E a \in Agents : WindowStarts(a)

\* Time passes, and the flush timer runs.
BridgeFairness == WF_bridgeVars(FlushStaleBuffers) /\ WF_bridgeVars(Tick)

BridgeSpec == BridgeInit /\ [][BridgeNext]_bridgeVars /\ BridgeFairness

-----------------------------------------------------------------------------
(* Properties. *)

\* "Per-agent token bucket: burst capacity 25, refill 10 tokens/sec": over any
\* stretch of time, and over all its terminals together, an agent's lines are at
\* most the burst and what was refilled in it.
RateIsBounded ==
    \A a \in Agents : window[a].lines <= Capacity + Refill * window[a].ticks

\* A terminal that stops in the middle of a line (a prompt, an exit) has it sent
\* in the end, unless it goes on.
TailsAreEmitted ==
    \A t \in Terminals : t \in partial /\ age[t] # 0 ~> t \notin partial \/ age[t] = 0
=============================================================================
