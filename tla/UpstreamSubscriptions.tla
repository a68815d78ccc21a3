------------------------- MODULE UpstreamSubscriptions -------------------------
(***************************************************************************)
(* The upstream of mail notifications: one SignalR connection to the cloud *)
(* hub (api/sse/upstreamSignalRManager.ts), subscribed to the agents the   *)
(* windows ask for (api/routes/sseStream.ts).  The windows, the token      *)
(* manager and the SignalR client library are the environment.             *)
(*                                                                         *)
(* ensureConnection is the one asynchronous call (`connecting` admits no   *)
(* second): it waits for the old connection's stop, a token, the new       *)
(* connection's start and the answer to its subscription.  stop and        *)
(* refresh are synchronous and run at any of these waits.                  *)
(***************************************************************************)
EXTENDS Naturals

CONSTANTS
    Agents,       \* agent names
    Conns,        \* hub connections alive or closing at one time (model bound)
    None,         \* null
    TimerBound    \* more retry timers than this are counted as this many (model bound)

ASSUME UpstreamAssumption ==
    /\ TimerBound \in Nat \ {0}
    /\ None \notin Conns

VARIABLES
    wanted,    \* whether the windows ask for any agents (sseStream's subscribedAgents)
    mgr,       \* fields of the manager, and where ensureConnection waits
    conns      \* hub connections

vars == <<wanted, mgr, conns>>

\* Where ensureConnection waits ("none": it is not running, connecting = FALSE).
Wait == {"none", "stop", "token", "start", "subscribe"}

Manager == [
    running    : BOOLEAN,
    connection : Conns \cup {None},
    agents     : SUBSET Agents,
    shown      : {"none", "reconnecting", "connected", "stopped"},  \* every agent's state
    at         : Wait,
    mine       : Conns \cup {None},     \* the connection ensureConnection waits for
    timers     : 0..TimerBound]         \* retry timers that are set

\* "closing": told to stop, or closing by itself; "closed": over, but the
\* library's object is still the manager's connection.
Conn == [
    st   : {"free", "connecting", "connected", "reconnecting", "closing", "closed"},
    up   : BOOLEAN,            \* it was connected: its end calls onclose
    req  : SUBSET Agents,      \* the list last sent on this connection ({}: none)
    sent : BOOLEAN]            \* its answer is outstanding

Free == [st |-> "free", up |-> FALSE, req |-> {}, sent |-> FALSE]

TypeOK ==
    /\ wanted \in BOOLEAN
    /\ mgr \in Manager
    /\ conns \in [Conns -> Conn]

-----------------------------------------------------------------------------
(* Pieces of the handlers. *)

\* Another retry timer of five seconds.
OneMore(n) == IF n < TimerBound THEN n + 1 ELSE n

\* What the catch block of ensureConnection and onclose have in common: the
\* state shown, and a retry if the manager has not been stopped.
RetryNever(M) == [M EXCEPT !.shown = "reconnecting"]            \* mutant
Retry(M) ==
    [M EXCEPT !.shown = "reconnecting",
              !.timers = IF M.running THEN OneMore(@) ELSE @]

\* onclose
OnClose(M) == IF M.running THEN Retry(M) ELSE M

\* finally: ensureConnection ends.
Done(M) == [M EXCEPT !.at = "none", !.mine = None]

\* ensureConnection goes on to build a connection.
Builds(M) == [M EXCEPT !.at = "token", !.mine = None]

\* A subscription ensureConnection waits for is answered or rejected.
Unsubscribed(M, c) ==
    IF M.at = "subscribe" /\ M.mine = c THEN Done(M) ELSE M

\* connection.stop: what a connection becomes.  A connection between two
\* attempts to reconnect is over at once.
StopForgets(C) == {C}                                           \* mutant
StopOutcomes(C) ==
    CASE C.st \in {"connecting", "connected"} -> {[C EXCEPT !.st = "closing"]}
      [] C.st = "reconnecting" -> {[C EXCEPT !.st = "closing"], Free}
      [] C.st = "closed" -> {Free}
      [] OTHER -> {C}

\* The connections after the manager has stopped the one it has.
StopsConnection ==
    IF mgr.connection = None
    THEN UNCHANGED conns
    ELSE \E C \in StopOutcomes(conns[mgr.connection]) :
           conns' = [conns EXCEPT ![mgr.connection] = C]

\* subscribeAgents, on a connection that is up.
SubscribingNested(C, A) ==       \* mutant: invoke is given the list in a list
    [C EXCEPT !.st = "connected", !.up = TRUE, !.req = {A}, !.sent = TRUE]
SubscribedForgets(C, A) == [C EXCEPT !.st = "connected", !.up = TRUE, !.req = {}]    \* mutant
Subscribing(C, A) ==
    [C EXCEPT !.st = "connected", !.up = TRUE, !.req = A, !.sent = TRUE]

Init ==
    /\ wanted = FALSE
    /\ conns = [c \in Conns |-> Free]
    /\ \E boot \in SUBSET Agents :      \* ACP_AGENTS, started at boot
         mgr = [running |-> boot # {}, connection |-> None, agents |-> boot,
                shown |-> IF boot = {} THEN "none" ELSE "reconnecting",
                at |-> IF boot = {} THEN "none" ELSE "token",
                mine |-> None, timers |-> 0]

-----------------------------------------------------------------------------
(* The manager's interface. *)

\* refresh: stop, then start with other agents.  start's ensureConnection
\* does nothing while another one is under way.
Refresh(A) ==
    /\ StopsConnection
    /\ mgr' = [mgr EXCEPT !.running = TRUE, !.connection = None, !.agents = A,
                          !.shown = "reconnecting",
                          !.at = IF @ = "none" THEN "token" ELSE @]

StopManager ==
    /\ StopsConnection
    /\ mgr' = [mgr EXCEPT !.running = FALSE, !.connection = None,
                          !.shown = "stopped"]

\* Windows connect or disconnect and the agents they ask for change (the
\* shutdown sequence stops the manager as the last window's leaving does).
WindowsChange ==
    \/ /\ \E next \in SUBSET Agents \ {{}} : Refresh(next)
       /\ wanted' = TRUE
    \/ /\ wanted
       /\ StopManager
       /\ wanted' = FALSE

\* POST /sse/refresh, with agents of its own or those the manager has.
RefreshRequest ==
    /\ \E A \in SUBSET Agents \ {{}} : Refresh(A)
    /\ UNCHANGED wanted

-----------------------------------------------------------------------------
(* ensureConnection. *)

\* this.connection?.state
State == IF mgr.connection = None THEN "none" ELSE conns[mgr.connection].st

\* The guards of ensureConnection.
NeedsConnectionAnyway ==                                         \* mutant
    mgr.at = "none" /\ State \notin {"connected", "connecting"}
NeedsConnection ==
    /\ mgr.running
    /\ mgr.at = "none"
    /\ State \notin {"connected", "connecting"}

\* A retry timer: the old connection is stopped first, unless there is none.
\* A connection between two attempts is over at once, and its onclose sets
\* another timer.
RetryTimerFires ==
    /\ mgr.timers > 0
    /\ LET M == [mgr EXCEPT !.timers = @ - 1]
           c == mgr.connection
       IN \/ /\ ~NeedsConnection
             /\ mgr' = M
             /\ UNCHANGED conns
          \/ /\ NeedsConnection
             /\ State \in {"none", "closed"}
             /\ mgr' = Builds(M)
             /\ UNCHANGED conns
          \/ /\ NeedsConnection
             /\ State = "reconnecting"
             /\ \/ /\ conns' = [conns EXCEPT ![c].st = "closed"]
                   /\ mgr' = Builds(OnClose(M))
                \/ /\ conns' = [conns EXCEPT ![c].st = "closing"]
                   /\ mgr' = [M EXCEPT !.at = "stop", !.mine = c]
    /\ UNCHANGED wanted

\* buildConnection has a token: the new connection starts, stopped or not.
\* The connection it replaces is over.
BuildsAndStarts ==
    /\ mgr.at = "token"
    /\ \E d \in Conns : conns[d].st = "free"
    /\ LET d == CHOOSE e \in Conns : conns[e].st = "free"
       IN /\ conns' = [c \in Conns |->
                          IF c = d THEN [Free EXCEPT !.st = "connecting"]
                          ELSE IF c = mgr.connection THEN Free
                          ELSE conns[c]]
          /\ mgr' = [mgr EXCEPT !.connection = d, !.at = "start", !.mine = d]
    /\ UNCHANGED wanted

\* buildConnection throws: no session.
NoToken ==
    /\ mgr.at = "token"
    /\ mgr' = Done(Retry(mgr))
    /\ UNCHANGED <<wanted, conns>>

\* connection.start returns; the agents of this moment are subscribed.
StartSucceeds ==
    /\ mgr.at = "start"
    /\ conns[mgr.mine].st = "connecting"
    /\ conns' = [conns EXCEPT ![mgr.mine] = Subscribing(@, mgr.agents)]
    /\ mgr' = [mgr EXCEPT !.shown = "connected", !.at = "subscribe"]
    /\ UNCHANGED wanted

\* connection.start throws.
StartFails ==
    /\ mgr.at = "start"
    /\ conns[mgr.mine].st = "connecting"
    /\ conns' = [conns EXCEPT ![mgr.mine].st = "closed"]
    /\ mgr' = Done(Retry(mgr))
    /\ UNCHANGED wanted

-----------------------------------------------------------------------------
(* The SignalR client. *)

\* The hub answers SubscribeToAgents, or refuses; either is only logged.
SubscribeAnswered(c) ==
    /\ conns[c].st = "connected"
    /\ conns[c].sent
    /\ conns' = [conns EXCEPT ![c].sent = FALSE]
    /\ mgr' = Unsubscribed(mgr, c)
    /\ UNCHANGED wanted

\* onreconnecting: the connection is lost, and calls on it are rejected.
LostKeepsShown(c) ==                                            \* mutant
    /\ conns[c].st = "connected"
    /\ conns' = [conns EXCEPT ![c].st = "reconnecting", ![c].sent = FALSE]
    /\ mgr' = Unsubscribed(mgr, c)
    /\ UNCHANGED wanted
ConnectionLost(c) ==
    /\ conns[c].st = "connected"
    /\ conns' = [conns EXCEPT ![c].st = "reconnecting", ![c].sent = FALSE]
    /\ mgr' = [Unsubscribed(mgr, c) EXCEPT !.shown = "reconnecting"]
    /\ UNCHANGED wanted

\* onreconnected: the hub knows nothing of the old subscriptions.
Reconnected(c) ==
    /\ conns[c].st = "reconnecting"
    /\ conns' = [conns EXCEPT ![c] = Subscribing(@, mgr.agents)]
    /\ UNCHANGED <<wanted, mgr>>

\* The hub closes the connection for good.
HubCloses(c) ==
    /\ conns[c].st = "connected"
    /\ conns' = [conns EXCEPT ![c].st = "closed", ![c].sent = FALSE]
    /\ mgr' = OnClose(Unsubscribed(mgr, c))
    /\ UNCHANGED wanted

\* A stop is complete.  A start it interrupted throws, a call is rejected,
\* a connection that was up calls onclose, and an ensureConnection that
\* waited for the stop goes on.
StopCompletes(c) ==
    /\ conns[c].st = "closing"
    /\ conns' = [conns EXCEPT ![c] = IF mgr.connection = c
                                     THEN [Free EXCEPT !.st = "closed"] ELSE Free]
    /\ LET M == IF conns[c].up THEN OnClose(mgr) ELSE mgr
       IN mgr' = CASE mgr.mine = c /\ mgr.at = "start" -> Done(Retry(M))
                   [] mgr.mine = c /\ mgr.at = "stop" -> Builds(M)
                   [] OTHER -> Unsubscribed(M, c)
    /\ UNCHANGED wanted

Next ==
    \/ WindowsChange \/ RefreshRequest
    \/ RetryTimerFires \/ BuildsAndStarts \/ NoToken \/ StartSucceeds \/ StartFails
    \/ \E c \in Conns : \/ SubscribeAnswered(c) \/ ConnectionLost(c) \/ Reconnected(c)
                        \/ HubCloses(c) \/ StopCompletes(c)

\* Timers fire and the library completes its stops and calls.  The strong
\* conjuncts are assumptions about the environment: some day a token is
\* there and the hub accepts a connection.
Fairness ==
    /\ WF_vars(RetryTimerFires)
    /\ SF_vars(BuildsAndStarts)
    /\ SF_vars(StartSucceeds)
    /\ \A c \in Conns : /\ WF_vars(StopCompletes(c))
                        /\ WF_vars(SubscribeAnswered(c))
                        /\ SF_vars(Reconnected(c))

Spec == Init /\ [][Next]_vars /\ Fairness

-----------------------------------------------------------------------------
(* Properties. *)

Alive(c) == conns[c].st \in {"connecting", "connected", "reconnecting"}

\* However stops and refreshes overtake a connection attempt, the manager
\* never loses sight of a connection: whatever is up or coming up is the one
\* the next stop will reach, so the hub never serves two of them.
OneConnection == \A c \in Conns : Alive(c) => mgr.connection = c

\* A connection that is up has been asked for exactly the agents tracked now,
\* through refreshes during its start and reconnects that lose what the hub
\* knew.
SubscribedFollows ==
    \A c \in Conns : conns[c].st = "connected" => conns[c].req = mgr.agents

\* GET /sse/status shows 'connected' only while the running manager's
\* connection is up, whichever callback of which connection came last.
ShownConnected ==
    mgr.running /\ mgr.shown = "connected" => State = "connected"

\* The manager implements the feed the windows rely on (NotificationFeed): what the
\* hub sends is for the agents tracked now, a refresh or a stop cuts it off, and a
\* stop holds but for an attempt it finds waiting for its token or for the old
\* connection's end, which goes on without looking at `running` again.
Feed == INSTANCE NotificationFeed WITH
    running <- mgr.running,
    tracked <- mgr.agents,
    feeds   <- {conns[c].req : c \in {d \in Conns : conns[d].st = "connected"}},
    late    <- /\ ~mgr.running
               /\ mgr.at \in {"token", "stop"} \/ \E c \in Conns : Alive(c)

FeedSpec == Feed!Spec

\* A manager that runs gets its connection, once it is no longer refreshed:
\* an attempt that a refresh or a stop broke off leaves a retry behind,
\* although the refresh itself found `connecting` set and did nothing.
ConnectRecovers ==
    <>[][~(WindowsChange \/ RefreshRequest)]_vars
        => (mgr.running ~> State = "connected" \/ ~mgr.running)
=============================================================================
