---------------------- MODULE UpstreamSubscriptions_proofs ----------------------
(***************************************************************************)
(* Proofs about the upstream: for any agents, any number of connections    *)
(* and any bound on the timers, the manager has one connection, it is      *)
(* subscribed to the tracked agents and shown connected only when it is.   *)
(*                                                                         *)
(* The strengthening says what holds at each wait of ensureConnection: at  *)
(* the token there is nothing the new connection could push out of sight,  *)
(* and at the stop of the old one that connection is closing.              *)
(***************************************************************************)
EXTENDS UpstreamSubscriptions, TLAPS

WaitOK ==
    /\ mgr.at = "token" => State \in {"none", "closed"}
    /\ mgr.at = "stop" => /\ mgr.mine \in Conns
                          /\ conns[mgr.mine].st = "closing"
                          /\ mgr.connection \in {mgr.mine, None}
    /\ mgr.at = "start" => mgr.mine \in Conns

\* The inductive invariant.
UpstreamInv ==
    /\ TypeOK
    /\ WaitOK
    /\ OneConnection
    /\ SubscribedFollows
    /\ ShownConnected

-----------------------------------------------------------------------------
(* The pieces of the handlers keep the types. *)

\* A further timer stays within the bound.
LEMMA OneMoreType ==
    ASSUME NEW n \in 0..TimerBound
    PROVE  OneMore(n) \in 0..TimerBound
BY UpstreamAssumption DEF OneMore

\* The free connection is one.
LEMMA FreeType == Free \in Conn /\ Free.st = "free"
BY DEF Free, Conn

\* A connection that has been told to stop is closing or free, and one that
\* was closing already goes on doing so.
LEMMA StopOutcomesFacts ==
    ASSUME NEW C \in Conn, NEW D \in StopOutcomes(C)
    PROVE  /\ D \in Conn
           /\ D.st \in {"closing", "free"}
           /\ C.st = "closing" => D.st = "closing"
<1> DEFINE E == [C EXCEPT !.st = "closing"]
<1>e. E \in Conn /\ E.st = "closing"
  BY DEF Conn
<1>1. CASE C.st \in {"connecting", "connected"}
  <2>1. StopOutcomes(C) = {E}
    BY <1>1 DEF StopOutcomes
  <2> QED
    BY <1>1, <1>e, <2>1
<1>2. CASE C.st = "reconnecting"
  <2>1. StopOutcomes(C) = {E, Free}
    BY <1>2 DEF StopOutcomes
  <2> QED
    BY <1>2, <1>e, <2>1, FreeType
<1>3. CASE C.st = "closed"
  <2>1. StopOutcomes(C) = {Free}
    BY <1>3 DEF StopOutcomes
  <2> QED
    BY <1>3, <2>1, FreeType
<1>4. CASE C.st \in {"free", "closing"}
  BY <1>4 DEF StopOutcomes, Conn
<1> QED
  BY <1>1, <1>2, <1>3, <1>4 DEF Conn

\* Retry sets a label and at most a timer.
LEMMA RetryFacts ==
    ASSUME NEW M \in Manager
    PROVE  /\ Retry(M) \in Manager
           /\ Retry(M).shown = "reconnecting"
           /\ Retry(M).running = M.running
           /\ Retry(M).connection = M.connection
           /\ Retry(M).agents = M.agents
           /\ Retry(M).at = M.at
           /\ Retry(M).mine = M.mine
<1>1. OneMore(M.timers) \in 0..TimerBound
  BY OneMoreType DEF Manager
<1> QED
  BY <1>1 DEF Retry, Manager

\* onclose does so unless the manager has been stopped.
LEMMA OnCloseFacts ==
    ASSUME NEW M \in Manager
    PROVE  /\ OnClose(M) \in Manager
           /\ M.running => OnClose(M).shown = "reconnecting"
           /\ OnClose(M).running = M.running
           /\ OnClose(M).connection = M.connection
           /\ OnClose(M).agents = M.agents
           /\ OnClose(M).at = M.at
           /\ OnClose(M).mine = M.mine
BY RetryFacts DEF OnClose

\* Done, Builds and Unsubscribed only move ensureConnection.
LEMMA MoveFacts ==
    ASSUME NEW M \in Manager, NEW N,
           \/ N = Done(M)
           \/ N = Builds(M)
           \/ \E c \in Conns : N = Unsubscribed(M, c)
    PROVE  /\ N \in Manager
           /\ N.shown = M.shown
           /\ N.running = M.running
           /\ N.connection = M.connection
           /\ N.agents = M.agents
           /\ N.timers = M.timers
           /\ N = Done(M) => N.at = "none"
           /\ N = Builds(M) => N.at = "token"
           /\ (\E c \in Conns : N = Unsubscribed(M, c))
                => N.at = "none" \/ (N.at = M.at /\ N.mine = M.mine)
<1>1. /\ Done(M) \in Manager
      /\ Done(M).shown = M.shown /\ Done(M).running = M.running
      /\ Done(M).connection = M.connection /\ Done(M).agents = M.agents
      /\ Done(M).timers = M.timers /\ Done(M).at = "none"
  BY DEF Done, Manager, Wait
<1>2. /\ Builds(M) \in Manager
      /\ Builds(M).shown = M.shown /\ Builds(M).running = M.running
      /\ Builds(M).connection = M.connection /\ Builds(M).agents = M.agents
      /\ Builds(M).timers = M.timers /\ Builds(M).at = "token"
  BY DEF Builds, Manager, Wait
<1>3. \A c \in Conns : Unsubscribed(M, c) \in {M, Done(M)}
  BY DEF Unsubscribed
<1> QED
  BY <1>1, <1>2, <1>3

-----------------------------------------------------------------------------
(* The steps. *)

\* The initial states satisfy the invariant.
LEMMA InitInv == Init => UpstreamInv
<1> SUFFICES ASSUME Init PROVE UpstreamInv
  OBVIOUS
<1>1. TypeOK
  <2>1. 0 \in 0..TimerBound
    BY UpstreamAssumption
  <2>2. mgr \in Manager
    BY <2>1 DEF Init, Manager, Wait
  <2> QED
    BY <2>2, FreeType DEF Init, TypeOK
<1>2. \A c \in Conns : conns[c].st = "free"
  BY FreeType DEF Init
<1>3. /\ mgr.connection = None
      /\ mgr.at \in {"none", "token"}
      /\ mgr.shown # "connected"
  BY DEF Init
<1> QED
  BY <1>1, <1>2, <1>3
  DEF UpstreamInv, WaitOK, OneConnection, Alive, SubscribedFollows, ShownConnected, State

\* After a stop of the manager's connection, which is the only one, nothing
\* is up or coming up, and what was closing still is.
LEMMA StopsFacts ==
    ASSUME UpstreamInv, StopsConnection
    PROVE  /\ conns' \in [Conns -> Conn]
           /\ \A c \in Conns : conns'[c].st \in {"free", "closing", "closed"}
           /\ \A c \in Conns : conns[c].st = "closing" => conns'[c].st = "closing"
<1>1. /\ conns \in [Conns -> Conn]
      /\ \A c \in Conns : c # mgr.connection => conns[c].st \in {"free", "closing", "closed"}
  BY DEF UpstreamInv, TypeOK, OneConnection, Alive, Conn
<1>2. CASE mgr.connection = None
  BY <1>1, <1>2, UpstreamAssumption DEF StopsConnection
<1>3. CASE mgr.connection # None
  <2>1. mgr.connection \in Conns
    BY <1>3 DEF UpstreamInv, TypeOK, Manager
  <2>2. PICK C \in StopOutcomes(conns[mgr.connection]) :
                conns' = [conns EXCEPT ![mgr.connection] = C]
    BY <1>3 DEF StopsConnection
  <2>3. /\ C \in Conn
        /\ C.st \in {"closing", "free"}
        /\ conns[mgr.connection].st = "closing" => C.st = "closing"
    BY <1>1, <2>1, <2>2, StopOutcomesFacts
  <2> QED
    BY <1>1, <2>1, <2>2, <2>3
<1> QED
  BY <1>2, <1>3

\* refresh
LEMMA RefreshStep ==
    ASSUME UpstreamInv, NEW A \in SUBSET Agents, Refresh(A), wanted' \in BOOLEAN
    PROVE  UpstreamInv'
<1>1. /\ conns' \in [Conns -> Conn]
      /\ \A c \in Conns : conns'[c].st \in {"free", "closing", "closed"}
      /\ \A c \in Conns : conns[c].st = "closing" => conns'[c].st = "closing"
  BY StopsFacts DEF Refresh
<1>2. /\ mgr' \in Manager
      /\ mgr'.connection = None
      /\ mgr'.shown = "reconnecting"
      /\ mgr'.mine = mgr.mine
      /\ mgr'.at \in {mgr.at, "token"}
  BY DEF Refresh, UpstreamInv, TypeOK, Manager, Wait
<1>3. TypeOK'
  BY <1>1, <1>2 DEF TypeOK
<1>4. WaitOK'
  BY <1>1, <1>2 DEF UpstreamInv, WaitOK, State
<1> QED
  BY <1>1, <1>2, <1>3, <1>4
  DEF UpstreamInv, OneConnection, Alive, SubscribedFollows, ShownConnected

\* stop
LEMMA StopStep ==
    ASSUME UpstreamInv, StopManager, wanted' \in BOOLEAN
    PROVE  UpstreamInv'
<1>1. /\ conns' \in [Conns -> Conn]
      /\ \A c \in Conns : conns'[c].st \in {"free", "closing", "closed"}
      /\ \A c \in Conns : conns[c].st = "closing" => conns'[c].st = "closing"
  BY StopsFacts DEF StopManager
<1>2. /\ mgr' \in Manager
      /\ mgr'.connection = None
      /\ mgr'.shown = "stopped"
      /\ mgr'.mine = mgr.mine
      /\ mgr'.at = mgr.at
  BY DEF StopManager, UpstreamInv, TypeOK, Manager
<1>3. TypeOK'
  BY <1>1, <1>2 DEF TypeOK
<1>4. WaitOK'
  BY <1>1, <1>2 DEF UpstreamInv, WaitOK, State
<1> QED
  BY <1>1, <1>2, <1>3, <1>4
  DEF UpstreamInv, OneConnection, Alive, SubscribedFollows, ShownConnected

\* ensureConnection, called by a retry timer
LEMMA TimerStep ==
    ASSUME UpstreamInv, RetryTimerFires
    PROVE  UpstreamInv'
<1> DEFINE M == [mgr EXCEPT !.timers = @ - 1]
           c == mgr.connection
<1>1. /\ mgr \in Manager
      /\ conns \in [Conns -> Conn]
      /\ wanted' = wanted
      /\ wanted \in BOOLEAN
  BY DEF RetryTimerFires, UpstreamInv, TypeOK
<1>2. /\ M \in Manager
      /\ M.running = mgr.running /\ M.connection = c /\ M.agents = mgr.agents
      /\ M.shown = mgr.shown /\ M.at = mgr.at /\ M.mine = mgr.mine
  BY <1>1, UpstreamAssumption DEF RetryTimerFires, Manager
<1> HIDE DEF M
<1>3. CASE mgr' = M /\ UNCHANGED conns
  BY <1>1, <1>2, <1>3
  DEF UpstreamInv, TypeOK, WaitOK, OneConnection, Alive, SubscribedFollows,
      ShownConnected, State
<1>4. CASE State \in {"none", "closed"} /\ mgr' = Builds(M) /\ UNCHANGED conns
  <2>1. /\ mgr' \in Manager
        /\ mgr'.running = mgr.running /\ mgr'.connection = c /\ mgr'.agents = mgr.agents
        /\ mgr'.shown = mgr.shown /\ mgr'.at = "token"
    BY <1>2, <1>4, MoveFacts
  <2> QED
    BY <1>1, <1>4, <2>1
    DEF UpstreamInv, TypeOK, WaitOK, OneConnection, Alive, SubscribedFollows,
        ShownConnected, State
<1>5. CASE /\ NeedsConnection
           /\ State = "reconnecting"
           /\ conns' = [conns EXCEPT ![c].st = "closed"]
           /\ mgr' = Builds(OnClose(M))
  <2>1. c \in Conns
    BY <1>1, <1>5 DEF State, Manager
  <2>2. /\ mgr' \in Manager
        /\ mgr'.running = mgr.running /\ mgr'.connection = c /\ mgr'.agents = mgr.agents
        /\ mgr'.running => mgr'.shown = "reconnecting"
        /\ mgr'.at = "token"
    BY <1>2, <1>5, MoveFacts, OnCloseFacts
  <2>3. /\ conns' \in [Conns -> Conn]
        /\ conns'[c].st = "closed"
        /\ \A d \in Conns : d # c => conns'[d] = conns[d]
    BY <1>1, <1>5, <2>1 DEF Conn
  <2> QED
    BY <1>1, <2>1, <2>2, <2>3, UpstreamAssumption
    DEF UpstreamInv, TypeOK, WaitOK, OneConnection, Alive, SubscribedFollows,
        ShownConnected, State
<1>6. CASE /\ NeedsConnection
           /\ State = "reconnecting"
           /\ conns' = [conns EXCEPT ![c].st = "closing"]
           /\ mgr' = [M EXCEPT !.at = "stop", !.mine = c]
  <2>1. c \in Conns
    BY <1>1, <1>6 DEF State, Manager
  <2>2. /\ mgr' \in Manager
        /\ mgr'.running = mgr.running /\ mgr'.connection = c /\ mgr'.agents = mgr.agents
        /\ mgr'.shown = mgr.shown /\ mgr'.at = "stop" /\ mgr'.mine = c
    BY <1>2, <1>6, <2>1 DEF Manager, Wait
  <2>3. /\ conns' \in [Conns -> Conn]
        /\ conns'[c].st = "closing"
        /\ \A d \in Conns : d # c => conns'[d] = conns[d]
    BY <1>1, <1>6, <2>1 DEF Conn
  <2>4. mgr.running => mgr.shown # "connected"
    BY <1>6 DEF UpstreamInv, ShownConnected
  <2> QED
    BY <1>1, <2>1, <2>2, <2>3, <2>4, UpstreamAssumption
    DEF UpstreamInv, TypeOK, WaitOK, OneConnection, Alive, SubscribedFollows,
        ShownConnected, State
<1> QED
  BY <1>3, <1>4, <1>5, <1>6 DEF RetryTimerFires, M

\* buildConnection has a token
LEMMA BuildStep ==
    ASSUME UpstreamInv, BuildsAndStarts
    PROVE  UpstreamInv'
<1> DEFINE d == CHOOSE e \in Conns : conns[e].st = "free"
           new == [Free EXCEPT !.st = "connecting"]
<1>1. /\ mgr \in Manager
      /\ conns \in [Conns -> Conn]
      /\ wanted' = wanted
      /\ wanted \in BOOLEAN
      /\ d \in Conns
  BY DEF BuildsAndStarts, UpstreamInv, TypeOK
<1>2. new \in Conn /\ new.st = "connecting"
  BY DEF Free, Conn
<1>3. /\ mgr' = [mgr EXCEPT !.connection = d, !.at = "start", !.mine = d]
      /\ conns' = [c \in Conns |-> IF c = d THEN new
                                   ELSE IF c = mgr.connection THEN Free
                                   ELSE conns[c]]
  BY DEF BuildsAndStarts
<1> HIDE DEF d, new
<1>4. /\ mgr' \in Manager
      /\ mgr'.running = mgr.running /\ mgr'.connection = d /\ mgr'.agents = mgr.agents
      /\ mgr'.shown = mgr.shown /\ mgr'.at = "start" /\ mgr'.mine = d
  BY <1>1, <1>3 DEF Manager, Wait
<1>5. /\ conns' \in [Conns -> Conn]
      /\ conns'[d].st = "connecting"
      /\ \A c \in Conns : c # d => conns'[c].st \in {"free", "closing", "closed"}
  BY <1>1, <1>2, <1>3, FreeType DEF UpstreamInv, OneConnection, Alive, Conn
<1>6. mgr.running => mgr.shown # "connected"
  BY DEF BuildsAndStarts, UpstreamInv, WaitOK, ShownConnected
<1> QED
  BY <1>1, <1>4, <1>5, <1>6, UpstreamAssumption
  DEF UpstreamInv, TypeOK, WaitOK, OneConnection, Alive, SubscribedFollows,
      ShownConnected, State

\* buildConnection has none
LEMMA NoTokenStep ==
    ASSUME UpstreamInv, NoToken
    PROVE  UpstreamInv'
<1>1. /\ mgr' \in Manager
      /\ mgr'.running = mgr.running /\ mgr'.connection = mgr.connection
      /\ mgr'.agents = mgr.agents /\ mgr'.shown = "reconnecting" /\ mgr'.at = "none"
  BY RetryFacts, MoveFacts DEF NoToken, UpstreamInv, TypeOK
<1> QED
  BY <1>1
  DEF NoToken, UpstreamInv, TypeOK, WaitOK, OneConnection, Alive, SubscribedFollows,
      ShownConnected

\* start returns, or throws
LEMMA StartStep ==
    ASSUME UpstreamInv, StartSucceeds \/ StartFails
    PROVE  UpstreamInv'
<1> DEFINE c == mgr.mine
<1>1. /\ mgr \in Manager
      /\ conns \in [Conns -> Conn]
      /\ wanted' = wanted
      /\ wanted \in BOOLEAN
      /\ c \in Conns
      /\ c = mgr.connection
  BY DEF StartSucceeds, StartFails, UpstreamInv, TypeOK, WaitOK, OneConnection, Alive
<1>2. CASE StartSucceeds
  <2>1. /\ mgr' \in Manager
        /\ mgr'.running = mgr.running /\ mgr'.connection = c
        /\ mgr'.agents = mgr.agents /\ mgr'.at = "subscribe"
    BY <1>1, <1>2 DEF StartSucceeds, Manager, Wait
  <2>2. /\ conns' \in [Conns -> Conn]
        /\ conns'[c].st = "connected" /\ conns'[c].req = mgr.agents
        /\ \A d \in Conns : d # c => conns'[d] = conns[d]
    BY <1>1, <1>2 DEF StartSucceeds, Subscribing, Conn, Manager
  <2> QED
    BY <1>1, <2>1, <2>2, UpstreamAssumption
    DEF UpstreamInv, TypeOK, WaitOK, OneConnection, Alive, SubscribedFollows,
        ShownConnected, State
<1>3. CASE StartFails
  <2>1. /\ mgr' \in Manager
        /\ mgr'.running = mgr.running /\ mgr'.connection = c
        /\ mgr'.agents = mgr.agents /\ mgr'.shown = "reconnecting" /\ mgr'.at = "none"
    BY <1>1, <1>3, RetryFacts, MoveFacts DEF StartFails
  <2>2. /\ conns' \in [Conns -> Conn]
        /\ conns'[c].st = "closed"
        /\ \A d \in Conns : d # c => conns'[d] = conns[d]
    BY <1>1, <1>3 DEF StartFails, Conn
  <2> QED
    BY <1>1, <2>1, <2>2
    DEF UpstreamInv, TypeOK, WaitOK, OneConnection, Alive, SubscribedFollows,
        ShownConnected
<1> QED
  BY <1>2, <1>3

\* What a connection that is up does: only the manager's is.
LEMMA ConnectedStep ==
    ASSUME UpstreamInv, NEW c \in Conns,
           \/ SubscribeAnswered(c) \/ ConnectionLost(c)
           \/ Reconnected(c) \/ HubCloses(c)
    PROVE  UpstreamInv'
<1>1. /\ mgr \in Manager
      /\ conns \in [Conns -> Conn]
      /\ wanted' = wanted
      /\ wanted \in BOOLEAN
      /\ c = mgr.connection
      /\ mgr.at \notin {"token", "stop"}
  BY UpstreamAssumption
  DEF SubscribeAnswered, ConnectionLost, Reconnected, HubCloses,
      UpstreamInv, TypeOK, WaitOK, OneConnection, Alive, State
<1>2. /\ Unsubscribed(mgr, c) \in Manager
      /\ Unsubscribed(mgr, c).running = mgr.running
      /\ Unsubscribed(mgr, c).connection = mgr.connection
      /\ Unsubscribed(mgr, c).agents = mgr.agents
      /\ Unsubscribed(mgr, c).shown = mgr.shown
      /\ \/ Unsubscribed(mgr, c).at = "none"
         \/ /\ Unsubscribed(mgr, c).at = mgr.at
            /\ Unsubscribed(mgr, c).mine = mgr.mine
  BY <1>1, MoveFacts
<1>3. CASE SubscribeAnswered(c)
  <2>1. /\ conns' \in [Conns -> Conn]
        /\ conns'[c].st = "connected" /\ conns'[c].req = conns[c].req
        /\ \A d \in Conns : d # c => conns'[d] = conns[d]
    BY <1>1, <1>3 DEF SubscribeAnswered, Conn
  <2>2. conns[c].st = "connected" /\ mgr' = Unsubscribed(mgr, c)
    BY <1>3 DEF SubscribeAnswered
  <2> QED
    BY <1>1, <1>2, <2>1, <2>2, UpstreamAssumption
    DEF UpstreamInv, TypeOK, WaitOK, OneConnection, Alive, SubscribedFollows,
        ShownConnected, State
<1>4. CASE ConnectionLost(c)
  <2>1. /\ conns' \in [Conns -> Conn]
        /\ conns'[c].st = "reconnecting"
        /\ \A d \in Conns : d # c => conns'[d] = conns[d]
    BY <1>1, <1>4 DEF ConnectionLost, Conn
  <2>2. /\ mgr' \in Manager
        /\ mgr'.connection = c /\ mgr'.agents = mgr.agents
        /\ mgr'.shown = "reconnecting"
        /\ mgr'.at = "none" \/ (mgr'.at = mgr.at /\ mgr'.mine = mgr.mine)
    BY <1>1, <1>2, <1>4 DEF ConnectionLost, Manager
  <2> QED
    BY <1>1, <2>1, <2>2
    DEF UpstreamInv, TypeOK, WaitOK, OneConnection, Alive, SubscribedFollows,
        ShownConnected
<1>5. CASE Reconnected(c)
  <2>1. /\ conns' \in [Conns -> Conn]
        /\ conns'[c].st = "connected" /\ conns'[c].req = mgr.agents
        /\ \A d \in Conns : d # c => conns'[d] = conns[d]
    BY <1>1, <1>5 DEF Reconnected, Subscribing, Conn, Manager
  <2>2. mgr' = mgr
    BY <1>5 DEF Reconnected
  <2> QED
    BY <1>1, <2>1, <2>2, UpstreamAssumption
    DEF UpstreamInv, TypeOK, WaitOK, OneConnection, Alive, SubscribedFollows,
        ShownConnected, State
<1>6. CASE HubCloses(c)
  <2>1. /\ conns' \in [Conns -> Conn]
        /\ conns'[c].st = "closed"
        /\ \A d \in Conns : d # c => conns'[d] = conns[d]
    BY <1>1, <1>6 DEF HubCloses, Conn
  <2>2. /\ mgr' \in Manager
        /\ mgr'.connection = c /\ mgr'.agents = mgr.agents
        /\ mgr'.running => mgr'.shown = "reconnecting"
        /\ mgr'.at = "none" \/ (mgr'.at = mgr.at /\ mgr'.mine = mgr.mine)
    BY <1>1, <1>2, <1>6, OnCloseFacts DEF HubCloses
  <2> QED
    BY <1>1, <2>1, <2>2
    DEF UpstreamInv, TypeOK, WaitOK, OneConnection, Alive, SubscribedFollows,
        ShownConnected
<1> QED
  BY <1>3, <1>4, <1>5, <1>6

\* A stop is complete
LEMMA StopCompletesStep ==
    ASSUME UpstreamInv, NEW c \in Conns, StopCompletes(c)
    PROVE  UpstreamInv'
<1> DEFINE M == IF conns[c].up THEN OnClose(mgr) ELSE mgr
<1>1. /\ mgr \in Manager
      /\ conns \in [Conns -> Conn]
      /\ wanted' = wanted
      /\ wanted \in BOOLEAN
      /\ conns[c].st = "closing"
  BY DEF StopCompletes, UpstreamInv, TypeOK
<1>2. /\ M \in Manager
      /\ M.running = mgr.running /\ M.connection = mgr.connection
      /\ M.agents = mgr.agents /\ M.at = mgr.at /\ M.mine = mgr.mine
      /\ mgr.running => M.shown \in {mgr.shown, "reconnecting"}
  BY <1>1, OnCloseFacts
<1>3. /\ conns' \in [Conns -> Conn]
      /\ conns'[c].st \in {"free", "closed"}
      /\ mgr.connection = c => conns'[c].st = "closed"
      /\ \A d \in Conns : d # c => conns'[d] = conns[d]
  <2>1. [Free EXCEPT !.st = "closed"] \in Conn /\ [Free EXCEPT !.st = "closed"].st = "closed"
    BY DEF Free, Conn
  <2> QED
    BY <1>1, <2>1, FreeType DEF StopCompletes
<1>4. mgr' = CASE mgr.mine = c /\ mgr.at = "start" -> Done(Retry(M))
               [] mgr.mine = c /\ mgr.at = "stop" -> Builds(M)
               [] OTHER -> Unsubscribed(M, c)
  BY DEF StopCompletes
<1> HIDE DEF M
<1>5. /\ mgr' \in Manager
      /\ mgr'.running = mgr.running /\ mgr'.connection = mgr.connection
      /\ mgr'.agents = mgr.agents
      /\ mgr'.running => mgr'.shown \in {mgr.shown, "reconnecting"}
      /\ \/ mgr'.at = "none"
         \/ mgr'.at = "token" /\ mgr.mine = c /\ mgr.at = "stop"
         \/ /\ mgr'.at = mgr.at /\ mgr'.mine = mgr.mine
            /\ ~(mgr.mine = c /\ mgr.at = "stop")
  <2>1. CASE mgr.mine = c /\ mgr.at = "start"
    <3>1. mgr' = Done(Retry(M))
      BY <1>4, <2>1
    <3> QED
      BY <1>2, <3>1, RetryFacts, MoveFacts
  <2>2. CASE mgr.mine = c /\ mgr.at = "stop"
    <3>1. mgr' = Builds(M)
      BY <1>4, <2>2
    <3> QED
      BY <1>2, <2>2, <3>1, MoveFacts
  <2>3. CASE ~(mgr.mine = c /\ mgr.at \in {"start", "stop"})
    <3>1. mgr' = Unsubscribed(M, c)
      BY <1>4, <2>3
    <3> QED
      BY <1>2, <2>3, <3>1, MoveFacts
  <2> QED
    BY <2>1, <2>2, <2>3
<1>6. mgr.connection = c /\ mgr.running => mgr.shown # "connected"
  BY <1>1, UpstreamAssumption DEF UpstreamInv, ShownConnected, State
<1>7. TypeOK'
  BY <1>1, <1>3, <1>5 DEF TypeOK
<1>8. WaitOK'
  <2>1. CASE mgr'.at = "token" /\ mgr.mine = c /\ mgr.at = "stop"
    BY <1>3, <1>5, <2>1 DEF UpstreamInv, WaitOK, State
  <2>2. CASE mgr'.at = mgr.at /\ mgr'.mine = mgr.mine /\ ~(mgr.mine = c /\ mgr.at = "stop")
    <3>1. mgr.connection = c => State = "closing"
      BY <1>1, UpstreamAssumption DEF State
    <3>2. mgr.at = "token" => State' \in {"none", "closed"}
      BY <1>3, <1>5, <3>1 DEF UpstreamInv, TypeOK, Manager, WaitOK, State
    <3> QED
      BY <1>1, <1>3, <1>5, <2>2, <3>2 DEF UpstreamInv, WaitOK
  <2>3. CASE mgr'.at = "none"
    BY <2>3 DEF WaitOK
  <2> QED
    BY <1>5, <2>1, <2>2, <2>3
<1>9. OneConnection' /\ SubscribedFollows'
  BY <1>1, <1>3, <1>5 DEF UpstreamInv, OneConnection, Alive, SubscribedFollows
<1>10. ShownConnected'
  <2>1. CASE mgr.connection = c
    BY <1>5, <1>6, <2>1 DEF ShownConnected
  <2>2. CASE mgr.connection # c
    BY <1>1, <1>3, <1>5, <2>2
    DEF UpstreamInv, TypeOK, Manager, ShownConnected, State
  <2> QED
    BY <2>1, <2>2
<1> QED
  BY <1>7, <1>8, <1>9, <1>10 DEF UpstreamInv

-----------------------------------------------------------------------------
(* The theorems. *)

\* Every step of the upstream, in any order, keeps the invariant.
LEMMA NextInv == UpstreamInv /\ [Next]_vars => UpstreamInv'
<1> SUFFICES ASSUME UpstreamInv, [Next]_vars PROVE UpstreamInv'
  OBVIOUS
<1>1. CASE WindowsChange
  BY <1>1, RefreshStep, StopStep DEF WindowsChange
<1>2. CASE RefreshRequest
  <2>1. wanted' \in BOOLEAN
    BY <1>2 DEF RefreshRequest, UpstreamInv, TypeOK
  <2> QED
    BY <1>2, <2>1, RefreshStep DEF RefreshRequest
<1>3. CASE RetryTimerFires
  BY <1>3, TimerStep
<1>4. CASE BuildsAndStarts
  BY <1>4, BuildStep
<1>5. CASE NoToken
  BY <1>5, NoTokenStep
<1>6. CASE StartSucceeds \/ StartFails
  BY <1>6, StartStep
<1>7. ASSUME NEW c \in Conns,
             \/ SubscribeAnswered(c) \/ ConnectionLost(c)
             \/ Reconnected(c) \/ HubCloses(c)
      PROVE  UpstreamInv'
  BY <1>7, ConnectedStep
<1>8. ASSUME NEW c \in Conns, StopCompletes(c)
      PROVE  UpstreamInv'
  BY <1>8, StopCompletesStep
<1>9. CASE UNCHANGED vars
  BY <1>9
  DEF vars, UpstreamInv, TypeOK, WaitOK, OneConnection, Alive, SubscribedFollows,
      ShownConnected, State
<1> QED
  BY <1>1, <1>2, <1>3, <1>4, <1>5, <1>6, <1>7, <1>8, <1>9 DEF Next

\* The inductive invariant of the upstream, for any agents, connections and
\* bound on the timers.
THEOREM Invariance == Spec => []UpstreamInv
BY InitInv, NextInv, PTL DEF Spec

\* Every variable keeps its type.
THEOREM TypeCorrect == Spec => []TypeOK
<1>1. UpstreamInv => TypeOK
  BY DEF UpstreamInv
<1> QED
  BY <1>1, Invariance, PTL

\* The hub never serves two connections of the manager: whatever
\* ensureConnection builds while stops and refreshes overtake it is the
\* connection the next stop reaches.
THEOREM OneConnectionCorrect == Spec => []OneConnection
<1>1. UpstreamInv => OneConnection
  BY DEF UpstreamInv
<1> QED
  BY <1>1, Invariance, PTL

\* A connection that is up has been asked for exactly the agents tracked.
THEOREM SubscriptionsCorrect == Spec => []SubscribedFollows
<1>1. UpstreamInv => SubscribedFollows
  BY DEF UpstreamInv
<1> QED
  BY <1>1, Invariance, PTL

\* The status route shows 'connected' only while the connection is up.
THEOREM ShownCorrect == Spec => []ShownConnected
<1>1. UpstreamInv => ShownConnected
  BY DEF UpstreamInv
<1> QED
  BY <1>1, Invariance, PTL

-----------------------------------------------------------------------------
(* The manager implements NotificationFeed. *)

\* The abstract variables that are not fields of the manager.
Feeds == {conns[c].req : c \in {d \in Conns : conns[d].st = "connected"}}
Attempting == mgr.at \in {"token", "stop"} \/ \E c \in Conns : Alive(c)
Late == ~mgr.running /\ Attempting

\* A step of NotificationFeed, or one that it does not see.
FeedStep == Feed!Next \/ UNCHANGED Feed!vars

\* With one connection, subscribed to the tracked agents, there is one list or none.
OneFeed ==
    /\ Feeds = IF State = "connected" THEN {mgr.agents} ELSE {}
    /\ Feeds # {} => Attempting

LEMMA FeedsAre == UpstreamInv => OneFeed
<1> SUFFICES ASSUME UpstreamInv PROVE OneFeed
  OBVIOUS
<1>1. \A c \in Conns : conns[c].st = "connected" => mgr.connection = c /\ conns[c].req = mgr.agents
  BY DEF UpstreamInv, OneConnection, Alive, SubscribedFollows
<1>2. mgr.connection \in Conns \cup {None}
  BY DEF UpstreamInv, TypeOK, Manager
<1>3. CASE State = "connected"
  <2>1. mgr.connection \in Conns /\ conns[mgr.connection].st = "connected"
    BY <1>2, <1>3 DEF State
  <2>2. Feeds = {mgr.agents}
    BY <1>1, <2>1 DEF Feeds
  <2> QED
    BY <1>3, <2>1, <2>2 DEF OneFeed, Attempting, Alive
<1>4. CASE State # "connected"
  <2>1. \A c \in Conns : conns[c].st # "connected"
    BY <1>1, <1>4, UpstreamAssumption DEF State
  <2> QED
    BY <1>4, <2>1 DEF OneFeed, Feeds
<1> QED
  BY <1>3, <1>4

LEMMA FeedInit == Init => Feed!Init
<1> SUFFICES ASSUME Init PROVE Feed!Init
  OBVIOUS
<1>1. PICK boot \in SUBSET Agents :
          mgr = [running |-> boot # {}, connection |-> None, agents |-> boot,
                 shown |-> IF boot = {} THEN "none" ELSE "reconnecting",
                 at |-> IF boot = {} THEN "none" ELSE "token",
                 mine |-> None, timers |-> 0]
  BY DEF Init
<1>2. /\ mgr.agents \in SUBSET Agents
      /\ mgr.running = (mgr.agents # {})
      /\ ~mgr.running => mgr.at = "none"
  BY <1>1
<1>3. \A c \in Conns : conns[c].st = "free"
  BY FreeType DEF Init
<1>4. Feeds = {}
  BY <1>3 DEF Feeds
<1>5. Late = FALSE
  BY <1>2, <1>3 DEF Late, Attempting, Alive
<1> QED
  BY <1>2, <1>4, <1>5 DEF Feed!Init, Feeds, Late, Attempting

\* After a refresh or a stop nothing is up, and an attempt waits where it did.
LEMMA CutOff ==
    ASSUME UpstreamInv, StopsConnection
    PROVE  Feeds' = {} /\ \A c \in Conns : ~Alive(c)'
BY StopsFacts DEF Feeds, Alive

LEMMA FeedRefreshes ==
    ASSUME UpstreamInv, NEW A \in SUBSET Agents \ {{}}, Refresh(A)
    PROVE  Feed!Refreshes(A)
<1>1. mgr'.running = TRUE /\ mgr'.agents = A
  BY DEF Refresh, UpstreamInv, TypeOK, Manager
<1>2. Feeds' = {}
  BY CutOff DEF Refresh
<1>3. Late' = FALSE
  BY <1>1 DEF Late
<1> QED
  BY <1>1, <1>2, <1>3 DEF Feed!Refreshes, Feeds, Late, Attempting

LEMMA FeedStops ==
    ASSUME UpstreamInv, StopManager
    PROVE  Feed!Stops
<1>1. mgr'.running = FALSE /\ mgr'.agents = mgr.agents /\ mgr'.at = mgr.at
  BY DEF StopManager, UpstreamInv, TypeOK, Manager
<1>2. Feeds' = {} /\ \A c \in Conns : ~Alive(c)'
  BY CutOff DEF StopManager
<1>3. Late' \in BOOLEAN
  BY DEF Late
<1>4. Late' => Late \/ mgr.running
  BY <1>1, <1>2 DEF Late, Attempting
<1> QED
  BY <1>1, <1>2, <1>3, <1>4 DEF Feed!Stops, Feeds, Late, Attempting

\* A step that neither starts nor stops the manager, and begins an attempt only where
\* one goes on or the manager runs.
LEMMA FeedGoesOn ==
    ASSUME UpstreamInv, UpstreamInv',
           mgr'.running = mgr.running, mgr'.agents = mgr.agents,
           Attempting' => Attempting \/ mgr.running
    PROVE  FeedStep
<1>0. OneFeed /\ OneFeed'
  BY FeedsAre, PTL
<1>1. Feeds \in {{}, {mgr.agents}}
  BY <1>0 DEF OneFeed
<1>2. /\ Feeds' \in {{}, {mgr.agents}}
      /\ Feeds' # {} => Attempting'
  BY <1>0 DEF OneFeed
<1>3. Late' => Late
  BY DEF Late
<1>4. CASE Feeds' = {}
  <2>1. Late' \in {Late, FALSE}
    BY <1>3 DEF Late
  <2>2. Feed!Drops
    BY <1>4, <2>1 DEF Feed!Drops, Feeds, Late, Attempting
  <2> QED
    BY <2>2 DEF FeedStep, Feed!Next
<1>5. CASE Feeds' # {}
  <2>1. Late' = Late
    BY <1>2, <1>3, <1>5 DEF Late
  <2>2. Feeds' = {mgr.agents}
    BY <1>2, <1>5
  <2>3. mgr.running \/ Late
    BY <1>2, <1>5 DEF Late
  <2>4. CASE Feeds = {}
    <3>1. Feed!Subscribes
      BY <2>1, <2>2, <2>3, <2>4 DEF Feed!Subscribes, Feeds, Late, Attempting
    <3> QED
      BY <3>1 DEF FeedStep, Feed!Next
  <2>5. CASE Feeds # {}
    <3>1. Feeds' = Feeds
      BY <1>1, <2>2, <2>5
    <3> QED
      BY <2>1, <3>1 DEF FeedStep, Feed!vars, Feeds, Late, Attempting
  <2> QED
    BY <2>4, <2>5
<1> QED
  BY <1>4, <1>5

\* What ensureConnection does begins no attempt: it was waiting, or the manager runs.
LEMMA EnsureGoesOn ==
    ASSUME UpstreamInv,
           RetryTimerFires \/ BuildsAndStarts \/ NoToken \/ StartSucceeds \/ StartFails
    PROVE  /\ mgr'.running = mgr.running /\ mgr'.agents = mgr.agents
           /\ Attempting' => Attempting \/ mgr.running
<1>1. mgr \in Manager /\ conns \in [Conns -> Conn]
  BY DEF UpstreamInv, TypeOK
<1>2. CASE RetryTimerFires
  <2> DEFINE M == [mgr EXCEPT !.timers = @ - 1]
  <2>1. /\ M \in Manager /\ M.running = mgr.running /\ M.agents = mgr.agents /\ M.at = mgr.at
    BY <1>1, <1>2, UpstreamAssumption DEF RetryTimerFires, Manager
  <2>2. \/ mgr' = M /\ UNCHANGED conns
        \/ NeedsConnection /\ mgr' \in {Builds(M), Builds(OnClose(M))}
        \/ NeedsConnection /\ mgr' = [M EXCEPT !.at = "stop", !.mine = mgr.connection]
    BY <1>2 DEF RetryTimerFires
  <2> HIDE DEF M
  <2>3. CASE mgr' = M /\ UNCHANGED conns
    BY <2>1, <2>3 DEF Attempting, Alive
  <2>4. CASE NeedsConnection /\ mgr' \in {Builds(M), Builds(OnClose(M))}
    <3>1. /\ OnClose(M) \in Manager
          /\ OnClose(M).running = M.running /\ OnClose(M).agents = M.agents
      BY <2>1, OnCloseFacts
    <3>2. mgr'.running = M.running /\ mgr'.agents = M.agents
      BY <2>1, <2>4, <3>1, MoveFacts
    <3> QED
      BY <2>1, <2>4, <3>2 DEF NeedsConnection
  <2>5. CASE NeedsConnection /\ mgr' = [M EXCEPT !.at = "stop", !.mine = mgr.connection]
    BY <2>1, <2>5 DEF NeedsConnection, Manager
  <2> QED
    BY <2>2, <2>3, <2>4, <2>5
<1>3. CASE BuildsAndStarts
  BY <1>1, <1>3 DEF BuildsAndStarts, Attempting, Manager
<1>4. CASE NoToken
  BY <1>1, <1>4, RetryFacts, MoveFacts DEF NoToken, Attempting
<1>5. CASE StartSucceeds \/ StartFails
  <2>1. Attempting
    BY <1>5 DEF StartSucceeds, StartFails, Attempting, Alive, UpstreamInv, WaitOK
  <2>2. CASE StartSucceeds
    BY <1>1, <2>1, <2>2 DEF StartSucceeds, Manager
  <2>3. CASE StartFails
    <3>1. /\ Retry(mgr) \in Manager
          /\ Retry(mgr).running = mgr.running /\ Retry(mgr).agents = mgr.agents
      BY <1>1, RetryFacts
    <3>2. mgr' = Done(Retry(mgr))
      BY <2>3 DEF StartFails
    <3> QED
      BY <2>1, <3>1, <3>2, MoveFacts
  <2> QED
    BY <1>5, <2>2, <2>3
<1> QED
  BY <1>2, <1>3, <1>4, <1>5

\* Neither does what the client library reports.
LEMMA LibraryGoesOn ==
    ASSUME UpstreamInv, NEW c \in Conns,
           \/ SubscribeAnswered(c) \/ ConnectionLost(c) \/ Reconnected(c)
           \/ HubCloses(c) \/ StopCompletes(c)
    PROVE  /\ mgr'.running = mgr.running /\ mgr'.agents = mgr.agents
           /\ Attempting' => Attempting \/ mgr.running
<1>1. mgr \in Manager /\ conns \in [Conns -> Conn]
  BY DEF UpstreamInv, TypeOK
<1>2. CASE StopCompletes(c)
  <2> DEFINE M == IF conns[c].up THEN OnClose(mgr) ELSE mgr
  <2>1. M \in Manager /\ M.running = mgr.running /\ M.agents = mgr.agents /\ M.at = mgr.at
    BY <1>1, OnCloseFacts
  <2>2. mgr' = CASE mgr.mine = c /\ mgr.at = "start" -> Done(Retry(M))
                 [] mgr.mine = c /\ mgr.at = "stop" -> Builds(M)
                 [] OTHER -> Unsubscribed(M, c)
    BY <1>2 DEF StopCompletes
  <2> HIDE DEF M
  <2>3. \/ mgr' = Done(Retry(M))
        \/ mgr.at = "stop" /\ mgr' = Builds(M)
        \/ mgr' = Unsubscribed(M, c)
    BY <2>2
  <2>4. /\ mgr'.running = mgr.running /\ mgr'.agents = mgr.agents
        /\ mgr.at = "stop" \/ mgr'.at \in {"none", mgr.at}
    BY <2>1, <2>3, RetryFacts, MoveFacts
  <2>5. \A d \in Conns : Alive(d)' => Alive(d)
    BY <1>1, <1>2, FreeType DEF StopCompletes, Alive, Free
  <2> QED
    BY <2>4, <2>5 DEF Attempting
<1>3. CASE SubscribeAnswered(c) \/ ConnectionLost(c) \/ Reconnected(c) \/ HubCloses(c)
  <2>1. Attempting
    BY <1>3 DEF SubscribeAnswered, ConnectionLost, Reconnected, HubCloses, Attempting, Alive
  <2>2. /\ Unsubscribed(mgr, c) \in Manager
        /\ Unsubscribed(mgr, c).running = mgr.running
        /\ Unsubscribed(mgr, c).agents = mgr.agents
    BY <1>1, MoveFacts
  <2>3. \/ mgr' \in {mgr, Unsubscribed(mgr, c), OnClose(Unsubscribed(mgr, c))}
        \/ mgr' = [Unsubscribed(mgr, c) EXCEPT !.shown = "reconnecting"]
    BY <1>3 DEF SubscribeAnswered, ConnectionLost, Reconnected, HubCloses
  <2>4. mgr'.running = mgr.running /\ mgr'.agents = mgr.agents
    BY <2>2, <2>3, OnCloseFacts DEF Manager
  <2> QED
    BY <2>1, <2>4
<1> QED
  BY <1>2, <1>3

LEMMA FeedNext == UpstreamInv /\ [Next]_vars => [Feed!Next]_(Feed!vars)
<1> SUFFICES ASSUME UpstreamInv, [Next]_vars PROVE FeedStep
  BY DEF FeedStep
<1>1. UpstreamInv'
  BY NextInv
<1>2. CASE WindowsChange
  BY <1>2, FeedRefreshes, FeedStops DEF WindowsChange, FeedStep, Feed!Next
<1>3. CASE RefreshRequest
  BY <1>3, FeedRefreshes DEF RefreshRequest, FeedStep, Feed!Next
<1>4. CASE RetryTimerFires \/ BuildsAndStarts \/ NoToken \/ StartSucceeds \/ StartFails
  BY <1>1, <1>4, EnsureGoesOn, FeedGoesOn
<1>5. ASSUME NEW c \in Conns,
             \/ SubscribeAnswered(c) \/ ConnectionLost(c) \/ Reconnected(c)
             \/ HubCloses(c) \/ StopCompletes(c)
      PROVE  FeedStep
  BY <1>1, <1>5, LibraryGoesOn, FeedGoesOn
<1>6. CASE UNCHANGED vars
  BY <1>6 DEF vars, FeedStep, Feed!vars, Alive
<1> QED
  BY <1>2, <1>3, <1>4, <1>5, <1>6 DEF Next

\* The upstream implements NotificationFeed: what the hub sends is for the agents
\* tracked now, a refresh or a stop cuts it off, and a stop holds but for an attempt
\* that was waiting for its token or for the old connection's end.
THEOREM ImplementsFeed == Spec => FeedSpec
<1>1. Spec => Init /\ [][Next]_vars
  BY DEF Spec
<1> QED
  BY <1>1, FeedInit, FeedNext, Invariance, PTL DEF FeedSpec, Feed!Spec
=============================================================================
