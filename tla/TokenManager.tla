----------------------------- MODULE TokenManager -----------------------------
(***************************************************************************)
(* The sidecar's IDP session: api/auth/tokenManager.ts and the routes of   *)
(* api/routes/auth.ts that log in, push a session, log out and ask for a   *)
(* token.  The IDP, which issues single-use refresh tokens, is the         *)
(* environment.                                                            *)
(*                                                                         *)
(* A caller is one async call (a route, a proxy, the SignalR manager)      *)
(* between two awaits; every action is one atomic segment of the Node      *)
(* process or one step of the IDP.                                         *)
(***************************************************************************)
EXTENDS Naturals, FiniteSets

CONSTANTS
    Users,                  \* who may log in
    Callers,                \* slots for async calls in flight
    None,                   \* null
    MAX_REFRESH_FAILURES,   \* 8 in the code
    TokenBound              \* bound: refresh tokens the IDP issues

ASSUME TokenAssumption ==
    /\ MAX_REFRESH_FAILURES \in Nat \ {0}
    /\ TokenBound \in Nat

VARIABLES
    session,      \* currentSession
    inflight,     \* inflightRefresh: the caller that runs the shared refresh
    dead,         \* sessionTerminallyDead
    failures,     \* consecutiveAmbiguousFailures
    callers,
    issued,       \* IDP: how many refresh tokens it has issued
    valid,        \* IDP: the refresh tokens it would honour
    forfeited     \* IDP: tokens revoked, or rotated in an answer that was lost

sidecar == <<session, inflight, dead, failures>>
idp == <<issued, valid, forfeited>>
vars == <<sidecar, callers, idp>>

------------------------------------------------------------------------------
Tokens == 1..TokenBound

\* The access token is the latest one of the refresh token's session: all that
\* matters of it is whether isTokenValid takes it for expired.
Session == [user: Users, refresh: Tokens \cup {None}, expired: BOOLEAN]

\* "token" is a caller of ensureValidToken or forceRefresh that catches what they
\* throw, "status" one of the two routes that do not.
Operation == {"login", "logout", "token", "status"}

\* The IDP is asked, or its answer is on the way back.  Callers that need a token
\* may also wait for the refresh another one runs, and when its promise has
\* settled they have yet to resume.
Stage == {"asked", "answered", "waiting", "settled"}

\* The IDP's answers, and what a settled refresh promise resolves to.
Answer == {"ok", "rejected", "ambiguous", "refreshed", "failed"}

ASSUME NoneAssumption == None \notin Users \cup Tokens \cup Callers \cup Session \cup Operation \cup Stage

Caller == [
    op: Operation \cup {None}, at: Stage \cup {None},
    user: Users \cup {None},
    token: Tokens \cup {None},    \* the refresh token presented
    fresh: Tokens \cup {None},    \* the refresh token the answer brings
    answer: Answer \cup {None}]

Idle == [op |-> None, at |-> None, user |-> None, token |-> None, fresh |-> None, answer |-> None]

TypeOK ==
    /\ session \in Session \cup {None}
    /\ inflight \in Callers \cup {None}
    /\ dead \in BOOLEAN
    /\ failures \in 0..MAX_REFRESH_FAILURES
    /\ callers \in [Callers -> Caller]
    /\ issued \in 0..TokenBound
    /\ valid \subseteq Tokens
    /\ forfeited \subseteq Tokens

Init ==
    /\ session = None /\ inflight = None /\ dead = FALSE /\ failures = 0
    /\ callers = [c \in Callers |-> Idle]
    /\ issued = 0 /\ valid = {} /\ forfeited = {}

------------------------------------------------------------------------------
(* What the functions of tokenManager.ts assign *)

\* Mutation of SetSession: the new session inherits the failures of the last one.
SetSessionKeepsFailures(user, refresh) ==
    /\ session' = [user |-> user, refresh |-> refresh, expired |-> FALSE]
    /\ dead' = FALSE
    /\ UNCHANGED failures

SetSession(user, refresh) ==
    /\ session' = [user |-> user, refresh |-> refresh, expired |-> FALSE]
    /\ dead' = FALSE
    /\ failures' = 0

\* Mutation of MarkTerminallyDead: clearSession() is forgotten.
MarkDeadKeepsSession == dead' = TRUE /\ UNCHANGED session

MarkTerminallyDead ==
    IF dead THEN UNCHANGED <<dead, session>> ELSE dead' = TRUE /\ session' = None

\* Mutation of AdoptTokens: the re-check after the await is gone.
AdoptTokensBlindly(presented, fresh, user) ==
    session' = [user |-> user, refresh |-> fresh, expired |-> FALSE]

\* A refresh succeeded: its tokens are taken unless another session was set, or
\* none is left, since it began.
AdoptTokens(presented, fresh, user) ==
    IF session # None /\ session.refresh = presented
    THEN session' = [user |-> user, refresh |-> fresh, expired |-> FALSE]
    ELSE UNCHANGED session

\* Mutation of CountFailure: the latch closes one failure late.
CountFailureLate ==
    /\ failures' = failures + 1
    /\ IF failures >= MAX_REFRESH_FAILURES
       THEN MarkTerminallyDead
       ELSE UNCHANGED <<dead, session>>

\* A failure without the explicit signal: fatal only the MAX_REFRESH_FAILURES-th
\* time in a row.
CountFailure ==
    /\ failures' = failures + 1
    /\ IF failures + 1 >= MAX_REFRESH_FAILURES
       THEN MarkTerminallyDead
       ELSE UNCHANGED <<dead, session>>

At(c, ops, stage) == callers[c].op \in ops /\ callers[c].at = stage

Finish(c) == callers' = [callers EXCEPT ![c] = Idle]

Goes(c, r) == callers' = [callers EXCEPT ![c] = r]

\* The promise settles for the caller that ran it and for all that share it.
Settle(c, result) ==
    callers' = [d \in Callers |->
        IF d = c \/ callers[d].at = "waiting"
        THEN [callers[d] EXCEPT !.at = "settled", !.answer = result,
                                !.token = None, !.fresh = None, !.user = None]
        ELSE callers[d]]

\* The IDP issues one more refresh token.
Issue ==
    /\ issued < TokenBound
    /\ issued' = issued + 1
    /\ valid' = valid \cup {issued'}

------------------------------------------------------------------------------
(* The routes and the callers of tokenManager.ts *)

LoginRequest(c, u) ==
    /\ callers[c] = Idle
    /\ Goes(c, [Idle EXCEPT !.op = "login", !.at = "asked", !.user = u])
    /\ UNCHANGED <<sidecar, idp>>

\* POST /login goes on after the IDP's answer.
LoginReturns(c) ==
    /\ At(c, {"login"}, "answered")
    /\ IF callers[c].answer = "ok"
       THEN SetSession(callers[c].user, callers[c].fresh)
       ELSE UNCHANGED <<session, dead, failures>>
    /\ Finish(c)
    /\ UNCHANGED <<inflight, idp>>

\* POST /external-session: the desktop pushes tokens the IDP has given it, with or
\* without a refresh token.
ExternalSession(u) ==
    /\ \/ Issue /\ SetSession(u, issued')
       \/ UNCHANGED <<issued, valid>> /\ SetSession(u, None)
    /\ UNCHANGED <<inflight, callers, forfeited>>

\* POST /logout: with a refresh token the IDP is told first, and the session stays
\* until it has answered.
LogoutRequest(c) ==
    /\ callers[c] = Idle
    /\ session # None
    /\ IF session.refresh = None
       THEN session' = None /\ UNCHANGED callers
       ELSE /\ Goes(c, [Idle EXCEPT !.op = "logout", !.at = "asked", !.token = session.refresh])
            /\ UNCHANGED session
    /\ UNCHANGED <<inflight, dead, failures, idp>>

LogoutReturns(c) ==
    /\ At(c, {"logout"}, "asked") \/ At(c, {"logout"}, "answered")
    /\ session' = None
    /\ Finish(c)
    /\ UNCHANGED <<inflight, dead, failures, idp>>

\* Mutation of Refresh: every caller starts a refresh of its own.
RefreshAlone(c, op) ==
    /\ inflight' = c
    /\ Goes(c, [Idle EXCEPT !.op = op, !.at = "asked", !.user = session.user,
                              !.token = session.refresh])

\* refreshToken() up to its await: join the refresh in flight or start one.
Refresh(c, op) ==
    IF inflight # None
    THEN /\ Goes(c, [Idle EXCEPT !.op = op, !.at = "waiting"])
         /\ UNCHANGED inflight
    ELSE /\ inflight' = c
         /\ Goes(c, [Idle EXCEPT !.op = op, !.at = "asked", !.user = session.user,
                              !.token = session.refresh])

\* ensureValidToken, for an expired access token only, and forceRefresh.  Where they
\* answer at once (dead, no session, a valid token, no refresh token) nothing changes
\* and there is no action.
TokenRequest(c, op) ==
    /\ callers[c] = Idle
    /\ ~dead
    /\ session # None
    /\ session.refresh # None
    /\ op = "status" => session.expired
    /\ Refresh(c, op)
    /\ UNCHANGED <<session, dead, failures, idp>>

\* What the body of the refresh does with the IDP's answer.
RefreshOutcome(c) ==
    \/ /\ callers[c].answer = "ok"
       /\ AdoptTokens(callers[c].token, callers[c].fresh, callers[c].user)
       /\ failures' = 0
       /\ UNCHANGED dead
       /\ Settle(c, "refreshed")
    \/ /\ callers[c].answer = "rejected"
       /\ MarkTerminallyDead
       /\ UNCHANGED failures
       /\ Settle(c, "failed")
    \/ callers[c].answer = "ambiguous" /\ CountFailure /\ Settle(c, "failed")

\* Mutation of RefreshReturns: inflightRefresh is cleared on success only.
RefreshReturnsNoFinally(c) ==
    /\ inflight = c
    /\ callers[c].at = "answered"
    /\ RefreshOutcome(c)
    /\ inflight' = IF callers[c].answer = "ok" THEN None ELSE c
    /\ UNCHANGED idp

\* The body of the refresh goes on after the IDP's answer, to its finally block.
RefreshReturns(c) ==
    /\ inflight = c
    /\ callers[c].at = "answered"
    /\ RefreshOutcome(c)
    /\ inflight' = None
    /\ UNCHANGED idp

\* ensureValidToken dereferences the session after its await without looking.
Throws(c) == callers[c].answer = "refreshed" /\ session = None

\* The call returns, or throws where its caller catches.
CallReturns(c) ==
    /\ At(c, {"token", "status"}, "settled")
    /\ ~(callers[c].op = "status" /\ Throws(c))
    /\ Finish(c)
    /\ UNCHANGED <<sidecar, idp>>

\* A throw nobody catches ends the process (unhandledRejection); the desktop
\* starts it again, with nothing in memory.
SidecarExits(c) ==
    /\ At(c, {"status"}, "settled")
    /\ Throws(c)
    /\ session' = None /\ inflight' = None /\ dead' = FALSE /\ failures' = 0
    /\ callers' = [d \in Callers |-> Idle]
    /\ UNCHANGED idp

AccessExpires ==
    /\ session # None
    /\ ~session.expired
    /\ session' = [session EXCEPT !.expired = TRUE]
    /\ UNCHANGED <<inflight, dead, failures, callers, idp>>

------------------------------------------------------------------------------
(* The IDP *)

Responds(c, answer, fresh) ==
    Goes(c, [callers[c] EXCEPT !.at = "answered", !.answer = answer, !.fresh = fresh])

IdpLogin(c) ==
    /\ At(c, {"login"}, "asked")
    /\ \/ Issue /\ Responds(c, "ok", issued')
       \/ Responds(c, "rejected", None) /\ UNCHANGED <<issued, valid>>
    /\ UNCHANGED <<sidecar, forfeited>>

IdpRevokes(c) ==
    /\ At(c, {"logout"}, "asked")
    /\ valid' = valid \ {callers[c].token}
    /\ forfeited' = forfeited \cup {callers[c].token}
    /\ Goes(c, [callers[c] EXCEPT !.at = "answered"])
    /\ UNCHANGED <<sidecar, issued>>

Refreshing(c) == At(c, {"token", "status"}, "asked")

\* The refresh token is used up and a new one comes with the answer, or the
\* answer is lost on its way.
IdpRotates(c) ==
    /\ Refreshing(c)
    /\ callers[c].token \in valid
    /\ issued < TokenBound
    /\ issued' = issued + 1
    /\ valid' = (valid \ {callers[c].token}) \cup {issued'}
    /\ \/ Responds(c, "ok", issued') /\ UNCHANGED forfeited
       \/ Responds(c, "ambiguous", None) /\ forfeited' = forfeited \cup {callers[c].token}
    /\ UNCHANGED sidecar

\* The IDP renews the access token alone: the refresh token stays in use.
IdpRenews(c) ==
    /\ Refreshing(c)
    /\ callers[c].token \in valid
    /\ Responds(c, "ok", callers[c].token)
    /\ UNCHANGED <<sidecar, idp>>

\* The explicit signal (a spent or revoked token, a binding mismatch), or an error
\* without it: a 5xx, an unreadable body, a network failure.
IdpFails(c) ==
    /\ Refreshing(c)
    /\ Responds(c, "rejected", None) \/ Responds(c, "ambiguous", None)
    /\ UNCHANGED <<sidecar, idp>>

IdpAnswers(c) == IdpLogin(c) \/ IdpRevokes(c) \/ IdpRotates(c) \/ IdpRenews(c) \/ IdpFails(c)

------------------------------------------------------------------------------
Resumes(c) ==
    LoginReturns(c) \/ LogoutReturns(c) \/ RefreshReturns(c) \/ CallReturns(c) \/ SidecarExits(c)

Next ==
    \/ \E c \in Callers: \/ \E u \in Users: LoginRequest(c, u)
                         \/ LogoutRequest(c)
                         \/ \E op \in {"token", "status"}: TokenRequest(c, op)
                         \/ Resumes(c) \/ IdpAnswers(c)
    \/ \E u \in Users: ExternalSession(u)
    \/ AccessExpires

Spec == Init /\ [][Next]_vars

------------------------------------------------------------------------------
(* Properties *)

\* A dead session is really gone: no token is left to hand out and no refresh is
\* still running that could bring one back (tokenManager.ts:97-119,270-440).
DeadMeansQuiet == dead => session = None /\ inflight = None

\* The anti-storm net closes at the MAX_REFRESH_FAILURES-th ambiguous failure in a
\* row, whoever counted them and whatever logins and logouts came in between, and a
\* new session starts with a net of its own (tokenManager.ts:43-49,232-234,365-384).
FailuresCapped == failures >= MAX_REFRESH_FAILURES => dead

\* inflightRefresh names the one refresh that is running, no refresh runs besides
\* it, and nobody waits for a promise that has settled: single flight neither
\* doubles a refresh nor leaves a caller hanging (tokenManager.ts:26-32,284-290).
FlightIsReal ==
    /\ \A c \in Callers:
          inflight = c <=> callers[c].op \in {"token", "status"} /\ callers[c].at \in {"asked", "answered"}
    /\ \A c \in Callers: callers[c].at = "waiting" => inflight # None

\* Single-use tokens: the sidecar never presents a refresh token whose successor
\* it was given, for only a revocation or a lost answer spends a token behind its
\* back (tokenManager.ts:26-32,401-412).
TokenPresentedOnce ==
    \A c \in Callers: Refreshing(c) => callers[c].token \in valid \cup forfeited

\* A refresh never changes whose session it is and never brings a session back
\* after a logout, however late its answer (tokenManager.ts:401-412).
UserChangesOnlyByLogin ==
    [][(session' # None /\ (session = None \/ session'.user # session.user)) =>
          \/ \E c \in Callers: LoginReturns(c)
          \/ \E u \in Users: ExternalSession(u)
      ]_vars

\* The sidecar implements the session the rest of it relies on (IdpSession): a
\* refresh never changes whose session it is, brings one back after a logout or
\* runs for a dead one, and every outcome moves latch, count and account together.
Promise == INSTANCE IdpSession WITH
    account <- IF session = None THEN None ELSE session.user,
    refreshing <- inflight # None

IdpSessionSpec == Promise!Spec

\* tokenManager.ts:218-221: after a fresh login or re-seed the session works without
\* a restart.  A session is not declared dead because the IDP rejected the refresh
\* token of another one.
FreshSessionSurvives ==
    [][\A c \in Callers:
          (RefreshReturns(c) /\ callers[c].answer = "rejected" /\ session # None) =>
             session.refresh = callers[c].token \/ ~dead'
      ]_vars

==============================================================================
