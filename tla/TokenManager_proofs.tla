-------------------------- MODULE TokenManager_proofs --------------------------
(***************************************************************************)
(* Theorems about TokenManager.  Who holds which refresh token is what the *)
(* inductive invariant is about: the one refresh in flight, the session,   *)
(* and the logins whose answer is on its way.                              *)
(***************************************************************************)
EXTENDS TokenManager, TLAPS

\* A caller's record r: it runs the shared refresh, that refresh has succeeded, or
\* the login it serves has.
Refreshes(r) == r.op \in {"token", "status"} /\ r.at \in {"asked", "answered"}

Brings(r) == Refreshes(r) /\ r.at = "answered" /\ r.answer = "ok"

LoggedIn(r) == r.op = "login" /\ r.at = "answered" /\ r.answer = "ok"

\* A login and a running refresh know whose they are, a logout the token it revokes,
\* and only callers that need a token wait for a refresh.
UsersKnown ==
    \A c \in Callers:
        /\ callers[c].op = "login" \/ Refreshes(callers[c]) => callers[c].user \in Users
        /\ callers[c].op = "login" => callers[c].at # "waiting"
        /\ callers[c].op = "logout" => callers[c].token \in Tokens /\ callers[c].at # "waiting"

\* Not spent behind the sidecar's back, or spent by a revocation or a lost answer.
Usable == valid \cup forfeited

Issued == 1..issued

\* A running refresh presents a token the IDP issued; what it brings is usable.
RefreshHolds ==
    \A c \in Callers:
        /\ Refreshes(callers[c]) => callers[c].token \in Issued
        /\ Refreshes(callers[c]) /\ callers[c].at = "asked" => callers[c].token \in Usable
        /\ Brings(callers[c]) => callers[c].fresh \in Issued /\ callers[c].fresh \in Usable

\* A login's answer brings a usable token that is nobody else's.
LoginHolds ==
    \A c \in Callers: LoggedIn(callers[c]) =>
        /\ callers[c].fresh \in Issued /\ callers[c].fresh \in Usable
        /\ session # None => session.refresh # callers[c].fresh
        /\ \A d \in Callers:
             /\ Refreshes(callers[d]) => callers[d].token # callers[c].fresh
             /\ Brings(callers[d]) => callers[d].fresh # callers[c].fresh
             /\ LoggedIn(callers[d]) /\ d # c => callers[d].fresh # callers[c].fresh

\* The session's token is usable unless its successor is about to be adopted, and
\* a refresh that presents it does so for the session's user.
SessionHolds ==
    (session # None /\ session.refresh # None) =>
        /\ session.refresh \in Issued
        /\ \/ session.refresh \in Usable
           \/ \E c \in Callers: Brings(callers[c]) /\ callers[c].token = session.refresh
        /\ \A c \in Callers: (Refreshes(callers[c]) /\ callers[c].token = session.refresh) =>
              callers[c].user = session.user

FlightInv == TypeOK /\ DeadMeansQuiet /\ FailuresCapped /\ FlightIsReal /\ UsersKnown

\* The inductive invariant.
TokenInv == FlightInv /\ RefreshHolds /\ LoginHolds /\ SessionHolds

------------------------------------------------------------------------------
(* One caller's record changes *)

LEMMA Assumed ==
    /\ MAX_REFRESH_FAILURES \in Nat \ {0} /\ TokenBound \in Nat
    /\ None \notin Users /\ None \notin Tokens /\ None \notin Callers /\ None \notin Session
    /\ None \notin Operation /\ None \notin Stage
BY TokenAssumption, NoneAssumption

LEMMA IdleOK == Idle \in Caller /\ Idle.op = None /\ Idle.at = None
BY DEF Idle, Caller

LEMMA GoesOK ==
    ASSUME callers \in [Callers -> Caller], NEW c \in Callers, NEW r \in Caller, Goes(c, r)
    PROVE  /\ callers' \in [Callers -> Caller]
           /\ callers'[c] = r
           /\ \A d \in Callers: d # c => callers'[d] = callers[d]
BY DEF Goes

\* When the promise settles nobody refreshes or waits any more.
LEMMA SettleOK ==
    ASSUME callers \in [Callers -> Caller], NEW c \in Callers, NEW result \in Answer,
           Settle(c, result)
    PROVE  /\ callers' \in [Callers -> Caller]
           /\ \A d \in Callers:
                /\ callers'[d].op = callers[d].op
                /\ \/ d # c /\ callers[d].at # "waiting" /\ callers'[d] = callers[d]
                   \/ (d = c \/ callers[d].at = "waiting") /\ callers'[d].at = "settled"
<1> DEFINE s(d) == [callers[d] EXCEPT !.at = "settled", !.answer = result,
                                      !.token = None, !.fresh = None, !.user = None]
<1>1. ASSUME NEW d \in Callers
      PROVE  s(d) \in Caller /\ s(d).op = callers[d].op /\ s(d).at = "settled"
  BY DEF Caller, Stage
<1>2. callers' = [d \in Callers |-> IF d = c \/ callers[d].at = "waiting" THEN s(d) ELSE callers[d]]
  BY DEF Settle
<1>. HIDE DEF s
<1>. QED  BY <1>1, <1>2

------------------------------------------------------------------------------
(* The latch, the failures and single flight *)

LEMMA InitFlight == Init => FlightInv
<1>. SUFFICES ASSUME Init PROVE FlightInv
  OBVIOUS
<1>1. TypeOK
  <2>1. callers \in [Callers -> Caller]
    BY IdleOK DEF Init
  <2>2. failures \in 0..MAX_REFRESH_FAILURES /\ issued \in 0..TokenBound
    BY Assumed DEF Init
  <2>. QED  BY <2>1, <2>2 DEF Init, TypeOK
<1>2. None # "login" /\ None # "logout" /\ None \notin {"token", "status"} /\ None # "waiting"
  BY Assumed DEF Operation, Stage
<1>3. FlightIsReal
  BY <1>2, Assumed, IdleOK DEF Init, FlightIsReal
<1>4. UsersKnown
  BY <1>2, IdleOK DEF Init, UsersKnown, Refreshes
<1>. QED  BY <1>1, <1>3, <1>4, Assumed DEF Init, FlightInv, DeadMeansQuiet, FailuresCapped

\* A caller starts, goes on or ends without touching the session or the flight.
LEMMA BystanderFlight ==
    ASSUME FlightInv, NEW c \in Callers, NEW r \in Caller, Goes(c, r),
           inflight = c <=> r.op \in {"token", "status"} /\ r.at \in {"asked", "answered"},
           r.at = "waiting" => inflight # None,
           r.op = "login" \/ inflight = c => r.user \in Users,
           r.op = "login" => r.at # "waiting",
           r.op = "logout" => r.token \in Tokens /\ r.at # "waiting",
           UNCHANGED sidecar,
           issued' \in 0..TokenBound, valid' \subseteq Tokens, forfeited' \subseteq Tokens
    PROVE  FlightInv'
<1>1. /\ callers' \in [Callers -> Caller] /\ callers'[c] = r
      /\ \A d \in Callers: d # c => callers'[d] = callers[d]
  BY GoesOK DEF FlightInv, TypeOK
<1>2. TypeOK' /\ DeadMeansQuiet' /\ FailuresCapped'
  BY <1>1 DEF FlightInv, TypeOK, DeadMeansQuiet, FailuresCapped, sidecar
<1>3. FlightIsReal'
  BY <1>1 DEF FlightInv, FlightIsReal, sidecar
<1>4. UsersKnown'
  BY <1>1 DEF FlightInv, UsersKnown, Refreshes
<1>. QED  BY <1>2, <1>3, <1>4 DEF FlightInv

LEMMA IssueOK ==
    ASSUME issued \in 0..TokenBound, valid \subseteq Tokens, Issue
    PROVE  /\ issued' \in 0..TokenBound /\ issued' \in Tokens /\ issued' = issued + 1
           /\ valid' \subseteq Tokens /\ valid' = valid \cup {issued'}
BY Assumed DEF Issue, Tokens

LEMMA SetSessionOK ==
    ASSUME NEW u \in Users, NEW t \in Tokens \cup {None}, SetSession(u, t)
    PROVE  /\ session' \in Session /\ session'.user = u /\ session'.refresh = t
           /\ dead' = FALSE /\ failures' = 0
BY DEF SetSession, Session

LEMMA MarkDeadOK ==
    ASSUME FlightInv, MarkTerminallyDead
    PROVE  dead' = TRUE /\ session' = None
BY DEF FlightInv, DeadMeansQuiet, TypeOK, MarkTerminallyDead

LEMMA StartFlight ==
    ASSUME FlightInv, NEW c \in Callers,
           \/ \E u \in Users: LoginRequest(c, u)
           \/ LogoutRequest(c)
           \/ \E op \in {"token", "status"}: TokenRequest(c, op)
    PROVE  FlightInv'
<1>1. /\ callers \in [Callers -> Caller] /\ session \in Session \cup {None}
      /\ issued \in 0..TokenBound /\ valid \subseteq Tokens /\ forfeited \subseteq Tokens
  BY DEF FlightInv, TypeOK
<1>2. None \notin {"token", "status"} /\ None # "waiting"
  BY Assumed DEF Operation, Stage
<1>3. callers[c] = Idle => inflight # c
  BY <1>2, IdleOK DEF FlightInv, FlightIsReal
<1>4. ASSUME NEW u \in Users, LoginRequest(c, u) PROVE FlightInv'
  <2> DEFINE r == [Idle EXCEPT !.op = "login", !.at = "asked", !.user = u]
  <2>1. r \in Caller /\ r.op = "login" /\ r.at = "asked" /\ r.user = u
    BY DEF Idle, Caller, Operation, Stage
  <2>2. Goes(c, r) /\ callers[c] = Idle /\ UNCHANGED <<sidecar, idp>>
    BY <1>4 DEF LoginRequest
  <2>. HIDE DEF r
  <2>. QED  BY <1>1, <1>3, <2>1, <2>2, BystanderFlight DEF idp
<1>5. CASE LogoutRequest(c)
  <2>1. CASE session.refresh = None
    <3>1. session' = None /\ UNCHANGED <<callers, inflight, dead, failures, idp>>
      BY <1>5, <2>1 DEF LogoutRequest
    <3>. QED  BY <3>1 DEF FlightInv, TypeOK, DeadMeansQuiet, FailuresCapped, FlightIsReal,
                          UsersKnown, Refreshes, idp
  <2>2. CASE session.refresh # None
    <3> DEFINE r == [Idle EXCEPT !.op = "logout", !.at = "asked", !.token = session.refresh]
    <3>1. session \in Session /\ session.refresh \in Tokens
      BY <1>1, <1>5, <2>2 DEF LogoutRequest, Session
    <3>2. r \in Caller /\ r.op = "logout" /\ r.at = "asked" /\ r.token \in Tokens
      BY <3>1 DEF Idle, Caller, Operation, Stage
    <3>3. Goes(c, r) /\ callers[c] = Idle /\ UNCHANGED <<sidecar, idp>>
      BY <1>5, <2>2 DEF LogoutRequest, sidecar
    <3>. HIDE DEF r
    <3>. QED  BY <1>1, <1>3, <3>2, <3>3, BystanderFlight DEF idp
  <2>. QED  BY <2>1, <2>2
<1>6. ASSUME NEW op \in {"token", "status"}, TokenRequest(c, op) PROVE FlightInv'
  <2>1. /\ session \in Session /\ session.refresh \in Tokens /\ session.user \in Users
        /\ callers[c] = Idle /\ ~dead /\ Refresh(c, op)
        /\ UNCHANGED <<session, dead, failures, idp>>
    BY <1>1, <1>6 DEF TokenRequest, Session
  <2>2. CASE inflight # None
    <3> DEFINE r == [Idle EXCEPT !.op = op, !.at = "waiting"]
    <3>1. r \in Caller /\ r.at = "waiting" /\ r.op \in {"token", "status"}
      BY DEF Idle, Caller, Operation, Stage
    <3>2. Goes(c, r) /\ UNCHANGED <<sidecar, idp>>
      BY <2>1, <2>2 DEF Refresh, sidecar
    <3>. HIDE DEF r
    <3>. QED  BY <1>1, <1>3, <2>1, <2>2, <3>1, <3>2, BystanderFlight DEF idp
  <2>3. CASE inflight = None
    <3> DEFINE r == [Idle EXCEPT !.op = op, !.at = "asked", !.user = session.user,
                                 !.token = session.refresh]
    <3>1. r \in Caller /\ r.op = op /\ r.at = "asked" /\ r.user = session.user
      BY <2>1 DEF Idle, Caller, Operation, Stage
    <3>2. Goes(c, r) /\ inflight' = c
      BY <2>1, <2>3 DEF Refresh
    <3>. HIDE DEF r
    <3>3. /\ callers' \in [Callers -> Caller] /\ callers'[c] = r
          /\ \A d \in Callers: d # c => callers'[d] = callers[d]
      BY <1>1, <3>1, <3>2, GoesOK
    <3>4. FlightIsReal'
      BY <2>3, <3>1, <3>2, <3>3, Assumed DEF FlightInv, FlightIsReal
    <3>5. TypeOK'
      BY <2>1, <3>2, <3>3 DEF FlightInv, TypeOK, idp
    <3>6. UsersKnown'
      BY <2>1, <3>1, <3>3 DEF FlightInv, UsersKnown, Refreshes
    <3>. QED  BY <2>1, <3>4, <3>5, <3>6 DEF FlightInv, DeadMeansQuiet, FailuresCapped
  <2>. QED  BY <2>2, <2>3
<1>. QED  BY <1>4, <1>5, <1>6

\* A call ends: its slot is free and nothing else of the flight changes.
LEMMA FinishFlight ==
    ASSUME FlightInv, NEW c \in Callers, Finish(c), inflight # c, inflight' = inflight
    PROVE  callers' \in [Callers -> Caller] /\ FlightIsReal' /\ UsersKnown'
<1>1. None # "login" /\ None # "logout" /\ None \notin {"token", "status"} /\ None # "waiting"
  BY Assumed DEF Operation, Stage
<1>2. /\ callers' \in [Callers -> Caller] /\ callers'[c] = Idle
      /\ \A d \in Callers: d # c => callers'[d] = callers[d]
  BY IdleOK DEF FlightInv, TypeOK, Finish
<1>. QED  BY <1>1, <1>2, IdleOK DEF FlightInv, FlightIsReal, UsersKnown, Refreshes

LEMMA RefreshReturnsFlight ==
    ASSUME FlightInv, NEW c \in Callers, RefreshReturns(c)
    PROVE  FlightInv'
<1>1. /\ callers \in [Callers -> Caller] /\ session \in Session \cup {None}
      /\ failures \in 0..MAX_REFRESH_FAILURES /\ dead \in BOOLEAN
      /\ (failures >= MAX_REFRESH_FAILURES => dead) /\ MAX_REFRESH_FAILURES \in Nat \ {0}
      /\ c # None
  BY Assumed DEF FlightInv, TypeOK, FailuresCapped
<1>2. inflight = c /\ inflight' = None /\ UNCHANGED idp /\ RefreshOutcome(c) /\ dead = FALSE
  BY <1>1 DEF RefreshReturns, FlightInv, DeadMeansQuiet
<1>3. callers[c].user \in Users /\ callers[c].fresh \in Tokens \cup {None}
  BY <1>1, <1>2 DEF FlightInv, FlightIsReal, UsersKnown, Refreshes, Caller
<1>4. PICK result \in Answer : Settle(c, result)
  BY <1>2 DEF RefreshOutcome, Answer
<1>5. /\ callers' \in [Callers -> Caller]
      /\ \A d \in Callers:
           /\ callers'[d].op = callers[d].op
           /\ \/ d # c /\ callers[d].at # "waiting" /\ callers'[d] = callers[d]
              \/ (d = c \/ callers[d].at = "waiting") /\ callers'[d].at = "settled"
  BY <1>1, <1>4, SettleOK
<1>6. /\ session' \in Session \cup {None} /\ failures' \in 0..MAX_REFRESH_FAILURES
      /\ \/ dead' = FALSE /\ failures' < MAX_REFRESH_FAILURES
         \/ dead' = TRUE /\ session' = None
  <2>. failures < MAX_REFRESH_FAILURES
    BY <1>1, <1>2
  <2>1. CASE /\ AdoptTokens(callers[c].token, callers[c].fresh, callers[c].user)
             /\ failures' = 0 /\ UNCHANGED dead
    <3> DEFINE n == [user |-> callers[c].user, refresh |-> callers[c].fresh, expired |-> FALSE]
    <3>1. n \in Session
      BY <1>3 DEF Session
    <3>2. session' = n \/ session' = session
      BY <2>1 DEF AdoptTokens
    <3>. HIDE DEF n
    <3>3. session' \in Session \cup {None}
      BY <1>1, <3>1, <3>2
    <3>. QED  BY <1>1, <1>2, <2>1, <3>3
  <2>2. CASE MarkTerminallyDead /\ UNCHANGED failures
    BY <1>1, <1>2, <2>2 DEF MarkTerminallyDead
  <2>3. CASE CountFailure
    <3>1. CASE failures + 1 >= MAX_REFRESH_FAILURES
      BY <1>1, <1>2, <2>3, <3>1 DEF CountFailure, MarkTerminallyDead
    <3>2. CASE ~(failures + 1 >= MAX_REFRESH_FAILURES)
      BY <1>1, <1>2, <2>3, <3>2 DEF CountFailure
    <3>. QED  BY <3>1, <3>2
  <2>. QED  BY <1>2, <2>1, <2>2, <2>3 DEF RefreshOutcome
<1>7. TypeOK' /\ DeadMeansQuiet' /\ FailuresCapped'
  <2>1. TypeOK'
    BY <1>2, <1>5, <1>6 DEF FlightInv, TypeOK, idp
  <2>2. DeadMeansQuiet'
    BY <1>2, <1>6 DEF DeadMeansQuiet
  <2>3. FailuresCapped'
    BY <1>1, <1>6 DEF FailuresCapped
  <2>. QED  BY <2>1, <2>2, <2>3
<1>8. FlightIsReal'
  BY <1>1, <1>2, <1>5, Assumed DEF FlightInv, FlightIsReal
<1>9. UsersKnown'
  BY <1>2, <1>5 DEF FlightInv, FlightIsReal, UsersKnown, Refreshes
<1>. QED  BY <1>7, <1>8, <1>9 DEF FlightInv

LEMMA ResumeFlight ==
    ASSUME FlightInv, NEW c \in Callers, Resumes(c)
    PROVE  FlightInv'
<1>1. /\ callers[c] \in Caller /\ session \in Session \cup {None}
  BY DEF FlightInv, TypeOK
<1>2. CASE LoginReturns(c)
  <2>1. /\ callers[c].op = "login" /\ callers[c].user \in Users
        /\ callers[c].fresh \in Tokens \cup {None} /\ inflight # c
        /\ Finish(c) /\ UNCHANGED <<inflight, idp>>
        /\ \/ SetSession(callers[c].user, callers[c].fresh)
           \/ UNCHANGED <<session, dead, failures>>
    BY <1>1, <1>2 DEF LoginReturns, At, Caller, FlightInv, FlightIsReal, UsersKnown
  <2>2. callers' \in [Callers -> Caller] /\ FlightIsReal' /\ UsersKnown'
    BY <2>1, FinishFlight
  <2>3. CASE SetSession(callers[c].user, callers[c].fresh)
    <3>1. session' \in Session /\ dead' = FALSE /\ failures' = 0
      BY <2>1, <2>3, SetSessionOK
    <3>2. failures' \in 0..MAX_REFRESH_FAILURES /\ ~(failures' >= MAX_REFRESH_FAILURES)
      BY <3>1, Assumed
    <3>3. TypeOK'
      BY <2>1, <2>2, <3>1, <3>2 DEF FlightInv, TypeOK, idp
    <3>. QED  BY <2>2, <3>1, <3>2, <3>3 DEF FlightInv, DeadMeansQuiet, FailuresCapped
  <2>4. CASE UNCHANGED <<session, dead, failures>>
    BY <2>1, <2>2, <2>4 DEF FlightInv, TypeOK, DeadMeansQuiet, FailuresCapped, idp
  <2>. QED  BY <2>1, <2>3, <2>4
<1>3. CASE LogoutReturns(c)
  <2>1. inflight # c /\ Finish(c) /\ session' = None /\ UNCHANGED <<inflight, dead, failures, idp>>
    BY <1>3 DEF LogoutReturns, At, FlightInv, FlightIsReal
  <2>. QED  BY <2>1, FinishFlight DEF FlightInv, TypeOK, DeadMeansQuiet, FailuresCapped, idp
<1>4. CASE RefreshReturns(c)
  BY <1>4, RefreshReturnsFlight
<1>5. CASE CallReturns(c)
  <2>1. inflight # c /\ Finish(c) /\ UNCHANGED <<sidecar, idp>>
    BY <1>5 DEF CallReturns, At, FlightInv, FlightIsReal
  <2>. QED  BY <2>1, FinishFlight
            DEF FlightInv, TypeOK, DeadMeansQuiet, FailuresCapped, sidecar, idp
<1>6. CASE SidecarExits(c)
  <2>1. /\ session' = None /\ inflight' = None /\ dead' = FALSE /\ failures' = 0
        /\ callers' = [d \in Callers |-> Idle] /\ UNCHANGED idp
    BY <1>6 DEF SidecarExits
  <2>2. None # "login" /\ None # "logout" /\ None \notin {"token", "status"} /\ None # "waiting"
    BY Assumed DEF Operation, Stage
  <2>3. FlightIsReal' /\ UsersKnown'
    BY <2>1, <2>2, IdleOK, Assumed DEF FlightIsReal, UsersKnown, Refreshes
  <2>4. callers' \in [Callers -> Caller]
    BY <2>1, IdleOK
  <2>5. failures' \in 0..MAX_REFRESH_FAILURES /\ ~(failures' >= MAX_REFRESH_FAILURES)
    BY <2>1, Assumed
  <2>6. TypeOK'
    BY <2>1, <2>4, <2>5 DEF FlightInv, TypeOK, idp
  <2>. QED  BY <2>1, <2>3, <2>5, <2>6 DEF FlightInv, DeadMeansQuiet, FailuresCapped
<1>. QED  BY <1>2, <1>3, <1>4, <1>5, <1>6 DEF Resumes

LEMMA IdpFlight ==
    ASSUME FlightInv, NEW c \in Callers, IdpAnswers(c)
    PROVE  FlightInv'
<1> DEFINE r(answer, fresh) ==
      [callers[c] EXCEPT !.at = "answered", !.answer = answer, !.fresh = fresh]
<1>1. /\ callers[c] \in Caller /\ issued \in 0..TokenBound /\ valid \subseteq Tokens
      /\ forfeited \subseteq Tokens
  BY DEF FlightInv, TypeOK
<1>2. ASSUME NEW answer \in Answer, NEW fresh \in Tokens \cup {None}
      PROVE  /\ r(answer, fresh) \in Caller /\ r(answer, fresh).op = callers[c].op
             /\ r(answer, fresh).at = "answered" /\ r(answer, fresh).user = callers[c].user
             /\ r(answer, fresh).token = callers[c].token
  BY <1>1 DEF Caller, Stage
<1>3. \A answer, fresh: Responds(c, answer, fresh) <=> Goes(c, r(answer, fresh))
  BY DEF Responds
<1>. HIDE DEF r
<1>4. \/ inflight = c /\ callers[c].op \in {"token", "status"} /\ callers[c].user \in Users
      \/ inflight # c /\ callers[c].op = "login" /\ callers[c].user \in Users
      \/ inflight # c /\ callers[c].op = "logout" /\ callers[c].token \in Tokens
  BY DEF FlightInv, FlightIsReal, UsersKnown, Refreshes, IdpAnswers, IdpLogin, IdpRevokes,
         IdpRotates, IdpRenews, IdpFails, Refreshing, At
<1>5. ASSUME NEW answer \in Answer, NEW fresh \in Tokens \cup {None}, Responds(c, answer, fresh),
             UNCHANGED sidecar, issued' \in 0..TokenBound, valid' \subseteq Tokens,
             forfeited' \subseteq Tokens
      PROVE  FlightInv'
  BY <1>2, <1>3, <1>4, <1>5, BystanderFlight
<1>6. CASE IdpLogin(c)
  BY <1>1, <1>5, <1>6, IssueOK DEF IdpLogin, Answer
<1>7. CASE IdpRevokes(c)
  <2> DEFINE a == [callers[c] EXCEPT !.at = "answered"]
  <2>1. a \in Caller /\ a.op = callers[c].op /\ a.at = "answered" /\ a.op = "logout"
        /\ a.token = callers[c].token
    BY <1>1, <1>7 DEF Caller, Stage, IdpRevokes, At
  <2>2. /\ Goes(c, a) /\ UNCHANGED <<sidecar, issued>>
        /\ valid' = valid \ {callers[c].token} /\ forfeited' = forfeited \cup {callers[c].token}
    BY <1>7 DEF IdpRevokes
  <2>3. callers[c].token \in Tokens
    BY <1>7 DEF IdpRevokes, At, FlightInv, UsersKnown
  <2>. HIDE DEF a
  <2>4. inflight # c
    BY <1>4, <1>7 DEF IdpRevokes, At
  <2>. QED  BY <1>1, <2>1, <2>2, <2>3, <2>4, BystanderFlight
<1>8. CASE IdpRotates(c)
  <2>1. callers[c].token \in valid /\ callers[c].token \in Tokens
    BY <1>1, <1>8 DEF IdpRotates
  <2>2. issued' \in 0..TokenBound /\ issued' \in Tokens
    BY <1>1, <1>8, Assumed DEF IdpRotates, Tokens
  <2>3. valid' \subseteq Tokens /\ forfeited' \subseteq Tokens
    BY <1>1, <1>8, <2>1, <2>2 DEF IdpRotates
  <2>4. UNCHANGED sidecar /\ (Responds(c, "ok", issued') \/ Responds(c, "ambiguous", None))
    BY <1>8 DEF IdpRotates
  <2>. QED  BY <1>5, <2>2, <2>3, <2>4 DEF Answer
<1>9. CASE IdpRenews(c)
  BY <1>1, <1>5, <1>9 DEF IdpRenews, Answer, idp
<1>10. CASE IdpFails(c)
  BY <1>1, <1>5, <1>10 DEF IdpFails, Answer, idp
<1>. QED  BY <1>6, <1>7, <1>8, <1>9, <1>10 DEF IdpAnswers

LEMMA OthersFlight ==
    ASSUME FlightInv, (\E u \in Users: ExternalSession(u)) \/ AccessExpires
    PROVE  FlightInv'
<1>1. CASE \E u \in Users: ExternalSession(u)
  <2>1. PICK u \in Users : ExternalSession(u)
    BY <1>1
  <2>2. /\ issued' \in 0..TokenBound /\ valid' \subseteq Tokens
        /\ \E t \in Tokens \cup {None}: SetSession(u, t)
    BY <2>1, IssueOK DEF ExternalSession, FlightInv, TypeOK
  <2>3. session' \in Session /\ dead' = FALSE /\ failures' = 0
    BY <2>2, SetSessionOK
  <2>4. UNCHANGED <<inflight, callers, forfeited>>
    BY <2>1 DEF ExternalSession
  <2>5. failures' \in 0..MAX_REFRESH_FAILURES /\ ~(failures' >= MAX_REFRESH_FAILURES)
    BY <2>3, Assumed
  <2>6. TypeOK'
    BY <2>2, <2>3, <2>4, <2>5 DEF FlightInv, TypeOK
  <2>. QED  BY <2>3, <2>4, <2>5, <2>6
            DEF FlightInv, DeadMeansQuiet, FailuresCapped, FlightIsReal, UsersKnown, Refreshes
<1>2. CASE AccessExpires
  <2>1. /\ session # None /\ session' = [session EXCEPT !.expired = TRUE]
        /\ UNCHANGED <<inflight, dead, failures, callers, issued, valid, forfeited>>
    BY <1>2 DEF AccessExpires, idp
  <2>2. session' \in Session
    BY <2>1 DEF FlightInv, TypeOK, Session
  <2>3. ~dead
    BY <2>1 DEF FlightInv, DeadMeansQuiet
  <2>. QED  BY <2>1, <2>2, <2>3
            DEF FlightInv, TypeOK, DeadMeansQuiet, FailuresCapped, FlightIsReal, UsersKnown, Refreshes
<1>. QED  BY <1>1, <1>2

LEMMA NextFlight == FlightInv /\ [Next]_vars => FlightInv'
<1>. SUFFICES ASSUME FlightInv, [Next]_vars PROVE FlightInv'
  OBVIOUS
<1>1. CASE UNCHANGED vars
  BY <1>1 DEF vars, sidecar, idp, FlightInv, TypeOK, DeadMeansQuiet, FailuresCapped,
              FlightIsReal, UsersKnown, Refreshes
<1>. QED  BY <1>1, StartFlight, ResumeFlight, IdpFlight, OthersFlight DEF Next

------------------------------------------------------------------------------
(* Who holds which token *)

Holds == RefreshHolds /\ LoginHolds /\ SessionHolds

LEMMA OneRefresh ==
    ASSUME FlightInv, NEW c \in Callers, Refreshes(callers[c])
    PROVE  inflight = c /\ \A d \in Callers: Refreshes(callers[d]) => d = c
BY DEF FlightInv, FlightIsReal, Refreshes

LEMMA IdleInert == ~Refreshes(Idle) /\ ~LoggedIn(Idle) /\ ~Brings(Idle)
BY Assumed, IdleOK DEF Refreshes, LoggedIn, Brings, Operation

LEMMA BringsRefreshes == \A r: (Brings(r) => Refreshes(r)) /\ ~(LoggedIn(r) /\ Refreshes(r))
BY DEF Brings, Refreshes, LoggedIn

\* A step that starts or ends neither a refresh nor a login's answer, and leaves the
\* session or clears it, and spends no token.
LEMMA InertHolds ==
    ASSUME Holds, NEW c \in Callers,
           ~Refreshes(callers[c]), ~Refreshes(callers'[c]), ~LoggedIn(callers'[c]),
           \A d \in Callers: d # c => callers'[d] = callers[d],
           session' = session \/ session' = None,
           Issued' = Issued, Usable \subseteq Usable'
    PROVE  Holds'
<1>1. \A d \in Callers: /\ Refreshes(callers'[d]) => d # c /\ callers'[d] = callers[d]
                        /\ LoggedIn(callers'[d]) => d # c /\ callers'[d] = callers[d]
                        /\ Brings(callers'[d]) => d # c /\ callers'[d] = callers[d]
                        /\ Brings(callers[d]) => callers'[d] = callers[d]
  BY BringsRefreshes
<1>2. RefreshHolds'
  BY <1>1 DEF Holds, RefreshHolds, Refreshes, Brings, LoggedIn
<1>3. LoginHolds'
  BY <1>1 DEF Holds, LoginHolds, Refreshes, Brings, LoggedIn
<1>4. SessionHolds'
  BY <1>1 DEF Holds, SessionHolds, Refreshes, Brings, LoggedIn
<1>. QED  BY <1>2, <1>3, <1>4 DEF Holds

LEMMA StartHolds ==
    ASSUME TokenInv, NEW c \in Callers,
           \/ \E u \in Users: LoginRequest(c, u)
           \/ LogoutRequest(c)
           \/ \E op \in {"token", "status"}: TokenRequest(c, op)
    PROVE  Holds'
<1>1. /\ callers \in [Callers -> Caller] /\ FlightInv /\ Holds
  BY DEF TokenInv, FlightInv, TypeOK, Holds
<1>2. callers[c] = Idle => ~Refreshes(callers[c])
  BY IdleInert
<1>3. ASSUME NEW r, callers[c] = Idle, Goes(c, r), ~Refreshes(r), ~LoggedIn(r),
             UNCHANGED <<session, idp>>
      PROVE  Holds'
  <2>1. callers'[c] = r /\ \A d \in Callers: d # c => callers'[d] = callers[d]
    BY <1>1, <1>3 DEF Goes
  <2>2. ~Refreshes(callers'[c]) /\ ~LoggedIn(callers'[c])
    BY <1>3, <2>1
  <2>3. Issued' = Issued /\ Usable \subseteq Usable' /\ session' = session
    BY <1>3 DEF idp, Usable, Issued
  <2>. QED  BY <1>1, <1>2, <1>3, <2>1, <2>2, <2>3, InertHolds
<1>4. ASSUME NEW u \in Users, LoginRequest(c, u) PROVE Holds'
  <2> DEFINE r == [Idle EXCEPT !.op = "login", !.at = "asked", !.user = u]
  <2>1. ~Refreshes(r) /\ ~LoggedIn(r)
    BY DEF Idle, Refreshes, LoggedIn
  <2>. HIDE DEF r
  <2>2. Goes(c, r) /\ callers[c] = Idle /\ UNCHANGED <<session, idp>>
    BY <1>4 DEF LoginRequest, sidecar, r
  <2>. QED  BY <1>3, <2>1, <2>2
<1>5. CASE LogoutRequest(c)
  <2>1. CASE session.refresh = None
    <3>1. callers[c] = Idle /\ session' = None /\ UNCHANGED <<callers, idp>>
      BY <1>5, <2>1 DEF LogoutRequest
    <3>2. ~Refreshes(callers[c]) /\ ~LoggedIn(callers[c])
      BY <3>1, IdleInert
    <3>3. Issued' = Issued /\ Usable \subseteq Usable'
      BY <3>1 DEF idp, Usable, Issued
    <3>. QED  BY <1>1, <3>1, <3>2, <3>3, InertHolds
  <2>2. CASE session.refresh # None
    <3> DEFINE r == [Idle EXCEPT !.op = "logout", !.at = "asked", !.token = session.refresh]
    <3>1. ~Refreshes(r) /\ ~LoggedIn(r)
      BY DEF Idle, Refreshes, LoggedIn
    <3>. HIDE DEF r
    <3>2. Goes(c, r) /\ callers[c] = Idle /\ UNCHANGED <<session, idp>>
      BY <1>5, <2>2 DEF LogoutRequest, r
    <3>. QED  BY <1>3, <3>1, <3>2
  <2>. QED  BY <2>1, <2>2
<1>6. ASSUME NEW op \in {"token", "status"}, TokenRequest(c, op) PROVE Holds'
  <2>1. /\ session # None /\ session.refresh # None /\ callers[c] = Idle /\ Refresh(c, op)
        /\ UNCHANGED <<session, idp>>
    BY <1>6 DEF TokenRequest
  <2>2. CASE inflight # None
    <3> DEFINE r == [Idle EXCEPT !.op = op, !.at = "waiting"]
    <3>1. ~Refreshes(r) /\ ~LoggedIn(r)
      BY DEF Idle, Refreshes, LoggedIn
    <3>. HIDE DEF r
    <3>2. Goes(c, r)
      BY <2>1, <2>2 DEF Refresh, r
    <3>. QED  BY <1>3, <2>1, <3>1, <3>2
  <2>3. CASE inflight = None
    <3> DEFINE r == [Idle EXCEPT !.op = op, !.at = "asked", !.user = session.user,
                                 !.token = session.refresh]
    <3>1. /\ r.op = op /\ r.at = "asked" /\ r.user = session.user /\ r.token = session.refresh
      BY DEF Idle
    <3>2. callers' = [callers EXCEPT ![c] = r]
      BY <2>1, <2>3 DEF Refresh, Goes
    <3>. HIDE DEF r
    <3>3. callers'[c] = r /\ \A d \in Callers: d # c => callers'[d] = callers[d]
      BY <1>1, <3>2
    <3>4. \A d \in Callers: ~Refreshes(callers[d])
      BY <1>1, <2>3, OneRefresh, Assumed
    <3>5. session.refresh \in Usable /\ session.refresh \in Issued
      BY <1>1, <2>1, <3>4 DEF Holds, SessionHolds, Brings
    <3>6. Issued' = Issued /\ Usable' = Usable /\ session' = session
      BY <2>1 DEF idp, Usable, Issued
    <3>7. RefreshHolds'
      BY <3>1, <3>3, <3>4, <3>5, <3>6 DEF RefreshHolds, Refreshes, Brings
    <3>8. LoginHolds'
      BY <1>1, <2>1, <3>1, <3>3, <3>4, <3>6 DEF Holds, LoginHolds, Refreshes, Brings, LoggedIn
    <3>9. SessionHolds'
      BY <3>1, <3>3, <3>4, <3>5, <3>6 DEF SessionHolds, Refreshes, Brings
    <3>. QED  BY <3>7, <3>8, <3>9 DEF Holds
  <2>. QED  BY <2>2, <2>3
<1>. QED  BY <1>4, <1>5, <1>6

LEMMA LoginReturnsHolds ==
    ASSUME TokenInv, NEW c \in Callers, LoginReturns(c)
    PROVE  Holds'
<1>1. /\ callers \in [Callers -> Caller] /\ FlightInv /\ Holds
  BY DEF TokenInv, FlightInv, TypeOK, Holds
<1>2. /\ callers[c].op = "login" /\ callers[c].at = "answered"
      /\ callers' = [callers EXCEPT ![c] = Idle] /\ UNCHANGED idp
      /\ ~Refreshes(callers[c])
  BY DEF LoginReturns, At, Finish, Refreshes
<1>3. callers'[c] = Idle /\ \A d \in Callers: d # c => callers'[d] = callers[d]
  BY <1>1, <1>2
<1>4. Issued' = Issued /\ Usable' = Usable
  BY <1>2 DEF idp, Usable, Issued
<1>5. CASE callers[c].answer # "ok"
  <2>1. session' = session
    BY <1>5 DEF LoginReturns
  <2>2. ~Refreshes(callers'[c]) /\ ~LoggedIn(callers'[c])
    BY <1>3, IdleInert
  <2>. QED  BY <1>1, <1>2, <1>3, <1>4, <2>1, <2>2, InertHolds
<1>6. CASE callers[c].answer = "ok"
  <2>1. /\ session' = [user |-> callers[c].user, refresh |-> callers[c].fresh, expired |-> FALSE]
        /\ LoggedIn(callers[c])
    BY <1>2, <1>6 DEF LoginReturns, SetSession, LoggedIn
  <2>2. \A d \in Callers: /\ Refreshes(callers'[d]) => d # c /\ callers'[d] = callers[d]
                          /\ LoggedIn(callers'[d]) => d # c /\ callers'[d] = callers[d]
                          /\ Brings(callers'[d]) => d # c /\ callers'[d] = callers[d]
    BY <1>3, IdleInert
  <2>3. RefreshHolds'
    <3>1. RefreshHolds
      BY <1>1 DEF Holds
    <3>. SUFFICES ASSUME NEW d \in Callers PROVE RefreshHolds!(d)'
      BY DEF RefreshHolds
    <3>. QED  BY <1>4, <2>2, <3>1 DEF RefreshHolds, Refreshes, Brings, LoggedIn
  <2>4. /\ session' # None => session'.refresh = callers[c].fresh /\ session'.user = callers[c].user
        /\ callers[c].fresh \in Issued /\ callers[c].fresh \in Usable
        /\ \A d \in Callers:
             /\ Refreshes(callers[d]) => callers[d].token # callers[c].fresh
             /\ Brings(callers[d]) => callers[d].fresh # callers[c].fresh
             /\ LoggedIn(callers[d]) /\ d # c => callers[d].fresh # callers[c].fresh
    BY <1>1, <2>1 DEF Holds, LoginHolds
  <2>5. LoginHolds'
    <3>. SUFFICES ASSUME NEW e \in Callers, LoggedIn(callers'[e])
                  PROVE  LoginHolds!(e)!2'
      BY DEF LoginHolds
    <3>. QED  BY <1>1, <1>4, <2>2, <2>4 DEF Holds, LoginHolds, Refreshes, Brings, LoggedIn
  <2>6. SessionHolds'
    BY <1>4, <2>2, <2>4 DEF SessionHolds, Refreshes, Brings, LoggedIn
  <2>. QED  BY <2>3, <2>5, <2>6 DEF Holds
<1>. QED  BY <1>5, <1>6

LEMMA RefreshReturnsHolds ==
    ASSUME TokenInv, NEW c \in Callers, RefreshReturns(c)
    PROVE  Holds'
<1>1. /\ callers \in [Callers -> Caller] /\ FlightInv /\ Holds /\ session \in Session \cup {None}
  BY DEF TokenInv, FlightInv, TypeOK, Holds
<1>2. /\ inflight = c /\ callers[c].at = "answered" /\ UNCHANGED idp /\ RefreshOutcome(c)
  BY DEF RefreshReturns
<1>3. Refreshes(callers[c])
  BY <1>1, <1>2 DEF FlightInv, FlightIsReal, Refreshes
<1>4. PICK result \in Answer : Settle(c, result)
  BY <1>2 DEF RefreshOutcome, Answer
<1>5. \A d \in Callers:
        /\ callers'[d].op = callers[d].op
        /\ \/ d # c /\ callers[d].at # "waiting" /\ callers'[d] = callers[d]
           \/ (d = c \/ callers[d].at = "waiting") /\ callers'[d].at = "settled"
  BY <1>1, <1>4, SettleOK
<1>6. \A d \in Callers: /\ ~Refreshes(callers'[d])
                        /\ LoggedIn(callers'[d]) => d # c /\ callers'[d] = callers[d]
  BY <1>1, <1>3, <1>5, OneRefresh DEF Refreshes, LoggedIn
<1>7. Issued' = Issued /\ Usable' = Usable
  BY <1>2 DEF idp, Usable, Issued
<1>8. \/ session' = None
      \/ session' = session /\ ~Brings(callers[c])
      \/ session' = session /\ ~(session # None /\ session.refresh = callers[c].token)
      \/ /\ Brings(callers[c])
         /\ session' = [user |-> callers[c].user, refresh |-> callers[c].fresh, expired |-> FALSE]
  BY <1>2, <1>3 DEF RefreshOutcome, AdoptTokens, MarkTerminallyDead, CountFailure, Brings
<1>9. RefreshHolds'
  BY <1>6 DEF RefreshHolds, Brings
<1>10. LoginHolds'
  BY <1>1, <1>6, <1>7, <1>8 DEF Holds, LoginHolds, Refreshes, Brings, LoggedIn
<1>11. SessionHolds'
  <2>1. CASE session' = session /\ session # None /\ session.refresh # None
    <3>1. \A d \in Callers: Brings(callers[d]) => d = c
      BY <1>1, <1>3, OneRefresh DEF Brings
    <3>2. session.refresh \in Usable
      BY <1>1, <1>8, <2>1, <3>1 DEF Holds, SessionHolds, RefreshHolds, Brings
    <3>. QED  BY <1>1, <1>6, <1>7, <2>1, <3>2 DEF Holds, SessionHolds, Refreshes
  <2>2. CASE /\ Brings(callers[c])
             /\ session' = [user |-> callers[c].user, refresh |-> callers[c].fresh, expired |-> FALSE]
    BY <1>1, <1>6, <1>7, <2>2 DEF Holds, RefreshHolds, SessionHolds, Refreshes, Brings
  <2>. QED  BY <1>8, <2>1, <2>2 DEF SessionHolds
<1>. QED  BY <1>9, <1>10, <1>11 DEF Holds

LEMMA ResumeHolds ==
    ASSUME TokenInv, NEW c \in Callers, Resumes(c)
    PROVE  Holds'
<1>1. callers \in [Callers -> Caller] /\ Holds
  BY DEF TokenInv, FlightInv, TypeOK, Holds
<1>2. CASE LogoutReturns(c) \/ CallReturns(c)
  <2>1. /\ ~Refreshes(callers[c]) /\ callers' = [callers EXCEPT ![c] = Idle]
        /\ session' = session \/ session' = None
        /\ UNCHANGED idp
    BY <1>2 DEF LogoutReturns, CallReturns, At, Finish, Refreshes, sidecar
  <2>2. callers'[c] = Idle /\ \A d \in Callers: d # c => callers'[d] = callers[d]
    BY <1>1, <2>1
  <2>3. ~Refreshes(callers'[c]) /\ ~LoggedIn(callers'[c])
    BY <2>2, IdleInert
  <2>4. Issued' = Issued /\ Usable \subseteq Usable'
    BY <2>1 DEF idp, Usable, Issued
  <2>. QED  BY <1>1, <2>1, <2>2, <2>3, <2>4, InertHolds
<1>3. CASE SidecarExits(c)
  BY <1>3, IdleInert DEF SidecarExits, Holds, RefreshHolds, LoginHolds, SessionHolds
<1>. QED  BY <1>2, <1>3, LoginReturnsHolds, RefreshReturnsHolds DEF Resumes

\* The IDP answers a login or a refresh.
LEMMA RespondsOK ==
    ASSUME callers \in [Callers -> Caller], NEW c \in Callers, NEW a, NEW f, Responds(c, a, f)
    PROVE  /\ callers'[c].op = callers[c].op /\ callers'[c].at = "answered"
           /\ callers'[c].user = callers[c].user /\ callers'[c].token = callers[c].token
           /\ callers'[c].answer = a /\ callers'[c].fresh = f
           /\ \A d \in Callers: d # c => callers'[d] = callers[d]
BY DEF Responds, Goes, Caller

\* The answer to a refresh brings a token nobody holds or the one presented, and no
\* token but that one goes out of use.
LEMMA RefreshAnsweredHolds ==
    ASSUME TokenInv, NEW c \in Callers, Refreshing(c), NEW a, NEW f, Responds(c, a, f),
           session' = session,
           Issued \subseteq Issued', Usable \ {callers[c].token} \subseteq Usable',
           a = "ok" => f \in Issued' /\ f \in Usable' /\ (f = callers[c].token \/ f \notin Issued),
           a # "ok" => callers[c].token \in Usable'
    PROVE  Holds'
<1>1. /\ callers \in [Callers -> Caller] /\ FlightInv /\ RefreshHolds /\ LoginHolds /\ SessionHolds
  BY DEF TokenInv, FlightInv, TypeOK
<1>2. /\ callers'[c].op = callers[c].op /\ callers'[c].at = "answered"
      /\ callers'[c].user = callers[c].user /\ callers'[c].token = callers[c].token
      /\ callers'[c].answer = a /\ callers'[c].fresh = f
      /\ \A d \in Callers: d # c => callers'[d] = callers[d]
  BY <1>1, RespondsOK
<1>3. Refreshes(callers[c]) /\ callers[c].at = "asked" /\ callers[c].op # "login"
  BY DEF Refreshing, At, Refreshes
<1>4. \A d \in Callers: Refreshes(callers[d]) => d = c
  BY <1>1, <1>3, OneRefresh
<1>5. \A d \in Callers: /\ Refreshes(callers'[d]) => d = c
                        /\ LoggedIn(callers'[d]) => d # c /\ callers'[d] = callers[d]
                        /\ ~Brings(callers[d])
  BY <1>2, <1>3, <1>4 DEF Refreshes, Brings, LoggedIn
<1>6. RefreshHolds'
  <2>1. callers[c].token \in Issued'
    BY <1>1, <1>3 DEF RefreshHolds
  <2>. QED  BY <1>2, <1>5, <2>1 DEF RefreshHolds, Refreshes, Brings, LoggedIn
<1>7. LoginHolds'
  <2>. SUFFICES ASSUME NEW e \in Callers, LoggedIn(callers'[e]) PROVE LoginHolds!(e)!2'
    BY DEF LoginHolds
  <2>1. e # c /\ callers'[e] = callers[e] /\ LoggedIn(callers[e])
    BY <1>5
  <2>2. /\ callers[e].fresh \in Issued /\ callers[e].fresh \in Usable
        /\ session # None => session.refresh # callers[e].fresh
        /\ callers[c].token # callers[e].fresh
        /\ \A d \in Callers: LoggedIn(callers[d]) /\ d # e => callers[d].fresh # callers[e].fresh
    BY <1>1, <1>3, <2>1 DEF LoginHolds
  <2>3. Brings(callers'[c]) => callers'[c].fresh # callers[e].fresh
    BY <1>2, <2>2 DEF Brings
  <2>. QED  BY <1>2, <1>5, <2>1, <2>2, <2>3 DEF Brings, LoggedIn, Refreshes
<1>8. SessionHolds'
  <2>. SUFFICES ASSUME session # None, session.refresh # None PROVE SessionHolds!2'
    BY DEF SessionHolds
  <2>1. /\ session.refresh \in Issued /\ session.refresh \in Usable
        /\ callers[c].token = session.refresh => callers[c].user = session.user
    BY <1>1, <1>3, <1>5 DEF SessionHolds
  <2>2. session.refresh \in Usable' \/ (Brings(callers'[c]) /\ callers'[c].token = session.refresh)
    <3>1. session.refresh # callers[c].token => session.refresh \in Usable'
      BY <2>1
    <3>2. a = "ok" => Brings(callers'[c])
      BY <1>2, <1>3 DEF Brings, Refreshes
    <3>3. CASE a = "ok"
      BY <1>2, <3>1, <3>2, <3>3
    <3>4. CASE a # "ok"
      BY <3>1, <3>4
    <3>. QED  BY <3>3, <3>4
  <2>. QED  BY <1>2, <1>5, <2>1, <2>2
<1>. QED  BY <1>6, <1>7, <1>8 DEF Holds

\* A token the IDP issues is nobody's yet.
LEMMA IssueNew ==
    ASSUME TypeOK, issued' = issued + 1
    PROVE  /\ Issued' = Issued \cup {issued'} /\ issued' \notin Issued
           /\ None \notin Issued
<1>1. issued \in Nat /\ issued <= TokenBound
  BY Assumed DEF TypeOK
<1>2. Issued \subseteq Tokens
  BY <1>1, Assumed DEF Issued, Tokens
<1>3. ASSUME NEW i PROVE i \in 1..(issued + 1) <=> i \in 1..issued \/ i = issued + 1
  BY <1>1
<1>4. issued + 1 \notin 1..issued
  BY <1>1
<1>5. 1..(issued + 1) = (1..issued) \cup {issued + 1}
  BY <1>3
<1>6. None \notin Issued
  BY <1>2, Assumed
<1>. QED  BY <1>4, <1>5, <1>6 DEF Issued

LEMMA IdpLoginHolds ==
    ASSUME TokenInv, NEW c \in Callers, IdpLogin(c)
    PROVE  Holds'
<1>1. /\ callers \in [Callers -> Caller] /\ TypeOK /\ RefreshHolds /\ LoginHolds /\ SessionHolds /\ Holds
  BY DEF TokenInv, FlightInv, TypeOK, Holds
<1>2. /\ callers[c].op = "login" /\ callers[c].at = "asked" /\ UNCHANGED <<session, forfeited>>
      /\ ~Refreshes(callers[c]) /\ ~LoggedIn(callers[c])
  BY DEF IdpLogin, At, Refreshes, LoggedIn, sidecar
<1>3. CASE Responds(c, "rejected", None) /\ UNCHANGED <<issued, valid>>
  <2>1. /\ callers'[c].op = callers[c].op /\ callers'[c].answer = "rejected"
        /\ \A d \in Callers: d # c => callers'[d] = callers[d]
    BY <1>1, <1>3, RespondsOK
  <2>2. ~Refreshes(callers'[c]) /\ ~LoggedIn(callers'[c])
    BY <1>2, <2>1 DEF Refreshes, LoggedIn
  <2>3. Issued' = Issued /\ Usable \subseteq Usable'
    BY <1>2, <1>3 DEF Issued, Usable
  <2>. QED  BY <1>1, <1>2, <2>1, <2>2, <2>3, InertHolds
<1>4. CASE Issue /\ Responds(c, "ok", issued')
  <2>1. /\ callers'[c].op = "login" /\ callers'[c].fresh = issued'
        /\ \A d \in Callers: d # c => callers'[d] = callers[d]
    BY <1>1, <1>2, <1>4, RespondsOK
  <2>2. /\ Issued' = Issued \cup {issued'} /\ issued' \notin Issued /\ None \notin Issued
    BY <1>1, <1>4, IssueNew DEF Issue
  <2>3. Usable' = Usable \cup {issued'}
    BY <1>2, <1>4 DEF Usable, Issue
  <2>4. \A d \in Callers: /\ Refreshes(callers'[d]) => d # c /\ callers'[d] = callers[d]
                          /\ Brings(callers'[d]) => d # c /\ callers'[d] = callers[d]
                          /\ LoggedIn(callers'[d]) /\ d # c => callers'[d] = callers[d]
                          /\ Brings(callers[d]) => callers'[d] = callers[d]
    BY <1>2, <2>1, BringsRefreshes DEF Refreshes
  <2>5. RefreshHolds'
    BY <1>1, <2>2, <2>3, <2>4 DEF RefreshHolds, Refreshes, Brings, LoggedIn
  <2>6. \A d \in Callers:
          /\ Refreshes(callers'[d]) => callers'[d].token \in Issued
          /\ Brings(callers'[d]) => callers'[d].fresh \in Issued
          /\ LoggedIn(callers'[d]) /\ d # c => callers'[d].fresh \in Issued
    BY <1>1, <2>4 DEF RefreshHolds, LoginHolds
  <2>7. session # None => session.refresh \in Issued \/ session.refresh = None
    BY <1>1 DEF SessionHolds
  <2>8. issued' # None
    BY <1>1, <1>4, IssueOK, Assumed DEF TypeOK
  <2>9. LoginHolds'
    <3>. SUFFICES ASSUME NEW e \in Callers, LoggedIn(callers'[e]) PROVE LoginHolds!(e)!2'
      BY DEF LoginHolds
    <3>1. CASE e = c
      BY <1>2, <2>1, <2>2, <2>3, <2>6, <2>7, <2>8, <3>1
    <3>2. CASE e # c
      <4>1. callers'[e] = callers[e] /\ LoggedIn(callers[e])
        BY <2>4, <3>2
      <4>2. LoginHolds!(e)!2
        BY <1>1, <4>1 DEF LoginHolds
      <4>3. callers[e].fresh # callers'[c].fresh
        BY <2>1, <2>2, <4>2
      <4>. QED  BY <1>2, <2>2, <2>3, <2>4, <4>1, <4>2, <4>3 DEF LoggedIn, Refreshes, Brings
    <3>. QED  BY <3>1, <3>2
  <2>10. SessionHolds'
    BY <1>1, <1>2, <2>2, <2>3, <2>4 DEF SessionHolds, LoggedIn, Refreshes, Brings
  <2>. QED  BY <2>5, <2>9, <2>10 DEF Holds
<1>. QED  BY <1>3, <1>4 DEF IdpLogin

LEMMA IdpHolds ==
    ASSUME TokenInv, NEW c \in Callers, IdpAnswers(c)
    PROVE  Holds'
<1>1. /\ callers \in [Callers -> Caller] /\ TypeOK /\ RefreshHolds /\ Holds
  BY DEF TokenInv, FlightInv, TypeOK, Holds
<1>2. Refreshing(c) => callers[c].token \in Issued /\ callers[c].token \in Usable
  BY <1>1 DEF RefreshHolds, Refreshing, At, Refreshes
<1>3. CASE IdpRevokes(c)
  <2>1. /\ callers[c].op = "logout" /\ callers' = [callers EXCEPT ![c] = [callers[c] EXCEPT !.at = "answered"]]
        /\ UNCHANGED <<session, issued>>
        /\ valid' = valid \ {callers[c].token} /\ forfeited' = forfeited \cup {callers[c].token}
    BY <1>3 DEF IdpRevokes, At, Goes, sidecar
  <2>2. /\ callers'[c].op = "logout"
        /\ \A d \in Callers: d # c => callers'[d] = callers[d]
    BY <1>1, <2>1 DEF Caller
  <2>3. ~Refreshes(callers[c]) /\ ~Refreshes(callers'[c]) /\ ~LoggedIn(callers'[c])
    BY <2>1, <2>2 DEF Refreshes, LoggedIn
  <2>4. Issued' = Issued /\ Usable \subseteq Usable' /\ session' = session
    BY <2>1 DEF Issued, Usable
  <2>. QED  BY <1>1, <2>2, <2>3, <2>4, InertHolds
<1>4. CASE IdpRotates(c)
  <2>1. /\ Refreshing(c) /\ issued' = issued + 1 /\ session' = session
        /\ valid' = (valid \ {callers[c].token}) \cup {issued'}
        /\ \/ Responds(c, "ok", issued') /\ UNCHANGED forfeited
           \/ Responds(c, "ambiguous", None) /\ forfeited' = forfeited \cup {callers[c].token}
    BY <1>4 DEF IdpRotates, sidecar
  <2>2. Issued' = Issued \cup {issued'} /\ issued' \notin Issued
    BY <1>1, <2>1, IssueNew
  <2>3. Usable \ {callers[c].token} \subseteq Usable' /\ issued' \in Usable'
    BY <2>1 DEF Usable
  <2>4. CASE Responds(c, "ok", issued')
    BY <2>1, <2>2, <2>3, <2>4, RefreshAnsweredHolds
  <2>5. CASE Responds(c, "ambiguous", None) /\ forfeited' = forfeited \cup {callers[c].token}
    <3>1. callers[c].token \in Usable'
      BY <2>5 DEF Usable
    <3>. QED  BY <2>1, <2>2, <2>3, <2>5, <3>1, RefreshAnsweredHolds
  <2>. QED  BY <2>1, <2>4, <2>5
<1>5. CASE IdpRenews(c)
  <2>1. /\ Refreshing(c) /\ Responds(c, "ok", callers[c].token) /\ session' = session
        /\ UNCHANGED idp
    BY <1>5 DEF IdpRenews, sidecar
  <2>2. Issued' = Issued /\ Usable' = Usable
    BY <2>1 DEF Issued, Usable, idp
  <2>. QED  BY <1>2, <2>1, <2>2, RefreshAnsweredHolds
<1>6. CASE IdpFails(c)
  <2>1. /\ Refreshing(c) /\ session' = session /\ UNCHANGED idp
        /\ Responds(c, "rejected", None) \/ Responds(c, "ambiguous", None)
    BY <1>6 DEF IdpFails, sidecar
  <2>2. Issued' = Issued /\ Usable' = Usable
    BY <2>1 DEF Issued, Usable, idp
  <2>3. CASE Responds(c, "rejected", None)
    BY <1>2, <2>1, <2>2, <2>3, RefreshAnsweredHolds
  <2>4. CASE Responds(c, "ambiguous", None)
    BY <1>2, <2>1, <2>2, <2>4, RefreshAnsweredHolds
  <2>. QED  BY <2>1, <2>3, <2>4
<1>. QED  BY <1>3, <1>4, <1>5, <1>6, IdpLoginHolds DEF IdpAnswers

LEMMA OthersHold ==
    ASSUME TokenInv, (\E u \in Users: ExternalSession(u)) \/ AccessExpires
    PROVE  Holds'
<1>1. TypeOK /\ RefreshHolds /\ LoginHolds /\ SessionHolds
  BY DEF TokenInv, FlightInv
<1>2. CASE \E u \in Users: ExternalSession(u)
  <2>1. PICK u \in Users : ExternalSession(u)
    BY <1>2
  <2>2. callers' = callers /\ forfeited' = forfeited
    BY <2>1 DEF ExternalSession
  <2>3. CASE Issue /\ SetSession(u, issued')
    <3>1. /\ Issued' = Issued \cup {issued'} /\ issued' \notin Issued /\ None \notin Issued
      BY <1>1, <2>3, IssueNew DEF Issue
    <3>2. Usable' = Usable \cup {issued'}
      BY <2>2, <2>3 DEF Usable, Issue
    <3>3. session'.refresh = issued'
      BY <2>3 DEF SetSession
    <3>4. RefreshHolds'
      BY <1>1, <2>2, <3>1, <3>2 DEF RefreshHolds
    <3>5. LoginHolds'
      BY <1>1, <2>2, <3>1, <3>2, <3>3 DEF LoginHolds
    <3>6. SessionHolds'
      BY <1>1, <2>2, <3>1, <3>2, <3>3 DEF SessionHolds, RefreshHolds
    <3>. QED  BY <3>4, <3>5, <3>6 DEF Holds
  <2>4. CASE UNCHANGED <<issued, valid>> /\ SetSession(u, None)
    <3>1. Issued' = Issued /\ Usable' = Usable
      BY <2>2, <2>4 DEF Usable, Issued
    <3>2. session'.refresh = None
      BY <2>4 DEF SetSession
    <3>3. None \notin Issued
      <4>1. Issued \subseteq Tokens
        BY <1>1, Assumed DEF TypeOK, Issued, Tokens
      <4>. QED  BY <4>1, Assumed
    <3>. QED  BY <1>1, <2>2, <3>1, <3>2, <3>3 DEF Holds, RefreshHolds, LoginHolds, SessionHolds
  <2>. QED  BY <2>1, <2>3, <2>4 DEF ExternalSession
<1>3. CASE AccessExpires
  <2>1. /\ session # None /\ session' = [session EXCEPT !.expired = TRUE]
        /\ callers' = callers /\ UNCHANGED idp
    BY <1>3 DEF AccessExpires
  <2>2. session'.refresh = session.refresh /\ session'.user = session.user
    BY <1>1, <2>1 DEF TypeOK, Session
  <2>3. Issued' = Issued /\ Usable' = Usable
    BY <2>1 DEF idp, Usable, Issued
  <2>. QED  BY <1>1, <2>1, <2>2, <2>3 DEF Holds, RefreshHolds, LoginHolds, SessionHolds
<1>. QED  BY <1>2, <1>3

LEMMA NextHolds == TokenInv /\ [Next]_vars => Holds'
<1>. SUFFICES ASSUME TokenInv, [Next]_vars PROVE Holds'
  OBVIOUS
<1>1. CASE UNCHANGED vars
  BY <1>1 DEF vars, sidecar, idp, TokenInv, Holds, RefreshHolds, LoginHolds, SessionHolds,
              Issued, Usable
<1>. QED  BY <1>1, StartHolds, ResumeHolds, IdpHolds, OthersHold DEF Next

------------------------------------------------------------------------------
(* The theorems *)

\* The inductive invariant holds, for every number of users, calls and tokens and
\* every limit of failures.
THEOREM Invariance == Spec => []TokenInv
<1>1. Init => TokenInv
  <2>. SUFFICES ASSUME Init PROVE TokenInv
    OBVIOUS
  <2>1. \A c \in Callers: callers[c] = Idle
    BY DEF Init
  <2>2. RefreshHolds /\ LoginHolds /\ SessionHolds
    BY <2>1, IdleInert DEF Init, RefreshHolds, LoginHolds, SessionHolds
  <2>. QED  BY <2>2, InitFlight DEF TokenInv
<1>2. TokenInv /\ [Next]_vars => TokenInv'
  BY NextFlight, NextHolds DEF TokenInv, Holds
<1>. QED  BY <1>1, <1>2, PTL DEF Spec

\* Every variable has its type.
THEOREM TypeCorrect == Spec => []TypeOK
BY Invariance, PTL DEF TokenInv, FlightInv

\* A terminally dead session holds no token and has no refresh running
\* (tokenManager.ts:97-119).
THEOREM DeadIsQuiet == Spec => []DeadMeansQuiet
BY Invariance, PTL DEF TokenInv, FlightInv

\* MAX_REFRESH_FAILURES ambiguous failures in a row latch the session
\* (tokenManager.ts:43-49,365-384).
THEOREM FailuresCorrect == Spec => []FailuresCapped
BY Invariance, PTL DEF TokenInv, FlightInv

\* inflightRefresh is the one refresh that runs, and whoever waits waits for it
\* (tokenManager.ts:284-290,433-435).
THEOREM SingleFlight == Spec => []FlightIsReal
BY Invariance, PTL DEF TokenInv, FlightInv

\* No refresh token is presented after its successor was delivered
\* (tokenManager.ts:26-32,404-416).
THEOREM PresentedOnce == Spec => []TokenPresentedOnce
<1>1. TokenInv => TokenPresentedOnce
  BY DEF TokenInv, RefreshHolds, TokenPresentedOnce, Usable, Refreshing, At, Refreshes
<1>. QED  BY <1>1, Invariance, PTL

\* What a refresh adopts is for the user the session is of.
LEMMA AdoptKeepsUser ==
    ASSUME TokenInv, NEW c \in Callers, RefreshReturns(c),
           AdoptTokens(callers[c].token, callers[c].fresh, callers[c].user)
    PROVE  \/ session' = session
           \/ session # None /\ session' \in Session /\ session'.user = session.user
<1>1. /\ Refreshes(callers[c]) /\ callers[c].token \in Issued
      /\ callers[c] \in Caller /\ callers[c].user \in Users
  BY DEF RefreshReturns, TokenInv, FlightInv, TypeOK, FlightIsReal, UsersKnown, Refreshes,
         RefreshHolds
<1>2. None \notin Issued
  <2>1. Issued \subseteq Tokens
    BY Assumed DEF TokenInv, FlightInv, TypeOK, Issued, Tokens
  <2>. QED  BY <2>1, Assumed
<1>3. CASE session # None /\ session.refresh = callers[c].token
  <2>1. callers[c].user = session.user
    BY <1>1, <1>2, <1>3 DEF TokenInv, SessionHolds
  <2>2. session' = [user |-> callers[c].user, refresh |-> callers[c].fresh, expired |-> FALSE]
    BY <1>3 DEF AdoptTokens
  <2>. QED  BY <1>1, <1>3, <2>1, <2>2 DEF Session, Caller
<1>4. CASE ~(session # None /\ session.refresh = callers[c].token)
  BY <1>4 DEF AdoptTokens
<1>. QED  BY <1>3, <1>4

\* Only a login or a pushed session changes whose session it is
\* (tokenManager.ts:404-416).
THEOREM UserCorrect == Spec => UserChangesOnlyByLogin
<1> DEFINE Allowed == \/ \E c \in Callers: LoginReturns(c)
                      \/ \E u \in Users: ExternalSession(u)
           Changes == session' # None /\ (session = None \/ session'.user # session.user)
<1>1. ASSUME TokenInv, Next, ~Allowed PROVE ~Changes
  <2>1. CASE session' = session \/ session' = None
    BY <2>1
  <2>2. ASSUME NEW c \in Callers, RefreshReturns(c) PROVE ~Changes
    <3>1. \/ AdoptTokens(callers[c].token, callers[c].fresh, callers[c].user)
          \/ session' = session \/ session' = None
      BY <2>2 DEF RefreshReturns, RefreshOutcome, MarkTerminallyDead, CountFailure
    <3>. QED  BY <1>1, <2>1, <2>2, <3>1, AdoptKeepsUser
  <2>3. CASE AccessExpires
    <3>1. session # None /\ session \in Session /\ session' = [session EXCEPT !.expired = TRUE]
      BY <1>1, <2>3 DEF AccessExpires, TokenInv, FlightInv, TypeOK
    <3>. QED  BY <3>1 DEF Session
  <2>4. \/ session' = session \/ session' = None
        \/ \E c \in Callers: RefreshReturns(c)
        \/ AccessExpires
    BY <1>1 DEF Next, LoginRequest, LogoutRequest, TokenRequest, Resumes, LogoutReturns, CallReturns,
                SidecarExits, IdpAnswers, IdpLogin, IdpRevokes, IdpRotates, IdpRenews, IdpFails, sidecar
  <2>. QED  BY <2>1, <2>2, <2>3, <2>4
<1>2. TokenInv /\ [Next]_vars => [Changes => Allowed]_vars
  BY <1>1
<1>. QED  BY <1>2, Invariance, PTL DEF Spec, UserChangesOnlyByLogin

------------------------------------------------------------------------------
(* TokenManager implements IdpSession *)

Account == IF session = None THEN None ELSE session.user

\* A step of the abstract session, or none.
PromiseStep == Promise!Next \/ UNCHANGED Promise!vars

LEMMA PromiseInit == Init => Promise!Init
BY DEF Init, Promise!Init

\* What concerns neither the session nor its refresh.
LEMMA PromiseStutters ==
    ASSUME Account' = Account, UNCHANGED <<dead, failures, inflight>>
    PROVE  PromiseStep
BY DEF PromiseStep, Promise!vars, Account

\* A new session begins.
LEMMA PromiseBegins ==
    ASSUME NEW u \in Users, NEW refresh \in Tokens \cup {None}, SetSession(u, refresh),
           UNCHANGED inflight
    PROVE  PromiseStep
<1>1. session' # None /\ session'.user = u /\ dead' = FALSE /\ failures' = 0
  BY Assumed, SetSessionOK DEF SetSession
<1>2. Promise!Begins(u)
  BY <1>1 DEF Promise!Begins
<1>. QED  BY <1>2 DEF PromiseStep, Promise!Next

\* The session ends, or there is none to end.
LEMMA PromiseEnds ==
    ASSUME session \in Session \cup {None}, session' = None,
           UNCHANGED <<dead, failures, inflight>>
    PROVE  PromiseStep
<1>1. CASE session = None
  BY <1>1, PromiseStutters DEF Account
<1>2. CASE session # None
  <2>1. session.user # None
    BY <1>2, Assumed DEF Session
  <2>2. Promise!Ends
    BY <1>2, <2>1 DEF Promise!Ends
  <2>. QED  BY <2>2 DEF PromiseStep, Promise!Next
<1>. QED  BY <1>1, <1>2

\* The refresh starts, joins the one under way, or ends.
LEMMA PromiseRefresh ==
    ASSUME TokenInv, NEW c \in Callers,
           RefreshReturns(c) \/ \E op \in {"token", "status"} : TokenRequest(c, op)
    PROVE  PromiseStep
<1>1. /\ session \in Session \cup {None} /\ dead \in BOOLEAN /\ c # None
      /\ failures \in 0..MAX_REFRESH_FAILURES
  BY Assumed DEF TokenInv, FlightInv, TypeOK
<1>2. ASSUME NEW op \in {"token", "status"}, TokenRequest(c, op) PROVE PromiseStep
  <2>1. /\ session # None /\ ~dead /\ UNCHANGED <<session, dead, failures>>
        /\ \/ inflight = None /\ inflight' = c
           \/ UNCHANGED inflight
    BY <1>2 DEF TokenRequest, Refresh
  <2>2. session.user # None
    BY <1>1, <2>1, Assumed DEF Session
  <2>3. CASE inflight = None /\ inflight' = c
    <3>1. Promise!RefreshStarts
      BY <1>1, <2>1, <2>2, <2>3 DEF Promise!RefreshStarts
    <3>. QED  BY <3>1 DEF PromiseStep, Promise!Next
  <2>4. CASE UNCHANGED inflight
    BY <2>1, <2>4, PromiseStutters DEF Account
  <2>. QED  BY <2>1, <2>3, <2>4
<1>3. CASE RefreshReturns(c)
  <2>1. inflight = c /\ inflight' = None /\ RefreshOutcome(c) /\ ~dead
    BY <1>1, <1>3 DEF RefreshReturns, TokenInv, FlightInv, DeadMeansQuiet
  <2>2. CASE /\ AdoptTokens(callers[c].token, callers[c].fresh, callers[c].user)
             /\ failures' = 0 /\ UNCHANGED dead
    <3>1. Account' = Account
      BY <1>3, <2>2, AdoptKeepsUser, Assumed DEF Account
    <3>2. Promise!Refreshed
      BY <1>1, <2>1, <2>2, <3>1 DEF Promise!Refreshed, Account
    <3>. QED  BY <3>2 DEF PromiseStep, Promise!Next
  <2>3. CASE MarkTerminallyDead /\ UNCHANGED failures
    <3>1. dead' = TRUE /\ session' = None
      BY <2>1, <2>3 DEF MarkTerminallyDead
    <3>2. Promise!Refused
      BY <1>1, <2>1, <2>3, <3>1 DEF Promise!Refused, Promise!Dies
    <3>. QED  BY <3>2 DEF PromiseStep, Promise!Next
  <2>4. CASE CountFailure
    <3>1. failures' = failures + 1
      BY <2>4 DEF CountFailure
    <3>2. IF failures' >= MAX_REFRESH_FAILURES
          THEN dead' = TRUE /\ session' = None
          ELSE UNCHANGED <<dead, session>>
      BY <2>1, <2>4, <3>1 DEF CountFailure, MarkTerminallyDead
    <3>3. Promise!FailsAgain
      BY <1>1, <2>1, <3>1, <3>2 DEF Promise!FailsAgain, Promise!Dies
    <3>. QED  BY <3>3 DEF PromiseStep, Promise!Next
  <2>. QED  BY <2>1, <2>2, <2>3, <2>4 DEF RefreshOutcome
<1>. QED  BY <1>2, <1>3

\* Every step of the sidecar and of the IDP is one of the promised ones, or none.
LEMMA PromiseNext == TokenInv /\ [Next]_vars => [Promise!Next]_(Promise!vars)
<1>. SUFFICES ASSUME TokenInv, [Next]_vars PROVE PromiseStep
  BY DEF PromiseStep
<1>1. session \in Session \cup {None} /\ callers \in [Callers -> Caller]
  BY DEF TokenInv, FlightInv, TypeOK
<1>2. CASE UNCHANGED vars
  BY <1>2, PromiseStutters DEF vars, sidecar, Account
<1>3. ASSUME NEW c \in Callers, LoginReturns(c) PROVE PromiseStep
  <2>1. /\ callers[c].user \in Users /\ callers[c].fresh \in Tokens \cup {None}
        /\ UNCHANGED inflight
    BY <1>1, <1>3 DEF TokenInv, FlightInv, UsersKnown, LoginReturns, At, Caller
  <2>2. CASE SetSession(callers[c].user, callers[c].fresh)
    BY <2>1, <2>2, PromiseBegins
  <2>3. CASE UNCHANGED <<session, dead, failures>>
    BY <2>1, <2>3, PromiseStutters DEF Account
  <2>. QED  BY <1>3, <2>2, <2>3 DEF LoginReturns
<1>4. ASSUME NEW u \in Users, ExternalSession(u) PROVE PromiseStep
  <2>1. Issue => issued' \in Tokens
    BY IssueOK DEF TokenInv, FlightInv, TypeOK
  <2>. QED  BY <1>4, <2>1, PromiseBegins DEF ExternalSession
<1>5. ASSUME NEW c \in Callers, LogoutRequest(c) \/ LogoutReturns(c) PROVE PromiseStep
  <2>1. \/ session' = None /\ UNCHANGED <<dead, failures, inflight>>
        \/ UNCHANGED sidecar
    BY <1>5 DEF LogoutRequest, LogoutReturns, sidecar
  <2>. QED  BY <1>1, <2>1, PromiseEnds, PromiseStutters DEF sidecar, Account
<1>6. ASSUME NEW c \in Callers, SidecarExits(c) PROVE PromiseStep
  <2>1. /\ session = None /\ session' = None
        /\ inflight' = None /\ dead' = FALSE /\ failures' = 0
    BY <1>6 DEF SidecarExits, Throws
  <2>2. Promise!Exits
    BY <2>1 DEF Promise!Exits
  <2>. QED  BY <2>2 DEF PromiseStep, Promise!Next
<1>7. CASE AccessExpires
  <2>1. /\ session # None /\ session' = [session EXCEPT !.expired = TRUE]
        /\ UNCHANGED <<inflight, dead, failures>>
    BY <1>7 DEF AccessExpires
  <2>2. session' # None /\ session'.user = session.user
    BY <1>1, <2>1, Assumed DEF Session
  <2>. QED  BY <2>1, <2>2, PromiseStutters DEF Account
<1>8. ASSUME NEW c \in Callers,
             (\E u \in Users: LoginRequest(c, u)) \/ CallReturns(c) \/ IdpAnswers(c)
      PROVE  PromiseStep
  <2>1. UNCHANGED sidecar
    BY <1>8 DEF LoginRequest, CallReturns, IdpAnswers, IdpLogin, IdpRevokes, IdpRotates,
                IdpRenews, IdpFails
  <2>. QED  BY <2>1, PromiseStutters DEF sidecar, Account
<1>. QED
  BY <1>2, <1>3, <1>4, <1>5, <1>6, <1>7, <1>8, PromiseRefresh DEF Next, Resumes

\* Whatever overtakes what, the sidecar keeps the promise of IdpSession: whose
\* session it is changes only when somebody logs in, a refresh runs only for a live
\* session, and its outcome moves latch, count and account together.
THEOREM ImplementsIdpSession == Spec => IdpSessionSpec
BY PromiseInit, Invariance, PromiseNext, PTL DEF Spec, IdpSessionSpec, Promise!Spec

\* What the promise comes to, whoever keeps it: a dead session is over, and as many
\* failures in a row as MAX_REFRESH_FAILURES are its end.
THEOREM PromiseMeans == IdpSessionSpec => [](Promise!DeadIsOver /\ Promise!NetCloses)
<1> DEFINE I == Promise!DeadIsOver /\ Promise!NetCloses
<1>1. MAX_REFRESH_FAILURES \in Nat \ {0}
  BY TokenAssumption
<1>2. Promise!Init => I
  BY <1>1 DEF Promise!Init, Promise!DeadIsOver, Promise!NetCloses
<1>3. I /\ [Promise!Next]_(Promise!vars) => I'
  <2>. SUFFICES ASSUME I, [Promise!Next]_(Promise!vars) PROVE I'
    OBVIOUS
  <2>1. CASE UNCHANGED Promise!vars
    BY <2>1 DEF Promise!vars, Promise!DeadIsOver, Promise!NetCloses
  <2>2. ASSUME NEW u \in Users, Promise!Begins(u) PROVE I'
    BY <1>1, <2>2 DEF Promise!Begins, Promise!DeadIsOver, Promise!NetCloses
  <2>3. CASE Promise!Ends \/ Promise!RefreshStarts \/ Promise!Refused
    BY <2>3 DEF Promise!Ends, Promise!RefreshStarts, Promise!Refused, Promise!Dies,
                Promise!DeadIsOver, Promise!NetCloses
  <2>4. CASE Promise!Refreshed \/ Promise!Exits
    BY <1>1, <2>4 DEF Promise!Refreshed, Promise!Exits, Promise!DeadIsOver, Promise!NetCloses
  <2>5. CASE Promise!FailsAgain
    BY <2>5 DEF Promise!FailsAgain, Promise!Dies, Promise!DeadIsOver, Promise!NetCloses
  <2>. QED  BY <2>1, <2>2, <2>3, <2>4, <2>5 DEF Promise!Next
<1>. QED  BY <1>2, <1>3, PTL DEF IdpSessionSpec, Promise!Spec

============================================================================
