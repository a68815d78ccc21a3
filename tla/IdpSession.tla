------------------------------ MODULE IdpSession ------------------------------
(***************************************************************************)
(* What api/auth/tokenManager.ts promises the rest of the sidecar of the   *)
(* IDP session, without the calls that wait, the refresh tokens and the    *)
(* IDP: whose session it is changes only when somebody logs in, one        *)
(* refresh runs at a time and only for a session that is there and alive,  *)
(* and what a refresh comes to either leaves the account alone or ends the *)
(* session.  TokenManager is shown to implement this module.               *)
(***************************************************************************)
EXTENDS Naturals

CONSTANTS Users, None, MAX_REFRESH_FAILURES

VARIABLES
    account,      \* who is logged in, None: nobody
    dead,         \* the session died and nobody has logged in since
    failures,     \* ambiguous failures in a row
    refreshing    \* a refresh is under way

vars == <<account, dead, failures, refreshing>>

Init == account = None /\ dead = FALSE /\ failures = 0 /\ refreshing = FALSE

\* A login returns or the desktop pushes a session.  A refresh under way goes on.
Begins(u) ==
    /\ account' = u /\ dead' = FALSE /\ failures' = 0
    /\ UNCHANGED refreshing

\* A logout, which leaves the latch and the count alone.
Ends ==
    /\ account # None
    /\ account' = None
    /\ UNCHANGED <<dead, failures, refreshing>>

RefreshStarts ==
    /\ account # None /\ ~dead /\ ~refreshing
    /\ refreshing' = TRUE
    /\ UNCHANGED <<account, dead, failures>>

\* The refresh has brought tokens, for whoever is logged in by now.
Refreshed ==
    /\ refreshing /\ ~dead
    /\ failures' = 0
    /\ refreshing' = FALSE
    /\ UNCHANGED <<account, dead>>

Dies == dead' = TRUE /\ account' = None

\* The IDP has refused the refresh token.
Refused ==
    /\ refreshing /\ ~dead
    /\ Dies
    /\ refreshing' = FALSE
    /\ UNCHANGED failures

\* The refresh has failed without a word: once too often, and the session dies.
FailsAgain ==
    /\ refreshing /\ ~dead
    /\ failures' = failures + 1
    /\ IF failures' >= MAX_REFRESH_FAILURES THEN Dies ELSE UNCHANGED <<account, dead>>
    /\ refreshing' = FALSE

\* The process ends and starts again; it does so only with nobody logged in.
Exits ==
    /\ account = None
    /\ dead' = FALSE /\ failures' = 0 /\ refreshing' = FALSE
    /\ UNCHANGED account

Next ==
    \/ \E u \in Users : Begins(u)
    \/ Ends \/ RefreshStarts \/ Refreshed \/ Refused \/ FailsAgain \/ Exits

Spec == Init /\ [][Next]_vars

\* What this comes to: a dead session is over, and the net closes in time.
DeadIsOver == dead => account = None /\ ~refreshing
NetCloses == failures >= MAX_REFRESH_FAILURES => dead
==============================================================================
