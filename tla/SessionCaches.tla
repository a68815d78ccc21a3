----------------------------- MODULE SessionCaches -----------------------------
(***************************************************************************)
(* The process-wide soft caches of the sidecar that are not filed under a  *)
(* user: the agent roster, the project list and the current project of the *)
(* SessionManager (src/agents/session_manager.js), and the agent ids by    *)
(* name of src/api/routes/agents.ts.  Each keeps the last answer of the    *)
(* cloud for a time (1 minute, or 5), whoever asked for it.                *)
(*                                                                         *)
(* A scope is an account at work in a project: what the cloud answers      *)
(* depends on the scope of the call, and the contents of an entry are      *)
(* abstracted to the scope they are of.  The roster is loaded by one       *)
(* shared call at a time, and past it by every health check; the other     *)
(* caches by a call per request.                                           *)
(***************************************************************************)
EXTENDS FiniteSets

CONSTANTS
    Scopes,     \* accounts, each at work in a project
    NoScope,    \* nobody is signed in
    Rostered,   \* the scopes in whose roster the asking agent is
    Own,        \* the caches that each request loads by a call of its own
    Clients     \* requests in progress

\* listProjects and getActiveProjectId, and the names of agents.ts
ASSUME ScopeAssumption ==
    /\ NoScope \notin Scopes /\ Rostered \subseteq Scopes
    /\ Scopes \cap {"none", "known", "unknown", "nothing", "error"} = {}
    /\ Own \subseteq {"list", "active", "names"}

VARIABLES
    scope,      \* the scope of the session, or NoScope
    soft,       \* the caches
    hydration,  \* the shared load of the roster (_rosterHydrating)
    asks        \* the requests in progress

softVars == <<scope, soft, hydration, asks>>

Caches == {"roster"} \cup Own

Soft == [of : Scopes \cup {NoScope}, age : {"never", "new", "old"}]
Hydration == [on : BOOLEAN, bearer : Scopes \cup {NoScope}]

\* What a request asks for, where it waits, for whom its call was made, and what
\* it is answered.  A "known" or "unknown" agent is one in the roster or not.
Replies == {"none", "known", "unknown", "nothing", "error"}
Ask == [op    : {"idle", "register", "profile", "health"} \cup Own,
        at    : {"idle", "shared", "call", "answered"},
        bearer : Scopes \cup {NoScope},
        reply : Replies \cup Scopes]

NoAsk == [op |-> "idle", at |-> "idle", bearer |-> NoScope, reply |-> "none"]
NoHydration == [on |-> FALSE, bearer |-> NoScope]

SoftTypeOK ==
    /\ scope \in Scopes \cup {NoScope}
    /\ soft \in [Caches -> Soft]
    /\ hydration \in Hydration
    /\ asks \in [Clients -> Ask]

\* The roster that init loads before the first request is a health check's.
SoftInit ==
    /\ scope = NoScope
    /\ soft = [k \in Caches |-> [of |-> NoScope, age |-> "never"]]
    /\ hydration = NoHydration
    /\ asks = [c \in Clients |-> NoAsk]

-----------------------------------------------------------------------------

\* The registration answer from a roster; never from one that was never loaded.
Registration(r) ==
    IF r.age = "never" THEN "error"
    ELSE IF r.of \in Rostered THEN "known" ELSE "unknown"

\* getAgentProfileFromGlobal and listActiveAgents do not make that difference.
Profile(r) == IF r.of \in Rostered THEN "known" ELSE "nothing"

FromRoster(op, r) == IF op = "register" THEN Registration(r) ELSE Profile(r)

YoungOnceLoaded(r) == r.age # "never"                           \* mutant
Young(r) == r.age = "new"

AskAnswered(c, reply) ==
    asks' = [asks EXCEPT ![c].at = "answered", ![c].reply = reply]

\* _ensureRosterHydrated: a young roster is used; else the request joins the load
\* in progress or starts one.  Without a session the load ends at once, and the
\* roster is what it was.
JoinHydration(c, op) ==
    IF Young(soft["roster"]) \/ (~hydration.on /\ scope = NoScope)
    THEN /\ asks' = [asks EXCEPT ![c] =
                       [op |-> op, at |-> "answered", bearer |-> NoScope,
                        reply |-> FromRoster(op, soft["roster"])]]
         /\ UNCHANGED hydration
    ELSE /\ asks' = [asks EXCEPT ![c] =
                       [op |-> op, at |-> "shared", bearer |-> NoScope, reply |-> "none"]]
         /\ hydration' = IF hydration.on THEN hydration
                         ELSE [on |-> TRUE, bearer |-> scope]

\* getAgentRegistration (of localAuth), getAgentProfileFromGlobal, listActiveAgents
AskRoster(c, op) ==
    /\ asks[c].op = "idle"
    /\ op \in {"register", "profile"}
    /\ JoinHydration(c, op)
    /\ UNCHANGED <<scope, soft>>

\* The load ends: the roster is replaced, or the error reaches every request that
\* waits for it.  `finally` makes room for the next load either way.
HydrationEnds(r, failed) ==
    /\ soft' = [soft EXCEPT !["roster"] = r]
    /\ asks' = [c \in Clients |->
         IF asks[c].at # "shared" THEN asks[c]
         ELSE [asks[c] EXCEPT !.at = "answered",
                              !.reply = IF failed THEN "error"
                                        ELSE FromRoster(asks[c].op, r)]]
    /\ hydration' = NoHydration
    /\ UNCHANGED scope

RosterLoaded ==
    /\ hydration.on
    /\ HydrationEnds([of |-> hydration.bearer, age |-> "new"], FALSE)

\* Not 2xx, a timeout or an unexpected shape: _refreshAgentsRoster throws.
RosterLoadForgotten ==                                          \* mutant
    /\ hydration.on
    /\ soft' = soft
    /\ asks' = asks
    /\ hydration' = NoHydration
    /\ UNCHANGED scope
RosterLoadFails ==
    /\ hydration.on
    /\ HydrationEnds(soft["roster"], TRUE)

\* The token cannot be refreshed, before the call or after a 401: this is not an
\* error, and the roster is what it was.
RosterLoadUnauthenticated ==
    /\ hydration.on
    /\ HydrationEnds(soft["roster"], FALSE)

\* 401, and the session is of another account by now: one more attempt for it.
RosterLoadRetried ==
    /\ hydration.on
    /\ scope \notin {NoScope, hydration.bearer}
    /\ hydration' = [hydration EXCEPT !.bearer = scope]
    /\ UNCHANGED <<scope, soft, asks>>

\* GET /health probes the storage with init, which loads the roster by a call of
\* its own at every check, whatever its age, and goes on past the 500 ms the check
\* waits for it.  (Without a session it changes nothing.)
HealthCheck(c) ==
    /\ asks[c].op = "idle"
    /\ scope # NoScope
    /\ asks' = [asks EXCEPT ![c] =
         [op |-> "health", at |-> "call", bearer |-> scope, reply |-> "none"]]
    /\ UNCHANGED <<scope, soft, hydration>>

HealthLoaded(c) ==
    /\ asks[c].at = "call"
    /\ asks[c].op = "health"
    /\ soft' = [soft EXCEPT !["roster"] = [of |-> asks[c].bearer, age |-> "new"]]
    /\ asks' = [asks EXCEPT ![c] = NoAsk]
    /\ UNCHANGED <<scope, hydration>>

\* init catches what its load throws.
HealthFails(c) ==
    /\ asks[c].at = "call"
    /\ asks[c].op = "health"
    /\ asks' = [asks EXCEPT ![c] = NoAsk]
    /\ UNCHANGED <<scope, soft, hydration>>

-----------------------------------------------------------------------------
(* The other caches. *)

\* Without a session: the last known value, whatever its age; names give none.
LastKnown(k) ==
    IF k = "names" \/ soft[k].age = "never" THEN "nothing" ELSE soft[k].of

\* A young entry is used; of the names, only if it has the agent.
Has(k, s) == k = "names" => s \in Rostered

UseYoung(k) == Young(soft[k]) /\ Has(k, soft[k].of)

\* listProjects (and getProject), getActiveProjectId, resolveAgentNameToId
AskOwn(c, k) ==
    /\ asks[c].op = "idle"
    /\ k \in Own
    /\ asks' = [asks EXCEPT ![c] =
         IF UseYoung(k)
         THEN [op |-> k, at |-> "answered", bearer |-> NoScope, reply |-> soft[k].of]
         ELSE IF scope = NoScope
         THEN [op |-> k, at |-> "answered", bearer |-> NoScope, reply |-> LastKnown(k)]
         ELSE [op |-> k, at |-> "call", bearer |-> scope, reply |-> "none"]]
    /\ UNCHANGED <<scope, soft, hydration>>

OwnLoaded(c) ==
    /\ asks[c].at = "call"
    /\ asks[c].op \in Own
    /\ soft' = [soft EXCEPT ![asks[c].op] = [of |-> asks[c].bearer, age |-> "new"]]
    /\ AskAnswered(c, IF Has(asks[c].op, asks[c].bearer) THEN asks[c].bearer ELSE "nothing")
    /\ UNCHANGED <<scope, hydration>>

\* Not 2xx or a timeout: the SessionManager throws; a name is not resolved.
OwnFails(c) ==
    /\ asks[c].at = "call"
    /\ asks[c].op \in Own
    /\ AskAnswered(c, IF asks[c].op = "names" THEN "nothing" ELSE "error")
    /\ UNCHANGED <<scope, soft, hydration>>

OwnUnauthenticated(c) ==
    /\ asks[c].at = "call"
    /\ asks[c].op \in Own
    /\ AskAnswered(c, LastKnown(asks[c].op))
    /\ UNCHANGED <<scope, soft, hydration>>

\* ... of a request of its own, or of a health check.
OwnRetried(c) ==
    /\ asks[c].at = "call"
    /\ scope \notin {NoScope, asks[c].bearer}
    /\ asks' = [asks EXCEPT ![c].bearer = scope]
    /\ UNCHANGED <<scope, soft, hydration>>

\* GET /:identifier/profile falls back to the roster when the name has no id, or
\* when the cloud has no profile to give for it.
ThinProfile(c) ==
    /\ asks[c].op = "names"
    /\ asks[c].at = "answered"
    /\ JoinHydration(c, "profile")
    /\ UNCHANGED <<scope, soft>>

AskReplied(c) ==
    /\ asks[c].at = "answered"
    /\ ~(asks[c].op = "names" /\ asks[c].reply = "nothing")
    /\ asks' = [asks EXCEPT ![c] = NoAsk]
    /\ UNCHANGED <<scope, soft, hydration>>

\* An entry reaches its TTL.
GrowsOld(k) ==
    /\ soft[k].age = "new"
    /\ soft' = [soft EXCEPT ![k].age = "old"]
    /\ UNCHANGED <<scope, hydration, asks>>

\* A login, a logout or a switch of the project.
ScopeChanges(s) ==
    /\ scope' = s
    /\ UNCHANGED <<soft, hydration, asks>>

SoftNext ==
    \/ \E c \in Clients, op \in {"register", "profile"} : AskRoster(c, op)
    \/ RosterLoaded
    \/ RosterLoadFails
    \/ RosterLoadUnauthenticated
    \/ RosterLoadRetried
    \/ \E c \in Clients : HealthCheck(c)
    \/ \E c \in Clients : HealthLoaded(c)
    \/ \E c \in Clients : HealthFails(c)
    \/ \E c \in Clients, k \in Own : AskOwn(c, k)
    \/ \E c \in Clients : OwnLoaded(c)
    \/ \E c \in Clients : OwnFails(c)
    \/ \E c \in Clients : OwnUnauthenticated(c)
    \/ \E c \in Clients : OwnRetried(c)
    \/ \E c \in Clients : ThinProfile(c)
    \/ \E c \in Clients : AskReplied(c)
    \/ \E k \in Caches : GrowsOld(k)
    \/ \E s \in Scopes \cup {NoScope} : ScopeChanges(s)

\* The load ends: its call is cut off after 10 s.
RosterLoadEnds == RosterLoaded \/ RosterLoadFails \/ RosterLoadUnauthenticated

SoftSpec == SoftInit /\ [][SoftNext]_softVars /\ WF_softVars(RosterLoadEnds)

-----------------------------------------------------------------------------
(* Properties. *)

\* localAuth refuses an agent as not registered "ONLY when the roster resolved
\* successfully and this name is genuinely absent from it": a refusal comes from
\* a roster that was loaded, whoever for, and lacks the agent; one past its TTL
\* refuses only when there is no session to load another with.  A load that fails
\* refuses nobody.  (localAuth.ts:88-91 promises more: that no session, either,
\* ever reads as "not registered".)
RefusalIsHonest ==
    [][\A c \in Clients :
        asks[c].reply # "unknown" /\ asks'[c].reply = "unknown"
            => /\ soft'["roster"].age # "never" /\ soft'["roster"].of \in Scopes \ Rostered
               /\ \/ soft'["roster"].age = "new"
                  \/ scope = NoScope
                  \/ RosterLoadUnauthenticated]_softVars

\* Whoever waits for the shared load waits for one that is under way.
HydrationShared == \A c \in Clients : asks[c].at = "shared" => hydration.on

\* ... and is answered, whatever becomes of the load.
HydrationSettles == \A c \in Clients : asks[c].at = "shared" ~> asks[c].at # "shared"

\* "The logged-in developer's CURRENT (startup) project, resolved off their
\* bearer": a request of a session is answered the project of that session.  The
\* session may change while the request waits for the cloud, but not otherwise.
ActiveProjectIsOwn ==
    [][\A c \in Clients :
        asks[c].op = "idle" /\ asks'[c].op = "active" /\ asks'[c].at = "answered"
            => scope \in {NoScope, asks'[c].reply}]_softVars
=============================================================================
