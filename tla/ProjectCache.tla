------------------------------ MODULE ProjectCache ------------------------------
(***************************************************************************)
(* The soft caches of the project proxy and of the team sync, and the      *)
(* cloud calls that fill and clear them: src/api/routes/projects.ts over   *)
(* src/api/projects/cache.ts ("list", "current" and "team" of a project),  *)
(* and src/api/routes/team.ts over src/api/team/cache.ts ("sync").         *)
(*                                                                         *)
(* Entries are filed under the user a request was received for.  The model *)
(* watches the entries of one user, User, for one project; Other stands    *)
(* for any other account that signs in to this sidecar, whose writes       *)
(* change the same data.  The cloud answers a call at one moment and the   *)
(* handler resumes at a later one.  Data is abstracted to its version in   *)
(* the cloud.  A request that stops at once (invalid, not signed in,       *)
(* served from a fresh entry) changes nothing and is no action.            *)
(***************************************************************************)
EXTENDS Integers

CONSTANTS
    User, Other,  \* the account whose entries are watched, any other one
    NoUser,       \* nobody is signed in
    Requests,     \* HTTP requests in progress
    Watched,      \* sets of kinds of data, one of which is watched
    VersionBound  \* changes the cloud sees to one kind of data (model bound)

AllKinds == {"list", "current", "team", "sync"}
Accounts == {User, Other}

ASSUME CacheAssumption ==
    /\ User # Other /\ NoUser \notin Accounts
    /\ Watched \subseteq SUBSET AllKinds
    /\ VersionBound \in Nat

VARIABLES
    kinds,    \* the kinds of data watched, fixed from the start
    who,      \* the account of the session, or NoUser
    cloud,    \* version of what User would read of each kind
    store,    \* User's cache entries
    calls     \* the requests in progress

cacheVars == <<kinds, who, cloud, store, calls>>

Lanes == AllKinds \cup {"write"}

\* Changes of teams, their members and agents (teams.ts, agents.ts), and the first
\* project of an account (init-project): one call, its answer passed through.
Relayed == {"roster", "provision"}
Writes == {"switch", "edit", "override", "engage"} \cup Relayed
Sources == {"none", "cloud", "cache", "defaults"}
Versions == 0..VersionBound

\* `of` is whose data it is; `fresh` is kept for the team sync only (the TTL of
\* the project cache is 0).  `excuse` (history): the entry was outdated when it
\* was stored ("late"), or by a write that cannot clear it ("missed").
Excuses == {"none", "late", "missed"}

Entry == [held : BOOLEAN, of : Accounts \cup {NoUser}, ver : Versions,
          fresh : BOOLEAN, excuse : Excuses]

NoEntry == [held |-> FALSE, of |-> NoUser, ver |-> 0, fresh |-> FALSE, excuse |-> "none"]

\* One call to the cloud within a request: `asked` until the cloud has answered,
\* `answered` until the handler resumes, `served` once its part of the reply is
\* known.  History: `base` is the cloud's version when the request came in, and
\* `old` says that the part served had been replaced in the cloud by then.
Lane == [at : {"off", "asked", "answered", "served"}, bearer : Accounts \cup {NoUser},
         base : Versions, ver : Versions, src : Sources, old : BOOLEAN]

Off == [at |-> "off", bearer |-> NoUser, base |-> 0, ver |-> 0, src |-> "none",
        old |-> FALSE]

Call == [op : {"none", "read", "live"} \cup Writes, user : Accounts \cup {NoUser},
         lane : [Lanes -> Lane]]

NoCall == [op |-> "none", user |-> NoUser, lane |-> [l \in Lanes |-> Off]]

CacheTypeOK ==
    /\ kinds \in Watched
    /\ who \in Accounts \cup {NoUser}
    /\ cloud \in [AllKinds -> Versions]
    /\ store \in [AllKinds -> Entry]
    /\ calls \in [Requests -> Call]

CacheInit ==
    /\ kinds \in Watched
    /\ who = NoUser
    /\ cloud = [k \in AllKinds |-> 0]
    /\ store = [k \in AllKinds |-> NoEntry]
    /\ calls = [c \in Requests |-> NoCall]

-----------------------------------------------------------------------------
(* Entries and replies. *)

\* readList, readCurrent, GET /:id/team and syncTeam file what they got, under
\* the user of the request.
EntryFiled(k, lane) ==
    [held |-> TRUE, of |-> lane.bearer, ver |-> lane.ver, fresh |-> k = "sync",
     excuse |-> IF lane.bearer = User /\ lane.ver # cloud[k] THEN "late" ELSE "none"]

\* History: the entries of ks become excused.
Missed(ks) ==
    [k \in AllKinds |-> IF k \in ks /\ store[k].of = User
                        THEN [store[k] EXCEPT !.excuse = "missed"] ELSE store[k]]

Hit(k) == store[k].held /\ store[k].fresh

\* This part of the reply is data of version ver; nothing else of it is needed.
Gives(lane, ver, src) == [Off EXCEPT !.at = "served", !.src = src, !.old = ver < lane.base]

Nothing == [Off EXCEPT !.at = "served", !.src = "defaults"]

\* The fallback of a failed read: the last entry, of whatever age, or a default
\* (for "team" an error reply); only the source label tells them from live data.
FallbackAnyLabel(k, lane) ==                                    \* mutant
    IF store[k].held THEN Gives(lane, store[k].ver, "stale") ELSE Nothing
Fallback(k, lane) ==
    IF store[k].held THEN Gives(lane, store[k].ver, "cache") ELSE Nothing

\* The label of a reply: 'cloud' only when every part of it was read live.
LabelOfLivePart(c) ==                                           \* mutant
    LET srcs == {calls[c].lane[k].src : k \in AllKinds} IN
    IF "cloud" \in srcs THEN "cloud"
    ELSE IF "defaults" \in srcs THEN "defaults" ELSE "cache"
Label(c) ==
    LET srcs == {calls[c].lane[k].src : k \in AllKinds} IN
    IF srcs \subseteq {"none", "cloud"} THEN "cloud"
    ELSE IF "defaults" \in srcs THEN "defaults" ELSE "cache"

Served(c) ==
    /\ calls[c].op \in {"read", "live"}
    /\ \A k \in AllKinds : calls[c].lane[k].at \in {"off", "served"}

\* What a write changes of User's data in the cloud.  A switch moves the focus
\* of its own user; a project's attributes and its engaged team show in every
\* member's list and pointer.
Touches(op, u) ==
    CASE op = "switch"   -> IF u = User THEN {"current"} ELSE {}
      [] op = "edit"     -> {"list", "current"}
      [] op = "engage"   -> AllKinds
      [] op \in {"override", "roster"} -> {"team", "sync"}
      [] op = "provision" -> IF u = User THEN {"list"} ELSE {}

\* Which of User's entries its handler clears once the cloud has accepted it.
EngageClearsTeam(op, u) ==                                      \* mutant
    LET own == IF u = User THEN {"list", "current"} ELSE {} IN
    CASE op = "switch"   -> own \ {"list"}
      [] op = "edit"     -> own \cup {"team"}
      [] op = "override" -> {"team"}
      [] op = "engage"   -> {"team"}
      [] op \in Relayed  -> {}
Clears(op, u) ==
    LET own == IF u = User THEN {"list", "current"} ELSE {} IN
    CASE op = "switch"   -> own \ {"list"}
      [] op = "edit"     -> own \cup {"team"}
      [] op = "override" -> {"team"}
      [] op = "engage"   -> own \cup {"team"}
      [] op \in Relayed  -> {}

\* History: the entries that are out of reach of a write's handler, the team
\* sync's, those of another account and, for a relayed write, all of them.
Unclearable(op, u) ==
    IF op \in Relayed THEN AllKinds
    ELSE {"sync"} \cup (IF u = User THEN {} ELSE {"list", "current"})

-----------------------------------------------------------------------------
(* Requests come in. *)

Asked(k) == [Off EXCEPT !.at = "asked", !.bearer = User, !.base = cloud[k]]

\* GET /, /current, /sync (both at once), /:id/team, and the team sync, by User.
\* Only the team sync can find a fresh entry, and then has no call to make.
ReadSets == {{"list"}, {"current"}, {"list", "current"}, {"team"}, {"sync"}}

Read(c, ks, force) ==
    /\ who = User
    /\ calls[c].op = "none"
    /\ ks \subseteq kinds
    /\ force \/ \A k \in ks : ~Hit(k)
    /\ calls' = [calls EXCEPT ![c] =
         [op |-> "read", user |-> User,
          lane |-> [l \in Lanes |-> IF l \in ks THEN Asked(l) ELSE Off]]]
    /\ UNCHANGED <<kinds, who, cloud, store>>

\* resolveAgentId, resolveMemberEffort and resolveMemberModel, on behalf of a
\* spawn or a restart: the roster is read live, never from a cache.
ResolveMember(c) ==
    /\ who = User
    /\ calls[c].op = "none"
    /\ "team" \in kinds
    /\ calls' = [calls EXCEPT ![c] =
         [op |-> "live", user |-> User,
          lane |-> [NoCall.lane EXCEPT !["team"] = Asked("team")]]]
    /\ UNCHANGED <<kinds, who, cloud, store>>

\* POST /current, PUT /:id, PUT /:id/team/:agent, POST /:id/teams and the relayed
\* writes.  (One that neither changes nor clears a watched kind is left out.)
Write(c, op) ==
    /\ who # NoUser
    /\ calls[c].op = "none"
    /\ (Touches(op, who) \cup Clears(op, who)) \cap kinds # {}
    /\ calls' = [calls EXCEPT ![c] =
         [op |-> op, user |-> who,
          lane |-> [NoCall.lane EXCEPT !["write"] =
                      [Off EXCEPT !.at = "asked", !.bearer = who]]]]
    /\ UNCHANGED <<kinds, who, cloud, store>>

-----------------------------------------------------------------------------
(* The cloud answers. *)

\* The data is that of the bearer's account; of another account's data only
\* the owner is kept.
AnswerRead(c, k) ==
    LET lane == calls[c].lane[k] IN
    /\ lane.at = "asked"
    /\ calls' = [calls EXCEPT ![c].lane[k] =
         [lane EXCEPT !.at = "answered",
                      !.ver = IF lane.bearer = User THEN cloud[k] ELSE 0]]
    /\ UNCHANGED <<kinds, who, cloud, store>>

\* A write is applied for the account of its bearer.  History: the entries it
\* outdates that no handler is meant to clear.
ApplyWrite(c) ==
    LET op == calls[c].op
        touched == Touches(op, calls[c].lane["write"].bearer) \cap kinds IN
    /\ calls[c].lane["write"].at = "asked"
    /\ \A k \in touched : cloud[k] < VersionBound
    /\ cloud' = [k \in AllKinds |-> IF k \in touched THEN cloud[k] + 1 ELSE cloud[k]]
    /\ calls' = [calls EXCEPT ![c].lane["write"].at = "answered"]
    /\ store' = Missed(touched \cap Unclearable(op, calls[c].user))
    /\ UNCHANGED <<kinds, who>>

\* 401: forceRefresh, and one more attempt under the session there is by then;
\* without one the request fails, though the other part of a /sync goes on.  (An
\* attempt repeated for the same account leaves the state as it is; a bearer that
\* is not the user's is the second one.)
Refused(c, l) ==
    LET lane == calls[c].lane[l] IN
    /\ lane.at = "asked"
    /\ lane.bearer = calls[c].user
    /\ who # lane.bearer
    /\ calls' = IF who = NoUser
                THEN IF l = "write" THEN [calls EXCEPT ![c] = NoCall]
                     ELSE [calls EXCEPT ![c].lane[l] = Nothing]
                ELSE [calls EXCEPT ![c].lane[l] = [lane EXCEPT !.bearer = who, !.base = 0]]
    /\ UNCHANGED <<kinds, who, cloud, store>>

-----------------------------------------------------------------------------
(* The handlers resume. *)

\* A 2xx answer is filed and becomes this part of the reply; the resolvers
\* return it without filing it.
FileAnswer(c, k) ==
    LET lane == calls[c].lane[k] IN
    /\ lane.at = "answered"
    /\ calls' = [calls EXCEPT ![c].lane[k] = Gives(lane, lane.ver, "cloud")]
    /\ IF calls[c].op = "read"
       THEN store' = [store EXCEPT ![k] = EntryFiled(k, lane)]
       ELSE UNCHANGED store
    /\ UNCHANGED <<kinds, who, cloud>>

\* Any other answer, a timeout or an unreachable cloud: the last entry is
\* served.  Without a token, or for a team the user may not see, the reply is an
\* error; the resolvers return undefined.
ReadFails(c, k) ==
    LET lane == calls[c].lane[k] IN
    /\ lane.at \in {"asked", "answered"}
    /\ \E given \in {Nothing} \cup (IF calls[c].op = "read" THEN {Fallback(k, lane)} ELSE {}) :
         calls' = [calls EXCEPT ![c].lane[k] = given]
    /\ UNCHANGED <<kinds, who, cloud, store>>

Reply(c) ==
    /\ Served(c)
    /\ calls' = [calls EXCEPT ![c] = NoCall]
    /\ UNCHANGED <<kinds, who, cloud, store>>

\* The write was accepted: the handler clears the entries it knows of.
WriteDone(c) ==
    /\ calls[c].lane["write"].at = "answered"
    /\ LET cleared == Clears(calls[c].op, calls[c].user) IN
         store' = [k \in AllKinds |-> IF k \in cleared THEN NoEntry ELSE store[k]]
    /\ calls' = [calls EXCEPT ![c] = NoCall]
    /\ UNCHANGED <<kinds, who, cloud>>

\* The write was rejected or never arrived.
WriteRejected(c) ==
    /\ calls[c].lane["write"].at = "asked"
    /\ calls' = [calls EXCEPT ![c] = NoCall]
    /\ UNCHANGED <<kinds, who, cloud, store>>

\* The write was applied and its answer lost: the handler throws before it
\* clears anything.
WriteAnswerLost(c) ==
    /\ calls[c].lane["write"].at = "answered"
    /\ calls' = [calls EXCEPT ![c] = NoCall]
    /\ store' = Missed({k \in Clears(calls[c].op, calls[c].user) : store[k].ver # cloud[k]})
    /\ UNCHANGED <<kinds, who, cloud>>

-----------------------------------------------------------------------------
(* Time and accounts. *)

\* The team sync's entry reaches its TTL.
MinutePasses ==
    /\ store["sync"].fresh
    /\ store' = [store EXCEPT !["sync"].fresh = FALSE]
    /\ UNCHANGED <<kinds, who, cloud, calls>>

\* A login, or a logout.
AccountChanges(u) ==
    /\ who' = u
    /\ UNCHANGED <<kinds, cloud, store, calls>>

CacheNext ==
    \/ \E c \in Requests, ks \in ReadSets, force \in BOOLEAN : Read(c, ks, force)
    \/ \E c \in Requests : ResolveMember(c)
    \/ \E c \in Requests, op \in Writes : Write(c, op)
    \/ \E c \in Requests, k \in AllKinds : AnswerRead(c, k)
    \/ \E c \in Requests : ApplyWrite(c)
    \/ \E c \in Requests, l \in Lanes : Refused(c, l)
    \/ \E c \in Requests, k \in AllKinds : FileAnswer(c, k)
    \/ \E c \in Requests, k \in AllKinds : ReadFails(c, k)
    \/ \E c \in Requests : Reply(c)
    \/ \E c \in Requests : WriteDone(c)
    \/ \E c \in Requests : WriteRejected(c)
    \/ \E c \in Requests : WriteAnswerLost(c)
    \/ MinutePasses
    \/ \E u \in Accounts \cup {NoUser} : AccountChanges(u)

CacheSpec == CacheInit /\ [][CacheNext]_cacheVars

-----------------------------------------------------------------------------
(* Properties. *)

\* A write whose handler is still to clear the entry of kind k.
ClearPending(k) ==
    \E c \in Requests :
        /\ calls[c].lane["write"].at = "answered"
        /\ k \in Clears(calls[c].op, calls[c].user)

\* projects.ts clears after a write what the write outdated ("so the next sync
\* sees the change immediately"): an entry holding User's own data that is older
\* than the cloud's is about to be cleared by a write in progress, or was
\* outdated by a write that does not clear it (of another account or one
\* that is only relayed, with its answer lost, or in the team sync's cache, which
\* nothing clears), or was stored by a read that the write overtook.
StaleEntriesAreExcused ==
    \A k \in AllKinds :
        store[k].held /\ store[k].of = User /\ store[k].ver # cloud[k]
            => ClearPending(k) \/ store[k].excuse # "none"

\* A reply labelled 'cloud', and what the resolvers give a spawn, carries nothing
\* the cloud had already replaced when the request came in, in no part of it:
\* /sync reads two at once, and each may fall back to an entry of any age, which
\* the label of the whole must then tell.
CloudLabelIsLive ==
    \A c \in Requests :
        Served(c) /\ Label(c) = "cloud"
            => \A k \in AllKinds : ~calls[c].lane[k].old
=============================================================================
