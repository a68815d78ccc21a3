-------------------------- MODULE SessionCaches_proofs --------------------------
(***************************************************************************)
(* Proofs about the SessionManager's caches: for any scopes and clients,   *)
(* an agent is refused as unregistered only on the word of a roster that   *)
(* was loaded, and past its TTL only for want of a session; and whoever    *)
(* waits for the shared load waits for one.                                *)
(*                                                                         *)
(* The strengthening says that what was loaded, and every call on its way, *)
(* is of a real scope.                                                     *)
(***************************************************************************)
EXTENDS SessionCaches, TLAPS

\* What a cache holds was loaded for somebody.
Loaded(r) == r.age # "never" => r.of \in Scopes

\* A call of client c is made for somebody.
CallOK(c) == asks[c].at = "call" => asks[c].bearer \in Scopes

\* The inductive invariant.
SoftInv ==
    /\ SoftTypeOK
    /\ \A k \in Caches : Loaded(soft[k])
    /\ hydration.on => hydration.bearer \in Scopes
    /\ \A c \in Clients : CallOK(c)
    /\ HydrationShared

\* A roster that can tell that the asking agent is not in it.
Tells(r) == r.age # "never" /\ r.of \in Scopes \ Rostered

\* The step of RefusalIsHonest.
Honest ==
    \A c \in Clients :
        asks[c].reply # "unknown" /\ asks'[c].reply = "unknown"
            => /\ Tells(soft'["roster"])
               /\ \/ soft'["roster"].age = "new"
                  \/ scope = NoScope
                  \/ RosterLoadUnauthenticated

\* A roster that a request may be refused from without a load.
MayRefuse(r) == Tells(r) /\ (r.age = "new" \/ scope = NoScope)

-----------------------------------------------------------------------------
(* The replies. *)

\* An answer from a roster is a reply, and "unknown" only if the roster tells.
LEMMA RosterReply ==
    ASSUME NEW r \in Soft, Loaded(r), NEW op
    PROVE  /\ FromRoster(op, r) \in Replies
           /\ FromRoster(op, r) = "unknown" => Tells(r) /\ op = "register"
BY DEF FromRoster, Registration, Profile, Replies, Loaded, Tells

\* The last value of another cache is a reply, and never "unknown".
LEMMA OwnReply ==
    ASSUME SoftInv, NEW k \in Own
    PROVE  /\ LastKnown(k) \in Replies \cup Scopes /\ LastKnown(k) # "unknown"
           /\ UseYoung(k) => soft[k].of \in Scopes /\ soft[k].of # "unknown"
<1>1. k \in Caches /\ Loaded(soft[k])
  BY DEF SoftInv, Caches
<1>2. "unknown" \notin Scopes
  BY ScopeAssumption
<1> QED
  BY <1>1, <1>2 DEF LastKnown, UseYoung, Young, Loaded, Replies

-----------------------------------------------------------------------------
(* Every step keeps the invariant, and refuses honestly. *)

\* Empty caches.
LEMMA InitInv == SoftInit => SoftInv
BY ScopeAssumption
DEF SoftInit, SoftInv, SoftTypeOK, Soft, Hydration, NoHydration, Ask, NoAsk, Replies,
    Loaded, CallOK, HydrationShared

\* A step of one client, which may start the shared load.
LEMMA OneAsk ==
    ASSUME SoftInv, NEW c \in Clients, NEW A \in Ask,
           asks' = [asks EXCEPT ![c] = A],
           \/ hydration' = hydration
           \/ hydration' \in Hydration /\ hydration'.on /\ hydration'.bearer \in Scopes,
           UNCHANGED <<scope, soft>>,
           A.at = "shared" => hydration'.on,
           A.at = "call" => A.bearer \in Scopes,
           A.reply = "unknown" => asks[c].reply = "unknown" \/ MayRefuse(soft["roster"])
    PROVE  SoftInv' /\ Honest
<1>1. asks \in [Clients -> Ask]
  BY DEF SoftInv, SoftTypeOK
<1>2. /\ asks' \in [Clients -> Ask]
      /\ asks'[c] = A
      /\ \A d \in Clients \ {c} : asks'[d] = asks[d]
  BY <1>1
<1>3. SoftTypeOK'
  BY <1>2 DEF SoftInv, SoftTypeOK
<1>4. (\A d \in Clients : CallOK(d))'
  BY <1>2 DEF SoftInv, CallOK
<1>5. HydrationShared'
  BY <1>2 DEF SoftInv, HydrationShared
<1>6. Honest
  BY <1>2 DEF Honest, MayRefuse, Tells
<1> QED
  BY <1>3, <1>4, <1>5, <1>6 DEF SoftInv, Loaded

\* Joining the shared load, by a request that may already have waited for another
\* cache.
LEMMA JoinStep ==
    ASSUME SoftInv, NEW c \in Clients, NEW op \in {"register", "profile"},
           JoinHydration(c, op), UNCHANGED <<scope, soft>>
    PROVE  SoftInv' /\ Honest
<1>1. /\ soft["roster"] \in Soft /\ Loaded(soft["roster"])
      /\ hydration \in Hydration /\ scope \in Scopes \cup {NoScope}
  BY DEF SoftInv, SoftTypeOK, Caches
<1>2. CASE Young(soft["roster"]) \/ (~hydration.on /\ scope = NoScope)
  <2> DEFINE A == [op |-> op, at |-> "answered", bearer |-> NoScope,
                   reply |-> FromRoster(op, soft["roster"])]
  <2>1. asks' = [asks EXCEPT ![c] = A] /\ hydration' = hydration
    BY <1>2 DEF JoinHydration
  <2>2. A \in Ask /\ A.at = "answered"
    BY <1>1, RosterReply DEF Ask
  <2>3. A.reply = "unknown" => MayRefuse(soft["roster"])
    BY <1>1, <1>2, RosterReply DEF MayRefuse, Young
  <2> HIDE DEF A
  <2> QED
    BY <2>1, <2>2, <2>3, OneAsk
<1>3. CASE ~(Young(soft["roster"]) \/ (~hydration.on /\ scope = NoScope))
  <2> DEFINE A == [op |-> op, at |-> "shared", bearer |-> NoScope, reply |-> "none"]
  <2>1. /\ asks' = [asks EXCEPT ![c] = A]
        /\ hydration' = IF hydration.on THEN hydration ELSE [on |-> TRUE, bearer |-> scope]
    BY <1>3 DEF JoinHydration
  <2>2. A \in Ask /\ A.at = "shared" /\ A.reply = "none"
    BY DEF Ask, Replies
  <2>3. /\ hydration'.on
        /\ \/ hydration' = hydration
           \/ hydration' \in Hydration /\ hydration'.bearer \in Scopes
    <3>1. CASE hydration.on
      BY <2>1, <3>1
    <3>2. CASE ~hydration.on
      BY <1>1, <1>3, <2>1, <3>2 DEF Hydration
    <3> QED
      BY <3>1, <3>2
  <2> HIDE DEF A
  <2> QED
    BY <2>1, <2>2, <2>3, OneAsk
<1> QED
  BY <1>2, <1>3

\* The end of the shared load, for everybody at once.
LEMMA EndsStep ==
    ASSUME SoftInv, NEW r \in Soft, Loaded(r), NEW failed \in BOOLEAN,
           HydrationEnds(r, failed),
           failed \/ r.age = "new" \/ RosterLoadUnauthenticated
    PROVE  SoftInv' /\ Honest
<1>1. /\ soft' = [soft EXCEPT !["roster"] = r]
      /\ soft \in [Caches -> Soft] /\ "roster" \in Caches
      /\ asks \in [Clients -> Ask]
      /\ hydration' = NoHydration /\ scope' = scope
  BY DEF HydrationEnds, SoftInv, SoftTypeOK, Caches
<1>2. /\ soft' \in [Caches -> Soft]
      /\ soft'["roster"] = r
      /\ \A k \in Caches \ {"roster"} : soft'[k] = soft[k]
  BY <1>1
<1> DEFINE reply(c) == IF failed THEN "error" ELSE FromRoster(asks[c].op, r)
<1>3. asks' = [c \in Clients |->
        IF asks[c].at # "shared" THEN asks[c]
        ELSE [asks[c] EXCEPT !.at = "answered", !.reply = reply(c)]]
  BY DEF HydrationEnds
<1>4. ASSUME NEW c \in Clients
      PROVE  reply(c) \in Replies /\ (reply(c) = "unknown" => Tells(r) /\ ~failed)
  BY RosterReply DEF Replies
<1> HIDE DEF reply
<1>5. ASSUME NEW c \in Clients
      PROVE  /\ asks'[c] \in Ask
             /\ asks'[c].at # "shared"
             /\ asks'[c].at = "call" => asks'[c] = asks[c]
             /\ asks'[c].reply = "unknown"
                  => asks[c].reply = "unknown" \/ (Tells(r) /\ ~failed)
  <2>1. CASE asks[c].at # "shared"
    BY <1>1, <1>3, <2>1
  <2>2. CASE asks[c].at = "shared"
    <3>1. PICK x \in Replies :
            /\ asks'[c] = [asks[c] EXCEPT !.at = "answered", !.reply = x]
            /\ x = "unknown" => Tells(r) /\ ~failed
      BY <1>3, <1>4, <2>2
    <3> DEFINE A == [asks[c] EXCEPT !.at = "answered", !.reply = x]
    <3>2. A \in Ask /\ A.at = "answered" /\ A.reply = x
      <4>1. asks[c] \in Ask
        BY <1>1
      <4> QED
        BY <4>1 DEF Ask
    <3>3. asks'[c] = A
      BY <3>1
    <3> HIDE DEF A
    <3> QED
      BY <3>1, <3>2, <3>3
  <2> QED
    BY <2>1, <2>2
<1>6. asks' \in [Clients -> Ask]
  BY <1>3, <1>5
<1>7. SoftTypeOK'
  BY <1>1, <1>2, <1>6 DEF SoftInv, SoftTypeOK, NoHydration, Hydration
<1>8. (\A k \in Caches : Loaded(soft[k]))'
  BY <1>2 DEF SoftInv, Loaded
<1>9. /\ (\A c \in Clients : CallOK(c))'
      /\ HydrationShared'
      /\ Honest
  BY <1>2, <1>5 DEF SoftInv, CallOK, HydrationShared, Honest, Tells
<1>10. ~hydration'.on
  BY <1>1 DEF NoHydration
<1> QED
  BY <1>7, <1>8, <1>9, <1>10 DEF SoftInv

\* The ends of the shared load.
LEMMA HydrationStep ==
    ASSUME SoftInv, RosterLoaded \/ RosterLoadFails \/ RosterLoadUnauthenticated
    PROVE  SoftInv' /\ Honest
<1>1. soft["roster"] \in Soft /\ Loaded(soft["roster"])
  BY DEF SoftInv, SoftTypeOK, Caches
<1>2. CASE RosterLoaded
  <2> DEFINE r == [of |-> hydration.bearer, age |-> "new"]
  <2>1. r \in Soft /\ Loaded(r)
    BY <1>2 DEF RosterLoaded, SoftInv, Soft, Loaded
  <2> QED
    BY <1>2, <2>1, EndsStep DEF RosterLoaded
<1>3. CASE RosterLoadFails
  BY <1>1, <1>3, EndsStep DEF RosterLoadFails
<1>4. CASE RosterLoadUnauthenticated
  BY <1>1, <1>4, EndsStep DEF RosterLoadUnauthenticated
<1> QED
  BY <1>2, <1>3, <1>4

\* A request of one of the other caches comes in, or is answered.
LEMMA OwnStep ==
    ASSUME SoftInv, NEW c \in Clients,
           \/ (\E k \in Own : AskOwn(c, k))
           \/ OwnFails(c) \/ OwnUnauthenticated(c) \/ OwnRetried(c) \/ AskReplied(c)
    PROVE  SoftInv' /\ Honest
<1>1. /\ asks \in [Clients -> Ask] /\ asks[c] \in Ask
      /\ scope \in Scopes \cup {NoScope} /\ CallOK(c)
      /\ asks[c].at = "shared" => hydration.on
  BY DEF SoftInv, SoftTypeOK, HydrationShared
<1>2. ASSUME NEW k \in Own, AskOwn(c, k)
      PROVE  SoftInv' /\ Honest
  <2>1. PICK A : /\ asks' = [asks EXCEPT ![c] = A]
                 /\ \/ /\ UseYoung(k)
                       /\ A = [op |-> k, at |-> "answered", bearer |-> NoScope,
                               reply |-> soft[k].of]
                    \/ A = [op |-> k, at |-> "answered", bearer |-> NoScope,
                            reply |-> LastKnown(k)]
                    \/ /\ scope # NoScope
                       /\ A = [op |-> k, at |-> "call", bearer |-> scope, reply |-> "none"]
    BY <1>2 DEF AskOwn
  <2>2. /\ A \in Ask /\ A.at # "shared" /\ A.reply # "unknown"
        /\ A.at = "call" => A.bearer \in Scopes
    BY <1>1, <2>1, OwnReply DEF Ask, Replies
  <2> QED
    BY <1>2, <2>1, <2>2, OneAsk DEF AskOwn
<1>3. ASSUME NEW reply \in Replies \cup Scopes, reply # "unknown", AskAnswered(c, reply),
             UNCHANGED <<scope, soft, hydration>>
      PROVE  SoftInv' /\ Honest
  <2> DEFINE A == [asks[c] EXCEPT !.at = "answered", !.reply = reply]
  <2>1. A \in Ask /\ A.at = "answered" /\ A.reply # "unknown"
    BY <1>1, <1>3 DEF Ask
  <2>2. asks' = [asks EXCEPT ![c] = A]
    BY <1>1, <1>3 DEF AskAnswered
  <2> HIDE DEF A
  <2> QED
    BY <1>3, <2>1, <2>2, OneAsk
<1>4. CASE OwnFails(c)
  BY <1>3, <1>4 DEF OwnFails, Replies
<1>5. CASE OwnUnauthenticated(c)
  BY <1>1, <1>3, <1>5, OwnReply DEF OwnUnauthenticated
<1>6. CASE OwnRetried(c)
  <2> DEFINE A == [asks[c] EXCEPT !.bearer = scope]
  <2>1. /\ A \in Ask /\ A.at = "call" /\ A.bearer \in Scopes
        /\ A.reply = asks[c].reply
    BY <1>1, <1>6 DEF OwnRetried, CallOK, Ask
  <2>2. asks' = [asks EXCEPT ![c] = A]
    BY <1>1, <1>6 DEF OwnRetried
  <2> HIDE DEF A
  <2> QED
    BY <1>6, <2>1, <2>2, OneAsk DEF OwnRetried
<1>7. CASE AskReplied(c)
  <2>1. NoAsk \in Ask /\ NoAsk.at = "idle" /\ NoAsk.reply = "none"
    BY DEF NoAsk, Ask, Replies
  <2> QED
    BY <1>7, <2>1, OneAsk DEF AskReplied
<1> QED
  BY <1>2, <1>4, <1>5, <1>6, <1>7

\* A health check comes in, or its load has failed.
LEMMA HealthStep ==
    ASSUME SoftInv, NEW c \in Clients, HealthCheck(c) \/ HealthFails(c)
    PROVE  SoftInv' /\ Honest
<1>1. scope \in Scopes \cup {NoScope}
  BY DEF SoftInv, SoftTypeOK
<1>2. CASE HealthCheck(c)
  <2> DEFINE A == [op |-> "health", at |-> "call", bearer |-> scope, reply |-> "none"]
  <2>1. A \in Ask /\ A.at = "call" /\ A.reply = "none" /\ A.bearer \in Scopes
    BY <1>1, <1>2 DEF HealthCheck, Ask, Replies
  <2>2. asks' = [asks EXCEPT ![c] = A]
    BY <1>2 DEF HealthCheck
  <2> HIDE DEF A
  <2> QED
    BY <1>2, <2>1, <2>2, OneAsk DEF HealthCheck
<1>3. CASE HealthFails(c)
  <2>1. NoAsk \in Ask /\ NoAsk.at = "idle" /\ NoAsk.reply = "none"
    BY DEF NoAsk, Ask, Replies
  <2> QED
    BY <1>3, <2>1, OneAsk DEF HealthFails
<1> QED
  BY <1>2, <1>3

\* A call of one request succeeds: it fills cache k, and the request becomes A.
LEMMA LoadedStep ==
    ASSUME SoftInv, NEW c \in Clients, NEW A \in Ask, NEW k \in Caches,
           NEW b \in Scopes,
           A.at \notin {"call", "shared"}, A.reply # "unknown",
           asks' = [asks EXCEPT ![c] = A],
           soft' = [soft EXCEPT ![k] = [of |-> b, age |-> "new"]],
           UNCHANGED <<scope, hydration>>
    PROVE  SoftInv' /\ Honest
<1> DEFINE s == [of |-> b, age |-> "new"]
<1>1. asks \in [Clients -> Ask] /\ soft \in [Caches -> Soft]
  BY DEF SoftInv, SoftTypeOK
<1>2. /\ asks' \in [Clients -> Ask]
      /\ asks'[c] = A
      /\ \A d \in Clients \ {c} : asks'[d] = asks[d]
  BY <1>1
<1>3. s \in Soft /\ Loaded(s)
  BY DEF Soft, Loaded
<1>4. soft' = [soft EXCEPT ![k] = s]
  OBVIOUS
<1> HIDE DEF s
<1>5. /\ soft' \in [Caches -> Soft]
      /\ \A i \in Caches : soft'[i] = IF i = k THEN s ELSE soft[i]
  BY <1>1, <1>3, <1>4
<1>6. SoftTypeOK'
  BY <1>2, <1>5 DEF SoftInv, SoftTypeOK
<1>7. (\A i \in Caches : Loaded(soft[i]))'
  BY <1>3, <1>5 DEF SoftInv
<1>8. /\ (\A d \in Clients : CallOK(d))'
      /\ HydrationShared'
      /\ Honest
  BY <1>2 DEF SoftInv, CallOK, HydrationShared, Honest
<1> QED
  BY <1>6, <1>7, <1>8 DEF SoftInv

\* The load of a health check succeeds.
LEMMA HealthLoadedStep ==
    ASSUME SoftInv, NEW c \in Clients, HealthLoaded(c)
    PROVE  SoftInv' /\ Honest
<1>1. asks[c].bearer \in Scopes /\ "roster" \in Caches
  BY DEF HealthLoaded, SoftInv, CallOK, Caches
<1>2. NoAsk \in Ask /\ NoAsk.at = "idle" /\ NoAsk.reply = "none"
  BY DEF NoAsk, Ask, Replies
<1> QED
  BY <1>1, <1>2, LoadedStep DEF HealthLoaded

\* A request's own load succeeds.
LEMMA OwnLoadedStep ==
    ASSUME SoftInv, NEW c \in Clients, OwnLoaded(c)
    PROVE  SoftInv' /\ Honest
<1> DEFINE k == asks[c].op
           b == asks[c].bearer
           reply == IF Has(k, b) THEN b ELSE "nothing"
           A == [asks[c] EXCEPT !.at = "answered", !.reply = reply]
<1>1. /\ asks \in [Clients -> Ask] /\ asks[c] \in Ask
      /\ k \in Caches /\ b \in Scopes
  BY DEF OwnLoaded, SoftInv, SoftTypeOK, CallOK, Caches
<1>2. reply \in Replies \cup Scopes /\ reply # "unknown"
  BY <1>1, ScopeAssumption DEF Replies
<1>3. A \in Ask /\ A.at = "answered" /\ A.reply # "unknown"
  BY <1>1, <1>2 DEF Ask
<1>4. asks' = [asks EXCEPT ![c] = A]
  BY <1>1 DEF OwnLoaded, AskAnswered
<1> HIDE DEF A
<1> QED
  BY <1>1, <1>3, <1>4, LoadedStep DEF OwnLoaded

\* Time, the account, and a load that is retried for another one.
LEMMA QuietStep ==
    ASSUME SoftInv,
           \/ RosterLoadRetried
           \/ (\E k \in Caches : GrowsOld(k))
           \/ (\E s \in Scopes \cup {NoScope} : ScopeChanges(s))
           \/ UNCHANGED softVars
    PROVE  SoftInv' /\ Honest
<1>1. CASE RosterLoadRetried
  BY <1>1
  DEF RosterLoadRetried, SoftInv, SoftTypeOK, Hydration, Loaded, CallOK, HydrationShared,
      Honest
<1>2. ASSUME NEW k \in Caches, GrowsOld(k)
      PROVE  SoftInv' /\ Honest
  <2>1. /\ soft \in [Caches -> Soft]
        /\ soft[k].age = "new"
        /\ soft' = [soft EXCEPT ![k].age = "old"]
        /\ UNCHANGED <<scope, hydration, asks>>
    BY <1>2 DEF GrowsOld, SoftInv, SoftTypeOK
  <2>2. ASSUME NEW i \in Caches
        PROVE  soft'[i] \in Soft /\ (Loaded(soft[i]) => Loaded(soft'[i]))
    BY <2>1 DEF Soft, Loaded
  <2>3. soft' \in [Caches -> Soft]
    BY <2>1, <2>2
  <2> QED
    BY <2>1, <2>2, <2>3 DEF SoftInv, SoftTypeOK, CallOK, HydrationShared, Honest
<1>3. CASE \/ \E s \in Scopes \cup {NoScope} : ScopeChanges(s)
           \/ UNCHANGED softVars
  BY <1>3
  DEF ScopeChanges, softVars, SoftInv, SoftTypeOK, Loaded, CallOK, HydrationShared, Honest
<1> QED
  BY <1>1, <1>2, <1>3

\* One step, or none.
LEMMA NextInv == SoftInv /\ [SoftNext]_softVars => SoftInv' /\ Honest
<1> SUFFICES ASSUME SoftInv, [SoftNext]_softVars
             PROVE  SoftInv' /\ Honest
  OBVIOUS
<1>1. ASSUME NEW c \in Clients, NEW op \in {"register", "profile"}, AskRoster(c, op)
      PROVE  SoftInv' /\ Honest
  BY <1>1, JoinStep DEF AskRoster
<1>2. ASSUME NEW c \in Clients, ThinProfile(c)
      PROVE  SoftInv' /\ Honest
  BY <1>2, JoinStep DEF ThinProfile
<1> QED
  BY <1>1, <1>2, HydrationStep, HealthStep, HealthLoadedStep, OwnStep,
     OwnLoadedStep, QuietStep DEF SoftNext

-----------------------------------------------------------------------------
(* The theorems. *)

\* The inductive invariant of the caches, for any scopes and clients.
THEOREM Invariance == SoftSpec => []SoftInv
<1>1. SoftInv /\ [SoftNext]_softVars => SoftInv'
  BY NextInv
<1> QED
  BY <1>1, InitInv, PTL DEF SoftSpec

\* Every variable of the caches keeps its type.
THEOREM TypeCorrect == SoftSpec => []SoftTypeOK
<1>1. SoftInv => SoftTypeOK
  BY DEF SoftInv
<1> QED
  BY <1>1, Invariance, PTL

\* Whoever waits for the shared load waits for one that is under way.
THEOREM SharedCorrect == SoftSpec => []HydrationShared
<1>1. SoftInv => HydrationShared
  BY DEF SoftInv
<1> QED
  BY <1>1, Invariance, PTL

\* No step refuses on any other word than a loaded roster's.
LEMMA RefusalStep == SoftInv /\ [SoftNext]_softVars => [Honest]_softVars
BY NextInv

\* localAuth refuses an agent as unregistered only on the word of a roster that
\* was loaded and lacks it, and that is young unless no session could replace it.
THEOREM RefusalCorrect == SoftSpec => RefusalIsHonest
BY RefusalStep, Invariance, PTL DEF SoftSpec, RefusalIsHonest, Honest, Tells
=============================================================================
