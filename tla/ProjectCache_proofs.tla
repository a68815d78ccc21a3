-------------------------- MODULE ProjectCache_proofs --------------------------
(***************************************************************************)
(* Proofs about the project and team caches: for any number of requests    *)
(* and of changes in the cloud, an entry of the user is as old as one of   *)
(* the listed reasons makes it, and a reply labelled 'cloud' is live.      *)
(*                                                                         *)
(* The strengthening says how old the answers of the reads on their way    *)
(* can be, and that only the requests that write have a write to clear up  *)
(* after.                                                                  *)
(***************************************************************************)
EXTENDS ProjectCache, TLAPS

\* A read's answer is no older than its request, and comes with its source.
LaneOK(k, lane) ==
    /\ lane.at = "asked" => /\ lane.bearer = User => lane.base <= cloud[k]
                            /\ lane.bearer # User => lane.base = 0
    /\ lane.at = "answered" => lane.base <= lane.ver
    /\ lane.at = "served" => lane.src # "none"
    /\ lane.old => lane.at = "served" /\ lane.src # "cloud"

\* Only a write has a write under way.
CallOK(C) == C.lane["write"].at # "off" => C.op \in Writes

\* The inductive invariant.
CacheInv ==
    /\ CacheTypeOK
    /\ \A c \in Requests : CallOK(calls[c])
    /\ \A c \in Requests, k \in AllKinds : LaneOK(k, calls[c].lane[k])
    /\ StaleEntriesAreExcused

\* Call C is going to clear the entry of kind k.
WillClear(C, k) == C.lane["write"].at = "answered" /\ k \in Clears(C.op, C.user)

\* The user's entry E of kind k is outdated.
Outdated(E, k) == E.held /\ E.of = User /\ E.ver # cloud[k]

-----------------------------------------------------------------------------
(* Calls, lanes and entries. *)

\* The lanes of a request: one for each kind, and one for a write.
LEMMA LanesFacts ==
    /\ AllKinds \subseteq Lanes /\ "write" \in Lanes /\ "write" \notin AllKinds
    /\ Writes \cap {"none", "read", "live"} = {}
    /\ 0 \in Versions /\ Versions \subseteq Int
BY CacheAssumption DEF Lanes, AllKinds, Writes, Relayed, Versions

\* The lanes that ask nothing, and an entry that is none.
LEMMA IdleFacts ==
    /\ Off \in Lane /\ Off.at = "off" /\ Off.base = 0 /\ ~Off.old
    /\ Nothing \in Lane /\ Nothing.at = "served" /\ Nothing.src = "defaults" /\ ~Nothing.old
    /\ NoEntry \in Entry /\ ~NoEntry.held
BY LanesFacts DEF Off, Nothing, NoEntry, Lane, Entry, Sources, Excuses

\* No call.
LEMMA NoCallFacts ==
    /\ NoCall \in Call /\ NoCall.op = "none"
    /\ NoCall.lane \in [Lanes -> Lane]
    /\ \A l \in Lanes : NoCall.lane[l] = Off
BY IdleFacts DEF NoCall, Call

\* A lane that asks.
LEMMA AskedFacts ==
    ASSUME CacheInv, NEW k \in AllKinds
    PROVE  Asked(k) \in Lane /\ LaneOK(k, Asked(k))
<1>1. cloud[k] \in Versions
  BY DEF CacheInv, CacheTypeOK
<1>2. Asked(k) \in Lane
  BY <1>1, IdleFacts DEF Asked, Lane, Accounts
<1>3. Asked(k).at = "asked" /\ Asked(k).bearer = User /\ Asked(k).base = cloud[k]
      /\ ~Asked(k).old
  BY DEF Asked, Off
<1>4. cloud[k] <= cloud[k]
  <2>1. cloud[k] \in Int
    BY <1>1, LanesFacts
  <2> QED
    BY <2>1
<1> QED
  BY <1>2, <1>3, <1>4 DEF LaneOK

\* What a lane gives the reply: it is told from live data when it is old.
LEMMA GivesFacts ==
    ASSUME NEW k, NEW lane \in Lane, NEW ver \in Versions,
           NEW src \in Sources \ {"none"}, src = "cloud" => lane.base <= ver
    PROVE  Gives(lane, ver, src) \in Lane /\ LaneOK(k, Gives(lane, ver, src))
<1> DEFINE x == Gives(lane, ver, src)
<1>1. x \in Lane /\ x.at = "served" /\ x.src = src /\ (x.old <=> ver < lane.base)
  <2>1. (ver < lane.base) \in BOOLEAN
    OBVIOUS
  <2> QED
    BY <2>1, LanesFacts DEF Gives, Off, Lane
<1>2. src = "cloud" => ~(ver < lane.base)
  <2>1. ver \in Int /\ lane.base \in Int
    BY LanesFacts DEF Lane
  <2> QED
    BY <2>1
<1> HIDE DEF x
<1>3. x \in Lane /\ LaneOK(k, x)
  BY <1>1, <1>2 DEF LaneOK
<1> QED
  BY <1>3 DEF x

\* A lane that has failed.
LEMMA FallbackFacts ==
    ASSUME CacheInv, NEW k \in AllKinds, NEW lane \in Lane,
           NEW x \in {Nothing, Fallback(k, lane)}
    PROVE  x \in Lane /\ LaneOK(k, x)
<1>1. store[k].ver \in Versions
  BY DEF CacheInv, CacheTypeOK, Entry
<1>2. "cache" \in Sources \ {"none"}
  BY DEF Sources
<1>3. Gives(lane, store[k].ver, "cache") \in Lane /\ LaneOK(k, Gives(lane, store[k].ver, "cache"))
  BY <1>1, <1>2, GivesFacts
<1> QED
  BY <1>3, IdleFacts DEF Fallback, LaneOK

\* A request whose calls' is C, which keeps the cloud as it is: what is outdated
\* is excused, or as it was and still about to be cleared if it was.
LEMMA OneCall ==
    ASSUME CacheInv, NEW c \in Requests, NEW C \in Call,
           calls' = [calls EXCEPT ![c] = C],
           CallOK(C), \A k \in AllKinds : LaneOK(k, C.lane[k]),
           UNCHANGED <<kinds, who, cloud>>,
           store' \in [AllKinds -> Entry],
           \A k \in AllKinds :
             Outdated(store'[k], k) =>
               \/ store'[k].excuse # "none"
               \/ store'[k] = store[k] /\ (WillClear(calls[c], k) => WillClear(C, k))
    PROVE  CacheInv'
<1>1. /\ calls' \in [Requests -> Call]
      /\ calls'[c] = C
      /\ \A d \in Requests \ {c} : calls'[d] = calls[d]
  BY DEF CacheInv, CacheTypeOK
<1>2. CacheTypeOK'
  BY <1>1 DEF CacheInv, CacheTypeOK
<1>3. (\A d \in Requests : CallOK(calls[d]))'
  BY <1>1 DEF CacheInv, CallOK
<1>4. (\A d \in Requests, k \in AllKinds : LaneOK(k, calls[d].lane[k]))'
  BY <1>1 DEF CacheInv, LaneOK
<1>5. StaleEntriesAreExcused'
  <2> SUFFICES ASSUME NEW k \in AllKinds,
                      store'[k].held, store'[k].of = User, store'[k].ver # cloud[k]
               PROVE  ClearPending(k)' \/ store'[k].excuse # "none"
    BY DEF StaleEntriesAreExcused
  <2>1. CASE store'[k].excuse # "none"
    BY <2>1
  <2>2. CASE store'[k].excuse = "none"
    <3>1. store'[k] = store[k] /\ (WillClear(calls[c], k) => WillClear(C, k))
      BY <2>2 DEF Outdated
    <3>2. PICK d \in Requests : WillClear(calls[d], k)
      BY <2>2, <3>1 DEF CacheInv, StaleEntriesAreExcused, ClearPending, WillClear
    <3>3. WillClear(calls'[d], k)
      BY <1>1, <3>1, <3>2
    <3> QED
      BY <3>3 DEF WillClear, ClearPending, Clears
  <2> QED
    BY <2>1, <2>2
<1> QED
  BY <1>2, <1>3, <1>4, <1>5 DEF CacheInv

\* The same for a lane of kind k of a request, which becomes x.
LEMMA OneLane ==
    ASSUME CacheInv, NEW c \in Requests, NEW k \in AllKinds, NEW x \in Lane,
           calls' = [calls EXCEPT ![c].lane[k] = x],
           LaneOK(k, x),
           UNCHANGED <<kinds, who, cloud>>,
           store' \in [AllKinds -> Entry],
           \A i \in AllKinds :
             Outdated(store'[i], i) => store'[i].excuse # "none" \/ store'[i] = store[i]
    PROVE  CacheInv'
<1> DEFINE C == [calls[c] EXCEPT !.lane[k] = x]
<1>1. calls \in [Requests -> Call] /\ calls[c] \in Call /\ CallOK(calls[c])
  BY DEF CacheInv, CacheTypeOK
<1>2. calls[c].lane \in [Lanes -> Lane] /\ k \in Lanes /\ k # "write"
  BY <1>1, LanesFacts DEF Call
<1>3. /\ C \in Call /\ C.op = calls[c].op /\ C.user = calls[c].user
      /\ C.lane[k] = x
      /\ \A l \in Lanes \ {k} : C.lane[l] = calls[c].lane[l]
  BY <1>1, <1>2 DEF Call
<1>4. calls' = [calls EXCEPT ![c] = C]
  BY <1>1
<1> HIDE DEF C
<1>5. CallOK(C) /\ \A i \in AllKinds : WillClear(calls[c], i) => WillClear(C, i)
  BY <1>1, <1>2, <1>3, LanesFacts DEF CallOK, WillClear
<1>6. \A i \in AllKinds : LaneOK(i, C.lane[i])
  BY <1>3, LanesFacts DEF CacheInv
<1>7. \A i \in AllKinds :
        Outdated(store'[i], i) =>
          \/ store'[i].excuse # "none"
          \/ store'[i] = store[i] /\ (WillClear(calls[c], i) => WillClear(C, i))
  BY <1>5
<1> QED
  BY <1>3, <1>4, <1>5, <1>6, <1>7, OneCall

-----------------------------------------------------------------------------
(* Every step keeps the invariant. *)

\* Nothing is kept and nothing under way.
LEMMA InitInv == CacheInit => CacheInv
<1> SUFFICES ASSUME CacheInit
             PROVE  CacheInv
  OBVIOUS
<1>1. CacheTypeOK
  BY IdleFacts, NoCallFacts, LanesFacts DEF CacheInit, CacheTypeOK
<1>2. ASSUME NEW c \in Requests
      PROVE  /\ CallOK(calls[c])
             /\ \A k \in AllKinds : LaneOK(k, calls[c].lane[k])
  BY IdleFacts, NoCallFacts, LanesFacts DEF CacheInit, CallOK, LaneOK
<1>3. StaleEntriesAreExcused
  BY IdleFacts DEF CacheInit, StaleEntriesAreExcused
<1> QED
  BY <1>1, <1>2, <1>3 DEF CacheInv

\* A request comes in, which finds no call of its own.
LEMMA RequestStep ==
    ASSUME CacheInv, NEW c \in Requests,
           \/ \E ks \in ReadSets, force \in BOOLEAN : Read(c, ks, force)
           \/ ResolveMember(c)
           \/ \E op \in Writes : Write(c, op)
    PROVE  CacheInv'
<1>1. calls[c].op = "none" /\ who \in Accounts \cup {NoUser}
      /\ UNCHANGED <<kinds, who, cloud, store>>
  BY DEF Read, ResolveMember, Write, CacheInv, CacheTypeOK
<1>2. \A k \in AllKinds : ~WillClear(calls[c], k)
  BY <1>1, LanesFacts DEF CacheInv, CallOK, WillClear
<1>3. ASSUME NEW C \in Call, calls' = [calls EXCEPT ![c] = C], CallOK(C),
             \A k \in AllKinds : LaneOK(k, C.lane[k])
      PROVE  CacheInv'
  <2>1. store' \in [AllKinds -> Entry]
    BY <1>1 DEF CacheInv, CacheTypeOK
  <2> QED
    BY <1>1, <1>2, <1>3, <2>1, OneCall
<1>4. \A k \in AllKinds : LaneOK(k, Off)
  BY IdleFacts DEF LaneOK
<1>5. ASSUME NEW ks \in ReadSets, NEW force \in BOOLEAN, Read(c, ks, force)
      PROVE  CacheInv'
  <2>1. ks \subseteq AllKinds
    BY DEF ReadSets, AllKinds
  <2> DEFINE lanes == [l \in Lanes |-> IF l \in ks THEN Asked(l) ELSE Off]
             C == [op |-> "read", user |-> User, lane |-> lanes]
  <2>2. lanes \in [Lanes -> Lane]
    BY <2>1, AskedFacts, IdleFacts
  <2>3. lanes["write"] = Off
    BY <2>1, LanesFacts
  <2>4. \A k \in AllKinds : LaneOK(k, lanes[k])
    BY <1>4, AskedFacts, LanesFacts
  <2> HIDE DEF lanes
  <2>5. C \in Call /\ C.lane = lanes
    BY <2>2 DEF Call, Accounts
  <2>6. calls' = [calls EXCEPT ![c] = C]
    BY <1>5 DEF Read, lanes
  <2> HIDE DEF C
  <2> QED
    BY <1>3, <2>3, <2>4, <2>5, <2>6, IdleFacts DEF CallOK
<1>6. CASE ResolveMember(c)
  <2> DEFINE lanes == [NoCall.lane EXCEPT !["team"] = Asked("team")]
             C == [op |-> "live", user |-> User, lane |-> lanes]
  <2>1. "team" \in AllKinds
    BY DEF AllKinds
  <2>2. /\ lanes \in [Lanes -> Lane]
        /\ lanes["team"] = Asked("team")
        /\ \A l \in Lanes \ {"team"} : lanes[l] = Off
    BY <2>1, AskedFacts, NoCallFacts, LanesFacts
  <2>3. lanes["write"] = Off /\ \A k \in AllKinds : LaneOK(k, lanes[k])
    BY <1>4, <2>1, <2>2, AskedFacts, LanesFacts
  <2> HIDE DEF lanes
  <2>4. C \in Call /\ C.lane = lanes
    BY <2>2 DEF Call, Accounts
  <2>5. calls' = [calls EXCEPT ![c] = C]
    BY <1>6 DEF ResolveMember, lanes
  <2> HIDE DEF C
  <2> QED
    BY <1>3, <2>3, <2>4, <2>5, IdleFacts DEF CallOK
<1>7. ASSUME NEW op \in Writes, Write(c, op)
      PROVE  CacheInv'
  <2> DEFINE w == [Off EXCEPT !.at = "asked", !.bearer = who]
             lanes == [NoCall.lane EXCEPT !["write"] = w]
             C == [op |-> op, user |-> who, lane |-> lanes]
  <2>1. w \in Lane
    BY <1>1, IdleFacts DEF Lane
  <2> HIDE DEF w
  <2>2. lanes \in [Lanes -> Lane] /\ \A l \in Lanes \ {"write"} : lanes[l] = Off
    BY <2>1, NoCallFacts, LanesFacts
  <2>3. \A k \in AllKinds : LaneOK(k, lanes[k])
    BY <1>4, <2>2, LanesFacts
  <2> HIDE DEF lanes
  <2>4. C \in Call /\ C.lane = lanes /\ C.op \in Writes
    BY <1>1, <2>2 DEF Call
  <2>5. calls' = [calls EXCEPT ![c] = C]
    BY <1>7 DEF Write, lanes, w
  <2> HIDE DEF C
  <2> QED
    BY <1>3, <2>3, <2>4, <2>5 DEF CallOK
<1> QED
  BY <1>5, <1>6, <1>7

\* A read is answered, filed, refused or has failed.
LEMMA ReadStep ==
    ASSUME CacheInv, NEW c \in Requests, NEW k \in AllKinds,
           AnswerRead(c, k) \/ FileAnswer(c, k) \/ ReadFails(c, k) \/ Refused(c, k)
    PROVE  CacheInv'
<1> DEFINE lane == calls[c].lane[k]
<1>1. /\ lane \in Lane /\ LaneOK(k, lane) /\ cloud[k] \in Versions
      /\ store \in [AllKinds -> Entry] /\ who \in Accounts \cup {NoUser}
      /\ calls \in [Requests -> Call] /\ k \in Lanes /\ k # "write"
      /\ UNCHANGED <<kinds, who, cloud>>
  BY LanesFacts DEF CacheInv, CacheTypeOK, Call, AnswerRead, FileAnswer, ReadFails, Refused
<1>2. ASSUME NEW x \in Lane, calls' = [calls EXCEPT ![c].lane[k] = x], LaneOK(k, x),
             UNCHANGED store
      PROVE  CacheInv'
  BY <1>1, <1>2, OneLane
<1>3. CASE AnswerRead(c, k)
  <2> DEFINE v == IF lane.bearer = User THEN cloud[k] ELSE 0
             x == [lane EXCEPT !.at = "answered", !.ver = v]
  <2>1. lane.at = "asked" /\ UNCHANGED store
    BY <1>3 DEF AnswerRead
  <2>2. v \in Versions /\ lane.base <= v
    BY <1>1, <2>1, LanesFacts DEF LaneOK
  <2>3. calls' = [calls EXCEPT ![c].lane[k] = x]
    BY <1>1, <1>3 DEF AnswerRead, Call, Lane
  <2> HIDE DEF v
  <2>4. /\ x \in Lane /\ x.at = "answered" /\ x.ver = v /\ x.base = lane.base
        /\ ~x.old
    BY <1>1, <2>1, <2>2 DEF Lane, LaneOK
  <2> HIDE DEF x
  <2> QED
    BY <1>2, <2>1, <2>2, <2>3, <2>4 DEF LaneOK
<1>4. CASE FileAnswer(c, k)
  <2> DEFINE x == Gives(lane, lane.ver, "cloud")
  <2>1. lane.at = "answered"
    BY <1>4 DEF FileAnswer
  <2>2. calls' = [calls EXCEPT ![c].lane[k] = x]
    BY <1>4 DEF FileAnswer
  <2>3. lane.ver \in Versions /\ lane.base <= lane.ver /\ "cloud" \in Sources \ {"none"}
    BY <1>1, <2>1 DEF Lane, LaneOK, Sources
  <2>4. x \in Lane /\ LaneOK(k, x)
    BY <1>1, <2>3, GivesFacts
  <2> HIDE DEF x
  <2>5. CASE calls[c].op # "read"
    BY <1>2, <1>4, <2>2, <2>4, <2>5 DEF FileAnswer
  <2>6. CASE calls[c].op = "read"
    <3> DEFINE E == EntryFiled(k, lane)
    <3>1. store' = [store EXCEPT ![k] = E]
      BY <1>4, <2>6 DEF FileAnswer
    <3>2. E \in Entry /\ (Outdated(E, k) => E.excuse # "none")
      BY <1>1 DEF EntryFiled, Entry, Excuses, Lane, Outdated
    <3> HIDE DEF E
    <3>3. store' \in [AllKinds -> Entry]
          /\ \A i \in AllKinds : store'[i] = IF i = k THEN E ELSE store[i]
      BY <1>1, <3>1, <3>2
    <3> QED
      BY <1>1, <2>2, <2>4, <3>2, <3>3, OneLane
  <2> QED
    BY <2>5, <2>6
<1>5. CASE ReadFails(c, k)
  <2>1. PICK x \in {Nothing, Fallback(k, lane)} : calls' = [calls EXCEPT ![c].lane[k] = x]
    BY <1>5 DEF ReadFails
  <2> QED
    BY <1>1, <1>2, <1>5, <2>1, FallbackFacts DEF ReadFails
<1>6. CASE Refused(c, k)
  <2>1. lane.at = "asked" /\ lane.bearer = calls[c].user /\ who # lane.bearer
        /\ UNCHANGED store
    BY <1>6 DEF Refused
  <2>2. CASE who = NoUser
    <3>1. calls' = [calls EXCEPT ![c].lane[k] = Nothing]
      BY <1>1, <1>6, <2>2 DEF Refused
    <3> QED
      BY <1>1, <1>2, <2>1, <3>1, FallbackFacts
  <2>3. CASE who # NoUser
    <3> DEFINE x == [lane EXCEPT !.bearer = who, !.base = 0]
    <3>1. calls' = [calls EXCEPT ![c].lane[k] = x]
      BY <1>1, <1>6, <2>3 DEF Refused, Call, Lane
    <3>2. x \in Lane /\ x.at = "asked" /\ x.base = 0 /\ ~x.old
      BY <1>1, <2>1, LanesFacts DEF Lane, LaneOK
    <3> HIDE DEF x
    <3>3. LaneOK(k, x)
      BY <1>1, <3>2, LanesFacts DEF LaneOK, Versions
    <3> QED
      BY <1>2, <2>1, <3>1, <3>2, <3>3
  <2> QED
    BY <2>2, <2>3
<1> QED
  BY <1>3, <1>4, <1>5, <1>6

\* A request is over: it has replied, or its write was never made, or made and
\* cleared up after, or made and its answer lost.
LEMMA OverStep ==
    ASSUME CacheInv, NEW c \in Requests,
           Reply(c) \/ WriteRejected(c) \/ WriteDone(c) \/ WriteAnswerLost(c)
    PROVE  CacheInv'
<1>1. /\ calls' = [calls EXCEPT ![c] = NoCall]
      /\ UNCHANGED <<kinds, who, cloud>>
      /\ store \in [AllKinds -> Entry] /\ CallOK(calls[c])
  BY DEF Reply, WriteRejected, WriteDone, WriteAnswerLost, CacheInv, CacheTypeOK
<1>2. CallOK(NoCall) /\ \A k \in AllKinds : LaneOK(k, NoCall.lane[k])
  BY NoCallFacts, IdleFacts, LanesFacts DEF CallOK, LaneOK
<1>3. ASSUME store' \in [AllKinds -> Entry],
             \A k \in AllKinds : Outdated(store'[k], k) =>
               \/ store'[k].excuse # "none"
               \/ store'[k] = store[k] /\ ~WillClear(calls[c], k)
      PROVE  CacheInv'
  BY <1>1, <1>2, <1>3, NoCallFacts, OneCall
<1>4. CASE Reply(c) \/ WriteRejected(c)
  <2>1. store' = store /\ \A k \in AllKinds : ~WillClear(calls[c], k)
    BY <1>1, <1>4, LanesFacts DEF Reply, Served, WriteRejected, WillClear, CallOK
  <2> QED
    BY <1>1, <1>3, <2>1
<1>5. CASE WriteDone(c)
  <2> DEFINE cleared == Clears(calls[c].op, calls[c].user)
  <2>1. store' = [k \in AllKinds |-> IF k \in cleared THEN NoEntry ELSE store[k]]
    BY <1>5 DEF WriteDone
  <2>2. \A k \in AllKinds : WillClear(calls[c], k) => k \in cleared
    BY DEF WillClear
  <2> HIDE DEF cleared
  <2> QED
    BY <1>1, <1>3, <2>1, <2>2, IdleFacts DEF Outdated
<1>6. CASE WriteAnswerLost(c)
  <2> DEFINE lost == {k \in Clears(calls[c].op, calls[c].user) : store[k].ver # cloud[k]}
  <2>1. store' = Missed(lost)
    BY <1>6 DEF WriteAnswerLost
  <2>2. \A k \in AllKinds :
          WillClear(calls[c], k) /\ store[k].ver # cloud[k] => k \in lost
    BY DEF WillClear
  <2> HIDE DEF lost
  <2>3. ASSUME NEW k \in AllKinds
        PROVE  /\ store'[k] \in Entry
               /\ Outdated(store'[k], k) =>
                    \/ store'[k].excuse # "none"
                    \/ store'[k] = store[k] /\ ~WillClear(calls[c], k)
    <3>1. store[k] \in Entry
      BY <1>1
    <3>2. CASE k \in lost /\ store[k].of = User
      <4>1. store'[k] = [store[k] EXCEPT !.excuse = "missed"]
        BY <2>1, <3>2 DEF Missed
      <4> QED
        BY <3>1, <4>1 DEF Entry, Excuses
    <3>3. CASE ~(k \in lost /\ store[k].of = User)
      <4>1. store'[k] = store[k]
        BY <2>1, <3>3 DEF Missed
      <4> QED
        BY <2>2, <3>1, <3>3, <4>1 DEF Outdated
    <3> QED
      BY <3>2, <3>3
  <2>4. store' \in [AllKinds -> Entry]
    BY <2>1, <2>3 DEF Missed
  <2> QED
    BY <1>3, <2>3, <2>4
<1> QED
  BY <1>4, <1>5, <1>6

\* A write is refused: it is given up, or asked again for another account.
LEMMA WriteRefusedStep ==
    ASSUME CacheInv, NEW c \in Requests, Refused(c, "write")
    PROVE  CacheInv'
<1> DEFINE lane == calls[c].lane["write"]
<1>1. /\ lane.at = "asked" /\ lane \in Lane /\ "write" \in Lanes
      /\ calls \in [Requests -> Call] /\ calls[c] \in Call
      /\ UNCHANGED <<kinds, who, cloud, store>>
      /\ store \in [AllKinds -> Entry] /\ CallOK(calls[c])
      /\ who \in Accounts \cup {NoUser}
  BY LanesFacts DEF Refused, CacheInv, CacheTypeOK, Call
<1>2. \A k \in AllKinds : ~WillClear(calls[c], k)
  BY <1>1 DEF WillClear
<1>3. CASE who = NoUser
  <2>1. calls' = [calls EXCEPT ![c] = NoCall]
    BY <1>3 DEF Refused
  <2>2. CallOK(NoCall) /\ \A k \in AllKinds : LaneOK(k, NoCall.lane[k])
    BY NoCallFacts, IdleFacts, LanesFacts DEF CallOK, LaneOK
  <2> QED
    BY <1>1, <1>2, <2>1, <2>2, NoCallFacts, OneCall
<1>4. CASE who # NoUser
  <2> DEFINE x == [lane EXCEPT !.bearer = who, !.base = 0]
             C == [calls[c] EXCEPT !.lane["write"] = x]
  <2>1. x \in Lane
    BY <1>1, LanesFacts DEF Lane
  <2>2. calls' = [calls EXCEPT ![c] = C]
    BY <1>1, <1>4 DEF Refused, Call, Lane
  <2> HIDE DEF x
  <2>3. /\ C \in Call /\ C.op = calls[c].op
        /\ \A l \in Lanes \ {"write"} : C.lane[l] = calls[c].lane[l]
    BY <1>1, <2>1 DEF Call
  <2> HIDE DEF C
  <2>4. CallOK(C) /\ \A k \in AllKinds : LaneOK(k, C.lane[k])
    BY <1>1, <2>3, LanesFacts DEF CallOK, CacheInv
  <2> QED
    BY <1>1, <1>2, <2>2, <2>3, <2>4, OneCall
<1> QED
  BY <1>3, <1>4

\* What a write outdates it clears, or cannot reach.
LEMMA TouchedFacts ==
    ASSUME NEW op \in Writes, NEW u, NEW v, NEW k \in Touches(op, u)
    PROVE  k \in Unclearable(op, v) \/ k \in Clears(op, v)
<1>1. k \in AllKinds
  BY DEF Touches, Writes, Relayed, AllKinds
<1>2. CASE op \in Relayed
  BY <1>1, <1>2 DEF Unclearable
<1>3. CASE op = "switch"
  BY <1>3 DEF Touches, Clears, Unclearable, Relayed
<1>4. CASE op = "edit"
  BY <1>4 DEF Touches, Clears, Unclearable, Relayed
<1>5. CASE op = "override"
  BY <1>5 DEF Touches, Clears, Unclearable, Relayed
<1>6. CASE op = "engage"
  BY <1>1, <1>6 DEF Clears, Unclearable, Relayed, AllKinds
<1> QED
  BY <1>2, <1>3, <1>4, <1>5, <1>6 DEF Writes

\* The cloud applies a write: what it outdates is going to be cleared, or excused.
LEMMA ApplyStep ==
    ASSUME CacheInv, NEW c \in Requests, ApplyWrite(c)
    PROVE  CacheInv'
<1> DEFINE op == calls[c].op
           lane == calls[c].lane["write"]
           touched == Touches(op, lane.bearer) \cap kinds
           excused == touched \cap Unclearable(op, calls[c].user)
           C == [calls[c] EXCEPT !.lane["write"].at = "answered"]
<1>1. /\ lane.at = "asked" /\ lane \in Lane /\ "write" \in Lanes
      /\ calls \in [Requests -> Call] /\ calls[c] \in Call
      /\ store \in [AllKinds -> Entry] /\ cloud \in [AllKinds -> Versions]
      /\ kinds' = kinds /\ who' = who
      /\ op \in Writes
  BY LanesFacts DEF ApplyWrite, CacheInv, CacheTypeOK, Call, CallOK
<1>2. /\ \A k \in touched : cloud[k] < VersionBound
      /\ cloud' = [k \in AllKinds |-> IF k \in touched THEN cloud[k] + 1 ELSE cloud[k]]
      /\ store' = Missed(excused)
      /\ calls' = [calls EXCEPT ![c] = C]
  BY <1>1 DEF ApplyWrite, Call
<1>3. /\ C \in Call /\ C.op = op /\ C.user = calls[c].user
      /\ C.lane["write"].at = "answered"
      /\ \A l \in Lanes \ {"write"} : C.lane[l] = calls[c].lane[l]
  BY <1>1 DEF Call, Lane
<1>4. \A k \in touched : k \in excused \/ WillClear(C, k)
  BY <1>1, <1>3, TouchedFacts DEF WillClear
<1> HIDE DEF C, touched, excused, op
<1>5. /\ calls' \in [Requests -> Call]
      /\ calls'[c] = C
      /\ \A d \in Requests \ {c} : calls'[d] = calls[d]
  BY <1>1, <1>2, <1>3
<1>6. ASSUME NEW k \in AllKinds
      PROVE  /\ cloud[k] \in Int /\ cloud'[k] \in Versions /\ cloud[k] <= cloud'[k]
             /\ k \notin touched => cloud'[k] = cloud[k]
  BY <1>1, <1>2, CacheAssumption DEF Versions
<1>7. ASSUME NEW k \in AllKinds
      PROVE  /\ store'[k] \in Entry
             /\ store'[k].held = store[k].held /\ store'[k].of = store[k].of
             /\ store'[k].ver = store[k].ver
             /\ store[k].excuse # "none" => store'[k].excuse # "none"
             /\ k \in excused /\ store[k].of = User => store'[k].excuse # "none"
  <2>1. store[k] \in Entry
    BY <1>1
  <2>2. CASE k \in excused /\ store[k].of = User
    <3>1. store'[k] = [store[k] EXCEPT !.excuse = "missed"]
      BY <1>2, <2>2 DEF Missed
    <3> QED
      BY <2>1, <3>1 DEF Entry, Excuses
  <2>3. CASE ~(k \in excused /\ store[k].of = User)
    <3>1. store'[k] = store[k]
      BY <1>2, <2>3 DEF Missed
    <3> QED
      BY <2>1, <2>3, <3>1
  <2> QED
    BY <2>2, <2>3
<1>8. CacheTypeOK'
  <2>1. store' \in [AllKinds -> Entry]
    BY <1>2, <1>7 DEF Missed
  <2>2. cloud' \in [AllKinds -> Versions]
    BY <1>2, <1>6
  <2> QED
    BY <1>1, <1>5, <2>1, <2>2 DEF CacheInv, CacheTypeOK
<1>9. (\A d \in Requests : CallOK(calls[d]))'
  BY <1>1, <1>3, <1>5 DEF CacheInv, CallOK
<1>10. ASSUME NEW d \in Requests, NEW k \in AllKinds
       PROVE  LaneOK(k, calls[d].lane[k])'
  <2>1. calls'[d].lane[k] = calls[d].lane[k] /\ calls[d].lane[k] \in Lane
    BY <1>1, <1>3, <1>5, LanesFacts DEF Call
  <2>2. LaneOK(k, calls[d].lane[k]) /\ calls[d].lane[k].base \in Int
    BY <2>1, LanesFacts DEF CacheInv, Lane
  <2>3. calls[d].lane[k].base <= cloud[k] => calls[d].lane[k].base <= cloud'[k]
    <3>1. cloud[k] \in Int /\ cloud'[k] \in Int /\ cloud[k] <= cloud'[k]
      BY <1>6, LanesFacts
    <3> QED
      BY <2>2, <3>1
  <2> QED
    BY <2>1, <2>2, <2>3 DEF LaneOK
<1>11. StaleEntriesAreExcused'
  <2> SUFFICES ASSUME NEW k \in AllKinds, store'[k].held, store'[k].of = User,
                      store'[k].ver # cloud'[k], store'[k].excuse = "none"
               PROVE  ClearPending(k)'
    BY DEF StaleEntriesAreExcused
  <2>1. \E d \in Requests : WillClear(calls'[d], k)
    <3>1. CASE k \in touched
      BY <1>4, <1>5, <1>7, <3>1
    <3>2. CASE k \notin touched
      <4>1. ClearPending(k)
        BY <1>6, <1>7, <3>2 DEF CacheInv, StaleEntriesAreExcused
      <4>2. PICK d \in Requests : WillClear(calls[d], k)
        BY <4>1 DEF ClearPending, WillClear
      <4>3. d # c
        BY <1>1, <4>2 DEF WillClear
      <4> QED
        BY <1>5, <4>2, <4>3
    <3> QED
      BY <3>1, <3>2
  <2> QED
    BY <2>1 DEF ClearPending, WillClear, Clears
<1> QED
  BY <1>8, <1>9, <1>10, <1>11 DEF CacheInv

\* Time passes, or the account changes.
LEMMA QuietStep ==
    ASSUME CacheInv,
           \/ MinutePasses
           \/ \E u \in Accounts \cup {NoUser} : AccountChanges(u)
           \/ UNCHANGED cacheVars
    PROVE  CacheInv'
<1>1. CASE MinutePasses
  <2>1. /\ store \in [AllKinds -> Entry] /\ "sync" \in AllKinds
        /\ store' = [store EXCEPT !["sync"].fresh = FALSE]
        /\ UNCHANGED <<kinds, who, cloud, calls>>
    BY <1>1 DEF MinutePasses, CacheInv, CacheTypeOK, AllKinds
  <2>2. ASSUME NEW k \in AllKinds
        PROVE  /\ store'[k] \in Entry
               /\ store'[k].held = store[k].held /\ store'[k].of = store[k].of
               /\ store'[k].ver = store[k].ver /\ store'[k].excuse = store[k].excuse
    BY <2>1 DEF Entry
  <2>3. CacheTypeOK'
    BY <2>1, <2>2 DEF CacheInv, CacheTypeOK
  <2>4. StaleEntriesAreExcused'
    <3> SUFFICES ASSUME NEW k \in AllKinds, store'[k].held, store'[k].of = User,
                        store'[k].ver # cloud[k], store'[k].excuse = "none"
                 PROVE  ClearPending(k)'
      BY <2>1 DEF StaleEntriesAreExcused
    <3>1. ClearPending(k)
      BY <2>2 DEF CacheInv, StaleEntriesAreExcused
    <3> QED
      BY <2>1, <3>1 DEF ClearPending, Clears
  <2> QED
    BY <2>1, <2>3, <2>4 DEF CacheInv, CallOK, LaneOK
<1>2. CASE \/ \E u \in Accounts \cup {NoUser} : AccountChanges(u)
           \/ UNCHANGED cacheVars
  BY <1>2
  DEF AccountChanges, cacheVars, CacheInv, CacheTypeOK, CallOK, LaneOK,
      StaleEntriesAreExcused, ClearPending, Clears
<1> QED
  BY <1>1, <1>2

\* One step, or none.
LEMMA NextInv == CacheInv /\ [CacheNext]_cacheVars => CacheInv'
<1> SUFFICES ASSUME CacheInv, [CacheNext]_cacheVars
             PROVE  CacheInv'
  OBVIOUS
<1>1. ASSUME NEW c \in Requests, NEW l \in Lanes, Refused(c, l)
      PROVE  CacheInv'
  BY <1>1, ReadStep, WriteRefusedStep DEF Lanes
<1> QED
  BY <1>1, RequestStep, ReadStep, ApplyStep, OverStep, QuietStep DEF CacheNext

-----------------------------------------------------------------------------
(* The theorems. *)

\* The inductive invariant of the caches, for any requests and changes.
THEOREM Invariance == CacheSpec => []CacheInv
BY InitInv, NextInv, PTL DEF CacheSpec

\* Every variable of the caches keeps its type.
THEOREM TypeCorrect == CacheSpec => []CacheTypeOK
<1>1. CacheInv => CacheTypeOK
  BY DEF CacheInv
<1> QED
  BY <1>1, Invariance, PTL

\* An entry of the user that the cloud has replaced is about to be cleared, or
\* out of the reach of the write that replaced it, or was stored too late.
THEOREM StaleCorrect == CacheSpec => []StaleEntriesAreExcused
<1>1. CacheInv => StaleEntriesAreExcused
  BY DEF CacheInv
<1> QED
  BY <1>1, Invariance, PTL

\* What is labelled 'cloud', and what a spawn is told of a member, was not
\* replaced before it was asked for.
THEOREM LabelCorrect == CacheSpec => []CloudLabelIsLive
<1>1. CacheInv => CloudLabelIsLive
  <2> SUFFICES ASSUME CacheInv, NEW c \in Requests, Label(c) = "cloud",
                      NEW k \in AllKinds
               PROVE  ~calls[c].lane[k].old
    BY DEF CloudLabelIsLive
  <2>1. calls[c].lane[k].src \in {"none", "cloud"}
    BY DEF Label
  <2>2. LaneOK(k, calls[c].lane[k])
    BY DEF CacheInv
  <2> QED
    BY <2>1, <2>2 DEF LaneOK
<1> QED
  BY <1>1, Invariance, PTL
=============================================================================
