---------------------------- MODULE Services_proofs ----------------------------
(***************************************************************************)
(* Proofs about the other services: the lines that the terminal bridge     *)
(* lets through, the requests of the mail proxy, and the exit of the       *)
(* process, for any buckets, terminals, retries, workers and limits; and   *)
(* about MCServices, the module that runs them and the SessionManager's    *)
(* caches side by side.                                                    *)
(*                                                                         *)
(* The strengthenings: the lines since a window began and the tokens of    *)
(* now are together within the bound; what the cloud has done for a mail   *)
(* is what was lost, but for an answer on its way or received; and while   *)
(* there are agents to take, every worker of a batch is busy.  The exit's  *)
(* invariant needs no more than the phase.                                 *)
(*                                                                         *)
(* Each invariant is proved of its initial states and steps, so that it    *)
(* holds of the part alone and of MCServices, whose fairness differs.      *)
(***************************************************************************)
EXTENDS MCServices, SessionCaches_proofs, TLAPS

-----------------------------------------------------------------------------
(* The terminal bridge. *)

\* The bucket of agent a and the lines in its window together.
Budget(a) == window[a].lines + tokens[a] <= Capacity + Refill * window[a].ticks

\* The inductive invariant.
BridgeInv ==
    /\ BridgeTypeOK
    /\ \A a \in Agents : Budget(a)

\* What passes is there to pass.
LEMMA AllowedFacts ==
    ASSUME tokens \in [Agents -> 0..Capacity], NEW a \in Agents, NEW n \in Nat
    PROVE  Allowed(a, n) \in Nat /\ Allowed(a, n) <= tokens[a]
BY BridgeAssumption DEF Allowed

\* A refill adds at most Refill and stops at the capacity.
LEMMA RefilledFacts ==
    ASSUME NEW n \in 0..Capacity
    PROVE  Refilled(n) \in 0..Capacity /\ Refilled(n) <= n + Refill
BY BridgeAssumption DEF Refilled

\* Full buckets and empty windows.
LEMMA BridgeInitInv == BridgeInit => BridgeInv
<1> SUFFICES ASSUME BridgeInit
             PROVE  BridgeInv
  OBVIOUS
<1>1. BridgeTypeOK
  BY BridgeAssumption DEF BridgeInit, BridgeTypeOK, Gone
<1>2. ASSUME NEW a \in Agents
      PROVE  Budget(a)
  <2>1. tokens[a] = Capacity /\ window[a].lines = 0 /\ window[a].ticks = 0
    BY DEF BridgeInit
  <2> QED
    BY <2>1, BridgeAssumption DEF Budget
<1> QED
  BY <1>1, <1>2 DEF BridgeInv

\* Lines take tokens away.
LEMMA BridgePushStep ==
    ASSUME BridgeInv,
           NEW t \in Terminals, NEW n \in 0..ChunkBound, NEW tail \in BOOLEAN,
           Push(t, n, tail)
    PROVE  BridgeInv'
<1> DEFINE a == AgentOf[t]
           m == Allowed(a, n)
<1>1. a \in Agents
  BY BridgeAssumption
<1>2. /\ m \in Nat /\ m <= tokens[a]
      /\ tokens[a] \in Nat /\ tokens[a] <= Capacity
      /\ window[a] \in [lines : Nat, ticks : 0..SinceBound]
  BY <1>1, AllowedFacts, BridgeAssumption DEF BridgeInv, BridgeTypeOK
<1>3. /\ tokens' = [tokens EXCEPT ![a] = tokens[a] - m]
      /\ window' = [window EXCEPT ![a].lines = window[a].lines + m]
      /\ age' = [age EXCEPT ![t] = 0]
      /\ partial' \subseteq Terminals
      /\ known' = known
  BY DEF Push, BridgeInv, BridgeTypeOK
<1> HIDE DEF a, m
<1>4. tokens[a] - m \in 0..Capacity
  BY <1>2, BridgeAssumption
<1>5. /\ tokens' \in [Agents -> 0..Capacity]
      /\ tokens'[a] = tokens[a] - m
      /\ \A b \in Agents \ {a} : tokens'[b] = tokens[b]
  BY <1>1, <1>3, <1>4 DEF BridgeInv, BridgeTypeOK
<1>6. window[a].lines + m \in Nat
  BY <1>2
<1>7. /\ window' \in [Agents -> [lines : Nat, ticks : 0..SinceBound]]
      /\ window'[a].lines = window[a].lines + m
      /\ window'[a].ticks = window[a].ticks
      /\ \A b \in Agents \ {a} : window'[b] = window[b]
  BY <1>1, <1>2, <1>3, <1>6 DEF BridgeInv, BridgeTypeOK
<1>8. age' \in [Terminals -> Gone..(Stale + 1)]
  BY <1>3, BridgeAssumption DEF BridgeInv, BridgeTypeOK, Gone
<1>9. BridgeTypeOK'
  BY <1>3, <1>5, <1>7, <1>8 DEF BridgeInv, BridgeTypeOK
<1>10. ASSUME NEW b \in Agents
       PROVE  Budget(b)'
  <2>1. CASE b = a
    <3>1. window[a].lines + m + (tokens[a] - m) = window[a].lines + tokens[a]
      BY <1>2
    <3> QED
      BY <1>1, <1>5, <1>7, <2>1, <3>1 DEF BridgeInv, Budget
  <2>2. CASE b # a
    BY <1>5, <1>7, <2>2 DEF BridgeInv, Budget
  <2> QED
    BY <2>1, <2>2
<1> QED
  BY <1>9, <1>10 DEF BridgeInv

\* Time adds to the bucket what it adds to the bound.
LEMMA BridgeTickStep ==
    ASSUME BridgeInv, Tick
    PROVE  BridgeInv'
<1>1. /\ age' = [t \in Terminals |->
                   IF age[t] \in 0..Stale THEN age[t] + 1 ELSE age[t]]
      /\ tokens' = [b \in Agents |-> Refilled(tokens[b])]
      /\ window' = [b \in Agents |->
                      IF window[b].ticks = SinceBound THEN [lines |-> 0, ticks |-> 0]
                      ELSE [window[b] EXCEPT !.ticks = window[b].ticks + 1]]
      /\ known' = known /\ partial' = partial
  BY DEF Tick
<1>2. age' \in [Terminals -> Gone..(Stale + 1)]
  BY <1>1, BridgeAssumption DEF BridgeInv, BridgeTypeOK, Gone
<1>3. ASSUME NEW b \in Agents
      PROVE  /\ tokens'[b] \in 0..Capacity
             /\ window'[b] \in [lines : Nat, ticks : 0..SinceBound]
             /\ Budget(b)'
  <2>1. /\ tokens[b] \in 0..Capacity
        /\ window[b] \in [lines : Nat, ticks : 0..SinceBound]
        /\ window[b].lines + tokens[b] <= Capacity + Refill * window[b].ticks
    BY DEF BridgeInv, BridgeTypeOK, Budget
  <2>2. tokens'[b] \in 0..Capacity /\ tokens'[b] <= tokens[b] + Refill
    BY <1>1, <2>1, RefilledFacts
  <2>3. CASE window[b].ticks = SinceBound
    <3>1. window'[b] = [lines |-> 0, ticks |-> 0]
      BY <1>1, <2>3
    <3>2. window'[b].lines = 0 /\ window'[b].ticks = 0
      BY <3>1
    <3> QED
      BY <2>2, <3>1, <3>2, BridgeAssumption DEF Budget
  <2>4. CASE window[b].ticks # SinceBound
    <3>1. window'[b] = [window[b] EXCEPT !.ticks = window[b].ticks + 1]
      BY <1>1, <2>4
    <3>2. /\ window'[b].lines = window[b].lines
          /\ window'[b].ticks = window[b].ticks + 1
          /\ window'[b] \in [lines : Nat, ticks : 0..SinceBound]
      <4>1. window[b].ticks + 1 \in 0..SinceBound
        <5>1. window[b].ticks \in 0..SinceBound
          BY <2>1
        <5>2. SinceBound \in Nat
          BY BridgeAssumption
        <5> QED
          BY <2>4, <5>1, <5>2
      <4> QED
        BY <2>1, <3>1, <4>1
    <3>3. Refill * (window[b].ticks + 1) = Refill * window[b].ticks + Refill
      BY <2>1, BridgeAssumption
    <3>4. Refill * window[b].ticks \in Int
      BY <2>1, BridgeAssumption
    <3> QED
      BY <2>1, <2>2, <3>2, <3>3, <3>4, BridgeAssumption DEF Budget
  <2> QED
    BY <2>3, <2>4
<1>4. BridgeTypeOK'
  BY <1>1, <1>2, <1>3 DEF BridgeInv, BridgeTypeOK
<1> QED
  BY <1>3, <1>4 DEF BridgeInv

\* The other steps leave the buckets alone, or begin a window with a bucket that
\* is at most full.
LEMMA BridgeQuietStep ==
    ASSUME BridgeInv,
           \/ (\E a \in Agents : Register(a) \/ WindowStarts(a))
           \/ FlushStaleBuffers
           \/ UNCHANGED bridgeVars
    PROVE  BridgeInv'
<1>1. CASE FlushStaleBuffers
  BY <1>1, BridgeAssumption
  DEF FlushStaleBuffers, BridgeInv, BridgeTypeOK, Budget, Gone
<1>2. CASE (\E a \in Agents : Register(a)) \/ UNCHANGED bridgeVars
  BY <1>2 DEF Register, bridgeVars, BridgeInv, BridgeTypeOK, Budget
<1>3. ASSUME NEW a \in Agents, WindowStarts(a)
      PROVE  BridgeInv'
  <2>1. /\ window' = [window EXCEPT ![a] = [lines |-> 0, ticks |-> 0]]
        /\ UNCHANGED <<known, partial, age, tokens>>
    BY <1>3 DEF WindowStarts
  <2>2. BridgeTypeOK'
    BY <2>1, BridgeAssumption DEF BridgeInv, BridgeTypeOK
  <2>3. ASSUME NEW b \in Agents
        PROVE  Budget(b)'
    <3>1. CASE b = a
      <4>1. window'[b].lines = 0 /\ window'[b].ticks = 0
        BY <2>1, <3>1 DEF BridgeInv, BridgeTypeOK
      <4>2. tokens'[b] \in 0..Capacity
        BY <2>1 DEF BridgeInv, BridgeTypeOK
      <4> QED
        BY <4>1, <4>2, BridgeAssumption DEF Budget
    <3>2. CASE b # a
      BY <2>1, <3>2 DEF BridgeInv, BridgeTypeOK, Budget
    <3> QED
      BY <3>1, <3>2
  <2> QED
    BY <2>2, <2>3 DEF BridgeInv
<1> QED
  BY <1>1, <1>2, <1>3

\* One step, or none.
LEMMA BridgeNextInv == BridgeInv /\ [BridgeNext]_bridgeVars => BridgeInv'
BY BridgePushStep, BridgeTickStep, BridgeQuietStep DEF BridgeNext

\* The inductive invariant of the bridge, for any buckets and terminals.
THEOREM BridgeInvariance == BridgeSpec => []BridgeInv
BY BridgeInitInv, BridgeNextInv, PTL DEF BridgeSpec

\* Every variable of the bridge keeps its type: no bucket is ever overdrawn or
\* overfull.
THEOREM BridgeTypeCorrect == BridgeSpec => []BridgeTypeOK
<1>1. BridgeInv => BridgeTypeOK
  BY DEF BridgeInv
<1> QED
  BY <1>1, BridgeInvariance, PTL

\* The lines of a window come out of the bucket it began with and its refills.
LEMMA RateFacts == BridgeInv => RateIsBounded
<1> SUFFICES ASSUME BridgeInv, NEW a \in Agents
             PROVE  window[a].lines <= Capacity + Refill * window[a].ticks
  BY DEF RateIsBounded
<1>1. /\ tokens[a] \in Nat
      /\ window[a].lines \in Nat /\ window[a].ticks \in Nat
  BY BridgeAssumption DEF BridgeInv, BridgeTypeOK
<1>2. Refill * window[a].ticks \in Int
  BY <1>1, BridgeAssumption
<1> QED
  BY <1>1, <1>2, BridgeAssumption DEF BridgeInv, Budget

\* Over any stretch of time an agent's lines are at most the burst and what was
\* refilled, however many terminals it has.
THEOREM RateCorrect == BridgeSpec => []RateIsBounded
BY RateFacts, BridgeInvariance, PTL

-----------------------------------------------------------------------------
(* The mails. *)

\* What the cloud has done for mail M: once for every answer that was lost, and
\* once more if an answer is on its way or has arrived.
Settled(M) ==
    /\ M.at # "idle" => M.op \in Routes
    /\ M.accepted <= M.tries
    /\ M.at \in {"asked", "again"} => M.accepted < M.tries
    /\ IF M.at = "accepted" \/ (M.at = "answered" /\ M.answer = "ok")
       THEN M.accepted = M.lost + 1
       ELSE M.accepted = M.lost

\* The inductive invariant of the mails.
MailsInv ==
    /\ mails \in [Mails -> Mail]
    /\ \A m \in Mails : Settled(mails[m])

\* One mail becomes M.
LEMMA OneMail ==
    ASSUME MailsInv, NEW m \in Mails, NEW M \in Mail, Settled(M),
           mails' = [mails EXCEPT ![m] = M]
    PROVE  MailsInv'
BY DEF MailsInv, Settled

\* The routes answer an error of the cloud with an error, or with nothing.
LEMMA ErrorFacts ==
    ASSUME NEW op \in Routes, NEW answer \in ErrorAnswers(op)
    PROVE  answer \in Answers /\ answer # "ok"
<1>1. CASE op \in {"send", "mark", "read"}
  BY <1>1 DEF ErrorAnswers, Answers
<1>2. CASE op = "inbox"
  BY <1>2 DEF ErrorAnswers, Answers
<1>3. CASE op = "agents"
  BY <1>3 DEF ErrorAnswers, Answers
<1> QED
  BY <1>1, <1>2, <1>3 DEF Routes

\* A mail is asked for, again, or done.
LEMMA MailAskStep ==
    ASSUME MailsInv, NEW m \in Mails,
           (\E op \in Routes : MailRequest(m, op)) \/ MailAgain(m) \/ MailAccepted(m)
    PROVE  MailsInv'
<1>1. mails[m] \in Mail /\ Settled(mails[m]) /\ mails \in [Mails -> Mail]
  BY DEF MailsInv
<1>2. ASSUME NEW op \in Routes, MailRequest(m, op)
      PROVE  MailsInv'
  <2> DEFINE M == [mails[m] EXCEPT !.op = op, !.at = "asked", !.answer = "none",
                                   !.tries = mails[m].tries + 1]
  <2>1. /\ mails[m].at \in {"idle", "answered"} /\ mails[m].answer # "ok"
        /\ mails[m].tries < TryBound
        /\ mails' = [mails EXCEPT ![m] = M]
    BY <1>1, <1>2 DEF MailRequest
  <2>2. mails[m].tries + 1 \in 0..TryBound
    BY <1>1, <2>1, MailAssumption DEF Mail
  <2>3. M \in Mail
    BY <1>1, <2>2 DEF Mail, Answers
  <2>4. Settled(M)
    BY <1>1, <2>1, MailAssumption DEF Settled, Mail
  <2> HIDE DEF M
  <2> QED
    BY <2>1, <2>3, <2>4, OneMail
<1>3. CASE MailAgain(m)
  <2> DEFINE M == [mails[m] EXCEPT !.at = "again"]
  <2>1. mails[m].at = "asked" /\ mails' = [mails EXCEPT ![m] = M]
    BY <1>1, <1>3 DEF MailAgain
  <2>2. M \in Mail /\ Settled(M)
    BY <1>1, <2>1 DEF Mail, Settled
  <2> HIDE DEF M
  <2> QED
    BY <2>1, <2>2, OneMail
<1>4. CASE MailAccepted(m)
  <2> DEFINE M == [mails[m] EXCEPT !.at = "accepted", !.accepted = mails[m].accepted + 1]
  <2>1. mails[m].at \in {"asked", "again"} /\ mails' = [mails EXCEPT ![m] = M]
    BY <1>1, <1>4 DEF MailAccepted
  <2>2. mails[m].accepted + 1 \in 0..TryBound
    BY <1>1, <2>1, MailAssumption DEF Mail, Settled
  <2>3. M \in Mail
    BY <1>1, <2>2 DEF Mail
  <2>4. Settled(M)
    BY <1>1, <2>1, MailAssumption DEF Settled, Mail
  <2> HIDE DEF M
  <2> QED
    BY <2>1, <2>3, <2>4, OneMail
<1> QED
  BY <1>2, <1>3, <1>4

\* A mail is answered.
LEMMA MailAnswerStep ==
    ASSUME MailsInv, NEW m \in Mails,
           MailUnauthenticated(m) \/ MailReported(m) \/ MailLost(m) \/ MailRefused(m)
    PROVE  MailsInv'
<1>1. mails[m] \in Mail /\ Settled(mails[m]) /\ mails \in [Mails -> Mail]
  BY DEF MailsInv
<1>2. ASSUME NEW answer \in Answers, MailAnswered(m, answer),
             \/ mails[m].at \in {"asked", "again"} /\ answer # "ok"
             \/ mails[m].at = "accepted" /\ answer = "ok"
      PROVE  MailsInv'
  <2> DEFINE M == [mails[m] EXCEPT !.at = "answered", !.answer = answer]
  <2>1. mails' = [mails EXCEPT ![m] = M]
    BY <1>1, <1>2 DEF MailAnswered
  <2>2. M \in Mail /\ Settled(M)
    BY <1>1, <1>2 DEF Mail, Settled
  <2> HIDE DEF M
  <2> QED
    BY <2>1, <2>2, OneMail
<1>3. CASE MailUnauthenticated(m)
  BY <1>2, <1>3 DEF MailUnauthenticated, Answers
<1>4. CASE MailReported(m)
  BY <1>2, <1>4 DEF MailReported, Answers
<1>5. CASE MailRefused(m)
  <2>1. mails[m].at \in {"asked", "again"} /\ mails[m].op \in Routes
    BY <1>1, <1>5 DEF MailRefused, Settled
  <2>2. PICK answer \in ErrorAnswers(mails[m].op) : MailAnswered(m, answer)
    BY <1>5 DEF MailRefused
  <2> QED
    BY <1>2, <2>1, <2>2, ErrorFacts
<1>6. CASE MailLost(m)
  <2> DEFINE n == IF mails[m].at = "accepted" THEN mails[m].lost + 1 ELSE mails[m].lost
  <2>1. PICK answer \in {"proxy", "upstream"} :
          mails' = [mails EXCEPT ![m].at = "answered", ![m].answer = answer, ![m].lost = n]
    BY <1>6 DEF MailLost
  <2> DEFINE M == [mails[m] EXCEPT !.at = "answered", !.answer = answer, !.lost = n]
  <2>2. mails[m].at \in {"asked", "again", "accepted"}
    BY <1>6 DEF MailLost
  <2>3. n \in 0..TryBound /\ n = mails[m].accepted
    BY <1>1, <2>2, MailAssumption DEF Mail, Settled
  <2>4. mails' = [mails EXCEPT ![m] = M]
    BY <1>1, <2>1
  <2> HIDE DEF n
  <2>5. M \in Mail
    BY <1>1, <2>3 DEF Mail, Answers
  <2>6. Settled(M)
    BY <1>1, <2>2, <2>3 DEF Settled, Mail
  <2> HIDE DEF M
  <2> QED
    BY <2>4, <2>5, <2>6, OneMail
<1> QED
  BY <1>3, <1>4, <1>5, <1>6

-----------------------------------------------------------------------------
(* The pool of workers. *)

\* In batch B every agent before the cursor has a worker, or its inbox, unless a
\* worker gave up; and while agents are left nobody is idle.
Pooled(B) ==
    /\ B.next <= B.of + 1
    /\ \A w \in 1..Pool : B.worker[w] < B.next
    /\ \A v, w \in 1..Pool : B.worker[v] = B.worker[w] /\ B.worker[v] # 0 => v = w
    /\ \A a \in 1..B.of :
         B.inbox[a] # "none" => a < B.next /\ \A w \in 1..Pool : B.worker[w] # a
    /\ \A a \in 1..B.of :
         B.inbox[a] = "none" /\ a < B.next /\ (\A w \in 1..Pool : B.worker[w] # a)
             => B.answer = "unauthenticated"
    /\ B.next <= B.of /\ B.answer = "none" => \A w \in 1..Pool : B.worker[w] # 0
    /\ B.answer = "ok" => /\ \A w \in 1..Pool : B.worker[w] = 0
                          /\ \A a \in 1..B.of : B.inbox[a] # "none"

\* The inductive invariant of the batch.
BatchInv == batch \in Batch /\ Pooled(batch)

\* The fields of a batch.
LEMMA BatchFacts ==
    ASSUME NEW B \in Batch
    PROVE  /\ B.of \in Nat /\ B.of <= BatchBound
           /\ B.next \in Nat /\ B.next >= 1
           /\ \A w \in 1..Pool : B.worker[w] \in Nat
BY MailAssumption DEF Batch

\* No batch.
LEMMA NoBatchFacts == NoBatch \in Batch /\ Pooled(NoBatch)
<1>1. NoBatch \in Batch
  BY MailAssumption DEF NoBatch, Batch, Inboxes
<1>2. /\ NoBatch.of = 0 /\ NoBatch.next = 1 /\ NoBatch.answer = "none"
      /\ \A w \in 1..Pool : NoBatch.worker[w] = 0
  BY DEF NoBatch
<1> QED
  BY <1>1, <1>2 DEF Pooled

\* The workers take the first agents.
LEMMA BatchRequestStep ==
    ASSUME BatchInv, NEW n \in 1..BatchBound, BatchRequest(n)
    PROVE  BatchInv'
<1> DEFINE next == IF n < Pool THEN n + 1 ELSE Pool + 1
           worker == [w \in 1..Pool |-> IF w <= n THEN w ELSE 0]
           B == [NoBatch EXCEPT !.of = n, !.next = next, !.worker = worker]
<1>1. batch' = B
  BY DEF BatchRequest
<1>2. /\ n \in Nat /\ n >= 1 /\ n <= BatchBound
      /\ Pool \in Nat /\ Pool >= 1 /\ BatchBound \in Nat
  BY MailAssumption
<1>3. /\ next \in 1..(BatchBound + 1) /\ next <= n + 1
      /\ \A w \in 1..Pool : w <= n <=> w < next
      /\ \A a \in 1..n : a < next => a \in 1..Pool
      /\ next <= n => \A w \in 1..Pool : w <= n
  BY <1>2
<1>4. worker \in [1..Pool -> 0..BatchBound]
  BY <1>2
<1>5. \A w \in 1..Pool : worker[w] = IF w <= n THEN w ELSE 0
  OBVIOUS
<1> HIDE DEF next, worker
<1>6. /\ B \in Batch
      /\ B.of = n /\ B.next = next /\ B.worker = worker /\ B.answer = "none"
      /\ \A a \in 1..BatchBound : B.inbox[a] = "none"
  <2>1. /\ NoBatch \in Batch /\ NoBatch.answer = "none"
        /\ \A a \in 1..BatchBound : NoBatch.inbox[a] = "none"
    BY NoBatchFacts DEF NoBatch
  <2>2. n \in 0..BatchBound
    BY <1>2
  <2> QED
    BY <1>3, <1>4, <2>1, <2>2 DEF Batch
<1> HIDE DEF B
<1>7. \A a \in 1..n : B.inbox[a] = "none"
  BY <1>2, <1>6
<1>8. next \in Nat /\ next >= 1
  BY <1>2, <1>3
<1>9. Pooled(B)
  <2>1. \A w \in 1..Pool : worker[w] < next
    BY <1>3, <1>5, <1>8
  <2>2. \A v, w \in 1..Pool : worker[v] = worker[w] /\ worker[v] # 0 => v = w
    BY <1>5
  <2>3. \A a \in 1..n : a < next => \E w \in 1..Pool : worker[w] = a
    BY <1>3, <1>5
  <2>4. next <= n => \A w \in 1..Pool : worker[w] # 0
    BY <1>3, <1>5
  <2> QED
    BY <1>3, <1>6, <1>7, <2>1, <2>2, <2>3, <2>4 DEF Pooled
<1> QED
  BY <1>1, <1>6, <1>9 DEF BatchInv

\* A worker takes the next agent, or ends when there is none.
LEMMA WorkerFindsStep ==
    ASSUME BatchInv, NEW w \in 1..Pool, NEW kind \in Inboxes \ {"none"},
           WorkerFinds(w, kind)
    PROVE  BatchInv'
<1> DEFINE more == batch.next <= batch.of
           b == batch.worker[w]
           taken == IF more THEN batch.next ELSE 0
           next == IF more THEN batch.next + 1 ELSE batch.next
           B == [batch EXCEPT !.inbox[b] = kind, !.worker[w] = taken, !.next = next]
<1>1. batch \in Batch /\ Pooled(batch) /\ b # 0 /\ batch' = B
  BY DEF BatchInv, WorkerFinds
<1>2. /\ batch.of \in Nat /\ batch.of <= BatchBound
      /\ batch.next \in Nat /\ batch.next >= 1 /\ batch.next <= batch.of + 1
      /\ \A v \in 1..Pool : batch.worker[v] \in Nat /\ batch.worker[v] < batch.next
      /\ BatchBound \in Nat
  BY <1>1, BatchFacts, MailAssumption DEF Pooled
<1>3. b \in 1..batch.of /\ b \in 1..BatchBound
  BY <1>1, <1>2
<1>4. /\ taken \in 0..BatchBound /\ next \in 1..(BatchBound + 1)
      /\ next <= batch.of + 1 /\ batch.next <= next /\ taken < next
      /\ taken # 0 => taken = batch.next /\ more
      /\ next <= batch.of => more /\ taken # 0
      /\ \A a \in 1..batch.of : a < next => a < batch.next \/ a = taken
  BY <1>2
<1> HIDE DEF taken, next
<1>5. /\ B \in Batch /\ B.of = batch.of /\ B.next = next /\ B.answer = batch.answer
      /\ \A a \in 1..BatchBound : B.inbox[a] = IF a = b THEN kind ELSE batch.inbox[a]
      /\ \A v \in 1..Pool : B.worker[v] = IF v = w THEN taken ELSE batch.worker[v]
  BY <1>1, <1>3, <1>4 DEF Batch
<1> HIDE DEF B, b, more
<1>6. \A a \in 1..batch.of : B.inbox[a] = IF a = b THEN kind ELSE batch.inbox[a]
  BY <1>2, <1>5
<1>7. batch.worker[w] = b
  BY DEF b
<1>8. Pooled(B)
  <2>1. \A v \in 1..Pool : B.worker[v] < B.next
    <3>1. next \in Nat
      BY <1>2, <1>4
    <3> QED
      BY <1>2, <1>4, <1>5, <3>1
  <2>2. ASSUME NEW u \in 1..Pool, NEW v \in 1..Pool,
               B.worker[u] = B.worker[v], B.worker[u] # 0
        PROVE  u = v
    <3>1. \A x \in 1..Pool : batch.worker[x] # batch.next
      BY <1>2
    <3> QED
      BY <1>1, <1>4, <1>5, <2>2, <3>1 DEF Pooled
  <2>3. ASSUME NEW a \in 1..batch.of, B.inbox[a] # "none"
        PROVE  a < B.next /\ \A v \in 1..Pool : B.worker[v] # a
    <3>1. a < batch.next
      BY <1>1, <1>2, <1>6, <1>7, <2>3 DEF Pooled
    <3>2. a < next /\ a # taken
      <4>1. a \in Nat /\ a # 0 /\ next \in Nat
        BY <1>2, <1>4
      <4> QED
        BY <1>2, <1>4, <3>1, <4>1
    <3>3. \A v \in 1..Pool \ {w} : batch.worker[v] # a
      BY <1>1, <1>6, <1>7, <2>3 DEF Pooled
    <3> QED
      BY <1>5, <3>2, <3>3
  <2>4. ASSUME NEW a \in 1..batch.of, B.inbox[a] = "none", a < B.next,
               \A v \in 1..Pool : B.worker[v] # a
        PROVE  batch.answer = "unauthenticated"
    <3>1. a # b /\ batch.inbox[a] = "none"
      BY <1>6, <2>4
    <3>2. a # taken /\ \A v \in 1..Pool : batch.worker[v] # a
      BY <1>5, <1>7, <2>4, <3>1
    <3>3. a < batch.next
      BY <1>4, <1>5, <2>4, <3>2
    <3> QED
      BY <1>1, <3>1, <3>2, <3>3 DEF Pooled
  <2>5. ASSUME B.next <= batch.of, batch.answer = "none"
        PROVE  \A v \in 1..Pool : B.worker[v] # 0
    <3>1. batch.next <= batch.of /\ taken # 0
      BY <1>4, <1>5, <2>5 DEF more
    <3> QED
      BY <1>1, <1>5, <2>5, <3>1 DEF Pooled
  <2>6. batch.answer # "ok"
    BY <1>1, <1>7 DEF Pooled
  <2> QED
    BY <1>4, <1>5, <2>1, <2>2, <2>3, <2>4, <2>5, <2>6 DEF Pooled
<1> QED
  BY <1>1, <1>5, <1>8 DEF BatchInv

\* A worker gives up, or the request is answered or over.
LEMMA BatchEndStep ==
    ASSUME BatchInv,
           (\E w \in 1..Pool : WorkerUnauthenticated(w)) \/ BatchAnswered \/ BatchGone
    PROVE  BatchInv'
<1>1. /\ batch \in Batch /\ Pooled(batch) /\ 1 \in 1..Pool
      /\ batch.of \in Nat /\ batch.next \in Nat /\ batch.next >= 1
  BY BatchFacts, MailAssumption DEF BatchInv
<1>2. ASSUME NEW w \in 1..Pool, WorkerUnauthenticated(w)
      PROVE  BatchInv'
  <2> DEFINE B == [batch EXCEPT !.worker[w] = 0, !.answer = "unauthenticated"]
  <2>1. batch' = B
    BY <1>2 DEF WorkerUnauthenticated
  <2>2. /\ B \in Batch /\ B.of = batch.of /\ B.next = batch.next
        /\ B.inbox = batch.inbox /\ B.answer = "unauthenticated"
        /\ \A v \in 1..Pool : B.worker[v] = IF v = w THEN 0 ELSE batch.worker[v]
    <3>1. batch.worker \in [1..Pool -> 0..BatchBound] /\ 0 \in 0..BatchBound
      BY <1>1, MailAssumption DEF Batch
    <3> DEFINE worker == [batch.worker EXCEPT ![w] = 0]
    <3>2. /\ worker \in [1..Pool -> 0..BatchBound]
          /\ \A v \in 1..Pool : worker[v] = IF v = w THEN 0 ELSE batch.worker[v]
      BY <3>1
    <3>3. B = [batch EXCEPT !.worker = worker, !.answer = "unauthenticated"]
      OBVIOUS
    <3> HIDE DEF worker, B
    <3> QED
      BY <1>1, <3>2, <3>3 DEF Batch
  <2> HIDE DEF B
  <2>3. \A a \in 1..batch.of : a # 0
    BY <1>1
  <2>4. Pooled(B)
    BY <1>1, <2>2, <2>3 DEF Pooled
  <2> QED
    BY <2>1, <2>2, <2>4 DEF BatchInv
<1>3. CASE BatchAnswered
  <2> DEFINE B == [batch EXCEPT !.answer = "ok"]
  <2>1. /\ batch' = B /\ batch.answer = "none"
        /\ \A w \in 1..Pool : batch.worker[w] = 0
    BY <1>3 DEF BatchAnswered
  <2>2. /\ B \in Batch /\ B.of = batch.of /\ B.next = batch.next
        /\ B.inbox = batch.inbox /\ B.worker = batch.worker /\ B.answer = "ok"
    BY <1>1 DEF Batch
  <2> HIDE DEF B
  <2>3. batch.next = batch.of + 1
    BY <1>1, <2>1 DEF Pooled
  <2>4. \A a \in 1..batch.of : a < batch.next /\ a # 0
    BY <1>1, <2>3
  <2>5. \A a \in 1..batch.of : batch.inbox[a] # "none"
    BY <1>1, <2>1, <2>4 DEF Pooled
  <2>6. Pooled(B)
    BY <1>1, <2>1, <2>2, <2>3, <2>5 DEF Pooled
  <2> QED
    BY <2>1, <2>2, <2>6 DEF BatchInv
<1>4. CASE BatchGone
  BY <1>4, NoBatchFacts DEF BatchGone, BatchInv
<1> QED
  BY <1>2, <1>3, <1>4

-----------------------------------------------------------------------------
(* Mails and batches together. *)

\* No mails and no batch.
LEMMA MailInitInv == MailInit => MailsInv /\ BatchInv
<1> SUFFICES ASSUME MailInit
             PROVE  MailsInv /\ BatchInv
  OBVIOUS
<1>1. NoMail \in Mail /\ Settled(NoMail)
  BY MailAssumption DEF NoMail, Mail, Answers, Settled
<1> QED
  BY <1>1, NoBatchFacts DEF MailInit, MailsInv, BatchInv

\* One step, or none.
LEMMA MailNextInv ==
    MailsInv /\ BatchInv /\ [MailNext]_mailVars => (MailsInv /\ BatchInv)'
<1> SUFFICES ASSUME MailsInv, BatchInv, [MailNext]_mailVars
             PROVE  (MailsInv /\ BatchInv)'
  OBVIOUS
<1>1. CASE UNCHANGED mails
  <2>1. MailsInv'
    BY <1>1 DEF MailsInv
  <2>2. CASE UNCHANGED batch
    BY <2>1, <2>2 DEF BatchInv
  <2>3. CASE ~UNCHANGED batch
    BY <2>1, <2>3, BatchRequestStep, WorkerFindsStep, BatchEndStep
    DEF MailNext, mailVars, MailRequest, MailUnauthenticated, MailAgain, MailAccepted,
        MailReported, MailLost, MailRefused
  <2> QED
    BY <2>2, <2>3
<1>2. CASE ~UNCHANGED mails
  <2>1. UNCHANGED batch
    BY <1>2
    DEF MailNext, mailVars, MailRequest, MailUnauthenticated, MailAgain, MailAccepted,
        MailReported, MailLost, MailRefused, BatchRequest, WorkerFinds,
        WorkerUnauthenticated, BatchAnswered, BatchGone
  <2>2. BatchInv'
    BY <2>1 DEF BatchInv
  <2>3. MailsInv'
    BY <1>2, MailAskStep, MailAnswerStep
    DEF MailNext, mailVars, BatchRequest, WorkerFinds, WorkerUnauthenticated,
        BatchAnswered, BatchGone
  <2> QED
    BY <2>2, <2>3
<1> QED
  BY <1>1, <1>2

\* The inductive invariant of the mail proxy, for any mails, retries and workers.
THEOREM MailInvariance == MailSpec => [](MailsInv /\ BatchInv)
BY MailInitInv, MailNextInv, PTL DEF MailSpec

\* Every variable of the mail proxy keeps its type.
THEOREM MailTypeCorrect == MailSpec => []MailTypeOK
<1>1. MailsInv /\ BatchInv => MailTypeOK
  BY DEF MailsInv, BatchInv, MailTypeOK
<1> QED
  BY <1>1, MailInvariance, PTL

\* A mail is accepted once more than its answers are lost, at most.
LEMMA RetryFacts == MailsInv => RetryIsSafe
<1> SUFFICES ASSUME MailsInv, NEW m \in Mails
             PROVE  mails[m].accepted <= mails[m].lost + 1
  BY DEF RetryIsSafe
<1>1. mails[m] \in Mail /\ Settled(mails[m])
  BY DEF MailsInv
<1>2. mails[m].lost \in Nat
  BY <1>1, MailAssumption DEF Mail
<1> QED
  BY <1>1, <1>2 DEF Settled

\* A client that tries again has its mail sent twice only if an answer was lost.
THEOREM RetryCorrect == MailSpec => []RetryIsSafe
BY RetryFacts, MailInvariance, PTL

\* While agents are left to take every worker is busy: none is lost.
LEMMA InboxesFacts == BatchInv => InboxesComplete
<1> SUFFICES ASSUME BatchInv
             PROVE  InboxesComplete
  OBVIOUS
<1>1. Pooled(batch) /\ batch.of \in Nat
  BY BatchFacts DEF BatchInv
<1>2. \A a \in 1..batch.of : a # 0
  BY <1>1
<1> QED
  BY <1>1, <1>2 DEF Pooled, InboxesComplete

\* The workers lose no agent and ask for none twice: a batch that is answered
\* well has an inbox for each, whatever the size of the pool.
THEOREM InboxesCorrect == MailSpec => []InboxesComplete
BY InboxesFacts, MailInvariance, PTL

-----------------------------------------------------------------------------
(* The end of the sidecar. *)

\* The exit with code 0 is the one of a server that has closed.
ClosedWell == code = 0 => phase = "exited" /\ open = 0 /\ streams = 0

\* The inductive invariant.
EndInv == ShutdownTypeOK /\ ClosedWell

\* The type without the flag of the lifecycle timer.
Numbers ==
    /\ phase \in Phases
    /\ clock \in 0..ForceLimit
    /\ open \in 0..ConnectionBound /\ streams \in 0..ConnectionBound
    /\ code \in {-1, 0, 1}

LEMMA EndSplit == EndInv <=> Numbers /\ armed \in BOOLEAN /\ ClosedWell
BY DEF EndInv, ShutdownTypeOK, Numbers

LEMMA EndInitInv == ShutdownInit => EndInv
<1> SUFFICES ASSUME ShutdownInit
             PROVE  EndInv
  OBVIOUS
<1>1. Numbers /\ ClosedWell
  BY ShutdownAssumption DEF ShutdownInit, Numbers, Phases, ClosedWell
<1>2. armed \in BOOLEAN
  BY DEF ShutdownInit
<1> QED
  BY <1>1, <1>2, EndSplit

LEMMA EndNextInv == EndInv /\ [ShutdownNext]_shutdownVars => EndInv'
<1> SUFFICES ASSUME Numbers, armed \in BOOLEAN, ClosedWell, [ShutdownNext]_shutdownVars
             PROVE  Numbers' /\ armed' \in BOOLEAN /\ ClosedWell'
  BY EndSplit DEF EndInv, ShutdownTypeOK, Numbers
<1>1. CASE UNCHANGED shutdownVars
  BY <1>1 DEF shutdownVars, Numbers, ClosedWell
<1>2. CASE RequestArrives \/ RequestDone \/ StreamOpens \/ StreamCloses
  <2>1. Numbers' /\ ClosedWell'
    <3>1. CASE RequestArrives \/ StreamOpens
      BY <3>1, ShutdownAssumption
      DEF RequestArrives, StreamOpens, Listening, Numbers, Phases, ClosedWell
    <3>2. CASE RequestDone \/ StreamCloses
      <4>1. /\ phase # "exited" /\ phase' = phase /\ clock' = clock /\ code' = code
            /\ \/ open > 0 /\ open' = open - 1 /\ streams' = streams
               \/ streams > 0 /\ streams' = streams - 1 /\ open' = open
        BY <3>2 DEF RequestDone, StreamCloses
      <4> QED
        BY <4>1, ShutdownAssumption DEF Numbers, ClosedWell
    <3> QED
      BY <1>2, <3>1, <3>2
  <2>2. armed' \in BOOLEAN
    BY <1>2 DEF RequestArrives, RequestDone, StreamOpens, StreamCloses
  <2> QED
    BY <2>1, <2>2
<1>3. CASE TimerFires \/ Signal \/ Notified \/ Elapses
  <2>1. Numbers' /\ ClosedWell'
    BY <1>3, ShutdownAssumption
    DEF TimerFires, Signal, Notified, Elapses, Numbers, Phases, ClosedWell
  <2>2. armed' \in BOOLEAN
    BY <1>3 DEF TimerFires, Signal, Notified, Elapses
  <2> QED
    BY <2>1, <2>2
<1>4. CASE StopThrows \/ ServerCloses \/ Forced
  <2>1. Numbers' /\ ClosedWell'
    BY <1>4 DEF StopThrows, ServerCloses, Forced, ForceTimer, Exits, Numbers, Phases, ClosedWell
  <2>2. armed' \in BOOLEAN
    BY <1>4 DEF StopThrows, ServerCloses, Forced, Exits
  <2> QED
    BY <2>1, <2>2
<1> QED
  BY <1>1, <1>2, <1>3, <1>4 DEF ShutdownNext

\* Every variable of the shutdown keeps its type, for any limits: no tick passes
\* the force timer (shutdown.ts:30).
THEOREM ShutdownTypeCorrect == ShutdownSpec => []ShutdownTypeOK
<1>1. EndInv => ShutdownTypeOK
  BY DEF EndInv
<1> QED
  BY <1>1, EndInitInv, EndNextInv, PTL DEF ShutdownSpec

\* The process exits with code 0 only when every request in progress was answered
\* and every stream closed, and stays so: the safety part of ShutdownEnds.
THEOREM ExitCorrect == ShutdownSpec => [](code = 0 => open = 0 /\ streams = 0)
<1>1. EndInv => (code = 0 => open = 0 /\ streams = 0)
  BY DEF EndInv, ClosedWell
<1> QED
  BY <1>1, EndInitInv, EndNextInv, PTL DEF ShutdownSpec

-----------------------------------------------------------------------------
(* The composition. *)

\* A behaviour of MCServices is one of each service, fairness apart: a step is of
\* one of them and leaves the others alone.
THEOREM ImplementsServices ==
    Spec => /\ SoftInit /\ [][SoftNext]_softVars
            /\ MailInit /\ [][MailNext]_mailVars
            /\ BridgeInit /\ [][BridgeNext]_bridgeVars
            /\ ShutdownInit /\ [][ShutdownNext]_shutdownVars
<1>1. Init => SoftInit /\ MailInit /\ BridgeInit /\ ShutdownInit
  BY DEF Init
<1>2. [Next]_vars => /\ [SoftNext]_softVars /\ [MailNext]_mailVars
                     /\ [BridgeNext]_bridgeVars /\ [ShutdownNext]_shutdownVars
  BY DEF Next, vars, services, SoftPart, MailPart, BridgePart, ShutdownPart
<1> QED
  BY <1>1, <1>2, PTL DEF Spec

\* The inductive invariants of the services, of the composition.
LEMMA ServicesInvariance ==
    Spec => [](SoftInv /\ MailsInv /\ BatchInv /\ BridgeInv /\ EndInv)
<1>1. SoftInv /\ [SoftNext]_softVars => SoftInv'
  BY NextInv
<1> QED
  BY <1>1, ImplementsServices, InitInv, MailInitInv, MailNextInv, BridgeInitInv,
     BridgeNextInv, EndInitInv, EndNextInv, PTL

\* The type invariant of the run, for any constants.
THEOREM ServicesTypeCorrect == Spec => []ServicesTypeOK
<1>1. SoftInv /\ MailsInv /\ BatchInv /\ BridgeInv /\ EndInv => ServicesTypeOK
  BY DEF SoftInv, MailsInv, BatchInv, MailTypeOK, BridgeInv, EndInv, ServicesTypeOK
<1> QED
  BY <1>1, ServicesInvariance, PTL

\* What the run checks of the services, liveness apart, of the composition itself.
THEOREM ServicesCorrect ==
    Spec => /\ [](InboxesComplete /\ RetryIsSafe)
            /\ []RateIsBounded
            /\ [](code = 0 => open = 0 /\ streams = 0)
            /\ RefusalIsHonest
<1>1. EndInv => (code = 0 => open = 0 /\ streams = 0)
  BY DEF EndInv, ClosedWell
<1> QED
  BY <1>1, ServicesInvariance, ImplementsServices, RateFacts, RetryFacts, InboxesFacts,
     RefusalStep, PTL DEF RefusalIsHonest, Honest, Tells
=============================================================================
