---------------------------- MODULE CloudData_proofs ----------------------------
(***************************************************************************)
(* Proofs about the kanban requests, and about MCCloudData, the module     *)
(* that runs them and the project caches side by side.                     *)
(*                                                                         *)
(* For any agents and any number of requests in progress, the trail and    *)
(* the windows follow the card as far as the requests get.  The            *)
(* strengthening says what a request wants of the card, and that whatever  *)
(* moves or assigns it has been stored by the time its entry is appended.  *)
(*                                                                         *)
(* MCCloudData implements both of its parts, for any constants: what is    *)
(* proved of a part holds of every behaviour TLC looks at.                 *)
(***************************************************************************)
EXTENDS MCCloudData, ProjectCache_proofs, TLAPS

-----------------------------------------------------------------------------
(* The kanban requests. *)

\* What request j wants is what its checks let through.
CheckedJob(j) ==
    /\ jobs[j].op \in StatusOps /\ jobs[j].at \in {"write", "append"}
           => jobs[j].want \in Statuses
    /\ jobs[j].op \in OwnerOps /\ jobs[j].at \in {"write", "append"}
           => jobs[j].want \in Agents

\* A change the trail tells of is stored once it is written.
StoredJob(j) ==
    Records(jobs[j].op) # {} /\ jobs[j].at \in {"append", "finish"} => jobs[j].stored

\* The inductive invariant.
KanbanInv ==
    /\ KanbanTypeOK
    /\ \A j \in Jobs : CheckedJob(j) /\ StoredJob(j)
    /\ TrailIsTrue
    /\ WindowsAreTold

-----------------------------------------------------------------------------
(* The pieces of the requests. *)

\* The edges of the graph end in statuses.
LEMMA EdgesType == TRANSITIONS \in [Statuses -> SUBSET Statuses]
BY DEF TRANSITIONS, Statuses

\* What a request wants of the card is of the kind it writes.
LEMMA WantedFacts ==
    ASSUME card \in Card, card.status # None,
           NEW op \in KanbanOps \ {"create"}, NEW want \in Wanted(op, card)
    PROVE  /\ want \in Statuses \cup Agents \cup {None}
           /\ op \in StatusOps => want \in Statuses
           /\ op \in OwnerOps => want \in Agents
<1> USE DEF Wanted, StatusOps, OwnerOps
<1>1. CASE op = "move"
  <2>1. card.status \in Statuses
    BY DEF Card
  <2> QED
    BY <1>1, <2>1, EdgesType
<1>2. CASE op \in {"force", "approve", "reject"}
  BY <1>2 DEF Statuses
<1>3. CASE op \in {"assign", "claim"}
  BY <1>3
<1>4. CASE op \in {"note", "archive", "unarchive", "edit"}
  BY <1>4
<1> QED
  BY <1>1, <1>2, <1>3, <1>4 DEF KanbanOps, ArchiveOps

\* The operations whose entry tells the status, and those that tell the assignee.
LEMMA RecordsFacts ==
    ASSUME NEW op
    PROVE  /\ Records(op) \subseteq Words
           /\ "status" \in Records(op) <=> op \in StatusOps
           /\ "owner" \in Records(op) <=> op \in OwnerOps
BY DEF Records, Words, StatusOps, OwnerOps

\* The rest of the board: one request changes, from J to K.
LEMMA OneJob ==
    ASSUME jobs \in [Jobs -> Job], NEW j \in Jobs, NEW K \in Job,
           jobs' = [jobs EXCEPT ![j] = K]
    PROVE  /\ jobs' \in [Jobs -> Job]
           /\ jobs'[j] = K
           /\ \A i \in Jobs \ {j} : jobs'[i] = jobs[i]
OBVIOUS

\* An idle request is one.
LEMMA IdleType == IdleJob \in Job /\ IdleJob.at = "idle" /\ IdleJob.op = "idle"
BY DEF IdleJob, Job

\* Whatever changes only request j, to one that is not past its write, and only
\* when j was not past it either, keeps the invariant.
LEMMA JobBeforeWrite ==
    ASSUME KanbanInv, NEW j \in Jobs, NEW K \in Job,
           jobs' = [jobs EXCEPT ![j] = K],
           UNCHANGED <<card, trail, seen, excuses>>,
           jobs[j].at \notin {"append", "finish"},
           K.at \notin {"append", "finish"},
           K.at = "write" /\ K.op \in StatusOps => K.want \in Statuses,
           K.at = "write" /\ K.op \in OwnerOps => K.want \in Agents
    PROVE  KanbanInv'
<1>1. /\ jobs' \in [Jobs -> Job]
      /\ jobs'[j] = K
      /\ \A i \in Jobs \ {j} : jobs'[i] = jobs[i]
  BY OneJob DEF KanbanInv, KanbanTypeOK
<1>2. KanbanTypeOK'
  BY <1>1 DEF KanbanInv, KanbanTypeOK
<1>3. (\A i \in Jobs : CheckedJob(i) /\ StoredJob(i))'
  BY <1>1 DEF KanbanInv, CheckedJob, StoredJob
<1>4. TrailIsTrue'
  BY <1>1 DEF KanbanInv, TrailIsTrue
<1>5. WindowsAreTold'
  BY <1>1 DEF KanbanInv, WindowsAreTold
<1> QED
  BY <1>2, <1>3, <1>4, <1>5 DEF KanbanInv

-----------------------------------------------------------------------------
(* Every step keeps the invariant. *)

\* An empty board.
LEMMA KanbanInitInv == KanbanInit => KanbanInv
<1> SUFFICES ASSUME KanbanInit
             PROVE  KanbanInv
  OBVIOUS
<1>1. KanbanTypeOK
  BY IdleType DEF KanbanInit, KanbanTypeOK, NoCard, Card, NoTrail, Trail
<1>2. \A j \in Jobs : CheckedJob(j) /\ StoredJob(j)
  BY IdleType DEF KanbanInit, CheckedJob, StoredJob
<1>3. TrailIsTrue
  BY IdleType DEF KanbanInit, TrailIsTrue, NoCard, NoTrail, Words
<1>4. WindowsAreTold
  BY DEF KanbanInit, WindowsAreTold
<1> QED
  BY <1>1, <1>2, <1>3, <1>4 DEF KanbanInv

\* A request that passes its checks knows what CheckedJob says.
LEMMA ReadCardStep ==
    ASSUME KanbanInv, NEW j \in Jobs,
           (\E op \in KanbanOps : ReadCard(j, op)) \/ CreateCard(j)
    PROVE  KanbanInv'
<1>1. ASSUME NEW op \in KanbanOps, ReadCard(j, op)
      PROVE  KanbanInv'
  <2>1. /\ jobs[j].at = "idle" /\ op \in KanbanOps \ {"create"}
        /\ card \in Card /\ card.status # None
    BY <1>1 DEF ReadCard, KanbanInv, KanbanTypeOK
  <2>2. PICK want \in Wanted(op, card) :
          jobs' = [jobs EXCEPT ![j] =
            [op |-> op, at |-> "write", want |-> want, stored |-> FALSE]]
    BY <1>1 DEF ReadCard
  <2> DEFINE K == [op |-> op, at |-> "write", want |-> want, stored |-> FALSE]
  <2>3. /\ want \in Statuses \cup Agents \cup {None}
        /\ op \in StatusOps => want \in Statuses
        /\ op \in OwnerOps => want \in Agents
    BY <2>1, WantedFacts
  <2>4. K \in Job /\ K.at = "write" /\ K.op = op /\ K.want = want
    BY <2>3 DEF Job
  <2> HIDE DEF K
  <2>5. jobs' = [jobs EXCEPT ![j] = K]
    BY <2>2 DEF K
  <2>6. UNCHANGED <<card, trail, seen, excuses>>
    BY <1>1 DEF ReadCard
  <2> QED
    BY <2>1, <2>3, <2>4, <2>5, <2>6, JobBeforeWrite
<1>2. CASE CreateCard(j)
  <2>1. jobs[j].at = "idle" /\ UNCHANGED <<card, trail, seen, excuses>>
    BY <1>2 DEF CreateCard
  <2>2. PICK s \in Statuses :
          jobs' = [jobs EXCEPT ![j] =
            [IdleJob EXCEPT !.op = "create", !.at = "write", !.want = s]]
    BY <1>2 DEF CreateCard
  <2> DEFINE K == [IdleJob EXCEPT !.op = "create", !.at = "write", !.want = s]
  <2>3. K \in Job /\ K.at = "write" /\ K.op = "create" /\ K.want = s
    BY IdleType DEF Job, KanbanOps, StatusOps, IdleJob
  <2>4. jobs' = [jobs EXCEPT ![j] = K]
    BY <2>2
  <2> HIDE DEF K
  <2> QED
    BY <2>1, <2>3, <2>4, JobBeforeWrite DEF OwnerOps
<1> QED
  BY <1>1, <1>2

\* The write changes what its request is going to append, or has an excuse for.
LEMMA WriteCardStep ==
    ASSUME KanbanInv, NEW j \in Jobs, WriteCard(j)
    PROVE  KanbanInv'
<1> DEFINE op == jobs[j].op
<1>1. /\ jobs[j].at = "write" /\ jobs[j] \in Job /\ card \in Card
      /\ trail' = trail
      /\ excuses' = IF op = "create" THEN excuses \cup {"owner"} ELSE excuses
  BY DEF WriteCard, KanbanInv, KanbanTypeOK
<1>2. PICK stored \in Stores(op) :
        /\ card' \in IF stored THEN Written(op, jobs[j].want) ELSE {card}
        /\ seen' = (seen /\ ~stored)
        /\ jobs' = [jobs EXCEPT ![j].at = "append", ![j].stored = stored]
  BY DEF WriteCard
<1>3. stored \in BOOLEAN /\ (Records(op) # {} => stored)
  BY <1>2 DEF Stores, Records, StatusOps, OwnerOps, ArchiveOps
<1> DEFINE K == [jobs[j] EXCEPT !.at = "append", !.stored = stored]
<1>4. /\ K \in Job /\ K.at = "append" /\ K.op = op /\ K.want = jobs[j].want
      /\ K.stored = stored
  BY <1>1, <1>3 DEF Job
<1>5. jobs' = [jobs EXCEPT ![j] = K]
  BY <1>1, <1>2 DEF KanbanInv, KanbanTypeOK, Job
<1> HIDE DEF K
<1>6. /\ jobs' \in [Jobs -> Job]
      /\ jobs'[j] = K
      /\ \A i \in Jobs \ {j} : jobs'[i] = jobs[i]
  BY <1>4, <1>5, OneJob DEF KanbanInv, KanbanTypeOK
<1>7. CheckedJob(j) /\ StoredJob(j)
  BY DEF KanbanInv
<1>8. /\ card' \in Card
      /\ op \notin StatusOps => card'.status = card.status
      /\ op \notin OwnerOps /\ op # "create" => card'.owner = card.owner
  <2>1. CASE card' = card
    BY <1>1, <2>1
  <2>2. CASE op = "create" /\ card' \in Written(op, jobs[j].want)
    <3>1. "create" \in StatusOps /\ jobs[j].want \in Statuses
      BY <1>1, <1>7, <2>2 DEF CheckedJob, StatusOps
    <3> DEFINE made == {[card EXCEPT !.status = jobs[j].want, !.owner = a] :
                          a \in Agents \cup {None}}
    <3>2. card' \in made
      <4>1. Written(op, jobs[j].want) = made
        BY <2>2 DEF Written, StatusOps, OwnerOps, ArchiveOps
      <4> QED
        BY <2>2, <4>1
    <3>3. PICK a \in Agents \cup {None} :
            card' = [card EXCEPT !.status = jobs[j].want, !.owner = a]
      BY <3>2
    <3> QED
      BY <1>1, <2>2, <3>1, <3>3 DEF Card
  <2>3. CASE op \in StatusOps \ {"create"} /\ card' \in Written(op, jobs[j].want)
    <3>1. jobs[j].want \in Statuses
      BY <1>1, <1>7, <2>3 DEF CheckedJob
    <3>2. card' = [card EXCEPT !.status = jobs[j].want]
      BY <2>3 DEF Written, StatusOps, OwnerOps, ArchiveOps
    <3> QED
      BY <1>1, <2>3, <3>1, <3>2 DEF Card
  <2>4. CASE op \in OwnerOps /\ card' \in Written(op, jobs[j].want)
    <3>1. jobs[j].want \in Agents
      BY <1>1, <1>7, <2>4 DEF CheckedJob
    <3>2. card' = [card EXCEPT !.owner = jobs[j].want]
      BY <2>4 DEF Written, StatusOps, OwnerOps, ArchiveOps
    <3> QED
      BY <1>1, <2>4, <3>1, <3>2 DEF Card
  <2>5. CASE op \notin StatusOps \cup OwnerOps /\ card' \in Written(op, jobs[j].want)
    <3>1. card' = card \/ card' = [card EXCEPT !.archived = (op = "archive")]
      BY <2>5 DEF Written, StatusOps
    <3> QED
      BY <1>1, <2>5, <3>1 DEF Card
  <2> QED
    BY <1>2, <2>1, <2>2, <2>3, <2>4, <2>5
<1>9. KanbanTypeOK'
  BY <1>1, <1>2, <1>3, <1>6, <1>8 DEF KanbanInv, KanbanTypeOK, Words
<1>10. (\A i \in Jobs : CheckedJob(i) /\ StoredJob(i))'
  BY <1>1, <1>3, <1>4, <1>6, <1>7 DEF KanbanInv, CheckedJob, StoredJob, Records
<1>11. TrailIsTrue'
  <2>1. ASSUME NEW w \in Words, trail[w] # card'[w]
        PROVE  \/ w \in excuses'
               \/ \E i \in Jobs : jobs'[i].at = "append" /\ w \in Records(jobs'[i].op)
    <3>1. CASE w \in Records(op)
      BY <1>4, <1>6, <3>1
    <3>2. CASE w \notin Records(op) /\ card'[w] # card[w]
      BY <1>1, <1>8, <3>2, RecordsFacts DEF Words, StatusOps
    <3>3. CASE card'[w] = card[w]
      <4>1. CASE w \in excuses
        BY <1>1, <4>1
      <4>2. CASE \E i \in Jobs : jobs[i].at = "append" /\ w \in Records(jobs[i].op)
        BY <1>1, <1>6, <4>2
      <4> QED
        BY <2>1, <3>3, <4>1, <4>2 DEF KanbanInv, TrailIsTrue
    <3> QED
      BY <3>1, <3>2, <3>3
  <2>2. ASSUME NEW i \in Jobs, jobs'[i].op \in ArchiveOps, jobs'[i].at = "finish"
        PROVE  jobs'[i].stored
    BY <1>4, <1>6, <2>2 DEF KanbanInv, TrailIsTrue
  <2> QED
    BY <1>1, <2>1, <2>2 DEF TrailIsTrue, Records
<1>12. WindowsAreTold'
  BY <1>1, <1>2, <1>3, <1>4, <1>6 DEF KanbanInv, WindowsAreTold
<1> QED
  BY <1>9, <1>10, <1>11, <1>12 DEF KanbanInv

\* A request that ends has left its excuse, or has nothing to be excused.
LEMMA JobEndStep ==
    ASSUME KanbanInv, NEW j \in Jobs,
           \/ WriteFails(j) \/ AnswerLost(j) \/ ArchiveNotPersisted(j)
           \/ Finish(j) \/ ReviewMailFails(j)
    PROVE  KanbanInv'
<1>1. jobs' = [jobs EXCEPT ![j] = IdleJob]
  BY DEF WriteFails, AnswerLost, ArchiveNotPersisted, Finish, ReviewMailFails, KanbanEnds
<1>2. /\ jobs' \in [Jobs -> Job]
      /\ jobs'[j] = IdleJob
      /\ \A i \in Jobs \ {j} : jobs'[i] = jobs[i]
  BY <1>1, OneJob, IdleType DEF KanbanInv, KanbanTypeOK
<1>3. card' = card /\ trail' = trail
  BY DEF WriteFails, AnswerLost, ArchiveNotPersisted, Finish, ReviewMailFails
<1>4. (\A i \in Jobs : CheckedJob(i) /\ StoredJob(i))'
  BY <1>2, IdleType DEF KanbanInv, CheckedJob, StoredJob
<1>5. /\ seen' \in BOOLEAN
      /\ excuses' \subseteq Words \cup {"windows"}
  BY RecordsFacts
  DEF WriteFails, AnswerLost, ArchiveNotPersisted, Finish, ReviewMailFails,
      KanbanInv, KanbanTypeOK
<1>6. ASSUME NEW w \in Words
      PROVE  /\ w \in excuses => w \in excuses'
             /\ jobs[j].at = "append" /\ w \in Records(jobs[j].op) => w \in excuses'
  BY DEF WriteFails, AnswerLost, ArchiveNotPersisted, Finish, ReviewMailFails,
         KanbanInv, StoredJob, Persisted, Words, Records, StatusOps, OwnerOps, ArchiveOps
<1>7. TrailIsTrue'
  <2>1. ASSUME NEW w \in Words, trail[w] # card[w]
        PROVE  \/ w \in excuses'
               \/ \E i \in Jobs : jobs'[i].at = "append" /\ w \in Records(jobs'[i].op)
    <3>1. CASE w \in excuses
      BY <1>6, <3>1
    <3>2. ASSUME NEW i \in Jobs, jobs[i].at = "append", w \in Records(jobs[i].op)
          PROVE  \/ w \in excuses'
                 \/ \E h \in Jobs : jobs'[h].at = "append" /\ w \in Records(jobs'[h].op)
      BY <1>2, <1>6, <3>2
    <3> QED
      BY <2>1, <3>1, <3>2 DEF KanbanInv, TrailIsTrue
  <2>2. ASSUME NEW i \in Jobs, jobs'[i].op \in ArchiveOps, jobs'[i].at = "finish"
        PROVE  jobs'[i].stored
    BY <1>2, <2>2, IdleType DEF KanbanInv, TrailIsTrue
  <2> QED
    BY <1>3, <2>1, <2>2 DEF TrailIsTrue, Records
<1>8. \/ seen'
      \/ /\ seen' = seen
         /\ "windows" \in excuses => "windows" \in excuses'
         /\ jobs[j].at \in {"append", "finish"} /\ jobs[j].stored => "windows" \in excuses'
  <2>1. CASE WriteFails(j)
    BY <2>1 DEF WriteFails
  <2>2. CASE AnswerLost(j)
    BY <2>2 DEF AnswerLost
  <2>3. CASE ArchiveNotPersisted(j)
    BY <2>3 DEF ArchiveNotPersisted, Persisted
  <2>4. CASE Finish(j)
    BY <2>4 DEF Finish
  <2>5. CASE ReviewMailFails(j)
    BY <2>5 DEF ReviewMailFails
  <2> QED
    BY <2>1, <2>2, <2>3, <2>4, <2>5
<1>9. WindowsAreTold'
  BY <1>2, <1>8 DEF KanbanInv, WindowsAreTold
<1> QED
  BY <1>2, <1>3, <1>4, <1>5, <1>7, <1>9 DEF KanbanInv, KanbanTypeOK

\* The entry arrives, or its loss is known.
LEMMA AppendEntryStep ==
    ASSUME KanbanInv, NEW j \in Jobs, Append(j) \/ AppendFails(j)
    PROVE  KanbanInv'
<1>1. /\ jobs[j].at = "append" /\ Persisted(j) /\ jobs[j] \in Job
      /\ card' = card /\ seen' = seen
      /\ jobs' = [jobs EXCEPT ![j].at = "finish", ![j].want = None]
  BY DEF Append, AppendFails, KanbanInv, KanbanTypeOK
<1> DEFINE K == [jobs[j] EXCEPT !.at = "finish", !.want = None]
<1>2. K \in Job /\ K.at = "finish" /\ K.op = jobs[j].op /\ K.stored = jobs[j].stored
  BY <1>1 DEF Job
<1>3. jobs' = [jobs EXCEPT ![j] = K]
  BY <1>1 DEF KanbanInv, KanbanTypeOK, Job
<1> HIDE DEF K
<1>4. /\ jobs' \in [Jobs -> Job]
      /\ jobs'[j] = K
      /\ \A i \in Jobs \ {j} : jobs'[i] = jobs[i]
  BY <1>2, <1>3, OneJob DEF KanbanInv, KanbanTypeOK
<1>5. CheckedJob(j) /\ StoredJob(j)
  BY DEF KanbanInv
<1>6. /\ trail' \in Trail
      /\ excuses' \subseteq Words \cup {"windows"}
      /\ "windows" \in excuses => "windows" \in excuses'
  <2>1. CASE Append(j)
    <3>1. trail' = TrailEntry(j) /\ trail \in Trail /\ excuses \subseteq Words \cup {"windows"}
      BY <2>1 DEF Append, KanbanInv, KanbanTypeOK
    <3>2. /\ "status" \in Records(jobs[j].op) => jobs[j].want \in Statuses
          /\ "owner" \in Records(jobs[j].op) => jobs[j].want \in Agents
      BY <1>1, <1>5, RecordsFacts DEF CheckedJob
    <3>3. trail' \in Trail
      BY <3>1, <3>2 DEF TrailEntry, Trail, Words
    <3> QED
      BY <2>1, <3>1, <3>3, RecordsFacts DEF Append, Words
  <2>2. CASE AppendFails(j)
    BY <2>2, RecordsFacts DEF AppendFails, KanbanInv, KanbanTypeOK
  <2> QED
    BY <2>1, <2>2
<1>7. KanbanTypeOK'
  BY <1>1, <1>4, <1>6 DEF KanbanInv, KanbanTypeOK
<1>8. (\A i \in Jobs : CheckedJob(i) /\ StoredJob(i))'
  BY <1>1, <1>2, <1>4, <1>5 DEF KanbanInv, CheckedJob, StoredJob, Records
<1>9. TrailIsTrue'
  <2>1. ASSUME NEW w \in Words
        PROVE  /\ w \in Records(jobs[j].op) => trail'[w] = card[w] \/ w \in excuses'
               /\ w \notin Records(jobs[j].op)
                    => trail'[w] = trail[w] /\ (w \in excuses => w \in excuses')
    <3>1. CASE Append(j)
      BY <3>1 DEF Append, TrailEntry, Words
    <3>2. CASE AppendFails(j)
      BY <3>2 DEF AppendFails
    <3> QED
      BY <3>1, <3>2
  <2>2. ASSUME NEW w \in Words, trail'[w] # card[w]
        PROVE  \/ w \in excuses'
               \/ \E i \in Jobs : jobs'[i].at = "append" /\ w \in Records(jobs'[i].op)
    <3>1. CASE w \in Records(jobs[j].op)
      BY <2>1, <2>2, <3>1
    <3>2. CASE w \notin Records(jobs[j].op)
      <4>1. CASE w \in excuses
        BY <2>1, <3>2, <4>1
      <4>2. ASSUME NEW i \in Jobs, jobs[i].at = "append", w \in Records(jobs[i].op)
            PROVE  \E h \in Jobs : jobs'[h].at = "append" /\ w \in Records(jobs'[h].op)
        BY <1>4, <3>2, <4>2
      <4> QED
        BY <2>1, <2>2, <3>2, <4>1, <4>2 DEF KanbanInv, TrailIsTrue
    <3> QED
      BY <3>1, <3>2
  <2>3. ASSUME NEW i \in Jobs, jobs'[i].op \in ArchiveOps, jobs'[i].at = "finish"
        PROVE  jobs'[i].stored
    BY <1>1, <1>2, <1>4, <2>3 DEF KanbanInv, TrailIsTrue, Persisted
  <2> QED
    BY <1>1, <2>2, <2>3 DEF TrailIsTrue, Records
<1>10. WindowsAreTold'
  BY <1>1, <1>2, <1>4, <1>6 DEF KanbanInv, WindowsAreTold
<1> QED
  BY <1>7, <1>8, <1>9, <1>10 DEF KanbanInv

\* One step of any request, or none.
LEMMA KanbanNextInv == KanbanInv /\ [KanbanNext]_kanbanVars => KanbanInv'
<1> SUFFICES ASSUME KanbanInv, [KanbanNext]_kanbanVars
             PROVE  KanbanInv'
  OBVIOUS
<1>1. CASE UNCHANGED kanbanVars
  BY <1>1
  DEF kanbanVars, KanbanInv, KanbanTypeOK, CheckedJob, StoredJob, TrailIsTrue, WindowsAreTold
<1>2. CASE KanbanNext
  BY <1>2, ReadCardStep, WriteCardStep, JobEndStep, AppendEntryStep DEF KanbanNext, KanbanNextOf
<1> QED
  BY <1>1, <1>2

-----------------------------------------------------------------------------
(* What is proved of the kanban requests. *)

\* The inductive invariant of the kanban requests, for any agents and any number
\* of requests in progress.
THEOREM KanbanInvariance == KanbanSpec => []KanbanInv
BY KanbanInitInv, KanbanNextInv, PTL DEF KanbanSpec

\* Every variable of the board keeps its type.
THEOREM KanbanTypeCorrect == KanbanSpec => []KanbanTypeOK
<1>1. KanbanInv => KanbanTypeOK
  BY DEF KanbanInv
<1> QED
  BY <1>1, KanbanInvariance, PTL

\* The activity trail's last words on the card's status and on its assignee are
\* true unless an entry is to come, was lost or was overtaken, and it records no
\* archive that was not kept.
THEOREM TrailCorrect == KanbanSpec => []TrailIsTrue
<1>1. KanbanInv => TrailIsTrue
  BY DEF KanbanInv
<1> QED
  BY <1>1, KanbanInvariance, PTL

\* The windows are told of every change whose request did not fail after its
\* write.
THEOREM WindowsCorrect == KanbanSpec => []WindowsAreTold
<1>1. KanbanInv => WindowsAreTold
  BY DEF KanbanInv
<1> QED
  BY <1>1, KanbanInvariance, PTL

-----------------------------------------------------------------------------
(* The composition. *)

\* A step of MCCloudData is one of the caches, or leaves them alone.
THEOREM ImplementsCaches == Spec => CacheSpec
<1>1. Init => CacheInit
  BY DEF Init
<1>2. [Next]_vars => [CacheNext]_cacheVars
  BY DEF Next, vars, CachePart, KanbanPart
<1> QED
  BY <1>1, <1>2, PTL DEF Spec, CacheSpec

\* A step of MCCloudData is one of the kanban requests, or leaves the card alone,
\* whichever operations the behaviour is confined to.
THEOREM ImplementsKanban == Spec => KanbanSpec
<1>1. Init => KanbanInit
  BY DEF Init
<1>2. ASSUME NEW ops \in SUBSET KanbanOps, KanbanNextOf(ops)
      PROVE  KanbanNext
  BY <1>2 DEF KanbanNext, KanbanNextOf
<1>3. StatusOps \cup {"note"} \in SUBSET KanbanOps
  BY DEF KanbanOps
<1>4. OwnerOps \cup ArchiveOps \cup {"edit"} \in SUBSET KanbanOps
  BY DEF KanbanOps
<1>5. [Next]_vars => [KanbanNext]_kanbanVars
  BY <1>2, <1>3, <1>4 DEF Next, vars, CachePart, KanbanPart
<1> QED
  BY <1>1, <1>5, PTL DEF Spec, KanbanSpec

\* The type invariant of the run, for any requests, agents and changes.
THEOREM CloudDataTypeCorrect == Spec => []CloudDataTypeOK
<1>1. CacheTypeOK /\ KanbanTypeOK => CloudDataTypeOK
  BY DEF CloudDataTypeOK
<1> QED
  BY <1>1, ImplementsCaches, ImplementsKanban, TypeCorrect, KanbanTypeCorrect, PTL

\* What the run checks of the caches and of the card, of the composition itself.
THEOREM CloudDataCorrect ==
    Spec => /\ [](StaleEntriesAreExcused /\ CloudLabelIsLive)
            /\ [](TrailIsTrue /\ WindowsAreTold)
BY ImplementsCaches, ImplementsKanban, StaleCorrect, LabelCorrect, TrailCorrect,
   WindowsCorrect, PTL
=============================================================================
