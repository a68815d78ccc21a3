-------------------------------- MODULE Kanban --------------------------------
(***************************************************************************)
(* The kanban requests: src/api/routes/kanban.ts over src/kanban/board.js, *)
(* src/kanban/review.js and the typed cloud calls of the SessionManager.   *)
(*                                                                         *)
(* Every request is a chain of cloud calls: read the card, check it, write *)
(* it, append to its activity trail, notify by mail, tell the windows.     *)
(* Any of them may fail, and requests overlap between any two of them.     *)
(* The model follows one card.  A request that is refused on its read      *)
(* changes nothing and is no action; reading requests change nothing.      *)
(***************************************************************************)
CONSTANTS
    Jobs,     \* kanban requests in progress
    Agents,   \* the agents a card can be assigned to
    None      \* no such card yet; assigned to nobody

Statuses == {"backlog", "in_progress", "review", "done", "blocked"}

ASSUME KanbanAssumption == None \notin Agents \cup Statuses

VARIABLES
    card,     \* the card in the cloud
    trail,    \* what its activity trail says of it
    seen,     \* the card has not changed since the last kanban-update event
    excuses,  \* history: what of the trail, or the windows, may be behind the card
    jobs      \* the requests in progress

kanbanVars == <<card, trail, seen, excuses, jobs>>

\* G2's graph.
TRANSITIONS ==
    [backlog     |-> {"in_progress"},
     in_progress |-> {"review", "blocked", "backlog"},
     review      |-> {"done", "in_progress", "blocked"},
     blocked     |-> {"in_progress", "backlog"},
     done        |-> {"in_progress", "review"}]

Card == [status : Statuses \cup {None}, owner : Agents \cup {None}, archived : BOOLEAN]

\* "edit" is an edit of free fields or a comment; "note" a review comment, which
\* writes nothing: reviewedBy and reviewNotes are no fields of updateTask.
StatusOps == {"create", "move", "force", "approve", "reject"}
OwnerOps == {"assign", "claim"}
ArchiveOps == {"archive", "unarchive"}

\* The activity trail is kept as its last words: the to_status of the last entry
\* that is 'created', 'status_moved', 'status_forced' or 'reviewed' with one, and
\* that of the last one that is 'assigned', where to_status holds the new
\* assignee's name.  The action tells the two apart.  (from_status, the value as
\* it was read, is left out.)
Words == {"status", "owner"}
Trail == [status : Statuses \cup {None}, owner : Agents \cup {None}]

KanbanOps == StatusOps \cup OwnerOps \cup ArchiveOps \cup {"edit", "note"}

\* `write` until the cloud has written, `append` until it has the audit entry,
\* `finish` until the mails are sent.  `want` is what the request makes of the card.
Job == [op : KanbanOps \cup {"idle"}, at : {"idle", "write", "append", "finish"},
        want : Statuses \cup Agents \cup {None}, stored : BOOLEAN]

NoCard == [status |-> None, owner |-> None, archived |-> FALSE]
NoTrail == [status |-> None, owner |-> None]
IdleJob == [op |-> "idle", at |-> "idle", want |-> None, stored |-> FALSE]

KanbanTypeOK ==
    /\ card \in Card
    /\ trail \in Trail
    /\ seen \in BOOLEAN
    /\ excuses \subseteq Words \cup {"windows"}
    /\ jobs \in [Jobs -> Job]

KanbanInit ==
    /\ card = NoCard
    /\ trail = NoTrail
    /\ seen = TRUE
    /\ excuses = {}
    /\ jobs = [j \in Jobs |-> IdleJob]

-----------------------------------------------------------------------------
(* The read and its checks. *)

\* What a request wants of the card, once its checks have passed.  They are checks
\* of the card as it was read: of two requests that read it before either writes,
\* the second may move it off the graph, or claim it from the agent who has it now.
Wanted(op, task) ==
    CASE op = "move"    -> TRANSITIONS[task.status]
      [] op = "force"   -> Statuses
      [] op = "approve" -> IF task.status = "review" THEN {"done"} ELSE {}
      [] op = "reject"  -> IF task.status = "review" THEN {"in_progress"} ELSE {}
      [] op = "note"    -> IF task.status = "review" THEN {None} ELSE {}
      [] op = "assign"  -> Agents
      [] op = "claim"   -> IF task.owner = None THEN Agents ELSE {}
      [] OTHER          -> {None}

\* moveTask, reviewTask, assignTask, editTask, addComment, archiveTask, to their
\* write.  A forced move is one off the graph, by a human.
ReadCard(j, op) ==
    /\ jobs[j].at = "idle"
    /\ op \in KanbanOps \ {"create"}
    /\ card.status # None
    /\ \E want \in Wanted(op, card) :
         jobs' = [jobs EXCEPT ![j] =
                    [op |-> op, at |-> "write", want |-> want, stored |-> FALSE]]
    /\ UNCHANGED <<card, trail, seen, excuses>>

\* POST /tasks: any valid status; the first one is the card followed here.
CreateCard(j) ==
    /\ jobs[j].at = "idle"
    /\ card.status = None
    /\ \A i \in Jobs : jobs[i].op # "create"
    /\ \E s \in Statuses :
         jobs' = [jobs EXCEPT ![j] = [IdleJob EXCEPT !.op = "create", !.at = "write", !.want = s]]
    /\ UNCHANGED <<card, trail, seen, excuses>>

-----------------------------------------------------------------------------
(* The write. *)

\* A card may be created with an assignee.
Written(op, want) ==
    CASE op = "create"     -> {[card EXCEPT !.status = want, !.owner = a] :
                                 a \in Agents \cup {None}}
      [] op \in StatusOps \ {"create"} -> {[card EXCEPT !.status = want]}
      [] op \in OwnerOps   -> {[card EXCEPT !.owner = want]}
      [] op \in ArchiveOps -> {[card EXCEPT !.archived = (op = "archive")]}
      [] OTHER             -> {card}

\* The cloud may accept an archive and drop the field.
Stores(op) == IF op \in ArchiveOps THEN BOOLEAN ELSE {op # "note"}

\* History: the 'created' entry tells the status of a card, not its assignee.
WriteCard(j) ==
    LET op == jobs[j].op IN
    /\ jobs[j].at = "write"
    /\ \E stored \in Stores(op) :
         /\ card' \in IF stored THEN Written(op, jobs[j].want) ELSE {card}
         /\ seen' = (seen /\ ~stored)
         /\ jobs' = [jobs EXCEPT ![j].at = "append", ![j].stored = stored]
    /\ excuses' = IF op = "create" THEN excuses \cup {"owner"} ELSE excuses
    /\ UNCHANGED trail

KanbanEnds(j) == jobs' = [jobs EXCEPT ![j] = IdleJob]

\* The cloud refused, or cannot be reached.
WriteFails(j) ==
    /\ jobs[j].at = "write"
    /\ KanbanEnds(j)
    /\ UNCHANGED <<card, trail, seen, excuses>>

\* What of the trail the entry of a request tells.
Records(op) ==
    CASE op \in StatusOps -> {"status"}
      [] op \in OwnerOps  -> {"owner"}
      [] OTHER            -> {}

\* The cloud has written and its answer is lost (10 s), or is not JSON: the
\* handler throws, and neither trail nor windows hear of the change.
AnswerLost(j) ==
    /\ jobs[j].at = "append"
    /\ KanbanEnds(j)
    /\ excuses' = IF jobs[j].stored THEN excuses \cup Records(jobs[j].op) \cup {"windows"}
                  ELSE excuses
    /\ UNCHANGED <<card, trail, seen>>

-----------------------------------------------------------------------------
(* The audit entry. *)

\* archiveTask reads the stored value back.
Persisted(j) == jobs[j].op \in ArchiveOps => jobs[j].stored

\* ARCHIVE_NOT_PERSISTED
ArchiveNotPersisted(j) ==
    /\ jobs[j].at = "append"
    /\ ~Persisted(j)
    /\ KanbanEnds(j)
    /\ UNCHANGED <<card, trail, seen, excuses>>

\* The trail with the entry of a request.
EntryWithoutReview(j) ==                                        \* mutant
    [w \in Words |-> IF w \in Records(jobs[j].op) /\ jobs[j].op # "approve"
                     THEN jobs[j].want ELSE trail[w]]
TrailEntry(j) ==
    [w \in Words |-> IF w \in Records(jobs[j].op) THEN jobs[j].want ELSE trail[w]]

\* recordActivity.  History: an entry that arrives after a later write.
Append(j) ==
    /\ jobs[j].at = "append"
    /\ Persisted(j)
    /\ trail' = TrailEntry(j)
    /\ LET told == Records(jobs[j].op) IN
         excuses' = (excuses \ told) \cup {w \in told : jobs[j].want # card[w]}
    /\ jobs' = [jobs EXCEPT ![j].at = "finish", ![j].want = None]
    /\ UNCHANGED <<card, seen>>

\* A failed append is only logged.
AppendFails(j) ==
    /\ jobs[j].at = "append"
    /\ Persisted(j)
    /\ excuses' = excuses \cup Records(jobs[j].op)
    /\ jobs' = [jobs EXCEPT ![j].at = "finish", ![j].want = None]
    /\ UNCHANGED <<card, trail, seen>>

-----------------------------------------------------------------------------
(* Mails and events. *)

\* The kanban-update event, and the answer.  (A mail that fails after a move is
\* only logged.)
FinishQuietly(j) ==                                             \* mutant
    /\ jobs[j].at = "finish"
    /\ KanbanEnds(j)
    /\ seen' = IF jobs[j].op \in ArchiveOps THEN seen ELSE TRUE
    /\ excuses' = IF jobs[j].op \in ArchiveOps THEN excuses ELSE excuses \ {"windows"}
    /\ UNCHANGED <<card, trail>>
Finish(j) ==
    /\ jobs[j].at = "finish"
    /\ KanbanEnds(j)
    /\ seen' = TRUE
    /\ excuses' = excuses \ {"windows"}
    /\ UNCHANGED <<card, trail>>

\* The mails of an approval or a rejection are not guarded: the request fails
\* after the card has moved, and no event is sent.
ReviewMailFails(j) ==
    /\ jobs[j].at = "finish"
    /\ jobs[j].op \in {"approve", "reject"}
    /\ KanbanEnds(j)
    /\ excuses' = excuses \cup {"windows"}
    /\ UNCHANGED <<card, trail, seen>>

\* The requests ops, by themselves.
KanbanNextOf(ops) ==
    \/ \E j \in Jobs, op \in ops : ReadCard(j, op)
    \/ \E j \in Jobs : CreateCard(j)
    \/ \E j \in Jobs : WriteCard(j)
    \/ \E j \in Jobs : WriteFails(j)
    \/ \E j \in Jobs : AnswerLost(j)
    \/ \E j \in Jobs : ArchiveNotPersisted(j)
    \/ \E j \in Jobs : Append(j)
    \/ \E j \in Jobs : AppendFails(j)
    \/ \E j \in Jobs : Finish(j)
    \/ \E j \in Jobs : ReviewMailFails(j)

KanbanNext == KanbanNextOf(KanbanOps)

KanbanSpec == KanbanInit /\ [][KanbanNext]_kanbanVars

-----------------------------------------------------------------------------
(* Properties. *)

\* The trail's last words on the card's status and on its assignee are true,
\* unless an entry on that is still to come, was lost, or was overtaken by another
\* request's (or, for the assignee, the card was created with it); and no archive
\* is recorded or announced that the store did not keep.
TrailIsTrue ==
    /\ \A w \in Words :
         trail[w] # card[w]
             => \/ w \in excuses
                \/ \E j \in Jobs : jobs[j].at = "append" /\ w \in Records(jobs[j].op)
    /\ \A j \in Jobs :
         jobs[j].op \in ArchiveOps /\ jobs[j].at = "finish" => jobs[j].stored

\* The windows are told of every change, unless its request failed after the
\* write; a later event makes up for it (windows read the board again).
WindowsAreTold ==
    ~seen => "windows" \in excuses
             \/ \E j \in Jobs : jobs[j].at \in {"append", "finish"} /\ jobs[j].stored
=============================================================================
