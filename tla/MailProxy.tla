------------------------------- MODULE MailProxy -------------------------------
(***************************************************************************)
(* src/api/routes/mailProxy.ts: the requests that are one call to the      *)
(* cloud (send, mark read, read, list agents, one inbox), and the inboxes  *)
(* of many agents, fetched by a pool of workers over a shared cursor.      *)
(*                                                                         *)
(* A call asks for a token, fetches (10 s), and on a 401 refreshes the     *)
(* token and fetches once more.  Mail contents, query strings and the      *)
(* project stamp are left out.                                             *)
(***************************************************************************)
EXTENDS Integers

CONSTANTS
    Mails,       \* what clients want done by one call; a client may try again
    TryBound,    \* requests made for one of them (model bound)
    Pool,        \* workers of an inboxes request (4 in the code)
    BatchBound   \* agents in an inboxes request (model bound)

ASSUME MailAssumption ==
    TryBound \in Nat /\ Pool \in Nat \ {0} /\ BatchBound \in Nat

VARIABLES
    mails,    \* what has become of each
    batch     \* the inboxes request in progress

mailVars == <<mails, batch>>

Routes == {"send", "mark", "read", "agents", "inbox"}

\* What a route answers: "transient" is the 503 that says "Retry this exact
\* call"; "inactive" the SESSION_INACTIVE of the cloud as it is.
Answers == {"none", "ok", "empty", "transient", "inactive", "unauthenticated",
            "upstream", "proxy"}

\* `asked` and `again` are the two fetches; `accepted` counts the times the cloud
\* did what the mail asks for, and `lost` the answers to that which never came.
Mail == [op : {"none"} \cup Routes, at : {"idle", "asked", "again", "accepted", "answered"},
         answer : Answers, tries : 0..TryBound, accepted : 0..TryBound, lost : 0..TryBound]

NoMail == [op |-> "none", at |-> "idle", answer |-> "none",
           tries |-> 0, accepted |-> 0, lost |-> 0]

\* `next` is the cursor and `of` the number of agents; a worker holds the agent
\* it is asking for (0: it has ended).
Inboxes == {"none", "messages", "empty", "error"}
Batch == [of : 0..BatchBound, next : 1..(BatchBound + 1), worker : [1..Pool -> 0..BatchBound],
          inbox : [1..BatchBound -> Inboxes], answer : {"none", "ok", "unauthenticated"}]

NoBatch == [of |-> 0, next |-> 1, worker |-> [w \in 1..Pool |-> 0],
            inbox |-> [a \in 1..BatchBound |-> "none"], answer |-> "none"]

MailTypeOK ==
    /\ mails \in [Mails -> Mail]
    /\ batch \in Batch

MailInit ==
    /\ mails = [m \in Mails |-> NoMail]
    /\ batch = NoBatch

-----------------------------------------------------------------------------
(* Requests of one call. *)

\* The answers the routes make of an error of the cloud.
ErrorAnswers(op) ==
    CASE op \in {"send", "mark", "read"} -> {"transient", "upstream"}
      [] op = "inbox"                    -> {"empty", "inactive", "upstream"}
      [] op = "agents"                   -> {"inactive", "upstream"}

MailAnswered(m, answer) ==
    mails' = [mails EXCEPT ![m].at = "answered", ![m].answer = answer]

MailRequest(m, op) ==
    /\ mails[m].at \in {"idle", "answered"}
    /\ mails[m].op \in {"none", op}
    /\ mails[m].answer \notin {"ok", "empty"}
    /\ mails[m].tries < TryBound
    /\ mails' = [mails EXCEPT ![m].op = op, ![m].at = "asked", ![m].answer = "none",
                              ![m].tries = @ + 1]
    /\ UNCHANGED batch

\* No token, or none after a 401.
MailUnauthenticated(m) ==
    /\ mails[m].at = "asked"
    /\ MailAnswered(m, "unauthenticated")
    /\ UNCHANGED batch

\* 401, and a refreshed token.  An attempt that ends in anything else, a timeout
\* too, is not repeated.
MailAgainAfterTimeout(m) ==                                     \* mutant
    /\ mails[m].at \in {"asked", "accepted"}
    /\ mails' = [mails EXCEPT ![m].at = "again"]
    /\ UNCHANGED batch
MailAgain(m) ==
    /\ mails[m].at = "asked"
    /\ mails' = [mails EXCEPT ![m].at = "again"]
    /\ UNCHANGED batch

\* The cloud does it; its answer is on the way.
MailAccepted(m) ==
    /\ mails[m].at \in {"asked", "again"}
    /\ mails' = [mails EXCEPT ![m].at = "accepted", ![m].accepted = @ + 1]
    /\ UNCHANGED batch

\* The answer arrives and is passed on.  The hooks of a send (a contract that is
\* done, the party engine) run when the client has its answer already.
MailReported(m) ==
    /\ mails[m].at = "accepted"
    /\ MailAnswered(m, "ok")
    /\ UNCHANGED batch

\* Timeout or connection lost, before or after the cloud did it; or what answers
\* is a gateway on the way.
MailLost(m) ==
    /\ mails[m].at \in {"asked", "again", "accepted"}
    /\ \E answer \in {"proxy", "upstream"} :
         mails' = [mails EXCEPT ![m].at = "answered", ![m].answer = answer,
                                ![m].lost = IF mails[m].at = "accepted" THEN @ + 1 ELSE @]
    /\ UNCHANGED batch

MailRefused(m) ==
    /\ mails[m].at \in {"asked", "again"}
    /\ \E answer \in ErrorAnswers(mails[m].op) : MailAnswered(m, answer)
    /\ UNCHANGED batch

-----------------------------------------------------------------------------
(* The pool. *)

\* GET /inboxes: every worker takes an agent before any of them waits.
BatchRequest(n) ==
    /\ batch = NoBatch
    /\ batch' = [NoBatch EXCEPT !.of = n, !.next = IF n < Pool THEN n + 1 ELSE Pool + 1,
                                !.worker = [w \in 1..Pool |-> IF w <= n THEN w ELSE 0]]
    /\ UNCHANGED mails

\* A worker has an inbox, of whatever kind, and takes the next agent or ends.
WorkerFinds(w, kind) ==
    /\ batch.worker[w] # 0
    /\ batch' = [batch EXCEPT !.inbox[batch.worker[w]] = kind,
                              !.worker[w] = IF batch.next <= batch.of THEN batch.next ELSE 0,
                              !.next = IF batch.next <= batch.of THEN @ + 1 ELSE @]
    /\ UNCHANGED mails

\* No token: the request fails at once; the other workers go on.
WorkerGivesUp(w) ==                                             \* mutant
    /\ batch.worker[w] # 0
    /\ batch' = [batch EXCEPT !.worker[w] = 0]
    /\ UNCHANGED mails
WorkerUnauthenticated(w) ==
    /\ batch.worker[w] # 0
    /\ batch' = [batch EXCEPT !.worker[w] = 0, !.answer = "unauthenticated"]
    /\ UNCHANGED mails

\* All workers have ended well.
BatchAnswered ==
    /\ batch.of # 0 /\ batch.answer = "none"
    /\ \A w \in 1..Pool : batch.worker[w] = 0
    /\ batch' = [batch EXCEPT !.answer = "ok"]
    /\ UNCHANGED mails

BatchGone ==
    /\ batch.answer # "none"
    /\ \A w \in 1..Pool : batch.worker[w] = 0
    /\ batch' = NoBatch
    /\ UNCHANGED mails

MailNext ==
    \/ \E m \in Mails, op \in Routes : MailRequest(m, op)
    \/ \E m \in Mails : MailUnauthenticated(m)
    \/ \E m \in Mails : MailAgain(m)
    \/ \E m \in Mails : MailAccepted(m)
    \/ \E m \in Mails : MailReported(m)
    \/ \E m \in Mails : MailLost(m)
    \/ \E m \in Mails : MailRefused(m)
    \/ \E n \in 1..BatchBound : BatchRequest(n)
    \/ \E w \in 1..Pool, kind \in Inboxes \ {"none"} : WorkerFinds(w, kind)
    \/ \E w \in 1..Pool : WorkerUnauthenticated(w)
    \/ BatchAnswered
    \/ BatchGone

MailSpec == MailInit /\ [][MailNext]_mailVars

-----------------------------------------------------------------------------
(* Properties. *)

\* "returns EVERY inbox ..., no agent lost": a batch that is answered well has an
\* inbox for each agent; until then an agent is still to be taken, is asked for
\* by exactly one worker, or has its inbox - or the request has failed whole.
InboxesComplete ==
    /\ batch.answer = "ok" => \A a \in 1..batch.of : batch.inbox[a] # "none"
    /\ \A a \in 1..batch.of :
         LET askers == {w \in 1..Pool : batch.worker[w] = a} IN
         /\ \A v, w \in askers : v = w
         /\ batch.inbox[a] # "none" => askers = {}
         /\ batch.inbox[a] = "none" /\ askers = {} /\ a < batch.next
                => batch.answer = "unauthenticated"

\* A client that tries again what did not succeed (as the transient 503 tells it
\* to) has it done twice only if an answer to it was lost on the way to the client;
\* the sidecar's own second attempt never does it twice.
RetryIsSafe == \A m \in Mails : mails[m].accepted <= mails[m].lost + 1
=============================================================================
