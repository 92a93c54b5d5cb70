---------------------------- MODULE ReviewEmails ----------------------------
(***************************************************************************)
(* The Celery task that emails the people interested in a location about a *)
(* new review (src/apps/notifications: tasks.py, services.py), from the    *)
(* moment create_review has published it.                                  *)
(*                                                                         *)
(* A task is acknowledged when a worker takes it, not when it is done      *)
(* (Celery's default), so a worker that is killed loses it.  An            *)
(* SMTPException makes the worker publish the task again, MaxRetries times *)
(* at most, which fails when the broker is down; any other exception is    *)
(* final.  A run that is repeated starts from the beginning: it reads the  *)
(* review and the recipients again and writes to all of them.  The SMTP    *)
(* server may accept a message and fail to say so.  Tasks of different     *)
(* reviews run concurrently.  A form of the administration can bring back  *)
(* a location that was soft-deleted, and save a deleted review back.       *)
(***************************************************************************)
EXTENDS Integers, Sequences, FiniteSets, SequencesExt

CONSTANTS
    Users,
    Author,         \* the author of the location
    Reviews,        \* reviews of the location
    Reviewer,       \* Reviewer[r]: the author of review r
    MaxRetries,     \* max_retries of the task
    MaxSmtpErrors,  \* bound on the SMTPExceptions
    Events          \* what else can happen

ASSUME UsersAssumption == IsFiniteSet(Users)
ASSUME AuthorAssumption == Author \in Users
ASSUME ReviewerAssumption == Reviewer \in [Reviews -> Users]
ASSUME RetriesAssumption == MaxRetries \in Nat /\ MaxSmtpErrors \in Nat
ASSUME EventsAssumption ==
    Events \subseteq {"subscriptions", "users", "delete", "save back", "soft delete", "restore",
                      "error", "broker", "crash"}

VARIABLES
    subscribed,  \* users with a LocationSubscription
    reachable,   \* active users with an email address
    rows,        \* the reviews in the database
    alive,       \* the location is not soft-deleted
    task,        \* the task of each review
    smtpErrors,  \* SMTPExceptions so far
    mail,        \* mail[u][r]: messages about r in u's mailbox
    wanted       \* history: location author and subscribers at some time since r was published

vars == <<subscribed, reachable, rows, alive, task, smtpErrors, mail, wanted>>
dbVars == <<subscribed, reachable, rows, alive, wanted>>

Running == {"taken", "loaded", "connect", "sending"}
Steps == {"none", "queued", "done", "failed", "error", "dropped", "lost"} \union Running
\* todo: who is still to be written to.  late is history: the review was deleted, or
\* its location, when the worker took the task, and ever since.
Task == [step : Steps, retries : 0 .. MaxRetries, todo : Seq(Users), late : BOOLEAN]

Init ==
    /\ subscribed \in SUBSET Users
    /\ reachable = Users
    /\ rows = {} /\ alive = TRUE
    /\ task = [r \in Reviews |-> [step |-> "none", retries |-> 0, todo |-> <<>>, late |-> FALSE]]
    /\ smtpErrors = 0
    /\ mail = [u \in Users |-> [r \in Reviews |-> 0]]
    /\ wanted = [r \in Reviews |-> {}]

-----------------------------------------------------------------------------
(* The query of the task and recipients_for_review.                        *)

\* .filter(pk=review_id, location__is_deleted=False).first() is None
Gone(r) == r \notin rows \/ ~alive

\* Mutants of Recipients: without the set of those seen; with the reviewer.
RecipientsRepeated(r, subscribers) ==
    SelectSeq(<<Author>> \o subscribers, LAMBDA u : u # Reviewer[r] /\ u \in reachable)
RecipientsAndReviewer(r, subscribers) ==
    SetToSeq((ToSet(subscribers) \union {Author}) \intersect reachable)

\* One turn of the loop: u is skipped who is in seen (was collected, or is the
\* reviewer), or cannot be written to.
Consider(r, recipients, u) ==
    IF u \in ToSet(recipients) \union {Reviewer[r]} \/ u \notin reachable THEN recipients
    ELSE Append(recipients, u)

\* The loop: the candidates are the location author, then the subscribers;
\* collected[n] are the recipients after the first n of them.
Recipients(r, subscribers) ==
    LET candidates == <<Author>> \o subscribers
        collected[n \in 0 .. Len(candidates)] ==
            IF n = 0 THEN <<>> ELSE Consider(r, collected[n - 1], candidates[n])
    IN  collected[Len(candidates)]

-----------------------------------------------------------------------------
(* The task.                                                               *)

At(r, step) == task[r].step = step

Goto(r, step) == task' = [task EXCEPT ![r] = [task[r] EXCEPT !.step = step]]

\* The run is over, as far as it got.
End(r, step) == task' = [task EXCEPT ![r] = [task[r] EXCEPT !.step = step, !.todo = <<>>]]

Receive(u, r) == mail' = [mail EXCEPT ![u] = [mail[u] EXCEPT ![r] = mail[u][r] + 1]]

\* The review was committed and its task published; the location may have been
\* soft-deleted since the request looked it up.
Publish(r) ==
    /\ At(r, "none")
    /\ rows' = rows \union {r}
    /\ wanted' = [wanted EXCEPT ![r] = subscribed \union {Author}]
    /\ Goto(r, "queued")
    /\ UNCHANGED <<subscribed, reachable, alive, smtpErrors, mail>>

\* A worker takes and acknowledges the task.
Take(r) ==
    /\ At(r, "queued")
    /\ task' = [task EXCEPT ![r] = [task[r] EXCEPT !.step = "taken", !.late = Gone(r)]]
    /\ UNCHANGED <<dbVars, smtpErrors, mail>>

\* Mutant of Load: the review is looked up without the soft-delete filter.
LoadHidden(r) ==
    /\ At(r, "taken")
    /\ Goto(r, IF r \notin rows THEN "done" ELSE "loaded")
    /\ UNCHANGED <<dbVars, smtpErrors, mail>>

\* The query of the task; nothing to do when the review is gone.
Load(r) ==
    /\ At(r, "taken")
    /\ Goto(r, IF Gone(r) THEN "done" ELSE "loaded")
    /\ UNCHANGED <<dbVars, smtpErrors, mail>>

\* The messages are rendered, for the subscribers in the order of their rows, which
\* the set of them leaves open; without any there is nothing to send.
Collect(r) ==
    /\ At(r, "loaded")
    /\ \E subscribers \in SetToSeqs(subscribed) :
        task' = [task EXCEPT ![r] = [task[r] EXCEPT
            !.todo = Recipients(r, subscribers),
            !.step = IF Recipients(r, subscribers) = <<>> THEN "done" ELSE "connect"]]
    /\ UNCHANGED <<dbVars, smtpErrors, mail>>

\* send_mass_mail opens one connection for all messages.
Connect(r) ==
    /\ At(r, "connect")
    /\ Goto(r, "sending")
    /\ UNCHANGED <<dbVars, smtpErrors, mail>>

Deliver(r) ==
    /\ At(r, "sending")
    /\ Receive(Head(task[r].todo), r)
    /\ task' = [task EXCEPT ![r] = [task[r] EXCEPT
           !.todo = Tail(task[r].todo),
           !.step = IF Tail(task[r].todo) = <<>> THEN "done" ELSE "sending"]]
    /\ UNCHANGED <<dbVars, smtpErrors>>

\* Mutants of Retry: one retry too many; one too few.
RetryOnceMore(r) ==
    task' = [task EXCEPT ![r] =
        IF task[r].retries <= MaxRetries
        THEN [task[r] EXCEPT !.step = "queued", !.retries = task[r].retries + 1, !.todo = <<>>]
        ELSE [task[r] EXCEPT !.step = "failed", !.todo = <<>>]]
RetryOnceLess(r) ==
    task' = [task EXCEPT ![r] =
        IF task[r].retries + 1 < MaxRetries
        THEN [task[r] EXCEPT !.step = "queued", !.retries = task[r].retries + 1, !.todo = <<>>]
        ELSE [task[r] EXCEPT !.step = "failed", !.todo = <<>>]]

\* autoretry_for=(SMTPException,), max_retries
Retry(r) ==
    task' = [task EXCEPT ![r] =
        IF task[r].retries < MaxRetries
        THEN [task[r] EXCEPT !.step = "queued", !.retries = task[r].retries + 1, !.todo = <<>>]
        ELSE [task[r] EXCEPT !.step = "failed", !.todo = <<>>]]

\* The broker does not accept the repetition: Task.retry rejects the task.
Drop(r) == "broker" \in Events /\ task[r].retries < MaxRetries /\ End(r, "dropped")

\* The messages before an error are sent, and the one it is about may be.
Interrupted(r) == UNCHANGED mail \/ (At(r, "sending") /\ Receive(Head(task[r].todo), r))

\* An SMTPException, from the connection or from a message.
SmtpError(r) ==
    /\ smtpErrors < MaxSmtpErrors
    /\ smtpErrors' = smtpErrors + 1
    /\ task[r].step \in {"connect", "sending"} /\ Interrupted(r)
    /\ Retry(r) \/ Drop(r)
    /\ UNCHANGED dbVars

\* Any other exception: of the database, of a title that makes no header, of a server
\* that does not listen (ConnectionRefusedError is an OSError) or does not answer.
OtherError(r) ==
    /\ "error" \in Events /\ task[r].step \in Running
    /\ Interrupted(r)
    /\ End(r, "error")
    /\ UNCHANGED <<dbVars, smtpErrors>>

\* The worker process is killed.
Crash(r) ==
    /\ "crash" \in Events /\ task[r].step \in Running
    /\ End(r, "lost")
    /\ UNCHANGED <<dbVars, smtpErrors, mail>>

-----------------------------------------------------------------------------
(* The API and the administrators meanwhile.                               *)

Subscribe(u) ==
    /\ "subscriptions" \in Events /\ u \notin subscribed
    /\ subscribed' = subscribed \union {u}
    /\ wanted' = [r \in Reviews |-> IF At(r, "none") THEN {} ELSE wanted[r] \union {u}]
    /\ UNCHANGED <<reachable, rows, alive, task, smtpErrors, mail>>

Unsubscribe(u) ==
    /\ "subscriptions" \in Events /\ u \in subscribed
    /\ subscribed' = subscribed \ {u}
    /\ UNCHANGED <<reachable, rows, alive, task, smtpErrors, mail, wanted>>

Deactivate(u) ==
    /\ "users" \in Events /\ u \in reachable
    /\ reachable' = reachable \ {u}
    /\ UNCHANGED <<subscribed, rows, alive, task, smtpErrors, mail, wanted>>

DeleteReview(r) ==
    /\ "delete" \in Events /\ r \in rows
    /\ rows' = rows \ {r}
    /\ UNCHANGED <<subscribed, reachable, alive, task, smtpErrors, mail, wanted>>

SoftDelete ==
    /\ "soft delete" \in Events /\ alive
    /\ alive' = FALSE
    /\ UNCHANGED <<subscribed, reachable, rows, task, smtpErrors, mail, wanted>>

\* History: no task of these reviews is late any more.
Back(rs) == task' = [r \in Reviews |-> [task[r] EXCEPT !.late = task[r].late /\ r \notin rs]]

\* The form of a review was rendered before its deletion: save() inserts the row again.
SaveBack(r) ==
    /\ "save back" \in Events /\ ~At(r, "none") /\ r \notin rows
    /\ rows' = rows \union {r}
    /\ Back(IF alive THEN {r} ELSE {})
    /\ UNCHANGED <<subscribed, reachable, alive, smtpErrors, mail, wanted>>

\* The form of the location clears is_deleted.
Restore ==
    /\ "restore" \in Events /\ ~alive
    /\ alive' = TRUE
    /\ Back(rows)
    /\ UNCHANGED <<subscribed, reachable, rows, smtpErrors, mail, wanted>>

-----------------------------------------------------------------------------
\* What a running worker does when nothing goes wrong.
Work(r) == Take(r) \/ Load(r) \/ Collect(r) \/ Connect(r) \/ Deliver(r)

Next ==
    \/ \E r \in Reviews :
        \/ Publish(r) \/ Work(r) \/ SmtpError(r) \/ OtherError(r) \/ Crash(r)
        \/ DeleteReview(r) \/ SaveBack(r)
    \/ \E u \in Users : Subscribe(u) \/ Unsubscribe(u) \/ Deactivate(u)
    \/ SoftDelete \/ Restore

Spec == Init /\ [][Next]_vars

\* The worker consumes its queue and goes on with what it has taken.
FairSpec == Spec /\ \A r \in Reviews : WF_vars(Work(r))

-----------------------------------------------------------------------------
(* Properties.                                                             *)

\* Every variable has its type; retries stay within max_retries.
TypeOK ==
    /\ subscribed \subseteq Users /\ reachable \subseteq Users
    /\ rows \subseteq Reviews /\ alive \in BOOLEAN
    /\ smtpErrors \in 0 .. MaxSmtpErrors
    /\ mail \in [Users -> [Reviews -> Nat]]
    /\ wanted \in [Reviews -> SUBSET Users]
    /\ task \in [Reviews -> Task]

\* Who is to be written to about r: recipients_for_review's docstring.
Interested(r) == ((subscribed \union {Author}) \ {Reviewer[r]}) \intersect reachable

\* The loop of recipients_for_review does what its docstring says: whatever the order
\* of the subscribers, it collects the location author and the subscribers, without
\* the reviewer and without who cannot be written to, each of them once.
EachInterestedOnce ==
    \A r \in Reviews : \A subscribers \in SetToSeqs(subscribed) :
        /\ ToSet(Recipients(r, subscribers)) = Interested(r)
        /\ IsInjective(Recipients(r, subscribers))

\* However often the task is repeated, a user gets one message per run at most:
\* recipients_for_review names each user once, a location author who also
\* subscribed included, and a run stops at the first error.
OneMessagePerRun ==
    \A u \in Users, r \in Reviews : mail[u][r] <= task[r].retries + 1

\* A message about a review goes only to people who were its location's author or
\* subscribers at some time since it was published, and never to who wrote it.
OnlyToTheInterested ==
    \A u \in Users, r \in Reviews :
        mail[u][r] > 0 => u \in wanted[r] /\ u # Reviewer[r]

\* A run, the first or a repeated one, sends nothing about a review that was deleted,
\* or whose location was, when the worker took the task, unless it was brought back
\* after that: what the request saw that published the task does not count.
NothingAboutTheDeleted ==
    [][\A u \in Users, r \in Reviews : mail'[u][r] # mail[u][r] => ~task[r].late]_vars

\* While the SMTPExceptions are no more than max_retries, who is to be written to
\* is written to, unless the review is deleted or the user leaves: the retries make
\* up for SMTPExceptions, and for nothing else.  A lost worker, a broker that does not
\* accept the repetition, and any other exception are final.
EveryRecipientServed ==
    \A u \in Users, r \in Reviews :
        (At(r, "queued") /\ u \in Interested(r))
            ~> \/ mail[u][r] > 0
               \/ Gone(r) \/ u \notin Interested(r)
               \/ smtpErrors > MaxRetries \/ task[r].step \in {"lost", "dropped", "error"}
=============================================================================
