------------------------------ MODULE Reviews ------------------------------
(***************************************************************************)
(* Reviews and their votes as concurrent HTTP requests change them         *)
(* (src/apps/reviews: views.py, services.py, selectors.py, models.py,      *)
(* admin.py), against the soft deletion of the location they belong to.    *)
(*                                                                         *)
(* No view runs in a transaction of its own: a request is a sequence of    *)
(* statements that other requests interleave with, and only the blocks     *)
(* under transaction.atomic and Django's cascading delete group several.   *)
(* Every statement of a request is a step.  PostgreSQL runs at READ        *)
(* COMMITTED and checks the foreign keys Django declares when a            *)
(* transaction commits.  A form of the administration is one transaction,  *)
(* whose statements see what others commit meanwhile.                      *)
(*                                                                         *)
(* A committed change of a review runs the hook that refreshes the list    *)
(* cache (ListCache), whose error ends the request; the emails a published *)
(* task sends are those of ReviewEmails.                                   *)
(***************************************************************************)
EXTENDS Integers, FiniteSets

CONSTANTS
    Requests,    \* slots for requests being served at the same time
    Users,       \* authenticated users
    Staff,       \* those with is_staff
    Locations,
    Contents,    \* values of a rating or a text
    MaxReviews,  \* bound on the reviews ever created
    Ops,         \* the operations clients ask for
    Events       \* what else can happen

Forms == {"formCreate", "formEdit", "formDelete"}
Operations == {"create", "update", "delete", "vote", "unvote"} \union Forms

ASSUME PeopleAssumption == Users # {} /\ Staff \subseteq Users /\ Locations # {}
ASSUME BoundsAssumption == IsFiniteSet(Requests) /\ MaxReviews \in Nat
ASSUME OpsAssumption == Ops \subseteq Operations
ASSUME EventsAssumption == Events \subseteq {"soft delete", "restore", "broker", "cache", "crash"}

VARIABLES
    alive,     \* the locations with is_deleted = FALSE
    reviews,   \* the review rows by primary key
    lastPk,    \* the last primary key given to a review
    votes,     \* the vote rows
    brokerUp,  \* FALSE: publishing a Celery task raises
    tasks,     \* history: reviews whose send_new_review_emails was published
    hidden,    \* history: requests for what was hidden when they came and ever since
    shaken,    \* history: requests that met an outage, or another's change of their rows
    request    \* the state of each request

vars == <<alive, reviews, lastPk, votes, brokerUp, tasks, hidden, shaken, request>>
tables == <<alive, reviews, lastPk, votes>>
rest == <<brokerUp, tasks, hidden, shaken>>

Fields == {"rating", "text"}
Pks == 1 .. MaxReviews
Review == [loc : Locations, author : Users, body : [Fields -> Contents]]
Vote == [review : Pks, user : Users]
\* What a PATCH or a form changes: any of the fields, each to a new value.
Patches == UNION {[fields -> Contents] : fields \in SUBSET Fields}

Statuses == {200, 201, 204, 400, 403, 404, 409, 500}
NoAnswer == 0
\* pk, loc, patch: what the client named; copy: the row a form was rendered with, and
\* then the row it saves; swept: the votes a delete has removed.
Request == [
    step   : {"idle", "location", "check", "insert", "review", "save", "sweep", "remove",
              "unvote", "form", "cache", "publish", "read", "done"},
    op     : Operations \union {"none"},
    user   : Users,
    loc    : Locations,
    pk     : Pks \union {0},
    patch  : Patches,
    copy   : Review \union {<<>>},
    swept  : SUBSET Vote,
    status : Statuses \union {NoAnswer}]
IdleRequest == [step |-> "idle", op |-> "none", user |-> CHOOSE u \in Users : TRUE,
                loc |-> CHOOSE l \in Locations : TRUE, pk |-> 0, patch |-> <<>>,
                copy |-> <<>>, swept |-> {}, status |-> NoAnswer]

Init ==
    /\ alive = Locations
    /\ reviews = <<>> /\ lastPk = 0 /\ votes = {}
    /\ brokerUp = TRUE /\ tasks = {}
    /\ hidden = {} /\ shaken = {}
    /\ request = [p \in Requests |-> IdleRequest]

-----------------------------------------------------------------------------
(* The tables.                                                             *)

VotesOn(pk) == {v \in votes : v.review = pk}

\* Mutant of Visible: the manager of Review does not hide soft-deleted locations.
VisibleAnyway(pk) == pk \in DOMAIN reviews

\* reviews_with_votes().filter(pk=pk): reviews of alive locations only.
Visible(pk) == pk \in DOMAIN reviews /\ reviews[pk].loc \in alive

\* Another review than pk by this user of this location.
Taken(l, u, pk) == \E k \in DOMAIN reviews \ {pk} : reviews[k].loc = l /\ reviews[k].author = u

\* The table with the row, new or in place of the old one; and without it.
Put(pk, row) == [k \in DOMAIN reviews \union {pk} |-> IF k = pk THEN row ELSE reviews[k]]
Without(pk) == [k \in DOMAIN reviews \ {pk} |-> reviews[k]]
Patched(body, patch) == [f \in Fields |-> IF f \in DOMAIN patch THEN patch[f] ELSE body[f]]

\* A vote row that a delete in progress has removed but not committed: another
\* statement that touches it waits.
Locked(v) == \E p \in Requests : request[p].step = "remove" /\ v \in request[p].swept

\* IsOwnerOrAdmin
MayWrite(u, pk) == u \in Staff \/ reviews[pk].author = u

-----------------------------------------------------------------------------
(* Requests.                                                               *)

At(p, op, step) == request[p].op = op /\ request[p].step = step
Becomes(p, q) == request' = [request EXCEPT ![p] = q]
Goto(p, step) == Becomes(p, [request[p] EXCEPT !.step = step])

\* The response; the slot keeps what the properties ask of a finished request.
Answer(p, status) ==
    Becomes(p, [IdleRequest EXCEPT !.step = "done", !.op = request[p].op, !.status = status,
                                   !.pk = IF status = 201 THEN request[p].pk ELSE 0])

Free(p) == request[p].step \in {"idle", "done"}
Creates(p) == request[p].op \in {"create", "formCreate"}

\* A create that may still insert a row: MaxReviews leaves room for it.
Unsaved(p) == Creates(p) /\ request[p].step \in {"location", "check", "insert"}

\* The history of a request begins.
Begin(p, isHidden) ==
    /\ hidden' = IF isHidden THEN hidden \union {p} ELSE hidden \ {p}
    /\ shaken' = shaken \ {p}

\* POST /locations/{l}/reviews/, or the administrator's form for any author.
SendCreate(p, op, u, l) ==
    /\ Free(p) /\ op \in Ops
    /\ lastPk + Cardinality({x \in Requests : Unsaved(x)}) < MaxReviews
    /\ Becomes(p, [IdleRequest EXCEPT !.step = "location", !.op = op, !.user = u, !.loc = l])
    /\ Begin(p, op = "create" /\ l \notin alive)
    /\ UNCHANGED <<tables, brokerUp, tasks>>

\* PATCH or DELETE /reviews/{pk}/, POST or DELETE /reviews/{pk}/vote/, or a form.
SendOn(p, op, u, pk, patch) ==
    /\ Free(p) /\ op \in Ops /\ pk <= lastPk
    /\ op \in Forms => u \in Staff
    /\ Becomes(p, [IdleRequest EXCEPT !.step = "review", !.op = op, !.user = u, !.pk = pk,
                                      !.patch = patch])
    /\ Begin(p, op \notin Forms /\ (pk \in DOMAIN reviews => reviews[pk].loc \notin alive))
    /\ UNCHANGED <<tables, brokerUp, tasks>>

\* Mutant of GetLocation: soft-deleted locations are found too.
GetAnyLocation(p) ==
    /\ Creates(p) /\ request[p].step = "location"
    /\ Goto(p, "check")
    /\ UNCHANGED <<tables, rest>>

\* LocationReviewViewSet.location, or the choices of the form: alive ones only.
GetLocation(p) ==
    /\ Creates(p) /\ request[p].step = "location"
    /\ IF request[p].loc \in alive THEN Goto(p, "check")
       ELSE Answer(p, IF request[p].op = "create" THEN 404 ELSE 400)
    /\ UNCHANGED <<tables, rest>>

\* is_valid(raise_exception=True), and the other fields of a form: a create is looked at
\* before its location, every other request after its review.
RejectBody(p) ==
    /\ \/ Creates(p) /\ request[p].step = "location"
       \/ At(p, "update", "save") \/ At(p, "vote", "check")
       \/ At(p, "formEdit", "form") /\ request[p].pk \in DOMAIN reviews
    /\ Answer(p, 400)
    /\ UNCHANGED <<tables, rest>>

NextStep == [update |-> "save", delete |-> "sweep", vote |-> "check", unvote |-> "unvote",
             formEdit |-> "form", formDelete |-> "sweep"]

\* get_object: 404 unless visible; PATCH and DELETE check the author.  The
\* administration shows any row; a form is rendered with its values.
GetReview(p) ==
    LET q == request[p] IN
    /\ q.step = "review"
    /\ IF ~(IF q.op \in Forms THEN q.pk \in DOMAIN reviews ELSE Visible(q.pk)) THEN Answer(p, 404)
       ELSE IF q.op \in {"update", "delete"} /\ ~MayWrite(q.user, q.pk) THEN Answer(p, 403)
       ELSE Becomes(p, [q EXCEPT !.step = NextStep[q.op],
                                 !.copy = IF q.op \in {"update", "formEdit"} THEN reviews[q.pk] ELSE <<>>])
    /\ UNCHANGED <<tables, rest>>

\* create_review: the exists() check before the insert.  A form finds the same.
CheckReview(p) ==
    /\ Creates(p) /\ request[p].step = "check"
    /\ IF Taken(request[p].loc, request[p].user, 0)
       THEN Answer(p, IF request[p].op = "create" THEN 409 ELSE 400)
       ELSE Goto(p, "insert")
    /\ UNCHANGED <<tables, rest>>

\* History: forms about to save a review of the same author and location.
Rivals(l, u) ==
    {p \in Requests :
        \/ At(p, "formCreate", "insert") /\ request[p].loc = l /\ request[p].user = u
        \/ At(p, "formEdit", "save") /\ request[p].copy.loc = l /\ request[p].copy.author = u}

\* History: the other requests for the same review.
Others(p) == {x \in Requests \ {p} : ~Free(x) /\ request[x].pk = request[p].pk}

\* Mutant of InsertReview: the key is the number of rows plus one, not a sequence's.
InsertReviewCounting(p, body) ==
    LET q == request[p]
        pk == Cardinality(DOMAIN reviews) + 1
    IN
    /\ Creates(p) /\ q.step = "insert" /\ ~Taken(q.loc, q.user, 0)
    /\ reviews' = Put(pk, [loc |-> q.loc, author |-> q.user, body |-> body])
    /\ Becomes(p, [q EXCEPT !.step = "cache", !.pk = pk])
    /\ UNCHANGED <<alive, lastPk, votes, rest>>

\* Mutant of InsertReview: the violated constraint is not recognised.
InsertReviewUnmapped(p, body) ==
    LET q == request[p] IN
    /\ Creates(p) /\ q.step = "insert"
    /\ IF Taken(q.loc, q.user, 0)
       THEN Answer(p, 500) /\ UNCHANGED tables
       ELSE /\ lastPk' = lastPk + 1
            /\ reviews' = Put(lastPk + 1, [loc |-> q.loc, author |-> q.user, body |-> body])
            /\ Becomes(p, [q EXCEPT !.step = "cache", !.pk = lastPk + 1])
            /\ UNCHANGED <<alive, votes>>
    /\ UNCHANGED rest

\* create_review: the atomic insert.  The unique constraint turns a lost race
\* into the same 409, in a form into an error.  A soft-deleted location has its row.
InsertReview(p, body) ==
    LET q == request[p] IN
    /\ Creates(p) /\ q.step = "insert"
    /\ IF Taken(q.loc, q.user, 0)
       THEN Answer(p, IF q.op = "create" THEN 409 ELSE 500) /\ UNCHANGED <<tables, shaken>>
       ELSE /\ lastPk' = lastPk + 1
            /\ reviews' = Put(lastPk + 1, [loc |-> q.loc, author |-> q.user, body |-> body])
            /\ Becomes(p, [q EXCEPT !.step = "cache", !.pk = lastPk + 1])
            /\ shaken' = shaken \union (Rivals(q.loc, q.user) \ {p})
            /\ UNCHANGED <<alive, votes>>
    /\ UNCHANGED <<brokerUp, tasks, hidden>>

\* _invalidate_list_cache, on commit and before any later hook: then the email of a
\* create, the read-back of an update, or the answer.
RefreshCache(p) ==
    LET q == request[p] IN
    /\ q.step = "cache"
    /\ \/ q.op = "create" /\ Goto(p, "publish")
       \/ q.op = "update" /\ Goto(p, "read")
       \/ q.op \in {"delete", "formDelete"} /\ Answer(p, 204)
       \/ q.op \in {"formCreate", "formEdit"} /\ Answer(p, 200)
    /\ UNCHANGED <<tables, rest>>

\* Redis went away between the incr and the add of list_cache.invalidate.
CacheOutage(p) ==
    /\ "cache" \in Events /\ request[p].step = "cache"
    /\ Answer(p, 500)
    /\ shaken' = shaken \union {p}
    /\ UNCHANGED <<tables, brokerUp, tasks, hidden>>

\* Mutant of Publish: a broker that is down is ignored.
PublishOrIgnore(p) ==
    /\ At(p, "create", "publish")
    /\ tasks' = IF brokerUp THEN tasks \union {request[p].pk} ELSE tasks
    /\ Goto(p, "read")
    /\ UNCHANGED <<tables, brokerUp, hidden, shaken>>

\* create_review, on_commit: send_new_review_emails.delay(review.pk).
Publish(p) ==
    /\ At(p, "create", "publish")
    /\ IF brokerUp
       THEN tasks' = tasks \union {request[p].pk} /\ Goto(p, "read") /\ UNCHANGED shaken
       ELSE Answer(p, 500) /\ shaken' = shaken \union {p} /\ UNCHANGED tasks
    /\ UNCHANGED <<tables, brokerUp, hidden>>

\* Mutant of SaveReview: save() without update_fields writes the copy that was
\* read, and inserts it when there is no row to update.
SaveReviewWhole(p) ==
    LET q == request[p] IN
    /\ At(p, "update", "save")
    /\ reviews' = Put(q.pk, [q.copy EXCEPT !.body = Patched(q.copy.body, q.patch)])
    /\ Goto(p, "cache")
    /\ UNCHANGED <<alive, lastPk, votes, rest>>

\* update_review: UPDATE of the named columns only; without a row to update
\* save(update_fields=...) raises.  A PATCH that names nothing saves nothing.
SaveReview(p) ==
    LET q == request[p] IN
    /\ At(p, "update", "save")
    /\ IF DOMAIN q.patch = {} THEN Goto(p, "read") /\ UNCHANGED reviews
       ELSE IF q.pk \in DOMAIN reviews
       THEN /\ reviews' = Put(q.pk, [reviews[q.pk] EXCEPT !.body = Patched(reviews[q.pk].body, q.patch)])
            /\ Goto(p, "cache")
       ELSE Answer(p, 500) /\ UNCHANGED reviews
    /\ UNCHANGED <<alive, lastPk, votes, rest>>

\* The form comes back, perhaps with another location, author or content, and is
\* validated: every field is to be written over the row as it is now.
ValidateForm(p, l, u, patch) ==
    LET q == request[p] IN
    /\ At(p, "formEdit", "form")
    /\ IF q.pk \notin DOMAIN reviews THEN Answer(p, 404)
       ELSE IF l \notin alive \/ Taken(l, u, q.pk) THEN Answer(p, 400)
       ELSE Becomes(p, [q EXCEPT !.step = "save",
                !.copy = [loc |-> l, author |-> u, body |-> Patched(q.copy.body, patch)]])
    /\ UNCHANGED <<tables, rest>>

\* save() of the whole row: an UPDATE or, when the row is gone, an INSERT.
SaveForm(p) ==
    LET q == request[p] IN
    /\ At(p, "formEdit", "save")
    /\ IF Taken(q.copy.loc, q.copy.author, q.pk)
       THEN Answer(p, 500) /\ UNCHANGED <<reviews, hidden, shaken>>
       ELSE /\ reviews' = Put(q.pk, q.copy)
            /\ Goto(p, "cache")
            /\ hidden' = {x \in hidden : Free(x) \/ request[x].pk # q.pk}
            /\ shaken' = shaken \union (Rivals(q.copy.loc, q.copy.author) \ {p})
                                \union Others(p)
    /\ UNCHANGED <<alive, lastPk, votes, brokerUp, tasks>>

\* delete_review, in one transaction: first the votes that are there ...
SweepVotes(p) ==
    LET q == request[p] IN
    /\ q.step = "sweep"
    /\ \A v \in VotesOn(q.pk) : ~Locked(v)
    /\ Becomes(p, [q EXCEPT !.step = "remove", !.swept = VotesOn(q.pk)])
    /\ UNCHANGED <<tables, rest>>

\* Mutant of RemoveReview: the foreign key of votes is not checked at the commit.
RemoveReviewAnyway(p) ==
    LET q == request[p] IN
    /\ q.step = "remove"
    /\ reviews' = Without(q.pk) /\ votes' = votes \ q.swept
    /\ Goto(p, "cache")
    /\ shaken' = shaken \union Others(p)
    /\ UNCHANGED <<alive, lastPk, brokerUp, tasks, hidden>>

\* Mutant of RemoveReview: it waits until no other vote refers to the review.
RemoveReviewWaiting(p) == VotesOn(request[p].pk) \subseteq request[p].swept /\ RemoveReviewAnyway(p)

\* ... then the review, and the commit.  A vote that came in between still refers
\* to the review: the commit fails and everything is rolled back.
RemoveReview(p) ==
    LET q == request[p] IN
    /\ q.step = "remove"
    /\ IF VotesOn(q.pk) \subseteq q.swept
       THEN /\ reviews' = Without(q.pk) /\ votes' = votes \ q.swept
            /\ Goto(p, "cache")
            /\ shaken' = shaken \union Others(p)
       ELSE Answer(p, 500) /\ UNCHANGED <<reviews, votes, shaken>>
    /\ UNCHANGED <<alive, lastPk, brokerUp, tasks, hidden>>

\* vote_review: the exists() check ...
CheckVote(p) ==
    /\ At(p, "vote", "check")
    /\ IF [review |-> request[p].pk, user |-> request[p].user] \in votes
       THEN Answer(p, 409) ELSE Goto(p, "insert")
    /\ UNCHANGED <<tables, rest>>

\* ... and the atomic insert: 409 on the unique constraint, an unhandled
\* IntegrityError when the review is gone.
InsertVote(p) ==
    LET q == request[p]
        vote == [review |-> q.pk, user |-> q.user]
    IN
    /\ At(p, "vote", "insert") /\ ~Locked(vote)
    /\ IF vote \in votes THEN Answer(p, 409) /\ UNCHANGED <<votes, shaken>>
       ELSE IF q.pk \notin DOMAIN reviews THEN Answer(p, 500) /\ UNCHANGED <<votes, shaken>>
       ELSE /\ votes' = votes \union {vote} /\ Goto(p, "read")
            /\ shaken' = shaken \union {x \in Requests : request[x].step = "remove" /\ request[x].pk = q.pk}
    /\ UNCHANGED <<alive, reviews, lastPk, brokerUp, tasks, hidden>>

\* Mutant of RemoveVote: the answer does not depend on what was deleted.
RemoveVoteAlways(p) ==
    LET vote == [review |-> request[p].pk, user |-> request[p].user] IN
    /\ At(p, "unvote", "unvote") /\ ~Locked(vote)
    /\ votes' = votes \ {vote} /\ Answer(p, 204)
    /\ UNCHANGED <<alive, reviews, lastPk, rest>>

\* remove_vote: 404 when there was none.
RemoveVote(p) ==
    LET vote == [review |-> request[p].pk, user |-> request[p].user] IN
    /\ At(p, "unvote", "unvote") /\ ~Locked(vote)
    /\ votes' = votes \ {vote}
    /\ Answer(p, IF vote \in votes THEN 204 ELSE 404)
    /\ UNCHANGED <<alive, reviews, lastPk, rest>>

\* _read(pk): .get() raises DoesNotExist, which nothing turns into a 404.
Read(p) ==
    LET q == request[p] IN
    /\ q.step = "read"
    /\ Answer(p, IF ~Visible(q.pk) THEN 500 ELSE IF q.op = "update" THEN 200 ELSE 201)
    /\ UNCHANGED <<tables, rest>>

\* The worker is killed: an open transaction is rolled back, no answer is sent.
Kill(p) ==
    /\ "crash" \in Events /\ ~Free(p)
    /\ Answer(p, NoAnswer)
    /\ UNCHANGED <<tables, rest>>

-----------------------------------------------------------------------------
(* The rest of the system.                                                 *)

\* The request is for location l or for a review of it.
Concerns(p, l) ==
    IF Creates(p) THEN request[p].loc = l
    ELSE request[p].pk \in DOMAIN reviews /\ reviews[request[p].pk].loc = l

\* soft_delete_location, by the location's author.
SoftDelete(l) ==
    /\ "soft delete" \in Events /\ l \in alive
    /\ alive' = alive \ {l}
    /\ shaken' = shaken \union {p \in Requests : ~Free(p) /\ Concerns(p, l)}
    /\ UNCHANGED <<reviews, lastPk, votes, brokerUp, tasks, hidden, request>>

\* An administrator clears is_deleted: requests under way may see l alive again.
Restore(l) ==
    /\ "restore" \in Events /\ l \notin alive
    /\ alive' = alive \union {l}
    /\ hidden' = {p \in hidden : Free(p) \/ ~Concerns(p, l)}
    /\ UNCHANGED <<reviews, lastPk, votes, brokerUp, tasks, shaken, request>>

BrokerOutage ==
    /\ "broker" \in Events
    /\ brokerUp' = ~brokerUp
    /\ UNCHANGED <<tables, tasks, hidden, shaken, request>>

-----------------------------------------------------------------------------
Step(p) ==
    \/ RejectBody(p)
    \/ GetLocation(p) \/ CheckReview(p) \/ (\E c \in Contents : InsertReview(p, [f \in Fields |-> c]))
    \/ RefreshCache(p) \/ CacheOutage(p) \/ Publish(p)
    \/ GetReview(p) \/ SaveReview(p) \/ SweepVotes(p) \/ RemoveReview(p)
    \/ (\E l \in Locations, u \in Users, patch \in Patches : ValidateForm(p, l, u, patch)) \/ SaveForm(p)
    \/ CheckVote(p) \/ InsertVote(p) \/ RemoveVote(p) \/ Read(p)

Send(p) ==
    \E u \in Users :
        \/ \E l \in Locations, op \in {"create", "formCreate"} : SendCreate(p, op, u, l)
        \/ \E pk \in Pks, patch \in Patches : SendOn(p, "update", u, pk, patch)
        \/ \E pk \in Pks, op \in Operations \ {"create", "formCreate", "update"} : SendOn(p, op, u, pk, <<>>)

Next ==
    \/ \E p \in Requests : Send(p) \/ Step(p) \/ Kill(p)
    \/ \E l \in Locations : SoftDelete(l) \/ Restore(l)
    \/ BrokerOutage

Spec == Init /\ [][Next]_vars

\* A request being served goes on; nothing else has to happen.  Strong fairness:
\* PostgreSQL queues who waits for a row, so no waiter is passed over for ever.
FairSpec == Spec /\ \A p \in Requests : SF_vars(Step(p))

-----------------------------------------------------------------------------
(* Properties.                                                             *)

\* Every variable has its type; the bound on reviews is respected.
TypeOK ==
    /\ alive \subseteq Locations
    /\ lastPk \in 0 .. MaxReviews
    /\ DOMAIN reviews \subseteq 1 .. lastPk
    /\ \A pk \in DOMAIN reviews : reviews[pk] \in Review
    /\ votes \subseteq Vote /\ brokerUp \in BOOLEAN
    /\ tasks \subseteq Pks /\ hidden \subseteq Requests /\ shaken \subseteq Requests
    /\ request \in [Requests -> Request]

\* A user has one review per location and every vote has its review, whatever
\* requests race each other between the checks, the inserts and a delete.
TablesConsistent ==
    /\ \A a, b \in DOMAIN reviews :
        reviews[a].loc = reviews[b].loc /\ reviews[a].author = reviews[b].author => a = b
    /\ \A v \in votes : v.review \in DOMAIN reviews

\* The administrator's form for this review is saved in this step.
FormSaves(pk) ==
    \E p \in Requests : At(p, "formEdit", "save") /\ request[p].pk = pk /\ request'[p].step = "cache"

\* A deleted review stays deleted: no request that read it before saves it back, but
\* for a form being saved when it is deleted.
DeletedStaysDeleted ==
    [][\A pk \in 1 .. lastPk :
          pk \notin DOMAIN reviews /\ pk \in DOMAIN reviews' => FormSaves(pk)]_vars

\* Outside the administration a field changes only through a PATCH that names it, and
\* a review keeps its author and location: of two PATCHes on different fields of one
\* review neither undoes the other.
NoLostUpdate ==
    [][\A pk \in DOMAIN reviews \intersect DOMAIN reviews' :
          \/ FormSaves(pk)
          \/ /\ reviews'[pk].loc = reviews[pk].loc /\ reviews'[pk].author = reviews[pk].author
             /\ \A f \in Fields :
                 reviews'[pk].body[f] # reviews[pk].body[f] =>
                     \E p \in Requests :
                         /\ At(p, "update", "save") /\ request[p].pk = pk
                         /\ request'[p].step = "cache" /\ f \in DOMAIN request[p].patch]_vars

\* A request for a location that was soft-deleted before it came and stays so,
\* or for a review of one, or for a deleted review, is answered 404 and nothing else,
\* but for a create whose body is invalid: the body comes before the location.
HiddenMeans404 ==
    \A p \in Requests :
        request[p].step = "done" /\ p \in hidden =>
            \/ request[p].status \in {404, NoAnswer}
            \/ request[p].op = "create" /\ request[p].status = 400

\* A review is answered 201 only with its email task in the queue, and a task is
\* queued only for a review that was committed.
CreatedMeansQueued ==
    /\ \A p \in Requests :
        request[p].op = "create" /\ request[p].step = "done" /\ request[p].status = 201
            => request[p].pk \in tasks
    /\ tasks \subseteq 1 .. lastPk

\* A request fails with a server error only when Redis or the broker failed it, or
\* when another request hid, deleted, saved or voted on what it is about while it ran:
\* what was gone before is a 404, what was taken before a 409.
ErrorsHaveCause == \A p \in Requests : request[p].status = 500 => p \in shaken

\* Every request is answered: waiting for the rows of a delete always ends.
AlwaysAnswered == \A p \in Requests : (~Free(p)) ~> Free(p)

\* The call that a request stands for: pending until it is looked up, admitted until
\* its change is committed, then effective until it is answered.
PhaseOf(step) ==
    IF step \in {"location", "review"} THEN "pending"
    ELSE IF step \in {"cache", "publish", "read"} THEN "effective" ELSE "admitted"
CallOf(q) ==
    IF q.step \in {"idle", "done"} THEN [phase |-> "over", op |-> q.op, status |-> q.status]
    ELSE [phase |-> PhaseOf(q.step), op |-> q.op, user |-> q.user, loc |-> q.loc, pk |-> q.pk,
          patch |-> q.patch]
Calls == [p \in Requests |-> CallOf(request[p])]

Board == INSTANCE ReviewBoard WITH call <- Calls

\* However the statements of requests interleave, each request is admitted at one
\* moment and takes effect, whole, at one later moment, before it is answered: a
\* client error has changed nothing, a success what was asked for, once, and no vote
\* outlives its review for a moment.
ImplementsBoard == Board!Spec
=============================================================================
