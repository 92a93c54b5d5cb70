---------------------------- MODULE ReviewsProofs ----------------------------
(***************************************************************************)
(* The safety properties of Reviews for any number of requests, users,     *)
(* locations and reviews, and that it implements ReviewBoard.              *)
(***************************************************************************)
EXTENDS Reviews, FiniteSetTheorems, TLAPS

-----------------------------------------------------------------------------
(* The inductive invariant: what a request carries at each of its steps.   *)

CreateOps == {"create", "formCreate"}

\* The operations that come to each step, and what they carry there.
ShapeOK(q, max) ==
    /\ q.step = "location" => q.op \in CreateOps
    /\ q.step \in {"check", "insert"} => q.op \in CreateOps \union {"vote"}
    /\ q.step = "review" => q.op \in DOMAIN NextStep
    /\ q.step = "save" => q.op \in {"update", "formEdit"}
    /\ q.step \in {"sweep", "remove"} => q.op \in {"delete", "formDelete"}
    /\ q.step = "unvote" => q.op = "unvote"
    /\ q.step = "form" => q.op = "formEdit"
    /\ q.step = "cache" => q.op \in Operations \ {"vote", "unvote"}
    /\ q.step = "publish" => q.op = "create"
    /\ q.step = "read" => q.op \in {"create", "update", "vote"}
    /\ q.op \in CreateOps /\ q.step \in {"location", "check", "insert"} => q.pk = 0
    /\ q.op \in CreateOps /\ q.step \in {"cache", "publish", "read"} => q.pk \in 1 .. max
    /\ q.op \notin CreateOps /\ q.step \notin {"idle", "done"} => q.pk \in 1 .. max
    /\ q.op = "formEdit" /\ q.step \in {"form", "save"} => q.copy \in Review

Shapes == \A p \in Requests : ShapeOK(request[p], lastPk)

\* The task is queued when a create comes to its read-back, and stays so.
QueuedOK(q, queue) ==
    /\ q.op = "create" /\ q.step = "read" => q.pk \in queue
    /\ q.op = "create" /\ q.step = "done" /\ q.status = 201 => q.pk \in queue

Queued == tasks \subseteq 1 .. lastPk /\ \A p \in Requests : QueuedOK(request[p], tasks)

\* What was hidden when a request came is still hidden when it looks it up.
HiddenOK(p) ==
    LET q == request[p] IN
    /\ q.step = "done" => q.status \in {404, NoAnswer} \/ (q.op = "create" /\ q.status = 400)
    /\ ~Free(p) =>
        \/ q.op = "create" /\ q.step = "location" /\ q.loc \notin alive
        \/ q.op \notin Forms /\ q.step = "review" /\ ~Visible(q.pk)

\* What an undisturbed request found is still so.
CauseOK(p) ==
    LET q == request[p] IN
    /\ q.status # 500
    /\ q.op = "create" /\ q.step \in {"cache", "publish", "read"} =>
           q.pk \in DOMAIN reviews /\ reviews[q.pk].loc = q.loc
    /\ q.op = "create" /\ q.step \in {"check", "insert", "cache", "publish", "read"} => q.loc \in alive
    /\ q.op \in {"update", "vote"} /\ q.step \notin {"idle", "review", "done"} => Visible(q.pk)
    /\ q.step = "remove" => VotesOn(q.pk) \subseteq q.swept
    /\ q.op = "formCreate" /\ q.step = "insert" => ~Taken(q.loc, q.user, 0)
    /\ q.op = "formEdit" /\ q.step = "save" => ~Taken(q.copy.loc, q.copy.author, q.pk)

\* The bound: the creates under way have room for their rows.
Unsaveds == {p \in Requests : Unsaved(p)}
RoomOK == lastPk + Cardinality(Unsaveds) <= MaxReviews

Histories == (\A p \in hidden : HiddenOK(p)) /\ (\A p \in Requests \ shaken : CauseOK(p))

IInv == TypeOK /\ Shapes /\ RoomOK /\ TablesConsistent /\ Queued /\ Histories

-----------------------------------------------------------------------------
(* Requests: what the steps make of them.                                  *)

LEMMA Types ==
    /\ <<>> \in Patches
    /\ MaxReviews \in Nat /\ Pks = 1 .. MaxReviews
    /\ (CHOOSE u \in Users : TRUE) \in Users /\ (CHOOSE l \in Locations : TRUE) \in Locations
<1>1. {} \in SUBSET Fields /\ <<>> \in [{} -> Contents]
  OBVIOUS
<1> QED
  BY <1>1, BoundsAssumption, PeopleAssumption DEF Patches, Pks

LEMMA IdleType == IdleRequest \in Request
  BY Types DEF IdleRequest, Request

LEMMA BecomesFacts ==
    ASSUME request \in [Requests -> Request], NEW p \in Requests, NEW q \in Request, Becomes(p, q)
    PROVE  /\ request' \in [Requests -> Request]
           /\ request'[p] = q
           /\ \A x \in Requests \ {p} : request'[x] = request[x]
  BY DEF Becomes

\* Goto changes the step only.
LEMMA GotoFacts ==
    ASSUME request \in [Requests -> Request], NEW p \in Requests,
           NEW step \in {"check", "insert", "save", "cache", "publish", "read"}, Goto(p, step)
    PROVE  /\ request' \in [Requests -> Request]
           /\ request'[p].step = step /\ request'[p].op = request[p].op
           /\ request'[p].user = request[p].user /\ request'[p].loc = request[p].loc
           /\ request'[p].pk = request[p].pk /\ request'[p].patch = request[p].patch
           /\ request'[p].copy = request[p].copy /\ request'[p].swept = request[p].swept
           /\ request'[p].status = request[p].status
           /\ \A x \in Requests \ {p} : request'[x] = request[x]
<1> DEFINE q == [request[p] EXCEPT !.step = step]
<1>1. request[p] \in Request
  OBVIOUS
<1>2. /\ q \in Request /\ q.step = step /\ q.op = request[p].op /\ q.user = request[p].user
      /\ q.loc = request[p].loc /\ q.pk = request[p].pk /\ q.patch = request[p].patch
      /\ q.copy = request[p].copy /\ q.swept = request[p].swept /\ q.status = request[p].status
  BY <1>1 DEF Request
<1>3. Becomes(p, q)
  BY DEF Goto
<1> HIDE DEF q
<1> QED
  BY <1>2, <1>3, BecomesFacts

LEMMA EndedType ==
    ASSUME NEW row \in Request, NEW old \in Request, NEW status \in Statuses \union {NoAnswer},
           NEW pk \in Pks \union {0}
    PROVE  [row EXCEPT !.step = "done", !.op = old.op, !.status = status, !.pk = pk] \in Request
<1>1. old.op \in Operations \union {"none"}
  BY DEF Request
<1> QED
  BY <1>1 DEF Request

\* An answer ends the request.
LEMMA AnswerFacts ==
    ASSUME request \in [Requests -> Request], NEW p \in Requests,
           NEW status \in Statuses \union {NoAnswer}, Answer(p, status)
    PROVE  /\ request' \in [Requests -> Request]
           /\ request'[p].step = "done" /\ request'[p].op = request[p].op
           /\ request'[p].status = status
           /\ request'[p].pk = IF status = 201 THEN request[p].pk ELSE 0
           /\ \A x \in Requests \ {p} : request'[x] = request[x]
<1> DEFINE k == IF status = 201 THEN request[p].pk ELSE 0
           old == request[p]
           q == [IdleRequest EXCEPT !.step = "done", !.op = old.op, !.status = status, !.pk = k]
<1>1. request[p] \in Request /\ IdleRequest \in Request
  BY IdleType
<1>2. k \in Pks \union {0}
  BY <1>1 DEF Request
<1>3. /\ q.step = "done" /\ q.op = request[p].op /\ q.status = status
      /\ q.pk = IF status = 201 THEN request[p].pk ELSE 0
  BY DEF IdleRequest
<1>5. q \in Request
  <2> HIDE DEF k, old
  <2>1. old \in Request
    BY <1>1 DEF old
  <2> QED
    BY <2>1, <1>1, <1>2, EndedType
<1>4. Becomes(p, q)
  BY DEF Answer
<1> HIDE DEF q
<1> QED
  BY <1>3, <1>4, <1>5, BecomesFacts

-----------------------------------------------------------------------------
(* Types, shapes and the queue: one lemma per kind of step, then per step. *)

Basics == request' \in [Requests -> Request] /\ Shapes' /\ Queued'

LEMMA BasicsFrom ==
    ASSUME TypeOK, Shapes, Queued, NEW p \in Requests,
           request' \in [Requests -> Request],
           \A x \in Requests \ {p} : request'[x] = request[x],
           lastPk' \in Nat, lastPk <= lastPk', tasks \subseteq tasks', tasks' \subseteq 1 .. lastPk',
           ShapeOK(request'[p], lastPk'), QueuedOK(request'[p], tasks')
    PROVE  Basics
<1>1. lastPk \in Nat
  BY Types DEF TypeOK
<1>2. 1 .. lastPk \subseteq 1 .. lastPk'
  BY <1>1
<1>3. ASSUME NEW x \in Requests \ {p} PROVE ShapeOK(request'[x], lastPk')
  <2>1. ShapeOK(request[x], lastPk) /\ request'[x] = request[x]
    BY DEF Shapes
  <2> QED
    BY <2>1, <1>2 DEF ShapeOK
<1>4. ASSUME NEW x \in Requests \ {p} PROVE QueuedOK(request'[x], tasks')
  <2>1. QueuedOK(request[x], tasks) /\ request'[x] = request[x]
    BY DEF Queued
  <2> QED
    BY <2>1 DEF QueuedOK
<1>5. Shapes'
  BY <1>3 DEF Shapes
<1>6. Queued'
  BY <1>4 DEF Queued
<1> QED
  BY <1>5, <1>6 DEF Basics

LEMMA Counted ==
    ASSUME TypeOK
    PROVE  lastPk \in Nat /\ lastPk <= MaxReviews /\ 1 .. lastPk \subseteq Pks /\ 0 \notin Pks
<1>1. lastPk \in 0 .. MaxReviews /\ MaxReviews \in Nat /\ Pks = 1 .. MaxReviews
  BY Types DEF TypeOK
<1> QED
  BY <1>1

LEMMA RequestType == ASSUME TypeOK, NEW p \in Requests PROVE request \in [Requests -> Request] /\ request[p] \in Request
  BY DEF TypeOK

LEMMA AnswerKeeps ==
    ASSUME TypeOK, Shapes, Queued, NEW p \in Requests, NEW status \in Statuses \union {NoAnswer},
           Answer(p, status), lastPk' = lastPk, tasks' = tasks,
           status = 201 /\ request[p].op = "create" => request[p].pk \in tasks
    PROVE  Basics
<1>1. /\ request' \in [Requests -> Request] /\ request'[p].step = "done"
      /\ request'[p].op = request[p].op /\ request'[p].status = status
      /\ request'[p].pk = IF status = 201 THEN request[p].pk ELSE 0
      /\ \A x \in Requests \ {p} : request'[x] = request[x]
  BY AnswerFacts, RequestType
<1>2. ShapeOK(request'[p], lastPk')
  BY <1>1 DEF ShapeOK
<1>3. QueuedOK(request'[p], tasks')
  BY <1>1 DEF QueuedOK
<1>4. tasks' \subseteq 1 .. lastPk' /\ lastPk' \in Nat /\ lastPk <= lastPk'
  BY Counted DEF Queued
<1> QED
  BY <1>1, <1>2, <1>3, <1>4, BasicsFrom

LEMMA GotoKeeps ==
    ASSUME TypeOK, Shapes, Queued, NEW p \in Requests,
           NEW step \in {"check", "insert", "save", "cache", "publish", "read"}, Goto(p, step),
           lastPk' = lastPk, tasks \subseteq tasks', tasks' \subseteq 1 .. lastPk,
           ShapeOK(request'[p], lastPk),
           request[p].op = "create" /\ step = "read" => request[p].pk \in tasks'
    PROVE  Basics
<1>1. /\ request' \in [Requests -> Request] /\ request'[p].step = step
      /\ request'[p].op = request[p].op /\ request'[p].pk = request[p].pk
      /\ \A x \in Requests \ {p} : request'[x] = request[x]
  BY GotoFacts, RequestType
<1>2. QueuedOK(request'[p], tasks')
  BY <1>1 DEF QueuedOK
<1>3. lastPk' \in Nat /\ lastPk <= lastPk'
  BY Counted
<1> QED
  BY <1>1, <1>2, <1>3, BasicsFrom

\* A step that ends neither the request nor its work: q is what it becomes.
LEMMA BecomesKeeps ==
    ASSUME TypeOK, Shapes, Queued, NEW p \in Requests, NEW q \in Request, Becomes(p, q),
           q.step \notin {"read", "done"}, tasks' = tasks,
           lastPk' \in Nat, lastPk <= lastPk', ShapeOK(q, lastPk')
    PROVE  Basics
<1>1. /\ request' \in [Requests -> Request] /\ request'[p] = q
      /\ \A x \in Requests \ {p} : request'[x] = request[x]
  BY BecomesFacts, RequestType
<1>2. QueuedOK(request'[p], tasks')
  BY <1>1 DEF QueuedOK
<1>3. tasks' \subseteq 1 .. lastPk'
  BY Counted DEF Queued
<1>4. ShapeOK(request'[p], lastPk')
  BY <1>1
<1> QED
  BY <1>1, <1>2, <1>3, <1>4, BasicsFrom

\* What the two sends make of a slot.
NewCreate(op, u, l) == [IdleRequest EXCEPT !.step = "location", !.op = op, !.user = u, !.loc = l]
NewOn(op, u, pk, patch) ==
    [IdleRequest EXCEPT !.step = "review", !.op = op, !.user = u, !.pk = pk, !.patch = patch]

LEMMA NewCreateFacts ==
    ASSUME NEW op \in Operations, NEW u \in Users, NEW l \in Locations
    PROVE  /\ NewCreate(op, u, l) \in Request
           /\ NewCreate(op, u, l).step = "location" /\ NewCreate(op, u, l).op = op
           /\ NewCreate(op, u, l).user = u /\ NewCreate(op, u, l).loc = l
           /\ NewCreate(op, u, l).pk = 0 /\ NewCreate(op, u, l).status = NoAnswer
<1>1. NewCreate(op, u, l) \in Request
  BY IdleType DEF NewCreate, Request
<1> QED
  BY <1>1 DEF NewCreate, IdleRequest

LEMMA NewOnFacts ==
    ASSUME NEW op \in Operations, NEW u \in Users, NEW pk \in Pks, NEW patch \in Patches
    PROVE  /\ NewOn(op, u, pk, patch) \in Request
           /\ NewOn(op, u, pk, patch).step = "review" /\ NewOn(op, u, pk, patch).op = op
           /\ NewOn(op, u, pk, patch).pk = pk /\ NewOn(op, u, pk, patch).status = NoAnswer
<1>1. NewOn(op, u, pk, patch) \in Request
  BY IdleType DEF NewOn, Request
<1> QED
  BY <1>1 DEF NewOn, IdleRequest

LEMMA SendCreateBasics ==
    ASSUME TypeOK, Shapes, Queued, NEW p \in Requests, NEW op \in CreateOps, NEW u \in Users,
           NEW l \in Locations, SendCreate(p, op, u, l)
    PROVE  Basics
<1> DEFINE q == NewCreate(op, u, l)
<1>1. Becomes(p, q) /\ lastPk' = lastPk /\ tasks' = tasks
  BY DEF SendCreate, NewCreate, tables
<1>2. op \in Operations
  BY DEF CreateOps, Operations, Forms
<1>3. q \in Request /\ q.step = "location" /\ q.op = op /\ q.pk = 0
  BY <1>2, NewCreateFacts
<1> HIDE DEF q
<1>4. ShapeOK(q, lastPk')
  BY <1>3 DEF ShapeOK, CreateOps
<1> QED
  BY <1>1, <1>3, <1>4, BecomesKeeps, Counted

LEMMA SendOnBasics ==
    ASSUME TypeOK, Shapes, Queued, NEW p \in Requests, NEW op \in Operations \ CreateOps,
           NEW u \in Users, NEW pk \in Pks, NEW patch \in Patches, SendOn(p, op, u, pk, patch)
    PROVE  Basics
<1> DEFINE q == NewOn(op, u, pk, patch)
<1>1. Becomes(p, q) /\ lastPk' = lastPk /\ tasks' = tasks /\ pk <= lastPk
  BY DEF SendOn, NewOn, tables
<1>2. pk \in 1 .. lastPk
  BY <1>1, Counted, Types
<1>3. q \in Request /\ q.step = "review" /\ q.op = op /\ q.pk = pk
  BY NewOnFacts
<1>4. op \in DOMAIN NextStep
  BY DEF NextStep, Operations, CreateOps, Forms
<1> HIDE DEF q
<1>5. ShapeOK(q, lastPk')
  BY <1>1, <1>2, <1>3, <1>4 DEF ShapeOK
<1> QED
  BY <1>1, <1>3, <1>5, BecomesKeeps, Counted

LEMMA ShapeAt ==
    ASSUME Shapes, NEW p \in Requests
    PROVE  ShapeOK(request[p], lastPk)
  BY DEF Shapes

LEMMA RejectBodyBasics ==
    ASSUME TypeOK, Shapes, Queued, NEW p \in Requests, RejectBody(p)
    PROVE  Basics
<1>1. lastPk' = lastPk /\ tasks' = tasks /\ Answer(p, 400)
  BY DEF RejectBody, tables, rest
<1> QED
  BY <1>1, AnswerKeeps DEF Statuses

LEMMA GetLocationBasics ==
    ASSUME TypeOK, Shapes, Queued, NEW p \in Requests, GetLocation(p)
    PROVE  Basics
<1>1. lastPk' = lastPk /\ tasks' = tasks /\ tasks' \subseteq 1 .. lastPk
  BY DEF GetLocation, tables, rest, Queued
<1>2. CASE Goto(p, "check")
  <2>1. ShapeOK(request'[p], lastPk)
    BY <1>2, ShapeAt, GotoFacts, RequestType DEF GetLocation, ShapeOK, Creates, CreateOps
  <2> QED
    BY <1>1, <1>2, <2>1, GotoKeeps
<1>3. CASE Answer(p, 404) \/ Answer(p, 400)
  BY <1>1, <1>3, AnswerKeeps DEF Statuses
<1> QED
  BY <1>2, <1>3 DEF GetLocation

LEMMA GetReviewBasics ==
    ASSUME TypeOK, Shapes, Queued, NEW p \in Requests, GetReview(p)
    PROVE  Basics
<1>1. lastPk' = lastPk /\ tasks' = tasks
  BY DEF GetReview, tables, rest
<1>2. CASE Answer(p, 404) \/ Answer(p, 403)
  BY <1>1, <1>2, AnswerKeeps DEF Statuses
<1> DEFINE copy == IF request[p].op \in {"update", "formEdit"} THEN reviews[request[p].pk] ELSE <<>>
           q == [request[p] EXCEPT !.step = NextStep[request[p].op], !.copy = copy]
<1>3. CASE /\ Becomes(p, q) /\ request[p].step = "review"
           /\ request[p].op \in Forms \/ request[p].op = "update" => request[p].pk \in DOMAIN reviews
  <2>1. request[p] \in Request /\ request[p].op \in DOMAIN NextStep /\ request[p].pk \in 1 .. lastPk
    BY <1>3, ShapeAt, RequestType DEF ShapeOK, NextStep, CreateOps
  <2>2. copy \in Review \union {<<>>} /\ (request[p].op = "formEdit" => copy \in Review)
    BY <1>3 DEF TypeOK, Forms
  <2>3. NextStep[request[p].op] \in {"save", "sweep", "check", "unvote", "form"}
    BY <2>1 DEF NextStep
  <2> HIDE DEF copy
  <2>4. /\ q \in Request /\ q.step = NextStep[request[p].op] /\ q.op = request[p].op
        /\ q.pk = request[p].pk /\ q.copy = copy
    BY <2>1, <2>2, <2>3 DEF Request
  <2> HIDE DEF q
  <2>5. ShapeOK(q, lastPk)
    BY <2>1, <2>2, <2>4 DEF ShapeOK, NextStep, CreateOps, Operations, Forms
  <2> QED
    BY <1>1, <1>3, <2>3, <2>4, <2>5, BecomesKeeps, Counted
<1>4. Visible(request[p].pk) => request[p].pk \in DOMAIN reviews
  BY DEF Visible
<1> QED
  BY <1>2, <1>3, <1>4 DEF GetReview

LEMMA CheckReviewBasics ==
    ASSUME TypeOK, Shapes, Queued, NEW p \in Requests, CheckReview(p)
    PROVE  Basics
<1>1. lastPk' = lastPk /\ tasks' = tasks /\ tasks' \subseteq 1 .. lastPk
  BY DEF CheckReview, tables, rest, Queued
<1>2. CASE Goto(p, "insert")
  <2>1. ShapeOK(request'[p], lastPk)
    BY <1>2, ShapeAt, GotoFacts, RequestType DEF CheckReview, ShapeOK, Creates, CreateOps
  <2> QED
    BY <1>1, <1>2, <2>1, GotoKeeps
<1>3. CASE Answer(p, 409) \/ Answer(p, 400)
  BY <1>1, <1>3, AnswerKeeps DEF Statuses
<1> QED
  BY <1>2, <1>3 DEF CheckReview

LEMMA InsertReviewBasics ==
    ASSUME TypeOK, Shapes, Queued, NEW p \in Requests, NEW body, InsertReview(p, body),
           lastPk' \in 0 .. MaxReviews
    PROVE  Basics
<1>1. tasks' = tasks
  BY DEF InsertReview
<1>2. CASE Taken(request[p].loc, request[p].user, 0)
  BY <1>1, <1>2, AnswerKeeps DEF InsertReview, Statuses, tables
<1>3. CASE ~Taken(request[p].loc, request[p].user, 0)
  <2> DEFINE q == [request[p] EXCEPT !.step = "cache", !.pk = lastPk + 1]
  <2>1. lastPk' = lastPk + 1 /\ Becomes(p, q) /\ request[p].step = "insert" /\ request[p].op \in CreateOps
    BY <1>3 DEF InsertReview, Creates, CreateOps
  <2>2. lastPk' \in Nat /\ lastPk <= lastPk' /\ lastPk + 1 \in 1 .. lastPk' /\ lastPk + 1 \in Pks
    BY <2>1, Counted, Types
  <2>3. q \in Request /\ q.step = "cache" /\ q.op = request[p].op /\ q.pk = lastPk + 1
    BY <2>2, RequestType DEF Request
  <2> HIDE DEF q
  <2>4. ShapeOK(q, lastPk')
    BY <2>1, <2>2, <2>3 DEF ShapeOK, CreateOps, Operations, Forms
  <2> QED
    BY <1>1, <2>1, <2>2, <2>3, <2>4, BecomesKeeps
<1> QED
  BY <1>2, <1>3

LEMMA RefreshCacheBasics ==
    ASSUME TypeOK, Shapes, Queued, NEW p \in Requests, RefreshCache(p)
    PROVE  Basics
<1>1. lastPk' = lastPk /\ tasks' = tasks /\ tasks' \subseteq 1 .. lastPk
  BY DEF RefreshCache, tables, rest, Queued
<1>2. ShapeOK(request[p], lastPk) /\ request[p].step = "cache"
  BY ShapeAt DEF RefreshCache
<1>3. CASE request[p].op = "create" /\ Goto(p, "publish")
  <2>1. ShapeOK(request'[p], lastPk)
    BY <1>2, <1>3, GotoFacts, RequestType DEF ShapeOK, CreateOps
  <2> QED
    BY <1>1, <1>3, <2>1, GotoKeeps
<1>4. CASE request[p].op = "update" /\ Goto(p, "read")
  <2>1. ShapeOK(request'[p], lastPk)
    BY <1>2, <1>4, GotoFacts, RequestType DEF ShapeOK, CreateOps
  <2> QED
    BY <1>1, <1>4, <2>1, GotoKeeps
<1>5. CASE Answer(p, 204) \/ Answer(p, 200)
  BY <1>1, <1>5, AnswerKeeps DEF Statuses
<1> QED
  BY <1>3, <1>4, <1>5 DEF RefreshCache

LEMMA PublishBasics ==
    ASSUME TypeOK, Shapes, Queued, NEW p \in Requests, Publish(p)
    PROVE  Basics
<1>1. lastPk' = lastPk /\ request[p].step = "publish" /\ request[p].op = "create"
  BY DEF Publish, tables, At
<1>2. CASE ~brokerUp
  BY <1>1, <1>2, AnswerKeeps DEF Publish, Statuses
<1>3. CASE brokerUp
  <2>1. Goto(p, "read") /\ tasks' = tasks \union {request[p].pk}
    BY <1>3 DEF Publish
  <2>2. ShapeOK(request[p], lastPk)
    BY ShapeAt
  <2>3. request[p].pk \in 1 .. lastPk /\ tasks' \subseteq 1 .. lastPk
    BY <1>1, <2>1, <2>2 DEF ShapeOK, CreateOps, Queued
  <2>4. ShapeOK(request'[p], lastPk)
    BY <1>1, <2>1, <2>2, GotoFacts, RequestType DEF ShapeOK, CreateOps
  <2> QED
    BY <1>1, <2>1, <2>3, <2>4, GotoKeeps
<1> QED
  BY <1>2, <1>3

LEMMA SaveReviewBasics ==
    ASSUME TypeOK, Shapes, Queued, NEW p \in Requests, SaveReview(p)
    PROVE  Basics
<1>1. lastPk' = lastPk /\ tasks' = tasks /\ tasks' \subseteq 1 .. lastPk
  BY DEF SaveReview, rest, Queued
<1>2. ShapeOK(request[p], lastPk) /\ request[p].step = "save" /\ request[p].op = "update"
  BY ShapeAt DEF SaveReview, At
<1>3. ASSUME NEW step \in {"read", "cache"}, Goto(p, step)
      PROVE  Basics
  <2>1. ShapeOK(request'[p], lastPk)
    BY <1>2, <1>3, GotoFacts, RequestType DEF ShapeOK, CreateOps, Operations
  <2> QED
    BY <1>1, <1>2, <1>3, <2>1, GotoKeeps
<1>4. CASE Answer(p, 500)
  BY <1>1, <1>4, AnswerKeeps DEF Statuses
<1> QED
  BY <1>3, <1>4 DEF SaveReview

LEMMA ValidateFormBasics ==
    ASSUME TypeOK, Shapes, Queued, NEW p \in Requests, NEW l \in Locations, NEW u \in Users,
           NEW patch \in Patches, ValidateForm(p, l, u, patch)
    PROVE  Basics
<1>1. lastPk' = lastPk /\ tasks' = tasks
  BY DEF ValidateForm, tables, rest
<1>2. CASE Answer(p, 404) \/ Answer(p, 400)
  BY <1>1, <1>2, AnswerKeeps DEF Statuses
<1> DEFINE copy == [loc |-> l, author |-> u, body |-> Patched(request[p].copy.body, patch)]
           q == [request[p] EXCEPT !.step = "save", !.copy = copy]
<1>3. CASE Becomes(p, q)
  <2>1. request[p] \in Request /\ ShapeOK(request[p], lastPk) /\ At(p, "formEdit", "form")
    BY ShapeAt, RequestType DEF ValidateForm
  <2>2. request[p].copy.body \in [Fields -> Contents]
    BY <2>1 DEF ShapeOK, At, Review
  <2>3. Patched(request[p].copy.body, patch) \in [Fields -> Contents]
    BY <2>2 DEF Patched, Patches
  <2>4. copy \in Review
    BY <2>3 DEF Review
  <2> HIDE DEF copy
  <2>5. q \in Request /\ q.step = "save" /\ q.op = request[p].op /\ q.pk = request[p].pk /\ q.copy = copy
    BY <2>1, <2>4 DEF Request
  <2> HIDE DEF q
  <2>6. ShapeOK(q, lastPk)
    BY <2>1, <2>4, <2>5 DEF ShapeOK, At, CreateOps
  <2> QED
    BY <1>1, <1>3, <2>5, <2>6, BecomesKeeps, Counted
<1> QED
  BY <1>2, <1>3 DEF ValidateForm

LEMMA SaveFormBasics ==
    ASSUME TypeOK, Shapes, Queued, NEW p \in Requests, SaveForm(p)
    PROVE  Basics
<1>1. lastPk' = lastPk /\ tasks' = tasks /\ tasks' \subseteq 1 .. lastPk
  BY DEF SaveForm, Queued
<1>2. CASE Goto(p, "cache")
  <2>1. ShapeOK(request[p], lastPk) /\ request[p].op = "formEdit" /\ request[p].step = "save"
    BY ShapeAt DEF SaveForm, At
  <2>2. ShapeOK(request'[p], lastPk)
    BY <2>1, <1>2, GotoFacts, RequestType DEF ShapeOK, CreateOps, Operations, Forms
  <2> QED
    BY <1>1, <1>2, <2>2, GotoKeeps
<1>3. CASE Answer(p, 500)
  BY <1>1, <1>3, AnswerKeeps DEF Statuses
<1> QED
  BY <1>2, <1>3 DEF SaveForm

LEMMA SweepVotesBasics ==
    ASSUME TypeOK, Shapes, Queued, NEW p \in Requests, SweepVotes(p)
    PROVE  Basics
<1> DEFINE swept == VotesOn(request[p].pk)
           q == [request[p] EXCEPT !.step = "remove", !.swept = swept]
<1>1. lastPk' = lastPk /\ tasks' = tasks /\ Becomes(p, q) /\ request[p].step = "sweep"
  BY DEF SweepVotes, tables, rest
<1>2. swept \in SUBSET Vote
  BY DEF VotesOn, TypeOK
<1> HIDE DEF swept
<1>3. q \in Request /\ q.step = "remove" /\ q.op = request[p].op /\ q.pk = request[p].pk
  BY <1>2, RequestType DEF Request
<1> HIDE DEF q
<1>4. ShapeOK(q, lastPk)
  BY <1>1, <1>3, ShapeAt DEF ShapeOK, CreateOps
<1> QED
  BY <1>1, <1>3, <1>4, BecomesKeeps, Counted

LEMMA RemoveReviewBasics ==
    ASSUME TypeOK, Shapes, Queued, NEW p \in Requests, RemoveReview(p)
    PROVE  Basics
<1>1. lastPk' = lastPk /\ tasks' = tasks /\ tasks' \subseteq 1 .. lastPk
  BY DEF RemoveReview, Queued
<1>2. CASE Goto(p, "cache")
  <2>1. ShapeOK(request[p], lastPk) /\ request[p].step = "remove"
    BY ShapeAt DEF RemoveReview
  <2>2. ShapeOK(request'[p], lastPk)
    BY <2>1, <1>2, GotoFacts, RequestType DEF ShapeOK, CreateOps, Operations, Forms
  <2> QED
    BY <1>1, <1>2, <2>2, GotoKeeps
<1>3. CASE Answer(p, 500)
  BY <1>1, <1>3, AnswerKeeps DEF Statuses
<1> QED
  BY <1>2, <1>3 DEF RemoveReview

LEMMA CheckVoteBasics ==
    ASSUME TypeOK, Shapes, Queued, NEW p \in Requests, CheckVote(p)
    PROVE  Basics
<1>1. lastPk' = lastPk /\ tasks' = tasks /\ tasks' \subseteq 1 .. lastPk
  BY DEF CheckVote, tables, rest, Queued
<1>2. CASE Goto(p, "insert")
  <2>1. ShapeOK(request'[p], lastPk)
    BY <1>2, ShapeAt, GotoFacts, RequestType DEF CheckVote, At, ShapeOK, CreateOps
  <2> QED
    BY <1>1, <1>2, <2>1, GotoKeeps
<1>3. CASE Answer(p, 409)
  BY <1>1, <1>3, AnswerKeeps DEF Statuses
<1> QED
  BY <1>2, <1>3 DEF CheckVote

LEMMA InsertVoteBasics ==
    ASSUME TypeOK, Shapes, Queued, NEW p \in Requests, InsertVote(p)
    PROVE  Basics
<1>1. /\ lastPk' = lastPk /\ tasks' = tasks /\ tasks' \subseteq 1 .. lastPk
      /\ request[p].op = "vote" /\ request[p].step = "insert"
  BY DEF InsertVote, Queued, At
<1>2. CASE Goto(p, "read")
  <2>1. ShapeOK(request'[p], lastPk)
    BY <1>1, <1>2, ShapeAt, GotoFacts, RequestType DEF ShapeOK, CreateOps
  <2> QED
    BY <1>1, <1>2, <2>1, GotoKeeps
<1>3. CASE Answer(p, 409) \/ Answer(p, 500)
  BY <1>1, <1>3, AnswerKeeps DEF Statuses
<1> QED
  BY <1>2, <1>3 DEF InsertVote

LEMMA EndBasics ==
    ASSUME TypeOK, Shapes, Queued, NEW p \in Requests,
           RemoveVote(p) \/ Read(p) \/ Kill(p) \/ CacheOutage(p)
    PROVE  Basics
<1>1. lastPk' = lastPk /\ tasks' = tasks
  BY DEF RemoveVote, Read, Kill, CacheOutage, tables, rest
<1>2. CASE \E status \in {204, 404, 500, NoAnswer, 200} : Answer(p, status)
  <2> PICK status \in {204, 404, 500, NoAnswer, 200} : Answer(p, status)
    BY <1>2
  <2> QED
    BY <1>1, AnswerKeeps DEF Statuses, NoAnswer
<1>3. CASE Read(p) /\ Answer(p, 201)
  <2>1. request[p].op = "create" => request[p].pk \in tasks
    BY <1>3 DEF Read, Queued, QueuedOK
  <2> QED
    BY <1>1, <1>3, <2>1, AnswerKeeps DEF Statuses
<1> QED
  BY <1>2, <1>3 DEF RemoveVote, Read, Kill, CacheOutage

\* The rest of the system leaves the requests alone.
LEMMA SystemBasics ==
    ASSUME TypeOK, Shapes, Queued, UNCHANGED <<request, lastPk, tasks>>
    PROVE  Basics
<1>1. Shapes'
  BY DEF Shapes, ShapeOK
<1>2. Queued'
  BY DEF Queued, QueuedOK
<1> QED
  BY <1>1, <1>2 DEF Basics, TypeOK

-----------------------------------------------------------------------------
(* The bound.                                                              *)

LEMMA RoomSame ==
    ASSUME TypeOK, RoomOK, lastPk' = lastPk, NEW p \in Requests,
           \A x \in Requests \ {p} : request'[x] = request[x],
           Unsaved(p)' => Unsaved(p)
    PROVE  RoomOK'
<1>1. Unsaveds' \subseteq Unsaveds
  BY DEF Unsaveds, Unsaved, Creates
<1>2. IsFiniteSet(Unsaveds)
  BY FS_Subset, BoundsAssumption DEF Unsaveds
<1>3. Cardinality(Unsaveds') <= Cardinality(Unsaveds) /\ Cardinality(Unsaveds) \in Nat
      /\ Cardinality(Unsaveds') \in Nat
  BY <1>1, <1>2, FS_Subset, FS_CardinalityType
<1>4. lastPk \in Nat /\ MaxReviews \in Nat
  BY Counted, Types
<1>5. lastPk + Cardinality(Unsaveds') <= MaxReviews
  BY <1>3, <1>4 DEF RoomOK
<1> QED
  BY <1>5 DEF RoomOK

LEMMA RoomSent ==
    ASSUME TypeOK, lastPk + Cardinality(Unsaveds) < MaxReviews, lastPk' = lastPk, NEW p \in Requests,
           \A x \in Requests \ {p} : request'[x] = request[x]
    PROVE  RoomOK'
<1>1. Unsaveds' \subseteq Unsaveds \union {p}
  BY DEF Unsaveds, Unsaved, Creates
<1>2. IsFiniteSet(Unsaveds)
  BY FS_Subset, BoundsAssumption DEF Unsaveds
<1>3. IsFiniteSet(Unsaveds \union {p}) /\ Cardinality(Unsaveds \union {p}) <= Cardinality(Unsaveds) + 1
  BY <1>2, FS_AddElement, FS_CardinalityType
<1>4. Cardinality(Unsaveds') <= Cardinality(Unsaveds \union {p}) /\ IsFiniteSet(Unsaveds')
  BY <1>1, <1>3, FS_Subset
<1>5. Cardinality(Unsaveds) \in Nat /\ Cardinality(Unsaveds') \in Nat /\ Cardinality(Unsaveds \union {p}) \in Nat
  BY <1>2, <1>3, <1>4, FS_CardinalityType
<1>6. lastPk \in Nat /\ MaxReviews \in Nat
  BY Counted, Types
<1>7. lastPk + Cardinality(Unsaveds') <= MaxReviews
  BY <1>3, <1>4, <1>5, <1>6
<1> QED
  BY <1>7 DEF RoomOK

LEMMA RoomInserted ==
    ASSUME TypeOK, RoomOK, lastPk' = lastPk + 1, NEW p \in Requests, Unsaved(p), ~Unsaved(p)',
           \A x \in Requests \ {p} : request'[x] = request[x]
    PROVE  RoomOK' /\ lastPk' \in 0 .. MaxReviews
<1>1. Unsaveds' \subseteq Unsaveds \ {p} /\ p \in Unsaveds
  BY DEF Unsaveds, Unsaved, Creates
<1>2. IsFiniteSet(Unsaveds)
  BY FS_Subset, BoundsAssumption DEF Unsaveds
<1>3. IsFiniteSet(Unsaveds \ {p}) /\ Cardinality(Unsaveds \ {p}) = Cardinality(Unsaveds) - 1
  BY <1>1, <1>2, FS_RemoveElement
<1>4. Cardinality(Unsaveds') <= Cardinality(Unsaveds \ {p}) /\ IsFiniteSet(Unsaveds')
  BY <1>1, <1>3, FS_Subset
<1>5. Cardinality(Unsaveds) \in Nat /\ Cardinality(Unsaveds') \in Nat
  BY <1>2, <1>4, FS_CardinalityType
<1>6. lastPk \in Nat /\ MaxReviews \in Nat
  BY Counted, Types
<1>7. lastPk' + Cardinality(Unsaveds') <= MaxReviews /\ lastPk' \in 0 .. MaxReviews
  BY <1>3, <1>4, <1>5, <1>6 DEF RoomOK
<1> QED
  BY <1>7 DEF RoomOK

-----------------------------------------------------------------------------
(* Types, shapes, queue and bound: each step.                              *)

LEMMA BecomesFrame ==
    ASSUME TypeOK, NEW p \in Requests, NEW q, Becomes(p, q)
    PROVE  \A x \in Requests \ {p} : request'[x] = request[x]
  BY DEF Becomes, TypeOK

LEMMA Frame ==
    ASSUME TypeOK, NEW p \in Requests, Step(p) \/ Kill(p)
    PROVE  \A x \in Requests \ {p} : request'[x] = request[x]
<1>1. CASE \E q : Becomes(p, q)
  BY <1>1, BecomesFrame
<1>2. ASSUME NEW body, InsertReview(p, body) PROVE \E q : Becomes(p, q)
  BY <1>2 DEF InsertReview, Answer
<1>3. ASSUME NEW l, NEW u, NEW patch, ValidateForm(p, l, u, patch) PROVE \E q : Becomes(p, q)
  BY <1>3 DEF ValidateForm, Answer
<1>4. GetLocation(p) => \E q : Becomes(p, q)
  BY DEF GetLocation, Answer, Goto
<1>5. CheckReview(p) => \E q : Becomes(p, q)
  BY DEF CheckReview, Answer, Goto
<1>6. RefreshCache(p) => \E q : Becomes(p, q)
  BY DEF RefreshCache, Answer, Goto
<1>7. CacheOutage(p) => \E q : Becomes(p, q)
  BY DEF CacheOutage, Answer, Goto
<1>8. Publish(p) => \E q : Becomes(p, q)
  BY DEF Publish, Answer, Goto
<1>9. GetReview(p) => \E q : Becomes(p, q)
  BY DEF GetReview, Answer, Goto
<1>10. SaveReview(p) => \E q : Becomes(p, q)
  BY DEF SaveReview, Answer, Goto
<1>11. SweepVotes(p) => \E q : Becomes(p, q)
  BY DEF SweepVotes, Answer, Goto
<1>12. RemoveReview(p) => \E q : Becomes(p, q)
  BY DEF RemoveReview, Answer, Goto
<1>13. SaveForm(p) => \E q : Becomes(p, q)
  BY DEF SaveForm, Answer, Goto
<1>14. CheckVote(p) => \E q : Becomes(p, q)
  BY DEF CheckVote, Answer, Goto
<1>15. InsertVote(p) => \E q : Becomes(p, q)
  BY DEF InsertVote, Answer, Goto
<1>16. RemoveVote(p) => \E q : Becomes(p, q)
  BY DEF RemoveVote, Answer, Goto
<1>17. Read(p) => \E q : Becomes(p, q)
  BY DEF Read, Answer, Goto
<1>18. Kill(p) => \E q : Becomes(p, q)
  BY DEF Kill, Answer, Goto
<1>19. RejectBody(p) => \E q : Becomes(p, q)
  BY DEF RejectBody, Answer
<1> QED
  BY <1>1, <1>2, <1>3, <1>4, <1>5, <1>6, <1>7, <1>8, <1>9, <1>10, <1>11, <1>12, <1>13, <1>14, <1>15,
     <1>16, <1>17, <1>18, <1>19 DEF Step

LEMMA PutRows ==
    ASSUME NEW pk, NEW row
    PROVE  /\ DOMAIN Put(pk, row) = DOMAIN reviews \union {pk}
           /\ Put(pk, row)[pk] = row
           /\ \A k \in DOMAIN reviews \ {pk} : Put(pk, row)[k] = reviews[k]
  BY DEF Put

LEMMA PutTypes ==
    ASSUME TypeOK, NEW max, 1 .. lastPk \subseteq 1 .. max, NEW pk \in 1 .. max, NEW row \in Review,
           reviews' = Put(pk, row)
    PROVE  DOMAIN reviews' \subseteq 1 .. max /\ \A k \in DOMAIN reviews' : reviews'[k] \in Review
<1>1. /\ DOMAIN reviews' = DOMAIN reviews \union {pk} /\ reviews'[pk] = row
      /\ \A k \in DOMAIN reviews \ {pk} : reviews'[k] = reviews[k]
  BY PutRows
<1>2. DOMAIN reviews \subseteq 1 .. lastPk /\ \A k \in DOMAIN reviews : reviews[k] \in Review
  BY DEF TypeOK
<1>3. DOMAIN reviews' \subseteq 1 .. max
  BY <1>1, <1>2
<1> QED
  BY <1>1, <1>2, <1>3

\* The types of all but the requests.
TablesOK ==
    /\ alive \subseteq Locations
    /\ lastPk \in 0 .. MaxReviews
    /\ DOMAIN reviews \subseteq 1 .. lastPk
    /\ \A pk \in DOMAIN reviews : reviews[pk] \in Review
    /\ votes \subseteq Vote /\ brokerUp \in BOOLEAN
    /\ tasks \subseteq Pks /\ hidden \subseteq Requests /\ shaken \subseteq Requests

LEMMA TypeParts == TypeOK <=> TablesOK /\ request \in [Requests -> Request]
  BY DEF TypeOK, TablesOK

LEMMA SameTables ==
    ASSUME TypeOK, UNCHANGED <<tables, brokerUp>>, tasks' \subseteq Pks, hidden' \subseteq Requests,
           shaken' \subseteq Requests
    PROVE  TablesOK'
  BY DEF TypeOK, TablesOK, tables

LEMMA InsertReviewStep ==
    ASSUME TypeOK, Shapes, RoomOK, Queued, NEW p \in Requests, NEW body \in [Fields -> Contents],
           InsertReview(p, body)
    PROVE  TypeOK' /\ Shapes' /\ RoomOK' /\ Queued'
<1> DEFINE row == [loc |-> request[p].loc, author |-> request[p].user, body |-> body]
<1>1. \A x \in Requests \ {p} : request'[x] = request[x]
  <2>1. \E q : Becomes(p, q)
    BY DEF InsertReview, Answer
  <2> QED
    BY <2>1, BecomesFrame
<1>2. request[p].op \in CreateOps /\ request[p].step = "insert" /\ request[p] \in Request
  BY RequestType DEF InsertReview, Creates, CreateOps
<1>3. CASE Taken(request[p].loc, request[p].user, 0)
  <2>1. lastPk' = lastPk /\ TablesOK' /\ request'[p].step = "done"
    BY <1>3, SameTables, AnswerFacts, RequestType DEF InsertReview, TypeOK, tables, Statuses
  <2>2. RoomOK'
    BY <1>1, <2>1, RoomSame DEF Unsaved
  <2>3. lastPk' \in 0 .. MaxReviews
    BY <2>1 DEF TablesOK
  <2> QED
    BY <2>1, <2>2, <2>3, InsertReviewBasics, TypeParts DEF Basics, TypeOK, TablesOK
<1>4. CASE ~Taken(request[p].loc, request[p].user, 0)
  <2>1. /\ lastPk' = lastPk + 1 /\ reviews' = Put(lastPk + 1, row)
        /\ Becomes(p, [request[p] EXCEPT !.step = "cache", !.pk = lastPk + 1])
        /\ UNCHANGED <<alive, votes, brokerUp, tasks, hidden>> /\ shaken' \subseteq Requests
    BY <1>4 DEF InsertReview, Rivals, TypeOK
  <2>2. request'[p] = [request[p] EXCEPT !.step = "cache", !.pk = lastPk + 1]
    BY <2>1, RequestType DEF Becomes
  <2>3. request'[p].step = "cache"
    BY <1>2, <2>2 DEF Request
  <2>4. RoomOK' /\ lastPk' \in 0 .. MaxReviews
    BY <1>1, <1>2, <2>1, <2>3, RoomInserted DEF Unsaved, Creates, CreateOps
  <2>5. row \in Review
    BY <1>2 DEF Review, Request
  <2>6. lastPk \in Nat /\ DOMAIN reviews \subseteq 1 .. lastPk /\ lastPk + 1 \in 1 .. lastPk'
        /\ 1 .. lastPk \subseteq 1 .. lastPk'
    BY Counted, <2>1 DEF TypeOK
  <2> HIDE DEF row
  <2>7. DOMAIN reviews' \subseteq 1 .. lastPk' /\ \A k \in DOMAIN reviews' : reviews'[k] \in Review
    BY <2>1, <2>5, <2>6, PutTypes
  <2>8. TablesOK'
    BY <2>1, <2>4, <2>7 DEF TablesOK, TypeOK
  <2> QED
    BY <2>4, <2>8, InsertReviewBasics, TypeParts DEF Basics, TypeOK, TablesOK
<1> QED
  BY <1>3, <1>4

LEMMA SaveTables ==
    ASSUME TypeOK, NEW pk \in 1 .. lastPk, NEW row \in Review, reviews' = Put(pk, row),
           UNCHANGED <<alive, lastPk, votes, brokerUp, tasks>>,
           hidden' \subseteq Requests, shaken' \subseteq Requests
    PROVE  TablesOK'
<1>1. DOMAIN reviews' \subseteq 1 .. lastPk /\ \A k \in DOMAIN reviews' : reviews'[k] \in Review
  BY PutTypes
<1> QED
  BY <1>1 DEF TablesOK, TypeOK

LEMMA SaveReviewTables ==
    ASSUME TypeOK, NEW p \in Requests, SaveReview(p)
    PROVE  TablesOK'
<1> DEFINE q == request[p]
           row == [reviews[q.pk] EXCEPT !.body = Patched(reviews[q.pk].body, q.patch)]
<1>1. CASE UNCHANGED reviews
  BY <1>1, SameTables DEF SaveReview, tables, rest, TypeOK
<1>2. CASE q.pk \in DOMAIN reviews /\ reviews' = Put(q.pk, row)
  <2>1. reviews[q.pk] \in Review /\ q.pk \in 1 .. lastPk /\ q.patch \in Patches
    BY <1>2, RequestType DEF TypeOK, Request
  <2>2. Patched(reviews[q.pk].body, q.patch) \in [Fields -> Contents]
    BY <2>1 DEF Patched, Patches, Review
  <2>3. row \in Review
    BY <2>1, <2>2 DEF Review
  <2> HIDE DEF row
  <2> QED
    BY <1>2, <2>1, <2>3, SaveTables DEF SaveReview, rest, TypeOK
<1> QED
  BY <1>1, <1>2 DEF SaveReview

LEMMA SaveFormTables ==
    ASSUME TypeOK, Shapes, NEW p \in Requests, SaveForm(p)
    PROVE  TablesOK'
<1>1. hidden' \subseteq Requests /\ shaken' \subseteq Requests
  BY DEF SaveForm, Rivals, Others, TypeOK
<1>2. CASE UNCHANGED reviews
  BY <1>1, <1>2, SameTables DEF SaveForm, tables, TypeOK
<1>3. CASE reviews' = Put(request[p].pk, request[p].copy)
  <2>1. request[p].copy \in Review /\ request[p].pk \in 1 .. lastPk
    BY ShapeAt DEF ShapeOK, SaveForm, At, CreateOps
  <2> QED
    BY <1>1, <1>3, <2>1, SaveTables DEF SaveForm
<1> QED
  BY <1>2, <1>3 DEF SaveForm

LEMMA RemoveReviewTables ==
    ASSUME TypeOK, NEW p \in Requests, RemoveReview(p)
    PROVE  TablesOK'
<1>1. /\ votes' \subseteq votes /\ DOMAIN reviews' \subseteq DOMAIN reviews
      /\ \A k \in DOMAIN reviews' : reviews'[k] = reviews[k]
      /\ UNCHANGED <<alive, lastPk, brokerUp, tasks, hidden>> /\ shaken' \subseteq Requests
  BY DEF RemoveReview, Without, Others, TypeOK
<1> QED
  BY <1>1 DEF TypeOK, TablesOK

LEMMA VoteTables ==
    ASSUME TypeOK, Shapes, NEW p \in Requests, InsertVote(p) \/ RemoveVote(p)
    PROVE  TablesOK'
<1> DEFINE vote == [review |-> request[p].pk, user |-> request[p].user]
<1>1. /\ votes' \subseteq votes \union {vote}
      /\ InsertVote(p) \/ votes' \subseteq votes
      /\ UNCHANGED <<alive, reviews, lastPk, brokerUp, tasks, hidden>> /\ shaken' \subseteq Requests
  BY DEF InsertVote, RemoveVote, rest, TypeOK
<1>2. CASE InsertVote(p)
  <2>1. request[p].pk \in 1 .. lastPk
    BY <1>2, ShapeAt DEF InsertVote, At, ShapeOK, CreateOps
  <2>2. vote \in Vote
    BY <2>1, Counted, RequestType DEF Vote, Request
  <2> QED
    BY <1>1, <2>2 DEF TypeOK, TablesOK
<1>3. CASE votes' \subseteq votes
  BY <1>1, <1>3 DEF TypeOK, TablesOK
<1> QED
  BY <1>1, <1>2, <1>3

LEMMA UnsavedGoto ==
    ASSUME TypeOK, NEW p \in Requests,
           NEW step \in {"check", "insert", "save", "cache", "publish", "read"}, Goto(p, step),
           step \in {"check", "insert"} => Unsaved(p) \/ request[p].op \notin CreateOps
    PROVE  Unsaved(p)' => Unsaved(p)
<1>1. request'[p].step = step /\ request'[p].op = request[p].op
  BY GotoFacts, RequestType
<1> QED
  BY <1>1 DEF Unsaved, Creates, CreateOps

LEMMA UnsavedAnswer ==
    ASSUME TypeOK, NEW p \in Requests, NEW status \in Statuses \union {NoAnswer}, Answer(p, status)
    PROVE  ~Unsaved(p)'
<1>1. request'[p].step = "done"
  BY AnswerFacts, RequestType
<1> QED
  BY <1>1 DEF Unsaved

\* No step but an insert uses up the room, and none but a send asks for it.
LEMMA StepUnsaved ==
    ASSUME TypeOK, Shapes, NEW p \in Requests,
           \/ RejectBody(p) \/ GetLocation(p) \/ CheckReview(p) \/ RefreshCache(p) \/ CacheOutage(p) \/ Publish(p)
           \/ GetReview(p) \/ SaveReview(p) \/ SweepVotes(p) \/ RemoveReview(p)
           \/ (\E l \in Locations, u \in Users, patch \in Patches : ValidateForm(p, l, u, patch))
           \/ SaveForm(p) \/ CheckVote(p) \/ InsertVote(p) \/ RemoveVote(p) \/ Read(p) \/ Kill(p)
    PROVE  lastPk' = lastPk /\ (Unsaved(p)' => Unsaved(p))
<1>0. RejectBody(p) => lastPk' = lastPk /\ (Unsaved(p)' => Unsaved(p))
  BY UnsavedAnswer DEF RejectBody, Statuses, tables
<1>1. GetLocation(p) => lastPk' = lastPk /\ (Unsaved(p)' => Unsaved(p))
  BY UnsavedGoto, UnsavedAnswer DEF GetLocation, Statuses, tables, Unsaved, Creates
<1>2. CheckReview(p) => lastPk' = lastPk /\ (Unsaved(p)' => Unsaved(p))
  BY UnsavedGoto, UnsavedAnswer DEF CheckReview, Statuses, tables, Unsaved, Creates
<1>3. RefreshCache(p) => lastPk' = lastPk /\ (Unsaved(p)' => Unsaved(p))
  BY UnsavedGoto, UnsavedAnswer DEF RefreshCache, Statuses, tables
<1>4. CacheOutage(p) \/ Kill(p) \/ RemoveVote(p) => lastPk' = lastPk /\ (Unsaved(p)' => Unsaved(p))
  BY UnsavedAnswer DEF CacheOutage, Kill, RemoveVote, Statuses, NoAnswer, tables
<1>5. Publish(p) => lastPk' = lastPk /\ (Unsaved(p)' => Unsaved(p))
  BY UnsavedGoto, UnsavedAnswer DEF Publish, Statuses, tables
<1>6. GetReview(p) => lastPk' = lastPk /\ (Unsaved(p)' => Unsaved(p))
  <2>1. SUFFICES ASSUME GetReview(p) PROVE lastPk' = lastPk /\ (Unsaved(p)' => Unsaved(p))
    OBVIOUS
  <2>2. request[p].op \notin CreateOps
    BY <2>1, ShapeAt DEF GetReview, ShapeOK, NextStep, CreateOps
  <2>3. CASE Answer(p, 404) \/ Answer(p, 403)
    BY <2>1, <2>3, UnsavedAnswer DEF GetReview, Statuses, tables
  <2>4. CASE request'[p].op = request[p].op
    BY <2>1, <2>2, <2>4 DEF GetReview, tables, Unsaved, Creates, CreateOps
  <2>5. ASSUME NEW step, NEW copy, Becomes(p, [request[p] EXCEPT !.step = step, !.copy = copy])
        PROVE  request'[p].op = request[p].op
    BY <2>5, RequestType DEF Becomes, Request
  <2> QED
    BY <2>1, <2>3, <2>4, <2>5 DEF GetReview
<1>7. SaveReview(p) => lastPk' = lastPk /\ (Unsaved(p)' => Unsaved(p))
  BY UnsavedGoto, UnsavedAnswer DEF SaveReview, Statuses
<1>8. SweepVotes(p) => lastPk' = lastPk /\ (Unsaved(p)' => Unsaved(p))
  <2>1. ASSUME NEW swept, Becomes(p, [request[p] EXCEPT !.step = "remove", !.swept = swept])
        PROVE  request'[p].step = "remove"
    BY <2>1, RequestType DEF Becomes, Request
  <2> QED
    BY <2>1 DEF SweepVotes, tables, Unsaved
<1>9. RemoveReview(p) => lastPk' = lastPk /\ (Unsaved(p)' => Unsaved(p))
  BY UnsavedGoto, UnsavedAnswer DEF RemoveReview, Statuses
<1>10. ASSUME NEW l \in Locations, NEW u \in Users, NEW patch \in Patches, ValidateForm(p, l, u, patch)
       PROVE  lastPk' = lastPk /\ (Unsaved(p)' => Unsaved(p))
  <2>1. lastPk' = lastPk
    BY <1>10 DEF ValidateForm, tables
  <2>2. ASSUME NEW copy, Becomes(p, [request[p] EXCEPT !.step = "save", !.copy = copy])
        PROVE  ~Unsaved(p)'
    <3>1. request'[p].step = "save"
      BY <2>2, RequestType DEF Becomes, Request
    <3> QED
      BY <3>1 DEF Unsaved
  <2>3. CASE Answer(p, 404) \/ Answer(p, 400)
    BY <2>1, <2>3, UnsavedAnswer DEF Statuses
  <2> QED
    BY <1>10, <2>1, <2>2, <2>3 DEF ValidateForm
<1>11. SaveForm(p) => lastPk' = lastPk /\ (Unsaved(p)' => Unsaved(p))
  BY UnsavedGoto, UnsavedAnswer DEF SaveForm, Statuses
<1>12. CheckVote(p) => lastPk' = lastPk /\ (Unsaved(p)' => Unsaved(p))
  BY UnsavedGoto, UnsavedAnswer DEF CheckVote, At, CreateOps, Statuses, tables
<1>13. InsertVote(p) => lastPk' = lastPk /\ (Unsaved(p)' => Unsaved(p))
  BY UnsavedGoto, UnsavedAnswer DEF InsertVote, Statuses
<1>14. Read(p) => lastPk' = lastPk /\ (Unsaved(p)' => Unsaved(p))
  BY UnsavedAnswer DEF Read, Statuses, tables
<1> QED
  BY <1>0, <1>1, <1>2, <1>3, <1>4, <1>5, <1>6, <1>7, <1>8, <1>9, <1>10, <1>11, <1>12, <1>13, <1>14

LEMMA StepTables ==
    ASSUME TypeOK, Shapes, NEW p \in Requests,
           \/ RejectBody(p) \/ GetLocation(p) \/ CheckReview(p) \/ RefreshCache(p) \/ CacheOutage(p) \/ Publish(p)
           \/ GetReview(p) \/ SaveReview(p) \/ SweepVotes(p) \/ RemoveReview(p)
           \/ (\E l \in Locations, u \in Users, patch \in Patches : ValidateForm(p, l, u, patch))
           \/ SaveForm(p) \/ CheckVote(p) \/ InsertVote(p) \/ RemoveVote(p) \/ Read(p) \/ Kill(p)
    PROVE  TablesOK'
<1>1. RejectBody(p) \/ GetLocation(p) \/ CheckReview(p) \/ RefreshCache(p) \/ Read(p) \/ Kill(p) => TablesOK'
  BY SameTables DEF RejectBody, GetLocation, CheckReview, RefreshCache, Read, Kill, rest, TypeOK
<1>2. GetReview(p) \/ SweepVotes(p) \/ CheckVote(p) => TablesOK'
  BY SameTables DEF GetReview, SweepVotes, CheckVote, rest, TypeOK
<1>3. ASSUME NEW l, NEW u, NEW patch, ValidateForm(p, l, u, patch) PROVE TablesOK'
  BY <1>3, SameTables DEF ValidateForm, rest, TypeOK
<1>4. CacheOutage(p) => TablesOK'
  BY SameTables DEF CacheOutage, TypeOK
<1>5. Publish(p) => TablesOK'
  <2>1. ShapeOK(request[p], lastPk)
    BY ShapeAt
  <2>2. Publish(p) => request[p].pk \in Pks
    BY <2>1, Counted DEF Publish, At, ShapeOK, CreateOps
  <2>3. Publish(p) => tasks' \subseteq Pks /\ shaken' \subseteq Requests /\ hidden' \subseteq Requests
    BY <2>2 DEF Publish, TypeOK
  <2> QED
    BY <2>3, SameTables DEF Publish
<1> QED
  BY <1>1, <1>2, <1>3, <1>4, <1>5, SaveReviewTables, RemoveReviewTables, SaveFormTables, VoteTables

LEMMA StepBasics ==
    ASSUME TypeOK, Shapes, Queued, NEW p \in Requests,
           \/ RejectBody(p) \/ GetLocation(p) \/ CheckReview(p) \/ RefreshCache(p) \/ CacheOutage(p) \/ Publish(p)
           \/ GetReview(p) \/ SaveReview(p) \/ SweepVotes(p) \/ RemoveReview(p)
           \/ (\E l \in Locations, u \in Users, patch \in Patches : ValidateForm(p, l, u, patch))
           \/ SaveForm(p) \/ CheckVote(p) \/ InsertVote(p) \/ RemoveVote(p) \/ Read(p) \/ Kill(p)
    PROVE  Basics
  BY RejectBodyBasics, GetLocationBasics, CheckReviewBasics, RefreshCacheBasics, EndBasics, PublishBasics, GetReviewBasics,
     SaveReviewBasics, SweepVotesBasics, RemoveReviewBasics, ValidateFormBasics, SaveFormBasics,
     CheckVoteBasics, InsertVoteBasics

LEMMA ReadOps == Operations \ {"create", "formCreate", "update"} \subseteq Operations \ CreateOps
  BY DEF CreateOps

LEMMA SendTypes ==
    ASSUME TypeOK, Shapes, RoomOK, Queued, NEW p \in Requests, Send(p)
    PROVE  TypeOK' /\ Shapes' /\ RoomOK' /\ Queued'
<1>1. ASSUME NEW u \in Users, NEW l \in Locations, NEW op \in CreateOps, SendCreate(p, op, u, l)
      PROVE  TypeOK' /\ Shapes' /\ RoomOK' /\ Queued'
  <2>1. Basics
    BY <1>1, SendCreateBasics
  <2>2. TablesOK'
    BY <1>1, SameTables DEF SendCreate, Begin, TypeOK
  <2>3. \A x \in Requests \ {p} : request'[x] = request[x]
    BY <1>1, BecomesFrame DEF SendCreate
  <2>4. RoomOK'
    BY <1>1, <2>3, RoomSent DEF SendCreate, Unsaveds, tables
  <2> QED
    BY <2>1, <2>2, <2>4, TypeParts DEF Basics, TypeOK, TablesOK
<1>2. ASSUME NEW u \in Users, NEW pk \in Pks, NEW op \in Operations \ CreateOps, NEW patch \in Patches,
             SendOn(p, op, u, pk, patch)
      PROVE  TypeOK' /\ Shapes' /\ RoomOK' /\ Queued'
  <2>1. Basics
    BY <1>2, SendOnBasics
  <2>2. TablesOK'
    BY <1>2, SameTables DEF SendOn, Begin, TypeOK
  <2>3. \A x \in Requests \ {p} : request'[x] = request[x]
    BY <1>2, BecomesFrame DEF SendOn
  <2>4. request'[p].op = op
    <3> DEFINE q == NewOn(op, u, pk, patch)
    <3>1. Becomes(p, q)
      BY <1>2 DEF SendOn, NewOn
    <3>2. q \in Request /\ q.op = op
      BY NewOnFacts
    <3> HIDE DEF q
    <3> QED
      BY <3>1, <3>2, BecomesFacts, RequestType
  <2>5. RoomOK'
    BY <1>2, <2>3, <2>4, RoomSame DEF SendOn, tables, Unsaved, Creates, CreateOps
  <2> QED
    BY <2>1, <2>2, <2>5, TypeParts DEF Basics, TypeOK, TablesOK
<1>3. <<>> \in Patches /\ "update" \in Operations \ CreateOps
  BY Types DEF CreateOps, Operations
<1> QED
  BY <1>1, <1>2, <1>3, ReadOps DEF Send, CreateOps

LEMMA SystemTypes ==
    ASSUME TypeOK, Shapes, RoomOK, Queued,
           (\E l \in Locations : SoftDelete(l) \/ Restore(l)) \/ BrokerOutage \/ UNCHANGED vars
    PROVE  TypeOK' /\ Shapes' /\ RoomOK' /\ Queued'
<1>1. UNCHANGED <<request, lastPk, tasks, reviews, votes>>
  BY DEF SoftDelete, Restore, BrokerOutage, tables, vars
<1>2. TablesOK'
  BY DEF SoftDelete, Restore, BrokerOutage, tables, vars, TypeOK, TablesOK
<1>3. Basics
  BY <1>1, SystemBasics
<1>4. RoomOK'
  BY <1>1 DEF RoomOK, Unsaveds, Unsaved, Creates
<1> QED
  BY <1>2, <1>3, <1>4, TypeParts DEF Basics, TypeOK, TablesOK

LEMMA NextTypes ==
    ASSUME TypeOK, Shapes, RoomOK, Queued, [Next]_vars
    PROVE  TypeOK' /\ Shapes' /\ RoomOK' /\ Queued'
<1>1. ASSUME NEW p \in Requests,
             \/ RejectBody(p) \/ GetLocation(p) \/ CheckReview(p) \/ RefreshCache(p) \/ CacheOutage(p) \/ Publish(p)
             \/ GetReview(p) \/ SaveReview(p) \/ SweepVotes(p) \/ RemoveReview(p)
             \/ (\E l \in Locations, u \in Users, patch \in Patches : ValidateForm(p, l, u, patch))
             \/ SaveForm(p) \/ CheckVote(p) \/ InsertVote(p) \/ RemoveVote(p) \/ Read(p) \/ Kill(p)
      PROVE  TypeOK' /\ Shapes' /\ RoomOK' /\ Queued'
  <2>1. Basics /\ TablesOK' /\ lastPk' = lastPk /\ (Unsaved(p)' => Unsaved(p))
    BY <1>1, StepBasics, StepTables, StepUnsaved
  <2>2. \A x \in Requests \ {p} : request'[x] = request[x]
    BY <1>1, Frame DEF Step
  <2>3. RoomOK'
    BY <2>1, <2>2, RoomSame
  <2> QED
    BY <2>1, <2>3, TypeParts DEF Basics, TypeOK, TablesOK
<1>2. ASSUME NEW p \in Requests, NEW c \in Contents, InsertReview(p, [f \in Fields |-> c])
      PROVE  TypeOK' /\ Shapes' /\ RoomOK' /\ Queued'
  BY <1>2, InsertReviewStep
<1> QED
  BY <1>1, <1>2, SendTypes, SystemTypes DEF Next, Step
-----------------------------------------------------------------------------
(* The tables and the rows that come back.                                 *)

\* What happens to the rows in one step: nothing, or what one request does to one row.
Inserts(p) ==
    \E c \in Contents :
        /\ ~Taken(request[p].loc, request[p].user, 0)
        /\ reviews' = Put(lastPk + 1, [loc |-> request[p].loc, author |-> request[p].user,
                                      body |-> [f \in Fields |-> c]])
        /\ lastPk' = lastPk + 1 /\ UNCHANGED <<alive, votes, hidden>>
        /\ shaken' = shaken \union (Rivals(request[p].loc, request[p].user) \ {p})

Updates(p) ==
    LET q == request[p] IN
    /\ At(p, "update", "save") /\ q.pk \in DOMAIN reviews
    /\ reviews' = Put(q.pk, [reviews[q.pk] EXCEPT !.body = Patched(reviews[q.pk].body, q.patch)])
    /\ request'[p].step = "cache"
    /\ UNCHANGED <<alive, lastPk, votes, hidden, shaken>>

Saves(p) ==
    LET q == request[p] IN
    /\ At(p, "formEdit", "save") /\ ~Taken(q.copy.loc, q.copy.author, q.pk)
    /\ reviews' = Put(q.pk, q.copy)
    /\ request'[p].step = "cache"
    /\ hidden' = {x \in hidden : Free(x) \/ request[x].pk # q.pk}
    /\ shaken' = shaken \union (Rivals(q.copy.loc, q.copy.author) \ {p}) \union Others(p)
    /\ UNCHANGED <<alive, lastPk, votes>>

Removes(p) ==
    LET q == request[p] IN
    /\ q.step = "remove" /\ VotesOn(q.pk) \subseteq q.swept
    /\ reviews' = Without(q.pk) /\ votes' = votes \ q.swept
    /\ shaken' = shaken \union Others(p)
    /\ UNCHANGED <<alive, lastPk, hidden>>

RowStep(p) == Inserts(p) \/ Updates(p) \/ Saves(p) \/ Removes(p)

\* The table after a row is put, with the key and the row left abstract.
LEMMA PutNext ==
    ASSUME NEW pk, NEW row, reviews' = Put(pk, row)
    PROVE  /\ DOMAIN reviews' = DOMAIN reviews \union {pk}
           /\ reviews'[pk] = row
           /\ \A k \in DOMAIN reviews \ {pk} : reviews'[k] = reviews[k]
  BY DEF Put

LEMMA SaveReviewRows ==
    ASSUME TypeOK, NEW p \in Requests, SaveReview(p)
    PROVE  UNCHANGED tables \/ Updates(p)
<1>1. CASE UNCHANGED reviews
  BY <1>1 DEF SaveReview, tables
<1>2. CASE Goto(p, "cache")
  <2>1. request'[p].step = "cache"
    BY <1>2, GotoFacts, RequestType
  <2> QED
    BY <1>1, <2>1 DEF SaveReview, Updates, tables, rest
<1> QED
  BY <1>1, <1>2 DEF SaveReview

LEMMA SaveFormRows ==
    ASSUME TypeOK, NEW p \in Requests, SaveForm(p)
    PROVE  UNCHANGED tables \/ Saves(p)
<1>1. CASE UNCHANGED reviews
  BY <1>1 DEF SaveForm, tables
<1>2. CASE Goto(p, "cache")
  <2>1. request'[p].step = "cache"
    BY <1>2, GotoFacts, RequestType
  <2> QED
    BY <1>1, <2>1 DEF SaveForm, Saves, tables
<1> QED
  BY <1>1, <1>2 DEF SaveForm

LEMMA RemoveReviewRows ==
    ASSUME NEW p \in Requests, RemoveReview(p)
    PROVE  UNCHANGED tables \/ Removes(p)
<1>1. CASE VotesOn(request[p].pk) \subseteq request[p].swept
  BY <1>1 DEF RemoveReview, Removes
<1>2. CASE ~(VotesOn(request[p].pk) \subseteq request[p].swept)
  BY <1>2 DEF RemoveReview, tables
<1> QED
  BY <1>1, <1>2

LEMMA InsertReviewRows ==
    ASSUME NEW p \in Requests, NEW c \in Contents, InsertReview(p, [f \in Fields |-> c])
    PROVE  UNCHANGED tables \/ Inserts(p)
<1>1. CASE Taken(request[p].loc, request[p].user, 0)
  BY <1>1 DEF InsertReview
<1>2. CASE ~Taken(request[p].loc, request[p].user, 0)
  BY <1>2 DEF InsertReview, Inserts
<1> QED
  BY <1>1, <1>2

LEMMA StepRows ==
    ASSUME TypeOK, NEW p \in Requests, Step(p) \/ Kill(p)
    PROVE  /\ alive' = alive /\ hidden' \subseteq hidden /\ shaken \subseteq shaken'
           /\ \/ UNCHANGED reviews /\ (votes' \subseteq votes \/ InsertVote(p))
              \/ RowStep(p)
<1> DEFINE Same == alive' = alive /\ hidden' \subseteq hidden /\ shaken \subseteq shaken'
           Kept == UNCHANGED reviews /\ votes' \subseteq votes
<1>1. CASE RejectBody(p) \/ GetLocation(p) \/ CheckReview(p) \/ RefreshCache(p) \/ CacheOutage(p) \/ Publish(p)
  <2>1. Same
    BY <1>1 DEF RejectBody, GetLocation, CheckReview, RefreshCache, CacheOutage, Publish, tables, rest
  <2>2. Kept
    BY <1>1 DEF RejectBody, GetLocation, CheckReview, RefreshCache, CacheOutage, Publish, tables
  <2> QED
    BY <2>1, <2>2
<1>2. CASE \/ GetReview(p) \/ SweepVotes(p) \/ CheckVote(p) \/ Read(p) \/ Kill(p) \/ RemoveVote(p)
           \/ \E l \in Locations, u \in Users, patch \in Patches : ValidateForm(p, l, u, patch)
  <2>1. Same
    BY <1>2 DEF GetReview, SweepVotes, CheckVote, Read, Kill, RemoveVote, ValidateForm, tables, rest
  <2>2. Kept
    BY <1>2 DEF GetReview, SweepVotes, CheckVote, Read, Kill, RemoveVote, ValidateForm, tables
  <2> QED
    BY <2>1, <2>2
<1>3. CASE InsertVote(p)
  BY <1>3 DEF InsertVote
<1>4. UNCHANGED tables => Kept
  BY DEF tables
<1>5. CASE \E c \in Contents : InsertReview(p, [f \in Fields |-> c])
  <2>1. Same
    BY <1>5 DEF InsertReview, tables
  <2> QED
    BY <1>4, <1>5, <2>1, InsertReviewRows DEF RowStep
<1>6. CASE SaveReview(p) \/ SaveForm(p) \/ RemoveReview(p)
  <2>1. Same
    BY <1>6 DEF SaveReview, SaveForm, RemoveReview, rest
  <2> QED
    BY <1>4, <1>6, <2>1, SaveReviewRows, SaveFormRows, RemoveReviewRows DEF RowStep
<1> QED
  BY <1>1, <1>2, <1>3, <1>5, <1>6 DEF Step

LEMMA NextRows ==
    ASSUME TypeOK, [Next]_vars
    PROVE  \/ UNCHANGED reviews /\ (votes' \subseteq votes \/ \E p \in Requests : InsertVote(p))
           \/ \E p \in Requests : RowStep(p)
<1>1. ASSUME NEW p \in Requests, Send(p) PROVE UNCHANGED reviews /\ votes' \subseteq votes
  BY <1>1 DEF Send, SendCreate, SendOn, tables
<1>2. (\E l \in Locations : SoftDelete(l) \/ Restore(l)) \/ BrokerOutage \/ UNCHANGED vars
          => UNCHANGED reviews /\ votes' \subseteq votes
  BY DEF SoftDelete, Restore, BrokerOutage, tables, vars
<1> QED
  BY <1>1, <1>2, StepRows DEF Next

\* The rows of other keys stay as they are.
LEMMA RowKept ==
    ASSUME TypeOK, Shapes, NEW p \in Requests, RowStep(p)
    PROVE  /\ Inserts(p) =>
                /\ DOMAIN reviews' = DOMAIN reviews \union {lastPk + 1}
                /\ reviews'[lastPk + 1].loc = request[p].loc
                /\ reviews'[lastPk + 1].author = request[p].user
                /\ lastPk + 1 \notin DOMAIN reviews
                /\ \A k \in DOMAIN reviews : reviews'[k] = reviews[k]
           /\ Updates(p) =>
                /\ DOMAIN reviews' = DOMAIN reviews
                /\ request[p].pk \in DOMAIN reviews
                /\ reviews'[request[p].pk].loc = reviews[request[p].pk].loc
                /\ reviews'[request[p].pk].author = reviews[request[p].pk].author
                /\ \A k \in DOMAIN reviews \ {request[p].pk} : reviews'[k] = reviews[k]
           /\ Saves(p) =>
                /\ DOMAIN reviews' = DOMAIN reviews \union {request[p].pk}
                /\ reviews'[request[p].pk] = request[p].copy
                /\ request[p].copy \in Review
                /\ \A k \in DOMAIN reviews \ {request[p].pk} : reviews'[k] = reviews[k]
           /\ Removes(p) =>
                /\ DOMAIN reviews' = DOMAIN reviews \ {request[p].pk}
                /\ \A k \in DOMAIN reviews' : reviews'[k] = reviews[k]
<1>1. DOMAIN reviews \subseteq 1 .. lastPk /\ lastPk \in Nat /\ lastPk + 1 \notin 1 .. lastPk
  BY Counted DEF TypeOK
<1>2. ASSUME Inserts(p)
      PROVE  /\ DOMAIN reviews' = DOMAIN reviews \union {lastPk + 1}
             /\ reviews'[lastPk + 1].loc = request[p].loc
             /\ reviews'[lastPk + 1].author = request[p].user
             /\ lastPk + 1 \notin DOMAIN reviews
             /\ \A k \in DOMAIN reviews : reviews'[k] = reviews[k]
  <2>1. PICK c \in Contents :
            reviews' = Put(lastPk + 1, [loc |-> request[p].loc, author |-> request[p].user,
                                      body |-> [f \in Fields |-> c]])
    BY <1>2 DEF Inserts
  <2> DEFINE row == [loc |-> request[p].loc, author |-> request[p].user, body |-> [f \in Fields |-> c]]
  <2>2. row.loc = request[p].loc /\ row.author = request[p].user
    OBVIOUS
  <2> DEFINE pk == lastPk + 1
  <2>3. reviews' = Put(pk, row)
    BY <2>1
  <2>5. pk \notin DOMAIN reviews
    BY <1>1
  <2> HIDE DEF row, pk
  <2>4. /\ DOMAIN reviews' = DOMAIN reviews \union {pk}
        /\ reviews'[pk] = row
        /\ \A k \in DOMAIN reviews \ {pk} : reviews'[k] = reviews[k]
    BY <2>3, PutNext
  <2>6. /\ DOMAIN reviews' = DOMAIN reviews \union {pk}
        /\ reviews'[pk].loc = request[p].loc
        /\ reviews'[pk].author = request[p].user
        /\ pk \notin DOMAIN reviews
        /\ \A k \in DOMAIN reviews : reviews'[k] = reviews[k]
    BY <2>2, <2>4, <2>5
  <2> QED
    BY <2>6 DEF pk
<1>3. ASSUME Updates(p)
      PROVE  /\ DOMAIN reviews' = DOMAIN reviews
             /\ request[p].pk \in DOMAIN reviews
             /\ reviews'[request[p].pk].loc = reviews[request[p].pk].loc
             /\ reviews'[request[p].pk].author = reviews[request[p].pk].author
             /\ \A k \in DOMAIN reviews \ {request[p].pk} : reviews'[k] = reviews[k]
  <2> DEFINE q == request[p]
             old == reviews[q.pk]
             row == [old EXCEPT !.body = Patched(old.body, q.patch)]
  <2>1. reviews' = Put(q.pk, row) /\ q.pk \in DOMAIN reviews
    BY <1>3 DEF Updates
  <2>2. old \in Review
    BY <2>1 DEF TypeOK
  <2>3. row.loc = old.loc /\ row.author = old.author
    <3> HIDE DEF old
    <3> QED
      BY <2>2 DEF Review
  <2> HIDE DEF row
  <2> QED
    BY <2>1, <2>3, PutRows
<1>4. ASSUME Saves(p)
      PROVE  /\ DOMAIN reviews' = DOMAIN reviews \union {request[p].pk}
             /\ reviews'[request[p].pk] = request[p].copy
             /\ request[p].copy \in Review
             /\ \A k \in DOMAIN reviews \ {request[p].pk} : reviews'[k] = reviews[k]
  <2>1. request[p].copy \in Review
    BY <1>4, ShapeAt DEF Saves, At, ShapeOK
  <2> DEFINE pk == request[p].pk
             row == request[p].copy
  <2>2. reviews' = Put(pk, row)
    BY <1>4 DEF Saves
  <2>3. /\ DOMAIN reviews' = DOMAIN reviews \union {pk}
        /\ reviews'[pk] = row
        /\ \A k \in DOMAIN reviews \ {pk} : reviews'[k] = reviews[k]
    <3> HIDE DEF pk, row
    <3> QED
      BY <2>2, PutNext
  <2> QED
    BY <2>1, <2>3
<1>5. ASSUME Removes(p)
      PROVE  /\ DOMAIN reviews' = DOMAIN reviews \ {request[p].pk}
             /\ \A k \in DOMAIN reviews' : reviews'[k] = reviews[k]
  BY <1>5 DEF Removes, Without
<1> QED
  BY <1>2, <1>3, <1>4, <1>5

\* One review per user and location: the insert and the form look at the unique
\* constraint in the same statement.
LEMMA RowsUnique ==
    ASSUME TypeOK, Shapes, TablesConsistent, NEW p \in Requests, RowStep(p)
    PROVE  \A a, b \in DOMAIN reviews' :
              reviews'[a].loc = reviews'[b].loc /\ reviews'[a].author = reviews'[b].author => a = b
<1>1. \A a, b \in DOMAIN reviews :
          reviews[a].loc = reviews[b].loc /\ reviews[a].author = reviews[b].author => a = b
  BY DEF TablesConsistent
<1>2. CASE Inserts(p)
  <2>1. \A k \in DOMAIN reviews : ~(reviews[k].loc = request[p].loc /\ reviews[k].author = request[p].user)
    <3>1. 0 \notin DOMAIN reviews
      BY Counted DEF TypeOK
    <3> QED
      BY <1>2, <3>1 DEF Inserts, Taken
  <2> DEFINE pk == lastPk + 1
  <2>2. /\ DOMAIN reviews' = DOMAIN reviews \union {pk}
        /\ reviews'[pk].loc = request[p].loc /\ reviews'[pk].author = request[p].user
        /\ \A k \in DOMAIN reviews : reviews'[k] = reviews[k]
    BY <1>2, RowKept
  <2> HIDE DEF pk
  <2> QED
    BY <1>1, <2>1, <2>2
<1>3. CASE Updates(p)
  <2>1. /\ DOMAIN reviews' = DOMAIN reviews
        /\ \A k \in DOMAIN reviews :
              reviews'[k].loc = reviews[k].loc /\ reviews'[k].author = reviews[k].author
    BY <1>3, RowKept
  <2> QED
    BY <1>1, <2>1
<1>4. CASE Saves(p)
  <2>1. \A k \in DOMAIN reviews \ {request[p].pk} :
            ~(reviews[k].loc = request[p].copy.loc /\ reviews[k].author = request[p].copy.author)
    BY <1>4 DEF Saves, Taken
  <2> DEFINE pk == request[p].pk
             row == request[p].copy
  <2>2. /\ DOMAIN reviews' = DOMAIN reviews \union {pk} /\ reviews'[pk] = row
        /\ \A k \in DOMAIN reviews \ {pk} : reviews'[k] = reviews[k]
    BY <1>4, RowKept
  <2>3. \A k \in DOMAIN reviews \ {pk} : ~(reviews[k].loc = row.loc /\ reviews[k].author = row.author)
    BY <2>1
  <2> HIDE DEF pk, row
  <2> QED
    BY <1>1, <2>2, <2>3
<1>5. CASE Removes(p)
  BY <1>1, <1>5, RowKept
<1> QED
  BY <1>2, <1>3, <1>4, <1>5 DEF RowStep

\* Every vote has its review: a delete commits only over the votes it has removed.
LEMMA VotesHaveRows ==
    ASSUME TypeOK, Shapes, TablesConsistent, NEW p \in Requests, RowStep(p)
    PROVE  \A v \in votes' : v.review \in DOMAIN reviews'
<1>1. \A v \in votes : v.review \in DOMAIN reviews
  BY DEF TablesConsistent
<1>2. CASE Inserts(p)
  BY <1>1, <1>2, RowKept DEF Inserts
<1>3. CASE Updates(p)
  BY <1>1, <1>3, RowKept DEF Updates
<1>4. CASE Saves(p)
  BY <1>1, <1>4, RowKept DEF Saves
<1>5. CASE Removes(p)
  <2>1. votes' = votes \ request[p].swept /\ VotesOn(request[p].pk) \subseteq request[p].swept
    BY <1>5 DEF Removes
  <2>2. \A v \in votes' : v \in votes /\ v.review # request[p].pk
    BY <2>1 DEF VotesOn
  <2>3. DOMAIN reviews' = DOMAIN reviews \ {request[p].pk}
    BY <1>5, RowKept
  <2> QED
    BY <1>1, <2>2, <2>3
<1> QED
  BY <1>2, <1>3, <1>4, <1>5 DEF RowStep

LEMMA InsertVoteRows ==
    ASSUME NEW p \in Requests, InsertVote(p)
    PROVE  /\ UNCHANGED reviews
           /\ \A v \in votes' : v \in votes \/ v.review \in DOMAIN reviews
<1> DEFINE vote == [review |-> request[p].pk, user |-> request[p].user]
<1>1. vote.review = request[p].pk
  OBVIOUS
<1>2. UNCHANGED reviews /\ (votes' = votes \/ (request[p].pk \in DOMAIN reviews /\ votes' = votes \union {vote}))
  BY DEF InsertVote
<1> QED
  BY <1>1, <1>2

LEMMA NextTables ==
    ASSUME TypeOK, Shapes, TablesConsistent, [Next]_vars
    PROVE  TablesConsistent'
<1>1. CASE UNCHANGED reviews /\ votes' \subseteq votes
  BY <1>1 DEF TablesConsistent
<1>2. CASE \E p \in Requests : InsertVote(p)
  BY <1>2, InsertVoteRows DEF TablesConsistent
<1>3. ASSUME NEW p \in Requests, RowStep(p) PROVE TablesConsistent'
  BY <1>3, RowsUnique, VotesHaveRows DEF TablesConsistent
<1> QED
  BY <1>1, <1>2, <1>3, NextRows

\* Only a form brings a key back, and only a PATCH or a form changes a row.
LEMMA NextDeleted ==
    ASSUME TypeOK, Shapes, [Next]_vars, NEW pk \in 1 .. lastPk,
           pk \notin DOMAIN reviews, pk \in DOMAIN reviews'
    PROVE  FormSaves(pk)
<1>1. PICK p \in Requests : RowStep(p)
  BY NextRows
<1>2. pk # lastPk + 1
  BY Counted
<1>3. Saves(p) /\ pk = request[p].pk
  BY <1>1, <1>2, RowKept DEF RowStep
<1> QED
  BY <1>3 DEF Saves, FormSaves

LEMMA PatchedField ==
    ASSUME NEW body, NEW patch, NEW f \in Fields, f \notin DOMAIN patch
    PROVE  Patched(body, patch)[f] = body[f]
  BY DEF Patched

LEMMA NextRowChange ==
    ASSUME TypeOK, Shapes, [Next]_vars, NEW pk \in DOMAIN reviews, pk \in DOMAIN reviews', ~FormSaves(pk)
    PROVE  /\ reviews'[pk].loc = reviews[pk].loc /\ reviews'[pk].author = reviews[pk].author
           /\ \A f \in Fields :
                 reviews'[pk].body[f] # reviews[pk].body[f] =>
                     \E p \in Requests :
                         /\ At(p, "update", "save") /\ request[p].pk = pk
                         /\ request'[p].step = "cache" /\ f \in DOMAIN request[p].patch
<1>1. CASE UNCHANGED reviews
  BY <1>1
<1>2. ASSUME NEW p \in Requests, RowStep(p), reviews'[pk] # reviews[pk]
      PROVE  Updates(p) /\ request[p].pk = pk
  <2>1. ~(Saves(p) /\ request[p].pk = pk)
    BY DEF FormSaves, Saves
  <2> QED
    BY <1>2, <2>1, RowKept DEF RowStep
<1>3. ASSUME NEW p \in Requests, Updates(p), request[p].pk = pk, NEW f \in Fields,
             reviews'[pk].body[f] # reviews[pk].body[f]
      PROVE  f \in DOMAIN request[p].patch
  <2> DEFINE old == reviews[pk]
             body == Patched(old.body, request[p].patch)
             row == [old EXCEPT !.body = body]
  <2>1. reviews' = Put(pk, row)
    BY <1>3 DEF Updates
  <2>2. old \in Review
    BY DEF TypeOK
  <2>3. row.body = body
    <3> HIDE DEF old, body
    <3> QED
      BY <2>2 DEF Review
  <2>4. reviews'[pk] = row
    <3> HIDE DEF row
    <3> QED
      BY <2>1, PutRows
  <2>5. reviews'[pk].body = body
    BY <2>3, <2>4
  <2>6. body[f] # old.body[f]
    BY <1>3, <2>5
  <2> QED
    BY <2>6, PatchedField
<1>4. ASSUME NEW p \in Requests, RowStep(p), reviews'[pk] # reviews[pk]
      PROVE  /\ reviews'[pk].loc = reviews[pk].loc /\ reviews'[pk].author = reviews[pk].author
             /\ \A f \in Fields :
                 reviews'[pk].body[f] # reviews[pk].body[f] =>
                     /\ At(p, "update", "save") /\ request[p].pk = pk
                     /\ request'[p].step = "cache" /\ f \in DOMAIN request[p].patch
  <2>1. Updates(p) /\ request[p].pk = pk
    BY <1>2, <1>4
  <2>2. reviews'[pk].loc = reviews[pk].loc /\ reviews'[pk].author = reviews[pk].author
    BY <1>4, <2>1, RowKept
  <2>3. At(p, "update", "save") /\ request'[p].step = "cache"
    BY <2>1 DEF Updates
  <2> QED
    BY <1>3, <2>1, <2>2, <2>3
<1> QED
  BY <1>1, <1>4, NextRows

-----------------------------------------------------------------------------
(* What was hidden when the request came.                                  *)

\* The requests of others: what they see of the rows only gets less.
LEMMA HiddenOther ==
    ASSUME NEW x \in Requests, HiddenOK(x), request'[x] = request[x], alive' = alive,
           ~Free(x) /\ request[x].step = "review" /\ Visible(request[x].pk)' => Visible(request[x].pk)
    PROVE  HiddenOK(x)'
  BY DEF HiddenOK, Free, Visible

LEMMA HiddenRow ==
    ASSUME TypeOK, Shapes, NEW p \in Requests, RowStep(p), NEW x \in Requests \ {p},
           request'[x] = request[x], x \in hidden', ~Free(x), request[x].step = "review",
           Visible(request[x].pk)'
    PROVE  Visible(request[x].pk)
<1> DEFINE pk == request[x].pk
           new == lastPk + 1
<1>1. pk \in DOMAIN reviews' /\ reviews'[pk].loc \in alive /\ alive' = alive
  <2>1. alive' = alive
    BY DEF RowStep, Inserts, Updates, Saves, Removes
  <2> QED
    BY <2>1 DEF Visible
<1>2. pk # new
  <2>1. pk \in 1 .. lastPk
    BY ShapeAt DEF ShapeOK, NextStep, CreateOps
  <2> QED
    BY <2>1, Counted
<1>3. pk \in DOMAIN reviews /\ reviews[pk].loc = reviews'[pk].loc
  <2>1. CASE Inserts(p)
    <3>1. DOMAIN reviews' = DOMAIN reviews \union {new} /\ \A k \in DOMAIN reviews : reviews'[k] = reviews[k]
      BY <2>1, RowKept
    <3> HIDE DEF new, pk
    <3> QED
      BY <1>1, <1>2, <3>1
  <2>2. CASE Updates(p)
    BY <1>1, <2>2, RowKept
  <2>3. CASE Saves(p)
    <3>1. pk # request[p].pk
      BY <2>3 DEF Saves
    <3>2. /\ DOMAIN reviews' = DOMAIN reviews \union {request[p].pk}
          /\ \A k \in DOMAIN reviews \ {request[p].pk} : reviews'[k] = reviews[k]
      BY <2>3, RowKept
    <3> HIDE DEF pk
    <3> QED
      BY <1>1, <3>1, <3>2
  <2>4. CASE Removes(p)
    BY <1>1, <2>4, RowKept
  <2> QED
    BY <2>1, <2>2, <2>3, <2>4 DEF RowStep
<1> QED
  BY <1>1, <1>3 DEF Visible

\* The request itself: it is answered 404, or killed, or was malformed.
LEMMA HiddenSelf ==
    ASSUME TypeOK, Shapes, NEW p \in Requests, Step(p) \/ Kill(p), HiddenOK(p)
    PROVE  /\ request'[p].step = "done" /\ UNCHANGED tables
           /\ \/ request'[p].status \in {404, NoAnswer}
              \/ request'[p].op = "create" /\ request'[p].status = 400
<1>1. CASE Kill(p)
  BY <1>1, AnswerFacts, RequestType DEF Kill
<1>2. ShapeOK(request[p], lastPk)
  BY ShapeAt
<1>3. CASE Step(p) /\ ~Free(p) /\ request[p].op = "create" /\ request[p].step = "location" /\ request[p].loc \notin alive
  <2>1. GetLocation(p) \/ RejectBody(p)
    BY <1>3 DEF Step, At, GetLocation, CheckReview, InsertReview, RefreshCache, CacheOutage, Publish, GetReview,
                SaveReview, SweepVotes, RemoveReview, ValidateForm, SaveForm, CheckVote, InsertVote, RemoveVote, Read
  <2>2. Answer(p, 404) \/ Answer(p, 400)
    BY <1>3, <2>1 DEF GetLocation, RejectBody
  <2>3. 404 \in Statuses \union {NoAnswer} /\ 400 \in Statuses \union {NoAnswer}
    BY DEF Statuses
  <2> QED
    BY <1>3, <2>1, <2>2, <2>3, AnswerFacts, RequestType DEF GetLocation, RejectBody
<1>4. CASE Step(p) /\ ~Free(p) /\ request[p].op \notin Forms /\ request[p].step = "review" /\ ~Visible(request[p].pk)
  <2>1. GetReview(p)
    BY <1>4 DEF Step, At, RejectBody, Creates, Forms, GetLocation, CheckReview, InsertReview, RefreshCache, CacheOutage, Publish, GetReview,
                SaveReview, SweepVotes, RemoveReview, ValidateForm, SaveForm, CheckVote, InsertVote, RemoveVote, Read
  <2>2. Answer(p, 404)
    BY <1>4, <2>1 DEF GetReview
  <2>3. 404 \in Statuses \union {NoAnswer}
    BY DEF Statuses
  <2> QED
    BY <2>1, <2>2, <2>3, AnswerFacts, RequestType DEF GetReview
<1>5. Step(p) => request[p].step \notin {"idle", "done"}
  BY DEF Step, At, Free, RejectBody, GetLocation, CheckReview, InsertReview, RefreshCache, CacheOutage, Publish, GetReview,
         SaveReview, SweepVotes, RemoveReview, ValidateForm, SaveForm, CheckVote, InsertVote, RemoveVote, Read
<1> QED
  BY <1>1, <1>3, <1>4, <1>5 DEF HiddenOK, Free

LEMMA SendHidden ==
    ASSUME TypeOK, \A x \in hidden : HiddenOK(x), NEW p \in Requests, Send(p), NEW x \in hidden'
    PROVE  HiddenOK(x)'
<1>1. CASE x # p
  <2>1. UNCHANGED <<alive, reviews>> /\ x \in hidden /\ \E q : Becomes(p, q)
    BY <1>1 DEF Send, SendCreate, SendOn, Begin, tables
  <2>2. request'[x] = request[x] /\ x \in Requests
    BY <1>1, <2>1, BecomesFrame DEF TypeOK
  <2> QED
    BY <2>1, <2>2 DEF HiddenOK, Free, Visible
<1>2. CASE x = p
  <2>1. ASSUME NEW u \in Users, NEW l \in Locations, NEW op \in CreateOps, SendCreate(p, op, u, l)
        PROVE  HiddenOK(p)'
    <3> DEFINE q == NewCreate(op, u, l)
    <3>1. Becomes(p, q) /\ op = "create" /\ l \notin alive /\ alive' = alive
      BY <1>2, <2>1 DEF SendCreate, NewCreate, Begin, tables
    <3>2. q \in Request /\ q.step = "location" /\ q.op = op /\ q.loc = l
      BY NewCreateFacts DEF CreateOps, Operations, Forms
    <3> HIDE DEF q
    <3>3. request'[p] = q
      BY <3>1, <3>2, BecomesFacts, RequestType
    <3> QED
      BY <3>1, <3>2, <3>3 DEF HiddenOK, Free
  <2>2. ASSUME NEW u \in Users, NEW pk \in Pks, NEW op \in Operations \ CreateOps, NEW patch \in Patches,
               SendOn(p, op, u, pk, patch)
        PROVE  HiddenOK(p)'
    <3> DEFINE q == NewOn(op, u, pk, patch)
    <3>1. Becomes(p, q) /\ op \notin Forms /\ UNCHANGED <<alive, reviews>> /\ ~Visible(pk)
      BY <1>2, <2>2 DEF SendOn, NewOn, Begin, tables, Visible
    <3>2. q \in Request /\ q.step = "review" /\ q.op = op /\ q.pk = pk
      BY NewOnFacts
    <3> HIDE DEF q
    <3>3. request'[p] = q
      BY <3>1, <3>2, BecomesFacts, RequestType
    <3> QED
      BY <3>1, <3>2, <3>3 DEF HiddenOK, Free, Visible
  <2>3. <<>> \in Patches /\ "update" \in Operations \ CreateOps
    BY Types DEF CreateOps, Operations
  <2> QED
    BY <1>2, <2>1, <2>2, <2>3, ReadOps DEF Send, CreateOps
<1> QED
  BY <1>1, <1>2

LEMMA StepHidden ==
    ASSUME TypeOK, Shapes, \A x \in hidden : HiddenOK(x), NEW p \in Requests, Step(p) \/ Kill(p),
           NEW x \in hidden'
    PROVE  HiddenOK(x)'
<1>1. x \in hidden /\ x \in Requests /\ HiddenOK(x) /\ alive' = alive
  BY StepRows DEF TypeOK
<1>2. CASE x = p
  BY <1>1, <1>2, HiddenSelf DEF HiddenOK, Free
<1>3. CASE x # p
  <2>1. request'[x] = request[x]
    BY <1>1, <1>3, Frame
  <2>2. ASSUME ~Free(x), request[x].step = "review", Visible(request[x].pk)'
        PROVE  Visible(request[x].pk)
    <3>1. CASE UNCHANGED reviews
      BY <1>1, <2>1, <2>2, <3>1 DEF Visible
    <3>2. CASE RowStep(p)
      BY <1>1, <1>3, <2>1, <2>2, <3>2, HiddenRow
    <3> QED
      BY <3>1, <3>2, StepRows
  <2> QED
    BY <1>1, <2>1, <2>2, HiddenOther
<1> QED
  BY <1>2, <1>3

LEMMA SystemHidden ==
    ASSUME TypeOK, Shapes, \A x \in hidden : HiddenOK(x),
           (\E l \in Locations : SoftDelete(l) \/ Restore(l)) \/ BrokerOutage \/ UNCHANGED vars,
           NEW x \in hidden'
    PROVE  HiddenOK(x)'
<1>1. UNCHANGED <<request, reviews>> /\ x \in hidden /\ x \in Requests
  BY DEF SoftDelete, Restore, BrokerOutage, tables, vars, TypeOK
<1>2. HiddenOK(x)
  BY <1>1
<1>3. CASE alive' \subseteq alive
  BY <1>1, <1>2, <1>3 DEF HiddenOK, Free, Visible
<1>4. ASSUME NEW l \in Locations, Restore(l), ~Free(x) PROVE HiddenOK(x)'
  <2>1. alive' = alive \union {l} /\ ~Concerns(x, l)
    BY <1>4 DEF Restore
  <2>2. CASE request[x].op = "create" /\ request[x].step = "location" /\ request[x].loc \notin alive
    BY <1>1, <1>4, <2>1, <2>2 DEF HiddenOK, Free, Concerns, Creates
  <2>3. CASE request[x].op \notin Forms /\ request[x].step = "review" /\ ~Visible(request[x].pk)
    <3>1. ~Creates(x)
      BY <1>1, <2>3, ShapeAt DEF ShapeOK, NextStep, Creates
    <3> QED
      BY <1>1, <1>4, <2>1, <2>3, <3>1 DEF HiddenOK, Free, Concerns, Visible
  <2> QED
    BY <1>2, <1>4, <2>2, <2>3 DEF HiddenOK
<1>5. CASE Free(x)
  BY <1>1, <1>2, <1>5 DEF HiddenOK, Free
<1> QED
  BY <1>3, <1>4, <1>5 DEF SoftDelete, BrokerOutage, tables, vars

LEMMA NextHidden ==
    ASSUME TypeOK, Shapes, \A x \in hidden : HiddenOK(x), [Next]_vars
    PROVE  (\A x \in hidden : HiddenOK(x))'
  BY SendHidden, StepHidden, SystemHidden DEF Next

-----------------------------------------------------------------------------
(* What an undisturbed request found.                                      *)

\* The row of a key, as a request under way left it: no other request took it away.
LEMMA RowStays ==
    ASSUME TypeOK, Shapes, NEW p \in Requests, RowStep(p), NEW x \in Requests \ {p},
           x \notin shaken', ~Free(x), request[x].pk \in DOMAIN reviews
    PROVE  /\ request[x].pk \in DOMAIN reviews'
           /\ reviews'[request[x].pk].loc = reviews[request[x].pk].loc
<1> DEFINE pk == request[x].pk
           new == lastPk + 1
<1>1. CASE Inserts(p)
  <2>1. DOMAIN reviews' = DOMAIN reviews \union {new} /\ \A k \in DOMAIN reviews : reviews'[k] = reviews[k]
    BY <1>1, RowKept
  <2> HIDE DEF new, pk
  <2> QED
    BY <2>1 DEF pk
<1>2. CASE Updates(p)
  BY <1>2, RowKept
<1>3. CASE Saves(p) \/ Removes(p)
  <2>1. x \notin Others(p)
    BY <1>3 DEF Saves, Removes
  <2>2. pk # request[p].pk
    BY <2>1 DEF Others
  <2>3. /\ pk \in DOMAIN reviews'
        /\ reviews'[pk] = reviews[pk]
    BY <1>3, <2>2, RowKept
  <2> QED
    BY <2>3
<1> QED
  BY <1>1, <1>2, <1>3 DEF RowStep

\* A pair that is free of rows stays so for a form that is no rival.
LEMMA StillFree ==
    ASSUME TypeOK, Shapes, NEW p \in Requests, RowStep(p), NEW l \in Locations, NEW u \in Users,
           NEW pk \in Pks \union {0}, ~Taken(l, u, pk),
           Inserts(p) => ~(request[p].loc = l /\ request[p].user = u),
           Saves(p) => ~(request[p].copy.loc = l /\ request[p].copy.author = u)
    PROVE  ~Taken(l, u, pk)'
<1> DEFINE new == lastPk + 1
<1>1. \A k \in DOMAIN reviews \ {pk} : ~(reviews[k].loc = l /\ reviews[k].author = u)
  BY DEF Taken
<1>2. CASE Inserts(p)
  <2>1. /\ DOMAIN reviews' = DOMAIN reviews \union {new}
        /\ reviews'[new].loc = request[p].loc /\ reviews'[new].author = request[p].user
        /\ \A k \in DOMAIN reviews : reviews'[k] = reviews[k]
    BY <1>2, RowKept
  <2>2. ~(request[p].loc = l /\ request[p].user = u)
    BY <1>2
  <2> HIDE DEF new
  <2> QED
    BY <1>1, <2>1, <2>2 DEF Taken
<1>3. CASE Updates(p)
  <2>1. /\ DOMAIN reviews' = DOMAIN reviews
        /\ \A k \in DOMAIN reviews :
              reviews'[k].loc = reviews[k].loc /\ reviews'[k].author = reviews[k].author
    BY <1>3, RowKept
  <2> QED
    BY <1>1, <2>1 DEF Taken
<1>4. CASE Saves(p)
  <2> DEFINE key == request[p].pk
             row == request[p].copy
  <2>1. /\ DOMAIN reviews' = DOMAIN reviews \union {key} /\ reviews'[key] = row
        /\ \A k \in DOMAIN reviews \ {key} : reviews'[k] = reviews[k]
    BY <1>4, RowKept
  <2>2. ~(row.loc = l /\ row.author = u)
    BY <1>4
  <2> HIDE DEF key, row
  <2> QED
    BY <1>1, <2>1, <2>2 DEF Taken
<1>5. CASE Removes(p)
  <2>1. /\ DOMAIN reviews' = DOMAIN reviews \ {request[p].pk}
        /\ \A k \in DOMAIN reviews' : reviews'[k] = reviews[k]
    BY <1>5, RowKept
  <2> QED
    BY <1>1, <2>1 DEF Taken
<1> QED
  BY <1>2, <1>3, <1>4, <1>5 DEF RowStep

\* The parts of CauseOK that other requests can disturb, for a request that stays.
LEMMA CauseOther ==
    ASSUME NEW x \in Requests, CauseOK(x), request'[x] = request[x],
           alive' = alive,
           ~Free(x) /\ request[x].pk \in DOMAIN reviews =>
               /\ request[x].pk \in DOMAIN reviews'
               /\ reviews'[request[x].pk].loc = reviews[request[x].pk].loc,
           request[x].step = "remove" => VotesOn(request[x].pk)' \subseteq VotesOn(request[x].pk),
           At(x, "formCreate", "insert") /\ ~Taken(request[x].loc, request[x].user, 0)
               => ~Taken(request[x].loc, request[x].user, 0)',
           At(x, "formEdit", "save") /\ ~Taken(request[x].copy.loc, request[x].copy.author, request[x].pk)
               => ~Taken(request[x].copy.loc, request[x].copy.author, request[x].pk)'
    PROVE  CauseOK(x)'
<1>1. request'[x].status # 500
  BY DEF CauseOK
<1>2. request[x].op = "create" /\ request[x].step \in {"cache", "publish", "read"} =>
           request[x].pk \in DOMAIN reviews' /\ reviews'[request[x].pk].loc = request[x].loc
  BY DEF CauseOK, Free
<1>3. request[x].op = "create" /\ request[x].step \in {"check", "insert", "cache", "publish", "read"}
          => request[x].loc \in alive'
  BY DEF CauseOK
<1>4. request[x].op \in {"update", "vote"} /\ request[x].step \notin {"idle", "review", "done"}
          => Visible(request[x].pk)'
  BY DEF CauseOK, Free, Visible
<1>5. request[x].step = "remove" => VotesOn(request[x].pk)' \subseteq request[x].swept
  BY DEF CauseOK
<1>6. At(x, "formCreate", "insert") => ~Taken(request[x].loc, request[x].user, 0)'
  BY DEF CauseOK, At
<1>7. At(x, "formEdit", "save") => ~Taken(request[x].copy.loc, request[x].copy.author, request[x].pk)'
  BY DEF CauseOK, At
<1> QED
  BY <1>1, <1>2, <1>3, <1>4, <1>5, <1>6, <1>7 DEF CauseOK, At

LEMMA StepCauseOther ==
    ASSUME TypeOK, Shapes, NEW p \in Requests, Step(p) \/ Kill(p), NEW x \in Requests \ {p},
           x \notin shaken', CauseOK(x)
    PROVE  CauseOK(x)'
<1>1. request'[x] = request[x] /\ alive' = alive
  BY Frame, StepRows
<1>2. request[x] \in Request
  BY RequestType
<1>3. ~Free(x) /\ request[x].pk \in DOMAIN reviews =>
          /\ request[x].pk \in DOMAIN reviews'
          /\ reviews'[request[x].pk].loc = reviews[request[x].pk].loc
  BY StepRows, RowStays
<1>4. request[x].step = "remove" => VotesOn(request[x].pk)' \subseteq VotesOn(request[x].pk)
  <2>1. CASE votes' \subseteq votes
    BY <1>1, <2>1 DEF VotesOn
  <2>2. CASE InsertVote(p)
    <3> DEFINE vote == [review |-> request[p].pk, user |-> request[p].user]
    <3>1. \/ votes' = votes
          \/ votes' = votes \union {vote} /\ shaken' = shaken \union
                {y \in Requests : request[y].step = "remove" /\ request[y].pk = request[p].pk}
      BY <2>2 DEF InsertVote
    <3>2. vote.review = request[p].pk
      OBVIOUS
    <3> HIDE DEF vote
    <3> QED
      BY <1>1, <3>1, <3>2 DEF VotesOn
  <2>3. RowStep(p) => votes' \subseteq votes
    BY DEF RowStep, Inserts, Updates, Saves, Removes
  <2> QED
    BY <2>1, <2>2, <2>3, StepRows
<1>5. At(x, "formCreate", "insert") /\ ~Taken(request[x].loc, request[x].user, 0)
          => ~Taken(request[x].loc, request[x].user, 0)'
  <2>1. SUFFICES ASSUME At(x, "formCreate", "insert"), ~Taken(request[x].loc, request[x].user, 0)
                 PROVE  ~Taken(request[x].loc, request[x].user, 0)'
    OBVIOUS
  <2> DEFINE l == request[x].loc
             u == request[x].user
  <2>2. l \in Locations /\ u \in Users /\ l' = l /\ u' = u
    BY <1>1, <1>2 DEF Request
  <2>3. RowStep(p) => /\ Inserts(p) => ~(request[p].loc = l /\ request[p].user = u)
                      /\ Saves(p) => ~(request[p].copy.loc = l /\ request[p].copy.author = u)
    BY <2>1 DEF Inserts, Saves, Rivals
  <2>4. CASE UNCHANGED reviews
    BY <1>1, <2>1, <2>4 DEF Taken
  <2>5. CASE RowStep(p)
    BY <1>1, <2>1, <2>2, <2>3, <2>5, StillFree DEF Taken
  <2> QED
    BY <2>4, <2>5, StepRows
<1>6. At(x, "formEdit", "save") /\ ~Taken(request[x].copy.loc, request[x].copy.author, request[x].pk)
          => ~Taken(request[x].copy.loc, request[x].copy.author, request[x].pk)'
  <2>1. SUFFICES ASSUME At(x, "formEdit", "save"),
                        ~Taken(request[x].copy.loc, request[x].copy.author, request[x].pk)
                 PROVE  ~Taken(request[x].copy.loc, request[x].copy.author, request[x].pk)'
    OBVIOUS
  <2> DEFINE l == request[x].copy.loc
             u == request[x].copy.author
             pk == request[x].pk
  <2>2. request[x].copy \in Review /\ pk \in Pks \union {0}
    BY <1>2, <2>1, ShapeAt DEF ShapeOK, At, Request
  <2>3. l \in Locations /\ u \in Users
    BY <2>2 DEF Review
  <2>4. RowStep(p) => /\ Inserts(p) => ~(request[p].loc = l /\ request[p].user = u)
                      /\ Saves(p) => ~(request[p].copy.loc = l /\ request[p].copy.author = u)
    BY <2>1 DEF Inserts, Saves, Rivals
  <2>5. CASE UNCHANGED reviews
    BY <1>1, <2>1, <2>5 DEF Taken
  <2>6. CASE RowStep(p)
    BY <1>1, <2>1, <2>2, <2>3, <2>4, <2>6, StillFree DEF Taken
  <2> QED
    BY <2>5, <2>6, StepRows
<1> QED
  BY <1>1, <1>3, <1>4, <1>5, <1>6, CauseOther

LEMMA CauseAnswered ==
    ASSUME TypeOK, NEW p \in Requests, NEW status \in (Statuses \ {500}) \union {NoAnswer}, Answer(p, status)
    PROVE  CauseOK(p)'
<1>1. request'[p].step = "done" /\ request'[p].status = status
  BY AnswerFacts, RequestType
<1>2. status # 500
  BY DEF NoAnswer
<1> QED
  BY <1>1, <1>2 DEF CauseOK

LEMMA CauseOpen ==
    ASSUME TypeOK, Shapes, NEW p \in Requests, CauseOK(p), RejectBody(p) \/ GetLocation(p) \/ CheckReview(p)
    PROVE  CauseOK(p)'
<1>1. /\ 404 \in (Statuses \ {500}) \union {NoAnswer} /\ 400 \in (Statuses \ {500}) \union {NoAnswer}
      /\ 409 \in (Statuses \ {500}) \union {NoAnswer}
  BY DEF Statuses
<1>2. GetLocation(p) \/ CheckReview(p) => request[p].op \in CreateOps /\ UNCHANGED <<alive, reviews>>
  BY DEF GetLocation, CheckReview, Creates, CreateOps, tables
<1>3. CASE GetLocation(p)
  <2>1. CASE Goto(p, "check") /\ request[p].loc \in alive
    BY <1>2, <1>3, <2>1, GotoFacts, RequestType DEF CauseOK, CreateOps
  <2> QED
    BY <1>1, <1>3, <2>1, CauseAnswered DEF GetLocation
<1>4. CASE CheckReview(p)
  <2>1. CASE Goto(p, "insert") /\ ~Taken(request[p].loc, request[p].user, 0)
    BY <1>2, <1>4, <2>1, GotoFacts, RequestType DEF CauseOK, CheckReview, CreateOps, Taken
  <2> QED
    BY <1>1, <1>4, <2>1, CauseAnswered DEF CheckReview
<1>5. CASE RejectBody(p)
  BY <1>1, <1>5, CauseAnswered DEF RejectBody
<1> QED
  BY <1>3, <1>4, <1>5

LEMMA CauseInsert ==
    ASSUME TypeOK, Shapes, NEW p \in Requests, CauseOK(p), NEW body, InsertReview(p, body)
    PROVE  CauseOK(p)'
<1> DEFINE q == request[p]
           new == lastPk + 1
           row == [loc |-> q.loc, author |-> q.user, body |-> body]
<1>1. q \in Request /\ q.op \in CreateOps /\ q.step = "insert"
  BY RequestType DEF InsertReview, Creates, CreateOps
<1>2. CASE Taken(q.loc, q.user, 0)
  <2>1. q.op = "create"
    BY <1>1, <1>2 DEF CauseOK, CreateOps
  <2>2. Answer(p, 409) /\ 409 \in (Statuses \ {500}) \union {NoAnswer}
    BY <1>2, <2>1 DEF InsertReview, Statuses
  <2> QED
    BY <2>2, CauseAnswered
<1>3. CASE ~Taken(q.loc, q.user, 0)
  <2>1. reviews' = Put(new, row) /\ Becomes(p, [q EXCEPT !.step = "cache", !.pk = new]) /\ alive' = alive
    BY <1>3 DEF InsertReview
  <2>2. row.loc = q.loc
    OBVIOUS
  <2>3. new \in DOMAIN reviews' /\ reviews'[new].loc = q.loc
    <3> HIDE DEF row, new
    <3> QED
      BY <2>1, <2>2, PutNext
  <2> HIDE DEF new
  <2>4. request'[p] = [q EXCEPT !.step = "cache", !.pk = new]
    BY <2>1, RequestType DEF Becomes
  <2>5. /\ request'[p].step = "cache" /\ request'[p].pk = new /\ request'[p].op = q.op
        /\ request'[p].loc = q.loc /\ request'[p].status = q.status
    BY <1>1, <2>4 DEF Request
  <2> QED
    BY <1>1, <2>1, <2>3, <2>5 DEF CauseOK, CreateOps
<1> QED
  BY <1>2, <1>3

LEMMA CauseHooks ==
    ASSUME TypeOK, Shapes, NEW p \in Requests, CauseOK(p), RefreshCache(p) \/ Publish(p) \/ CacheOutage(p),
           p \notin shaken'
    PROVE  CauseOK(p)'
<1>1. 204 \in (Statuses \ {500}) \union {NoAnswer} /\ 200 \in (Statuses \ {500}) \union {NoAnswer}
  BY DEF Statuses
<1>2. UNCHANGED <<alive, reviews>>
  BY DEF RefreshCache, CacheOutage, Publish, tables
<1>3. CASE RefreshCache(p)
  <2>1. CASE request[p].op = "create" /\ Goto(p, "publish")
    BY <1>2, <1>3, <2>1, GotoFacts, RequestType DEF CauseOK, RefreshCache
  <2>2. CASE request[p].op = "update" /\ Goto(p, "read")
    BY <1>2, <1>3, <2>2, GotoFacts, RequestType DEF CauseOK, RefreshCache, Visible
  <2> QED
    BY <1>1, <1>3, <2>1, <2>2, CauseAnswered DEF RefreshCache
<1>4. CASE Publish(p)
  <2>1. request[p].op = "create" /\ request[p].step = "publish" /\ Goto(p, "read")
    BY <1>4 DEF Publish, At
  <2> QED
    BY <1>2, <2>1, GotoFacts, RequestType DEF CauseOK
<1>5. CASE CacheOutage(p)
  BY <1>5 DEF CacheOutage
<1> QED
  BY <1>3, <1>4, <1>5

LEMMA CauseFound ==
    ASSUME TypeOK, Shapes, NEW p \in Requests, CauseOK(p), GetReview(p)
    PROVE  CauseOK(p)'
<1>1. 404 \in (Statuses \ {500}) \union {NoAnswer} /\ 403 \in (Statuses \ {500}) \union {NoAnswer}
  BY DEF Statuses
<1> DEFINE q == request[p]
           copy == IF q.op \in {"update", "formEdit"} THEN reviews[q.pk] ELSE <<>>
           step == NextStep[q.op]
<1>2. CASE /\ Becomes(p, [q EXCEPT !.step = step, !.copy = copy])
           /\ q.op \notin Forms => Visible(q.pk)
  <2>1. q.op \in DOMAIN NextStep /\ q.op \notin CreateOps
    BY ShapeAt DEF GetReview, ShapeOK, NextStep, CreateOps
  <2>2. step \in {"save", "sweep", "check", "unvote", "form"} /\ (step = "save" => q.op = "update")
    BY <2>1 DEF NextStep
  <2> HIDE DEF copy, step
  <2>3. request'[p] = [q EXCEPT !.step = step, !.copy = copy] /\ q \in Request
    BY <1>2, RequestType DEF Becomes
  <2>4. request'[p].step = step /\ request'[p].pk = q.pk /\ request'[p].op = q.op /\ request'[p].status = q.status
    BY <2>3 DEF Request
  <2>6. UNCHANGED <<alive, reviews>>
    BY DEF GetReview, tables
  <2>7. request'[p].op \in {"update", "vote"} =>
            request'[p].pk \in DOMAIN reviews' /\ reviews'[request'[p].pk].loc \in alive'
    BY <1>2, <2>4, <2>6 DEF Visible, Forms
  <2> QED
    BY <2>1, <2>2, <2>4, <2>7 DEF CauseOK, CreateOps, Visible
<1> QED
  BY <1>1, <1>2, CauseAnswered DEF GetReview

LEMMA CauseSaved ==
    ASSUME TypeOK, Shapes, NEW p \in Requests, CauseOK(p), SaveReview(p) \/ SaveForm(p)
    PROVE  CauseOK(p)'
<1>1. CASE SaveReview(p)
  <2>1. request[p].op = "update" /\ request[p].step = "save" /\ Visible(request[p].pk) /\ alive' = alive
    BY <1>1 DEF SaveReview, At, CauseOK
  <2>2. request[p].pk \in DOMAIN reviews
    BY <2>1 DEF Visible
  <2>3. Goto(p, "cache") \/ Goto(p, "read")
    BY <1>1, <2>2 DEF SaveReview
  <2>4. /\ request'[p].step \in {"cache", "read"} /\ request'[p].op = "update"
        /\ request'[p].pk = request[p].pk /\ request'[p].status = request[p].status
    BY <2>1, <2>3, GotoFacts, RequestType
  <2>5. request[p].pk \in DOMAIN reviews' /\ reviews'[request[p].pk].loc = reviews[request[p].pk].loc
    <3>1. UNCHANGED reviews \/ Updates(p)
      BY <1>1, SaveReviewRows DEF tables
    <3> QED
      BY <2>2, <3>1, RowKept DEF RowStep
  <2>6. request'[p].pk \in DOMAIN reviews' /\ reviews'[request'[p].pk].loc \in alive'
    BY <2>1, <2>4, <2>5 DEF Visible
  <2> QED
    BY <2>4, <2>6 DEF CauseOK, Visible
<1>2. CASE SaveForm(p)
  <2>1. request[p].op = "formEdit" /\ Goto(p, "cache")
    BY <1>2 DEF SaveForm, At, CauseOK
  <2> QED
    BY <2>1, GotoFacts, RequestType DEF CauseOK
<1> QED
  BY <1>1, <1>2

LEMMA CauseForm ==
    ASSUME TypeOK, Shapes, NEW p \in Requests, CauseOK(p), NEW l, NEW u, NEW patch, ValidateForm(p, l, u, patch)
    PROVE  CauseOK(p)'
<1>1. 404 \in (Statuses \ {500}) \union {NoAnswer} /\ 400 \in (Statuses \ {500}) \union {NoAnswer}
  BY DEF Statuses
<1> DEFINE q == request[p]
           body == Patched(q.copy.body, patch)
           copy == [loc |-> l, author |-> u, body |-> body]
<1>2. CASE Becomes(p, [q EXCEPT !.step = "save", !.copy = copy]) /\ ~Taken(l, u, q.pk)
  <2>1. copy.loc = l /\ copy.author = u
    OBVIOUS
  <2> HIDE DEF copy
  <2>2. request'[p] = [q EXCEPT !.step = "save", !.copy = copy] /\ q \in Request /\ q.op = "formEdit"
        /\ UNCHANGED reviews
    BY <1>2, RequestType DEF Becomes, ValidateForm, At, tables
  <2>3. /\ request'[p].step = "save" /\ request'[p].pk = q.pk /\ request'[p].op = "formEdit"
        /\ request'[p].status = q.status /\ request'[p].copy = copy
    BY <2>2 DEF Request
  <2> QED
    BY <1>2, <2>1, <2>2, <2>3 DEF CauseOK, Taken
<1> QED
  BY <1>1, <1>2, CauseAnswered DEF ValidateForm

LEMMA CauseDeleted ==
    ASSUME TypeOK, Shapes, NEW p \in Requests, CauseOK(p), SweepVotes(p) \/ RemoveReview(p)
    PROVE  CauseOK(p)'
<1>1. request[p].op \in {"delete", "formDelete"} /\ request[p] \in Request
  BY ShapeAt, RequestType DEF SweepVotes, RemoveReview, ShapeOK
<1>2. CASE SweepVotes(p)
  <2> DEFINE swept == VotesOn(request[p].pk)
  <2>1. Becomes(p, [request[p] EXCEPT !.step = "remove", !.swept = swept]) /\ UNCHANGED votes
    BY <1>2 DEF SweepVotes, tables
  <2>4. swept = VotesOn(request[p].pk)
    OBVIOUS
  <2> HIDE DEF swept
  <2>5. request'[p] = [request[p] EXCEPT !.step = "remove", !.swept = swept]
    BY <2>1, RequestType DEF Becomes
  <2>6. /\ request'[p].step = "remove" /\ request'[p].pk = request[p].pk /\ request'[p].op = request[p].op
        /\ request'[p].status = request[p].status /\ request'[p].swept = swept
    BY <1>1, <2>5 DEF Request
  <2>7. {v \in votes' : v.review = request'[p].pk} \subseteq request'[p].swept
    BY <2>1, <2>4, <2>6 DEF VotesOn
  <2> QED
    BY <1>1, <2>6, <2>7 DEF CauseOK, VotesOn
<1>3. CASE RemoveReview(p)
  <2>1. Goto(p, "cache")
    BY <1>3 DEF RemoveReview, CauseOK
  <2> QED
    BY <1>1, <2>1, GotoFacts, RequestType DEF CauseOK
<1> QED
  BY <1>2, <1>3

LEMMA CauseVoted ==
    ASSUME TypeOK, Shapes, NEW p \in Requests, CauseOK(p), CheckVote(p) \/ InsertVote(p) \/ RemoveVote(p)
    PROVE  CauseOK(p)'
<1>1. 409 \in (Statuses \ {500}) \union {NoAnswer} /\ 404 \in (Statuses \ {500}) \union {NoAnswer}
      /\ 204 \in (Statuses \ {500}) \union {NoAnswer}
  BY DEF Statuses
<1>2. UNCHANGED <<alive, reviews>>
  BY DEF CheckVote, InsertVote, RemoveVote, tables
<1>3. CASE /\ request[p].op = "vote" /\ request[p].step \in {"check", "insert"}
           /\ Goto(p, "insert") \/ Goto(p, "read")
  <2>1. Visible(request[p].pk)
    BY <1>3 DEF CauseOK
  <2>2. /\ request'[p].step \in {"insert", "read"} /\ request'[p].op = "vote"
        /\ request'[p].pk = request[p].pk /\ request'[p].status = request[p].status
    BY <1>3, GotoFacts, RequestType
  <2> QED
    BY <1>2, <2>1, <2>2 DEF CauseOK, Visible
<1>4. CASE CheckVote(p)
  BY <1>1, <1>3, <1>4, CauseAnswered DEF CheckVote, At
<1>5. CASE InsertVote(p)
  <2>1. request[p].pk \in DOMAIN reviews
    BY <1>5 DEF InsertVote, At, CauseOK, Visible
  <2> QED
    BY <1>1, <1>3, <1>5, <2>1, CauseAnswered DEF InsertVote, At
<1>6. CASE RemoveVote(p)
  BY <1>1, <1>6, CauseAnswered DEF RemoveVote
<1> QED
  BY <1>4, <1>5, <1>6

LEMMA CauseEnd ==
    ASSUME TypeOK, Shapes, NEW p \in Requests, CauseOK(p), Read(p) \/ Kill(p)
    PROVE  CauseOK(p)'
<1>1. /\ 200 \in (Statuses \ {500}) \union {NoAnswer} /\ 201 \in (Statuses \ {500}) \union {NoAnswer}
      /\ NoAnswer \in (Statuses \ {500}) \union {NoAnswer}
  BY DEF Statuses
<1>2. CASE Read(p)
  <2>1. request[p].op \in {"create", "update", "vote"} /\ request[p].step = "read"
    BY <1>2, ShapeAt DEF Read, ShapeOK
  <2>2. Visible(request[p].pk)
    BY <2>1 DEF CauseOK, Visible
  <2> QED
    BY <1>1, <1>2, <2>2, CauseAnswered DEF Read
<1> QED
  BY <1>1, <1>2, CauseAnswered DEF Kill

LEMMA StepCause ==
    ASSUME TypeOK, Shapes, \A x \in Requests \ shaken : CauseOK(x), NEW p \in Requests, Step(p) \/ Kill(p),
           NEW x \in Requests \ shaken'
    PROVE  CauseOK(x)'
<1>1. CauseOK(x)
  BY StepRows
<1>2. CASE x # p
  BY <1>1, <1>2, StepCauseOther
<1>3. CASE x = p
  BY <1>1, <1>3, CauseOpen, CauseInsert, CauseHooks, CauseFound, CauseSaved, CauseForm, CauseDeleted,
     CauseVoted, CauseEnd DEF Step
<1> QED
  BY <1>2, <1>3

LEMMA SendCause ==
    ASSUME TypeOK, \A x \in Requests \ shaken : CauseOK(x), NEW p \in Requests, Send(p),
           NEW x \in Requests \ shaken'
    PROVE  CauseOK(x)'
<1>1. CASE x # p
  <2>1. UNCHANGED <<alive, reviews, votes>> /\ x \notin shaken /\ \E q : Becomes(p, q)
    BY <1>1 DEF Send, SendCreate, SendOn, Begin, tables
  <2>2. request'[x] = request[x]
    BY <1>1, <2>1, BecomesFrame
  <2>3. CauseOK(x)
    BY <2>1
  <2> QED
    BY <2>1, <2>2, <2>3 DEF CauseOK, Visible, VotesOn, Taken
<1>2. CASE x = p
  <2>1. ASSUME NEW u \in Users, NEW l \in Locations, NEW op \in CreateOps, SendCreate(p, op, u, l)
        PROVE  request'[p].step = "location" /\ request'[p].op \in CreateOps /\ request'[p].status = NoAnswer
    <3> DEFINE q == NewCreate(op, u, l)
    <3>1. Becomes(p, q)
      BY <2>1 DEF SendCreate, NewCreate
    <3>2. q \in Request /\ q.step = "location" /\ q.op \in CreateOps /\ q.status = NoAnswer
      BY NewCreateFacts DEF CreateOps, Operations, Forms
    <3> HIDE DEF q
    <3> QED
      BY <3>1, <3>2, BecomesFacts, RequestType
  <2>2. ASSUME NEW u \in Users, NEW pk \in Pks, NEW op \in Operations \ CreateOps, NEW patch \in Patches,
               SendOn(p, op, u, pk, patch)
        PROVE  request'[p].step = "review" /\ request'[p].status = NoAnswer
    <3> DEFINE q == NewOn(op, u, pk, patch)
    <3>1. Becomes(p, q)
      BY <2>2 DEF SendOn, NewOn
    <3>2. q \in Request /\ q.step = "review" /\ q.status = NoAnswer
      BY NewOnFacts
    <3> HIDE DEF q
    <3> QED
      BY <3>1, <3>2, BecomesFacts, RequestType
  <2>3. <<>> \in Patches /\ "update" \in Operations \ CreateOps
    BY Types DEF CreateOps, Operations
  <2>4. /\ request'[p].step \in {"location", "review"} /\ request'[p].status = NoAnswer
        /\ request'[p].step = "review" \/ request'[p].op \in CreateOps
    BY <2>1, <2>2, <2>3, ReadOps DEF Send, CreateOps
  <2> QED
    BY <1>2, <2>4 DEF CauseOK, NoAnswer, CreateOps
<1> QED
  BY <1>1, <1>2

LEMMA SystemCause ==
    ASSUME TypeOK, Shapes, \A x \in Requests \ shaken : CauseOK(x),
           (\E l \in Locations : SoftDelete(l) \/ Restore(l)) \/ BrokerOutage \/ UNCHANGED vars,
           NEW x \in Requests \ shaken'
    PROVE  CauseOK(x)'
<1>1. UNCHANGED <<request, reviews, votes>> /\ shaken \subseteq shaken'
  BY DEF SoftDelete, Restore, BrokerOutage, tables, vars
<1>2. CauseOK(x)
  BY <1>1
<1>3. CASE alive \subseteq alive'
  BY <1>1, <1>2, <1>3 DEF CauseOK, Visible, VotesOn, Taken
<1>4. ASSUME NEW l \in Locations, SoftDelete(l), ~Free(x) PROVE CauseOK(x)'
  <2>1. alive' = alive \ {l} /\ ~Concerns(x, l)
    BY <1>4 DEF SoftDelete
  <2>2. request[x].op = "create" => request[x].loc # l
    BY <2>1 DEF Concerns, Creates
  <2>3. request[x].op \in {"update", "vote"} /\ request[x].pk \in DOMAIN reviews
            => reviews[request[x].pk].loc # l
    BY <2>1 DEF Concerns, Creates
  <2> QED
    BY <1>1, <1>2, <2>1, <2>2, <2>3 DEF CauseOK, Visible, VotesOn, Taken
<1>5. CASE Free(x)
  BY <1>1, <1>2, <1>5 DEF CauseOK, Free
<1> QED
  BY <1>3, <1>4, <1>5 DEF Restore, BrokerOutage, tables, vars

LEMMA NextCause ==
    ASSUME TypeOK, Shapes, \A x \in Requests \ shaken : CauseOK(x), [Next]_vars
    PROVE  (\A x \in Requests \ shaken : CauseOK(x))'
  BY SendCause, StepCause, SystemCause DEF Next

-----------------------------------------------------------------------------
(* The theorems.                                                           *)

LEMMA InitIInv == ASSUME Init PROVE IInv
<1>1. reviews = <<>> /\ DOMAIN reviews = {}
  BY DEF Init
<1>2. /\ IdleRequest.step = "idle" /\ IdleRequest.op = "none" /\ IdleRequest.status = NoAnswer
  BY DEF IdleRequest
<1>3. request = [p \in Requests |-> IdleRequest] /\ lastPk = 0 /\ votes = {} /\ tasks = {} /\ hidden = {}
      /\ shaken = {} /\ alive = Locations /\ brokerUp = TRUE
  BY DEF Init
<1>4. \A p \in Requests : request[p].step = "idle" /\ request[p].op = "none" /\ request[p].status = NoAnswer
  BY <1>2, <1>3
<1>5. TypeOK
  <2>1. 0 \in 0 .. MaxReviews
    BY Types
  <2>2. request \in [Requests -> Request]
    BY <1>3, IdleType
  <2> QED
    BY <1>1, <1>3, <2>1, <2>2 DEF TypeOK
<1>6. Shapes /\ Queued
  <2>1. ASSUME NEW p \in Requests PROVE ShapeOK(request[p], lastPk)
    BY <1>4 DEF ShapeOK, CreateOps
  <2>2. ASSUME NEW p \in Requests PROVE QueuedOK(request[p], tasks)
    BY <1>4 DEF QueuedOK
  <2> QED
    BY <1>3, <2>1, <2>2 DEF Shapes, Queued
<1>7. RoomOK
  <2>1. Unsaveds = {}
    BY <1>4 DEF Unsaveds, Unsaved
  <2>2. Cardinality({}) = 0
    BY FS_EmptySet
  <2> QED
    BY <1>3, <2>1, <2>2, Types DEF RoomOK
<1>8. TablesConsistent
  BY <1>1, <1>3 DEF TablesConsistent
<1>9. Histories
  <2>1. ASSUME NEW p \in Requests PROVE CauseOK(p)
    BY <1>4 DEF CauseOK, NoAnswer
  <2> QED
    BY <1>3, <2>1 DEF Histories
<1> QED
  BY <1>5, <1>6, <1>7, <1>8, <1>9 DEF IInv

LEMMA NextIInv == ASSUME IInv, [Next]_vars PROVE IInv'
<1>1. TypeOK' /\ Shapes' /\ RoomOK' /\ Queued'
  BY NextTypes DEF IInv
<1>2. TablesConsistent'
  BY NextTables DEF IInv
<1>3. Histories'
  <2>1. (\A x \in hidden : HiddenOK(x))'
    BY NextHidden DEF IInv, Histories
  <2>2. (\A x \in Requests \ shaken : CauseOK(x))'
    BY NextCause DEF IInv, Histories
  <2> QED
    BY <2>1, <2>2 DEF Histories
<1> QED
  BY <1>1, <1>2, <1>3 DEF IInv

LEMMA Invariant == Spec => []IInv
  BY InitIInv, NextIInv, PTL DEF Spec

\* Every variable has its type and every review is within the bound: the room a create
\* was promised when it came is there when it inserts its row.
THEOREM TypesHold == Spec => []TypeOK
<1>1. IInv => TypeOK
  BY DEF IInv
<1> QED
  BY <1>1, Invariant, PTL

\* The unique constraint and the foreign key of create_review, vote_review, the cascade of
\* delete_review and the administrator's form leave one review per user and location
\* and no vote without its review, for any number of racing requests.
THEOREM TablesStayConsistent == Spec => []TablesConsistent
<1>1. IInv => TablesConsistent
  BY DEF IInv
<1> QED
  BY <1>1, Invariant, PTL

\* create_review answers 201 only after its on_commit hook has published the email task,
\* and a task names a committed review.
THEOREM CreatedReviewsAreQueued == Spec => []CreatedMeansQueued
<1>1. IInv => CreatedMeansQueued
  BY DEF IInv, Queued, QueuedOK, CreatedMeansQueued
<1> QED
  BY <1>1, Invariant, PTL

\* What was hidden when a request came, and all the while, is answered 404, or 400 when it is
\* a create with an invalid body, which comes before the look-up: no step of another request
\* between the look-up and the answer lets it through.
THEOREM HiddenIsNotFound == Spec => []HiddenMeans404
<1>1. IInv => HiddenMeans404
  BY DEF IInv, Histories, HiddenOK, HiddenMeans404
<1> QED
  BY <1>1, Invariant, PTL

\* A server error always has a cause outside the request: an outage, or another request or
\* form that changed the rows it had already looked up.
THEOREM EveryErrorHasItsCause == Spec => []ErrorsHaveCause
<1>1. IInv => ErrorsHaveCause
  BY DEF IInv, Histories, CauseOK, ErrorsHaveCause
<1> QED
  BY <1>1, Invariant, PTL

\* No PATCH that read a review before it was deleted writes it back: update_review saves
\* the named columns only, and only a form inserts the row again.
THEOREM DeletedReviewsStay == Spec => DeletedStaysDeleted
<1>1. IInv /\ [Next]_vars =>
          [\A pk \in 1 .. lastPk :
              pk \notin DOMAIN reviews /\ pk \in DOMAIN reviews' => FormSaves(pk)]_vars
  BY NextDeleted DEF IInv
<1> QED
  BY <1>1, Invariant, PTL DEF Spec, DeletedStaysDeleted

\* Two PATCHes that name different fields of a review never undo each other.
THEOREM UpdatesAreKept == Spec => NoLostUpdate
<1> DEFINE Kept == \A pk \in DOMAIN reviews \intersect DOMAIN reviews' :
          \/ FormSaves(pk)
          \/ /\ reviews'[pk].loc = reviews[pk].loc /\ reviews'[pk].author = reviews[pk].author
             /\ \A f \in Fields :
                 reviews'[pk].body[f] # reviews[pk].body[f] =>
                     \E p \in Requests :
                         /\ At(p, "update", "save") /\ request[p].pk = pk
                         /\ request'[p].step = "cache" /\ f \in DOMAIN request[p].patch
<1>1. IInv /\ [Next]_vars => [Kept]_vars
  BY NextRowChange DEF IInv
<1>2. NoLostUpdate <=> [][Kept]_vars
  BY DEF NoLostUpdate
<1> HIDE DEF Kept
<1> QED
  BY <1>1, <1>2, Invariant, PTL DEF Spec

-----------------------------------------------------------------------------
(* The refinement: a request stands for a call of ReviewBoard.             *)

\* The votes a delete has swept are those of its review.
SweptOK ==
    \A p \in Requests :
        request[p].step = "remove" => \A v \in request[p].swept : v.review = request[p].pk

LEMMA NotRemoving ==
    ASSUME TypeOK, SweptOK, NEW p \in Requests,
           \A x \in Requests \ {p} : request'[x] = request[x], request'[p].step # "remove"
    PROVE  SweptOK'
  BY DEF SweptOK

LEMMA GotoKeepsSwept ==
    ASSUME TypeOK, SweptOK, NEW p \in Requests,
           NEW step \in {"check", "insert", "save", "cache", "publish", "read"}, Goto(p, step)
    PROVE  SweptOK'
  BY GotoFacts, RequestType, NotRemoving

LEMMA AnswerKeepsSwept ==
    ASSUME TypeOK, SweptOK, NEW p \in Requests, NEW status \in Statuses \union {NoAnswer},
           Answer(p, status)
    PROVE  SweptOK'
  BY AnswerFacts, RequestType, NotRemoving

LEMMA BecomesKeepsSwept ==
    ASSUME TypeOK, SweptOK, NEW p \in Requests, NEW q, Becomes(p, q),
           q.step = "remove" => \A v \in q.swept : v.review = q.pk
    PROVE  SweptOK'
<1>1. request'[p] = q /\ \A x \in Requests \ {p} : request'[x] = request[x]
  BY BecomesFrame DEF Becomes, TypeOK
<1> QED
  BY <1>1 DEF SweptOK

LEMMA StepKeepsSwept ==
    ASSUME TypeOK, Shapes, SweptOK, NEW p \in Requests, Step(p) \/ Kill(p)
    PROVE  SweptOK'
<1> DEFINE q == request[p]
<1>0. q \in Request /\ q.op \in Operations \union {"none"} /\ ShapeOK(q, lastPk)
  BY RequestType, ShapeAt DEF Request
<1>18. RejectBody(p) => SweptOK'
  BY AnswerKeepsSwept DEF RejectBody, Statuses
<1>1. GetLocation(p) => SweptOK'
  BY GotoKeepsSwept, AnswerKeepsSwept DEF GetLocation, Statuses
<1>2. CheckReview(p) => SweptOK'
  BY GotoKeepsSwept, AnswerKeepsSwept DEF CheckReview, Statuses
<1>3. ASSUME NEW c \in Contents, InsertReview(p, [f \in Fields |-> c]) PROVE SweptOK'
  <2>1. CASE Answer(p, 409) \/ Answer(p, 500)
    BY <2>1, AnswerKeepsSwept DEF Statuses
  <2>2. CASE Becomes(p, [q EXCEPT !.step = "cache", !.pk = lastPk + 1])
    <3>1. [q EXCEPT !.step = "cache", !.pk = lastPk + 1].step = "cache"
      BY <1>0 DEF Request
    <3> QED
      BY <2>2, <3>1, BecomesKeepsSwept
  <2> QED
    BY <1>3, <2>1, <2>2 DEF InsertReview
<1>4. RefreshCache(p) => SweptOK'
  BY GotoKeepsSwept, AnswerKeepsSwept DEF RefreshCache, Statuses
<1>5. CacheOutage(p) => SweptOK'
  BY AnswerKeepsSwept DEF CacheOutage, Statuses
<1>6. Publish(p) => SweptOK'
  BY GotoKeepsSwept, AnswerKeepsSwept DEF Publish, Statuses
<1>7. ASSUME GetReview(p) PROVE SweptOK'
  <2>1. CASE Answer(p, 404) \/ Answer(p, 403)
    BY <2>1, AnswerKeepsSwept DEF Statuses
  <2>2. CASE \E copy : Becomes(p, [q EXCEPT !.step = NextStep[q.op], !.copy = copy])
    <3> PICK copy : Becomes(p, [q EXCEPT !.step = NextStep[q.op], !.copy = copy])
      BY <2>2
    <3>1. NextStep[q.op] # "remove"
      BY <1>0, <1>7 DEF GetReview, ShapeOK, NextStep
    <3>2. [q EXCEPT !.step = NextStep[q.op], !.copy = copy].step = NextStep[q.op]
      BY <1>0 DEF Request
    <3> QED
      BY <3>1, <3>2, BecomesKeepsSwept
  <2> QED
    BY <1>7, <2>1, <2>2 DEF GetReview
<1>8. SaveReview(p) => SweptOK'
  BY GotoKeepsSwept, AnswerKeepsSwept DEF SaveReview, Statuses
<1>9. ASSUME SweepVotes(p) PROVE SweptOK'
  <2> DEFINE swept == VotesOn(q.pk)
             row == [q EXCEPT !.step = "remove", !.swept = swept]
  <2>1. Becomes(p, row) /\ row.swept = swept /\ row.pk = q.pk
    BY <1>0, <1>9 DEF SweepVotes, Request
  <2>2. \A v \in swept : v.review = q.pk
    BY DEF VotesOn
  <2> HIDE DEF swept, row
  <2> QED
    BY <2>1, <2>2, BecomesKeepsSwept
<1>10. RemoveReview(p) => SweptOK'
  BY GotoKeepsSwept, AnswerKeepsSwept DEF RemoveReview, Statuses
<1>11. ASSUME NEW l \in Locations, NEW u \in Users, NEW patch \in Patches, ValidateForm(p, l, u, patch)
       PROVE  SweptOK'
  <2>1. CASE Answer(p, 404) \/ Answer(p, 400)
    BY <2>1, AnswerKeepsSwept DEF Statuses
  <2>2. CASE \E copy : Becomes(p, [q EXCEPT !.step = "save", !.copy = copy])
    <3> PICK copy : Becomes(p, [q EXCEPT !.step = "save", !.copy = copy])
      BY <2>2
    <3>1. [q EXCEPT !.step = "save", !.copy = copy].step = "save"
      BY <1>0 DEF Request
    <3> QED
      BY <3>1, BecomesKeepsSwept
  <2> QED
    BY <1>11, <2>1, <2>2 DEF ValidateForm
<1>12. SaveForm(p) => SweptOK'
  BY GotoKeepsSwept, AnswerKeepsSwept DEF SaveForm, Statuses
<1>13. CheckVote(p) => SweptOK'
  BY GotoKeepsSwept, AnswerKeepsSwept DEF CheckVote, Statuses
<1>14. InsertVote(p) => SweptOK'
  BY GotoKeepsSwept, AnswerKeepsSwept DEF InsertVote, Statuses
<1>15. RemoveVote(p) => SweptOK'
  BY AnswerKeepsSwept DEF RemoveVote, Statuses
<1>16. Read(p) => SweptOK'
  BY AnswerKeepsSwept DEF Read, Statuses
<1>17. Kill(p) => SweptOK'
  BY AnswerKeepsSwept DEF Kill, Statuses
<1> QED
  BY <1>18, <1>1, <1>2, <1>3, <1>4, <1>5, <1>6, <1>7, <1>8, <1>9, <1>10, <1>11, <1>12, <1>13, <1>14,
     <1>15, <1>16, <1>17 DEF Step

LEMMA SweptInductive == IInv /\ SweptOK /\ [Next]_vars => SweptOK'
<1> SUFFICES ASSUME TypeOK, Shapes, SweptOK, [Next]_vars PROVE SweptOK'
  BY DEF IInv
<1>1. ASSUME NEW p \in Requests, NEW op, NEW u \in Users, NEW l \in Locations, SendCreate(p, op, u, l)
      PROVE  SweptOK'
  <2>1. Becomes(p, NewCreate(op, u, l)) /\ NewCreate(op, u, l).step = "location"
    BY <1>1 DEF SendCreate, NewCreate, IdleRequest
  <2> QED
    BY <2>1, BecomesKeepsSwept
<1>2. ASSUME NEW p \in Requests, NEW op, NEW u \in Users, NEW pk \in Pks, NEW patch \in Patches,
             SendOn(p, op, u, pk, patch)
      PROVE  SweptOK'
  <2>1. Becomes(p, NewOn(op, u, pk, patch)) /\ NewOn(op, u, pk, patch).step = "review"
    BY <1>2 DEF SendOn, NewOn, IdleRequest
  <2> QED
    BY <2>1, BecomesKeepsSwept
<1>3. ASSUME NEW p \in Requests, Send(p) PROVE SweptOK'
  BY <1>1, <1>2, <1>3, Types DEF Send
<1>4. CASE UNCHANGED request
  BY <1>4 DEF SweptOK
<1>5. ASSUME NEW l \in Locations, SoftDelete(l) \/ Restore(l) PROVE SweptOK'
  BY <1>4, <1>5 DEF SoftDelete, Restore
<1>6. BrokerOutage \/ UNCHANGED vars => SweptOK'
  BY <1>4 DEF BrokerOutage, vars
<1> QED
  BY <1>3, <1>5, <1>6, StepKeepsSwept DEF Next

LEMMA SweptInvariant == Spec => [](IInv /\ SweptOK)
<1>1. Init => SweptOK
  BY DEF Init, IdleRequest, SweptOK
<1> QED
  BY <1>1, Invariant, SweptInductive, PTL DEF Spec

-----------------------------------------------------------------------------
(* What a step makes of the calls.                                         *)

LEMMA CallFields ==
    ASSUME TypeOK, NEW p \in Requests
    PROVE  /\ Calls[p].op = request[p].op
           /\ Free(p) => Calls[p] = Board!Over(request[p].op, request[p].status)
           /\ ~Free(p) => /\ Calls[p].phase = PhaseOf(request[p].step)
                          /\ Calls[p].user = request[p].user /\ Calls[p].loc = request[p].loc
                          /\ Calls[p].pk = request[p].pk /\ Calls[p].patch = request[p].patch
                          /\ Calls[p] = [phase |-> Calls[p].phase, op |-> Calls[p].op,
                                         user |-> Calls[p].user, loc |-> Calls[p].loc,
                                         pk |-> Calls[p].pk, patch |-> Calls[p].patch]
<1>1. Calls[p] = CallOf(request[p])
  BY DEF Calls
<1>2. CASE Free(p)
  BY <1>1, <1>2 DEF CallOf, Free, Board!Over
<1>3. CASE ~Free(p)
  BY <1>1, <1>3 DEF CallOf, Free
<1> QED
  BY <1>2, <1>3

\* One call changes with its request.
LEMMA CallBecomes ==
    ASSUME TypeOK, NEW p \in Requests, NEW q, Becomes(p, q)
    PROVE  Board!Becomes(p, CallOf(q))
<1>1. request'[p] = q /\ \A x \in Requests \ {p} : request'[x] = request[x]
  BY BecomesFrame DEF Becomes, TypeOK
<1>2. \A x \in Requests : CallOf(request'[x]) = IF x = p THEN CallOf(q) ELSE CallOf(request[x])
  BY <1>1
<1>3. Calls' = [x \in Requests |-> IF x = p THEN CallOf(q) ELSE CallOf(request[x])]
  BY <1>2 DEF Calls
<1>4. [Calls EXCEPT ![p] = CallOf(q)]
        = [x \in Requests |-> IF x = p THEN CallOf(q) ELSE CallOf(request[x])]
  BY DEF Calls
<1> QED
  BY <1>3, <1>4 DEF Board!Becomes

LEMMA AnswerEnds ==
    ASSUME TypeOK, NEW p \in Requests, NEW status, Answer(p, status)
    PROVE  Board!End(p, status)
<1> PICK q : q = [IdleRequest EXCEPT !.step = "done", !.op = request[p].op, !.status = status,
                                     !.pk = IF status = 201 THEN request[p].pk ELSE 0]
  OBVIOUS
<1>1. q.step = "done" /\ q.op = request[p].op /\ q.status = status
  BY DEF IdleRequest
<1>2. Becomes(p, q)
  BY DEF Answer
<1>3. CallOf(q) = Board!Over(Calls[p].op, status)
  BY <1>1, CallFields DEF CallOf, Board!Over
<1> QED
  BY <1>2, <1>3, CallBecomes DEF Board!End

\* A request that goes on: only the phase of its call changes, or not even that.
LEMMA LiveCall ==
    ASSUME TypeOK, NEW p \in Requests, ~Free(p), NEW q, Becomes(p, q),
           q.step \notin {"idle", "done"}, q.op = request[p].op, q.user = request[p].user,
           q.loc = request[p].loc, q.pk = request[p].pk, q.patch = request[p].patch
    PROVE  /\ Board!Goes(p, PhaseOf(q.step))
           /\ PhaseOf(q.step) = PhaseOf(request[p].step) => Calls' = Calls
<1> PICK c : c = Calls[p]
  OBVIOUS
<1>1. /\ c = [phase |-> PhaseOf(request[p].step), op |-> q.op, user |-> q.user, loc |-> q.loc,
              pk |-> q.pk, patch |-> q.patch]
  BY CallFields
<1>2. CallOf(q) = [phase |-> PhaseOf(q.step), op |-> q.op, user |-> q.user, loc |-> q.loc,
                   pk |-> q.pk, patch |-> q.patch]
  BY DEF CallOf
<1>3. CallOf(q) = [c EXCEPT !.phase = PhaseOf(q.step)]
  BY <1>1, <1>2
<1>4. Board!Becomes(p, CallOf(q))
  BY CallBecomes
<1>5. Board!Goes(p, PhaseOf(q.step))
  BY <1>3, <1>4 DEF Board!Goes
<1>6. ASSUME PhaseOf(q.step) = PhaseOf(request[p].step) PROVE Calls' = Calls
  <2>1. CallOf(q) = Calls[p]
    BY <1>1, <1>2, <1>6
  <2> QED
    BY <1>4, <2>1 DEF Board!Becomes, Calls
<1> QED
  BY <1>5, <1>6

LEMMA GotoGoes ==
    ASSUME TypeOK, NEW p \in Requests, ~Free(p),
           NEW step \in {"check", "insert", "save", "cache", "publish", "read"}, Goto(p, step)
    PROVE  /\ Board!Goes(p, PhaseOf(step))
           /\ PhaseOf(step) = PhaseOf(request[p].step) => Calls' = Calls
<1> PICK q : q = [request[p] EXCEPT !.step = step]
  OBVIOUS
<1>1. /\ q.step = step /\ q.op = request[p].op /\ q.user = request[p].user /\ q.loc = request[p].loc
      /\ q.pk = request[p].pk /\ q.patch = request[p].patch
  BY RequestType DEF Request
<1>2. Becomes(p, q) /\ q.step \notin {"idle", "done"}
  BY <1>1 DEF Goto
<1>3. /\ Board!Goes(p, PhaseOf(q.step))
      /\ PhaseOf(q.step) = PhaseOf(request[p].step) => Calls' = Calls
  BY <1>1, <1>2, LiveCall
<1> QED
  BY <1>1, <1>3

\* The board's view of the tables is the code's.
LEMMA SameView ==
    /\ \A pk : Board!Visible(pk) <=> Visible(pk)
    /\ \A l, u, pk : Board!Taken(l, u, pk) <=> Taken(l, u, pk)
    /\ \A pk, row : Board!Put(pk, row) = Put(pk, row)
    /\ \A pk : Board!Without(pk) = Without(pk)
    /\ Board!Fields = Fields /\ Board!Review = Review /\ Board!Patches = Patches
    /\ Board!Bodies = [Fields -> Contents]
  BY DEF Board!Visible, Visible, Board!Taken, Taken, Board!Put, Put, Board!Without, Without,
         Board!Fields, Fields, Board!Review, Review, Board!Patches, Patches, Board!Bodies

-----------------------------------------------------------------------------
(* Each step is a step of the board, or invisible to it.                   *)

Simulated == Board!Next \/ UNCHANGED Board!vars

LEMMA Simulates ==
    ASSUME NEW p \in Requests,
           \/ Board!Admit(p) \/ Board!Reject(p) \/ Board!Refuse(p) \/ Board!Malformed(p)
           \/ Board!Create(p) \/ Board!Update(p) \/ Board!Save(p) \/ Board!Delete(p)
           \/ Board!Vote(p) \/ Board!Unvote(p)
           \/ Board!Confirm(p) \/ Board!Fail(p) \/ Board!Lose(p) \/ Board!Invoke(p)
    PROVE  Simulated
  BY DEF Simulated, Board!Next

LEMMA Invisible ==
    ASSUME UNCHANGED tables, Calls' = Calls
    PROVE  Simulated
  BY DEF Simulated, Board!vars, Board!tables, tables

\* A server error of a request that was admitted.
LEMMA FailSimulated ==
    ASSUME TypeOK, NEW p \in Requests, Answer(p, 500), UNCHANGED tables,
           request[p].step \notin {"idle", "done", "location", "review"}
    PROVE  Simulated
<1>1. ~Free(p) /\ Calls[p].phase \in {"admitted", "effective"}
  BY CallFields DEF Free, PhaseOf
<1>2. Board!Fail(p)
  BY <1>1, AnswerEnds DEF Board!Fail, Board!Phase, Board!tables, tables
<1> QED
  BY <1>2, Simulates

LEMMA GetLocationSimulated ==
    ASSUME TypeOK, NEW p \in Requests, GetLocation(p)
    PROVE  Simulated
<1>1. ~Free(p) /\ request[p].op \in {"create", "formCreate"} /\ UNCHANGED Board!tables
  BY DEF GetLocation, Creates, Free, tables, Board!tables
<1>2. /\ Calls[p].phase = "pending" /\ Calls[p].op = request[p].op
      /\ Calls[p].loc = request[p].loc
  BY <1>1, CallFields DEF GetLocation, PhaseOf
<1>3. (Board!Found(p) <=> request[p].loc \in alive) /\ ~Board!Forbidden(p)
  BY <1>1, <1>2 DEF Board!Found, Board!Forbidden, Board!Creates
<1>4. CASE request[p].loc \in alive
  <2>1. Board!Goes(p, "admitted")
    BY <1>1, <1>4, GotoGoes DEF GetLocation, PhaseOf
  <2>2. Board!Admit(p)
    BY <1>1, <1>2, <1>3, <1>4, <2>1 DEF Board!Admit, Board!Phase
  <2> QED
    BY <2>2, Simulates
<1>5. CASE request[p].loc \notin alive
  <2>1. Board!End(p, IF Calls[p].op = "formCreate" THEN 400 ELSE 404)
    BY <1>1, <1>2, <1>5, AnswerEnds DEF GetLocation
  <2>2. Board!Reject(p)
    BY <1>1, <1>2, <1>3, <1>5, <2>1 DEF Board!Reject, Board!Phase
  <2> QED
    BY <2>2, Simulates
<1> QED
  BY <1>4, <1>5

LEMMA GetReviewSimulated ==
    ASSUME TypeOK, Shapes, NEW p \in Requests, GetReview(p)
    PROVE  Simulated
<1> DEFINE q == request[p]
<1>1. /\ ~Free(p) /\ UNCHANGED Board!tables
      /\ q.op \in {"update", "delete", "vote", "unvote", "formEdit", "formDelete"}
  BY ShapeAt DEF GetReview, Free, tables, Board!tables, ShapeOK, NextStep
<1>2. /\ Calls[p].phase = "pending" /\ Calls[p].op = q.op
      /\ Calls[p].pk = q.pk /\ Calls[p].user = q.user
  BY <1>1, CallFields DEF GetReview, PhaseOf
<1>3. Board!Found(p) <=> IF q.op \in Forms THEN q.pk \in DOMAIN reviews ELSE Visible(q.pk)
  BY <1>1, <1>2, SameView DEF Board!Found, Board!Creates, Board!Forms, Forms
<1>4. Board!Forbidden(p) <=> q.op \in {"update", "delete"} /\ ~MayWrite(q.user, q.pk)
  BY <1>1, <1>2 DEF Board!Forbidden, MayWrite
<1>5. CASE ~Board!Found(p)
  <2>1. Board!End(p, IF Calls[p].op = "formCreate" THEN 400 ELSE 404)
    BY <1>1, <1>2, <1>3, <1>5, AnswerEnds DEF GetReview
  <2>2. Board!Reject(p)
    BY <1>1, <1>2, <1>5, <2>1 DEF Board!Reject, Board!Phase
  <2> QED
    BY <2>2, Simulates
<1>6. CASE Board!Found(p) /\ Board!Forbidden(p)
  <2>1. Board!End(p, 403)
    BY <1>3, <1>4, <1>6, AnswerEnds DEF GetReview
  <2>2. Board!Reject(p)
    BY <1>1, <1>2, <1>6, <2>1 DEF Board!Reject, Board!Phase
  <2> QED
    BY <2>2, Simulates
<1>7. CASE Board!Found(p) /\ ~Board!Forbidden(p)
  <2>1. \E copy : Becomes(p, [q EXCEPT !.step = NextStep[q.op], !.copy = copy])
    BY <1>3, <1>4, <1>7 DEF GetReview
  <2> PICK copy : Becomes(p, [q EXCEPT !.step = NextStep[q.op], !.copy = copy])
    BY <2>1
  <2> PICK row : row = [q EXCEPT !.step = NextStep[q.op], !.copy = copy]
    OBVIOUS
  <2>2. /\ row.step = NextStep[q.op] /\ row.op = q.op /\ row.user = q.user /\ row.loc = q.loc
        /\ row.pk = q.pk /\ row.patch = q.patch
    BY RequestType DEF Request
  <2>3. NextStep[q.op] \in {"save", "sweep", "check", "unvote", "form"}
    BY <1>1 DEF NextStep
  <2>4. Becomes(p, row) /\ row.step \notin {"idle", "done"} /\ PhaseOf(row.step) = "admitted"
    BY <2>2, <2>3 DEF PhaseOf
  <2>5. Board!Goes(p, "admitted")
    BY <1>1, <2>2, <2>4, LiveCall
  <2>6. Board!Admit(p)
    BY <1>1, <1>2, <1>7, <2>5 DEF Board!Admit, Board!Phase
  <2> QED
    BY <2>6, Simulates
<1> QED
  BY <1>5, <1>6, <1>7

\* A request at one of the steps between its look-up and its change.
LEMMA AdmittedCall ==
    ASSUME TypeOK, NEW p \in Requests,
           request[p].step \in {"check", "insert", "save", "sweep", "remove", "unvote", "form"}
    PROVE  /\ ~Free(p) /\ Calls[p].phase = "admitted" /\ Calls[p].op = request[p].op
           /\ Calls[p].user = request[p].user /\ Calls[p].loc = request[p].loc
           /\ Calls[p].pk = request[p].pk /\ Calls[p].patch = request[p].patch
           /\ PhaseOf(request[p].step) = "admitted"
           /\ \A op : Board!Takes(p, op) <=> request[p].op = op
           /\ Board!VoteOf(p) = [review |-> request[p].pk, user |-> request[p].user]
<1>1. ~Free(p) /\ PhaseOf(request[p].step) = "admitted"
  BY DEF Free, PhaseOf
<1>2. /\ Calls[p].phase = "admitted" /\ Calls[p].op = request[p].op
      /\ Calls[p].user = request[p].user /\ Calls[p].loc = request[p].loc
      /\ Calls[p].pk = request[p].pk /\ Calls[p].patch = request[p].patch
  BY <1>1, CallFields
<1> QED
  BY <1>1, <1>2 DEF Board!Takes, Board!Phase, Board!VoteOf

LEMMA RejectBodySimulated ==
    ASSUME TypeOK, NEW p \in Requests, RejectBody(p)
    PROVE  Simulated
<1>1. Board!End(p, 400) /\ UNCHANGED Board!tables
  BY AnswerEnds DEF RejectBody, tables, Board!tables
<1>2. CASE request[p].op \in {"create", "formCreate"} /\ request[p].step = "location"
  <2>1. Calls[p].phase = "pending" /\ Calls[p].op = request[p].op
    BY <1>2, CallFields DEF Free, PhaseOf
  <2> QED
    BY <1>1, <1>2, <2>1, Simulates DEF Board!Malformed, Board!Phase, Board!Creates
<1>3. CASE request[p].op \in {"update", "vote", "formEdit"} /\ request[p].step \in {"save", "check", "form"}
  <2>1. Board!Takes(p, request[p].op)
    BY <1>3, AdmittedCall
  <2> QED
    BY <1>1, <1>3, <2>1, Simulates DEF Board!Malformed
<1> QED
  BY <1>2, <1>3 DEF RejectBody, Creates, At

LEMMA CheckReviewSimulated ==
    ASSUME TypeOK, NEW p \in Requests, CheckReview(p)
    PROVE  Simulated
<1>1. /\ request[p].step = "check" /\ request[p].op \in {"create", "formCreate"}
      /\ UNCHANGED tables /\ UNCHANGED Board!tables
  BY DEF CheckReview, Creates, tables, Board!tables
<1>2. CASE Goto(p, "insert")
  BY <1>1, <1>2, AdmittedCall, GotoGoes, Invisible DEF PhaseOf
<1>3. CASE /\ Taken(request[p].loc, request[p].user, 0)
           /\ Answer(p, IF request[p].op = "create" THEN 409 ELSE 400)
  <2>1. Board!Taken(Calls[p].loc, Calls[p].user, 0)
    BY <1>1, <1>3, AdmittedCall, SameView
  <2>2. Board!End(p, IF request[p].op = "create" THEN 409 ELSE 400)
    BY <1>3, AnswerEnds
  <2>3. \A op : Board!Takes(p, op) <=> request[p].op = op
    BY <1>1, AdmittedCall
  <2>4. Board!Refuse(p)
    BY <1>1, <2>1, <2>2, <2>3 DEF Board!Refuse
  <2> QED
    BY <2>4, Simulates
<1> QED
  BY <1>2, <1>3 DEF CheckReview

LEMMA InsertReviewSimulated ==
    ASSUME TypeOK, NEW p \in Requests, NEW body \in [Fields -> Contents], InsertReview(p, body)
    PROVE  Simulated
<1> DEFINE q == request[p]
<1>1. q.step = "insert" /\ q.op \in {"create", "formCreate"}
  BY DEF InsertReview, Creates
<1>2. \A op : Board!Takes(p, op) <=> request[p].op = op
  BY <1>1, AdmittedCall
<1>3. CASE Taken(q.loc, q.user, 0) /\ q.op = "create"
  <2>1. Board!Taken(Calls[p].loc, Calls[p].user, 0)
    BY <1>1, <1>3, AdmittedCall, SameView
  <2>2. Board!End(p, 409) /\ UNCHANGED Board!tables
    BY <1>3, AnswerEnds DEF InsertReview, tables, Board!tables
  <2>3. Board!Refuse(p)
    BY <1>2, <1>3, <2>1, <2>2 DEF Board!Refuse
  <2> QED
    BY <2>3, Simulates
<1>4. CASE Taken(q.loc, q.user, 0) /\ q.op = "formCreate"
  BY <1>1, <1>4, FailSimulated DEF InsertReview
<1>5. CASE ~Taken(q.loc, q.user, 0)
  <2> PICK row : row = [q EXCEPT !.step = "cache", !.pk = lastPk + 1]
    OBVIOUS
  <2> PICK c : c = Calls[p]
    OBVIOUS
  <2>1. c = [phase |-> "admitted", op |-> q.op, user |-> q.user, loc |-> q.loc, pk |-> q.pk,
             patch |-> q.patch]
    BY <1>1, AdmittedCall, CallFields
  <2>2. /\ row.step = "cache" /\ row.op = q.op /\ row.user = q.user /\ row.loc = q.loc
        /\ row.pk = lastPk + 1 /\ row.patch = q.patch
    BY RequestType DEF Request
  <2>3. CallOf(row) = [c EXCEPT !.phase = "effective", !.pk = lastPk + 1]
    <3>1. CallOf(row) = [phase |-> "effective", op |-> q.op, user |-> q.user, loc |-> q.loc,
                         pk |-> lastPk + 1, patch |-> q.patch]
      BY <2>2 DEF CallOf, PhaseOf
    <3> PICK d : d = [c EXCEPT !.phase = "effective", !.pk = lastPk + 1]
      OBVIOUS
    <3>2. DOMAIN d = DOMAIN c
      OBVIOUS
    <3>3. /\ d.phase = "effective" /\ d.pk = lastPk + 1 /\ d.op = q.op /\ d.user = q.user
          /\ d.loc = q.loc /\ d.patch = q.patch
      BY <2>1
    <3>4. d = [phase |-> "effective", op |-> q.op, user |-> q.user, loc |-> q.loc,
               pk |-> lastPk + 1, patch |-> q.patch]
      BY <2>1, <3>2, <3>3
    <3> QED
      BY <3>1, <3>4
  <2>4. Becomes(p, row)
    BY <1>5 DEF InsertReview
  <2>5. Board!Becomes(p, [Calls[p] EXCEPT !.phase = "effective", !.pk = lastPk + 1])
    BY <2>3, <2>4, CallBecomes
  <2>6. ~Board!Taken(Calls[p].loc, Calls[p].user, 0)
    BY <1>1, <1>5, AdmittedCall, SameView
  <2>7. /\ reviews' = Put(lastPk + 1, [loc |-> q.loc, author |-> q.user, body |-> body])
        /\ lastPk' = lastPk + 1 /\ UNCHANGED <<alive, votes>>
    BY <1>5 DEF InsertReview
  <2>8. reviews' = Board!Put(lastPk + 1,
                             [loc |-> Calls[p].loc, author |-> Calls[p].user, body |-> body])
    BY <2>1, <2>7, SameView
  <2>9. \E op \in Board!Creates : Board!Takes(p, op)
    BY <1>1, <1>2 DEF Board!Creates
  <2>10. body \in Board!Bodies
    BY SameView
  <2>11. Board!Create(p)
    BY <2>5, <2>6, <2>7, <2>8, <2>9, <2>10 DEF Board!Create
  <2> QED
    BY <2>11, Simulates
<1> QED
  BY <1>1, <1>3, <1>4, <1>5

\* A request whose change is committed.
LEMMA EffectiveCall ==
    ASSUME TypeOK, NEW p \in Requests, request[p].step \in {"cache", "publish", "read"}
    PROVE  /\ ~Free(p) /\ Calls[p].phase = "effective" /\ Calls[p].op = request[p].op
           /\ Calls[p].pk = request[p].pk /\ PhaseOf(request[p].step) = "effective"
<1>1. ~Free(p) /\ PhaseOf(request[p].step) = "effective"
  BY DEF Free, PhaseOf
<1> QED
  BY <1>1, CallFields

LEMMA RefreshCacheSimulated ==
    ASSUME TypeOK, NEW p \in Requests, RefreshCache(p)
    PROVE  Simulated
<1>1. request[p].step = "cache" /\ UNCHANGED tables /\ UNCHANGED Board!tables
  BY DEF RefreshCache, tables, Board!tables
<1>2. CASE Goto(p, "publish") \/ Goto(p, "read")
  BY <1>1, <1>2, EffectiveCall, GotoGoes, Invisible DEF PhaseOf
<1>3. ASSUME NEW status, Answer(p, status), request[p].op \in {"delete", "formDelete", "formCreate", "formEdit"},
             status = IF request[p].op \in {"delete", "formDelete"} THEN 204 ELSE 200
      PROVE  Simulated
  <2>1. status = Board!Success[Calls[p].op]
    BY <1>1, <1>3, EffectiveCall DEF Board!Success
  <2>2. Board!End(p, Board!Success[Calls[p].op])
    BY <1>3, <2>1, AnswerEnds
  <2>3. Board!Confirm(p)
    BY <1>1, <1>3, <2>2, EffectiveCall DEF Board!Confirm, Board!Phase
  <2> QED
    BY <2>3, Simulates
<1> QED
  BY <1>2, <1>3 DEF RefreshCache

LEMMA CacheOutageSimulated ==
    ASSUME TypeOK, NEW p \in Requests, CacheOutage(p)
    PROVE  Simulated
  BY FailSimulated DEF CacheOutage

LEMMA PublishSimulated ==
    ASSUME TypeOK, NEW p \in Requests, Publish(p)
    PROVE  Simulated
<1>1. request[p].step = "publish" /\ UNCHANGED tables
  BY DEF Publish, At
<1>2. CASE Goto(p, "read")
  BY <1>1, <1>2, EffectiveCall, GotoGoes, Invisible DEF PhaseOf
<1>3. CASE Answer(p, 500)
  BY <1>1, <1>3, FailSimulated
<1> QED
  BY <1>2, <1>3 DEF Publish

LEMMA SaveReviewSimulated ==
    ASSUME TypeOK, NEW p \in Requests, SaveReview(p)
    PROVE  Simulated
<1> DEFINE q == request[p]
           patched == [f \in Board!Fields |-> IF f \in DOMAIN Calls[p].patch THEN Calls[p].patch[f]
                                              ELSE reviews[Calls[p].pk].body[f]]
<1>1. q.step = "save" /\ q.op = "update" /\ UNCHANGED <<alive, lastPk, votes>>
  BY DEF SaveReview, At
<1>2. Board!Takes(p, "update") /\ Calls[p].patch = q.patch /\ Calls[p].pk = q.pk /\ ~Free(p)
  BY <1>1, AdmittedCall
<1>3. CASE DOMAIN q.patch = {}
  <2>1. Board!Goes(p, "effective") /\ UNCHANGED reviews
    BY <1>2, <1>3, GotoGoes DEF SaveReview, PhaseOf
  <2>2. Board!Update(p)
    BY <1>1, <1>2, <1>3, <2>1 DEF Board!Update
  <2> QED
    BY <2>2, Simulates
<1>4. CASE DOMAIN q.patch # {} /\ q.pk \in DOMAIN reviews
  <2>1. /\ Goto(p, "cache")
        /\ reviews' = Put(q.pk, [reviews[q.pk] EXCEPT !.body = Patched(reviews[q.pk].body, q.patch)])
    BY <1>4 DEF SaveReview
  <2>2. Board!Goes(p, "effective")
    BY <1>2, <2>1, GotoGoes DEF PhaseOf
  <2>3. Patched(reviews[q.pk].body, q.patch) = patched
    BY <1>2, SameView DEF Patched
  <2>4. reviews' = Board!Put(Calls[p].pk, [reviews[Calls[p].pk] EXCEPT !.body = patched])
    BY <1>2, <2>1, <2>3, SameView
  <2>5. Board!Update(p)
    BY <1>1, <1>2, <1>4, <2>2, <2>4 DEF Board!Update
  <2> QED
    BY <2>5, Simulates
<1>5. CASE DOMAIN q.patch # {} /\ q.pk \notin DOMAIN reviews
  BY <1>1, <1>5, FailSimulated DEF SaveReview, tables
<1> QED
  BY <1>3, <1>4, <1>5

LEMMA ValidateFormSimulated ==
    ASSUME TypeOK, NEW p \in Requests, NEW l \in Locations, NEW u \in Users, NEW patch,
           ValidateForm(p, l, u, patch)
    PROVE  Simulated
<1> DEFINE q == request[p]
<1>1. q.step = "form" /\ q.op = "formEdit" /\ UNCHANGED tables /\ UNCHANGED Board!tables
  BY DEF ValidateForm, At, tables, Board!tables
<1>2. Board!Takes(p, "formEdit") /\ Calls[p].pk = q.pk /\ ~Free(p)
  BY <1>1, AdmittedCall
<1>3. CASE q.pk \notin DOMAIN reviews
  <2>1. Board!End(p, 404)
    BY <1>3, AnswerEnds DEF ValidateForm
  <2>2. Board!Refuse(p)
    BY <1>1, <1>2, <1>3, <2>1 DEF Board!Refuse
  <2> QED
    BY <2>2, Simulates
<1>4. CASE q.pk \in DOMAIN reviews /\ (l \notin alive \/ Taken(l, u, q.pk))
  <2>1. Board!End(p, 400)
    BY <1>4, AnswerEnds DEF ValidateForm
  <2>2. Board!Malformed(p)
    BY <1>1, <1>2, <2>1 DEF Board!Malformed
  <2> QED
    BY <2>2, Simulates
<1>5. CASE q.pk \in DOMAIN reviews /\ ~(l \notin alive \/ Taken(l, u, q.pk))
  <2>1. \E copy : Becomes(p, [q EXCEPT !.step = "save", !.copy = copy])
    BY <1>5 DEF ValidateForm
  <2> PICK copy : Becomes(p, [q EXCEPT !.step = "save", !.copy = copy])
    BY <2>1
  <2> PICK row : row = [q EXCEPT !.step = "save", !.copy = copy]
    OBVIOUS
  <2>2. /\ row.step = "save" /\ row.op = q.op /\ row.user = q.user /\ row.loc = q.loc
        /\ row.pk = q.pk /\ row.patch = q.patch
    BY RequestType DEF Request
  <2>3. Becomes(p, row) /\ row.step \notin {"idle", "done"}
    BY <2>2
  <2>4. PhaseOf(row.step) = PhaseOf(q.step)
    BY <1>1, <2>2 DEF PhaseOf
  <2>5. Calls' = Calls
    BY <1>2, <2>2, <2>3, <2>4, LiveCall
  <2> QED
    BY <1>1, <2>5, Invisible
<1> QED
  BY <1>3, <1>4, <1>5

LEMMA SaveFormSimulated ==
    ASSUME TypeOK, Shapes, NEW p \in Requests, SaveForm(p)
    PROVE  Simulated
<1> DEFINE q == request[p]
<1>1. q.step = "save" /\ q.op = "formEdit" /\ UNCHANGED <<alive, lastPk, votes>>
  BY DEF SaveForm, At
<1>2. q.copy \in Review
  BY <1>1, ShapeAt DEF ShapeOK
<1>3. Board!Takes(p, "formEdit") /\ Calls[p].pk = q.pk /\ ~Free(p)
  BY <1>1, AdmittedCall
<1>4. CASE Taken(q.copy.loc, q.copy.author, q.pk)
  BY <1>1, <1>4, FailSimulated DEF SaveForm, tables
<1>5. CASE ~Taken(q.copy.loc, q.copy.author, q.pk)
  <2>1. Goto(p, "cache") /\ reviews' = Put(q.pk, q.copy)
    BY <1>5 DEF SaveForm
  <2>2. Board!Goes(p, "effective")
    BY <1>3, <2>1, GotoGoes DEF PhaseOf
  <2>3. \E row \in Board!Review :
            ~Board!Taken(row.loc, row.author, Calls[p].pk) /\ reviews' = Board!Put(Calls[p].pk, row)
    BY <1>2, <1>3, <1>5, <2>1, SameView
  <2>4. Board!Save(p)
    BY <1>1, <1>3, <2>2, <2>3 DEF Board!Save
  <2> QED
    BY <2>4, Simulates
<1> QED
  BY <1>4, <1>5

LEMMA SweepVotesSimulated ==
    ASSUME TypeOK, NEW p \in Requests, SweepVotes(p)
    PROVE  Simulated
<1> DEFINE q == request[p]
<1>1. q.step = "sweep" /\ UNCHANGED tables
  BY DEF SweepVotes
<1> PICK row : row = [q EXCEPT !.step = "remove", !.swept = VotesOn(q.pk)]
  OBVIOUS
<1>2. /\ row.step = "remove" /\ row.op = q.op /\ row.user = q.user /\ row.loc = q.loc
      /\ row.pk = q.pk /\ row.patch = q.patch
  BY RequestType DEF Request
<1>3. Becomes(p, row) /\ row.step \notin {"idle", "done"}
  BY <1>2 DEF SweepVotes
<1>4. PhaseOf(row.step) = PhaseOf(q.step) /\ ~Free(p)
  BY <1>1, <1>2 DEF PhaseOf, Free
<1>5. Calls' = Calls
  BY <1>2, <1>3, <1>4, LiveCall
<1> QED
  BY <1>1, <1>5, Invisible

\* The votes swept, and no other, are those of the review at the commit.
LEMMA RemoveReviewSimulated ==
    ASSUME TypeOK, Shapes, SweptOK, NEW p \in Requests, RemoveReview(p)
    PROVE  Simulated
<1> DEFINE q == request[p]
<1>1. q.step = "remove" /\ q.op \in {"delete", "formDelete"} /\ UNCHANGED <<alive, lastPk>>
  BY ShapeAt DEF RemoveReview, ShapeOK
<1>2. /\ \A op : Board!Takes(p, op) <=> q.op = op
      /\ Calls[p].pk = q.pk /\ ~Free(p)
  BY <1>1, AdmittedCall
<1>3. CASE VotesOn(q.pk) \subseteq q.swept
  <2>1. Goto(p, "cache") /\ reviews' = Without(q.pk) /\ votes' = votes \ q.swept
    BY <1>3 DEF RemoveReview
  <2>2. \A v \in q.swept : v.review = q.pk
    BY <1>1 DEF SweptOK
  <2>3. votes' = {v \in votes : v.review # Calls[p].pk}
    BY <1>2, <1>3, <2>1, <2>2 DEF VotesOn
  <2>4. Board!Goes(p, "effective")
    BY <1>2, <2>1, GotoGoes DEF PhaseOf
  <2>5. reviews' = Board!Without(Calls[p].pk)
    BY <1>2, <2>1, SameView
  <2>6. \E op \in Board!Deletes : Board!Takes(p, op)
    BY <1>1, <1>2 DEF Board!Deletes
  <2>7. Board!Delete(p)
    BY <1>1, <2>3, <2>4, <2>5, <2>6 DEF Board!Delete
  <2> QED
    BY <2>7, Simulates
<1>4. CASE ~(VotesOn(q.pk) \subseteq q.swept)
  BY <1>1, <1>4, FailSimulated DEF RemoveReview, tables
<1> QED
  BY <1>3, <1>4

LEMMA CheckVoteSimulated ==
    ASSUME TypeOK, NEW p \in Requests, CheckVote(p)
    PROVE  Simulated
<1>1. request[p].step = "check" /\ request[p].op = "vote" /\ UNCHANGED tables /\ UNCHANGED Board!tables
  BY DEF CheckVote, At, tables, Board!tables
<1>2. Board!Takes(p, "vote") /\ Board!VoteOf(p) = [review |-> request[p].pk, user |-> request[p].user]
  BY <1>1, AdmittedCall
<1>3. CASE Goto(p, "insert")
  BY <1>1, <1>3, AdmittedCall, GotoGoes, Invisible DEF PhaseOf
<1>4. CASE [review |-> request[p].pk, user |-> request[p].user] \in votes /\ Answer(p, 409)
  <2>1. Board!End(p, 409)
    BY <1>4, AnswerEnds
  <2>2. Board!Refuse(p)
    BY <1>1, <1>2, <1>4, <2>1 DEF Board!Refuse
  <2> QED
    BY <2>2, Simulates
<1> QED
  BY <1>3, <1>4 DEF CheckVote

LEMMA InsertVoteSimulated ==
    ASSUME TypeOK, NEW p \in Requests, InsertVote(p)
    PROVE  Simulated
<1> DEFINE q == request[p]
           vote == [review |-> q.pk, user |-> q.user]
<1>1. q.step = "insert" /\ q.op = "vote" /\ UNCHANGED <<alive, reviews, lastPk>>
  BY DEF InsertVote, At
<1>2. Board!Takes(p, "vote") /\ Board!VoteOf(p) = vote /\ Calls[p].pk = q.pk /\ ~Free(p)
  BY <1>1, AdmittedCall
<1>3. CASE vote \in votes
  <2>1. Board!End(p, 409) /\ UNCHANGED votes
    BY <1>3, AnswerEnds DEF InsertVote
  <2>2. Board!Refuse(p)
    BY <1>1, <1>2, <1>3, <2>1 DEF Board!Refuse, Board!tables
  <2> QED
    BY <2>2, Simulates
<1>4. CASE vote \notin votes /\ q.pk \notin DOMAIN reviews
  BY <1>1, <1>4, FailSimulated DEF InsertVote, tables
<1>5. CASE vote \notin votes /\ q.pk \in DOMAIN reviews
  <2>1. Goto(p, "read") /\ votes' = votes \union {vote}
    BY <1>5 DEF InsertVote
  <2>2. Board!Goes(p, "effective")
    BY <1>2, <2>1, GotoGoes DEF PhaseOf
  <2>3. Board!Vote(p)
    BY <1>1, <1>2, <1>5, <2>1, <2>2 DEF Board!Vote
  <2> QED
    BY <2>3, Simulates
<1> QED
  BY <1>3, <1>4, <1>5

LEMMA RemoveVoteSimulated ==
    ASSUME TypeOK, NEW p \in Requests, RemoveVote(p)
    PROVE  Simulated
<1> DEFINE q == request[p]
           vote == [review |-> q.pk, user |-> q.user]
<1>1. q.step = "unvote" /\ q.op = "unvote" /\ UNCHANGED <<alive, reviews, lastPk>>
  BY DEF RemoveVote, At
<1>2. Board!Takes(p, "unvote") /\ Board!VoteOf(p) = vote
  BY <1>1, AdmittedCall
<1>3. CASE vote \in votes
  <2>1. Board!End(p, 204) /\ votes' = votes \ {vote}
    BY <1>3, AnswerEnds DEF RemoveVote
  <2>2. Board!Unvote(p)
    BY <1>1, <1>2, <1>3, <2>1 DEF Board!Unvote
  <2> QED
    BY <2>2, Simulates
<1>4. CASE vote \notin votes
  <2>1. Board!End(p, 404) /\ UNCHANGED votes
    BY <1>4, AnswerEnds DEF RemoveVote
  <2>2. Board!Refuse(p)
    BY <1>1, <1>2, <1>4, <2>1 DEF Board!Refuse, Board!tables
  <2> QED
    BY <2>2, Simulates
<1> QED
  BY <1>3, <1>4

LEMMA ReadSimulated ==
    ASSUME TypeOK, Shapes, NEW p \in Requests, Read(p)
    PROVE  Simulated
<1> DEFINE q == request[p]
<1>1. /\ q.step = "read" /\ q.op \in {"create", "update", "vote"}
      /\ UNCHANGED tables /\ UNCHANGED Board!tables
  BY ShapeAt DEF Read, ShapeOK, tables, Board!tables
<1>2. Board!Phase(p, "effective") /\ Calls[p].op = q.op /\ Calls[p].pk = q.pk
  BY <1>1, EffectiveCall DEF Board!Phase
<1>3. CASE ~Visible(q.pk)
  BY <1>1, <1>3, FailSimulated DEF Read
<1>4. CASE Visible(q.pk)
  <2>1. Board!Success[Calls[p].op] = IF q.op = "update" THEN 200 ELSE 201
    BY <1>1, <1>2 DEF Board!Success
  <2>2. Board!End(p, Board!Success[Calls[p].op])
    BY <1>4, <2>1, AnswerEnds DEF Read
  <2>3. Board!Visible(Calls[p].pk)
    BY <1>2, <1>4, SameView
  <2>4. Board!Confirm(p)
    BY <1>1, <1>2, <2>2, <2>3 DEF Board!Confirm
  <2> QED
    BY <2>4, Simulates
<1> QED
  BY <1>3, <1>4

LEMMA KillSimulated ==
    ASSUME TypeOK, NEW p \in Requests, Kill(p)
    PROVE  Simulated
<1>1. ~Free(p) /\ UNCHANGED Board!tables /\ Board!End(p, Board!None)
  BY AnswerEnds DEF Kill, tables, Board!tables, Board!None, NoAnswer
<1>2. Calls[p].phase # "over"
  BY <1>1, CallFields DEF PhaseOf
<1>3. Board!Lose(p)
  BY <1>1, <1>2 DEF Board!Lose, Board!Phase
<1> QED
  BY <1>3, Simulates

-----------------------------------------------------------------------------
(* Arrivals, and the rest of the system.                                   *)

LEMMA FreeCall ==
    ASSUME TypeOK, NEW p \in Requests, Free(p)
    PROVE  Board!Phase(p, "over")
<1>1. Calls[p] = Board!Over(request[p].op, request[p].status)
  BY CallFields
<1> QED
  BY <1>1 DEF Board!Phase, Board!Over

LEMMA SendCreateSimulated ==
    ASSUME TypeOK, NEW p \in Requests, NEW op \in {"create", "formCreate"}, NEW u \in Users,
           NEW l \in Locations, SendCreate(p, op, u, l)
    PROVE  Simulated
<1> PICK q : q = NewCreate(op, u, l)
  OBVIOUS
<1>1. /\ q.step = "location" /\ q.op = op /\ q.user = u /\ q.loc = l /\ q.pk = 0 /\ q.patch = <<>>
      /\ Becomes(p, q)
  BY DEF NewCreate, IdleRequest, SendCreate
<1>2. CallOf(q) = Board!Pending(op, u, l, 0, <<>>)
  BY <1>1 DEF CallOf, PhaseOf, Board!Pending
<1>3. Board!Becomes(p, Board!Pending(op, u, l, 0, <<>>))
  BY <1>1, <1>2, CallBecomes
<1>4. Board!Invoke(p)
  BY <1>3, FreeCall DEF SendCreate, Board!Invoke, Board!Creates, tables, Board!tables
<1> QED
  BY <1>4, Simulates

LEMMA SendOnSimulated ==
    ASSUME TypeOK, NEW p \in Requests, NEW u \in Users, NEW pk \in Pks, NEW patch \in Patches,
           NEW op \in Operations \ {"create", "formCreate"}, op # "update" => patch = <<>>,
           SendOn(p, op, u, pk, patch)
    PROVE  Simulated
<1> PICK q : q = NewOn(op, u, pk, patch)
  OBVIOUS
<1>1. /\ q.step = "review" /\ q.op = op /\ q.user = u /\ q.loc = Board!AnyLocation
      /\ q.pk = pk /\ q.patch = patch /\ Becomes(p, q)
  BY DEF NewOn, IdleRequest, SendOn, Board!AnyLocation
<1>2. CallOf(q) = Board!Pending(op, u, Board!AnyLocation, pk, patch)
  BY <1>1 DEF CallOf, PhaseOf, Board!Pending
<1>3. Board!Becomes(p, Board!Pending(op, u, Board!AnyLocation, pk, patch))
  BY <1>1, <1>2, CallBecomes
<1>4. pk \in 1 .. lastPk
  BY Counted, Types DEF SendOn
<1>5. patch \in Board!Patches
  BY SameView
<1>6. Board!Phase(p, "over") /\ UNCHANGED Board!tables
  BY FreeCall DEF SendOn, tables, Board!tables
<1>7. CASE op = "update"
  <2>1. Board!Invoke(p)
    BY <1>3, <1>4, <1>5, <1>6, <1>7 DEF Board!Invoke
  <2> QED
    BY <2>1, Simulates
<1>8. CASE op # "update"
  <2>1. op \in Board!Operations \ (Board!Creates \union {"update"})
    BY <1>8 DEF Board!Operations, Board!Creates, Board!Forms, Operations, Forms
  <2>2. Board!Becomes(p, Board!Pending(op, u, Board!AnyLocation, pk, <<>>))
    BY <1>3, <1>8
  <2>3. Board!Invoke(p)
    BY <1>4, <1>6, <2>1, <2>2 DEF Board!Invoke
  <2> QED
    BY <2>3, Simulates
<1> QED
  BY <1>7, <1>8

LEMMA StepSimulated ==
    ASSUME TypeOK, Shapes, SweptOK, NEW p \in Requests, Step(p) \/ Kill(p)
    PROVE  Simulated
<1>1. ASSUME NEW c \in Contents, InsertReview(p, [f \in Fields |-> c]) PROVE Simulated
  <2>1. [f \in Fields |-> c] \in [Fields -> Contents]
    OBVIOUS
  <2> QED
    BY <1>1, <2>1, InsertReviewSimulated
<1>2. ASSUME NEW l \in Locations, NEW u \in Users, NEW patch \in Patches, ValidateForm(p, l, u, patch)
      PROVE  Simulated
  BY <1>2, ValidateFormSimulated
<1> QED
  BY <1>1, <1>2, RejectBodySimulated, GetLocationSimulated, CheckReviewSimulated, RefreshCacheSimulated,
     CacheOutageSimulated, PublishSimulated, GetReviewSimulated, SaveReviewSimulated,
     SweepVotesSimulated, RemoveReviewSimulated, SaveFormSimulated, CheckVoteSimulated,
     InsertVoteSimulated, RemoveVoteSimulated, ReadSimulated, KillSimulated DEF Step

LEMMA StepRefines == IInv /\ SweptOK /\ [Next]_vars => [Board!Next]_(Board!vars)
<1> SUFFICES ASSUME TypeOK, Shapes, SweptOK, [Next]_vars PROVE Simulated
  BY DEF IInv, Simulated
<1>1. ASSUME NEW p \in Requests, Send(p) PROVE Simulated
  <2>1. ASSUME NEW u \in Users, NEW l \in Locations, NEW op \in {"create", "formCreate"},
               SendCreate(p, op, u, l)
        PROVE  Simulated
    BY <2>1, SendCreateSimulated
  <2>2. ASSUME NEW u \in Users, NEW pk \in Pks, NEW patch \in Patches, SendOn(p, "update", u, pk, patch)
        PROVE  Simulated
    <3>1. "update" \in Operations \ {"create", "formCreate"}
      BY DEF Operations
    <3> QED
      BY <2>2, <3>1, SendOnSimulated
  <2>3. ASSUME NEW u \in Users, NEW pk \in Pks,
               NEW op \in Operations \ {"create", "formCreate", "update"}, SendOn(p, op, u, pk, <<>>)
        PROVE  Simulated
    <3>1. <<>> \in Patches /\ op \in Operations \ {"create", "formCreate"}
      BY Types
    <3> QED
      BY <2>3, <3>1, SendOnSimulated
  <2> QED
    BY <1>1, <2>1, <2>2, <2>3 DEF Send
<1>2. ASSUME NEW l \in Locations, SoftDelete(l) \/ Restore(l) PROVE Simulated
  <2>1. Calls' = Calls
    BY <1>2 DEF SoftDelete, Restore, Calls
  <2>2. Board!Toggle(l)
    BY <1>2, <2>1 DEF SoftDelete, Restore, Board!Toggle
  <2> QED
    BY <2>2 DEF Simulated, Board!Next
<1>3. CASE BrokerOutage \/ UNCHANGED vars
  <2>1. UNCHANGED tables /\ Calls' = Calls
    BY <1>3 DEF BrokerOutage, vars, tables, Calls
  <2> QED
    BY <2>1, Invisible
<1> QED
  BY <1>1, <1>2, <1>3, StepSimulated DEF Next

\* However the statements of create_review, update_review, delete_review, vote_review,
\* remove_vote and of the administrator's forms interleave, every request is admitted at
\* one moment and takes effect at one later moment, whole: a 4xx has changed nothing, a
\* 2xx what was asked for, once, and a review goes together with its votes.
THEOREM ReviewsImplementBoard == Spec => ImplementsBoard
<1>1. Init => Board!Init
  <2>1. CallOf(IdleRequest) = Board!Over("none", Board!None)
    BY DEF CallOf, IdleRequest, Board!Over, Board!None, NoAnswer
  <2> QED
    BY <2>1 DEF Init, Board!Init, Calls
<1> QED
  BY <1>1, SweptInvariant, StepRefines, PTL DEF Spec, ImplementsBoard, Board!Spec
=============================================================================
