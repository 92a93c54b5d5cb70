--------------------------- MODULE Subscriptions ---------------------------
(***************************************************************************)
(* Subscribing to a location and unsubscribing from it as concurrent HTTP  *)
(* requests (src/apps/notifications: views.py, services.py, models.py).    *)
(* A request looks the location up, then checks for a row, then inserts    *)
(* one: three statements that others interleave with.  The unique          *)
(* constraint turns a lost race into the answer of the check.              *)
(***************************************************************************)
CONSTANTS
    Requests,   \* slots for requests being served at the same time
    Users,
    Locations

ASSUME NonEmptyAssumption == Users # {} /\ Locations # {}

VARIABLES
    alive,    \* the locations with is_deleted = FALSE
    gone,     \* the users and locations an administrator has removed
    rows,     \* the LocationSubscription rows, as <<user, location>>
    request   \* the state of each request

vars == <<alive, gone, rows, request>>

Ops == {"add", "remove"}
Steps == {"idle", "location", "check", "insert", "delete", "done"}
NoAnswer == 0
Statuses == {NoAnswer, 201, 204, 404, 409, 500}
Request == [step : Steps, op : Ops, user : Users, loc : Locations, status : Statuses]
IdleRequest == [step |-> "idle", op |-> "add", user |-> CHOOSE u \in Users : TRUE,
                loc |-> CHOOSE l \in Locations : TRUE, status |-> NoAnswer]

Init ==
    /\ alive = Locations /\ gone = {} /\ rows = {}
    /\ request = [p \in Requests |-> IdleRequest]

-----------------------------------------------------------------------------
Pair(p) == <<request[p].user, request[p].loc>>

At(p, step) == request[p].step = step

Goto(p, step) == request' = [request EXCEPT ![p].step = step]

Answer(p, status) ==
    request' = [request EXCEPT ![p] = [request[p] EXCEPT !.step = "done", !.status = status]]

Free(p) == request[p].step \in {"idle", "done"}

\* POST or DELETE /locations/{l}/subscribe/ by a user who is logged in.
Send(p, op, u, l) ==
    /\ Free(p) /\ u \notin gone
    /\ request' = [request EXCEPT ![p] =
           [step |-> "location", op |-> op, user |-> u, loc |-> l, status |-> NoAnswer]]
    /\ UNCHANGED <<alive, gone, rows>>

\* get_location: 404 unless alive.
GetLocation(p) ==
    /\ At(p, "location")
    /\ IF request[p].loc \notin alive THEN Answer(p, 404)
       ELSE Goto(p, IF request[p].op = "add" THEN "check" ELSE "delete")
    /\ UNCHANGED <<alive, gone, rows>>

\* subscribe: the exists() check ...
Check(p) ==
    /\ At(p, "check")
    /\ IF Pair(p) \in rows THEN Answer(p, 409) ELSE Goto(p, "insert")
    /\ UNCHANGED <<alive, gone, rows>>

\* Mutant of Insert: a violated constraint is taken for success.
InsertAnyway(p) ==
    /\ At(p, "insert")
    /\ rows' = rows \union {Pair(p)} /\ Answer(p, 201)
    /\ UNCHANGED <<alive, gone>>

\* ... and the atomic insert: 409 on the unique constraint; any other IntegrityError
\* is raised, and a 500: of a foreign key, when the user or the location was removed.
\* The row of a location that was only soft-deleted meanwhile is still there.
Insert(p) ==
    /\ At(p, "insert")
    /\ IF Pair(p) \in rows THEN Answer(p, 409) /\ UNCHANGED rows
       ELSE IF {request[p].user, request[p].loc} \intersect gone # {}
       THEN Answer(p, 500) /\ UNCHANGED rows
       ELSE rows' = rows \union {Pair(p)} /\ Answer(p, 201)
    /\ UNCHANGED <<alive, gone>>

\* unsubscribe: 404 when no row was deleted.
Delete(p) ==
    /\ At(p, "delete")
    /\ rows' = rows \ {Pair(p)}
    /\ Answer(p, IF Pair(p) \in rows THEN 204 ELSE 404)
    /\ UNCHANGED <<alive, gone>>

\* The worker is killed before the statement it was about to execute.
Kill(p) ==
    /\ ~Free(p)
    /\ Answer(p, NoAnswer)
    /\ UNCHANGED <<alive, gone, rows>>

\* soft_delete_location; an administrator clears is_deleted again.
SoftDelete(l) == l \in alive /\ alive' = alive \ {l} /\ UNCHANGED <<gone, rows, request>>
Restore(l) ==
    /\ l \notin alive \union gone
    /\ alive' = alive \union {l}
    /\ UNCHANGED <<gone, rows, request>>

\* An administrator deletes the row of a user or location; subscriptions CASCADE.
Remove(x) ==
    /\ x \notin gone
    /\ gone' = gone \union {x} /\ alive' = alive \ {x}
    /\ rows' = {r \in rows : x \notin {r[1], r[2]}}
    /\ UNCHANGED request

-----------------------------------------------------------------------------
Step(p) == GetLocation(p) \/ Check(p) \/ Insert(p) \/ Delete(p) \/ Kill(p)

Next ==
    \/ \E p \in Requests, op \in Ops, u \in Users, l \in Locations : Send(p, op, u, l)
    \/ \E p \in Requests : Step(p)
    \/ \E l \in Locations : SoftDelete(l) \/ Restore(l)
    \/ \E x \in Users \union Locations : Remove(x)

Spec == Init /\ [][Next]_vars

-----------------------------------------------------------------------------
(* Properties.                                                             *)

\* Every variable has its type.
TypeOK ==
    /\ alive \subseteq Locations /\ gone \subseteq Users \union Locations
    /\ rows \subseteq Users \X Locations
    /\ request \in [Requests -> Request]

\* The call of the register that a request stands for: pending until it is answered.
CallOf(q) ==
    [op |-> q.op, user |-> q.user, loc |-> q.loc,
     result |-> IF q.step \in {"idle", "done"} THEN q.status ELSE 100]
Calls == [p \in Requests |-> CallOf(request[p])]

Abstract == INSTANCE Register WITH members <- rows, call <- Calls

\* Requests are linearizable: between a request's arrival and its answer there is
\* one moment at which the rows justify the answer and change as it says, however
\* its check and insert interleave with other requests and with deletions.
ImplementsRegister == Abstract!Spec
=============================================================================
