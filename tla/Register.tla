------------------------------ MODULE Register ------------------------------
(***************************************************************************)
(* What clients are promised by a resource with one row per user and       *)
(* location: each request takes effect once, at one moment between its     *)
(* arrival and its answer, and the answer tells what the rows were then.   *)
(* Only a user or location that is removed meanwhile leads to an error.    *)
(***************************************************************************)
CONSTANTS
    Requests,   \* slots for requests being served at the same time
    Users,
    Locations

VARIABLES
    alive,    \* the locations with is_deleted = FALSE
    gone,     \* the users and locations that were removed
    members,  \* the pairs that have a row
    call      \* the state of each request

vars == <<alive, gone, members, call>>

Ops == {"add", "remove"}
Pending == 100
Lost == 0
\* No request yet, or none that was answered; one under way; the answers.
Results == {Lost, Pending, 201, 204, 404, 409, 500}
Call == [op : Ops, user : Users, loc : Locations, result : Results]
NoCall == [op |-> "add", user |-> CHOOSE u \in Users : TRUE,
           loc |-> CHOOSE l \in Locations : TRUE, result |-> Lost]

Init ==
    /\ alive = Locations /\ gone = {} /\ members = {}
    /\ call = [p \in Requests |-> NoCall]

Pair(p) == <<call[p].user, call[p].loc>>

Invoke(p, op, u, l) ==
    /\ call[p].result # Pending /\ u \notin gone
    /\ call' = [call EXCEPT ![p] = [op |-> op, user |-> u, loc |-> l, result |-> Pending]]
    /\ UNCHANGED <<alive, gone, members>>

\* p takes effect: the members are those after it, the answer is result.
Respond(p, after, result) ==
    /\ call[p].result = Pending
    /\ members' = after
    /\ call' = [call EXCEPT ![p].result = result]
    /\ UNCHANGED <<alive, gone>>

\* Its user or location was removed.
Orphan(p) == {call[p].user, call[p].loc} \intersect gone # {}

Add(p) ==
    /\ call[p].op = "add"
    /\ \/ Pair(p) \notin members /\ ~Orphan(p) /\ Respond(p, members \union {Pair(p)}, 201)
       \/ Pair(p) \in members /\ Respond(p, members, 409)
       \/ Orphan(p) /\ Respond(p, members, 500)

Remove(p) ==
    /\ call[p].op = "remove"
    /\ \/ Pair(p) \in members /\ Respond(p, members \ {Pair(p)}, 204)
       \/ Pair(p) \notin members /\ Respond(p, members, 404)

\* A soft-deleted location has no resources; a server that dies answers nothing.
Hidden(p) == call[p].loc \notin alive /\ Respond(p, members, 404)
Lose(p) == Respond(p, members, Lost)

Toggle(l) ==
    /\ l \notin gone
    /\ alive' = IF l \in alive THEN alive \ {l} ELSE alive \union {l}
    /\ UNCHANGED <<gone, members, call>>

\* A user or location is removed, and with it its rows.
Withdraw(x) ==
    /\ x \notin gone
    /\ gone' = gone \union {x} /\ alive' = alive \ {x}
    /\ members' = {m \in members : x \notin {m[1], m[2]}}
    /\ UNCHANGED call

Next ==
    \/ \E p \in Requests, op \in Ops, u \in Users, l \in Locations : Invoke(p, op, u, l)
    \/ \E p \in Requests : Add(p) \/ Remove(p) \/ Hidden(p) \/ Lose(p)
    \/ \E l \in Locations : Toggle(l)
    \/ \E x \in Users \union Locations : Withdraw(x)

Spec == Init /\ [][Next]_vars
=============================================================================
