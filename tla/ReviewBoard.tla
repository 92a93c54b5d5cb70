----------------------------- MODULE ReviewBoard -----------------------------
(***************************************************************************)
(* What the clients of reviews and votes are promised                      *)
(* (src/apps/reviews: views.py, services.py, admin.py).  A request that is *)
(* under way is admitted or refused by what the tables say at one moment,  *)
(* takes effect at one later moment, all at once, or is refused there, and *)
(* is answered.  A refusal has changed nothing; a success has changed      *)
(* what was asked for, once; only a server error leaves open which.        *)
(*                                                                         *)
(* Reviews implements this with a sequence of statements for each request. *)
(***************************************************************************)
EXTENDS Integers

CONSTANTS
    Requests,
    Users,
    Staff,
    Locations,
    Contents

VARIABLES
    alive,    \* the locations with is_deleted = FALSE
    reviews,  \* the reviews by primary key
    lastPk,   \* the last primary key given to a review
    votes,
    call      \* the state of each request

tables == <<alive, reviews, lastPk, votes>>
vars == <<tables, call>>

Creates == {"create", "formCreate"}
Deletes == {"delete", "formDelete"}
Forms == {"formCreate", "formEdit", "formDelete"}
Operations == {"create", "update", "delete", "vote", "unvote"} \union Forms

Fields == {"rating", "text"}
Bodies == [Fields -> Contents]
Review == [loc : Locations, author : Users, body : Bodies]
Patches == UNION {[fields -> Contents] : fields \in SUBSET Fields}

\* No answer was given, or none yet.
None == 0
Over(op, status) == [phase |-> "over", op |-> op, status |-> status]
\* A request that names no location carries any.
AnyLocation == CHOOSE l \in Locations : TRUE
Pending(op, u, l, pk, patch) ==
    [phase |-> "pending", op |-> op, user |-> u, loc |-> l, pk |-> pk, patch |-> patch]

Init ==
    /\ alive = Locations /\ reviews = <<>> /\ lastPk = 0 /\ votes = {}
    /\ call = [p \in Requests |-> Over("none", None)]

-----------------------------------------------------------------------------
\* What a client sees of the tables.
Visible(pk) == pk \in DOMAIN reviews /\ reviews[pk].loc \in alive
Taken(l, u, pk) == \E k \in DOMAIN reviews \ {pk} : reviews[k].loc = l /\ reviews[k].author = u
Put(pk, row) == [k \in DOMAIN reviews \union {pk} |-> IF k = pk THEN row ELSE reviews[k]]
Without(pk) == [k \in DOMAIN reviews \ {pk} |-> reviews[k]]
VoteOf(p) == [review |-> call[p].pk, user |-> call[p].user]

Phase(p, phase) == call[p].phase = phase
Becomes(p, c) == call' = [call EXCEPT ![p] = c]
Goes(p, phase) == Becomes(p, [call[p] EXCEPT !.phase = phase])
End(p, status) == Becomes(p, Over(call[p].op, status))

\* A create names a location; every other request a review, an update also a patch.
Invoke(p) ==
    /\ Phase(p, "over")
    /\ \E u \in Users :
        \/ \E op \in Creates, l \in Locations : Becomes(p, Pending(op, u, l, 0, <<>>))
        \/ \E pk \in 1 .. lastPk :
            \/ \E patch \in Patches : Becomes(p, Pending("update", u, AnyLocation, pk, patch))
            \/ \E op \in Operations \ (Creates \union {"update"}) :
                Becomes(p, Pending(op, u, AnyLocation, pk, <<>>))
    /\ UNCHANGED tables

-----------------------------------------------------------------------------
(* Admission.                                                              *)

\* There is such a location, or review; the administration sees hidden reviews.
Found(p) ==
    IF call[p].op \in Creates THEN call[p].loc \in alive
    ELSE IF call[p].op \in Forms THEN call[p].pk \in DOMAIN reviews
    ELSE Visible(call[p].pk)

\* Only the author and the staff change and delete a review.
Forbidden(p) ==
    /\ call[p].op \in {"update", "delete"}
    /\ call[p].user \notin Staff /\ reviews[call[p].pk].author # call[p].user

Admit(p) == Phase(p, "pending") /\ Found(p) /\ ~Forbidden(p) /\ Goes(p, "admitted") /\ UNCHANGED tables

Reject(p) ==
    /\ Phase(p, "pending")
    /\ \/ ~Found(p) /\ End(p, IF call[p].op = "formCreate" THEN 400 ELSE 404)
       \/ Found(p) /\ Forbidden(p) /\ End(p, 403)
    /\ UNCHANGED tables

-----------------------------------------------------------------------------
(* Effects.  Each is whole: what else is in the tables stays.              *)

Takes(p, op) == Phase(p, "admitted") /\ call[p].op = op

\* A new review under a key that no review ever had.
Create(p) ==
    /\ \E op \in Creates : Takes(p, op)
    /\ ~Taken(call[p].loc, call[p].user, 0)
    /\ \E body \in Bodies :
        reviews' = Put(lastPk + 1, [loc |-> call[p].loc, author |-> call[p].user, body |-> body])
    /\ lastPk' = lastPk + 1
    /\ Becomes(p, [call[p] EXCEPT !.phase = "effective", !.pk = lastPk + 1])
    /\ UNCHANGED <<alive, votes>>

\* The named fields of a review that is there; nothing, when none is named.
Update(p) ==
    LET c == call[p]
        patched == [f \in Fields |-> IF f \in DOMAIN c.patch THEN c.patch[f] ELSE reviews[c.pk].body[f]]
    IN
    /\ Takes(p, "update")
    /\ \/ DOMAIN c.patch = {} /\ UNCHANGED reviews
       \/ c.pk \in DOMAIN reviews /\ reviews' = Put(c.pk, [reviews[c.pk] EXCEPT !.body = patched])
    /\ Goes(p, "effective")
    /\ UNCHANGED <<alive, lastPk, votes>>

\* A form writes a whole row, which may not be another's.
Save(p) ==
    /\ Takes(p, "formEdit")
    /\ \E row \in Review : ~Taken(row.loc, row.author, call[p].pk) /\ reviews' = Put(call[p].pk, row)
    /\ Goes(p, "effective")
    /\ UNCHANGED <<alive, lastPk, votes>>

\* The review and all its votes.
Delete(p) ==
    /\ \E op \in Deletes : Takes(p, op)
    /\ reviews' = Without(call[p].pk)
    /\ votes' = {v \in votes : v.review # call[p].pk}
    /\ Goes(p, "effective")
    /\ UNCHANGED <<alive, lastPk>>

\* A vote for a review that is there, and none was.
Vote(p) ==
    /\ Takes(p, "vote")
    /\ call[p].pk \in DOMAIN reviews /\ VoteOf(p) \notin votes
    /\ votes' = votes \union {VoteOf(p)}
    /\ Goes(p, "effective")
    /\ UNCHANGED <<alive, reviews, lastPk>>

Unvote(p) ==
    /\ Takes(p, "unvote")
    /\ VoteOf(p) \in votes /\ votes' = votes \ {VoteOf(p)}
    /\ End(p, 204)
    /\ UNCHANGED <<alive, reviews, lastPk>>

\* What was asked for cannot be done, as the tables are at this moment.
Refuse(p) ==
    LET c == call[p] IN
    /\ \/ Takes(p, "create") /\ Taken(c.loc, c.user, 0) /\ End(p, 409)
       \/ Takes(p, "formCreate") /\ Taken(c.loc, c.user, 0) /\ End(p, 400)
       \/ Takes(p, "vote") /\ VoteOf(p) \in votes /\ End(p, 409)
       \/ Takes(p, "unvote") /\ VoteOf(p) \notin votes /\ End(p, 404)
       \/ Takes(p, "formEdit") /\ c.pk \notin DOMAIN reviews /\ End(p, 404)
    /\ UNCHANGED tables

\* What was sent is invalid: of a create before anything is looked up.
Malformed(p) ==
    /\ \/ Phase(p, "pending") /\ call[p].op \in Creates
       \/ \E op \in {"update", "vote", "formEdit"} : Takes(p, op)
    /\ End(p, 400)
    /\ UNCHANGED tables

-----------------------------------------------------------------------------
(* Answers.                                                                *)

Success == [create |-> 201, update |-> 200, delete |-> 204, vote |-> 201,
            formCreate |-> 200, formEdit |-> 200, formDelete |-> 204]

\* The effect is answered; an answer that shows the review is given while it is visible.
Confirm(p) ==
    /\ Phase(p, "effective")
    /\ call[p].op \in {"create", "update", "vote"} => Visible(call[p].pk)
    /\ End(p, Success[call[p].op])
    /\ UNCHANGED tables

\* A server error, before the effect or after it, but only of who was admitted.
Fail(p) == (Phase(p, "admitted") \/ Phase(p, "effective")) /\ End(p, 500) /\ UNCHANGED tables

\* The server dies.
Lose(p) == ~Phase(p, "over") /\ End(p, None) /\ UNCHANGED tables

Toggle(l) ==
    /\ alive' = IF l \in alive THEN alive \ {l} ELSE alive \union {l}
    /\ UNCHANGED <<reviews, lastPk, votes, call>>

-----------------------------------------------------------------------------
Next ==
    \/ \E p \in Requests :
        \/ Admit(p) \/ Reject(p) \/ Refuse(p) \/ Malformed(p)
        \/ Create(p) \/ Update(p) \/ Save(p) \/ Delete(p) \/ Vote(p) \/ Unvote(p)
        \/ Confirm(p) \/ Fail(p) \/ Lose(p) \/ Invoke(p)
    \/ \E l \in Locations : Toggle(l)

Spec == Init /\ [][Next]_vars
=============================================================================
