------------------------------ MODULE Ordering ------------------------------
(***************************************************************************)
(* The order of the rows of a paginated list, as StableOrderingFilter      *)
(* (src/apps/common/filters.py) asks PostgreSQL for it.  A page is a slice *)
(* of the ordered rows, and every page is a query of its own: pages of the *)
(* same rows neither overlap nor skip one exactly if the order leaves no   *)
(* two rows undecided.                                                     *)
(***************************************************************************)
EXTENDS Integers, Sequences

CONSTANTS
    Rows,     \* primary keys of the rows, integers
    Fields,   \* fields and annotations a client may order by
    Null,     \* avg_rating of a location without reviews
    Column    \* the values: Column[row][field], compared as integers

\* What get_ordering returns: the fields of ?ordering= that are allowed, or the
\* default of the view; "-" in front of a name is descending.
Term == [field : Fields \union {"pk", "id"}, descending : BOOLEAN]

ValueOf(row, field) == IF field \in {"pk", "id"} THEN row ELSE Column[row][field]

\* The pk is the last expression unless the client has named it.  Without an
\* ordering the queryset is left as it is.
Expressions(ordering) ==
    IF ordering = <<>> \/ \E i \in DOMAIN ordering : ordering[i].field \in {"pk", "id"} THEN ordering
    ELSE Append(ordering, [field |-> "pk", descending |-> TRUE])

\* desc(nulls_last=True), asc(nulls_last=True)
Less(x, y, descending) ==
    /\ x # Null
    /\ y = Null \/ IF descending THEN x > y ELSE x < y

\* ORDER BY: the first expression that tells the rows apart decides.
Before(a, b, ordering) ==
    LET es == Expressions(ordering) IN
    \E i \in DOMAIN es :
        /\ Less(ValueOf(a, es[i].field), ValueOf(b, es[i].field), es[i].descending)
        /\ \A j \in 1 .. i - 1 : ValueOf(a, es[j].field) = ValueOf(b, es[j].field)

-----------------------------------------------------------------------------
\* What the database's rows are like.
RowsOK ==
    /\ Rows \subseteq Int /\ Null \notin Int
    /\ "pk" \notin Fields /\ "id" \notin Fields
    /\ Column \in [Rows -> [Fields -> Int \union {Null}]]

Value == Int \union {Null}
=============================================================================
