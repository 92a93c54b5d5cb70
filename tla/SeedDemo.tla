------------------------------ MODULE SeedDemo ------------------------------
(***************************************************************************)
(* The management command seed_demo (src/apps/locations/management/        *)
(* commands/seed_demo.py), run several times, also at once, with --reset   *)
(* or without, while the site is in use.                                   *)
(*                                                                         *)
(* A reset is three deletes and a fill, each a transaction of its own.     *)
(* Each delete() first reads the rows it and its cascade concern, then     *)
(* removes these in one transaction, whose commit checks the foreign keys. *)
(* The fill is one transaction: what it inserts is seen at its commit, and *)
(* who inserts a value of a unique column that it holds waits for it.      *)
(*                                                                         *)
(* Rows are records that hold the rows they refer to; made, a count of     *)
(* insertions, stands for the primary key and tells a row from a later one *)
(* with the same name.  A category is renamed by administrators: its       *)
(* record is its key only, and nameOf has its name.  Users keep names and  *)
(* rows their authors.  Votes, views, ratings and texts are left out.      *)
(***************************************************************************)
EXTENDS Integers, FiniteSets

CONSTANTS
    Commands,     \* runs of the command at the same time
    ADMIN,        \* ADMIN_USERNAME
    USERNAMES,    \* of the other demo users
    Visitors,     \* other names people register with
    CATEGORIES,   \* names of the demo categories
    Categories,   \* other names administrators give categories
    SlugOf,       \* make_slug
    LOCATIONS,    \* titles of the demo locations,
    AuthorOf,     \* with their authors
    CategoryOf,   \* and categories
    MaxMade       \* bound on the insertions

Place == "place"  \* the title of a location that a visitor made

ASSUME NamesAssumption ==
    /\ (USERNAMES \union {ADMIN}) \intersect Visitors = {} /\ ADMIN \notin USERNAMES
    /\ CATEGORIES \intersect Categories = {}
ASSUME DataAssumption ==
    /\ AuthorOf \in [LOCATIONS -> USERNAMES] /\ CategoryOf \in [LOCATIONS -> CATEGORIES]
    /\ DOMAIN SlugOf = CATEGORIES \union Categories /\ Place \notin LOCATIONS

VARIABLES
    users, locations, reviews,  \* the rows of each table
    nameOf,                     \* each category's name
    made,                       \* the number of insertions
    command,                    \* the state of each command
    wasDemo                     \* history: see History

categories == DOMAIN nameOf
tables == <<users, nameOf, locations, reviews>>
vars == <<tables, made, command, wasDemo>>

DemoNames == {ADMIN} \union USERNAMES

Nothing == [users |-> {}, categories |-> {}, locations |-> {}, reviews |-> {}]
Idle == [step |-> "idle", reset |-> FALSE, alone |-> FALSE, gone |-> Nothing, got |-> <<>>]

Init ==
    /\ users = {} /\ locations = {} /\ reviews = {}
    /\ nameOf = <<>>
    /\ made = 0
    /\ command = [p \in Commands |-> Idle]
    /\ wasDemo = [p \in Commands |-> {}]

-----------------------------------------------------------------------------
(* The foreign keys, and what the unique constraints make others wait for. *)

Consistent(us, cs, ls, rs) ==
    /\ \A l \in ls : l.author \in us /\ l.category \in cs
    /\ \A r \in rs : r.author \in us /\ r.location \in ls

\* The names of demo categories that none of those found has.
NewCategories(got) == CATEGORIES \ {got[c] : c \in DOMAIN got}

Without(cs) == [c \in categories \ cs |-> nameOf[c]]
\* Categories, a function to their names, and new ones of the names.
With(found, names) ==
    LET new == {[born |-> n, made |-> made + 1] : n \in names}
    IN [c \in DOMAIN found \union new |-> IF c \in DOMAIN found THEN found[c] ELSE c.born]

Running(p) == command[p].step # "idle"
\* The usernames, and later the slugs, that an open fill has inserted.
HoldsNames(p) == command[p].step \in {"categories of fill", "commit"}
HeldSlugs ==
    {SlugOf[n] : n \in UNION {NewCategories(command[p].got) : p \in {q \in Commands : command[q].step = "commit"}}}

\* Under the bound there is room for an insertion besides those of the fills.
Room == made + Cardinality({p \in Commands : Running(p)}) < MaxMade

Goto(p, step) == command' = [command EXCEPT ![p] = [command[p] EXCEPT !.step = step]]
\* The end of a command, with its outcome.  No state depends on which it is.
End(p, outcome) ==
    outcome \in {"created", "present", "failed", "killed"} /\ command' = [command EXCEPT ![p] = Idle]

\* History: the commands that run are not alone.
Disturbed == [p \in Commands |-> [command[p] EXCEPT !.alone = FALSE]]

-----------------------------------------------------------------------------
(* The command.                                                            *)

\* handle; a run and each other one that it meets are not alone.
Start(p, reset) ==
    /\ ~Running(p)
    /\ Room
    /\ command' = [Disturbed EXCEPT ![p] =
           [Idle EXCEPT !.step = IF reset THEN "collect locations" ELSE "check", !.reset = reset,
                        !.alone = \A q \in Commands : ~Running(q)]]
    /\ UNCHANGED <<tables, made>>

\* Without --reset: nothing is done when the demo administrator exists.
Check(p) ==
    /\ command[p].step = "check"
    /\ IF \E u \in users : u.name = ADMIN THEN End(p, "present") ELSE Goto(p, "fill")
    /\ UNCHANGED <<tables, made>>

Collected(p, step, rows) ==
    command' = [command EXCEPT ![p] = [command[p] EXCEPT !.step = step, !.gone = rows]]

\* Location.all_objects.filter(author__in=demo_users), with their reviews.
CollectLocations(p) ==
    LET ls == {l \in locations : l.author.name \in DemoNames} IN
    /\ command[p].step = "collect locations"
    /\ Collected(p, "remove locations",
                 [Nothing EXCEPT !.locations = ls, !.reviews = {r \in reviews : r.location \in ls}])
    /\ UNCHANGED <<tables, made>>

\* Mutant of CollectCategories: any category without locations.
CollectEmptyCategories(p) ==
    LET used == {l.category : l \in locations} IN
    /\ command[p].step = "collect categories"
    /\ Collected(p, "remove categories", [Nothing EXCEPT !.categories = categories \ used])
    /\ UNCHANGED <<tables, made>>

\* Category.objects.filter(name__in=CATEGORIES, locations__isnull=True).
CollectCategories(p) ==
    LET used == {l.category : l \in locations} IN
    /\ command[p].step = "collect categories"
    /\ Collected(p, "remove categories",
                 [Nothing EXCEPT !.categories = {c \in categories \ used : nameOf[c] \in CATEGORIES}])
    /\ UNCHANGED <<tables, made>>

\* The users of these names, with their locations and the reviews of either.
Cascade(names) ==
    LET us == {u \in users : u.name \in names}
        ls == {l \in locations : l.author \in us}
    IN [Nothing EXCEPT !.users = us, !.locations = ls,
                       !.reviews = {r \in reviews : r.author \in us \/ r.location \in ls}]

\* Mutant of CollectUsers: the administrator is forgotten.
CollectUsersButAdmin(p) ==
    /\ command[p].step = "collect users"
    /\ Collected(p, "remove users", Cascade(USERNAMES))
    /\ UNCHANGED <<tables, made>>

\* demo_users.delete(): by now these may be other users than those of the start.
CollectUsers(p) ==
    /\ command[p].step = "collect users"
    /\ Collected(p, "remove users", Cascade(DemoNames))
    /\ UNCHANGED <<tables, made>>

Removals == [rows \in {"remove locations", "remove categories", "remove users"} |->
    CASE rows = "remove locations"  -> "collect categories"
      [] rows = "remove categories" -> "collect users"
      [] rows = "remove users"      -> "fill"]

\* Mutant of Remove: the foreign keys are not checked.
RemoveAnyway(p) ==
    LET gone == command[p].gone IN
    /\ command[p].step \in DOMAIN Removals
    /\ users' = users \ gone.users /\ nameOf' = Without(gone.categories)
    /\ locations' = locations \ gone.locations /\ reviews' = reviews \ gone.reviews
    /\ Collected(p, Removals[command[p].step], Nothing)
    /\ UNCHANGED made

\* The collected rows go at once, those another command removed meanwhile without an
\* error.  Rows added since that refer to one fail the commit, and the command.
Remove(p) ==
    LET gone == command[p].gone IN
    /\ command[p].step \in DOMAIN Removals
    /\ IF Consistent(users \ gone.users, categories \ gone.categories,
                     locations \ gone.locations, reviews \ gone.reviews)
       THEN /\ users' = users \ gone.users /\ nameOf' = Without(gone.categories)
            /\ locations' = locations \ gone.locations /\ reviews' = reviews \ gone.reviews
            /\ Collected(p, Removals[command[p].step], Nothing)
       ELSE End(p, "failed") /\ UNCHANGED tables
    /\ UNCHANGED made

\* _users, waiting for a fill that has inserted the same usernames; an
\* IntegrityError when one of them is taken.
CreateUsers(p) ==
    /\ command[p].step = "fill" /\ \A q \in Commands : ~HoldsNames(q)
    /\ IF \E u \in users : u.name \in DemoNames THEN End(p, "failed") ELSE Goto(p, "categories of fill")
    /\ UNCHANGED <<tables, made>>

\* A category of another name has the slug of a demo category that is to be made.
SlugClash ==
    \E n \in NewCategories(nameOf), c \in categories : SlugOf[nameOf[c]] = SlugOf[n]

\* _categories: get_or_create by name.
GetCategories(p) ==
    LET found == {c \in categories : nameOf[c] \in CATEGORIES} IN
    /\ command[p].step = "categories of fill"
    /\ IF SlugClash THEN End(p, "failed")
       ELSE command' = [command EXCEPT ![p] = [command[p] EXCEPT
                !.step = "commit", !.got = [c \in found |-> nameOf[c]]]]
    /\ UNCHANGED <<tables, made>>

NewUser(n) == [name |-> n, made |-> made + 1]
NewLocation(t, cs) ==
    [title |-> t, made |-> made + 1, author |-> NewUser(AuthorOf[t]),
     category |-> CHOOSE c \in DOMAIN cs : cs[c] = CategoryOf[t]]

\* Mutant of Commit: without transaction.atomic a run may end after any insertion.
CommitSome(p, reviewers) ==
    LET got == command[p].got
        cs  == With(got, NewCategories(got))
    IN
    /\ command[p].step = "commit" /\ DOMAIN got \subseteq categories
    /\ users' = users \union {NewUser(n) : n \in DemoNames}
    /\ nameOf' = With(nameOf, NewCategories(got))
    /\ \E titles \in SUBSET LOCATIONS :
        locations' = locations \union {NewLocation(t, cs) : t \in titles}
    /\ made' = made + 1 /\ UNCHANGED reviews
    /\ End(p, "created")

\* _locations, _reviews by some of the users, and the commit of them all: it fails
\* if a category that was found has been deleted since.  One renamed since serves.
Commit(p, reviewers) ==
    LET got == command[p].got
        cs  == With(got, NewCategories(got))
        new == {NewLocation(t, cs) : t \in LOCATIONS}
    IN
    /\ command[p].step = "commit"
    /\ IF ~(DOMAIN got \subseteq categories)
       THEN End(p, "failed") /\ UNCHANGED <<tables, made>>
       ELSE /\ users' = users \union {NewUser(n) : n \in DemoNames}
            /\ nameOf' = With(nameOf, NewCategories(got))
            /\ locations' = locations \union new
            /\ reviews' = reviews \union
                   {[location |-> l, author |-> NewUser(n)] : l \in new, n \in reviewers}
            /\ made' = made + 1
            /\ End(p, "created")

\* Killed at any moment, or ended by an error of the cache hook after a commit: an
\* open transaction is rolled back.
Kill(p) == Running(p) /\ End(p, "killed") /\ UNCHANGED <<tables, made>>

-----------------------------------------------------------------------------
(* The site in use: the rows its users and administrators add and remove,  *)
(* and the categories administrators rename.                               *)

\* Anybody registers under any free name, a demo user's too.
Register(n) ==
    /\ Room
    /\ \A u \in users : u.name # n
    /\ n \in DemoNames => \A p \in Commands : ~HoldsNames(p)
    /\ users' = users \union {NewUser(n)} /\ made' = made + 1 /\ command' = Disturbed
    /\ UNCHANGED <<nameOf, locations, reviews>>

\* Neither a category of cs nor an open fill has the slug of n.
FreeSlug(n, cs) == SlugOf[n] \notin HeldSlugs \union {SlugOf[nameOf[c]] : c \in cs}

AddCategory(n) ==
    /\ Room
    /\ FreeSlug(n, categories)
    /\ nameOf' = With(nameOf, {n})
    /\ made' = made + 1 /\ command' = Disturbed
    /\ UNCHANGED <<users, locations, reviews>>

RenameCategory(c, n) ==
    /\ FreeSlug(n, categories \ {c})
    /\ nameOf' = [nameOf EXCEPT ![c] = n] /\ command' = Disturbed
    /\ UNCHANGED <<users, locations, reviews, made>>

\* Refused while a location is in it.
RemoveCategory(c) ==
    /\ \A l \in locations : l.category # c
    /\ nameOf' = Without({c}) /\ command' = Disturbed
    /\ UNCHANGED <<users, locations, reviews, made>>

AddLocation(u, c) ==
    /\ Room
    /\ locations' = locations \union {[title |-> Place, made |-> made + 1, author |-> u, category |-> c]}
    /\ made' = made + 1 /\ command' = Disturbed
    /\ UNCHANGED <<users, nameOf, reviews>>

AddReview(u, l) ==
    /\ [location |-> l, author |-> u] \notin reviews
    /\ reviews' = reviews \union {[location |-> l, author |-> u]} /\ command' = Disturbed
    /\ UNCHANGED <<users, nameOf, locations, made>>

-----------------------------------------------------------------------------
Step(p) ==
    \/ Check(p) \/ CollectLocations(p) \/ CollectCategories(p) \/ CollectUsers(p) \/ Remove(p)
    \/ CreateUsers(p) \/ GetCategories(p) \/ (\E some \in SUBSET USERNAMES : Commit(p, some))

Site ==
    \/ \E n \in DemoNames \union Visitors : Register(n)
    \/ \E n \in CATEGORIES \union Categories : AddCategory(n)
    \/ \E c \in categories : RemoveCategory(c) \/ \E n \in CATEGORIES \union Categories : RenameCategory(c, n)
    \/ \E u \in users, c \in categories : AddLocation(u, c)
    \/ \E u \in users, l \in locations : AddReview(u, l)

\* The categories that have had a demo name while a command deletes such ones.
History ==
    wasDemo' = [p \in Commands |->
        IF command'[p].step # "remove categories" THEN {}
        ELSE wasDemo[p] \union {c \in categories' : nameOf'[c] \in CATEGORIES}]

Next ==
    /\ \/ \E p \in Commands : (\E reset \in BOOLEAN : Start(p, reset)) \/ Step(p) \/ Kill(p)
       \/ Site
    /\ History

Spec == Init /\ [][Next]_vars

-----------------------------------------------------------------------------
(* Properties.                                                             *)

\* Every row has the rows it refers to, and no two users share a name: deletes that
\* remove what they read some time before leave nothing behind.
ReferencesHold ==
    /\ Consistent(users, categories, locations, reviews)
    /\ \A u, v \in users : u.name = v.name => u = v

\* The demo locations that exist are all those of one run of the command, together
\* with all of its users: neither a reset that stops half-way nor two runs at once
\* leave part of a batch, or parts of two.
OneWholeBatch ==
    LET demo == {l \in locations : l.title \in LOCATIONS} IN
    demo # {} =>
        \E b \in 1 .. made :
            /\ demo = {l \in locations : l.made = b /\ l.title # Place}
            /\ {l.title : l \in demo} = LOCATIONS
            /\ \A n \in DemoNames : [name |-> n, made |-> b] \in users

\* What a visitor owns outlives every reset: a command removes users of the demo
\* names, their locations, reviews by them or of those, and categories that have had a
\* demo name since this delete began.  (One renamed after the delete has read it goes.)
OthersKept ==
    [][\A p \in Commands : command'[p].step # command[p].step =>
        /\ \A u \in users \ users' : u.name \in DemoNames
        /\ \A l \in locations \ locations' : l.author.name \in DemoNames
        /\ \A r \in reviews \ reviews' : DemoNames \intersect {r.author.name, r.location.author.name} # {}
        /\ categories \ categories' \subseteq wasDemo[p]]_vars

\* Whatever state earlier runs left, a --reset that nothing disturbs ends with the
\* demo users, their locations and their reviews all of its own batch; it fails only
\* when another category has the slug of a demo category.
AloneResetRenews ==
    [][\A p \in Commands :
        command[p].alone /\ command[p].reset /\ Step(p) /\ ~Running(p)' =>
            \/ /\ made' = made + 1
               /\ \A u \in users' : u.name \in DemoNames => u.made = made'
               /\ \A l \in locations' : l.author.name \in DemoNames => l.made = made'
            \/ SlugClash]_vars
=============================================================================
