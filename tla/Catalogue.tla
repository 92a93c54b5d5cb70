----------------------------- MODULE Catalogue -----------------------------
(***************************************************************************)
(* Locations and the categories they belong to, as concurrent requests and *)
(* an administrator's forms change them (src/apps/locations: views.py,     *)
(* services.py, models.py, admin.py; src/apps/categories: views.py,        *)
(* serializers.py, models.py).                                             *)
(*                                                                         *)
(* As in Reviews a request is a sequence of statements.  API writes of a   *)
(* location save the fields they name; a category is saved whole, from the *)
(* copy the request read, and so is a location in the administrator's      *)
(* form.  PostgreSQL checks unique constraints at once and foreign keys at *)
(* the commit.  Reviews and views of a location are other modules'.        *)
(***************************************************************************)
EXTENDS Integers

CONSTANTS
    Requests,      \* slots for requests being served at the same time
    Authors,       \* users without is_staff; Staff stands for any with it
    Names,         \* category names
    SlugOf,        \* make_slug: names that differ in case or signs share a slug
    Titles,        \* of locations
    MaxCategories, \* bounds on the rows ever created
    MaxLocations,
    Ops            \* the operations clients ask for

ASSUME SlugAssumption == DOMAIN SlugOf = Names
ASSUME CatalogueBounds == MaxCategories \in Nat \ {0} /\ MaxLocations \in Nat
VARIABLES
    categories,  \* the Category rows by primary key
    locations,   \* the Location rows by primary key, soft-deleted ones included
    last,        \* the last primary keys given
    request      \* the state of each request

vars == <<categories, locations, last, request>>

Staff == "staff"
Users == Authors \union {Staff}
CategoryPks == 1 .. MaxCategories
LocationPks == 1 .. MaxLocations
Category == [name : Names, slug : {SlugOf[n] : n \in Names}]
Location == [author : Users, category : CategoryPks, title : Titles, deleted : BOOLEAN]

\* The fields a PATCH may name; a PUT names all.  The description of a category
\* and the other fields of a location are left out.
CategoryPatches == {<<>>} \union [name : Names]
LocationPatches ==
    {<<>>} \union [category : CategoryPks] \union [title : Titles] \union [category : CategoryPks, title : Titles]

Operations ==
    {"create category", "edit category", "delete category", "create location", "edit location",
     "delete location", "admin edit", "admin delete"}
\* pk, patch: what the client named; user: who asks; copy: the row as it was read.
Request == [
    step  : {"idle", "start", "validate", "collect", "save", "remove", "read"},
    op    : Operations \union {"none"},
    user  : Users,
    pk    : Nat,
    patch : CategoryPatches \union LocationPatches,
    copy  : {<<>>} \union Category \union Location]

Statuses == {200, 201, 204, 400, 403, 404, 409, 500}

ASSUME OpsAssumption == Ops \subseteq Operations

IdleRequest == [step |-> "idle", op |-> "none", user |-> Staff, pk |-> 0, patch |-> <<>>, copy |-> <<>>]

\* One category to begin with.
Init ==
    /\ \E n \in Names : categories = [pk \in {1} |-> [name |-> n, slug |-> SlugOf[n]]]
    /\ locations = <<>>
    /\ last = [category |-> 1, location |-> 0]
    /\ request = [p \in Requests |-> IdleRequest]

-----------------------------------------------------------------------------
At(p, op, step) == request[p].op = op /\ request[p].step = step
Becomes(p, q) == request' = [request EXCEPT ![p] = q]
Goto(p, step) == Becomes(p, [request[p] EXCEPT !.step = step])
\* The answer ends the request; no state depends on which it is.
Answer(p, status) == status \in Statuses /\ Becomes(p, IdleRequest)

\* The write is done, its answer is to be read back.
ReadBack(p, pk) == Becomes(p, [IdleRequest EXCEPT !.step = "read", !.op = request[p].op, !.pk = pk])

Alive(pk) == pk \in DOMAIN locations /\ ~locations[pk].deleted
\* IsOwnerOrAdmin
MayWrite(u, pk) == u = Staff \/ locations[pk].author = u
\* Another category with the slug of this name.
SlugTaken(name, pk) ==
    \E other \in DOMAIN categories \ {pk} : categories[other].slug = SlugOf[name]
\* PROTECT counts the rows, soft-deleted ones included.
Protected(pk) == \E l \in DOMAIN locations : locations[l].category = pk
\* The table with the row, new or in place of the old one.
Put(table, pk, row) == [k \in DOMAIN table \union {pk} |-> IF k = pk THEN row ELSE table[k]]
Patched(row, patch) == [f \in DOMAIN row |-> IF f \in DOMAIN patch THEN patch[f] ELSE row[f]]

\* A request arrives.  IsAdminOrReadOnly: only staff write categories or use the admin.
Send(p, op, u, pk, patch) ==
    /\ request[p].step = "idle" /\ op \in Ops
    /\ op \notin {"create location", "edit location", "delete location"} => u = Staff
    /\ Becomes(p, [IdleRequest EXCEPT !.step = "start", !.op = op, !.user = u, !.pk = pk, !.patch = patch])
    /\ UNCHANGED <<categories, locations, last>>

-----------------------------------------------------------------------------
(* Categories: CategoryViewSet, CategorySerializer, Category.save.         *)

\* validate_name, then Model.save() of a new row.
ValidateCategory(p) ==
    /\ At(p, "create category", "start")
    /\ IF SlugTaken(request[p].patch.name, 0) THEN Answer(p, 400) ELSE Goto(p, "save")
    /\ UNCHANGED <<categories, locations, last>>

CreateCategory(p) ==
    LET row == [name |-> request[p].patch.name, slug |-> SlugOf[request[p].patch.name]] IN
    /\ At(p, "create category", "save") /\ last.category < MaxCategories
    /\ IF SlugTaken(row.name, 0)
       THEN Answer(p, 500) /\ UNCHANGED <<categories, last>>
       ELSE /\ categories' = Put(categories, last.category + 1, row)
            /\ last' = [last EXCEPT !.category = last.category + 1]
            /\ Answer(p, 201)
    /\ UNCHANGED locations

\* get_object: the whole row is read, 404 when there is none.
GetCategory(p) ==
    LET q == request[p] IN
    /\ q.op \in {"edit category", "delete category"} /\ q.step = "start"
    /\ IF q.pk \notin DOMAIN categories THEN Answer(p, 404)
       ELSE IF q.op = "delete category" THEN Goto(p, "collect")
       ELSE Becomes(p, [q EXCEPT !.step = "validate", !.copy = categories[q.pk]])
    /\ UNCHANGED <<categories, locations, last>>

ValidateEdit(p) ==
    LET q == request[p] IN
    /\ At(p, "edit category", "validate")
    /\ IF "name" \in DOMAIN q.patch /\ SlugTaken(q.patch.name, q.pk) THEN Answer(p, 400)
       ELSE Goto(p, "save")
    /\ UNCHANGED <<categories, locations, last>>

\* The administrator's form has no validate_name (CategoryAdmin).
SkipValidation(p) ==
    /\ At(p, "create category", "start") \/ At(p, "edit category", "validate")
    /\ Goto(p, "save")
    /\ UNCHANGED <<categories, locations, last>>

\* Mutant of SaveCategory: the slug is set when the category is created only.
SaveCategoryKeepingSlug(p) ==
    LET q == request[p] IN
    /\ At(p, "edit category", "save") /\ q.pk \in DOMAIN categories
    /\ categories' = [categories EXCEPT ![q.pk] = Patched(q.copy, q.patch)]
    /\ Answer(p, 200)
    /\ UNCHANGED <<locations, last>>

\* Category.save(): an UPDATE of every column or, when the row is gone, an INSERT
\* of it; both from the copy with the patch, with the slug of its name.
SaveCategory(p) ==
    LET q == request[p]
        edited == Patched(q.copy, q.patch)
        row == [edited EXCEPT !.slug = SlugOf[edited.name]]
    IN
    /\ At(p, "edit category", "save")
    /\ IF SlugTaken(row.name, q.pk)
       THEN Answer(p, 500) /\ UNCHANGED categories
       ELSE categories' = Put(categories, q.pk, row) /\ Answer(p, 200)
    /\ UNCHANGED <<locations, last>>

\* instance.delete(): the collector looks for protected rows ...
CollectLocations(p) ==
    /\ At(p, "delete category", "collect")
    /\ IF Protected(request[p].pk) THEN Answer(p, 409) ELSE Goto(p, "remove")
    /\ UNCHANGED <<categories, locations, last>>

\* Mutant of RemoveCategory: the collector's answer is all that protects the rows.
RemoveCategoryAnyway(p) ==
    /\ At(p, "delete category", "remove")
    /\ categories' = [pk \in DOMAIN categories \ {request[p].pk} |-> categories[pk]]
    /\ Answer(p, 204)
    /\ UNCHANGED <<locations, last>>

\* ... and deletes the category: the commit fails if a location refers to it.
RemoveCategory(p) ==
    LET pk == request[p].pk IN
    /\ At(p, "delete category", "remove")
    /\ IF pk \in DOMAIN categories /\ Protected(pk)
       THEN Answer(p, 500) /\ UNCHANGED categories
       ELSE /\ categories' = [other \in DOMAIN categories \ {pk} |-> categories[other]]
            /\ Answer(p, 204)
    /\ UNCHANGED <<locations, last>>

-----------------------------------------------------------------------------
(* Locations: LocationViewSet and services.                                *)

\* The serializer: the category has to exist.
ValidateLocation(p) ==
    /\ At(p, "create location", "start")
    /\ IF request[p].patch.category \in DOMAIN categories THEN Goto(p, "save") ELSE Answer(p, 400)
    /\ UNCHANGED <<categories, locations, last>>

\* create_location: the author is who asks; the foreign key fails if the category is gone.
CreateLocation(p) ==
    LET q == request[p]
        row == [author |-> q.user, category |-> q.patch.category, title |-> q.patch.title,
                deleted |-> FALSE]
    IN
    /\ At(p, "create location", "save") /\ last.location < MaxLocations
    /\ IF q.patch.category \notin DOMAIN categories
       THEN Answer(p, 500) /\ UNCHANGED <<locations, last>>
       ELSE /\ locations' = Put(locations, last.location + 1, row)
            /\ last' = [last EXCEPT !.location = last.location + 1]
            /\ ReadBack(p, last.location + 1)
    /\ UNCHANGED categories

\* get_object: 404 unless alive, 403 for others than the author and staff.  Who
\* asked is not looked at again.
GetLocation(p) ==
    LET q == request[p] IN
    /\ q.op \in {"edit location", "delete location"} /\ q.step = "start"
    /\ IF ~Alive(q.pk) THEN Answer(p, 404)
       ELSE IF ~MayWrite(q.user, q.pk) THEN Answer(p, 403)
       ELSE Becomes(p, [q EXCEPT !.step = IF q.op = "edit location" THEN "validate" ELSE "save",
                                 !.user = Staff])
    /\ UNCHANGED <<categories, locations, last>>

ValidatePatch(p) ==
    LET patch == request[p].patch IN
    /\ At(p, "edit location", "validate")
    /\ IF "category" \in DOMAIN patch /\ patch.category \notin DOMAIN categories THEN Answer(p, 400)
       ELSE IF patch = <<>> THEN ReadBack(p, request[p].pk) ELSE Goto(p, "save")
    /\ UNCHANGED <<categories, locations, last>>

\* Mutant of UpdateLocation: save() without update_fields writes the is_deleted of
\* the row that was read alive.
UpdateLocationWhole(p) ==
    LET q == request[p] IN
    /\ At(p, "edit location", "save") /\ q.pk \in DOMAIN locations
    /\ "category" \in DOMAIN q.patch => q.patch.category \in DOMAIN categories
    /\ locations' = [locations EXCEPT ![q.pk] = [Patched(locations[q.pk], q.patch) EXCEPT !.deleted = FALSE]]
    /\ ReadBack(p, q.pk)
    /\ UNCHANGED <<categories, last>>

\* update_location: save(update_fields) of the row, soft-deleted meanwhile or not; an
\* error when it is gone, or when the new category is.
UpdateLocation(p) ==
    LET q == request[p] IN
    /\ At(p, "edit location", "save")
    /\ IF \/ q.pk \notin DOMAIN locations
          \/ "category" \in DOMAIN q.patch /\ q.patch.category \notin DOMAIN categories
       THEN Answer(p, 500) /\ UNCHANGED locations
       ELSE locations' = [locations EXCEPT ![q.pk] = Patched(locations[q.pk], q.patch)] /\ ReadBack(p, q.pk)
    /\ UNCHANGED <<categories, last>>

\* soft_delete: is_deleted (and the time of it), nothing else.
SoftDelete(p) ==
    LET pk == request[p].pk IN
    /\ At(p, "delete location", "save")
    /\ IF pk \notin DOMAIN locations THEN Answer(p, 500) /\ UNCHANGED locations
       ELSE /\ locations' = [locations EXCEPT ![pk].deleted = TRUE]
            /\ Answer(p, 204)
    /\ UNCHANGED <<categories, last>>

\* _detail: .get() raises DoesNotExist when the location was deleted meanwhile.
Detail(p) ==
    LET q == request[p] IN
    /\ q.step = "read"
    /\ Answer(p, IF ~Alive(q.pk) THEN 500 ELSE IF q.op = "create location" THEN 201 ELSE 200)
    /\ UNCHANGED <<categories, locations, last>>

-----------------------------------------------------------------------------
(* The administrator's forms for locations (LocationAdmin).  That for a    *)
(* new one is the API's create, for any author.                            *)

\* The form is rendered with the row's values and filled in ...
OpenForm(p) ==
    LET q == request[p] IN
    /\ At(p, "admin edit", "start")
    /\ IF q.pk \notin DOMAIN locations THEN Answer(p, 404)
       ELSE Becomes(p, [q EXCEPT !.step = "validate", !.patch = <<>>, !.copy = Patched(locations[q.pk], q.patch)])
    /\ UNCHANGED <<categories, locations, last>>

\* ... and later sent back, is_deleted as the administrator left it.  The row is read
\* again and the form validated: its category has to exist.
ReadForm(p, deleted) ==
    LET q == request[p] IN
    /\ At(p, "admin edit", "validate")
    /\ IF q.pk \notin DOMAIN locations THEN Answer(p, 404)
       ELSE IF q.copy.category \notin DOMAIN categories THEN Answer(p, 400)
       ELSE Becomes(p, [q EXCEPT !.step = "save", !.copy = [q.copy EXCEPT !.deleted = deleted]])
    /\ UNCHANGED <<categories, locations, last>>

\* All its fields are saved, a row deleted meanwhile inserted again; the foreign key
\* fails if the category is gone.
SaveForm(p) ==
    LET q == request[p] IN
    /\ At(p, "admin edit", "save")
    /\ IF q.copy.category \notin DOMAIN categories
       THEN Answer(p, 500) /\ UNCHANGED locations
       ELSE locations' = Put(locations, q.pk, q.copy) /\ Answer(p, 200)
    /\ UNCHANGED <<categories, last>>

\* The row is deleted, and by cascade what refers to it.
DeleteForm(p) ==
    /\ At(p, "admin delete", "start")
    /\ locations' = [pk \in DOMAIN locations \ {request[p].pk} |-> locations[pk]]
    /\ Answer(p, 200)
    /\ UNCHANGED <<categories, last>>

-----------------------------------------------------------------------------
Step(p) ==
    \/ ValidateCategory(p) \/ CreateCategory(p) \/ GetCategory(p) \/ ValidateEdit(p)
    \/ SkipValidation(p)
    \/ SaveCategory(p) \/ CollectLocations(p) \/ RemoveCategory(p)
    \/ ValidateLocation(p) \/ CreateLocation(p) \/ GetLocation(p) \/ ValidatePatch(p)
    \/ UpdateLocation(p) \/ SoftDelete(p) \/ Detail(p)
    \/ OpenForm(p) \/ (\E deleted \in BOOLEAN : ReadForm(p, deleted)) \/ SaveForm(p) \/ DeleteForm(p)

SendCategory(p) ==
    \/ \E n \in Names : Send(p, "create category", Staff, 0, [name |-> n])
    \/ \E pk \in CategoryPks, patch \in CategoryPatches :
        pk <= last.category /\ Send(p, "edit category", Staff, pk, patch)
    \/ \E pk \in CategoryPks : pk <= last.category /\ Send(p, "delete category", Staff, pk, <<>>)

SendLocation(p) ==
    \/ \E u \in Users, c \in CategoryPks, t \in Titles :
        Send(p, "create location", u, 0, [category |-> c, title |-> t])
    \/ \E u \in Users, pk \in LocationPks, patch \in LocationPatches, op \in {"edit location", "admin edit"} :
        pk <= last.location /\ Send(p, op, u, pk, patch)
    \/ \E u \in Users, pk \in LocationPks, op \in {"delete location", "admin delete"} :
        pk <= last.location /\ Send(p, op, u, pk, <<>>)

Next == \E p \in Requests : SendCategory(p) \/ SendLocation(p) \/ Step(p)

Spec == Init /\ [][Next]_vars

-----------------------------------------------------------------------------
(* Properties.                                                             *)

\* Every variable has its type.
TypeOK ==
    /\ last \in [category : 0 .. MaxCategories, location : 0 .. MaxLocations]
    /\ DOMAIN categories \subseteq 1 .. last.category
    /\ DOMAIN locations \subseteq 1 .. last.location
    /\ \A pk \in DOMAIN categories : categories[pk] \in Category
    /\ \A pk \in DOMAIN locations : locations[pk] \in Location
    /\ request \in [Requests -> Request]

\* Every location, soft-deleted or not, has its category, whatever creates, edits
\* and deletes race each other between their checks and their writes.
LocationsHaveCategories == \A pk \in DOMAIN locations : locations[pk].category \in DOMAIN categories

\* A category's slug is the slug of its name and nobody else's, even when edits of
\* different administrators overwrite each other or bring back a deleted row.
SlugsIdentify ==
    \A a \in DOMAIN categories :
        /\ categories[a].slug = SlugOf[categories[a].name]
        /\ \A b \in DOMAIN categories : categories[a].slug = categories[b].slug => a = b

ChangesNamedFields ==
    \A pk \in DOMAIN locations \intersect DOMAIN locations' : \A f \in DOMAIN locations[pk] :
        locations'[pk][f] # locations[pk][f] =>
            \E p \in Requests :
                /\ request[p].pk = pk /\ request[p].step = "save" /\ request'[p].step # "save"
                /\ \/ request[p].op = "edit location" /\ f \in DOMAIN request[p].patch
                   \/ request[p].op = "delete location" /\ f = "deleted"
                   \/ request[p].op = "admin edit"

\* Outside the admin a location's field changes only through a PATCH that names it,
\* is_deleted only through a DELETE, and the author never: of two requests that
\* read the same row neither undoes the other, and none restores what was deleted.
OnlyNamedFieldsChange == [][ChangesNamedFields]_vars
=============================================================================
