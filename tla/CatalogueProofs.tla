--------------------------- MODULE CatalogueProofs ---------------------------
(***************************************************************************)
(* Type correctness of Catalogue, its two invariants and its action        *)
(* property, for any number of requests, users, names and rows.  The       *)
(* inductive invariant adds to the types what each operation's request     *)
(* carries when it comes to write.  Then theorems about the pure parts of  *)
(* the list and the map of locations: the order of the rows, the           *)
(* coordinates and the statistics.                                         *)
(***************************************************************************)
EXTENDS Catalogue, Ordering, Coordinates, Statistics, FiniteSetTheorems, WellFoundedInduction, TLAPS

\* What a request carries, where the categories' keys go up to max.
RequestOK(q, max) ==
    /\ q \in Request
    /\ q.op = "create category" => q.patch \in [name : Names]
    /\ q.op = "edit category" => q.patch \in CategoryPatches /\ q.pk \in 1 .. max
    /\ q.op = "edit category" /\ q.step \in {"validate", "save"} => q.copy \in Category
    /\ q.op = "create location" /\ q.step \in {"start", "save"} =>
           q.patch \in [category : CategoryPks, title : Titles]
    /\ q.op = "edit location" /\ q.step \in {"start", "validate", "save"} => q.patch \in LocationPatches
    /\ q.op = "admin edit" /\ q.step = "start" => q.patch \in LocationPatches
    /\ q.op = "admin edit" /\ q.step \in {"validate", "save"} => q.copy \in Location

RequestsOK == \A p \in Requests : RequestOK(request[p], last.category)

IInv == TypeOK /\ RequestsOK /\ LocationsHaveCategories /\ SlugsIdentify

LEMMA StaffType == Staff \in Users
  BY DEF Staff, Users

LEMMA PatchTypes ==
    /\ <<>> \in CategoryPatches \union LocationPatches
    /\ <<>> \in LocationPatches
    /\ <<>> \in CategoryPatches
    /\ [name : Names] \subseteq CategoryPatches
    /\ [category : CategoryPks, title : Titles] \subseteq LocationPatches
  BY DEF CategoryPatches, LocationPatches

LEMMA IdleOK == \A max : RequestOK(IdleRequest, max)
<1>1. IdleRequest \in Request
  BY StaffType, PatchTypes DEF IdleRequest, Request
<1> QED
  BY <1>1 DEF RequestOK, IdleRequest

-----------------------------------------------------------------------------
(* Patches and tables.                                                     *)

\* A patch of a category leaves a category.
LEMMA PatchedCategory ==
    ASSUME NEW row \in Category, NEW patch \in CategoryPatches
    PROVE  Patched(row, patch) \in Category
  BY DEF Category, Patched, CategoryPatches

\* A patch of a location leaves a location.
LEMMA PatchedLocation ==
    ASSUME NEW row \in Location, NEW patch \in LocationPatches
    PROVE  Patched(row, patch) \in Location
  BY DEF Location, Patched, LocationPatches

\* ... that differs from it in the fields named only.
LEMMA PatchedFields ==
    ASSUME NEW row, NEW patch, NEW f \in DOMAIN row
    PROVE  /\ f \notin DOMAIN patch => Patched(row, patch)[f] = row[f]
           /\ f \in DOMAIN patch => Patched(row, patch)[f] = patch[f]
  BY DEF Patched

\* The row saved for an edited category has the slug of its name.
LEMMA SavedCategory ==
    ASSUME NEW edited \in Category, NEW row, row = [edited EXCEPT !.slug = SlugOf[edited.name]]
    PROVE  row \in Category /\ row.name = edited.name /\ row.slug = SlugOf[row.name]
  BY DEF Category

LEMMA PutRows ==
    ASSUME NEW table, NEW pk, NEW row
    PROVE  /\ DOMAIN Put(table, pk, row) = DOMAIN table \union {pk}
           /\ Put(table, pk, row)[pk] = row
           /\ \A k \in DOMAIN table \ {pk} : Put(table, pk, row)[k] = table[k]
  BY DEF Put

\* A row with the slug of its name that no other row has keeps the slugs unique.
LEMMA PutKeepsSlugs ==
    ASSUME SlugsIdentify, NEW pk, NEW row, row.slug = SlugOf[row.name],
           ~SlugTaken(row.name, pk), categories' = Put(categories, pk, row)
    PROVE  SlugsIdentify'
<1>1. \A k \in DOMAIN categories \ {pk} : categories[k].slug # row.slug
  BY DEF SlugTaken
<1>2. /\ DOMAIN categories' = DOMAIN categories \union {pk} /\ categories'[pk] = row
      /\ \A k \in DOMAIN categories \ {pk} : categories'[k] = categories[k]
  BY DEF Put
<1>3. ASSUME NEW a \in DOMAIN categories'
      PROVE  categories'[a].slug = SlugOf[categories'[a].name]
  BY <1>2 DEF SlugsIdentify
<1>4. ASSUME NEW a \in DOMAIN categories', NEW b \in DOMAIN categories',
             categories'[a].slug = categories'[b].slug
      PROVE  a = b
  BY <1>1, <1>2, <1>4 DEF SlugsIdentify
<1> QED
  BY <1>3, <1>4 DEF SlugsIdentify

-----------------------------------------------------------------------------
(* Requests.                                                               *)

\* Requests keep what they carry when one of them becomes q.
LEMMA BecomesOK ==
    ASSUME TypeOK, RequestsOK, NEW p \in Requests, NEW q, Becomes(p, q),
           last'.category \in Nat, last.category <= last'.category, RequestOK(q, last'.category)
    PROVE  request' \in [Requests -> Request] /\ RequestsOK'
<1>1. last.category \in Nat
  BY CatalogueBounds DEF TypeOK
<1>2. 1 .. last.category \subseteq 1 .. last'.category
  BY <1>1
<1>3. \A r \in Requests : RequestOK(request[r], last'.category)
  BY <1>2 DEF RequestsOK, RequestOK
<1>4. request' = [request EXCEPT ![p] = q] /\ q \in Request
  BY DEF Becomes, RequestOK
<1>5. request \in [Requests -> Request]
  BY DEF TypeOK
<1>6. \A r \in Requests : request'[r] = IF r = p THEN q ELSE request[r]
  BY <1>4, <1>5
<1> QED
  BY <1>3, <1>4, <1>5, <1>6 DEF RequestsOK

LEMMA LastSame ==
    ASSUME TypeOK, last' = last
    PROVE  last'.category \in Nat /\ last.category <= last'.category
  BY CatalogueBounds DEF TypeOK

\* An answer, a read-back and the advance to a step that asks for no more.
LEMMA AnswerOK ==
    ASSUME TypeOK, RequestsOK, NEW p \in Requests, NEW status, Answer(p, status),
           last'.category \in Nat, last.category <= last'.category
    PROVE  request' \in [Requests -> Request] /\ RequestsOK'
  BY IdleOK, BecomesOK DEF Answer

LEMMA ReadOK ==
    ASSUME NEW op \in {"create location", "edit location"}, NEW pk \in Nat, NEW max
    PROVE  RequestOK([IdleRequest EXCEPT !.step = "read", !.op = op, !.pk = pk], max)
<1> DEFINE q == [IdleRequest EXCEPT !.step = "read", !.op = op, !.pk = pk]
<1>1. q \in Request
  BY StaffType, PatchTypes DEF IdleRequest, Request, Operations
<1> QED
  BY <1>1 DEF RequestOK, IdleRequest

LEMMA ReadBackOK ==
    ASSUME TypeOK, RequestsOK, NEW p \in Requests, NEW pk \in Nat, ReadBack(p, pk), last' = last,
           request[p].op \in {"create location", "edit location"}
    PROVE  request' \in [Requests -> Request] /\ RequestsOK'
<1> DEFINE q == [IdleRequest EXCEPT !.step = "read", !.op = request[p].op, !.pk = pk]
<1>1. RequestOK(q, last'.category)
  BY ReadOK
<1>2. Becomes(p, q)
  BY DEF ReadBack
<1> HIDE DEF q
<1> QED
  BY <1>1, <1>2, BecomesOK, LastSame

LEMMA GotoOK ==
    ASSUME TypeOK, RequestsOK, NEW p \in Requests,
           NEW step \in {"validate", "collect", "save", "remove"}, Goto(p, step), last' = last,
           request[p].op # "admin edit",
           request[p].op = "edit category" => request[p].step = "validate",
           request[p].op \in {"create location", "edit location"} =>
               request[p].step \in {"start", "validate", "save"},
           request[p].op = "create location" => request[p].step = "start"
    PROVE  request' \in [Requests -> Request] /\ RequestsOK'
<1> DEFINE q == [request[p] EXCEPT !.step = step]
<1>1. request[p] \in Request /\ RequestOK(request[p], last.category)
  BY DEF TypeOK, RequestsOK
<1>2. q \in Request
  BY <1>1 DEF Request
<1>3. /\ q.op = request[p].op /\ q.patch = request[p].patch /\ q.pk = request[p].pk
      /\ q.copy = request[p].copy /\ q.step = step
  BY <1>1 DEF Request
<1>4. RequestOK(q, last'.category)
  BY <1>1, <1>2, <1>3 DEF RequestOK
<1>5. Becomes(p, q)
  BY DEF Goto
<1> HIDE DEF q
<1> QED
  BY <1>4, <1>5, BecomesOK, LastSame

\* What Send makes of a slot.
New(op, u, pk, patch) ==
    [IdleRequest EXCEPT !.step = "start", !.op = op, !.user = u, !.pk = pk, !.patch = patch]

LEMMA KeyTypes == CategoryPks \subseteq Nat /\ LocationPks \subseteq Nat /\ 0 \in Nat
  BY CatalogueBounds DEF CategoryPks, LocationPks

LEMMA GivenKeys ==
    TypeOK => \A pk \in CategoryPks : pk <= last.category => pk \in 1 .. last.category
  BY CatalogueBounds DEF CategoryPks, TypeOK

LEMMA NewOK ==
    ASSUME NEW op \in Operations, NEW u \in Users, NEW pk \in Nat,
           NEW patch \in CategoryPatches \union LocationPatches, NEW max,
           op = "create category" => patch \in [name : Names],
           op = "edit category" => patch \in CategoryPatches /\ pk \in 1 .. max,
           op = "create location" => patch \in [category : CategoryPks, title : Titles],
           op \in {"edit location", "admin edit"} => patch \in LocationPatches
    PROVE  RequestOK(New(op, u, pk, patch), max)
<1> DEFINE q == New(op, u, pk, patch)
<1>1. q \in Request
  BY StaffType, PatchTypes DEF New, IdleRequest, Request
<1>2. q.op = op /\ q.step = "start" /\ q.patch = patch /\ q.pk = pk
  BY DEF New, IdleRequest
<1> HIDE DEF q
<1>3. RequestOK(q, max)
  BY <1>1, <1>2 DEF RequestOK
<1> QED
  BY <1>3 DEF q

\* A new request carries what its operation needs.
LEMMA SendOK ==
    ASSUME TypeOK, RequestsOK, NEW p \in Requests,
           NEW op \in Operations, NEW u \in Users, NEW pk \in Nat,
           NEW patch \in CategoryPatches \union LocationPatches,
           op = "create category" => patch \in [name : Names],
           op = "edit category" => patch \in CategoryPatches /\ pk \in 1 .. last.category,
           op = "create location" => patch \in [category : CategoryPks, title : Titles],
           op \in {"edit location", "admin edit"} => patch \in LocationPatches,
           Send(p, op, u, pk, patch)
    PROVE  request' \in [Requests -> Request] /\ RequestsOK'
<1> DEFINE q == New(op, u, pk, patch)
<1>1. Becomes(p, q) /\ last' = last
  BY DEF Send, New
<1>2. RequestOK(q, last.category)
  BY NewOK
<1> HIDE DEF q
<1> QED
  BY <1>1, <1>2, LastSame, BecomesOK

LEMMA SendCategoryOK ==
    ASSUME TypeOK, RequestsOK, NEW p \in Requests, SendCategory(p)
    PROVE  request' \in [Requests -> Request] /\ RequestsOK'
<1>1. ASSUME NEW n \in Names, Send(p, "create category", Staff, 0, [name |-> n])
      PROVE  request' \in [Requests -> Request] /\ RequestsOK'
  <2> DEFINE patch == [name |-> n]
  <2>1. patch \in [name : Names]
    OBVIOUS
  <2>2. Send(p, "create category", Staff, 0, patch)
    BY <1>1
  <2> HIDE DEF patch
  <2> QED
    BY <2>1, <2>2, SendOK, StaffType, PatchTypes, KeyTypes DEF Operations
<1>2. ASSUME NEW pk \in CategoryPks, NEW patch \in CategoryPatches, pk <= last.category,
             Send(p, "edit category", Staff, pk, patch)
      PROVE  request' \in [Requests -> Request] /\ RequestsOK'
  <2>1. pk \in 1 .. last.category
    BY <1>2, GivenKeys
  <2> QED
    BY <1>2, <2>1, SendOK, StaffType, KeyTypes DEF Operations
<1>3. ASSUME NEW pk \in CategoryPks, Send(p, "delete category", Staff, pk, <<>>)
      PROVE  request' \in [Requests -> Request] /\ RequestsOK'
  BY <1>3, SendOK, StaffType, PatchTypes, KeyTypes DEF Operations
<1> QED
  BY <1>1, <1>2, <1>3 DEF SendCategory

LEMMA SendLocationOK ==
    ASSUME TypeOK, RequestsOK, NEW p \in Requests, SendLocation(p)
    PROVE  request' \in [Requests -> Request] /\ RequestsOK'
<1>1. ASSUME NEW u \in Users, NEW c \in CategoryPks, NEW t \in Titles,
             Send(p, "create location", u, 0, [category |-> c, title |-> t])
      PROVE  request' \in [Requests -> Request] /\ RequestsOK'
  <2> DEFINE patch == [category |-> c, title |-> t]
  <2>1. patch \in [category : CategoryPks, title : Titles]
    OBVIOUS
  <2>2. Send(p, "create location", u, 0, patch)
    BY <1>1
  <2> HIDE DEF patch
  <2> QED
    BY <2>1, <2>2, SendOK, PatchTypes, KeyTypes DEF Operations
<1>2. ASSUME NEW u \in Users, NEW pk \in LocationPks, NEW patch \in LocationPatches,
             NEW op \in {"edit location", "admin edit"}, Send(p, op, u, pk, patch)
      PROVE  request' \in [Requests -> Request] /\ RequestsOK'
  BY <1>2, SendOK, KeyTypes DEF Operations
<1>3. ASSUME NEW u \in Users, NEW pk \in LocationPks,
             NEW op \in {"delete location", "admin delete"}, Send(p, op, u, pk, <<>>)
      PROVE  request' \in [Requests -> Request] /\ RequestsOK'
  BY <1>3, SendOK, PatchTypes, KeyTypes DEF Operations
<1> QED
  BY <1>1, <1>2, <1>3 DEF SendLocation

LEMMA LastTypes ==
    TypeOK => /\ last.category \in Nat /\ last.category \in 0 .. MaxCategories
              /\ last.location \in Nat /\ last.location \in 0 .. MaxLocations
              /\ DOMAIN last = {"category", "location"}
  BY CatalogueBounds DEF TypeOK

LEMMA RequestTypes ==
    ASSUME TypeOK, RequestsOK, NEW p \in Requests
    PROVE  request[p] \in Request /\ RequestOK(request[p], last.category) /\ request[p].pk \in Nat
  BY DEF TypeOK, RequestsOK, Request

\* Statements that leave the tables alone.
LEMMA ReadingOK ==
    ASSUME TypeOK, RequestsOK, NEW p \in Requests,
           \/ ValidateCategory(p) \/ GetCategory(p) \/ ValidateEdit(p) \/ SkipValidation(p)
           \/ CollectLocations(p) \/ ValidateLocation(p) \/ GetLocation(p) \/ ValidatePatch(p)
           \/ Detail(p) \/ OpenForm(p) \/ (\E deleted \in BOOLEAN : ReadForm(p, deleted))
    PROVE  request' \in [Requests -> Request] /\ RequestsOK'
<1>1. CASE ValidateCategory(p)
  BY <1>1, AnswerOK, GotoOK, LastSame DEF ValidateCategory, At
<1>2. CASE GetCategory(p)
  <2> DEFINE q == [request[p] EXCEPT !.step = "validate", !.copy = categories[request[p].pk]]
  <2>1. CASE request[p].op = "edit category" /\ request[p].pk \in DOMAIN categories
    <3>1. Becomes(p, q) /\ last' = last
      BY <1>2, <2>1 DEF GetCategory
    <3>2. categories[request[p].pk] \in Category
      BY <2>1 DEF TypeOK
    <3>3. q \in Request
      BY <3>2, RequestTypes DEF Request
    <3>4. /\ q.op = "edit category" /\ q.copy \in Category
          /\ q.patch = request[p].patch /\ q.pk = request[p].pk
      BY <2>1, <3>2, RequestTypes DEF Request
    <3> HIDE DEF q
    <3>5. RequestOK(q, last.category)
      BY <2>1, <3>3, <3>4, RequestTypes DEF RequestOK
    <3> QED
      BY <3>1, <3>5, LastSame, BecomesOK
  <2>2. CASE ~(request[p].op = "edit category" /\ request[p].pk \in DOMAIN categories)
    BY <1>2, <2>2, AnswerOK, GotoOK, LastSame DEF GetCategory
  <2> QED
    BY <2>1, <2>2
<1>3. CASE ValidateEdit(p)
  BY <1>3, AnswerOK, GotoOK, LastSame DEF ValidateEdit, At
<1>4. CASE SkipValidation(p)
  BY <1>4, AnswerOK, GotoOK, LastSame DEF SkipValidation, At
<1>5. CASE CollectLocations(p)
  BY <1>5, AnswerOK, GotoOK, LastSame DEF CollectLocations, At
<1>6. CASE ValidateLocation(p)
  BY <1>6, AnswerOK, GotoOK, LastSame DEF ValidateLocation, At
<1>7. CASE GetLocation(p)
  <2> DEFINE q == [request[p] EXCEPT
                      !.step = IF request[p].op = "edit location" THEN "validate" ELSE "save",
                      !.user = Staff]
  <2>1. ASSUME Becomes(p, q) PROVE request' \in [Requests -> Request] /\ RequestsOK'
    <3>1. last' = last /\ request[p].step = "start"
          /\ request[p].op \in {"edit location", "delete location"}
      BY <1>7 DEF GetLocation
    <3>2. q \in Request
      BY RequestTypes, StaffType DEF Request
    <3>3. q.op = request[p].op /\ q.patch = request[p].patch
      BY RequestTypes DEF Request
    <3> HIDE DEF q
    <3>4. RequestOK(q, last.category)
      BY <3>1, <3>2, <3>3, RequestTypes DEF RequestOK
    <3> QED
      BY <2>1, <3>1, <3>4, LastSame, BecomesOK
  <2>2. \/ \E status : Answer(p, status)
        \/ Becomes(p, q)
    BY <1>7 DEF GetLocation
  <2>3. last' = last
    BY <1>7 DEF GetLocation
  <2> HIDE DEF q
  <2> QED
    BY <2>1, <2>2, <2>3, AnswerOK, LastSame
<1>8. CASE ValidatePatch(p)
  <2>1. request[p].op = "edit location" /\ request[p].step = "validate" /\ last' = last
    BY <1>8 DEF ValidatePatch, At
  <2>2. Answer(p, 400) \/ ReadBack(p, request[p].pk) \/ Goto(p, "save")
    BY <1>8 DEF ValidatePatch
  <2> QED
    BY <2>1, <2>2, AnswerOK, ReadBackOK, GotoOK, LastSame, RequestTypes
<1>9. CASE Detail(p)
  <2>1. last' = last /\ \E status : Answer(p, status)
    BY <1>9 DEF Detail
  <2> QED
    BY <2>1, AnswerOK, LastSame
<1>10. CASE OpenForm(p)
  <2> DEFINE q == [request[p] EXCEPT !.step = "validate", !.patch = <<>>,
                      !.copy = Patched(locations[request[p].pk], request[p].patch)]
  <2>1. last' = last /\ request[p].op = "admin edit" /\ request[p].step = "start"
    BY <1>10 DEF OpenForm, At
  <2>2. ASSUME Becomes(p, q), request[p].pk \in DOMAIN locations
        PROVE  request' \in [Requests -> Request] /\ RequestsOK'
    <3>1. request[p].patch \in LocationPatches
      BY <2>1, RequestTypes DEF RequestOK
    <3>2. Patched(locations[request[p].pk], request[p].patch) \in Location
      BY <2>2, <3>1, PatchedLocation DEF TypeOK
    <3>3. q \in Request
      BY <3>2, RequestTypes, PatchTypes DEF Request
    <3>4. q.op = "admin edit" /\ q.step = "validate" /\ q.copy \in Location
      BY <2>1, <3>2, RequestTypes DEF Request
    <3> HIDE DEF q
    <3>5. RequestOK(q, last.category)
      BY <3>3, <3>4 DEF RequestOK
    <3> QED
      BY <2>1, <2>2, <3>5, LastSame, BecomesOK
  <2>3. Answer(p, 404) \/ (Becomes(p, q) /\ request[p].pk \in DOMAIN locations)
    BY <1>10 DEF OpenForm
  <2> HIDE DEF q
  <2> QED
    BY <2>1, <2>2, <2>3, AnswerOK, LastSame
<1>11. ASSUME NEW deleted \in BOOLEAN, ReadForm(p, deleted)
       PROVE  request' \in [Requests -> Request] /\ RequestsOK'
  <2> DEFINE copy == [request[p].copy EXCEPT !.deleted = deleted]
             q == [request[p] EXCEPT !.step = "save", !.copy = copy]
  <2>1. last' = last /\ request[p].op = "admin edit" /\ request[p].step = "validate"
    BY <1>11 DEF ReadForm, At
  <2>2. ASSUME Becomes(p, q)
        PROVE  request' \in [Requests -> Request] /\ RequestsOK'
    <3>1. request[p].copy \in Location
      BY <2>1, RequestTypes DEF RequestOK
    <3>2. copy \in Location
      BY <3>1 DEF Location
    <3> HIDE DEF copy
    <3>3. q \in Request
      BY <3>2, RequestTypes, PatchTypes DEF Request
    <3>4. q.op = "admin edit" /\ q.step = "save" /\ q.copy \in Location
      BY <2>1, <3>2, RequestTypes DEF Request
    <3> HIDE DEF q
    <3>5. RequestOK(q, last.category)
      BY <3>3, <3>4 DEF RequestOK
    <3> QED
      BY <2>1, <2>2, <3>5, LastSame, BecomesOK
  <2>3. (\E status : Answer(p, status)) \/ Becomes(p, q)
    BY <1>11 DEF ReadForm
  <2> HIDE DEF q
  <2> QED
    BY <2>1, <2>2, <2>3, AnswerOK, LastSame
<1> QED
  BY <1>1, <1>2, <1>3, <1>4, <1>5, <1>6, <1>7, <1>8, <1>9, <1>10, <1>11

-----------------------------------------------------------------------------
(* Each action that writes keeps the invariant.                            *)

LEMMA SameTables ==
    ASSUME IInv, UNCHANGED <<categories, locations, last>>,
           request' \in [Requests -> Request], RequestsOK'
    PROVE  IInv'
  BY DEF IInv, TypeOK, LocationsHaveCategories, SlugsIdentify

\* A category is put into the table, with a slug nobody else has.
LEMMA CategoryPut ==
    ASSUME IInv, NEW pk, NEW row \in Category, row.slug = SlugOf[row.name], ~SlugTaken(row.name, pk),
           categories' = Put(categories, pk, row), locations' = locations,
           last' \in [category : 0 .. MaxCategories, location : 0 .. MaxLocations],
           last'.location = last.location, last.category <= last'.category, pk \in 1 .. last'.category,
           request' \in [Requests -> Request], RequestsOK'
    PROVE  IInv'
<1>1. /\ DOMAIN categories' = DOMAIN categories \union {pk} /\ categories'[pk] = row
      /\ \A k \in DOMAIN categories \ {pk} : categories'[k] = categories[k]
  BY DEF Put
<1>2. SlugsIdentify'
  BY PutKeepsSlugs DEF IInv
<1>3. LocationsHaveCategories'
  BY <1>1 DEF IInv, LocationsHaveCategories
<1>4. DOMAIN categories' \subseteq 1 .. last'.category
  <2>1. DOMAIN categories \subseteq 1 .. last.category /\ last.category \in Nat /\ last'.category \in Nat
    BY LastTypes, CatalogueBounds DEF IInv, TypeOK
  <2> QED
    BY <1>1, <2>1
<1>5. \A k \in DOMAIN categories' : categories'[k] \in Category
  BY <1>1 DEF IInv, TypeOK
<1>6. TypeOK'
  BY <1>4, <1>5 DEF IInv, TypeOK
<1> QED
  BY <1>2, <1>3, <1>6 DEF IInv

\* A row of a location is replaced.
LEMMA LocationReplaced ==
    ASSUME IInv, NEW pk \in DOMAIN locations, NEW row \in Location, row.category \in DOMAIN categories,
           locations' = [locations EXCEPT ![pk] = row], UNCHANGED <<categories, last>>,
           request' \in [Requests -> Request], RequestsOK'
    PROVE  IInv'
<1>1. /\ DOMAIN locations' = DOMAIN locations /\ locations'[pk] = row
      /\ \A k \in DOMAIN locations \ {pk} : locations'[k] = locations[k]
  OBVIOUS
<1>2. LocationsHaveCategories'
  BY <1>1 DEF IInv, LocationsHaveCategories
<1>3. \A k \in DOMAIN locations' : locations'[k] \in Location
  BY <1>1 DEF IInv, TypeOK
<1>4. TypeOK'
  BY <1>1, <1>3 DEF IInv, TypeOK
<1>5. SlugsIdentify'
  BY DEF IInv, SlugsIdentify
<1> QED
  BY <1>2, <1>4, <1>5 DEF IInv

LEMMA CreateCategoryOK == ASSUME IInv, NEW p \in Requests, CreateCategory(p) PROVE IInv'
<1> DEFINE name == request[p].patch.name
           row == [name |-> name, slug |-> SlugOf[name]]
           pk == last.category + 1
<1>1. TypeOK /\ RequestsOK
  BY DEF IInv
<1>2. CASE SlugTaken(name, 0)
  <2>1. UNCHANGED <<categories, locations, last>> /\ Answer(p, 500)
    BY <1>2 DEF CreateCategory
  <2> QED
    BY <1>1, <2>1, AnswerOK, LastSame, SameTables
<1>3. CASE ~SlugTaken(name, 0)
  <2>1. /\ categories' = Put(categories, pk, row) /\ locations' = locations
        /\ last' = [last EXCEPT !.category = pk] /\ Answer(p, 201) /\ last.category < MaxCategories
    BY <1>3 DEF CreateCategory
  <2>2. /\ last' \in [category : 0 .. MaxCategories, location : 0 .. MaxLocations]
        /\ last'.location = last.location /\ last'.category = pk
    BY <1>1, <2>1, CatalogueBounds DEF TypeOK
  <2>3. last.category <= last'.category /\ pk \in 1 .. last'.category /\ last'.category \in Nat
    BY <1>1, <2>2, LastTypes
  <2>4. name \in Names
    BY <1>1, RequestTypes DEF CreateCategory, At, RequestOK
  <2>5. row \in Category /\ row.name = name /\ row.slug = SlugOf[row.name]
    BY <2>4 DEF Category
  <2>6. 0 \notin DOMAIN categories /\ pk \notin DOMAIN categories
    BY <1>1, LastTypes DEF TypeOK
  <2>7. ~SlugTaken(row.name, pk)
    BY <1>3, <2>6 DEF SlugTaken
  <2>8. request' \in [Requests -> Request] /\ RequestsOK'
    BY <1>1, <2>1, <2>3, AnswerOK
  <2> HIDE DEF row, pk
  <2> QED
    BY <2>1, <2>2, <2>3, <2>5, <2>7, <2>8, CategoryPut
<1> QED
  BY <1>2, <1>3

LEMMA SaveCategoryOK == ASSUME IInv, NEW p \in Requests, SaveCategory(p) PROVE IInv'
<1> DEFINE pk == request[p].pk
           edited == Patched(request[p].copy, request[p].patch)
           row == [edited EXCEPT !.slug = SlugOf[edited.name]]
<1>1. TypeOK /\ RequestsOK /\ last' = last /\ locations' = locations
  BY DEF IInv, SaveCategory
<1>2. CASE SlugTaken(row.name, pk)
  <2>1. UNCHANGED <<categories, locations, last>> /\ Answer(p, 500)
    BY <1>2 DEF SaveCategory
  <2> QED
    BY <1>1, <2>1, AnswerOK, LastSame, SameTables
<1>3. CASE ~SlugTaken(row.name, pk)
  <2>1. categories' = Put(categories, pk, row) /\ Answer(p, 200)
    BY <1>3 DEF SaveCategory
  <2>2. /\ request[p].copy \in Category /\ request[p].patch \in CategoryPatches
        /\ pk \in 1 .. last.category
    BY <1>1, RequestTypes DEF SaveCategory, At, RequestOK
  <2>3. edited \in Category
    BY <2>2, PatchedCategory
  <2>4. row \in Category /\ row.slug = SlugOf[row.name]
    BY <2>3, SavedCategory
  <2>5. request' \in [Requests -> Request] /\ RequestsOK'
    BY <1>1, <2>1, LastSame, AnswerOK
  <2>6. /\ last' \in [category : 0 .. MaxCategories, location : 0 .. MaxLocations]
        /\ last'.location = last.location /\ last.category <= last'.category
        /\ pk \in 1 .. last'.category
    BY <1>1, <2>2, LastTypes DEF TypeOK
  <2> HIDE DEF row, pk
  <2> QED
    BY <1>1, <1>3, <2>1, <2>4, <2>5, <2>6, CategoryPut
<1> QED
  BY <1>2, <1>3

LEMMA RemoveCategoryOK == ASSUME IInv, NEW p \in Requests, RemoveCategory(p) PROVE IInv'
<1> DEFINE pk == request[p].pk
<1>1. TypeOK /\ RequestsOK /\ last' = last /\ locations' = locations
  BY DEF IInv, RemoveCategory
<1>2. request' \in [Requests -> Request] /\ RequestsOK'
  BY <1>1, AnswerOK, LastSame DEF RemoveCategory
<1>3. CASE pk \in DOMAIN categories /\ Protected(pk)
  <2>1. UNCHANGED <<categories, locations, last>>
    BY <1>1, <1>3 DEF RemoveCategory
  <2> QED
    BY <1>2, <2>1, SameTables
<1>4. CASE ~(pk \in DOMAIN categories /\ Protected(pk))
  <2>1. categories' = [other \in DOMAIN categories \ {pk} |-> categories[other]]
    BY <1>4 DEF RemoveCategory
  <2>2. /\ DOMAIN categories' = DOMAIN categories \ {pk}
        /\ \A k \in DOMAIN categories' : categories'[k] = categories[k]
    BY <2>1
  <2>3. LocationsHaveCategories'
    BY <1>1, <1>4, <2>2 DEF IInv, LocationsHaveCategories, Protected
  <2>4. SlugsIdentify'
    BY <2>2 DEF IInv, SlugsIdentify
  <2>5. TypeOK'
    BY <1>1, <1>2, <2>2 DEF TypeOK
  <2> QED
    BY <1>2, <2>3, <2>4, <2>5 DEF IInv
<1> QED
  BY <1>3, <1>4

LEMMA CreateLocationOK == ASSUME IInv, NEW p \in Requests, CreateLocation(p) PROVE IInv'
<1> DEFINE q == request[p]
           pk == last.location + 1
           row == [author |-> q.user, category |-> q.patch.category, title |-> q.patch.title,
                   deleted |-> FALSE]
<1>1. TypeOK /\ RequestsOK /\ categories' = categories
  BY DEF IInv, CreateLocation
<1>2. CASE q.patch.category \notin DOMAIN categories
  <2>1. UNCHANGED <<categories, locations, last>> /\ Answer(p, 500)
    BY <1>2 DEF CreateLocation
  <2> QED
    BY <1>1, <2>1, AnswerOK, LastSame, SameTables
<1>3. CASE q.patch.category \in DOMAIN categories
  <2>1. /\ locations' = Put(locations, pk, row) /\ last' = [last EXCEPT !.location = pk]
        /\ ReadBack(p, pk) /\ last.location < MaxLocations
        /\ q.op = "create location" /\ q.step = "save"
    BY <1>3 DEF CreateLocation, At
  <2>2. /\ last' \in [category : 0 .. MaxCategories, location : 0 .. MaxLocations]
        /\ last'.location = pk /\ last'.category = last.category
        /\ pk \in Nat /\ last.category \in Nat
    <3>1. pk \in 0 .. MaxLocations /\ pk \in Nat
      <4>1. last.location < MaxLocations
        BY <2>1
      <4> QED
        BY <1>1, <4>1, LastTypes, CatalogueBounds
    <3> HIDE DEF pk
    <3> QED
      BY <1>1, <2>1, <3>1, LastTypes DEF TypeOK
  <2>3. q \in Request /\ q.patch \in [category : CategoryPks, title : Titles]
    BY <1>1, <2>1, RequestTypes DEF RequestOK
  <2>4. row \in Location /\ row.category = q.patch.category
    BY <2>3 DEF Location, Request
  <2>5. /\ DOMAIN locations' = DOMAIN locations \union {pk} /\ locations'[pk] = row
        /\ \A k \in DOMAIN locations \ {pk} : locations'[k] = locations[k]
    BY <2>1 DEF Put
  <2>6. LocationsHaveCategories'
    BY <1>1, <1>3, <2>4, <2>5 DEF IInv, LocationsHaveCategories
  <2>7. request' \in [Requests -> Request] /\ RequestsOK'
    <3> DEFINE done == [IdleRequest EXCEPT !.step = "read", !.op = q.op, !.pk = pk]
    <3>1. Becomes(p, done)
      BY <2>1 DEF ReadBack
    <3>2. RequestOK(done, last'.category)
      BY <2>1, <2>2, ReadOK
    <3> HIDE DEF done
    <3> QED
      BY <1>1, <2>2, <3>1, <3>2, BecomesOK
  <2>8. DOMAIN locations' \subseteq 1 .. last'.location
    <3>1. DOMAIN locations \subseteq 1 .. last.location /\ last.location \in Nat
      BY <1>1, LastTypes DEF TypeOK
    <3> QED
      BY <2>2, <2>5, <3>1
  <2>9. \A k \in DOMAIN locations' : locations'[k] \in Location
    BY <1>1, <2>4, <2>5 DEF TypeOK
  <2>10. TypeOK'
    BY <1>1, <2>2, <2>7, <2>8, <2>9 DEF TypeOK
  <2>11. SlugsIdentify'
    BY <1>1 DEF IInv, SlugsIdentify
  <2> QED
    BY <2>6, <2>7, <2>10, <2>11 DEF IInv
<1> QED
  BY <1>2, <1>3

LEMMA UpdateLocationOK == ASSUME IInv, NEW p \in Requests, UpdateLocation(p) PROVE IInv'
<1> DEFINE q == request[p]
           row == Patched(locations[q.pk], q.patch)
           Refused == \/ q.pk \notin DOMAIN locations
                      \/ "category" \in DOMAIN q.patch /\ q.patch.category \notin DOMAIN categories
<1>1. TypeOK /\ RequestsOK /\ UNCHANGED <<categories, last>>
  BY DEF IInv, UpdateLocation
<1>2. CASE Refused
  <2>1. UNCHANGED <<categories, locations, last>> /\ Answer(p, 500)
    BY <1>2 DEF UpdateLocation
  <2> QED
    BY <1>1, <2>1, AnswerOK, LastSame, SameTables
<1>3. CASE ~Refused
  <2>1. /\ locations' = [locations EXCEPT ![q.pk] = row] /\ ReadBack(p, q.pk)
        /\ q.op = "edit location" /\ q.step = "save"
    BY <1>3 DEF UpdateLocation, At
  <2>2. q.pk \in DOMAIN locations
    BY <1>3
  <2>3. locations[q.pk] \in Location /\ locations[q.pk].category \in DOMAIN categories
    BY <1>1, <2>2 DEF IInv, TypeOK, LocationsHaveCategories
  <2>4. q.patch \in LocationPatches
    BY <1>1, <2>1, RequestTypes DEF RequestOK
  <2>5. row \in Location
    BY <2>3, <2>4, PatchedLocation
  <2>6. "category" \in DOMAIN locations[q.pk]
    BY <2>3 DEF Location
  <2>7. row.category \in DOMAIN categories
    BY <1>3, <2>3, <2>6 DEF Patched
  <2>8. request' \in [Requests -> Request] /\ RequestsOK'
    BY <1>1, <2>1, RequestTypes, ReadBackOK
  <2> HIDE DEF row
  <2> QED
    BY <1>1, <2>1, <2>2, <2>5, <2>7, <2>8, LocationReplaced
<1> QED
  BY <1>2, <1>3

LEMMA SoftDeleteOK == ASSUME IInv, NEW p \in Requests, SoftDelete(p) PROVE IInv'
<1> DEFINE pk == request[p].pk
           row == [locations[pk] EXCEPT !.deleted = TRUE]
<1>1. TypeOK /\ RequestsOK /\ UNCHANGED <<categories, last>>
  BY DEF IInv, SoftDelete
<1>2. request' \in [Requests -> Request] /\ RequestsOK'
  BY <1>1, AnswerOK, LastSame DEF SoftDelete
<1>3. CASE pk \notin DOMAIN locations
  BY <1>1, <1>2, <1>3, SameTables DEF SoftDelete
<1>4. CASE pk \in DOMAIN locations
  <2>1. locations' = [locations EXCEPT ![pk] = row]
    BY <1>4 DEF SoftDelete
  <2>2. row \in Location /\ row.category = locations[pk].category
    BY <1>1, <1>4 DEF TypeOK, Location
  <2>3. row.category \in DOMAIN categories
    BY <1>4, <2>2 DEF IInv, LocationsHaveCategories
  <2> HIDE DEF row
  <2> QED
    BY <1>1, <1>2, <1>4, <2>1, <2>2, <2>3, LocationReplaced
<1> QED
  BY <1>3, <1>4

\* The form saves a row of a location that there is or has been.
FormKeys ==
    \A p \in Requests :
        request[p].op = "admin edit" /\ request[p].step \in {"validate", "save"} =>
            request[p].pk \in 1 .. last.location

LEMMA SaveFormOK == ASSUME IInv, FormKeys, NEW p \in Requests, SaveForm(p) PROVE IInv'
<1>1. TypeOK /\ RequestsOK /\ UNCHANGED <<categories, last>>
  BY DEF IInv, SaveForm
<1>2. request' \in [Requests -> Request] /\ RequestsOK'
  BY <1>1, AnswerOK, LastSame DEF SaveForm
<1>3. PICK pk, row : pk = request[p].pk /\ row = request[p].copy
  OBVIOUS
<1>4. row \in Location /\ pk \in 1 .. last.location
  BY <1>1, <1>3, RequestTypes DEF SaveForm, At, RequestOK, FormKeys
<1>5. CASE row.category \notin DOMAIN categories
  BY <1>1, <1>2, <1>3, <1>5, SameTables DEF SaveForm
<1>6. CASE row.category \in DOMAIN categories
  <2>1. locations' = Put(locations, pk, row)
    BY <1>3, <1>6 DEF SaveForm
  <2>2. /\ DOMAIN locations' = DOMAIN locations \union {pk} /\ locations'[pk] = row
        /\ \A k \in DOMAIN locations \ {pk} : locations'[k] = locations[k]
    BY <2>1 DEF Put
  <2>3. LocationsHaveCategories'
    BY <1>1, <1>6, <2>2 DEF IInv, LocationsHaveCategories
  <2>4. TypeOK'
    BY <1>1, <1>2, <1>4, <2>2 DEF TypeOK
  <2>5. SlugsIdentify'
    BY <1>1 DEF IInv, SlugsIdentify
  <2> QED
    BY <1>2, <2>3, <2>4, <2>5 DEF IInv
<1> QED
  BY <1>5, <1>6

LEMMA DeleteFormOK == ASSUME IInv, NEW p \in Requests, DeleteForm(p) PROVE IInv'
<1>1. TypeOK /\ RequestsOK /\ UNCHANGED <<categories, last>>
  BY DEF IInv, DeleteForm
<1>2. request' \in [Requests -> Request] /\ RequestsOK'
  BY <1>1, AnswerOK, LastSame DEF DeleteForm
<1>3. /\ DOMAIN locations' \subseteq DOMAIN locations
      /\ \A k \in DOMAIN locations' : locations'[k] = locations[k]
  BY DEF DeleteForm
<1>4. LocationsHaveCategories'
  BY <1>1, <1>3 DEF IInv, LocationsHaveCategories
<1>5. SlugsIdentify'
  BY <1>1 DEF IInv, SlugsIdentify
<1>6. TypeOK'
  BY <1>1, <1>2, <1>3 DEF TypeOK
<1> QED
  BY <1>2, <1>4, <1>5, <1>6 DEF IInv

-----------------------------------------------------------------------------
(* The theorems.                                                           *)

LEMMA InitOK == Init => IInv
<1> SUFFICES ASSUME Init PROVE IInv
  OBVIOUS
<1>1. PICK n \in Names : categories = [pk \in {1} |-> [name |-> n, slug |-> SlugOf[n]]]
  BY DEF Init
<1>2. DOMAIN categories = {1} /\ categories[1] = [name |-> n, slug |-> SlugOf[n]]
  BY <1>1
<1>3. locations = <<>> /\ DOMAIN locations = {} /\ last = [category |-> 1, location |-> 0]
  BY DEF Init
<1>4. IdleRequest \in Request
  BY IdleOK DEF RequestOK
<1>5. request \in [Requests -> Request] /\ \A p \in Requests : request[p] = IdleRequest
  BY <1>4 DEF Init
<1>6. RequestsOK
  BY <1>5, IdleOK DEF RequestsOK
<1>7. categories[1] \in Category
  BY <1>2 DEF Category
<1>8. last \in [category : 0 .. MaxCategories, location : 0 .. MaxLocations]
  BY <1>3, CatalogueBounds
<1>9. TypeOK
  BY <1>2, <1>3, <1>5, <1>7, <1>8 DEF TypeOK
<1>10. LocationsHaveCategories
  BY <1>3 DEF LocationsHaveCategories
<1>11. SlugsIdentify
  BY <1>2 DEF SlugsIdentify
<1> QED
  BY <1>6, <1>9, <1>10, <1>11 DEF IInv

LEMMA UpTo == ASSUME NEW a \in Nat, NEW b \in Nat, a <= b PROVE 1 .. a \subseteq 1 .. b
OBVIOUS

LEMMA FormKeysBecome ==
    ASSUME IInv, FormKeys, NEW p \in Requests, NEW q, Becomes(p, q),
           last'.location \in Nat, last.location <= last'.location,
           q.op = "admin edit" /\ q.step \in {"validate", "save"} => q.pk \in 1 .. last.location
    PROVE  FormKeys'
<1>1. request'[p] = q /\ \A r \in Requests \ {p} : request'[r] = request[r]
  BY DEF IInv, TypeOK, Becomes
<1>4. last.location \in Nat
  BY LastTypes DEF IInv
<1>2. 1 .. last.location \subseteq 1 .. last'.location
  BY <1>4, UpTo
<1>3. ASSUME NEW r \in Requests, request'[r].op = "admin edit", request'[r].step \in {"validate", "save"}
      PROVE  request'[r].pk \in 1 .. last'.location
  <2>1. CASE r = p
    BY <1>1, <1>2, <1>3, <2>1
  <2>2. CASE r # p
    BY <1>1, <1>2, <1>3, <2>2 DEF FormKeys
  <2> QED
    BY <2>1, <2>2
<1> QED
  BY <1>3 DEF FormKeys

LEMMA FormKeysKept == IInv /\ FormKeys /\ [Next]_vars => FormKeys'
<1> SUFFICES ASSUME IInv, FormKeys, [Next]_vars PROVE FormKeys'
  OBVIOUS
<1>1. TypeOK /\ last.location \in Nat /\ request \in [Requests -> Request]
  BY LastTypes DEF IInv, TypeOK
<1>2. CASE UNCHANGED vars
  BY <1>2 DEF vars, FormKeys
<1>3. ASSUME NEW p \in Requests, NEW status, Answer(p, status),
             last'.location \in Nat, last.location <= last'.location
      PROVE  FormKeys'
  <2>1. IdleRequest.step = "idle"
    BY DEF IdleRequest
  <2> QED
    BY <1>3, <2>1, FormKeysBecome DEF Answer
<1>4. ASSUME NEW p \in Requests, NEW pk, ReadBack(p, pk),
             last'.location \in Nat, last.location <= last'.location
      PROVE  FormKeys'
  <2>1. PICK q : q = [IdleRequest EXCEPT !.step = "read", !.op = request[p].op, !.pk = pk]
    OBVIOUS
  <2>2. q.step = "read"
    BY <2>1 DEF IdleRequest
  <2> QED
    BY <1>4, <2>1, <2>2, FormKeysBecome DEF ReadBack
<1>5. ASSUME NEW p \in Requests, NEW q, Becomes(p, q), last' = last,
             \/ q.op # "admin edit"
             \/ q.step \notin {"validate", "save"}
             \/ q.pk \in 1 .. last.location
      PROVE  FormKeys'
  <2>1. \A n \in Nat : n <= n
    OBVIOUS
  <2>2. last'.location \in Nat /\ last.location <= last'.location
    <3>1. last'.location = last.location
      BY <1>5
    <3> QED
      BY <1>1, <2>1, <3>1
  <2> QED
    BY <1>5, <2>2, FormKeysBecome
<1>6. ASSUME NEW p \in Requests, NEW step, Goto(p, step), request[p].op # "admin edit", last' = last
      PROVE  FormKeys'
  <2>1. PICK q : q = [request[p] EXCEPT !.step = step]
    OBVIOUS
  <2>2. q.op # "admin edit"
    BY <1>1, <1>6, <2>1 DEF Request
  <2> QED
    BY <1>5, <1>6, <2>1, <2>2 DEF Goto
<1>7. ASSUME NEW p \in Requests, NEW status, Answer(p, status), last' = last PROVE FormKeys'
  BY <1>1, <1>3, <1>7
<1>8. ASSUME NEW p \in Requests, NEW pk, ReadBack(p, pk), last' = last PROVE FormKeys'
  BY <1>1, <1>4, <1>8
<1>9. ASSUME NEW p \in Requests, SendCategory(p) \/ SendLocation(p) PROVE FormKeys'
  <2>1. ASSUME NEW op, NEW u, NEW pk, NEW patch, Send(p, op, u, pk, patch) PROVE FormKeys'
    <3>1. PICK q : q = [IdleRequest EXCEPT !.step = "start", !.op = op, !.user = u, !.pk = pk, !.patch = patch]
      OBVIOUS
    <3>2. q.step = "start"
      BY <3>1 DEF IdleRequest
    <3> QED
      BY <1>5, <2>1, <3>1, <3>2 DEF Send
  <2> QED
    BY <1>9, <2>1 DEF SendCategory, SendLocation
<1>10. ASSUME NEW p \in Requests, Step(p) PROVE FormKeys'
  <2>1. CASE ValidateCategory(p)
    BY <1>6, <1>7, <2>1 DEF ValidateCategory, At
  <2>2. CASE ValidateEdit(p) \/ SkipValidation(p)
    BY <1>6, <1>7, <2>2 DEF ValidateEdit, SkipValidation, At
  <2>3. CASE CollectLocations(p) \/ ValidateLocation(p)
    BY <1>6, <1>7, <2>3 DEF CollectLocations, ValidateLocation, At
  <2>4. CASE GetCategory(p)
    <3>1. PICK q : q = [request[p] EXCEPT !.step = "validate", !.copy = categories[request[p].pk]]
      OBVIOUS
    <3>2. q.op = request[p].op
      BY <1>1, <3>1 DEF Request
    <3>3. request[p].op # "admin edit" /\ last' = last
      BY <2>4 DEF GetCategory
    <3>4. (\E status : Answer(p, status)) \/ Goto(p, "collect") \/ Becomes(p, q)
      BY <2>4, <3>1 DEF GetCategory
    <3> QED
      BY <1>5, <1>6, <1>7, <3>2, <3>3, <3>4
  <2>5. CASE GetLocation(p)
    <3>1. PICK q : q = [request[p] EXCEPT !.step = IF request[p].op = "edit location" THEN "validate" ELSE "save",
                                          !.user = Staff]
      OBVIOUS
    <3>2. q.op = request[p].op
      BY <1>1, <3>1 DEF Request
    <3>3. request[p].op # "admin edit" /\ last' = last
      BY <2>5 DEF GetLocation
    <3>4. (\E status : Answer(p, status)) \/ Becomes(p, q)
      BY <2>5, <3>1 DEF GetLocation
    <3> QED
      BY <1>5, <1>7, <3>2, <3>3, <3>4
  <2>6. CASE ValidatePatch(p)
    <3>1. request[p].op # "admin edit" /\ last' = last
      BY <2>6 DEF ValidatePatch, At
    <3>2. Answer(p, 400) \/ ReadBack(p, request[p].pk) \/ Goto(p, "save")
      BY <2>6 DEF ValidatePatch
    <3> QED
      BY <1>6, <1>7, <1>8, <3>1, <3>2
  <2>7. CASE CreateCategory(p)
    <3>1. last'.location = last.location
      BY <1>1, <2>7, LastTypes DEF CreateCategory
    <3> QED
      <4>1. \A n \in Nat : n <= n
        OBVIOUS
      <4>2. last'.location \in Nat /\ last.location <= last'.location
        BY <1>1, <3>1, <4>1
      <4>3. \E status : Answer(p, status)
        BY <2>7 DEF CreateCategory
      <4> QED
        BY <1>3, <4>2, <4>3
  <2>8. CASE CreateLocation(p)
    <3>1. last'.location = last.location \/ last'.location = last.location + 1
      BY <1>1, <2>8, LastTypes DEF CreateLocation
    <3>2. last'.location \in Nat /\ last.location <= last'.location
      BY <1>1, <3>1
    <3>3. (\E status : Answer(p, status)) \/ \E pk : ReadBack(p, pk)
      BY <2>8 DEF CreateLocation
    <3> QED
      BY <1>3, <1>4, <3>2, <3>3
  <2>9. CASE SaveCategory(p) \/ RemoveCategory(p) \/ SoftDelete(p) \/ Detail(p) \/ SaveForm(p) \/ DeleteForm(p)
    <3>1. last' = last /\ \E status : Answer(p, status)
      BY <2>9 DEF SaveCategory, RemoveCategory, SoftDelete, Detail, SaveForm, DeleteForm
    <3> QED
      BY <1>7, <3>1
  <2>10. CASE UpdateLocation(p)
    <3>1. last' = last /\ (Answer(p, 500) \/ ReadBack(p, request[p].pk))
      BY <2>10 DEF UpdateLocation
    <3> QED
      BY <1>7, <1>8, <3>1
  <2>11. CASE OpenForm(p)
    <3>1. PICK q : q = [request[p] EXCEPT !.step = "validate", !.patch = <<>>,
                            !.copy = Patched(locations[request[p].pk], request[p].patch)]
      OBVIOUS
    <3>2. q.pk = request[p].pk
      BY <1>1, <3>1 DEF Request
    <3>3. request[p].pk \in DOMAIN locations => q.pk \in 1 .. last.location
      BY <1>1, <3>2 DEF TypeOK
    <3>4. last' = last /\ (Answer(p, 404) \/ (Becomes(p, q) /\ request[p].pk \in DOMAIN locations))
      BY <2>11, <3>1 DEF OpenForm
    <3> QED
      BY <1>5, <1>7, <3>3, <3>4
  <2>12. ASSUME NEW deleted \in BOOLEAN, ReadForm(p, deleted) PROVE FormKeys'
    <3>1. PICK copy : copy = [request[p].copy EXCEPT !.deleted = deleted]
      OBVIOUS
    <3>2. PICK q : q = [request[p] EXCEPT !.step = "save", !.copy = copy]
      OBVIOUS
    <3>3. q.pk = request[p].pk
      BY <1>1, <3>2 DEF Request
    <3>4. request[p].pk \in 1 .. last.location
      BY <2>12 DEF ReadForm, At, FormKeys
    <3>5. last' = last /\ ((\E status : Answer(p, status)) \/ Becomes(p, q))
      BY <2>12, <3>1, <3>2 DEF ReadForm
    <3> QED
      BY <1>5, <1>7, <3>3, <3>4, <3>5
  <2> QED
    BY <1>10, <2>1, <2>2, <2>3, <2>4, <2>5, <2>6, <2>7, <2>8, <2>9, <2>10, <2>11, <2>12 DEF Step
<1> QED
  BY <1>2, <1>9, <1>10 DEF Next

LEMMA InitFormKeys == Init => FormKeys
<1>1. IdleRequest.step = "idle"
  BY DEF IdleRequest
<1> QED
  BY <1>1 DEF Init, FormKeys

LEMMA Inductive == IInv /\ FormKeys /\ [Next]_vars => IInv'
<1> SUFFICES ASSUME IInv, FormKeys, [Next]_vars PROVE IInv'
  OBVIOUS
<1>1. TypeOK /\ RequestsOK
  BY DEF IInv
<1>2. CASE UNCHANGED vars
  BY <1>1, <1>2, SameTables DEF vars, RequestsOK, TypeOK
<1>3. CASE Next
  <2>1. PICK p \in Requests : SendCategory(p) \/ SendLocation(p) \/ Step(p)
    BY <1>3 DEF Next
  <2>2. CASE SendCategory(p)
    <3>1. UNCHANGED <<categories, locations, last>>
      BY <2>2 DEF SendCategory, Send
    <3> QED
      BY <1>1, <2>2, <3>1, SendCategoryOK, SameTables
  <2>3. CASE SendLocation(p)
    <3>1. UNCHANGED <<categories, locations, last>>
      BY <2>3 DEF SendLocation, Send
    <3> QED
      BY <1>1, <2>3, <3>1, SendLocationOK, SameTables
  <2>4. CASE \/ ValidateCategory(p) \/ GetCategory(p) \/ ValidateEdit(p) \/ SkipValidation(p)
             \/ CollectLocations(p) \/ ValidateLocation(p) \/ GetLocation(p) \/ ValidatePatch(p)
             \/ Detail(p) \/ OpenForm(p) \/ (\E deleted \in BOOLEAN : ReadForm(p, deleted))
    <3>1. UNCHANGED <<categories, locations, last>>
      BY <2>4 DEF ValidateCategory, GetCategory, ValidateEdit, SkipValidation, CollectLocations,
                  ValidateLocation, GetLocation, ValidatePatch, Detail, OpenForm, ReadForm
    <3> QED
      BY <1>1, <2>4, <3>1, ReadingOK, SameTables
  <2>5. CASE \/ CreateCategory(p) \/ SaveCategory(p) \/ RemoveCategory(p) \/ CreateLocation(p)
             \/ UpdateLocation(p) \/ SoftDelete(p) \/ SaveForm(p) \/ DeleteForm(p)
    BY <2>5, CreateCategoryOK, SaveCategoryOK, RemoveCategoryOK, CreateLocationOK, UpdateLocationOK,
       SoftDeleteOK, SaveFormOK, DeleteFormOK
  <2> QED
    BY <2>1, <2>2, <2>3, <2>4, <2>5 DEF Step
<1> QED
  BY <1>2, <1>3 DEF Next

\* What ends the write of a request takes it away from its step.
LEMMA LeavesSave ==
    ASSUME TypeOK, NEW p \in Requests, (\E status : Answer(p, status)) \/ (\E pk : ReadBack(p, pk))
    PROVE  request'[p].step # "save"
<1>1. request \in [Requests -> Request]
  BY DEF TypeOK
<1>2. CASE \E status : Answer(p, status)
  <2>1. request'[p] = IdleRequest
    BY <1>1, <1>2 DEF Answer, Becomes
  <2> QED
    BY <2>1 DEF IdleRequest
<1>3. CASE \E pk : ReadBack(p, pk)
  <2>1. PICK pk : request'[p] = [IdleRequest EXCEPT !.step = "read", !.op = request[p].op, !.pk = pk]
    BY <1>1, <1>3 DEF ReadBack, Becomes
  <2> QED
    BY <2>1 DEF IdleRequest
<1> QED
  BY <1>2, <1>3

LEMMA NamedFieldsStep == IInv /\ [Next]_vars => ChangesNamedFields
<1> SUFFICES ASSUME IInv, [Next]_vars,
                    NEW pk \in DOMAIN locations \intersect DOMAIN locations', NEW f \in DOMAIN locations[pk],
                    locations'[pk][f] # locations[pk][f]
             PROVE  \E p \in Requests :
                        /\ request[p].pk = pk /\ request[p].step = "save" /\ request'[p].step # "save"
                        /\ \/ request[p].op = "edit location" /\ f \in DOMAIN request[p].patch
                           \/ request[p].op = "delete location" /\ f = "deleted"
                           \/ request[p].op = "admin edit"
  BY DEF ChangesNamedFields
<1>1. TypeOK
  BY DEF IInv
<1>2. locations' # locations
  OBVIOUS
<1>3. PICK p \in Requests : SendCategory(p) \/ SendLocation(p) \/ Step(p)
  BY <1>2 DEF Next, vars
<1>4. ~SendCategory(p) /\ ~SendLocation(p)
  BY <1>2 DEF SendCategory, SendLocation, Send
<1>5. CASE CreateLocation(p)
  <2>1. pk # last.location + 1
    BY <1>1, LastTypes DEF TypeOK
  <2>2. locations'[pk] = locations[pk]
    BY <1>2, <1>5, <2>1 DEF CreateLocation, Put
  <2> QED
    BY <2>2
<1>6. CASE UpdateLocation(p)
  <2> DEFINE q == request[p]
             row == Patched(locations[q.pk], q.patch)
  <2>1. locations' = [locations EXCEPT ![q.pk] = row] /\ ReadBack(p, q.pk)
    BY <1>2, <1>6 DEF UpdateLocation
  <2>2. q.pk = pk
    BY <2>1
  <2>3. locations'[pk] = Patched(locations[pk], q.patch)
    BY <2>1, <2>2
  <2>4. f \in DOMAIN q.patch
    BY <2>3, PatchedFields
  <2>5. q.op = "edit location" /\ q.step = "save"
    BY <1>6 DEF UpdateLocation, At
  <2> QED
    BY <1>1, <2>1, <2>2, <2>4, <2>5, LeavesSave
<1>7. CASE SoftDelete(p)
  <2> DEFINE q == request[p]
  <2>1. locations' = [locations EXCEPT ![q.pk].deleted = TRUE] /\ Answer(p, 204)
    BY <1>2, <1>7 DEF SoftDelete
  <2>2. q.pk = pk
    BY <2>1
  <2>3. f = "deleted"
    BY <2>1, <2>2
  <2>4. q.op = "delete location" /\ q.step = "save"
    BY <1>7 DEF SoftDelete, At
  <2> QED
    BY <1>1, <2>1, <2>2, <2>3, <2>4, LeavesSave
<1>8. CASE SaveForm(p)
  <2> DEFINE q == request[p]
  <2>1. PICK row : locations' = Put(locations, q.pk, row) /\ Answer(p, 200)
    BY <1>2, <1>8 DEF SaveForm
  <2>2. q.pk = pk
    BY <2>1 DEF Put
  <2>3. q.op = "admin edit" /\ q.step = "save"
    BY <1>8 DEF SaveForm, At
  <2> QED
    BY <1>1, <2>1, <2>2, <2>3, LeavesSave
<1>9. CASE DeleteForm(p)
  <2>1. locations'[pk] = locations[pk]
    BY <1>9 DEF DeleteForm
  <2> QED
    BY <2>1
<1>10. CASE \/ ValidateCategory(p) \/ CreateCategory(p) \/ GetCategory(p) \/ ValidateEdit(p)
            \/ SkipValidation(p) \/ SaveCategory(p) \/ CollectLocations(p) \/ RemoveCategory(p)
            \/ ValidateLocation(p) \/ GetLocation(p) \/ ValidatePatch(p) \/ Detail(p) \/ OpenForm(p)
            \/ (\E deleted \in BOOLEAN : ReadForm(p, deleted))
  BY <1>2, <1>10 DEF ValidateCategory, CreateCategory, GetCategory, ValidateEdit, SkipValidation,
     SaveCategory, CollectLocations, RemoveCategory, ValidateLocation, GetLocation, ValidatePatch,
     Detail, OpenForm, ReadForm
<1> QED
  BY <1>3, <1>4, <1>5, <1>6, <1>7, <1>8, <1>9, <1>10 DEF Step

LEMMA Invariant == Spec => []IInv
  BY InitOK, InitFormKeys, Inductive, FormKeysKept, PTL DEF Spec

\* Tables, keys and requests have their types, for any number of requests and rows:
\* what is saved from a copy and a patch is again a row of its table.
THEOREM TypeCorrect == Spec => []TypeOK
<1>1. IInv => TypeOK
  BY DEF IInv
<1> QED
  BY Invariant, <1>1, PTL

\* No interleaving of creates, edits, forms and deletes leaves a location without
\* its category.
THEOREM ReferencesHold == Spec => []LocationsHaveCategories
<1>1. IInv => LocationsHaveCategories
  BY DEF IInv
<1> QED
  BY Invariant, <1>1, PTL

\* A category's slug is the slug of its name and of no other category, although whole
\* rows are saved from copies of any age.
THEOREM SlugsAreUnique == Spec => []SlugsIdentify
<1>1. IInv => SlugsIdentify
  BY DEF IInv
<1> QED
  BY Invariant, <1>1, PTL

\* For any number of requests: a field of a location changes only at the hands of a
\* request that names it, or of the administrator's form.
THEOREM FieldsAreNamed == Spec => OnlyNamedFieldsChange
<1>1. IInv /\ [Next]_vars => ChangesNamedFields
  BY NamedFieldsStep
<1> QED
  BY Invariant, <1>1, PTL DEF Spec, OnlyNamedFieldsChange
-----------------------------------------------------------------------------
(* The order of the rows.                                                  *)

LEMMA AtType == RowsOK => \A row \in Rows, field \in Fields \union {"pk", "id"} : ValueOf(row, field) \in Value
  BY DEF RowsOK, ValueOf, Value

LEMMA ExpressionsType ==
    ASSUME NEW ordering \in Seq(Term), ordering # <<>>
    PROVE  /\ Expressions(ordering) \in Seq(Term)
           /\ \E i \in DOMAIN Expressions(ordering) : Expressions(ordering)[i].field \in {"pk", "id"}
<1> DEFINE tie == [field |-> "pk", descending |-> TRUE]
<1>1. tie \in Term /\ tie.field = "pk"
  BY DEF Term
<1>2. CASE \E i \in DOMAIN ordering : ordering[i].field \in {"pk", "id"}
  BY <1>2 DEF Expressions
<1>3. CASE ~ \E i \in DOMAIN ordering : ordering[i].field \in {"pk", "id"}
  <2> HIDE DEF tie
  <2>1. Append(ordering, tie) \in Seq(Term)
    BY <1>1
  <2>2. /\ Len(ordering) + 1 \in DOMAIN Append(ordering, tie)
        /\ Append(ordering, tie)[Len(ordering) + 1] = tie
    OBVIOUS
  <2>3. Expressions(ordering) = Append(ordering, tie)
    BY <1>3 DEF Expressions, tie
  <2> QED
    BY <1>1, <2>1, <2>2, <2>3
<1> QED
  BY <1>2, <1>3

\* One expression orders the values, NULL after all others in either direction.
LEMMA LessOrders ==
    ASSUME RowsOK, NEW x \in Value, NEW y \in Value, NEW z \in Value, NEW descending \in BOOLEAN
    PROVE  /\ ~Less(x, x, descending)
           /\ Less(x, y, descending) /\ Less(y, z, descending) => Less(x, z, descending)
           /\ x # y => Less(x, y, descending) \/ Less(y, x, descending)
           /\ Less(x, y, descending) => x # y
  BY DEF RowsOK, Value, Less

LEMMA TermFields ==
    \A s \in Seq(Term) : \A i \in DOMAIN s :
        s[i].field \in Fields \union {"pk", "id"} /\ s[i].descending \in BOOLEAN
<1>1. \A t \in Term : t.field \in Fields \union {"pk", "id"} /\ t.descending \in BOOLEAN
  BY DEF Term
<1>2. \A s \in Seq(Term) : \A i \in DOMAIN s : s[i] \in Term
  OBVIOUS
<1> QED
  BY <1>1, <1>2

LEMMA LeastIndex ==
    ASSUME NEW D, D \subseteq Nat, D # {}
    PROVE  \E i \in D : \A j \in D : i <= j
<1>1. PICK i \in D : \A j \in D : ~ (<<j, i>> \in OpToRel(<, Nat))
  BY WFMin, NatLessThanWellFounded, Zenon
<1>2. \A j \in D : ~ (j < i)
  BY <1>1 DEF OpToRel
<1> QED
  BY <1>2

\* No row comes before itself, and of two different rows one comes before the other,
\* whatever the client orders by and however many rows share a value.
THEOREM OrderIsTotal ==
    ASSUME RowsOK, NEW ordering \in Seq(Term), ordering # <<>>, NEW a \in Rows, NEW b \in Rows
    PROVE  ~Before(a, a, ordering) /\ (a # b => Before(a, b, ordering) \/ Before(b, a, ordering))
<1> DEFINE es == Expressions(ordering)
           A(i) == ValueOf(a, es[i].field)
           B(i) == ValueOf(b, es[i].field)
<1>1. es \in Seq(Term) /\ DOMAIN es \subseteq Nat /\ DOMAIN es = 1 .. Len(es) /\ Len(es) \in Nat
  BY ExpressionsType
<1>2. \A i \in DOMAIN es : es[i].field \in Fields \union {"pk", "id"} /\ es[i].descending \in BOOLEAN
  BY <1>1, TermFields
<1>3. \A i \in DOMAIN es : A(i) \in Value /\ B(i) \in Value
  BY <1>2, AtType
<1>4. ~Before(a, a, ordering)
  BY <1>2, <1>3, LessOrders DEF Before
<1>5. ASSUME a # b PROVE Before(a, b, ordering) \/ Before(b, a, ordering)
  <2> DEFINE D == {i \in DOMAIN es : A(i) # B(i)}
  <2>1. D # {} /\ D \subseteq Nat
    <3>1. PICK i \in DOMAIN es : es[i].field \in {"pk", "id"}
      BY ExpressionsType
    <3>2. A(i) = a /\ B(i) = b
      BY <3>1 DEF ValueOf
    <3> QED
      BY <1>1, <1>5, <3>2
  <2>2. PICK i \in D : \A j \in D : i <= j
    BY <2>1, LeastIndex
  <2>3. \A j \in 1 .. i - 1 : A(j) = B(j)
    BY <1>1, <2>2
  <2>4. Less(A(i), B(i), es[i].descending) \/ Less(B(i), A(i), es[i].descending)
    BY <1>2, <1>3, LessOrders
  <2> QED
    BY <2>3, <2>4 DEF Before
<1> QED
  BY <1>4, <1>5

\* A row that comes before a second comes before all that come after it.
THEOREM OrderIsTransitive ==
    ASSUME RowsOK, NEW ordering \in Seq(Term), ordering # <<>>, NEW a \in Rows, NEW b \in Rows, NEW c \in Rows,
           Before(a, b, ordering), Before(b, c, ordering)
    PROVE  Before(a, c, ordering)
<1> DEFINE es == Expressions(ordering)
           V(r, i) == ValueOf(r, es[i].field)
           L(r, s, i) == Less(V(r, i), V(s, i), es[i].descending)
<1>1. DOMAIN es = 1 .. Len(es) /\ Len(es) \in Nat /\ es \in Seq(Term)
  BY ExpressionsType
<1>2. \A i \in DOMAIN es : es[i].field \in Fields \union {"pk", "id"} /\ es[i].descending \in BOOLEAN
  BY <1>1, TermFields
<1>3. \A i \in DOMAIN es : V(a, i) \in Value /\ V(b, i) \in Value /\ V(c, i) \in Value
  BY <1>2, AtType
<1>4. \A i \in DOMAIN es : L(a, b, i) /\ L(b, c, i) => L(a, c, i)
  BY <1>2, <1>3, LessOrders
<1>5. PICK i \in DOMAIN es : L(a, b, i) /\ \A j \in 1 .. i - 1 : V(a, j) = V(b, j)
  BY DEF Before
<1>6. PICK k \in DOMAIN es : L(b, c, k) /\ \A j \in 1 .. k - 1 : V(b, j) = V(c, j)
  BY DEF Before
<1>7. SUFFICES \E m \in DOMAIN es : L(a, c, m) /\ \A j \in 1 .. m - 1 : V(a, j) = V(c, j)
  BY DEF Before
<1> HIDE DEF V, es
<1>8. i \in Nat /\ k \in Nat /\ i >= 1 /\ k >= 1
  BY <1>1
<1>9. CASE i < k
  <2>1. V(b, i) = V(c, i) /\ \A j \in 1 .. i - 1 : V(a, j) = V(c, j)
    BY <1>5, <1>6, <1>8, <1>9
  <2> QED
    BY <1>5, <2>1
<1>10. CASE k < i
  <2>1. V(a, k) = V(b, k) /\ \A j \in 1 .. k - 1 : V(a, j) = V(c, j)
    BY <1>5, <1>6, <1>8, <1>10
  <2> QED
    BY <1>6, <2>1
<1>11. CASE i = k
  BY <1>4, <1>5, <1>6, <1>11
<1> QED
  BY <1>8, <1>9, <1>10, <1>11

\* Rows without a value come after those with one, ascending or descending: ordering
\* by rating never lists the locations without reviews on top.
THEOREM NullsAreLast ==
    ASSUME RowsOK, NEW ordering \in Seq(Term), Len(ordering) >= 1, NEW a \in Rows, NEW b \in Rows,
           ValueOf(a, ordering[1].field) # Null, ValueOf(b, ordering[1].field) = Null
    PROVE  Before(a, b, ordering)
<1> DEFINE es == Expressions(ordering)
<1>1. 1 \in DOMAIN es /\ es[1] = ordering[1]
  BY DEF Expressions
<1>2. Less(ValueOf(a, es[1].field), ValueOf(b, es[1].field), es[1].descending)
  BY <1>1 DEF Less
<1> QED
  BY <1>1, <1>2 DEF Before

-----------------------------------------------------------------------------
LEMMA Division ==
    ASSUME NEW a \in Nat, NEW b \in Nat \ {0}
    PROVE  /\ a \div b \in Nat
           /\ b * (a \div b) <= a /\ a < b * (a \div b) + b
  OBVIOUS

\* Multiples of one number are ordered as their factors.
LEMMA Factors ==
    ASSUME NEW g \in Nat \ {0}, NEW m \in Int, NEW n \in Int, g * m < g * n + g
    PROVE  m <= n
<1>1. SUFFICES ASSUME m >= n + 1 PROVE FALSE
  OBVIOUS
<1>2. g * (m - n - 1) >= 0
  BY <1>1
<1> QED
  BY <1>2

LEMMA Rounding ==
    ASSUME DigitsOK, NEW x \in Int
    PROVE  /\ Quantize(x) \in Int
           /\ x >= 0 => /\ Quantize(x) >= 0
                        /\ 2 * (Grain * Quantize(x)) <= 2 * x + Grain
                        /\ 2 * x < 2 * (Grain * Quantize(x)) + Grain
           /\ x < 0 => /\ Quantize(x) <= 0
                       /\ 2 * x - Grain <= 2 * (Grain * Quantize(x))
                       /\ 2 * (Grain * Quantize(x)) < 2 * x + Grain
<1> DEFINE a == 2 * Magnitude(x) + Grain
           q == a \div (2 * Grain)
<1>1. a \in Nat /\ 2 * Grain \in Nat \ {0} /\ Grain \in Nat \ {0}
  BY DEF DigitsOK, Magnitude
<1>2. q \in Nat /\ (2 * Grain) * q <= a /\ a < (2 * Grain) * q + 2 * Grain
  BY <1>1, Division
<1>3. (2 * Grain) * q = 2 * (Grain * q) /\ Grain * (-q) = -(Grain * q)
  BY <1>1, <1>2
<1>4. CASE x >= 0
  <2>1. Quantize(x) = q /\ a = 2 * x + Grain
    BY <1>4 DEF Quantize, Magnitude
  <2> HIDE DEF q, a
  <2> QED
    BY <1>1, <1>2, <1>3, <1>4, <2>1
<1>5. CASE x < 0
  <2>1. Quantize(x) = -q /\ a = -2 * x + Grain
    BY <1>5 DEF Quantize, Magnitude
  <2> HIDE DEF q, a
  <2> QED
    BY <1>1, <1>2, <1>3, <1>5, <2>1
<1> QED
  BY <1>4, <1>5

\* Of two coordinates sent, the smaller is never stored as the larger: rounding keeps
\* the order of places on the map.
THEOREM RoundingKeepsOrder ==
    ASSUME DigitsOK, NEW x \in Int, NEW y \in Int, x <= y
    PROVE  Quantize(x) <= Quantize(y)
<1> DEFINE m == Quantize(x)
           n == Quantize(y)
<1>1. m \in Int /\ n \in Int /\ Grain \in Nat \ {0}
  BY Rounding DEF DigitsOK
<1>2. CASE x < 0 /\ y >= 0
  <2>1. m <= 0 /\ n >= 0
    BY <1>2, Rounding
  <2> HIDE DEF m, n
  <2>2. m <= n
    BY <1>1, <2>1
  <2> QED
    BY <2>2 DEF m, n
<1>3. CASE x >= 0
  <2>1. 2 * (Grain * m) <= 2 * x + Grain /\ 2 * y < 2 * (Grain * n) + Grain
    BY <1>3, Rounding
  <2> HIDE DEF m, n
  <2>2. Grain * m < Grain * n + Grain
    BY <1>1, <2>1
  <2>3. m <= n
    BY <1>1, <2>2, Factors
  <2> QED
    BY <2>3 DEF m, n
<1>4. CASE y < 0
  <2>1. 2 * (Grain * m) < 2 * x + Grain /\ 2 * y - Grain <= 2 * (Grain * n)
    BY <1>4, Rounding
  <2> HIDE DEF m, n
  <2>2. Grain * m < Grain * n + Grain
    BY <1>1, <2>1
  <2>3. m <= n
    BY <1>1, <2>2, Factors
  <2> QED
    BY <2>3 DEF m, n
<1> QED
  BY <1>2, <1>3, <1>4

\* A stored coordinate, sent again, is stored as it is: writing back what was read
\* moves no location, however often it is done.
THEOREM StoredStays ==
    ASSUME DigitsOK, NEW n \in Int
    PROVE  Quantize(n * Grain) = n
<1> DEFINE m == Quantize(n * Grain)
<1>1. Grain \in Nat \ {0} /\ n * Grain \in Int /\ n * Grain = Grain * n
  BY DEF DigitsOK
<1>2. m \in Int
  BY <1>1, Rounding
<1>3. /\ 2 * (Grain * m) <= 2 * (Grain * n) + Grain
      /\ 2 * (Grain * n) <= 2 * (Grain * m) + Grain
  <2>1. Grain * m \in Int /\ Grain * n \in Int
    BY <1>1, <1>2
  <2>2. CASE n * Grain >= 0
    <3>1. /\ 2 * (Grain * m) <= 2 * (n * Grain) + Grain
          /\ 2 * (n * Grain) < 2 * (Grain * m) + Grain
      BY <1>1, <2>2, Rounding
    <3> HIDE DEF m
    <3> QED
      BY <1>1, <2>1, <3>1
  <2>3. CASE n * Grain < 0
    <3>1. /\ 2 * (n * Grain) - Grain <= 2 * (Grain * m)
          /\ 2 * (Grain * m) < 2 * (n * Grain) + Grain
      BY <1>1, <2>3, Rounding
    <3> HIDE DEF m
    <3> QED
      BY <1>1, <2>1, <3>1
  <2> QED
    BY <1>1, <2>2, <2>3
<1> HIDE DEF m
<1>4. Grain * m < Grain * n + Grain /\ Grain * n < Grain * m + Grain
  BY <1>1, <1>2, <1>3
<1>5. m <= n /\ n <= m
  BY <1>1, <1>2, <1>4, Factors
<1> QED
  BY <1>2, <1>5 DEF m

\* Rounding comes before the validation: accepted is what is less than half a unit
\* outside the range, and nothing else; the digits of the column never refuse more.
THEOREM AcceptedIfNear ==
    ASSUME DigitsOK, NEW x \in Int, NEW limit \in 0 .. 180
    PROVE  Accepted(x, limit) <=> 2 * Magnitude(x) < 2 * (Grain * (limit * Degree)) + Grain
<1> DEFINE m == Quantize(x)
           b == limit * Degree
<1>1. m \in Int /\ b \in Nat /\ Grain \in Nat \ {0} /\ b <= MaxCoef /\ MaxCoef \in Nat
  <2>1. limit * Degree <= 180 * Degree
    BY DEF DigitsOK
  <2> QED
    BY <2>1, Rounding DEF DigitsOK
<1>2. -limit * Degree = -b
  BY DEF DigitsOK
<1>3. Accepted(x, limit) <=> -b <= m /\ m <= b
  <2>1. Accepted(x, limit) <=> Magnitude(m) <= MaxCoef /\ -b <= m /\ m <= b
    BY <1>2 DEF Accepted, Fits
  <2> HIDE DEF m, b
  <2> QED
    BY <1>1, <2>1 DEF Magnitude
<1>4. Grain * m \in Int /\ Grain * b \in Int /\ Grain * (-b) = -(Grain * b) /\ -b \in Int
  BY <1>1
<1>5. CASE x >= 0
  <2>1. /\ m >= 0 /\ 2 * (Grain * m) <= 2 * x + Grain
        /\ 2 * x < 2 * (Grain * m) + Grain
    BY <1>5, Rounding
  <2>2. Magnitude(x) = x
    BY <1>5 DEF Magnitude
  <2> HIDE DEF m, b
  <2>3. ASSUME m <= b PROVE 2 * x < 2 * (Grain * b) + Grain
    <3>1. Grain * m <= Grain * b
      BY <1>1, <2>3
    <3> QED
      BY <1>1, <1>4, <2>1, <3>1
  <2>4. ASSUME 2 * x < 2 * (Grain * b) + Grain PROVE m <= b
    <3>1. Grain * m < Grain * b + Grain
      BY <1>1, <1>4, <2>1, <2>4
    <3> QED
      BY <1>1, <3>1, Factors
  <2>5. -b <= m
    BY <1>1, <2>1
  <2> QED
    BY <1>3, <2>2, <2>3, <2>4, <2>5 DEF b
<1>6. CASE x < 0
  <2>1. /\ m <= 0 /\ 2 * x - Grain <= 2 * (Grain * m)
        /\ 2 * (Grain * m) < 2 * x + Grain
    BY <1>6, Rounding
  <2>2. Magnitude(x) = -x
    BY <1>6 DEF Magnitude
  <2> HIDE DEF m, b
  <2>3. ASSUME -b <= m PROVE 2 * (-x) < 2 * (Grain * b) + Grain
    <3>1. Grain * (-b) <= Grain * m
      BY <1>1, <2>3
    <3> QED
      BY <1>1, <1>4, <2>1, <3>1
  <2>4. ASSUME 2 * (-x) < 2 * (Grain * b) + Grain PROVE -b <= m
    <3>1. Grain * (-b) < Grain * m + Grain
      BY <1>1, <1>4, <2>1, <2>4
    <3> QED
      BY <1>1, <1>4, <3>1, Factors
  <2>5. m <= b
    BY <1>1, <2>1
  <2> QED
    BY <1>3, <2>2, <2>3, <2>4, <2>5 DEF b
<1> QED
  BY <1>5, <1>6
\* A box whose borders have the digits the table stores, valid on the map of the
\* world, finds every location that was sent from inside it, rounded as it is.
THEOREM BoxFinds ==
    ASSUME DigitsOK,
           NEW w \in Int, NEW e \in Int, NEW s \in Int, NEW n \in Int,
           NEW lng \in Int, NEW lat \in Int,
           w * Grain <= lng, lng <= e * Grain, s * Grain <= lat, lat <= n * Grain
    PROVE  InBox(Quantize(lng), Quantize(lat),
                 [minLng |-> w * Grain, minLat |-> s * Grain, maxLng |-> e * Grain, maxLat |-> n * Grain])
<1>1. Grain \in Nat \ {0} /\ \A k \in Int : k * Grain \in Int
  BY DEF DigitsOK
<1>2. \A x \in Int : Quantize(x) \in Int
  BY Rounding
<1>3. ASSUME NEW x \in Int, NEW a \in Int, NEW b \in Int, a * Grain <= x, x <= b * Grain
      PROVE  a * Grain <= Quantize(x) * Grain /\ Quantize(x) * Grain <= b * Grain
  <2> DEFINE q == Quantize(x)
  <2>1. Quantize(a * Grain) <= q /\ q <= Quantize(b * Grain) /\ q \in Int
    BY <1>1, <1>2, <1>3, RoundingKeepsOrder
  <2>2. a <= q /\ q <= b
    BY <2>1, StoredStays
  <2> HIDE DEF q
  <2>3. a * Grain <= q * Grain /\ q * Grain <= b * Grain
    BY <1>1, <2>1, <2>2
  <2> QED
    BY <2>3 DEF q
<1> QED
  BY <1>3 DEF InBox

\* The valid box around the whole world finds every location there is: those that
\* were sent from just outside the range, too.
THEOREM WorldFindsAll ==
    ASSUME DigitsOK, NEW lng \in Int, NEW lat \in Int, Accepted(lng, 180), Accepted(lat, 90)
    PROVE  LET world == [minLng |-> -180 * Degree * Grain, minLat |-> -90 * Degree * Grain,
                         maxLng |-> 180 * Degree * Grain, maxLat |-> 90 * Degree * Grain] IN
           ValidBox(world) /\ InBox(Quantize(lng), Quantize(lat), world)
<1>1. Grain \in Nat \ {0} /\ Degree \in Nat \ {0}
  BY DEF DigitsOK
<1>2. ASSUME NEW q \in Int, NEW a \in Int, NEW b \in Int, a <= q, q <= b
      PROVE  a * Grain <= q * Grain /\ q * Grain <= b * Grain
  BY <1>1, <1>2
<1>3. /\ Quantize(lng) \in Int /\ Quantize(lat) \in Int
      /\ -180 * Degree \in Int /\ 180 * Degree \in Int /\ -90 * Degree \in Int /\ 90 * Degree \in Int
  BY <1>1, Rounding
<1>4. /\ -180 * Degree <= Quantize(lng) /\ Quantize(lng) <= 180 * Degree
      /\ -90 * Degree <= Quantize(lat) /\ Quantize(lat) <= 90 * Degree
  BY <1>1 DEF Accepted
<1>5. -180 * Degree * Grain <= 180 * Degree * Grain /\ -90 * Degree * Grain <= 90 * Degree * Grain
  <2>1. -180 * Degree <= 180 * Degree /\ -90 * Degree <= 90 * Degree
    BY <1>1
  <2>2. Degree * Grain >= 0 /\ Degree * Grain \in Int
    BY <1>1
  <2>3. /\ -180 * Degree * Grain = -180 * (Degree * Grain) /\ 180 * Degree * Grain = 180 * (Degree * Grain)
        /\ -90 * Degree * Grain = -90 * (Degree * Grain) /\ 90 * Degree * Grain = 90 * (Degree * Grain)
    BY <1>1
  <2> QED
    BY <2>2, <2>3
<1>6. /\ -180 * Degree * Grain = (-180 * Degree) * Grain
      /\ -90 * Degree * Grain = (-90 * Degree) * Grain
      /\ -180 * Degree * Grain \in Int /\ -90 * Degree * Grain \in Int
      /\ 180 * Degree * Grain \in Int /\ 90 * Degree * Grain \in Int
  BY <1>1
<1>7. /\ -180 * Degree * Grain <= Quantize(lng) * Grain /\ Quantize(lng) * Grain <= 180 * Degree * Grain
      /\ -90 * Degree * Grain <= Quantize(lat) * Grain /\ Quantize(lat) * Grain <= 90 * Degree * Grain
  BY <1>2, <1>3, <1>4, <1>6
<1>8. \A i \in Int : i <= i
  OBVIOUS
<1> QED
  BY <1>5, <1>6, <1>7, <1>8 DEF ValidBox, InBox

-----------------------------------------------------------------------------
(* Statistics.                                                             *)

LEMMA CountsType ==
    ASSUME SettingsOK, NEW h \in Ratings
    PROVE  /\ ReviewsCount(h) \in Nat /\ RatingsSum(h) \in Nat
           /\ RATING_MIN * ReviewsCount(h) <= RatingsSum(h)
           /\ RatingsSum(h) <= RATING_MAX * ReviewsCount(h)
           /\ BayesTop(h) \in Nat /\ BayesBottom(h) \in Nat \ {0}
<1>1. h[1] \in Nat /\ h[2] \in Nat /\ h[3] \in Nat /\ h[4] \in Nat /\ h[5] \in Nat
  BY DEF Ratings, Stars, RATING_MIN, RATING_MAX
<1>2. /\ ReviewsCount(h) \in Nat /\ RatingsSum(h) \in Nat
      /\ RATING_MIN * ReviewsCount(h) <= RatingsSum(h)
      /\ RatingsSum(h) <= RATING_MAX * ReviewsCount(h)
  BY <1>1 DEF ReviewsCount, RatingsSum, RATING_MIN, RATING_MAX
<1>3. ASSUME NEW a \in Nat, NEW b \in Nat PROVE a * b \in Nat
  OBVIOUS
<1>4. Unit * RatingsSum(h) \in Nat /\ Unit * ReviewsCount(h) \in Nat
  BY <1>2, <1>3 DEF SettingsOK
<1>5. BayesTop(h) \in Nat
  BY <1>4 DEF SettingsOK, BayesTop
<1>6. BayesBottom(h) \in Nat \ {0}
  BY <1>4 DEF SettingsOK, BayesBottom
<1> QED
  BY <1>2, <1>5, <1>6

LEMMA ReviewedCounts ==
    ASSUME NEW h \in Ratings, NEW s \in Stars
    PROVE  /\ Reviewed(h, s) \in Ratings
           /\ ReviewsCount(Reviewed(h, s)) = ReviewsCount(h) + 1
           /\ RatingsSum(Reviewed(h, s)) = RatingsSum(h) + s
<1>1. h[1] \in Nat /\ h[2] \in Nat /\ h[3] \in Nat /\ h[4] \in Nat /\ h[5] \in Nat
  BY DEF Ratings, Stars, RATING_MIN, RATING_MAX
<1>2. s \in {1, 2, 3, 4, 5}
  BY DEF Stars, RATING_MIN, RATING_MAX
<1>3. Reviewed(h, s) \in Ratings
  BY DEF Reviewed, Ratings, Stars
<1>4. \A t \in Stars : Reviewed(h, s)[t] = IF t = s THEN h[t] + 1 ELSE h[t]
  BY DEF Reviewed, Ratings
<1>5. 1 \in Stars /\ 2 \in Stars /\ 3 \in Stars /\ 4 \in Stars /\ 5 \in Stars
  BY DEF Stars, RATING_MIN, RATING_MAX
<1> DEFINE g == Reviewed(h, s)
<1>6. \A t \in Stars : g[t] = IF t = s THEN h[t] + 1 ELSE h[t]
  BY <1>4
<1> HIDE DEF g
<1>7. /\ g[1] = (IF s = 1 THEN h[1] + 1 ELSE h[1]) /\ g[2] = (IF s = 2 THEN h[2] + 1 ELSE h[2])
      /\ g[3] = (IF s = 3 THEN h[3] + 1 ELSE h[3]) /\ g[4] = (IF s = 4 THEN h[4] + 1 ELSE h[4])
      /\ g[5] = (IF s = 5 THEN h[5] + 1 ELSE h[5])
  BY <1>5, <1>6
<1>8. g[1] + g[2] + g[3] + g[4] + g[5] = h[1] + h[2] + h[3] + h[4] + h[5] + 1
  BY <1>1, <1>2, <1>7
<1>9. g[1] + 2 * g[2] + 3 * g[3] + 4 * g[4] + 5 * g[5]
          = h[1] + 2 * h[2] + 3 * h[3] + 4 * h[4] + 5 * h[5] + s
  BY <1>1, <1>2, <1>7
<1> QED
  BY <1>3, <1>8, <1>9 DEF ReviewsCount, RatingsSum, g

LEMMA ReviewedBayes ==
    ASSUME SettingsOK, NEW h \in Ratings, NEW s \in Stars
    PROVE  /\ BayesTop(Reviewed(h, s)) = BayesTop(h) + Unit * s
           /\ BayesBottom(Reviewed(h, s)) = BayesBottom(h) + Unit
<1>1. /\ ReviewsCount(Reviewed(h, s)) = ReviewsCount(h) + 1
      /\ RatingsSum(Reviewed(h, s)) = RatingsSum(h) + s
  BY ReviewedCounts
<1>2. ReviewsCount(h) \in Int /\ RatingsSum(h) \in Int /\ Unit \in Int /\ s \in Int
  BY CountsType DEF SettingsOK, Stars, RATING_MIN, RATING_MAX
<1>3. Unit * (RatingsSum(h) + s) = Unit * RatingsSum(h) + Unit * s
  BY <1>2
<1>4. Unit * (ReviewsCount(h) + 1) = Unit * ReviewsCount(h) + Unit
  BY <1>2
<1>5. PriorSum \in Int /\ PriorWeight \in Int /\ Unit * s \in Int
      /\ Unit * RatingsSum(h) \in Int /\ Unit * ReviewsCount(h) \in Int
  BY <1>2 DEF SettingsOK
<1>6. BayesTop(Reviewed(h, s)) = PriorSum + (Unit * RatingsSum(h) + Unit * s)
  BY <1>1, <1>3 DEF BayesTop
<1>7. BayesBottom(Reviewed(h, s)) = PriorWeight + (Unit * ReviewsCount(h) + Unit)
  BY <1>1, <1>4 DEF BayesBottom
<1>8. BayesTop(Reviewed(h, s)) = (PriorSum + Unit * RatingsSum(h)) + Unit * s
  BY <1>5, <1>6
<1>9. BayesBottom(Reviewed(h, s)) = (PriorWeight + Unit * ReviewsCount(h)) + Unit
  BY <1>2, <1>5, <1>7
<1> QED
  BY <1>8, <1>9 DEF BayesTop, BayesBottom

\* A fraction that is mixed with s / 1 moves towards s and not past it.
LEMMA Mixed ==
    ASSUME NEW t \in Nat, NEW b \in Nat, NEW u \in Nat, NEW s \in Nat
    PROVE  /\ s * b >= t => (t + u * s) * b >= t * (b + u) /\ s * (b + u) >= t + u * s
           /\ s * b <= t => (t + u * s) * b <= t * (b + u) /\ s * (b + u) <= t + u * s
<1>1. (t + u * s) * b = t * b + u * (s * b) /\ t * (b + u) = t * b + u * t /\ s * (b + u) = s * b + u * s
  OBVIOUS
<1>2. ASSUME NEW x \in Nat, NEW y \in Nat, x <= y PROVE u * x <= u * y
  BY <1>2
<1>3. s * b \in Nat /\ t * b \in Nat /\ u * s \in Nat /\ u * t \in Nat /\ u * (s * b) \in Nat
  OBVIOUS
<1> QED
  BY <1>1, <1>2, <1>3

\* Every review moves the Bayesian rating of its location towards the rating it gives,
\* and never past it, however many reviews and whatever prior there are
\* (bayes_rating of locations_with_stats).
THEOREM ReviewsPull ==
    ASSUME SettingsOK, NEW h \in Ratings, NEW s \in Stars
    PROVE  LET h2 == Reviewed(h, s) IN
           /\ s * BayesBottom(h) >= BayesTop(h) =>
                 /\ BayesTop(h2) * BayesBottom(h) >= BayesTop(h) * BayesBottom(h2)
                 /\ s * BayesBottom(h2) >= BayesTop(h2)
           /\ s * BayesBottom(h) <= BayesTop(h) =>
                 /\ BayesTop(h2) * BayesBottom(h) <= BayesTop(h) * BayesBottom(h2)
                 /\ s * BayesBottom(h2) <= BayesTop(h2)
<1>1. BayesTop(h) \in Nat /\ BayesBottom(h) \in Nat /\ Unit \in Nat /\ s \in Nat
  BY CountsType DEF SettingsOK, Stars, RATING_MIN, RATING_MAX
<1> QED
  BY <1>1, ReviewedBayes, Mixed

\* The Bayesian rating is a rating when the prior mean is one: between 1 and 5, also of
\* locations that nobody has reviewed.
THEOREM BayesIsRating ==
    ASSUME SettingsOK, PriorIsRating, NEW h \in Ratings
    PROVE  RATING_MIN * BayesBottom(h) <= BayesTop(h) /\ BayesTop(h) <= RATING_MAX * BayesBottom(h)
<1> DEFINE n == ReviewsCount(h)
           sum == RatingsSum(h)
<1>1. n \in Nat /\ sum \in Nat /\ 1 * n <= sum /\ sum <= 5 * n
  BY CountsType DEF RATING_MIN, RATING_MAX
<1>2. Unit \in Nat /\ PriorSum \in Nat /\ PriorWeight \in Nat /\ PriorWeight <= PriorSum
      /\ PriorSum <= 5 * PriorWeight
  BY DEF SettingsOK, PriorIsRating, RATING_MIN, RATING_MAX
<1>3. ASSUME NEW x \in Nat, NEW y \in Nat, x <= y PROVE Unit * x <= Unit * y
  BY <1>2, <1>3
<1>4. Unit * n <= Unit * sum /\ Unit * sum <= Unit * (5 * n)
  BY <1>1, <1>3
<1>5. Unit * (5 * n) = 5 * (Unit * n) /\ Unit * n \in Nat /\ Unit * sum \in Nat
  BY <1>1, <1>2
<1> QED
  BY <1>2, <1>4, <1>5 DEF BayesTop, BayesBottom, RATING_MIN, RATING_MAX

LEMMA ActivityType ==
    ASSUME SettingsOK, NEW h \in Ratings, NEW recent \in Nat
    PROVE  Activity(h, recent) \in Nat
<1>1. ReviewsCount(h) + 1 \in Nat /\ recent + 1 \in Nat
  BY CountsType
<1>2. Log[ReviewsCount(h) + 1] \in Nat /\ Log[recent + 1] \in Nat
  BY <1>1 DEF SettingsOK
<1>3. ASSUME NEW a \in Nat, NEW b \in Nat, NEW c \in Nat, NEW d \in Nat PROVE a * b + c * d \in Nat
  OBVIOUS
<1> QED
  BY <1>2, <1>3 DEF SettingsOK, Activity

\* Comparing popularities: of two locations the one with the better Bayesian rating and
\* more activity is the more popular.
LEMMA MorePopular ==
    ASSUME NEW w \in Nat, NEW t \in Nat, NEW b \in Nat \ {0}, NEW x \in Nat,
           NEW t2 \in Nat, NEW b2 \in Nat \ {0}, NEW x2 \in Nat, t * b2 <= t2 * b, x < x2
    PROVE  (w * t + 5 * b * x) * (5 * b2) < (w * t2 + 5 * b2 * x2) * (5 * b)
<1>1. (w * t + 5 * b * x) * (5 * b2) = 5 * (w * (t * b2)) + 25 * ((b * b2) * x)
  OBVIOUS
<1>2. (w * t2 + 5 * b2 * x2) * (5 * b) = 5 * (w * (t2 * b)) + 25 * ((b * b2) * x2)
  OBVIOUS
<1>3. ASSUME NEW y \in Nat, NEW z \in Nat, y <= z PROVE w * y <= w * z
  BY <1>3
<1>4. t * b2 \in Nat /\ t2 * b \in Nat /\ b * b2 \in Nat \ {0}
  OBVIOUS
<1>5. w * (t * b2) <= w * (t2 * b) /\ w * (t * b2) \in Nat /\ w * (t2 * b) \in Nat
  BY <1>3, <1>4
<1>6. ASSUME NEW k \in Nat \ {0} PROVE k * x < k * x2
  OBVIOUS
<1>7. (b * b2) * x < (b * b2) * x2 /\ (b * b2) * x \in Nat /\ (b * b2) * x2 \in Nat
  <2> DEFINE k == b * b2
  <2>1. k \in Nat \ {0}
    BY <1>4
  <2> HIDE DEF k
  <2>2. k * x < k * x2 /\ k * x \in Nat /\ k * x2 \in Nat
    BY <1>6, <2>1
  <2> QED
    BY <2>2 DEF k
<1> QED
  BY <1>1, <1>2, <1>5, <1>7

\* A review that gives at least the Bayesian rating makes its location more popular;
\* five stars always do.  (A worse one may as well: its rating and the count of reviews
\* pull in opposite directions.)
THEOREM GoodReviewsHelp ==
    ASSUME SettingsOK, WeightReviews # 0, NEW h \in Ratings, NEW s \in Stars, NEW recent \in Nat,
           s * BayesBottom(h) >= BayesTop(h) \/ (PriorIsRating /\ s = RATING_MAX)
    PROVE  LessPopular(h, recent, Reviewed(h, s), recent)
<1> DEFINE h2 == Reviewed(h, s)
<1>1. /\ h2 \in Ratings /\ ReviewsCount(h2) = ReviewsCount(h) + 1
      /\ ReviewsCount(h) \in Nat
  BY ReviewedCounts, CountsType
<1>2. s * BayesBottom(h) >= BayesTop(h)
  BY BayesIsRating, CountsType
<1> HIDE DEF h2
<1>3. BayesTop(h) * BayesBottom(h2) <= BayesTop(h2) * BayesBottom(h)
  <2>1. BayesTop(h2) * BayesBottom(h) >= BayesTop(h) * BayesBottom(h2)
    BY <1>2, ReviewsPull DEF h2
  <2>2. ASSUME NEW x \in Int, NEW y \in Int, x >= y PROVE y <= x
    BY <2>2
  <2>3. BayesTop(h2) * BayesBottom(h) \in Int /\ BayesTop(h) * BayesBottom(h2) \in Int
    BY <1>1, CountsType
  <2> QED
    BY <2>1, <2>2, <2>3
<1>4. Activity(h, recent) < Activity(h2, recent)
  <2> DEFINE a == Log[ReviewsCount(h) + 1]
             b == Log[ReviewsCount(h2) + 1]
             c == Log[recent + 1]
  <2>1. a \in Nat /\ b \in Nat /\ c \in Nat /\ a < b
    BY <1>1 DEF SettingsOK
  <2>2. WeightReviews \in Nat \ {0} /\ WeightViews \in Nat
    BY DEF SettingsOK
  <2>3. ASSUME NEW w \in Nat \ {0}, NEW x \in Nat, NEW y \in Nat, x < y PROVE w * x < w * y
    BY <2>3
  <2> HIDE DEF a, b, c
  <2>4. WeightReviews * a < WeightReviews * b
    BY <2>1, <2>2, <2>3
  <2>5. WeightReviews * a \in Nat /\ WeightReviews * b \in Nat /\ WeightViews * c \in Nat
    BY <2>1, <2>2
  <2>6. WeightReviews * a + WeightViews * c < WeightReviews * b + WeightViews * c
    BY <2>4, <2>5
  <2> QED
    BY <2>6 DEF Activity, a, b, c
<1>5. /\ BayesTop(h) \in Nat /\ BayesBottom(h) \in Nat \ {0} /\ Activity(h, recent) \in Nat
      /\ BayesTop(h2) \in Nat /\ BayesBottom(h2) \in Nat \ {0} /\ Activity(h2, recent) \in Nat
      /\ WeightRating \in Nat
  BY <1>1, CountsType, ActivityType DEF SettingsOK
<1>6. (WeightRating * BayesTop(h) + 5 * BayesBottom(h) * Activity(h, recent)) * (5 * BayesBottom(h2))
          < (WeightRating * BayesTop(h2) + 5 * BayesBottom(h2) * Activity(h2, recent)) * (5 * BayesBottom(h))
  BY <1>3, <1>4, <1>5, MorePopular
<1>7. LessPopular(h, recent, h2, recent)
  BY <1>6 DEF LessPopular, PopularityTop, PopularityBottom, RATING_MAX
<1> QED
  BY <1>7 DEF h2

\* A counted view of the last days makes its location more popular, whatever its rating.
THEOREM ViewsHelp ==
    ASSUME SettingsOK, WeightViews # 0, NEW h \in Ratings, NEW recent \in Nat
    PROVE  LessPopular(h, recent, h, recent + 1)
<1>1. BayesTop(h) * BayesBottom(h) <= BayesTop(h) * BayesBottom(h)
  BY CountsType
<1>2. Activity(h, recent) < Activity(h, recent + 1)
  <2> DEFINE a == Log[recent + 1]
             b == Log[recent + 1 + 1]
             c == WeightReviews * Log[ReviewsCount(h) + 1]
  <2>1. recent + 1 \in Nat /\ recent + 1 + 1 \in Nat /\ recent + 1 < recent + 1 + 1
        /\ ReviewsCount(h) + 1 \in Nat
    BY CountsType
  <2>2. a \in Nat /\ b \in Nat /\ a < b
    BY <2>1 DEF SettingsOK
  <2>3. c \in Nat
    <3>1. Log[ReviewsCount(h) + 1] \in Nat /\ WeightReviews \in Nat
      BY <2>1 DEF SettingsOK
    <3> QED
      BY <3>1
  <2>4. WeightViews \in Nat \ {0}
    BY DEF SettingsOK
  <2>5. ASSUME NEW w \in Nat \ {0}, NEW x \in Nat, NEW y \in Nat, x < y PROVE w * x < w * y
    BY <2>5
  <2> HIDE DEF a, b, c
  <2>6. WeightViews * a < WeightViews * b /\ WeightViews * a \in Nat /\ WeightViews * b \in Nat
    BY <2>2, <2>4, <2>5
  <2>7. c + WeightViews * a < c + WeightViews * b
    BY <2>3, <2>6
  <2> QED
    BY <2>7 DEF Activity, a, b, c
<1>3. recent + 1 \in Nat
  OBVIOUS
<1> QED
  BY <1>1, <1>2, <1>3, MorePopular, CountsType, ActivityType
     DEF LessPopular, PopularityTop, PopularityBottom, RATING_MAX, SettingsOK

\* What ?min_rating= finds is a beginning of the list ordered by -avg_rating: a location
\* rated at least as well as one that is found is found, and one without reviews is not.
THEOREM FilterFindsBest ==
    ASSUME SettingsOK, NEW h \in Ratings, NEW h2 \in Ratings, NEW p \in Nat, NEW q \in Nat \ {0},
           RatedAtLeast(h, p, q)
    PROVE  /\ IsRated(h2) /\ RatingsSum(h2) * ReviewsCount(h) >= RatingsSum(h) * ReviewsCount(h2)
                  => RatedAtLeast(h2, p, q)
           /\ RatedAtMost(h2, p, q) /\ RatedAtLeast(h2, p, q)
                  => IsRated(h2) /\ RatingsSum(h2) * q = p * ReviewsCount(h2)
<1> DEFINE n == ReviewsCount(h)
           m == ReviewsCount(h2)
           x == RatingsSum(h)
           y == RatingsSum(h2)
<1>1. n \in Nat /\ m \in Nat /\ x \in Nat /\ y \in Nat
  BY CountsType
<1>2. n # 0 /\ x * q >= p * n
  BY DEF RatedAtLeast, IsRated
<1>3. ASSUME y * n >= x * m, m # 0 PROVE y * q >= p * m
  <2>1. ASSUME NEW a \in Nat, NEW b \in Nat, NEW k \in Nat, a >= b PROVE k * a >= k * b
    BY <2>1
  <2>2. q * (y * n) >= q * (x * m) /\ m * (x * q) >= m * (p * n)
    <3>1. y * n \in Nat /\ x * m \in Nat /\ x * q \in Nat /\ p * n \in Nat
      BY <1>1
    <3> QED
      BY <1>1, <1>2, <1>3, <2>1, <3>1
  <2>3. q * (y * n) = n * (y * q) /\ q * (x * m) = m * (x * q) /\ m * (p * n) = n * (p * m)
    BY <1>1
  <2>4. n * (y * q) >= n * (p * m)
    BY <1>1, <2>2, <2>3
  <2>5. ASSUME NEW a \in Nat, NEW b \in Nat, NEW k \in Nat \ {0}, k * a >= k * b PROVE a >= b
    BY <2>5
  <2>6. y * q \in Nat /\ p * m \in Nat
    BY <1>1
  <2> QED
    BY <1>1, <1>2, <2>4, <2>5, <2>6
<1>4. y * q >= p * m /\ y * q <= p * m => y * q = p * m
  <2>1. y * q \in Int /\ p * m \in Int
    BY <1>1
  <2> QED
    BY <2>1
<1> QED
  BY <1>3, <1>4 DEF RatedAtLeast, RatedAtMost, IsRated

\* Likes and dislikes are counted over one join, each vote in one of the two: together
\* they are the votes of the review.
THEOREM VotesAddUp ==
    ASSUME NEW votes, IsFiniteSet(votes), NEW pk, \A v \in votes : v.value \in {1, -1}
    PROVE  VotesFor(votes, pk, 1) + VotesFor(votes, pk, -1) = Cardinality({v \in votes : v.review = pk})
<1> DEFINE likes == {v \in votes : v.review = pk /\ v.value = 1}
           dislikes == {v \in votes : v.review = pk /\ v.value = -1}
           all == {v \in votes : v.review = pk}
<1>1. IsFiniteSet(likes) /\ IsFiniteSet(dislikes)
  BY FS_Subset
<1>2. likes \union dislikes = all /\ likes \intersect dislikes = {}
  OBVIOUS
<1>3. Cardinality(all) = Cardinality(likes) + Cardinality(dislikes) - Cardinality({})
  BY <1>1, <1>2, FS_Union
<1>4. Cardinality({}) = 0 /\ Cardinality(likes) \in Nat /\ Cardinality(dislikes) \in Nat
  BY <1>1, FS_EmptySet, FS_CardinalityType
<1> QED
  BY <1>3, <1>4 DEF VotesFor
=============================================================================
