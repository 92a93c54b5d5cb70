# Formal model of the Popular Places backend

The repository is a Django REST backend for a map of popular places: users add
locations, review them, vote on reviews, subscribe to locations and get emails
about new reviews. The public list and the map are cached in Redis, emails are
sent by a Celery worker, data lives in PostgreSQL.

There are no threads or locks in this code. What makes it hard is that no view
runs in a transaction of its own: **every request is a sequence of SQL
statements and Redis commands, and other requests, the worker, the
administrator and failures come between any two of them.** The modules here
model requests statement by statement, check them with TLC on small instances,
and prove the most important results with TLAPS for all instances.

## 1. Inventory

Paths are relative to `src/`. The environment every model assumes comes from
`config/settings/base.py`, `docker-compose.yml` and `docker/entrypoint.sh`:

- autocommit (no `ATOMIC_REQUESTS`); PostgreSQL at READ COMMITTED; the foreign
  keys Django declares are `DEFERRABLE INITIALLY DEFERRED`, checked at commit;
- gunicorn with several worker processes: requests run in parallel and a worker
  can be killed between any two statements;
- django-redis: `incr` is atomic and raises `ValueError` when the key is
  missing, `add` is `SET NX EX`; Redis may evict keys, lose them and be down. It
  is also Celery's broker;
- Celery's default early acknowledgement: a task taken by a worker that dies is lost.

| Component | State | Operations | Interacts with | What makes it hard, what makes it correct |
|---|---|---|---|---|
| List cache (`apps/locations/cache.py`, `signals.py`, list and map of `views.py`) | version key and pages in Redis | `get`, `set`, `_version`, `invalidate` in an `on_commit` hook | every write of Location, Review, Category | readers race invalidations; eviction, outage, crash after the commit. A hit must not be older than an invalidated change; stale pages must go |
| Reviews and votes (`apps/reviews`) | tables Review, ReviewVote | create, update, delete, vote, cancel a vote; the administrator's form | locations (soft deletion), list cache, email task | check-then-insert, saves of stale copies, a delete of two statements, two hooks after the commit |
| Review emails (`apps/notifications/tasks.py`, `recipients_for_review`) | task, its retries, messages sent | `send_new_review_emails` | reviews, subscriptions, SMTP | the data change between runs; retries repeat messages; lost tasks |
| Subscriptions (`apps/notifications`) | table LocationSubscription | subscribe, unsubscribe | locations, emails | check-then-insert; each answer must be true at one moment |
| Location views (`register_view`) | table LocationView, deduplication keys in Redis | GET of a location | list (popularity) | two stores without a transaction: key first, row later |
| Locations (`apps/locations`) | table Location | create, update, soft delete; admin: restore, delete, save of all fields | everything | soft-deleted rows survive in the tables; read-back after a write; admin saves a stale row |
| Categories (`apps/categories`) | table Category | create, update, delete | locations (PROTECT), list cache | slug check-then-insert; whole-row save of a stale copy; PROTECT against a concurrent create |
| Accounts (`apps/users`) | users, sessions, reset tokens (derived) | register, login, logout, reset request and confirmation | emails | case-insensitive checks without a constraint; a token checked before it is used up |
| Statistics and popularity (`selectors.py`) | none | two queries | reviews, votes, views | counts must not be multiplied by joins; a rating stays one without reviews |
| Filters, ordering, pagination | none | pure | lists | a total order, or pages overlap |
| Coordinates, bbox, export (`serializers.py`, `export.py`) | none | pure | map | rounding before or after the range check |
| Demo data (`seed_demo.py`) | users, categories, locations, reviews | fill, `--reset` | all tables, the cache | a reset of several transactions, two runs at once, rows added between what a delete reads and what it removes |
| Errors and permissions (`apps/common`) | none | statuses, `IsOwnerOrAdmin` | all views | a lost race is a 409, never a 500 |
| Settings, routing, migrations, containers | none | declarative | | not modelled |

## 2. Modules

| Module | Models |
|---|---|
| `ListCache` | the cache protocol: readers (list and map requests), writers (any request or admin action that saves and commits), Redis, TTL |
| `ListCacheProofs` | theorems about it |
| `Reviews` | create, update, delete, vote and cancel, and the administrator's forms, statement by statement, with the hooks after the commit, against soft deletion |
| `ReviewBoard` | abstract: what the clients of reviews and votes are promised; implemented by `Reviews` |
| `ReviewsProofs` | theorems about both |
| `ReviewEmails` | the email task with its retries |
| `ReviewEmailsProofs` | theorems about it |
| `Register` | abstract: what a client is promised by a resource with one row per user and location |
| `Subscriptions` | subscribe and unsubscribe; implements `Register` |
| `SubscriptionsProofs` | the proof of that |
| `LocationViews` | GET of a location: the deduplication key, then the row |
| `LocationViewsProofs` | theorems about it |
| `Catalogue` | locations and categories: API writes statement by statement, and the administrator's forms |
| `CatalogueProofs` | theorems about it, and about `Ordering`, `Coordinates` and `Statistics` |
| `Accounts` | registration, login, logout, sessions, the reset link, deactivation |
| `AccountsProofs` | theorems about it |
| `Ordering` | the order of the rows of a paginated list |
| `SeedDemo` | the demo data command, transaction by transaction, on a site in use |
| `SeedDemoProofs` | theorems about it |
| `Coordinates` | rounding and range of a coordinate, the box of a map request |
| `Statistics` | counts, ratings and popularity that the queries compute, the filters by rating |
| `MC*` | values for TLC: symmetry, staff, reviewers |

How state and actions correspond to the code:

**ListCache.** A page is abstracted to `age`, the number of committed changes
it shows; `db` counts commits, `signalled` is the newest change committed with a
signal (views and usernames have none), `invalidated` the newest one whose
`invalidate()` took effect. A
reader walks through `make_key` → `_version` (`ReadVersion`, `AddVersion`,
`ReadVersionAgain`) twice: for `get`, and after `Query` for `set`. So the second
version may differ from the first, which is what the code does. A writer is
`Save`, then `Commit` or `Rollback`, then `Incr`, and `Add` when the key was
missing. `CacheDown`, `InvalidateDown` and `AddDown` are the `except` branches,
and the one that is missing. `since[v]` remembers what had been signalled when
version `v` was set. `secrets.randbits(48)` and `incr` are modelled as a version
that was never in use: a collision of 48 random bits is not modelled.
`NoVersion` is the `None` that `_version` can return and `make_key` renders `vNone`.

**Reviews.** A request slot keeps the local variables of its view: the
operation, the review's key, the copy of the row a form was rendered with, the
votes its delete collected. `SweepVotes` and `RemoveReview` are the two statements of
`review.delete()`: the votes' rows stay locked between them, and requests that
need one of them wait. `RefreshCache` is the hook of `locations/signals.py`, which
runs at the commit of the row; `CacheOutage` is the error that `invalidate()` lets
through (see the findings); `Publish` queues the email, after the first hook, so
that an error of the first leaves the review without email. `Read` is the read-back
for the answer. `RejectBody` is `is_valid(raise_exception=True)`: of a
create before the location is looked up, of the others after the look-up.
`formCreate`, `formEdit` and `formDelete` are the administrator's: `ValidateForm` is the form sent back, `SaveForm` the save of the whole row, an
UPDATE or, when the row is gone, an INSERT. Two sets are history: `hidden`, the
requests for what was hidden when they came and ever since, and `shaken`, those
that met an outage or during which another request changed what they are about.

**ReviewBoard.** The same tables, but a request has three moments only: it is admitted
or rejected (`Admit`, `Reject`), it takes effect or is refused (`Create` ... `Unvote`,
`Refuse`), it is answered (`Confirm`, `Fail`, `Lose`). `Malformed` is the 400 of
what was sent, which of a create comes before admission. The refinement mapping is
`Calls`: a request is pending until its look-up (`location`, `review`), effective
after its commit (`cache`, `publish`, `read`), admitted in between. So the
exists() check of a create that goes on, the sweep of the votes, the validation of
a form and the hooks are invisible, and `RemoveReview` is the deletion of a review with
all of its votes. Permission and existence are those of the moment of admission: the code
does not look again, and the board does not promise it. Unvote is answered
by its effect, as there is no read-back.

**SeedDemo.** A row holds the rows it refers to, so a dangling reference is a row
that is in no table. A reset is three `delete()`s, each a step that reads
(`CollectLocations`, `CollectCategories`, `CollectUsers` with the `Cascade`) and a
step that removes (`Remove`, whose commit checks the foreign keys); then the fill,
one transaction: `CreateUsers`, `GetCategories`, and `Commit`, which shows
everything at once. Who inserts a username or a slug the open fill has inserted
waits for it (`HoldsNames`, `HeldSlugs`). The site goes on meanwhile: `Register`,
`AddCategory`, `RenameCategory`, `RemoveCategory`, `AddLocation`, `AddReview`. A category
can be renamed between the step that reads it and the one that removes it or refers to
it, so its record is a key only, the name it was inserted with and the count, and
`nameOf` has the name it has now; `got` are the categories a fill found, with the names
they had. `alone` and `wasDemo` are history: that nothing
else has happened since the run started, and which categories have had a demo name
since the delete of a run has read them. A run that ends with the cache
unavailable after the commit is a killed run.

**ReviewEmails.** One task per review: published, taken, loaded (reload of the
review, `Load`), recipients collected, connection, one `Deliver` per message.
`Retry` is what an `SMTPException` leads to, `Drop` the same with the broker down, when
Celery's `Task.retry` cannot publish the repetition and rejects the task; `OtherError` is
any exception that `autoretry_for` does not name, at any step of a run: of the
database, a title that makes no header, a server that does not listen. `SaveBack` and
`Restore` are the administrator's forms, which insert a deleted review again and clear
`is_deleted` of the location, also while a run is under way. `Recipients` is the loop of
`recipients_for_review` and `Consider` one turn of it; the query has no
`order_by` of its own, but `Meta.ordering` makes it the newest subscriptions first:
which user subscribed when is left out, so `Collect` takes any order of the subscribers.
Wording, plain text and links are left out.

**Subscriptions / Register.** `Send`, `GetLocation`, `Check`, `Insert`, `Delete`
are the statements of the view. `Remove` deletes the row of a user or a location, with
its subscriptions: an insert under way then fails with an IntegrityError that is no
duplicate, and is a 500. The refinement maps rows to members and a
request to a call that is pending until it is answered.

**LocationViews.** `AddKey` is `cache.add`, `InsertView` the insert that
follows, `Detail` the read-back. Time is a counter of ticks; `expires[v]` is the
end of a key's TTL. `rows` is a bag, so that two rows of one viewer and moment
would show.

**Catalogue.** A row of each table is a record of the fields that matter: a
category's name and slug, a location's author, category, title and
`is_deleted`. A request carries the `patch` its client named and, where the code
saves a whole row, the `copy` it read: `SaveCategory` (`Model.save()` of every
column, or an INSERT when the row is gone) and the administrator's form: `OpenForm`
renders it, `ReadForm` reads the row again and validates what was sent back, `SaveForm`
saves it, again as an INSERT when the row is gone. `UpdateLocation` and `SoftDelete` write the named columns of the row as it
is. `CollectLocations` and `RemoveCategory` are Django's PROTECT and the DELETE
with the deferred foreign key that comes after it. `SkipValidation` is the
administrator's form for a category, which has no `validate_name`.

**Accounts.** A password is the number of its hash. A session keeps the hash of
the user `login()` was given, a link the hash and the `logins` (for `last_login`) its
token is derived from; `SessionUser` and `TokenFits` compare them with the row.
`CheckName`, `CheckEmail`, `InsertUser` are registration, `CheckPassword`,
`SaveLogin`, `OpenSession` a login, `CheckLink` and `SavePassword` a
confirmation. `resets`, `knew`, `then` and `uses` are history for the properties.
`Fold` is the case folding of `iexact`.

**Ordering.** A row is its pk, a value an integer or `Null`; the columns of the
rows are a constant. `Expressions` is the list `StableOrderingFilter` hands to
`order_by`: the terms of `?ordering=`, or the default of the view, then the pk
unless it was named. `Less` is one expression with NULLS LAST, `Before` PostgreSQL's
`ORDER BY` with them. A view without a default (`CategoryViewSet`) may leave the
filter without terms; then `Meta.ordering` applies, by the name of the category,
which is as unique as its slug. A paginated list whose rows change between two
pages may still repeat or skip one: the pages are separate queries.

**Coordinates.** Numbers are counted in units of the last digit a client sends,
`Grain` of which are one unit stored. `Quantize` is `quantize()` with
`ROUND_HALF_UP`; what it returns is what `Fits` (`max_digits`) and `Accepted`
(`min_value`, `max_value`) look at. `ValidBox` is `validate_bbox`, `InBox` the
filters of the map.

**Statistics.** The averages read of a location's reviews only how many there are of
each rating: a function `h` from stars to numbers. Fractions are numerator and
denominator, the settings multiples of `1/Unit`, the logarithm any growing
function `Log` in whole units; doubles are the numbers they stand for. `CountOf` is a
correlated count.

## 3. Runs

All runs take `-workers 2` and finish within five minutes.

| Run | Question | Bounds |
|---|---|---|
| `cache` | Is a cached answer fresh, is a new version empty, do stale pages go? | 1 reader, 2 writers, 2 changes, 2 fresh versions after evictions, all faults |
| `cache_straddle` (violated) | Is every page older than an invalidated change unreachable? | symmetric readers and writers |
| `cache_outage` (violated) | Does a cache outage never fail a request? | the same |
| `reviews` | Stale saves, resurrection, 404 of hidden objects, publication, causes of server errors | 2 requests (create, update, delete, the form that creates), an author and an administrator, 1 review, soft deletion, restoring, outages of cache and broker, crash |
| `reviews_tables` | Unique and foreign keys under races; causes of server errors; is every request atomic to its client? does waiting for locks end? | 2 requests (create, vote, cancel, the forms that edit and delete), 2 reviews, 2 locations |
| `seed_demo` | Is the demo data one batch, what does a reset keep, and repair? | 2 commands, the administrator and one demo user, 1 demo category and another one of the same slug, 2 demo locations, 4 insertions, 1 visitor; any renames; 1.9 million states, 2-3 minutes |
| `emails` | Who gets how many messages about what? | 1 review, 3 users, 3 retries, 4 SMTP errors, deleted and brought back any number of times |
| `subscriptions` | Is every request linearizable? | 3 requests, 2 users, 1 location, each of which may be removed |
| `location_views` | Is a viewer counted once per period, and not lost? | 3 requests of 1 viewer, TTL 2, 4 ticks, 2 rows |
| `catalogue` | Do references and slugs hold, does no API write undo another? | 2 requests, a user and an administrator, 3 names with 2 slugs, 2 categories, 1 location |
| `accounts` | What does a reset end, what may concurrent registrations create, who activates? | 2 requests, 2 users of 3 forms (twins in name or email), 3 hashes, 2 sessions, 1 link |
| `accounts_link` (violated) | Does a link set a password once? | 2 requests, 1 user, 1 link |

Why the bounds are enough. The properties of `ListCache` speak of one answer and
the changes before it; two changes suffice for one that overtakes another, two
writers for an invalidation inside another, and two evictions for the `None` of
`_version`. A second reader matters as another source of pages under a version;
the theorems below cover any number. In `Reviews` two requests are what a race
needs (a stale copy, a lost check, a vote inside a delete, a form saved over
another request's write). A third vote request changes who waits, not what is
read; `ReviewsProofs` covers any number. In `SeedDemo` two commands are what a race
needs, two demo locations what half a batch needs, and four insertions a first fill,
something of the site, and two more fills. In `ReviewEmails` one SMTP error more than
the retries is what makes the task fail. In `LocationViews` keys of different
viewers or locations share nothing, so one viewer suffices, and three requests
let one win, one lose and one win again after the expiry while the first has not
inserted its row yet. Four ticks hold two periods of TTL 2.
In `Catalogue` a race is one check and one write that comes between it and what
it was for: two requests, over two categories, so that a location can move and
two slugs can meet. In `Accounts` one link and two sessions suffice for a
confirmation, or a login, that overtakes another; a reset by a second link only
repeats the change of the hash. Deactivation needs no request slot. `CHECK_DEADLOCK
FALSE` is set where the bounds stop the model: no more ticks, changes or reviews.

Properties, by what they protect:

- **ListCache** `HitIsFresh`: a hit contains every change whose invalidation took
  effect before the request came. Exactly two kinds of page escape, and the
  property names them: a page that was out of date when its reader looked up the
  version to store it under, and a page under `vNone`. `NewVersionIsEmpty` is what
  the comment on `_initial_version` asks for. `EventuallyFresh`: when changes
  stop, pages that do not show them disappear, even if the invalidation was lost.
- **Reviews** `DeletedStaysDeleted`, `NoLostUpdate`: what `update_fields` is for.
  `TablesConsistent`: the exists() checks race; the constraints decide.
  `ImplementsBoard`: no sequence of statements shows through. A request takes effect
  once or, with a client error, not at all, and the answer fits what the tables were
  at that moment; a new review has a key no review had; a review and its votes go at
  one moment. The run has no update, no delete of the API and no soft deletion; the
  theorem has them all.
  `HiddenMeans404`: what was hidden when a request came, and ever since, is a 404; a
  create with an invalid body is the exception, as it is refused with a 400 before its
  location is looked up. `CreatedMeansQueued`, `AlwaysAnswered`. `ErrorsHaveCause`: a
  server error is always due to an outage or to another request that changed the
  same rows while this one ran; what was gone before is a 404, what was taken
  before a 409.
- **SeedDemo** `OneWholeBatch`: neither a reset that stops half-way nor two runs at
  once leave part of a batch or parts of two. `ReferencesHold`: deletes remove what
  they read some time before. `OthersKept`: what a reset may remove. Of categories that
  is not those with a demo name when they go, but those that had one at some time since
  the delete read them: one that an administrator renames in between is deleted by
  its key.
  `AloneResetRenews`: an undisturbed `--reset` ends with a batch of its own,
  whatever earlier runs left.
- **ReviewEmails** `EachInterestedOnce`: the loop collects whom the docstring names,
  once each, a location author who is subscribed included. `OneMessagePerRun`:
  an error may follow messages that went out, and the repeated run writes to all
  again, but not more than once. `OnlyToTheInterested`, `NothingAboutTheDeleted`: the
  task reads again what the request that published it has read, so a run that was taken
  after a deletion is silent until the review or the location is brought back.
  `EveryRecipientServed`: the retries suffice for `max_retries` SMTP errors, and
  nothing loses a message but the exceptions it names: a lost worker, a broker that
  does not take the repetition, an exception that is no `SMTPException`.
- **Subscriptions** `ImplementsRegister`: also that a server error means a removed user or
  location, and changes nothing.
- **LocationViews** `AtMostOncePerPeriod`: rows of a viewer were won a TTL apart
  unless Redis lost the key. `KeyMeansView`: a key is never without its row, but
  while the winner is about to insert it or if the winner was killed.
- **Catalogue** `LocationsHaveCategories`: the serializer's check and PROTECT both
  race; the foreign key decides. `SlugsIdentify`: through renames, whole-row
  saves and re-inserted rows. `OnlyNamedFieldsChange`: an edit that read the row
  before a DELETE does not bring the location back, nor undoes another edit.
- **Accounts** `ResetEndsSessions`: also that of a login which compared the old
  password while the new one was saved. `ResetEndsLinks`: a later request with an
  earlier link is refused. `TwinsWereConcurrent`: users whose names or emails differ
  in case only registered at the same time. `OnlyAdminActivates`: a reset does
  not write back an `is_active` it read before.

Every property of a passing run is broken by a mutant of a definition it rests
on (`PROJECT.json`, `mutants`), for instance a predictable restart of the
version, a `save()` without `update_fields`, `cache.set` in place of `cache.add`.

### Fairness

- `ListCache`: a reader finishes its request, and entries expire at their TTL.
  Nothing is assumed of writers, evictions or Redis: an outage may last for ever.
- `Reviews`: a request that is being served goes on. This is strong fairness of
  its steps, because PostgreSQL queues those who wait for a row lock: whose turn
  comes again and again is not passed over for ever. Arrivals are not fair.
- `ReviewEmails`: the worker consumes its queue and goes on with what it took.
  SMTP errors, crashes and deletions are not fair.
- `Subscriptions`, `LocationViews`, `Catalogue`, `Accounts`, `SeedDemo`: safety only.

### Findings

1. `cache_straddle` (`apps/locations/views.py:53`): a reader that queried before
   a commit stores its page after the invalidation under the *new* version,
   because `set` looks the version up only then. `signals.py:8` says that this
   must not happen; the page stays for its TTL.
2. `cache_outage` (`cache.py:63`): the `cache.add` inside `except ValueError` is
   not covered by the `except Exception` next to it. An outage between the two
   commands fails a request whose change is committed. `cache.py:8` says that an
   outage never breaks the API.
3. `accounts_link` (`apps/users/serializers.py:82`): two confirmations with one
   link that both check its token before either saves its password both succeed;
   the repository's README says that the token is single-use.

Seen while modelling, part of the models, not findings of a run of their own:

- `cache.py:63`: the `add` of an invalidation that finds the key missing does
  nothing when a reader's `add` came first, and pages this reader computed before
  the change stay reachable until their TTL (the page "straddles" its version).
- `cache.py:34`: the key evicted between `add` and the second `get` gives the
  version `None`; pages under `vNone` outlive every invalidation.
- `reviews/views.py:24`: the read-back after a committed write raises `DoesNotExist`
  when the location was soft-deleted, or the review deleted, meanwhile: a 500
  although the write stays. It is one of the causes `ErrorsHaveCause` allows.
- `reviews/admin.py:13`: the form writes back every field as it was rendered: a PATCH
  committed meanwhile is undone, and a review deleted between the validation and
  the save is inserted again. `DeletedStaysDeleted` and `NoLostUpdate` name the form as
  the one exception.
- `seed_demo.py:182`: demo users are known by their names only. Whoever registered as
  "olena" before is deleted by `--reset` with all locations and reviews, and makes
  a first run without `--reset` fail.
- `seed_demo.py:199`: when the slug of a demo category belongs to a category of
  another name, a `--reset` fails in its fill, after everything was deleted.
- `seed_demo.py:155`: a reset killed after its first `delete()` leaves the
  administrator; a plain run then says that the demo data are there.
- `selectors.py:63`: a bad review can raise the popularity of a location, when the
  growing count outweighs the falling rating (`GoodReviewsHelp` says when not).
- `reviews/services.py:48`: a vote that commits between the two statements of a
  delete makes the deferred foreign key fail at the commit: the delete is a 500
  and the review stays. `TablesConsistent` holds because of this.
- `reviews/services.py:30`: with the broker down after the commit, the review is
  kept, the request is a 500 and nobody is ever written to about it.
- `seed_demo.py:184`: a category that is renamed between the query of `delete()` and its
  removal is deleted under its new name: `OthersKept` names the case.
- `notifications/tasks.py:13`: with the broker down the repetition of a failed task cannot
  be published, and the task is dropped with retries left.
- `notifications/tasks.py:13`: `ConnectionRefusedError` is no `SMTPException`; a
  task that cannot connect fails without a retry.
- `locations/services.py:56`: a request that lost `cache.add` to another of the
  same viewer can be answered before that one inserted its row; the comment at
  `views.py:105` ("already includes the current view") is true of the winner.
- `categories/models.py:31`: the whole-row save undoes an edit of another
  administrator that committed since the row was read, and inserts the row again
  when it was deleted meanwhile.
- `categories/admin.py:6`: the form does not check the slug, so a duplicate is a
  500 there; the same race through the API is documented at `serializers.py:17`.
- `locations/admin.py:7`: saving the form writes back every field as it was
  rendered, `is_deleted` included: a location deleted meanwhile comes back.
- `locations/services.py:19`, `:32`, and the DELETE of a category: when a location
  and the deletion of its category pass each other's checks, the foreign key turns
  the second into a 500.
- `users/serializers.py:34`, `:40`: no constraint stands behind the `iexact`
  checks: two registrations at once can share an email, or a username up to
  case; with the same username the second is a 500.

## 4. Proofs

Checked by `tlapm`, for every value of the constants that satisfies the named
assumptions of the modules.

**`ListCacheProofs`**

- `TypeCorrect`: `Spec => []TypeOK`.
- `CachedAnswersAreFresh`: `Spec => []HitIsFresh`.
- `VersionsStartEmpty`: `Spec => NewVersionIsEmpty`.

`HitIsFresh` is not inductive: nothing in it says where a page came from. The
inductive invariant adds `HistoryOK` (`invalidated <= signalled <= db`),
`VersionOK` (the current version is the last one set, and it was set after every
invalidation that took effect: `invalidated <= since[version]`), `WriterOK` (a
writer about to `add` whose key was set by somebody else meanwhile finds its own
change contained in `since[version]`), `PageOK` (a page under a version, unless
it straddles, shows at least what was signalled when the version was set) and
`ReaderOK` (the same of what a reader carries between its commands). A hit then
shows `since[ver]`, which bounds what was invalidated before the request came.
That no page lies under a version not yet set (`e.ver <= Len(since)`) gives
`VersionsStartEmpty`.

**`SubscriptionsProofs`**

- `SubscriptionsImplementRegister`: `Spec => ImplementsRegister`. The initial
  states map to the initial state of `Register`; `GetLocation` and `Check` map to
  stutters, or to the answer they give; `Insert` and `Delete` to `Add` and
  `Remove`; `Kill` to `Lose`. The invariant that makes the last step go through
  is `OpOK`: a request at `check` or `insert` is an "add", one at `delete` a
  "remove"; and `GoneOK`: a removed location is not among those that are alive.

**`CatalogueProofs`**

- `TypeCorrect`: `Spec => []TypeOK`.
- `ReferencesHold`: `Spec => []LocationsHaveCategories`.
- `SlugsAreUnique`: `Spec => []SlugsIdentify`.
- `FieldsAreNamed`: `Spec => OnlyNamedFieldsChange`.

The two invariants say nothing of the requests that are about to write, so the
inductive invariant adds `RequestsOK`: a request that saves a category carries a
category and a patch of one, a form carries a location, an edit a patch of one.
Of a form that is to be saved it says that its key was given (`FormKeys`), as the row
may be inserted again. With it `PatchedCategory` and `PatchedLocation` give the type of every row
written, and `SavedCategory` the slug. References hold by the guards of the writes
themselves (the foreign key), not by the checks before them. Slugs are kept by
`PutKeepsSlugs`, whichever row, new or old, is put into the table.

The same module holds the theorems about the functions of `Ordering`, `Coordinates`
and `Statistics`, which have no state and so no run:

- `OrderIsTotal`: no row comes before itself, and of two different rows one comes
  before the other, whatever values they share. `OrderIsTransitive`, `NullsAreLast`.
- `AcceptedIfNear`: a coordinate is accepted exactly if it is less than half a
  stored unit outside the range (90.0000004 is, as 90). `RoundingKeepsOrder`,
  `StoredStays`.
- `BoxFinds`: a box whose borders are on the stored grid finds what was sent from
  inside it. With finer borders this is not so: rounding can carry a location over
  the border. `WorldFindsAll`.

Assumed of the rows is `RowsOK`: keys and values are integers, `Null` is not one.
If two rows differ, their keys do, and the pk is one of the expressions, so the set
of expressions that tell them apart is not empty; its least one (`LeastIndex`, from
the well-foundedness of `<`) decides. Of the coordinates `DigitsOK` is assumed:
180 degrees have no more digits than the column. `Rounding` bounds the rounded
number from both sides, and multiples of `Grain` less than `Grain` apart are
ordered as their factors (`Factors`).

- `ReviewsPull`, `BayesIsRating`: a review moves the Bayesian rating towards its
  stars, which stays between 1 and 5. `GoodReviewsHelp`, `ViewsHelp`: what makes a
  location more popular. `FilterFindsBest`: the filters by rating and the order by
  rating agree. `VotesAddUp`: the likes and dislikes counted over one join.

Assumed is `SettingsOK` (weights are not negative, that of the prior is positive,
which the code enforces, the logarithm grows) and, where the statement says so,
`PriorIsRating`. A product of sums is out of the solver's reach; `Mixed` and
`MorePopular` state the two inequalities about plain numbers.

**`ReviewsProofs`**

- `TypesHold`: `Spec => []TypeOK`. `TablesStayConsistent`: `Spec => []TablesConsistent`.
- `CreatedReviewsAreQueued`, `HiddenIsNotFound`, `EveryErrorHasItsCause`: the other
  three invariants. `DeletedReviewsStay`, `UpdatesAreKept`: the action properties.

The inductive invariant is `IInv`, the conjunction of `TypeOK`, `TablesConsistent` and:
`Shapes` (what a request carries at each of its steps: a form a whole row, a delete
votes of its own review, everybody a key that was given), `RoomOK` (the creates
under way fit under `MaxReviews`, which is why a key stays in its type), `Queued`
(a create that reads back, or was answered 201, has its task) and `Histories`. The
last one is what `HiddenMeans404` and `ErrorsHaveCause` need: of a request that is
`hidden`, that the object is still hidden and the request has not passed its
look-up (a create with an invalid body ends there); of one that is not `shaken`, that what it found is still so: the review it
read exists and is visible, the pair of author and location that a form is about to save is free (a create
of the API that loses it answers 409), and a delete in progress has collected all
the votes there are.

- `ReviewsImplementBoard`: `Spec => ImplementsBoard`.

Each action of `Reviews` has a lemma: it is an action of `ReviewBoard` or leaves the
calls and the tables alone (`CallBecomes`, `LiveCall`, `AnswerEnds` say what it makes of
the calls). The shapes tell which operation is at a step. One more invariant is
needed, `SweptOK`: the votes a delete has swept are those of its review. With the
commit's condition, that none is left, the two statements are one deletion of the review
and exactly its votes.

**`LocationViewsProofs`**

- `TypesHold`: `Spec => []TypeOK`.
- `CountedOncePerPeriod`: `Spec => []AtMostOncePerPeriod`.
- `KeysMeanViews`: `Spec => []KeyMeansView`.

A view is inserted some time after the request won the key, so the rows alone do not
tell what may be inserted next. `Spaced` speaks of the rows and of the winners that
have not inserted yet together: of a viewer whose key was never lost, any two of them
were won at least `TTL` apart, each row is there once, and none was won later than the
period of the key (`won + TTL <= expires`). A new winner finds no key, hence
`expires <= now`, and is `TTL` away from all of them; an insertion only turns a winner
into a row.

**`SeedDemoProofs`**

- `RowsKeepTheirReferences`: `Spec => []ReferencesHold`.
- `BatchIsWhole`: `Spec => []OneWholeBatch`.
- `WhatIsNotDemoIsKept`: `Spec => OthersKept`.
- `AloneResetsRenew`: `Spec => AloneResetRenews`.

The inductive invariant follows a batch through the removals of several runs.
`OneFill`: one fill at a time holds the demo names, and nobody has one meanwhile (the
unique usernames), so a fill that commits finds no other batch. `WholeBatch`: the
demo locations, if any, were inserted together, with every title, every demo user and
the right authors. `AllGone`: what a run has collected, however long ago, is all of
the present batch or nothing of it (of its locations, and of its users), and only what
is the demo users'. A removal of the users alone would break the batch, and is
refused because locations still refer to them: so the removals keep `WholeBatch`.
`AloneOK` is about a reset that nothing disturbs: at each step, that what it collected
is exactly what there is, and that what it removed before is gone for good. Then no
removal meets a reference, and no fill a taken name.
`CategoriesOld`: no category has the key of an insertion still to come, so a new one never
takes the place of one that a fill has found or a delete has read. For `OthersKept`,
`DemoGone`: the categories a run is about to remove are among those that had a demo name
since it read them, whatever they have been renamed to.

**`AccountsProofs`**

- `ResetsEndSessions`: `Spec => []ResetEndsSessions`.
- `ResetsEndLinks`: `Spec => []ResetEndsLinks`.
- `TwinsAreConcurrent`: `Spec => []TwinsWereConcurrent`.
- `ActivityIsKept`: `Spec => OnlyAdminActivates`.

The properties speak of answers; what they rest on is `OfUser`: whoever holds the
present hash of a user has seen all the resets of that user. `SessionsOK` says it of
the sessions, `LinksOK` of the links sent, `LoginOK` of the requests that compared a
password and have not saved their session yet. It survives a reset because a new hash
is one that nobody holds (`UsersGrow`). `MeOK` and `ConfirmOK` relate the resets at the
arrival of a request to those that the session or the link it uses has seen;
`RegisterOK` says that a registration past a check differs, up to case, from every
user who was there when it came. `RowsOK` and `RequestsOK` are the conjunction,
`TypesHold` its part about types.

**`ReviewEmailsProofs`**

- `TypesHold`: `Spec => []TypeOK`.
- `LoopCollectsEachOnce`: `Spec => []EachInterestedOnce`.
- `OneMessageEachRun`: `Spec => []OneMessagePerRun`.
- `MailReachesInterested`: `Spec => []OnlyToTheInterested`.
- `DeletedAreSilent`: `Spec => NothingAboutTheDeleted`.

The loop is a function of the number of turns. That it has the values its
definition gives (`TurnsExist`), and that after `n` turns the recipients
are the interested among the first `n` candidates, none of them twice
(`TurnsCollect`), is induction over `n`, done without the library's induction theorems:
if it failed for some number of turns there would be a least one (`LeastNumber`), and it is
neither 0 nor the successor of one for which it holds.

The inductive invariant relates the messages sent to those still to be sent.
`TasksOK`: a run that is sending has somebody to write to, names nobody twice, and
names only people wanted since the publication, never the reviewer. `MailsOK`:
after `n` retries a user has at most `n + 1` messages, at most `n` if this run has not written
to him yet (he is in `todo`, or the run has not collected), which is what lets a message
that went out before an error be repeated once, and only once, by the next run. For
`NothingAboutTheDeleted` it says that a run marked `late` is of a review that is still
gone, and has no recipients: `Load` found nothing, or will find nothing. A form that brings
the review or its location back takes the mark away.

What stays with TLC: liveness (`EventuallyFresh`, `AlwaysAnswered`,
`EveryRecipientServed`), which needs fairness and ENABLED. Every safety property of
the passing runs is a theorem.

## 5. Not modelled, and why

- Settings, routing, migrations, containers: declarative; read for the environment.
- The text of messages, serialization, OpenAPI schema, export format: formatting.
- Filters by equality and page sizes: pure lookups. Of `SeedDemo`: the votes and
  views of a fill, the edits of locations and reviews on the site and their deletion, soft
  or hard, by others; users who are renamed and rows that get another author, which only
  the administrator's forms can do. Of
  coordinates: infinities, NaN and the length of the text.
- In `Catalogue`: `deleted_at` (nothing reads it), descriptions, coordinates. In
  `Accounts`: CSRF tokens, the strength of passwords, the three days after which
  a token expires, users edited or removed by an administrator otherwise than
  through `is_active`.
- In `Reviews`: the votes an administrator can edit inside the form of a review;
  `created_at` and `updated_at`; the removal of the rows of users and locations by an
  administrator, with all that refers to them (`Subscriptions`, `LocationViews` and
  `Catalogue` have it, of their tables). What the cache hook does to the cache is
  `ListCache`, what a published task sends is `ReviewEmails`: a larger product of the
  three would check nothing that the order of the hooks in `Reviews` does not.

## 6. Plan

Modelled and checked so far: the modules above, in the order of the table. Every
safety property that a passing run checks is proved for every value of the constants.

To add: an abstract specification of sessions and passwords that `Accounts` implements
(what ends a session, and nothing else does); the same for `Catalogue`.
