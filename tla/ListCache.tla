----------------------------- MODULE ListCache -----------------------------
(***************************************************************************)
(* The versioned Redis cache of the location list and map                  *)
(* (src/apps/locations/cache.py), the two views that read through it       *)
(* (LocationViewSet.list and .map) and the model signals that invalidate   *)
(* it after a commit (src/apps/locations/signals.py).                      *)
(*                                                                         *)
(* A reader is a GET request in one of the gunicorn workers, a writer a    *)
(* request (or an admin action) that saves or deletes a Location, a Review *)
(* or a Category.  Every call on the cache and every query is one step, so *)
(* requests interleave between them.  What the list shows is abstracted to *)
(* the number of changes it contains: db counts the committed changes, and *)
(* a page computed when db = n has age n.  The list view counts, then      *)
(* selects; its page is as old as the older of the two, so one step stands *)
(* for both queries.                                                       *)
(*                                                                         *)
(* Version numbers: a 48-bit random restart value is assumed never to hit  *)
(* a number in use, so a drawn or incremented version is the next number   *)
(* that was never used; 0 stands for a missing key, which make_key renders *)
(* as "vNone".                                                             *)
(***************************************************************************)
EXTENDS Integers, Sequences

CONSTANTS
    Readers,      \* requests for the list or the map
    Writers,      \* requests that change what the list shows
    Queries,      \* the cached (kind, query string) combinations
    MaxChanges,   \* bound on the committed changes
    MaxVersions,  \* the version key is evicted only while fewer exist
    Faults        \* the faults that can happen

ASSUME FaultsAssumption == Faults \subseteq {"outage", "eviction", "crash"}
ASSUME BoundsAssumption == MaxChanges \in Nat /\ MaxVersions \in Nat
ASSUME QueriesAssumption == Queries # {}

VARIABLES
    db,           \* changes committed to PostgreSQL
    signalled,    \* history: the newest change committed with a signal
    invalidated,  \* history: the newest change whose invalidate() took effect
    redisUp,      \* FALSE: every cache call raises a connection error
    version,      \* the value of VERSION_KEY, NoVersion when missing
    since,        \* history: since[v] = signalled when version v was set
    pages,        \* the entries under locations:list:v*
    reader,       \* the state of each list or map request
    writer        \* the state of each writing request

vars == <<db, signalled, invalidated, redisUp, version, since, pages, reader, writer>>
dbVars == <<db, signalled>>
redisVars == <<redisUp, version, since, pages>>

NoVersion == 0
Entry == [ver : Nat, query : Queries, age : Nat, straddled : BOOLEAN]

CacheSteps == {"version", "add", "again", "key"}
ReaderState == [step : CacheSteps \union {"idle", "query", "hit"},
                phase : {"get", "set"}, query : Queries, ver : Nat,
                age : Nat, straddled : BOOLEAN, start : Nat]
WriterState == [step : {"idle", "saved", "incr", "add", "error"}, change : Nat]

IdleReader == [step |-> "idle", phase |-> "get", query |-> CHOOSE q \in Queries : TRUE,
               ver |-> NoVersion, age |-> 0, straddled |-> FALSE, start |-> 0]
IdleWriter == [step |-> "idle", change |-> 0]

Init ==
    /\ db = 0 /\ signalled = 0 /\ invalidated = 0
    /\ redisUp = TRUE
    /\ version = NoVersion /\ since = <<>> /\ pages = {}
    /\ reader = [r \in Readers |-> IdleReader]
    /\ writer = [w \in Writers |-> IdleWriter]

-----------------------------------------------------------------------------
(* The version key.                                                        *)

\* Mutants of InitialVersion: a predictable restart; a number that is not the next.
InitialVersionOne == 1
InitialVersionAhead == Len(since) + 2

\* secrets.randbits(48): a number no page was ever stored under.
InitialVersion == Len(since) + 1

Install(v) == version' = v /\ since' = Append(since, signalled)

\* cache.add: sets the key only when it is missing.
CacheAdd ==
    IF version = NoVersion THEN Install(InitialVersion) ELSE UNCHANGED <<version, since>>

-----------------------------------------------------------------------------
(* A list or map request: get, on a miss query the database, then set.     *)
(* Both get and set go through make_key, hence through _version.           *)

ReaderAt(r, step) == redisUp /\ reader[r].step = step

\* The view calls list_cache.get; start remembers what was invalidated by then.
Start(r, q) ==
    /\ reader[r].step \in {"idle", "hit"}
    /\ reader' = [reader EXCEPT ![r] =
           [IdleReader EXCEPT !.step = "version", !.query = q, !.start = invalidated]]
    /\ UNCHANGED <<dbVars, invalidated, redisVars, writer>>

\* History: a signalled change was committed since r computed the page it stores.
Straddled(r) == reader[r].phase = "set" /\ reader[r].age < signalled

\* make_key has its version.
Obtain(r) ==
    reader' = [reader EXCEPT ![r] =
        [@ EXCEPT !.step = "key", !.ver = version, !.straddled = Straddled(r)]]

\* _version: the first cache.get of the key.
ReadVersion(r) ==
    /\ ReaderAt(r, "version")
    /\ IF version = NoVersion
       THEN reader' = [reader EXCEPT ![r].step = "add"]
       ELSE Obtain(r)
    /\ UNCHANGED <<dbVars, invalidated, redisVars, writer>>

\* _version: cache.add of an initial version.
AddVersion(r) ==
    /\ ReaderAt(r, "add")
    /\ CacheAdd
    /\ reader' = [reader EXCEPT ![r].step = "again"]
    /\ UNCHANGED <<dbVars, invalidated, redisUp, pages, writer>>

\* _version: the second cache.get; its result is used unchecked.
ReadVersionAgain(r) ==
    /\ ReaderAt(r, "again")
    /\ Obtain(r)
    /\ UNCHANGED <<dbVars, invalidated, redisVars, writer>>

\* The entry of the key is there: the view answers with it.
Hit(r) ==
    /\ ReaderAt(r, "key") /\ reader[r].phase = "get"
    /\ \E e \in pages :
        /\ e.ver = reader[r].ver /\ e.query = reader[r].query
        /\ reader' = [reader EXCEPT ![r] =
               [@ EXCEPT !.step = "hit", !.age = e.age, !.straddled = e.straddled]]
    /\ UNCHANGED <<dbVars, invalidated, redisVars, writer>>

Miss(r) ==
    /\ ReaderAt(r, "key") /\ reader[r].phase = "get"
    /\ ~ \E e \in pages : e.ver = reader[r].ver /\ e.query = reader[r].query
    /\ reader' = [reader EXCEPT ![r].step = "query"]
    /\ UNCHANGED <<dbVars, invalidated, redisVars, writer>>

\* The page is computed from the committed rows; set() starts with make_key.
Query(r) ==
    /\ reader[r].step = "query"
    /\ reader' = [reader EXCEPT ![r] =
           [@ EXCEPT !.step = "version", !.phase = "set", !.age = db]]
    /\ UNCHANGED <<dbVars, invalidated, redisVars, writer>>

\* cache.set under the key of the version that make_key read.
Store(r) ==
    /\ ReaderAt(r, "key") /\ reader[r].phase = "set"
    /\ pages' = {e \in pages : e.ver # reader[r].ver \/ e.query # reader[r].query}
                \union {[ver |-> reader[r].ver, query |-> reader[r].query,
                         age |-> reader[r].age, straddled |-> reader[r].straddled]}
    /\ reader' = [reader EXCEPT ![r] = IdleReader]
    /\ UNCHANGED <<dbVars, invalidated, redisUp, version, since, writer>>

\* A cache call raised: get() reads as a miss, set() is skipped.
CacheDown(r) ==
    /\ ~redisUp /\ reader[r].step \in CacheSteps
    /\ reader' = [reader EXCEPT ![r] =
           IF reader[r].phase = "get" THEN [@ EXCEPT !.step = "query"] ELSE IdleReader]
    /\ UNCHANGED <<dbVars, invalidated, redisVars, writer>>

\* A filter, bbox or page error (4xx) instead of a page, or the worker is killed.
Abandon(r) ==
    /\ \/ reader[r].step = "query"
       \/ "crash" \in Faults /\ reader[r].step \in CacheSteps
    /\ reader' = [reader EXCEPT ![r] = IdleReader]
    /\ UNCHANGED <<dbVars, invalidated, redisVars, writer>>

-----------------------------------------------------------------------------
(* A writing request: the signal handler registers invalidate with         *)
(* on_commit, so it runs after the commit and not at all after a rollback. *)

WriterAt(w, step) == writer[w].step = step

\* post_save or post_delete was sent; nothing is committed yet.
Save(w) ==
    /\ writer[w].step \in {"idle", "error"}
    /\ writer' = [writer EXCEPT ![w] = [step |-> "saved", change |-> 0]]
    /\ UNCHANGED <<dbVars, invalidated, redisVars, reader>>

Commit(w) ==
    /\ WriterAt(w, "saved") /\ db < MaxChanges
    /\ db' = db + 1 /\ signalled' = db + 1
    /\ writer' = [writer EXCEPT ![w] = [step |-> "incr", change |-> db + 1]]
    /\ UNCHANGED <<invalidated, redisVars, reader>>

Rollback(w) ==
    /\ WriterAt(w, "saved")
    /\ writer' = [writer EXCEPT ![w] = IdleWriter]
    /\ UNCHANGED <<dbVars, invalidated, redisVars, reader>>

\* History: the invalidation of writer w's change took effect.
TookEffect(w) ==
    /\ invalidated' = IF writer[w].change > invalidated THEN writer[w].change ELSE invalidated
    /\ writer' = [writer EXCEPT ![w] = IdleWriter]

\* cache.incr bumps the version, or raises ValueError when the key is missing.
Incr(w) ==
    /\ redisUp /\ WriterAt(w, "incr")
    /\ IF version = NoVersion
       THEN /\ writer' = [writer EXCEPT ![w].step = "add"]
            /\ UNCHANGED <<invalidated, version, since>>
       ELSE Install(version + 1) /\ TookEffect(w)
    /\ UNCHANGED <<dbVars, redisUp, pages, reader>>

\* The ValueError branch: cache.add of an initial version.
Add(w) ==
    /\ redisUp /\ WriterAt(w, "add")
    /\ CacheAdd /\ TookEffect(w)
    /\ UNCHANGED <<dbVars, redisUp, pages, reader>>

\* cache.incr raised a connection error: logged, the invalidation is lost.
InvalidateDown(w) ==
    /\ ~redisUp /\ WriterAt(w, "incr")
    /\ writer' = [writer EXCEPT ![w] = IdleWriter]
    /\ UNCHANGED <<dbVars, invalidated, redisVars, reader>>

\* cache.add raised inside the ValueError branch: no except clause of
\* invalidate() covers it, so the request fails.
AddDown(w) ==
    /\ ~redisUp /\ WriterAt(w, "add")
    /\ writer' = [writer EXCEPT ![w] = [step |-> "error", change |-> 0]]
    /\ UNCHANGED <<dbVars, invalidated, redisVars, reader>>

CrashWriter(w) ==
    /\ "crash" \in Faults
    /\ writer[w].step \in {"saved", "incr", "add"}
    /\ writer' = [writer EXCEPT ![w] = IdleWriter]
    /\ UNCHANGED <<dbVars, invalidated, redisVars, reader>>

-----------------------------------------------------------------------------
(* The environment.                                                        *)

\* A LocationView row or a username: shown by the list, no signal is connected.
SilentChange ==
    /\ db < MaxChanges
    /\ db' = db + 1
    /\ UNCHANGED <<signalled, invalidated, redisVars, reader, writer>>

\* Redis evicts or flushes the version key, which has no TTL.
Evict ==
    /\ "eviction" \in Faults
    /\ version # NoVersion /\ Len(since) < MaxVersions
    /\ version' = NoVersion
    /\ UNCHANGED <<dbVars, invalidated, redisUp, since, pages, reader, writer>>

\* Mutant of Expire: entries of the current version are stored without a timeout.
ExpireOldVersions(v, q) ==
    /\ v # version /\ \E e \in pages : e.ver = v /\ e.query = q
    /\ pages' = {e \in pages : e.ver # v \/ e.query # q}
    /\ UNCHANGED <<dbVars, invalidated, redisUp, version, since, reader, writer>>

\* LOCATIONS_LIST_CACHE_TTL is over, or Redis evicts the entry.
Expire(v, q) ==
    /\ \E e \in pages : e.ver = v /\ e.query = q
    /\ pages' = {e \in pages : e.ver # v \/ e.query # q}
    /\ UNCHANGED <<dbVars, invalidated, redisUp, version, since, reader, writer>>

Outage ==
    /\ "outage" \in Faults
    /\ redisUp' = ~redisUp
    /\ UNCHANGED <<dbVars, invalidated, version, since, pages, reader, writer>>

-----------------------------------------------------------------------------
\* Every version that the bounds allow: one per eviction and one per commit.
Versions == 0 .. (MaxVersions + MaxChanges)

ReaderStep(r) ==
    \/ ReadVersion(r) \/ AddVersion(r) \/ ReadVersionAgain(r)
    \/ Hit(r) \/ Miss(r) \/ Query(r) \/ Store(r) \/ CacheDown(r) \/ Abandon(r)

WriterStep(w) ==
    \/ Save(w) \/ Commit(w) \/ Rollback(w) \/ Incr(w) \/ Add(w)
    \/ InvalidateDown(w) \/ AddDown(w) \/ CrashWriter(w)

Environment ==
    \/ SilentChange \/ Evict \/ Outage
    \/ \E v \in Versions, q \in Queries : Expire(v, q)

Next ==
    \/ \E r \in Readers, q \in Queries : Start(r, q)
    \/ \E r \in Readers : ReaderStep(r)
    \/ \E w \in Writers : WriterStep(w)
    \/ Environment

Spec == Init /\ [][Next]_vars

\* A request that is being served goes on, and a page does not outlive its TTL.
\* Nothing else has to happen: no request need come, no writer need finish its
\* invalidation, Redis need not come back.
Fairness ==
    /\ \A r \in Readers : WF_vars(ReaderStep(r))
    /\ \A v \in Versions, q \in Queries : WF_vars(Expire(v, q))

FairSpec == Spec /\ Fairness

-----------------------------------------------------------------------------
(* Properties.                                                             *)

\* Every variable has its type, and the version key holds a version that was set.
TypeOK ==
    /\ db \in Nat /\ signalled \in Nat /\ invalidated \in Nat
    /\ redisUp \in BOOLEAN
    /\ since \in Seq(Nat) /\ version \in 0 .. Len(since)
    /\ pages \subseteq Entry
    /\ reader \in [Readers -> ReaderState]
    /\ writer \in [Writers -> WriterState]

\* A request is never answered from a page older than a change whose
\* invalidation took effect before the request came, whatever is evicted or
\* down in between.  Two kinds of page escape, and nothing else: one that was
\* already out of date when its reader looked up the version to store it
\* (OldPagesUnreachable below), and one under "vNone", a version that comes back
\* with every second eviction in the middle of _version.
HitIsFresh ==
    \A r \in Readers :
        reader[r].step = "hit" =>
            \/ reader[r].age >= reader[r].start
            \/ reader[r].straddled
            \/ reader[r].ver = NoVersion

\* A version that is set, by an increment or after an eviction, has no pages:
\* no entry of an earlier version comes back under it (cache.py, _initial_version).
NewVersionIsEmpty ==
    [][version' \notin {version, NoVersion} => \A e \in pages' : e.ver # version']_vars

\* When changes stop, so does serving old ones: stale entries expire by TTL, even
\* those whose invalidation was lost to an outage or a crash, and none is stored anew.
EventuallyFresh == <>[](\A e \in pages : e.age = db)

\* Stated by signals.py and README, and violated: once a change is
\* invalidated, no page without it is reachable.
OldPagesUnreachable ==
    \A e \in pages : e.ver = version /\ version # NoVersion => e.age >= invalidated

\* Stated by cache.py, and violated: no cache outage makes a request fail.
OutageNeverBreaksApi == \A w \in Writers : writer[w].step # "error"
=============================================================================
