--------------------------- MODULE LocationViews ---------------------------
(***************************************************************************)
(* Counting the views of one location: GET /locations/{id}/                *)
(* (src/apps/locations: views.py, retrieve; services.py, register_view).   *)
(*                                                                         *)
(* A viewer is counted when cache.add sets the viewer's key in Redis, and  *)
(* again only when the key has expired; the counted view is a row that the *)
(* same request inserts afterwards.  Keys of different locations are       *)
(* different, so one location is enough.  Time is counted in ticks of any  *)
(* length; a request may take as many as it likes.                         *)
(***************************************************************************)
EXTENDS Integers, Bags

CONSTANTS
    Requests,  \* slots for requests being served at the same time
    Viewers,   \* viewer_key: users, and anonymous clients by IP and User-Agent
    TTL,       \* LOCATION_VIEW_DEDUP_SECONDS
    MaxTime,   \* bound on the ticks
    MaxViews,  \* bound on the counted views
    Events     \* what else can happen

ASSUME ViewersAssumption == Viewers # {}
ASSUME TimesAssumption == TTL \in Nat \ {0} /\ MaxTime \in Nat /\ MaxViews \in Nat
ASSUME EventsAssumption == Events \subseteq {"outage", "flush", "crash", "soft delete", "remove"}

VARIABLES
    now,
    location,  \* "alive", "deleted" (soft) or "removed" (by the admin, with its views)
    redisUp,   \* FALSE: every cache call raises
    expires,   \* expires[v]: when v's key expires, NoKey when there is none
    rows,      \* the LocationView rows: a bag of viewers with the time their key was set
    missed,    \* history: keys set by requests that were killed before they inserted the row
    lost,      \* history: viewers whose key was evicted or flushed
    request    \* the state of each request

vars == <<now, location, redisUp, expires, rows, missed, lost, request>>
redisVars == <<redisUp, expires, lost>>

NoKey == 0
View == [viewer : Viewers, won : Nat]
Steps == {"idle", "lookup", "add", "insert", "read"}
Statuses == {0, 200, 404, 500}
Request == [step : Steps, viewer : Viewers, won : Nat, status : Statuses]
IdleRequest == [step |-> "idle", viewer |-> CHOOSE v \in Viewers : TRUE, won |-> 0, status |-> 0]

Init ==
    /\ now = 1 /\ location = "alive" /\ redisUp = TRUE
    /\ expires = [v \in Viewers |-> NoKey]
    /\ rows = EmptyBag /\ missed = {} /\ lost = {}
    /\ request = [p \in Requests |-> IdleRequest]

-----------------------------------------------------------------------------
At(p, step) == request[p].step = step
Goto(p, step) == request' = [request EXCEPT ![p] = [request[p] EXCEPT !.step = step]]
Answer(p, status) == request' = [request EXCEPT ![p] = [IdleRequest EXCEPT !.status = status]]

HasKey(v) == now < expires[v]
ViewOf(p) == [viewer |-> request[p].viewer, won |-> request[p].won]

Get(p, v) ==
    /\ At(p, "idle")
    /\ request' = [request EXCEPT ![p] = [IdleRequest EXCEPT !.step = "lookup", !.viewer = v]]
    /\ UNCHANGED <<now, location, redisVars, rows, missed>>

\* get_object_or_404: alive locations only.
Lookup(p) ==
    /\ At(p, "lookup")
    /\ IF location = "alive" THEN Goto(p, "add") ELSE Answer(p, 404)
    /\ UNCHANGED <<now, location, redisVars, rows, missed>>

\* Mutant of AddKey: cache.set instead of cache.add, whatever the key's state.
SetKey(p) ==
    LET v == request[p].viewer IN
    /\ At(p, "add") /\ redisUp
    /\ expires' = [expires EXCEPT ![v] = now + TTL]
    /\ request' = [request EXCEPT ![p].step = "insert", ![p].won = now]
    /\ UNCHANGED <<now, location, redisUp, lost, rows, missed>>

\* Mutant of AddKey: the key never expires.
KeepKey(p) ==
    LET v == request[p].viewer IN
    /\ At(p, "add") /\ redisUp
    /\ IF HasKey(v)
       THEN Goto(p, "read") /\ UNCHANGED expires
       ELSE /\ expires' = [expires EXCEPT ![v] = MaxTime + TTL + 1]
            /\ request' = [request EXCEPT ![p].step = "insert", ![p].won = now]
    /\ UNCHANGED <<now, location, redisUp, lost, rows, missed>>

\* Mutant of AddKey: a lost add extends the key.
TouchKey(p) ==
    LET v == request[p].viewer IN
    /\ At(p, "add") /\ redisUp
    /\ expires' = [expires EXCEPT ![v] = now + TTL]
    /\ IF HasKey(v) THEN Goto(p, "read")
       ELSE request' = [request EXCEPT ![p].step = "insert", ![p].won = now]
    /\ UNCHANGED <<now, location, redisUp, lost, rows, missed>>

\* register_view: cache.add is SET NX EX, one winner per key.
AddKey(p) ==
    LET v == request[p].viewer IN
    /\ At(p, "add") /\ redisUp
    /\ IF HasKey(v)
       THEN Goto(p, "read") /\ UNCHANGED expires
       ELSE /\ expires' = [expires EXCEPT ![v] = now + TTL]
            /\ request' = [request EXCEPT ![p] = [request[p] EXCEPT !.step = "insert", !.won = now]]
    /\ UNCHANGED <<now, location, redisUp, lost, rows, missed>>

\* register_view: without the cache the view is not counted.
CacheDown(p) ==
    /\ At(p, "add") /\ ~redisUp
    /\ Goto(p, "read")
    /\ UNCHANGED <<now, location, redisVars, rows, missed>>

\* register_view: the insert, of a row that refers to the location, soft-deleted or not.
InsertView(p) ==
    /\ At(p, "insert")
    /\ IF location = "removed"
       THEN Answer(p, 500) /\ UNCHANGED rows
       ELSE Goto(p, "read") /\ rows' = rows (+) SetToBag({ViewOf(p)})
    /\ UNCHANGED <<now, location, redisVars, missed>>

\* _detail: .get() raises DoesNotExist unless the location is still alive.
Detail(p) ==
    /\ At(p, "read")
    /\ Answer(p, IF location = "alive" THEN 200 ELSE 500)
    /\ UNCHANGED <<now, location, redisVars, rows, missed>>

\* The worker is killed.
Kill(p) ==
    /\ "crash" \in Events /\ ~At(p, "idle")
    /\ missed' = IF At(p, "insert") THEN missed \union {ViewOf(p)} ELSE missed
    /\ Answer(p, 0)
    /\ UNCHANGED <<now, location, redisVars, rows>>

-----------------------------------------------------------------------------
Tick ==
    /\ now < MaxTime
    /\ now' = now + 1
    /\ UNCHANGED <<location, redisVars, rows, missed, request>>

\* Redis evicts a key early, or is flushed.
Flush(v) ==
    /\ "flush" \in Events /\ HasKey(v)
    /\ expires' = [expires EXCEPT ![v] = NoKey]
    /\ lost' = lost \union {v}
    /\ UNCHANGED <<now, location, redisUp, rows, missed, request>>

Outage ==
    /\ "outage" \in Events
    /\ redisUp' = ~redisUp
    /\ UNCHANGED <<now, location, expires, lost, rows, missed, request>>

\* soft_delete_location, and an administrator who clears is_deleted.
SoftDelete ==
    /\ "soft delete" \in Events /\ location # "removed"
    /\ location' = IF location = "alive" THEN "deleted" ELSE "alive"
    /\ UNCHANGED <<now, redisVars, rows, missed, request>>

\* An administrator deletes the location: its views cascade.
RemoveLocation ==
    /\ "remove" \in Events /\ location # "removed"
    /\ location' = "removed" /\ rows' = EmptyBag
    /\ UNCHANGED <<now, redisVars, missed, request>>

-----------------------------------------------------------------------------
Step(p) ==
    Lookup(p) \/ AddKey(p) \/ CacheDown(p) \/ InsertView(p) \/ Detail(p) \/ Kill(p)

Next ==
    \/ \E p \in Requests, v \in Viewers : BagCardinality(rows) < MaxViews /\ Get(p, v)
    \/ \E p \in Requests : Step(p)
    \/ Tick \/ Outage \/ SoftDelete \/ RemoveLocation
    \/ \E v \in Viewers : Flush(v)

Spec == Init /\ [][Next]_vars

-----------------------------------------------------------------------------
(* Properties.                                                             *)

\* Every variable has its type; no key outlives its TTL, no view is won in the future.
TypeOK ==
    /\ now \in Nat /\ location \in {"alive", "deleted", "removed"} /\ redisUp \in BOOLEAN
    /\ expires \in [Viewers -> 0..(now + TTL)]
    /\ IsABag(rows) /\ BagToSet(rows) \subseteq View
    /\ missed \subseteq View /\ lost \subseteq Viewers
    /\ request \in [Requests -> Request]

\* A viewer's counted views were won at least TTL apart, however many requests run
\* at once, however late each inserts its row, and whether Redis is down in between:
\* a viewer is counted sooner only when Redis lost the key.
AtMostOncePerPeriod ==
    \A v \in Viewers \ lost : \A a, b \in {w \in BagToSet(rows) : w.viewer = v} :
        /\ rows[a] = 1
        /\ a.won < b.won => a.won + TTL <= b.won

\* When the cache says that a viewer was counted, there is a row of this very
\* period, or the request that won will insert it, unless that request was killed.
KeyMeansView ==
    location # "removed" => \A v \in Viewers : HasKey(v) =>
        LET view == [viewer |-> v, won |-> expires[v] - TTL] IN
        \/ BagIn(view, rows) \/ view \in missed
        \/ \E p \in Requests : At(p, "insert") /\ ViewOf(p) = view
=============================================================================
