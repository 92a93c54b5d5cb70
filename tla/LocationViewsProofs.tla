------------------------- MODULE LocationViewsProofs -------------------------
(***************************************************************************)
(* The invariants of LocationViews, for any number of requests, viewers,   *)
(* ticks and views, and any time that a key lives.                         *)
(***************************************************************************)
EXTENDS LocationViews, TLAPS

Inserts(p) == At(p, "insert")
Rows(v) == {a \in BagToSet(rows) : a.viewer = v}
Winners(v) == {p \in Requests : Inserts(p) /\ request[p].viewer = v}
Apart(a, b) == a.won + TTL <= b.won \/ b.won + TTL <= a.won

\* The views that count of a viewer whose key was never lost, inserted or about to be:
\* one for each period, and none later than the period of the key.
Spaced(v) ==
    /\ \A a \in Rows(v) : rows[a] = 1 /\ a.won + TTL <= expires[v]
    /\ \A a, b \in Rows(v) : a # b => Apart(a, b)
    /\ \A p \in Winners(v) : request[p].won + TTL <= expires[v]
    /\ \A p \in Winners(v), a \in Rows(v) : Apart(request[p], a)
    /\ \A p, q \in Winners(v) : p # q => Apart(request[p], request[q])

AllSpaced == \A v \in Viewers \ lost : Spaced(v)

IInv == TypeOK /\ AllSpaced /\ KeyMeansView

-----------------------------------------------------------------------------
(* Data.                                                                   *)

\* One more row: a bag with the view, once if it was not there.
LEMMA Counted ==
    ASSUME NEW bag, IsABag(bag), NEW x
    PROVE  LET sum == bag (+) SetToBag({x}) IN
           /\ IsABag(sum) /\ BagToSet(sum) = BagToSet(bag) \union {x}
           /\ \A y \in BagToSet(bag) : y # x => sum[y] = bag[y]
           /\ x \notin BagToSet(bag) => sum[x] = 1
<1> DEFINE sum == bag (+) SetToBag({x})
<1>1. DOMAIN sum = DOMAIN bag \union {x}
  BY DEF (+), SetToBag
<1>2. \A y \in DOMAIN sum : sum[y] = (IF y \in DOMAIN bag THEN bag[y] ELSE 0) + (IF y = x THEN 1 ELSE 0)
  BY DEF (+), SetToBag
<1>3. sum = [y \in DOMAIN sum |-> sum[y]]
  BY DEF (+), SetToBag
<1>4. \A y \in DOMAIN bag : bag[y] \in Nat /\ bag[y] > 0
  BY DEF IsABag
<1> HIDE DEF sum
<1>5. \A y \in DOMAIN sum : sum[y] \in Nat /\ sum[y] > 0
  BY <1>1, <1>2, <1>4
<1>6. IsABag(sum)
  BY <1>3, <1>5 DEF IsABag
<1>7. \A y \in DOMAIN bag : y # x => sum[y] = bag[y]
  BY <1>1, <1>2, <1>4
<1>8. x \notin DOMAIN bag => sum[x] = 1
  BY <1>1, <1>2
<1> QED
  BY <1>1, <1>6, <1>7, <1>8 DEF BagToSet, sum

LEMMA NoRows == IsABag(EmptyBag) /\ BagToSet(EmptyBag) = {}
BY DEF IsABag, EmptyBag, SetToBag, BagToSet

LEMMA IdleType == IdleRequest \in Request /\ IdleRequest.step = "idle"
BY ViewersAssumption DEF IdleRequest, Request, Steps, Statuses

\* What Goto changes.
LEMMA Gone ==
    ASSUME TypeOK, NEW p \in Requests, NEW s \in Steps, Goto(p, s)
    PROVE  /\ request' \in [Requests -> Request]
           /\ \A q \in Requests \ {p} : request'[q] = request[q]
           /\ request'[p].step = s
<1> DEFINE q == [request[p] EXCEPT !.step = s]
<1>1. q \in Request /\ q.step = s
  BY DEF TypeOK, Request
<1> HIDE DEF q
<1>2. request' = [request EXCEPT ![p] = q]
  BY DEF Goto, q
<1> QED
  BY <1>1, <1>2 DEF TypeOK

\* What Answer changes.
LEMMA Answered ==
    ASSUME TypeOK, NEW p \in Requests, NEW s \in Statuses, Answer(p, s)
    PROVE  /\ request' \in [Requests -> Request]
           /\ \A q \in Requests \ {p} : request'[q] = request[q]
           /\ request'[p].step = "idle"
<1> DEFINE q == [IdleRequest EXCEPT !.status = s]
<1>1. q \in Request /\ q.step = "idle"
  BY IdleType DEF Request
<1> HIDE DEF q
<1>2. request' = [request EXCEPT ![p] = q]
  BY DEF Answer, q
<1> QED
  BY <1>1, <1>2 DEF TypeOK

LEMMA ViewType ==
    ASSUME TypeOK, NEW p \in Requests
    PROVE  /\ ViewOf(p) \in View /\ ViewOf(p).won = request[p].won
           /\ ViewOf(p).viewer = request[p].viewer /\ request[p].won \in Nat
           /\ request[p].viewer \in Viewers
BY DEF TypeOK, ViewOf, View, Request

-----------------------------------------------------------------------------
(* Steps that concern no winner.                                           *)

\* No request begins or ends to be about to insert.
Quiet ==
    /\ request' \in [Requests -> Request]
    /\ \A q \in Requests : Inserts(q) \/ Inserts(q)' => request'[q] = request[q]

LEMMA QuietGoto ==
    ASSUME TypeOK, NEW p \in Requests, ~Inserts(p), NEW s \in Steps \ {"insert"}, Goto(p, s)
    PROVE  Quiet
BY Gone DEF Quiet, Inserts, At

LEMMA QuietAnswer ==
    ASSUME TypeOK, NEW p \in Requests, ~Inserts(p), NEW s \in Statuses, Answer(p, s)
    PROVE  Quiet
BY Answered DEF Quiet, Inserts, At

\* Fewer winners, the same rows and keys.
LEMMA SpacedKept ==
    ASSUME AllSpaced, rows' = rows, expires' = expires, lost' = lost,
           \A q \in Requests : Inserts(q)' => request'[q] = request[q]
    PROVE  AllSpaced'
<1> SUFFICES ASSUME NEW v \in Viewers \ lost PROVE Spaced(v)'
  BY DEF AllSpaced
<1>1. Rows(v)' = Rows(v)
  BY DEF Rows
<1>2. \A q \in Winners(v)' : q \in Winners(v) /\ request'[q] = request[q]
  BY DEF Winners, Inserts, At
<1>3. Spaced(v)
  BY DEF AllSpaced
<1> QED
  BY <1>1, <1>2, <1>3 DEF Spaced, Apart

\* Keys, rows and winners stay; time goes on.
LEMMA KeysKept ==
    ASSUME TypeOK, KeyMeansView, Quiet, rows' = rows, missed' = missed, expires' = expires,
           location' # "removed" => location # "removed",
           now' = now \/ now' = now + 1
    PROVE  KeyMeansView'
<1> SUFFICES ASSUME location' # "removed", NEW v \in Viewers, HasKey(v)',
                    ~BagIn([viewer |-> v, won |-> expires[v] - TTL], rows),
                    [viewer |-> v, won |-> expires[v] - TTL] \notin missed
             PROVE  \E p \in Requests : At(p, "insert")' /\ ViewOf(p)' = [viewer |-> v, won |-> expires[v] - TTL]
  BY DEF KeyMeansView, BagIn, BagToSet
<1>1. HasKey(v)
  BY DEF HasKey, TypeOK
<1>2. PICK p \in Requests : At(p, "insert") /\ ViewOf(p) = [viewer |-> v, won |-> expires[v] - TTL]
  BY <1>1 DEF KeyMeansView
<1>3. request'[p] = request[p]
  BY <1>2 DEF Quiet, Inserts
<1> QED
  BY <1>2, <1>3 DEF At, ViewOf

-----------------------------------------------------------------------------
(* The invariant.                                                          *)

LEMMA InitIInv == Init => IInv
<1> SUFFICES ASSUME Init PROVE IInv
  OBVIOUS
<1>1. TypeOK
  BY IdleType, NoRows, TimesAssumption DEF Init, TypeOK, NoKey
<1>2. \A p \in Requests : request[p].step = "idle"
  BY IdleType DEF Init
<1>3. AllSpaced
  BY <1>2, NoRows DEF Init, AllSpaced, Spaced, Rows, Winners, Inserts, At
<1>4. KeyMeansView
  BY DEF Init, KeyMeansView, HasKey, NoKey
<1> QED
  BY <1>1, <1>3, <1>4 DEF IInv

\* The winner of a key.
LEMMA AddKeyIInv ==
    ASSUME IInv, NEW p \in Requests, AddKey(p)
    PROVE  IInv'
<1>a. PICK v \in Viewers : v = request[p].viewer
  BY DEF IInv, TypeOK, Request
<1>0. /\ request[p].step = "add"
      /\ UNCHANGED <<now, location, redisUp, lost, rows, missed>>
      /\ TypeOK /\ AllSpaced /\ KeyMeansView
  BY DEF AddKey, At, IInv, TypeOK, Request
<1>1. CASE HasKey(v)
  <2>1. Goto(p, "read") /\ UNCHANGED expires
    BY <1>a, <1>1 DEF AddKey
  <2>2. Quiet
    BY <1>0, <2>1, QuietGoto DEF Steps, Inserts, At
  <2>3. TypeOK'
    BY <1>0, <2>1, <2>2 DEF TypeOK, Quiet
  <2> QED
    BY <1>0, <2>1, <2>2, <2>3, SpacedKept, KeysKept DEF IInv, Quiet
<1>2. CASE ~HasKey(v)
  <2> DEFINE q == [request[p] EXCEPT !.step = "insert", !.won = now]
  <2>1. expires' = [expires EXCEPT ![v] = now + TTL] /\ request' = [request EXCEPT ![p] = q]
    BY <1>a, <1>2 DEF AddKey
  <2>2. q \in Request /\ q.step = "insert" /\ q.won = now /\ q.viewer = v
    BY <1>a, <1>0 DEF TypeOK, Request, Steps
  <2> HIDE DEF q
  <2>3. /\ request' \in [Requests -> Request] /\ request'[p] = q
        /\ \A x \in Requests \ {p} : request'[x] = request[x]
    BY <1>0, <2>1, <2>2 DEF TypeOK
  <2>4. now \in Nat /\ TTL \in Nat /\ expires[v] \in Nat /\ expires[v] <= now
    BY <1>0, <1>2, TimesAssumption DEF TypeOK, HasKey
  <2>5. /\ expires'[v] = now + TTL /\ \A w \in Viewers \ {v} : expires'[w] = expires[w]
        /\ expires' \in [Viewers -> 0 .. (now + TTL)]
    BY <1>0, <2>1, <2>4 DEF TypeOK
  <2>6. TypeOK'
    BY <1>0, <2>3, <2>5 DEF TypeOK
  <2>7. AllSpaced'
    <3> SUFFICES ASSUME NEW w \in Viewers \ lost PROVE Spaced(w)'
      BY <1>0 DEF AllSpaced
    <3>1. Rows(w)' = Rows(w) /\ Spaced(w)
      BY <1>0 DEF Rows, AllSpaced
    <3>2. CASE w # v
      <4>1. \A x \in Winners(w)' : x \in Winners(w) /\ request'[x] = request[x]
        BY <2>2, <2>3, <3>2 DEF Winners, Inserts, At
      <4> QED
        BY <1>0, <2>5, <3>1, <3>2, <4>1 DEF Spaced, Apart
    <3>3. CASE w = v
      <4>1. \A x \in Winners(v)' : x = p \/ (x \in Winners(v) /\ request'[x] = request[x])
        BY <2>3 DEF Winners, Inserts, At
      <4>2. \A x \in Winners(v) : request[x].won \in Nat
        BY <1>0, ViewType DEF Winners
      <4>3. \A a \in Rows(v) : a.won \in Nat
        BY <1>0 DEF TypeOK, Rows, View
      <4>4. Spaced(v)
        BY <3>1, <3>3
      <4>5. \A a \in Rows(v) : a.won + TTL <= now
        BY <2>4, <4>3, <4>4 DEF Spaced
      <4>6. \A x \in Winners(v) : request[x].won + TTL <= now
        BY <2>4, <4>2, <4>4 DEF Spaced
      <4>7. \A a \in Rows(v) : rows[a] = 1 /\ a.won + TTL <= now + TTL
        BY <2>4, <4>3, <4>4, <4>5 DEF Spaced
      <4>8. \A a, b \in Rows(v) : a # b => Apart(a, b)
        BY <4>4 DEF Spaced
      <4>9. \A x \in Winners(v)' : request'[x].won + TTL <= now + TTL
        BY <2>2, <2>3, <2>4, <4>1, <4>2, <4>6
      <4>10. \A x \in Winners(v)', a \in Rows(v) : Apart(request'[x], a)
        BY <2>2, <2>3, <4>1, <4>4, <4>5 DEF Spaced, Apart
      <4>11. \A x, y \in Winners(v)' : x # y => Apart(request'[x], request'[y])
        BY <2>2, <2>3, <4>1, <4>4, <4>6 DEF Spaced, Apart
      <4> QED
        BY <1>0, <2>5, <3>1, <3>3, <4>7, <4>8, <4>9, <4>10, <4>11 DEF Spaced, Apart
    <3> QED
      BY <3>2, <3>3
  <2>8. KeyMeansView'
    <3> SUFFICES ASSUME location # "removed", NEW w \in Viewers, HasKey(w)',
                        ~BagIn([viewer |-> w, won |-> expires'[w] - TTL], rows),
                        [viewer |-> w, won |-> expires'[w] - TTL] \notin missed
                 PROVE  \E x \in Requests : At(x, "insert")' /\ ViewOf(x)' = [viewer |-> w, won |-> expires'[w] - TTL]
      BY <1>0 DEF KeyMeansView, BagIn, BagToSet
    <3>1. CASE w = v
      <4>1. expires'[w] - TTL = now
        BY <2>4, <2>5, <3>1
      <4> QED
        BY <2>2, <2>3, <3>1, <4>1 DEF At, ViewOf
    <3>2. CASE w # v
      <4>1. HasKey(w) /\ expires'[w] = expires[w]
        BY <1>0, <2>5, <3>2 DEF HasKey
      <4>2. PICK x \in Requests : At(x, "insert") /\ ViewOf(x) = [viewer |-> w, won |-> expires[w] - TTL]
        BY <1>0, <4>1 DEF KeyMeansView
      <4>3. request'[x] = request[x]
        BY <1>0, <2>3, <4>2 DEF At
      <4> QED
        BY <4>1, <4>2, <4>3 DEF At, ViewOf
    <3> QED
      BY <3>1, <3>2
  <2> QED
    BY <2>6, <2>7, <2>8 DEF IInv
<1> QED
  BY <1>1, <1>2

\* The row of a winner.
LEMMA InsertViewIInv ==
    ASSUME IInv, NEW p \in Requests, InsertView(p)
    PROVE  IInv'
<1>a. PICK v \in Viewers : v = request[p].viewer
  BY DEF IInv, TypeOK, Request
<1>b. PICK view : view = ViewOf(p)
  OBVIOUS
<1>0. /\ Inserts(p) /\ UNCHANGED <<now, location, redisUp, expires, lost, missed>>
      /\ TypeOK /\ AllSpaced /\ KeyMeansView
  BY DEF InsertView, At, Inserts, IInv, redisVars
<1>1. CASE location = "removed"
  <2>1. Answer(p, 500) /\ UNCHANGED rows
    BY <1>1 DEF InsertView
  <2>2. /\ request' \in [Requests -> Request] /\ request'[p].step = "idle"
        /\ \A q \in Requests \ {p} : request'[q] = request[q]
    BY <1>0, <2>1, Answered DEF Statuses
  <2>3. TypeOK'
    BY <1>0, <2>1, <2>2 DEF TypeOK
  <2>4. \A q \in Requests : Inserts(q)' => Inserts(q) /\ request'[q] = request[q]
    BY <2>2 DEF Inserts, At
  <2>5. AllSpaced'
    BY <1>0, <2>1, <2>4, SpacedKept
  <2>6. KeyMeansView'
    BY <1>0, <1>1 DEF KeyMeansView
  <2> QED
    BY <2>3, <2>5, <2>6 DEF IInv
<1>2. CASE location # "removed"
  <2>1. Goto(p, "read") /\ rows' = rows (+) SetToBag({view})
    BY <1>b, <1>2 DEF InsertView
  <2>2. /\ request' \in [Requests -> Request] /\ request'[p].step = "read"
        /\ \A q \in Requests \ {p} : request'[q] = request[q]
    BY <1>0, <2>1, Gone DEF Steps
  <2>3. /\ IsABag(rows') /\ BagToSet(rows') = BagToSet(rows) \union {view}
        /\ \A y \in BagToSet(rows) : y # view => rows'[y] = rows[y]
        /\ view \notin BagToSet(rows) => rows'[view] = 1
    <3>1. IsABag(rows)
      BY <1>0 DEF TypeOK
    <3> QED
      BY <2>1, <3>1, Counted
  <2>4. view \in View /\ view.won = request[p].won /\ view.viewer = v /\ view.won \in Nat
    BY <1>a, <1>b, <1>0, ViewType
  <2>5. TypeOK'
    BY <1>0, <2>2, <2>3, <2>4 DEF TypeOK
  <2>6. AllSpaced'
    <3> SUFFICES ASSUME NEW w \in Viewers \ lost PROVE Spaced(w)'
      BY <1>0 DEF AllSpaced
    <3>1. \A q \in Winners(w)' : q # p /\ q \in Winners(w) /\ request'[q] = request[q]
      BY <2>2 DEF Winners, Inserts, At
    <3>2. Spaced(w)
      BY <1>0 DEF AllSpaced
    <3>3. CASE w # v
      <4>1. Rows(w)' = Rows(w) /\ \A a \in Rows(w) : rows'[a] = rows[a]
        BY <2>3, <2>4, <3>3 DEF Rows
      <4> QED
        BY <1>0, <3>1, <3>2, <4>1 DEF Spaced, Apart
    <3>4. CASE w = v
      <4>1. p \in Winners(v)
        BY <1>a, <1>0 DEF Winners
      <4>2. Rows(v)' = Rows(v) \union {view}
        BY <2>3, <2>4 DEF Rows
      <4>3. Spaced(v)
        BY <3>2, <3>4
      <4>4. \A a \in Rows(v) : Apart(view, a) /\ a.won \in Nat
        BY <1>0, <2>4, <4>1, <4>3 DEF Spaced, Apart, TypeOK, Rows, View
      <4>5. view \notin Rows(v)
        BY <2>4, <4>4, TimesAssumption DEF Apart
      <4>6. view \notin BagToSet(rows)
        BY <2>4, <4>5 DEF Rows
      <4>7. \A a \in Rows(v)' : rows'[a] = 1 /\ a.won + TTL <= expires[v]
        <5>1. view.won + TTL <= expires[v] /\ rows'[view] = 1
          BY <2>3, <2>4, <4>1, <4>3, <4>6 DEF Spaced
        <5>2. \A a \in Rows(v) : rows'[a] = 1 /\ a.won + TTL <= expires[v]
          BY <2>3, <4>3, <4>5 DEF Spaced, Rows
        <5> QED
          BY <4>2, <5>1, <5>2
      <4>8. \A a, b \in Rows(v)' : a # b => Apart(a, b)
        BY <4>2, <4>3, <4>4 DEF Spaced, Apart
      <4>9. \A q \in Winners(v)' : request'[q].won + TTL <= expires[v]
        BY <3>1, <3>4, <4>3 DEF Spaced
      <4>10. \A q \in Winners(v)', a \in Rows(v)' : Apart(request'[q], a)
        <5>1. \A q \in Winners(v)' : Apart(request'[q], view)
          BY <2>4, <3>1, <3>4, <4>1, <4>3 DEF Spaced, Apart
        <5> QED
          BY <3>1, <3>4, <4>2, <4>3, <5>1 DEF Spaced, Apart
      <4>11. \A q, r \in Winners(v)' : q # r => Apart(request'[q], request'[r])
        BY <3>1, <3>4, <4>3 DEF Spaced, Apart
      <4> QED
        BY <1>0, <3>4, <4>7, <4>8, <4>9, <4>10, <4>11 DEF Spaced, Apart
    <3> QED
      BY <3>3, <3>4
  <2>7. KeyMeansView'
    <3> SUFFICES ASSUME NEW w \in Viewers, HasKey(w),
                        ~BagIn([viewer |-> w, won |-> expires[w] - TTL], rows'),
                        [viewer |-> w, won |-> expires[w] - TTL] \notin missed
                 PROVE  \E x \in Requests : At(x, "insert")' /\ ViewOf(x)' = [viewer |-> w, won |-> expires[w] - TTL]
      BY <1>0 DEF KeyMeansView, BagIn, BagToSet, HasKey
    <3> DEFINE wanted == [viewer |-> w, won |-> expires[w] - TTL]
    <3>1. ~BagIn(wanted, rows) /\ wanted # view
      BY <2>3 DEF BagIn
    <3>2. PICK x \in Requests : At(x, "insert") /\ ViewOf(x) = wanted
      BY <1>0, <1>2, <3>1 DEF KeyMeansView
    <3>3. x # p
      BY <1>b, <3>1, <3>2
    <3>4. request'[x] = request[x]
      BY <2>2, <3>3
    <3> QED
      BY <3>2, <3>4 DEF At, ViewOf
  <2> QED
    BY <2>5, <2>6, <2>7 DEF IInv
<1> QED
  BY <1>1, <1>2

\* A killed request: what it had won is missed.
LEMMA KillIInv ==
    ASSUME IInv, NEW p \in Requests, Kill(p)
    PROVE  IInv'
<1>0. /\ UNCHANGED <<now, location, redisUp, expires, lost, rows>> /\ Answer(p, 0)
      /\ missed' = IF At(p, "insert") THEN missed \union {ViewOf(p)} ELSE missed
      /\ TypeOK /\ AllSpaced /\ KeyMeansView
  BY DEF Kill, IInv, redisVars
<1>1. /\ request' \in [Requests -> Request] /\ request'[p].step = "idle"
      /\ \A q \in Requests \ {p} : request'[q] = request[q]
  BY <1>0, Answered DEF Statuses
<1>2. TypeOK'
  BY <1>0, <1>1, ViewType DEF TypeOK
<1>3. \A q \in Requests : Inserts(q)' => Inserts(q) /\ request'[q] = request[q]
  BY <1>1 DEF Inserts, At
<1>4. AllSpaced'
  BY <1>0, <1>3, SpacedKept
<1>5. KeyMeansView'
  <2> SUFFICES ASSUME location # "removed", NEW w \in Viewers, HasKey(w),
                      ~BagIn([viewer |-> w, won |-> expires[w] - TTL], rows),
                      [viewer |-> w, won |-> expires[w] - TTL] \notin missed'
               PROVE  \E x \in Requests : At(x, "insert")' /\ ViewOf(x)' = [viewer |-> w, won |-> expires[w] - TTL]
    BY <1>0 DEF KeyMeansView, BagIn, BagToSet, HasKey
  <2> DEFINE wanted == [viewer |-> w, won |-> expires[w] - TTL]
  <2>1. wanted \notin missed
    BY <1>0
  <2>2. PICK x \in Requests : At(x, "insert") /\ ViewOf(x) = wanted
    BY <1>0, <2>1 DEF KeyMeansView
  <2>3. x # p
    BY <1>0, <2>2
  <2>4. request'[x] = request[x]
    BY <1>1, <2>3
  <2> QED
    BY <2>2, <2>4 DEF At, ViewOf
<1> QED
  BY <1>2, <1>4, <1>5 DEF IInv

\* A lost key: its viewer is one of those whose key was lost.
LEMMA FlushIInv ==
    ASSUME IInv, NEW v \in Viewers, Flush(v)
    PROVE  IInv'
<1>0. /\ UNCHANGED <<now, location, redisUp, rows, missed, request>>
      /\ expires' = [expires EXCEPT ![v] = NoKey] /\ lost' = lost \union {v}
      /\ TypeOK /\ AllSpaced /\ KeyMeansView
  BY DEF Flush, IInv
<1>1. now \in Nat /\ TTL \in Nat
  BY <1>0, TimesAssumption DEF TypeOK
<1>2. /\ expires'[v] = 0 /\ \A w \in Viewers \ {v} : expires'[w] = expires[w]
      /\ expires' \in [Viewers -> 0 .. (now + TTL)]
  BY <1>0, <1>1 DEF TypeOK, NoKey
<1>3. TypeOK'
  BY <1>0, <1>2 DEF TypeOK
<1>4. AllSpaced'
  <2> SUFFICES ASSUME NEW w \in Viewers \ lost' PROVE Spaced(w)'
    BY DEF AllSpaced
  <2>1. w # v /\ w \notin lost
    BY <1>0
  <2>2. Spaced(w) /\ Rows(w)' = Rows(w) /\ Winners(w)' = Winners(w)
    BY <1>0, <2>1 DEF AllSpaced, Rows, Winners, Inserts, At
  <2> QED
    BY <1>0, <1>2, <2>1, <2>2 DEF Spaced, Apart
<1>5. KeyMeansView'
  <2> SUFFICES ASSUME location # "removed", NEW w \in Viewers, HasKey(w)'
               PROVE  LET view == [viewer |-> w, won |-> expires'[w] - TTL] IN
                      \/ BagIn(view, rows) \/ view \in missed
                      \/ \E p \in Requests : At(p, "insert") /\ ViewOf(p) = view
    BY <1>0 DEF KeyMeansView, BagIn, BagToSet, At, ViewOf
  <2>1. w # v
    BY <1>0, <1>1, <1>2 DEF HasKey
  <2>2. expires'[w] = expires[w] /\ HasKey(w)
    BY <1>0, <1>2, <2>1 DEF HasKey
  <2> QED
    BY <1>0, <2>2 DEF KeyMeansView
<1> QED
  BY <1>3, <1>4, <1>5 DEF IInv

\* An administrator removes the location and its views.
LEMMA RemoveIInv == ASSUME IInv, RemoveLocation PROVE IInv'
<1>0. /\ UNCHANGED <<now, redisUp, expires, lost, missed, request>>
      /\ location' = "removed" /\ rows' = EmptyBag /\ TypeOK /\ AllSpaced
  BY DEF RemoveLocation, IInv, redisVars
<1>1. TypeOK'
  BY <1>0, NoRows DEF TypeOK
<1>2. AllSpaced'
  <2> SUFFICES ASSUME NEW w \in Viewers \ lost PROVE Spaced(w)'
    BY <1>0 DEF AllSpaced
  <2>1. Spaced(w) /\ Rows(w)' = {} /\ Winners(w)' = Winners(w)
    BY <1>0, NoRows DEF AllSpaced, Rows, Winners, Inserts, At
  <2> QED
    BY <1>0, <2>1 DEF Spaced, Apart
<1>3. KeyMeansView'
  BY <1>0 DEF KeyMeansView
<1> QED
  BY <1>1, <1>2, <1>3 DEF IInv

LEMMA NextIInv == IInv /\ [Next]_vars => IInv'
<1> SUFFICES ASSUME IInv, [Next]_vars PROVE IInv'
  OBVIOUS
<1>0. TypeOK /\ AllSpaced /\ KeyMeansView
  BY DEF IInv
\* Steps that leave rows, keys and winners alone.
<1>1. ASSUME Quiet, TypeOK', rows' = rows, missed' = missed, expires' = expires, lost' = lost,
             location' # "removed" => location # "removed",
             now' = now \/ now' = now + 1
      PROVE  IInv'
  <2>1. AllSpaced'
    BY <1>0, <1>1, SpacedKept DEF Quiet
  <2>2. KeyMeansView'
    BY <1>0, <1>1, KeysKept
  <2> QED
    BY <1>1, <2>1, <2>2 DEF IInv
<1>2. ASSUME Quiet, UNCHANGED <<now, location, redisVars, rows, missed>> PROVE IInv'
  <2>1. TypeOK'
    BY <1>0, <1>2 DEF TypeOK, redisVars, Quiet
  <2> QED
    BY <1>1, <1>2, <2>1 DEF redisVars
<1>3. ASSUME UNCHANGED request PROVE Quiet
  BY <1>0, <1>3 DEF Quiet, TypeOK
<1>4. ASSUME NEW p \in Requests, NEW v \in Viewers, Get(p, v) PROVE IInv'
  <2> DEFINE q == [IdleRequest EXCEPT !.step = "lookup", !.viewer = v]
  <2>1. q \in Request /\ q.step = "lookup"
    BY IdleType DEF Request, Steps
  <2> HIDE DEF q
  <2>2. request' = [request EXCEPT ![p] = q] /\ request[p].step = "idle"
    BY <1>4 DEF Get, At, q
  <2>3. Quiet
    BY <1>0, <2>1, <2>2 DEF Quiet, TypeOK, Inserts, At
  <2> QED
    BY <1>2, <1>4, <2>3 DEF Get
<1>5. ASSUME NEW p \in Requests, Lookup(p) PROVE IInv'
  <2>1. ~Inserts(p)
    BY <1>5 DEF Lookup, Inserts, At
  <2>2. Goto(p, "add") \/ Answer(p, 404)
    BY <1>5 DEF Lookup
  <2>3. Quiet
    BY <1>0, <2>1, <2>2, QuietGoto, QuietAnswer DEF Steps, Statuses
  <2> QED
    BY <1>2, <1>5, <2>3 DEF Lookup
<1>6. ASSUME NEW p \in Requests, CacheDown(p) PROVE IInv'
  <2>1. ~Inserts(p)
    BY <1>6 DEF CacheDown, Inserts, At
  <2>2. Quiet
    BY <1>0, <1>6, <2>1, QuietGoto DEF CacheDown, Steps
  <2> QED
    BY <1>2, <1>6, <2>2 DEF CacheDown
<1>7. ASSUME NEW p \in Requests, Detail(p) PROVE IInv'
  <2>1. ~Inserts(p)
    BY <1>7 DEF Detail, Inserts, At
  <2>2. Answer(p, 200) \/ Answer(p, 500)
    BY <1>7 DEF Detail
  <2>3. Quiet
    BY <1>0, <2>1, <2>2, QuietAnswer DEF Statuses
  <2> QED
    BY <1>2, <1>7, <2>3 DEF Detail
<1>8. ASSUME Tick PROVE IInv'
  <2>1. now \in Nat /\ TTL \in Nat
    BY <1>0, TimesAssumption DEF TypeOK
  <2>2. expires \in [Viewers -> 0 .. (now + 1 + TTL)]
    <3>1. \A v \in Viewers : expires[v] \in 0 .. (now + 1 + TTL)
      BY <1>0, <2>1 DEF TypeOK
    <3> QED
      BY <1>0, <3>1 DEF TypeOK
  <2>3. TypeOK'
    BY <1>0, <1>8, <2>1, <2>2 DEF Tick, TypeOK, redisVars
  <2> QED
    BY <1>1, <1>3, <1>8, <2>3 DEF Tick, redisVars
<1>9. ASSUME Outage PROVE IInv'
  <2>1. TypeOK'
    BY <1>0, <1>9 DEF Outage, TypeOK
  <2> QED
    BY <1>1, <1>3, <1>9, <2>1 DEF Outage
<1>10. ASSUME SoftDelete PROVE IInv'
  <2>1. TypeOK'
    BY <1>0, <1>10 DEF SoftDelete, TypeOK, redisVars
  <2> QED
    BY <1>1, <1>3, <1>10, <2>1 DEF SoftDelete, redisVars
<1>11. CASE UNCHANGED vars
  BY <1>2, <1>3, <1>11 DEF vars, redisVars
<1>12. ASSUME NEW p \in Requests, Step(p) PROVE IInv'
  <2>1. CASE AddKey(p)
    BY <2>1, AddKeyIInv
  <2>2. CASE InsertView(p)
    BY <2>2, InsertViewIInv
  <2>3. CASE Kill(p)
    BY <2>3, KillIInv
  <2> QED
    BY <1>5, <1>6, <1>7, <1>12, <2>1, <2>2, <2>3 DEF Step
<1> QED
  BY <1>4, <1>8, <1>9, <1>10, <1>11, <1>12, FlushIInv, RemoveIInv DEF Next

LEMMA Invariant == Spec => []IInv
BY InitIInv, NextIInv, PTL DEF Spec

\* Every variable has its type: no key outlives its TTL.
THEOREM TypesHold == Spec => []TypeOK
<1>1. IInv => TypeOK
  BY DEF IInv
<1> QED
  BY Invariant, <1>1, PTL

\* A viewer is counted once per period unless Redis lost the key: what cache.add of
\* register_view promises, however late each winner inserts its row.
THEOREM CountedOncePerPeriod == Spec => []AtMostOncePerPeriod
<1>1. IInv => AtMostOncePerPeriod
  <2> SUFFICES ASSUME IInv, NEW v \in Viewers \ lost, NEW a \in Rows(v), NEW b \in Rows(v)
               PROVE  rows[a] = 1 /\ (a.won < b.won => a.won + TTL <= b.won)
    BY DEF AtMostOncePerPeriod, Rows
  <2>1. rows[a] = 1 /\ (a # b => Apart(a, b))
    BY DEF IInv, AllSpaced, Spaced
  <2>2. a.won \in Nat /\ b.won \in Nat /\ TTL \in Nat
    BY TimesAssumption DEF IInv, TypeOK, Rows, View
  <2> QED
    BY <2>1, <2>2 DEF Apart
<1> QED
  BY Invariant, <1>1, PTL

\* A key in the cache means a row, or a winner that will insert it or was killed.
THEOREM KeysMeanViews == Spec => []KeyMeansView
<1>1. IInv => KeyMeansView
  BY DEF IInv
<1> QED
  BY Invariant, <1>1, PTL
=============================================================================
