--------------------------- MODULE AccountsProofs ---------------------------
(***************************************************************************)
(* The invariants of Accounts, for any number of requests, users, sessions *)
(* and links, and any folding of names and emails.                         *)
(***************************************************************************)
EXTENDS Accounts, SequenceTheorems, TLAPS

Steps == {"idle", "auth", "check", "email", "insert", "login", "session", "flush", "save", "done"}
Names == {f.name : f \in Forms}
Emails == {f.email : f \in Forms}
AnyForm == Forms \union {<<>>} \union [name : Names] \union [email : Emails]
Request == [step : Steps, op : Ops \union {"none"}, key : Nat, form : AnyForm, hash : Nat, link : Nat,
            user : Nat, copy : User \union {<<>>}, then : Nat, knew : SUBSET Nat]

\* Who holds this hash of u, a session or a link, and holds the current one, has seen
\* every reset of u.
OfUser(u, hash, resets) ==
    /\ u \in Users /\ hash \in 1 .. lastHash /\ resets \in Nat
    /\ hash = users[u].hash => resets = users[u].resets

UsersOK ==
    \A u \in Users : users[u].hash <= lastHash /\ users[u].knew \subseteq 1 .. u - 1
SessionsOK ==
    \A k \in DOMAIN sessions : OfUser(sessions[k].user, sessions[k].hash, sessions[k].resets)
LinksOK ==
    \A i \in 1 .. Len(links) : OfUser(links[i].user, links[i].hash, links[i].resets)

\* A request that opens a session has a hash of its user, as a session has.
LoginOK(q) ==
    q.step \in {"login", "session"} =>
        q.op \in {"register", "login"} /\ q.copy \in User /\ OfUser(q.user, q.copy.hash, q.copy.resets)
\* What the session of a request has seen.
MeOK(q) ==
    q.op = "me" =>
        /\ q.step \in {"auth", "done"} /\ q.key \in Keys
        /\ q.key \in DOMAIN sessions =>
             IF q.step = "auth" THEN q.then <= users[sessions[q.key].user].resets
             ELSE q.then <= sessions[q.key].resets
\* What the link of a confirmation has seen.
ConfirmOK(q) ==
    q.op = "confirm" =>
        /\ q.step \in {"auth", "check", "save", "done"} /\ q.link \in 1 .. Len(links)
        /\ q.step \in {"auth", "check"} => q.then <= users[links[q.link].user].resets
        /\ q.step \in {"save", "done"} => q.then <= links[q.link].resets
        /\ q.step = "save" => q.user \in Users
\* A registration past a check differs from the users that were there when it came.
RegisterOK(q) ==
    q.op = "register" /\ q.step \in {"auth", "check", "email", "insert"} =>
        /\ q.form \in Forms /\ q.knew \subseteq Users
        /\ q.step \in {"email", "insert"} =>
             \A u \in q.knew : Fold(users[u].name) # Fold(q.form.name)
        /\ q.step = "insert" => \A u \in q.knew : Fold(users[u].email) # Fold(q.form.email)

RequestOK(q) == q \in Request /\ LoginOK(q) /\ MeOK(q) /\ ConfirmOK(q) /\ RegisterOK(q)
RequestsOK == request \in [Requests -> Request] /\ \A p \in Requests : RequestOK(request[p])

RowsOK == TypeOK /\ UsersOK /\ SessionsOK /\ LinksOK /\ TwinsWereConcurrent
IInv == RowsOK /\ RequestsOK

-----------------------------------------------------------------------------
(* What a step does to the rows.                                           *)

\* Users are never removed or renamed; a hash changes only to a new one, and only a
\* reset is counted.
UsersGrow ==
    /\ users' \in Seq(User) /\ lastHash' \in Nat /\ lastHash <= lastHash'
    /\ Len(users) <= Len(users')
    /\ \A u \in Users :
        /\ users'[u].name = users[u].name /\ users'[u].email = users[u].email
        /\ users'[u].knew = users[u].knew
        /\ users[u].resets <= users'[u].resets
        /\ \/ users'[u].hash = users[u].hash /\ users'[u].resets = users[u].resets
           \/ users'[u].hash > lastHash
\* A key is never used twice, a session never changes.
SessionsMove ==
    /\ lastKey' \in Nat /\ lastKey <= lastKey'
    /\ \A k \in DOMAIN sessions' : k <= lastKey => k \in DOMAIN sessions /\ sessions'[k] = sessions[k]
LinksGrow ==
    /\ Len(links) <= Len(links') /\ Len(links') \in Nat
    /\ \A i \in 1 .. Len(links) : links'[i] = links[i]
Moves == UsersGrow /\ SessionsMove /\ LinksGrow

LEMMA RowFields ==
    ASSUME NEW row \in User
    PROVE  /\ row.hash \in Nat /\ row.resets \in Nat /\ row.logins \in Nat /\ row.active \in BOOLEAN
           /\ row.knew \subseteq Nat /\ row.name \in Names /\ row.email \in Emails
<1>1. User = [name : Names, email : Emails, hash : Nat \ {0}, logins : Nat, active : BOOLEAN,
              resets : Nat, knew : SUBSET Nat]
  BY DEF User, Names, Emails
<1> HIDE DEF Names, Emails
<1> QED
  BY <1>1

LEMMA UserFields ==
    ASSUME TypeOK, NEW u \in Users
    PROVE  /\ users[u] \in User /\ users[u].hash \in Nat /\ users[u].resets \in Nat
           /\ users[u].logins \in Nat /\ users[u].active \in BOOLEAN /\ users[u].knew \subseteq Nat
           /\ users[u].name \in Names /\ users[u].email \in Emails
<1>1. users[u] \in User
  BY DEF TypeOK, Users
<1> QED
  BY <1>1, RowFields

LEMMA UsersStay ==
    ASSUME TypeOK, UNCHANGED <<users, lastHash>>
    PROVE  UsersGrow
BY UserFields DEF UsersGrow, TypeOK, Users

\* A step that changes one row of users, but neither name nor email.
LEMMA OneUserMoves ==
    ASSUME TypeOK, NEW u \in Users, NEW row \in User, users' = [users EXCEPT ![u] = row],
           lastHash' \in Nat, lastHash <= lastHash',
           row.name = users[u].name, row.email = users[u].email, row.knew = users[u].knew,
           users[u].resets <= row.resets,
           (row.hash = users[u].hash /\ row.resets = users[u].resets) \/ row.hash > lastHash
    PROVE  /\ UsersGrow /\ Len(users') = Len(users) /\ users'[u] = row
           /\ \A v \in Users \ {u} : users'[v] = users[v]
<1>1. /\ users' \in Seq(User) /\ Len(users') = Len(users)
      /\ \A v \in 1 .. Len(users) : users'[v] = IF v = u THEN row ELSE users[v]
  BY ExceptSeq DEF TypeOK, Users
<1>2. \A v \in Users : users[v].resets \in Nat
  BY UserFields
<1>3. Len(users) \in Nat
  BY DEF TypeOK
<1> QED
  BY <1>1, <1>2, <1>3 DEF UsersGrow, Users

LEMMA OfUserStays ==
    ASSUME TypeOK, UsersOK, UsersGrow, NEW u, NEW hash, NEW resets, OfUser(u, hash, resets)
    PROVE  OfUser(u, hash, resets)'
<1>1. u \in Users /\ u \in Users'
  BY DEF OfUser, UsersGrow, TypeOK, Users
<1>2. hash \in 1 .. lastHash' /\ lastHash \in Nat /\ hash <= lastHash
  BY DEF OfUser, UsersGrow, TypeOK
<1>3. users'[u] \in User
  BY <1>1 DEF UsersGrow, Users
<1>4. users'[u].hash \in Nat
  BY <1>3, RowFields
<1> QED
  BY <1>1, <1>2, <1>4 DEF OfUser, UsersGrow

\* A user has had no fewer resets than before.
LEMMA ResetsGrow ==
    ASSUME TypeOK, UsersGrow, NEW u \in Users
    PROVE  users[u].resets \in Nat /\ users'[u].resets \in Nat /\ users[u].resets <= users'[u].resets
<1>1. u \in Users'
  BY DEF UsersGrow, TypeOK, Users
<1>2. users'[u] \in User
  BY <1>1 DEF UsersGrow, Users
<1> QED
  BY <1>2, RowFields, UserFields DEF UsersGrow

LEMMA RequestStays ==
    ASSUME IInv, Moves, NEW q, RequestOK(q)
    PROVE  RequestOK(q)'
<1>1. q \in Request /\ q.key \in Nat /\ q.then \in Nat /\ q.link \in Nat /\ q.user \in Nat
  BY DEF RequestOK, Request
<1>2. Users \subseteq Users'
  BY DEF Moves, UsersGrow, IInv, RowsOK, TypeOK, Users
<1>3. LoginOK(q)'
  BY OfUserStays DEF RequestOK, LoginOK, IInv, RowsOK, Moves
<1>4. MeOK(q)'
  <2> SUFFICES ASSUME q.op = "me" PROVE MeOK(q)'
    BY DEF MeOK
  <2>1. q.step \in {"auth", "done"} /\ q.key \in 0 .. lastKey
    BY DEF RequestOK, MeOK, Keys, NoOne
  <2>2. lastKey \in Nat /\ lastKey' \in Nat /\ lastKey <= lastKey'
    BY DEF Moves, SessionsMove, IInv, RowsOK, TypeOK
  <2>3. ASSUME q.key \in DOMAIN sessions'
        PROVE  IF q.step = "auth" THEN q.then <= users'[sessions'[q.key].user].resets
               ELSE q.then <= sessions'[q.key].resets
    <3>1. q.key \in DOMAIN sessions /\ sessions'[q.key] = sessions[q.key]
      BY <2>1, <2>2, <2>3 DEF Moves, SessionsMove
    <3>2. PICK u \in Users : u = sessions[q.key].user
      BY <3>1 DEF IInv, RowsOK, SessionsOK, OfUser
    <3>3. users[u].resets \in Nat /\ users'[u].resets \in Nat /\ users[u].resets <= users'[u].resets
      BY ResetsGrow DEF Moves, IInv, RowsOK
    <3> QED
      BY <1>1, <2>1, <3>1, <3>2, <3>3 DEF RequestOK, MeOK
  <2> QED
    BY <2>1, <2>2, <2>3 DEF MeOK, Keys, NoOne
<1>5. ConfirmOK(q)'
  <2> SUFFICES ASSUME q.op = "confirm" PROVE ConfirmOK(q)'
    BY DEF ConfirmOK
  <2>1. q.link \in 1 .. Len(links) /\ q.link \in 1 .. Len(links') /\ links'[q.link] = links[q.link]
    BY DEF RequestOK, ConfirmOK, Moves, LinksGrow, IInv, RowsOK, TypeOK
  <2>2. PICK u \in Users : u = links[q.link].user
    BY <2>1 DEF IInv, RowsOK, LinksOK, OfUser
  <2>3. users[u].resets \in Nat /\ users'[u].resets \in Nat /\ users[u].resets <= users'[u].resets
    BY ResetsGrow DEF Moves, IInv, RowsOK
  <2> QED
    BY <1>1, <1>2, <2>1, <2>2, <2>3 DEF RequestOK, ConfirmOK
<1>6. RegisterOK(q)'
  <2> SUFFICES ASSUME q.op = "register", q.step \in {"auth", "check", "email", "insert"}
               PROVE  RegisterOK(q)'
    BY DEF RegisterOK
  <2>1. q.knew \subseteq Users
    BY DEF RequestOK, RegisterOK
  <2>2. \A u \in q.knew : users'[u].name = users[u].name /\ users'[u].email = users[u].email
    BY <2>1 DEF Moves, UsersGrow
  <2> QED
    BY <1>2, <2>1, <2>2 DEF RequestOK, RegisterOK
<1> QED
  BY <1>1, <1>3, <1>4, <1>5, <1>6 DEF RequestOK

\* The request p goes on as r.
LEMMA OneRequestMoves ==
    ASSUME IInv, Moves, NEW p \in Requests, NEW r, request' = [request EXCEPT ![p] = r], RequestOK(r)'
    PROVE  RequestsOK'
<1>1. r \in Request
  BY DEF RequestOK
<1>2. request' \in [Requests -> Request] /\ request'[p] = r
      /\ \A q \in Requests \ {p} : request'[q] = request[q]
  BY <1>1 DEF IInv, RequestsOK
<1>3. ASSUME NEW q \in Requests, NEW s, s = request'[q] PROVE RequestOK(s)'
  <2>1. CASE q = p
    BY <1>2, <1>3, <2>1
  <2>2. CASE q # p
    <3>1. RequestOK(s)
      BY <1>2, <1>3, <2>2 DEF IInv, RequestsOK
    <3> QED
      BY <3>1, RequestStays
  <2> QED
    BY <2>1, <2>2
<1> QED
  BY <1>2, <1>3 DEF RequestsOK

LEMMA NoRequestMoves ==
    ASSUME IInv, Moves, UNCHANGED request
    PROVE  RequestsOK'
<1>1. ASSUME NEW q \in Requests, NEW s, s = request'[q] PROVE RequestOK(s)'
  <2>1. RequestOK(s)
    BY <1>1 DEF IInv, RequestsOK
  <2> QED
    BY <2>1, RequestStays
<1> QED
  BY <1>1 DEF RequestsOK, IInv

LEMMA SeqGrows ==
    ASSUME NEW S, NEW T, S \subseteq T, NEW s \in Seq(S)
    PROVE  s \in Seq(T)
OBVIOUS

\* The rows stay in order when no user, session or link is added.
LEMMA RowsStay ==
    ASSUME RowsOK, UsersGrow, Len(users') = Len(users), \A u \in Users : users'[u].hash <= lastHash',
           UNCHANGED <<lastKey, mail, links>>, uses' \in Seq(Nat), Len(uses') = Len(uses),
           DOMAIN sessions' \subseteq DOMAIN sessions,
           \A k \in DOMAIN sessions' : sessions'[k] = sessions[k]
    PROVE  RowsOK' /\ Moves
<1>1. Users' = Users
  BY DEF Users
<1>2. 1 .. lastHash \subseteq 1 .. lastHash'
  BY DEF UsersGrow, RowsOK, TypeOK
<1> DEFINE S == [user : Users, hash : 1 .. lastHash, resets : Nat]
           L == [user : Users, hash : 1 .. lastHash, logins : Nat, resets : Nat]
           SS == [user : Users, hash : 1 .. lastHash', resets : Nat]
           LL == [user : Users, hash : 1 .. lastHash', logins : Nat, resets : Nat]
<1>3. S \subseteq SS /\ L \subseteq LL
  BY <1>2
<1>4. TypeOK'
  <2>1. \A k \in DOMAIN sessions' : sessions'[k] \in SS
    BY <1>3 DEF RowsOK, TypeOK
  <2>2. links' \in Seq(LL)
    <3>1. links \in Seq(L)
      BY DEF RowsOK, TypeOK
    <3> HIDE DEF L, LL
    <3> QED
      BY <1>3, <3>1, SeqGrows
  <2>3. DOMAIN sessions' \subseteq 1 .. lastKey' /\ mail' \subseteq Users /\ Len(uses') = Len(links')
        /\ lastKey' \in Nat
    BY DEF RowsOK, TypeOK
  <2> QED
    BY <1>1, <2>1, <2>2, <2>3 DEF TypeOK, UsersGrow
<1>5. UsersOK'
  BY <1>1 DEF RowsOK, UsersOK, UsersGrow
<1>6. SessionsOK'
  <2>1. ASSUME NEW k \in DOMAIN sessions', NEW s, s = sessions'[k] PROVE OfUser(s.user, s.hash, s.resets)'
    <3>1. OfUser(s.user, s.hash, s.resets)
      BY <2>1 DEF RowsOK, SessionsOK
    <3> QED
      BY <3>1, OfUserStays DEF RowsOK
  <2> QED
    BY <2>1 DEF SessionsOK
<1>7. LinksOK'
  <2>1. ASSUME NEW i \in 1 .. Len(links), NEW s, s = links[i] PROVE OfUser(s.user, s.hash, s.resets)'
    <3>1. OfUser(s.user, s.hash, s.resets)
      BY <2>1 DEF RowsOK, LinksOK
    <3> QED
      BY <3>1, OfUserStays DEF RowsOK
  <2> QED
    BY <2>1 DEF LinksOK
<1>8. TwinsWereConcurrent'
  BY <1>1 DEF RowsOK, TwinsWereConcurrent, UsersGrow
<1>9. Moves
  BY DEF Moves, SessionsMove, LinksGrow, RowsOK, TypeOK
<1> QED
  BY <1>4, <1>5, <1>6, <1>7, <1>8, <1>9 DEF RowsOK

\* The same when no user changes.
LEMMA SessionsShrink ==
    ASSUME RowsOK, UNCHANGED <<users, lastHash, lastKey, linkVars>>,
           DOMAIN sessions' \subseteq DOMAIN sessions,
           \A k \in DOMAIN sessions' : sessions'[k] = sessions[k]
    PROVE  RowsOK' /\ Moves
<1>1. UsersGrow
  BY UsersStay DEF RowsOK
<1>2. \A u \in Users : users'[u].hash <= lastHash'
  BY DEF RowsOK, UsersOK
<1> QED
  BY <1>1, <1>2, RowsStay DEF linkVars, RowsOK, TypeOK

LEMMA RowsUnchanged ==
    ASSUME RowsOK, UNCHANGED <<users, lastHash, sessionVars, linkVars>>
    PROVE  RowsOK' /\ Moves
BY SessionsShrink DEF sessionVars

-----------------------------------------------------------------------------
(* What a step does to its request.                                        *)

LEMMA IdleOK ==
    /\ IdleRequest \in Request /\ IdleRequest.step = "idle" /\ IdleRequest.op = "none"
    /\ RequestOK(IdleRequest) /\ RequestOK(IdleRequest)'
<1>1. IdleRequest \in Request /\ IdleRequest.step = "idle" /\ IdleRequest.op = "none"
  BY DEF IdleRequest, Request, Steps, AnyForm, NoOne
<1> QED
  BY <1>1 DEF RequestOK, LoginOK, MeOK, ConfirmOK, RegisterOK

LEMMA Answered ==
    ASSUME IInv, Moves, NEW p \in Requests, NEW status, Answer(p, status),
           status # 200 \/ request[p].op \notin {"me", "confirm"}
    PROVE  RequestsOK'
<1>1. request' = [request EXCEPT ![p] = IdleRequest]
  BY DEF Answer
<1> QED
  BY <1>1, IdleOK, OneRequestMoves

\* The slot keeps what was answered.
Kept(q) == [IdleRequest EXCEPT !.step = "done", !.op = q.op, !.key = q.key, !.link = q.link, !.then = q.then]

LEMMA KeptAnswer ==
    ASSUME NEW p \in Requests, Answer(p, 200), request[p].op \in {"me", "confirm"}
    PROVE  request' = [request EXCEPT ![p] = Kept(request[p])]
BY DEF Answer, Kept

LEMMA KeptFields ==
    ASSUME NEW q \in Request
    PROVE  /\ Kept(q) \in Request /\ Kept(q).step = "done" /\ Kept(q).op = q.op
           /\ Kept(q).key = q.key /\ Kept(q).link = q.link /\ Kept(q).then = q.then
BY IdleOK DEF Kept, Request, Steps

\* The request as it goes to a step.
GoneTo(q, step) == [q EXCEPT !.step = step]
LEMMA GoneFields ==
    ASSUME NEW q \in Request, NEW step \in Steps
    PROVE  /\ GoneTo(q, step) \in Request /\ GoneTo(q, step).step = step
           /\ GoneTo(q, step).op = q.op /\ GoneTo(q, step).key = q.key /\ GoneTo(q, step).form = q.form
           /\ GoneTo(q, step).link = q.link /\ GoneTo(q, step).user = q.user
           /\ GoneTo(q, step).copy = q.copy /\ GoneTo(q, step).then = q.then
           /\ GoneTo(q, step).knew = q.knew
BY DEF GoneTo, Request

LEMMA GoneAsked ==
    ASSUME NEW p \in Requests, NEW step, Goto(p, step)
    PROVE  request' = [request EXCEPT ![p] = GoneTo(request[p], step)]
BY DEF Goto, GoneTo

\* The request as it takes the row of a user to work on.
Taken(q, step, u, row) == [q EXCEPT !.step = step, !.user = u, !.copy = row, !.knew = {}]
LEMMA TakenFields ==
    ASSUME NEW q \in Request, NEW step \in Steps, NEW u \in Nat, NEW row \in User,
           NEW r, r = Taken(q, step, u, row)
    PROVE  /\ r \in Request /\ r.step = step /\ r.user = u /\ r.copy = row
           /\ r.op = q.op /\ r.key = q.key /\ r.link = q.link /\ r.then = q.then
BY DEF Taken, Request

LEMMA TakenAsked ==
    ASSUME NEW p \in Requests, NEW step, NEW u, NEW row, Take(p, step, u, row)
    PROVE  request' = [request EXCEPT ![p] = Taken(request[p], step, u, row)]
BY DEF Take, Taken

-----------------------------------------------------------------------------
(* The actions.                                                            *)

\* The request as it arrives.
Sent(op, key, form, hash, link, then, knew) ==
    [IdleRequest EXCEPT !.step = "auth", !.op = op, !.key = key, !.form = form, !.hash = hash,
                        !.link = link, !.then = then, !.knew = knew]
LEMMA SentFields ==
    ASSUME NEW op \in Ops, NEW key \in Nat, NEW form \in AnyForm, NEW hash \in Nat, NEW link \in Nat,
           NEW then \in Nat, NEW knew \in SUBSET Nat
    PROVE  LET r == Sent(op, key, form, hash, link, then, knew) IN
           /\ r \in Request /\ r.step = "auth" /\ r.op = op /\ r.key = key /\ r.form = form
           /\ r.link = link /\ r.then = then /\ r.knew = knew
BY IdleOK DEF Sent, Request, Steps

LEMMA ResetsOfUser ==
    ASSUME TypeOK, NEW u \in Users \union {NoOne}
    PROVE  Resets(u) \in Nat /\ (u \in Users => Resets(u) = users[u].resets)
BY UserFields DEF Resets, Users, NoOne

LEMMA SendIInv ==
    ASSUME IInv, NEW p \in Requests, NEW op \in Ops, NEW key \in Keys, NEW form \in AnyForm,
           NEW hash \in Nat, NEW link \in Nat, Send(p, op, key, form, hash, link),
           op = "register" => form \in Forms, op = "confirm" => link \in 1 .. Len(links)
    PROVE  IInv'
<1>1. RowsOK' /\ Moves
  BY RowsUnchanged DEF IInv, Send
<1> DEFINE owner == CASE op = "me" -> IF key \in DOMAIN sessions THEN sessions[key].user ELSE NoOne
                      [] op = "confirm" -> links[link].user
                      [] OTHER -> NoOne
<1>2. /\ op = "me" /\ key \in DOMAIN sessions => owner = sessions[key].user
      /\ op = "me" /\ key \notin DOMAIN sessions => owner = NoOne
      /\ op = "confirm" => owner = links[link].user
      /\ op \notin {"me", "confirm"} => owner = NoOne
  OBVIOUS
<1>3. PICK o : o = owner
  OBVIOUS
<1>4. PICK knew : knew = IF op = "register" THEN Users ELSE {}
  OBVIOUS
<1>5. PICK n : n = Sent(op, key, form, hash, link, Resets(o), knew)
  OBVIOUS
<1>6. request' = [request EXCEPT ![p] = n]
  BY <1>3, <1>4, <1>5 DEF Send, Sent
<1> HIDE DEF owner
<1>7. o \in Users \union {NoOne}
  BY <1>2, <1>3 DEF IInv, RowsOK, SessionsOK, LinksOK, OfUser
<1>8. Resets(o) \in Nat /\ (o \in Users => Resets(o) = users[o].resets)
  BY <1>7, ResetsOfUser DEF IInv, RowsOK
<1>9. key \in Nat
  BY DEF Keys, NoOne, IInv, RowsOK, TypeOK
<1>10. n \in Request /\ n.step = "auth" /\ n.op = op /\ n.key = key /\ n.form = form /\ n.link = link
       /\ n.then = Resets(o) /\ n.knew = knew
  <2>1. knew \in SUBSET Nat
    BY <1>4 DEF Users
  <2> QED
    BY <1>5, <1>8, <1>9, <2>1, SentFields
<1>11. RequestOK(n)
  <2>1. LoginOK(n)
    BY <1>10 DEF LoginOK
  <2>2. MeOK(n)
    <3>1. ASSUME op = "me", key \in DOMAIN sessions PROVE Resets(o) = users[sessions[key].user].resets
      BY <1>2, <1>3, <1>8, <3>1 DEF IInv, RowsOK, SessionsOK, OfUser
    <3> QED
      BY <1>8, <1>10, <3>1 DEF MeOK
  <2>3. ConfirmOK(n)
    <3>1. ASSUME op = "confirm" PROVE Resets(o) = users[links[link].user].resets
      BY <1>2, <1>3, <1>8, <3>1 DEF IInv, RowsOK, LinksOK, OfUser
    <3> QED
      BY <1>8, <1>10, <3>1 DEF ConfirmOK
  <2>4. RegisterOK(n)
    BY <1>4, <1>10 DEF RegisterOK
  <2> QED
    BY <1>10, <2>1, <2>2, <2>3, <2>4 DEF RequestOK
<1>12. RequestOK(n)'
  BY <1>1, <1>11, RequestStays
<1>13. RequestsOK'
  BY <1>1, <1>6, <1>12, OneRequestMoves
<1> QED
  BY <1>1, <1>13 DEF IInv

LEMMA ArriveIInv ==
    ASSUME IInv, NEW p \in Requests, Arrive(p)
    PROVE  IInv'
<1>0. 0 \in Nat /\ NoOne \in Keys /\ Forms \subseteq AnyForm /\ <<>> \in AnyForm
  BY DEF AnyForm, Keys, NoOne, IInv, RowsOK, TypeOK
<1>1. ASSUME NEW key \in Keys, NEW f \in Forms, Send(p, "register", key, f, 0, 0) PROVE IInv'
  BY <1>0, <1>1, SendIInv DEF Send
<1>2. ASSUME NEW key \in Keys, NEW u \in Users, NEW h \in 1 .. lastHash,
             Send(p, "login", key, [name |-> users[u].name], h, 0)
      PROVE  IInv'
  <2>1. [name |-> users[u].name] \in AnyForm
    BY UserFields DEF AnyForm, IInv, RowsOK
  <2>2. h \in Nat
    BY DEF IInv, RowsOK, TypeOK
  <2> QED
    BY <1>0, <1>2, <2>1, <2>2, SendIInv DEF Send
<1>3. ASSUME NEW key \in Keys, NEW op \in {"logout", "me"}, Send(p, op, key, <<>>, 0, 0) PROVE IInv'
  BY <1>0, <1>3, SendIInv DEF Send
<1>4. ASSUME NEW f \in Forms, Send(p, "forgot", NoOne, [email |-> f.email], 0, 0) PROVE IInv'
  <2>1. [email |-> f.email] \in AnyForm
    BY DEF AnyForm, Emails
  <2> QED
    BY <1>0, <1>4, <2>1, SendIInv DEF Send
<1>5. ASSUME NEW i \in DOMAIN links, Send(p, "confirm", NoOne, <<>>, 0, i) PROVE IInv'
  <2>1. i \in 1 .. Len(links) /\ i \in Nat
    BY DEF IInv, RowsOK, TypeOK
  <2> QED
    BY <1>0, <1>5, <2>1, SendIInv DEF Send
<1> QED
  BY <1>1, <1>2, <1>3, <1>4, <1>5 DEF Arrive

\* The request p of the invariant.
LEMMA RequestOf ==
    ASSUME IInv, NEW p \in Requests
    PROVE  RequestOK(request[p]) /\ request[p] \in Request
BY DEF IInv, RequestsOK, RequestOK

\* A request that goes on to the step s, not one in which it works on a user's row,
\* nor the next check of a registration.
LEMMA PlainGoto ==
    ASSUME IInv, Moves, NEW p \in Requests, NEW step \in Steps, Goto(p, step),
           step \in {"check", "flush"}, request[p].step = "auth", request[p].op # "me",
           step = "flush" => request[p].op = "logout"
    PROVE  RequestsOK'
<1>1. PICK q : q = request[p]
  OBVIOUS
<1>2. PICK r : r = GoneTo(q, step)
  OBVIOUS
<1>3. request' = [request EXCEPT ![p] = r] /\ RequestOK(q) /\ q \in Request
  BY <1>1, <1>2, GoneAsked, RequestOf
<1>4. r \in Request /\ r.step = step /\ r.op = q.op /\ r.form = q.form /\ r.link = q.link
      /\ r.then = q.then /\ r.knew = q.knew
  BY <1>2, <1>3, GoneFields
<1>5. RequestOK(r)
  BY <1>1, <1>3, <1>4 DEF RequestOK, LoginOK, MeOK, ConfirmOK, RegisterOK
<1>6. RequestOK(r)'
  BY <1>5, RequestStays
<1> QED
  BY <1>3, <1>6, OneRequestMoves

LEMMA AuthenticateIInv ==
    ASSUME IInv, NEW p \in Requests, Authenticate(p)
    PROVE  IInv'
<1>1. PICK q : q = request[p]
  OBVIOUS
<1>2. PICK user : user = SessionUser(q.key)
  OBVIOUS
<1>3. RequestOK(q) /\ q \in Request /\ q.step = "auth"
  BY <1>1, RequestOf DEF Authenticate
<1>4. /\ DOMAIN sessions' \subseteq DOMAIN sessions /\ \A k \in DOMAIN sessions' : sessions'[k] = sessions[k]
      /\ user # NoOne => sessions' = sessions
  BY <1>1, <1>2 DEF Authenticate
<1>5. RowsOK' /\ Moves
  BY <1>4, SessionsShrink DEF Authenticate, IInv
<1>6. CASE q.op \in {"register", "login"}
  <2>1. Answer(p, 403) \/ Goto(p, "check")
    BY <1>1, <1>6 DEF Authenticate
  <2> QED
    BY <1>1, <1>3, <1>5, <1>6, <2>1, Answered, PlainGoto DEF IInv, Steps
<1>7. CASE q.op = "logout"
  <2>1. Answer(p, 403) \/ Goto(p, "flush")
    BY <1>1, <1>7 DEF Authenticate
  <2> QED
    BY <1>1, <1>3, <1>5, <1>7, <2>1, Answered, PlainGoto DEF IInv, Steps
<1>8. CASE q.op = "me"
  <2>1. CASE user = NoOne
    <3>1. Answer(p, 403)
      BY <1>1, <1>2, <1>8, <2>1 DEF Authenticate
    <3> QED
      BY <1>5, <3>1, Answered DEF IInv
  <2>2. CASE user # NoOne
    <3>1. Answer(p, 200)
      BY <1>1, <1>2, <1>8, <2>2 DEF Authenticate
    <3>2. PICK r : r = Kept(q)
      OBVIOUS
    <3>3. request' = [request EXCEPT ![p] = r]
      BY <1>1, <1>8, <3>1, <3>2, KeptAnswer
    <3>4. r \in Request /\ r.step = "done" /\ r.op = "me" /\ r.key = q.key /\ r.then = q.then
      BY <1>3, <1>8, <3>2, KeptFields
    <3>5. /\ q.key \in DOMAIN sessions
          /\ sessions[q.key].hash = users[sessions[q.key].user].hash
      BY <1>2, <2>2 DEF SessionUser
    <3>6. q.then <= sessions[q.key].resets /\ q.key \in Keys
      BY <1>3, <1>8, <3>5 DEF RequestOK, MeOK, IInv, RowsOK, SessionsOK, OfUser
    <3>7. RequestOK(r)
      BY <3>4, <3>6 DEF RequestOK, LoginOK, MeOK, ConfirmOK, RegisterOK
    <3>8. RequestOK(r)'
      BY <1>5, <3>7, RequestStays
    <3> QED
      BY <1>5, <3>3, <3>8, OneRequestMoves DEF IInv
  <2> QED
    BY <2>1, <2>2
<1>9. CASE q.op \notin {"register", "login", "logout", "me"}
  <2>1. Goto(p, "check")
    BY <1>1, <1>9 DEF Authenticate
  <2> QED
    BY <1>1, <1>3, <1>5, <1>9, <2>1, PlainGoto DEF IInv, Steps
<1> QED
  BY <1>6, <1>7, <1>8, <1>9

LEMMA CheckNameIInv ==
    ASSUME IInv, NEW p \in Requests, CheckName(p)
    PROVE  IInv'
<1>1. RowsOK' /\ Moves
  BY RowsUnchanged DEF CheckName, IInv
<1>2. PICK q : q = request[p]
  OBVIOUS
<1>3. RequestOK(q) /\ q \in Request /\ q.op = "register" /\ q.step = "check"
  BY <1>2, RequestOf DEF CheckName, At
<1>4. CASE \E u \in Users : Fold(users[u].name) = Fold(q.form.name)
  <2>1. Answer(p, 400)
    BY <1>2, <1>4 DEF CheckName
  <2> QED
    BY <1>1, <2>1, Answered DEF IInv
<1>5. CASE \A u \in Users : Fold(users[u].name) # Fold(q.form.name)
  <2>1. Goto(p, "email")
    BY <1>2, <1>5 DEF CheckName
  <2>2. PICK r : r = GoneTo(q, "email")
    OBVIOUS
  <2>3. r \in Request /\ r.step = "email" /\ r.op = "register" /\ r.form = q.form /\ r.knew = q.knew
    BY <1>3, <2>2, GoneFields DEF Steps
  <2>4. RequestOK(r)
    BY <1>3, <1>5, <2>3 DEF RequestOK, LoginOK, MeOK, ConfirmOK, RegisterOK
  <2>5. request' = [request EXCEPT ![p] = r] /\ RequestOK(r)'
    BY <1>1, <1>2, <2>1, <2>2, <2>4, GoneAsked, RequestStays
  <2> QED
    BY <1>1, <2>5, OneRequestMoves DEF IInv
<1> QED
  BY <1>4, <1>5

LEMMA CheckEmailIInv ==
    ASSUME IInv, NEW p \in Requests, CheckEmail(p)
    PROVE  IInv'
<1>1. RowsOK' /\ Moves
  BY RowsUnchanged DEF CheckEmail, IInv
<1>2. PICK q : q = request[p]
  OBVIOUS
<1>3. RequestOK(q) /\ q \in Request /\ q.op = "register" /\ q.step = "email"
  BY <1>2, RequestOf DEF CheckEmail, At
<1>4. CASE \E u \in Users : Fold(users[u].email) = Fold(q.form.email)
  <2>1. Answer(p, 400)
    BY <1>2, <1>4 DEF CheckEmail
  <2> QED
    BY <1>1, <2>1, Answered DEF IInv
<1>5. CASE \A u \in Users : Fold(users[u].email) # Fold(q.form.email)
  <2>1. Goto(p, "insert")
    BY <1>2, <1>5 DEF CheckEmail
  <2>2. PICK r : r = GoneTo(q, "insert")
    OBVIOUS
  <2>3. r \in Request /\ r.step = "insert" /\ r.op = "register" /\ r.form = q.form /\ r.knew = q.knew
    BY <1>3, <2>2, GoneFields DEF Steps
  <2>4. RequestOK(r)
    BY <1>3, <1>5, <2>3 DEF RequestOK, LoginOK, MeOK, ConfirmOK, RegisterOK
  <2>5. request' = [request EXCEPT ![p] = r] /\ RequestOK(r)'
    BY <1>1, <1>2, <2>1, <2>2, <2>4, GoneAsked, RequestStays
  <2> QED
    BY <1>1, <2>5, OneRequestMoves DEF IInv
<1> QED
  BY <1>4, <1>5

\* A request that is to open a session takes the row of a user.
LEMMA TakesToLogin ==
    ASSUME IInv, Moves, NEW p \in Requests, NEW u \in Nat, NEW row \in User, Take(p, "login", u, row),
           request[p].op \in {"register", "login"}, OfUser(u, row.hash, row.resets)'
    PROVE  RequestsOK'
<1>1. PICK r : r = Taken(request[p], "login", u, row)
  OBVIOUS
<1>2. request[p] \in Request /\ "login" \in Steps
  BY RequestOf DEF Steps
<1>3. r \in Request /\ r.step = "login" /\ r.user = u /\ r.copy = row /\ r.op \in {"register", "login"}
  BY <1>1, <1>2, TakenFields
<1>4. RequestOK(r)'
  BY <1>3 DEF RequestOK, LoginOK, MeOK, ConfirmOK, RegisterOK
<1> QED
  BY <1>1, <1>4, TakenAsked, OneRequestMoves

LEMMA CheckPasswordIInv ==
    ASSUME IInv, NEW p \in Requests, NEW u \in Users, CheckPassword(p, u)
    PROVE  IInv'
<1>1. RowsOK' /\ Moves
  BY RowsUnchanged DEF CheckPassword, IInv
<1>2. request[p].op = "login"
  BY DEF CheckPassword, At
<1>3. CASE users[u].active /\ users[u].hash = request[p].hash
  <2>1. Take(p, "login", u, users[u])
    BY <1>3 DEF CheckPassword
  <2>2. users[u] \in User /\ u \in Nat
    BY UserFields DEF IInv, RowsOK, Users
  <2>3. OfUser(u, users[u].hash, users[u].resets)
    <3>1. users[u].hash \in Nat \ {0} /\ lastHash \in Nat /\ users[u].resets \in Nat
      BY <2>2 DEF User, IInv, RowsOK, TypeOK
    <3> QED
      BY <3>1 DEF OfUser, IInv, RowsOK, UsersOK
  <2>4. PICK row : row = users[u]
    OBVIOUS
  <2>5. OfUser(u, row.hash, row.resets)'
    BY <1>1, <2>3, <2>4, OfUserStays DEF IInv, RowsOK, Moves
  <2> QED
    BY <1>1, <1>2, <2>1, <2>2, <2>4, <2>5, TakesToLogin DEF IInv
<1>4. CASE ~(users[u].active /\ users[u].hash = request[p].hash)
  <2>1. Answer(p, 400)
    BY <1>4 DEF CheckPassword
  <2> QED
    BY <1>1, <2>1, Answered DEF IInv
<1> QED
  BY <1>3, <1>4

LEMMA CloseSessionIInv ==
    ASSUME IInv, NEW p \in Requests, CloseSession(p)
    PROVE  IInv'
<1>1. DOMAIN sessions' \subseteq DOMAIN sessions /\ \A k \in DOMAIN sessions' : sessions'[k] = sessions[k]
  BY DEF CloseSession
<1>2. RowsOK' /\ Moves
  BY <1>1, SessionsShrink DEF CloseSession, IInv
<1> QED
  BY <1>2, Answered DEF CloseSession, IInv

LEMMA CheckLinkIInv ==
    ASSUME IInv, NEW p \in Requests, CheckLink(p)
    PROVE  IInv'
<1>1. RowsOK' /\ Moves
  BY RowsUnchanged DEF CheckLink, IInv
<1>2. PICK q : q = request[p]
  OBVIOUS
<1>3. RequestOK(q) /\ q \in Request /\ q.op = "confirm" /\ q.step = "check"
  BY <1>2, RequestOf DEF CheckLink, At
<1>4. PICK link : link = links[q.link]
  OBVIOUS
<1>5. q.link \in 1 .. Len(links) /\ link.user \in Users /\ q.then <= users[link.user].resets
      /\ OfUser(link.user, link.hash, link.resets)
  BY <1>3, <1>4 DEF RequestOK, ConfirmOK, IInv, RowsOK, LinksOK, OfUser
<1>6. CASE users[link.user].active /\ TokenFits(link, users[link.user])
  <2>1. Take(p, "save", link.user, users[link.user])
    BY <1>2, <1>4, <1>6 DEF CheckLink
  <2>2. PICK r : r = Taken(q, "save", link.user, users[link.user])
    OBVIOUS
  <2>3. users[link.user] \in User /\ link.user \in Nat
    BY <1>5, UserFields DEF IInv, RowsOK, Users
  <2>4. r \in Request /\ r.step = "save" /\ r.user = link.user /\ r.op = "confirm" /\ r.link = q.link
        /\ r.then = q.then
    <3>1. "save" \in Steps
      BY DEF Steps
    <3> QED
      BY <1>3, <2>2, <2>3, <3>1, TakenFields
  <2>5. q.then <= links[q.link].resets
    BY <1>4, <1>5, <1>6 DEF TokenFits, OfUser
  <2>6. RequestOK(r)
    BY <1>5, <2>4, <2>5 DEF RequestOK, LoginOK, MeOK, ConfirmOK, RegisterOK
  <2>7. request' = [request EXCEPT ![p] = r] /\ RequestOK(r)'
    BY <1>1, <1>2, <2>1, <2>2, <2>6, TakenAsked, RequestStays
  <2> QED
    BY <1>1, <2>7, OneRequestMoves DEF IInv
<1>7. CASE ~(users[link.user].active /\ TokenFits(link, users[link.user]))
  <2>1. Answer(p, 400)
    BY <1>2, <1>4, <1>7 DEF CheckLink
  <2> QED
    BY <1>1, <2>1, Answered DEF IInv
<1> QED
  BY <1>6, <1>7

LEMMA ForgotIInv ==
    ASSUME IInv, NEW p \in Requests, Forgot(p)
    PROVE  IInv'
<1>1. UsersGrow /\ UNCHANGED <<users, lastHash, sessions, lastKey, links, uses>>
  BY UsersStay DEF Forgot, IInv, RowsOK, sessionVars
<1>2. mail' \subseteq Users
  BY DEF Forgot, IInv, RowsOK, TypeOK
<1>3. RowsOK'
  <2>1. TypeOK'
    BY <1>1, <1>2 DEF IInv, RowsOK, TypeOK, Users
  <2> QED
    BY <1>1, <2>1 DEF IInv, RowsOK, UsersOK, SessionsOK, LinksOK, OfUser, TwinsWereConcurrent, Users
<1>4. Moves
  BY <1>1 DEF Moves, SessionsMove, LinksGrow, IInv, RowsOK, TypeOK
<1>5. request[p].op = "forgot" /\ Answer(p, 200)
  BY DEF Forgot, At
<1> QED
  BY <1>3, <1>4, <1>5, Answered DEF IInv

\* A step that changes one row of users only.
LEMMA OneRowMoves ==
    ASSUME RowsOK, NEW u \in Users, NEW row \in User, users' = [users EXCEPT ![u] = row],
           UNCHANGED <<lastKey, mail, links>>, uses' \in Seq(Nat), Len(uses') = Len(uses),
           lastHash' \in Nat, lastHash <= lastHash', row.hash <= lastHash',
           row.name = users[u].name, row.email = users[u].email, row.knew = users[u].knew,
           users[u].resets <= row.resets,
           (row.hash = users[u].hash /\ row.resets = users[u].resets) \/ row.hash > lastHash,
           DOMAIN sessions' \subseteq DOMAIN sessions,
           \A k \in DOMAIN sessions' : sessions'[k] = sessions[k]
    PROVE  RowsOK' /\ Moves
<1>1. /\ UsersGrow /\ Len(users') = Len(users) /\ users'[u] = row
      /\ \A v \in Users \ {u} : users'[v] = users[v]
  BY OneUserMoves DEF RowsOK
<1>2. ASSUME NEW v \in Users PROVE users'[v].hash <= lastHash'
  <2>1. CASE v = u
    BY <1>1, <2>1
  <2>2. CASE v # u
    BY <1>1, <2>2, UserFields DEF RowsOK, UsersOK, TypeOK
  <2> QED
    BY <2>1, <2>2
<1> QED
  BY <1>1, <1>2, RowsStay

LEMMA SaveLoginIInv ==
    ASSUME IInv, NEW p \in Requests, SaveLogin(p)
    PROVE  IInv'
<1>1. PICK q : q = request[p]
  OBVIOUS
<1>2. RequestOK(q) /\ q \in Request /\ q.step = "login"
  BY <1>1, RequestOf DEF SaveLogin
<1>3. q.op \in {"register", "login"} /\ q.copy \in User /\ OfUser(q.user, q.copy.hash, q.copy.resets)
  BY <1>2 DEF RequestOK, LoginOK
<1>4. PICK u \in Users : u = q.user
  BY <1>3 DEF OfUser
<1>5. PICK row : row = [users[u] EXCEPT !.logins = users[u].logins + 1]
  OBVIOUS
<1>6. /\ row \in User /\ row.name = users[u].name /\ row.email = users[u].email /\ row.knew = users[u].knew
      /\ row.hash = users[u].hash /\ row.resets = users[u].resets
  <2>1. users[u] \in User /\ users[u].logins + 1 \in Nat
    BY UserFields DEF IInv, RowsOK
  <2> QED
    BY <1>5, <2>1 DEF User
<1>7. users[u].resets <= row.resets /\ row.hash <= lastHash /\ lastHash \in Nat
  BY <1>6, UserFields DEF IInv, RowsOK, UsersOK, TypeOK
<1>8. RowsOK' /\ Moves
  <2>1. users' = [users EXCEPT ![u] = row] /\ UNCHANGED <<lastHash, lastKey, mail, links, uses>>
    BY <1>1, <1>4, <1>5 DEF SaveLogin, linkVars
  <2>2. DOMAIN sessions' \subseteq DOMAIN sessions /\ \A k \in DOMAIN sessions' : sessions'[k] = sessions[k]
    BY DEF SaveLogin
  <2>3. RowsOK /\ uses' \in Seq(Nat) /\ Len(uses') = Len(uses) /\ lastHash' \in Nat /\ lastHash <= lastHash'
        /\ row.hash <= lastHash'
    BY <1>7, <2>1 DEF IInv, RowsOK, TypeOK
  <2> QED
    BY <1>6, <1>7, <2>1, <2>2, <2>3, OneRowMoves
<1>9. PICK r : r = GoneTo(q, "session")
  OBVIOUS
<1>10. r \in Request /\ r.step = "session" /\ r.op = q.op /\ r.user = q.user /\ r.copy = q.copy
  BY <1>2, <1>9, GoneFields DEF Steps
<1>11. RequestOK(r)
  BY <1>3, <1>10 DEF RequestOK, LoginOK, MeOK, ConfirmOK, RegisterOK
<1>12. request' = [request EXCEPT ![p] = r] /\ RequestOK(r)'
  BY <1>1, <1>8, <1>9, <1>11, GoneAsked, RequestStays DEF SaveLogin
<1> QED
  BY <1>8, <1>12, OneRequestMoves DEF IInv

LEMMA SetActiveIInv ==
    ASSUME IInv, NEW u \in Users, SetActive(u)
    PROVE  IInv'
<1>1. PICK row : row = [users[u] EXCEPT !.active = ~users[u].active]
  OBVIOUS
<1>2. /\ row \in User /\ row.name = users[u].name /\ row.email = users[u].email /\ row.knew = users[u].knew
      /\ row.hash = users[u].hash /\ row.resets = users[u].resets
  <2>1. users[u] \in User
    BY UserFields DEF IInv, RowsOK
  <2> QED
    BY <1>1, <2>1 DEF User
<1>3. users[u].resets <= row.resets /\ row.hash <= lastHash /\ lastHash \in Nat
  BY <1>2, UserFields DEF IInv, RowsOK, UsersOK, TypeOK
<1>4. users' = [users EXCEPT ![u] = row] /\ UNCHANGED <<lastHash, lastKey, mail, links, uses, sessions>>
      /\ UNCHANGED request
  BY <1>1 DEF SetActive, linkVars, sessionVars
<1>5. RowsOK /\ uses' \in Seq(Nat) /\ Len(uses') = Len(uses) /\ lastHash' \in Nat /\ lastHash <= lastHash'
      /\ row.hash <= lastHash'
  BY <1>3, <1>4 DEF IInv, RowsOK, TypeOK
<1>6. RowsOK' /\ Moves
  BY <1>2, <1>3, <1>4, <1>5, OneRowMoves
<1> QED
  BY <1>4, <1>6, NoRequestMoves DEF IInv

\* A row with a new password, set by a reset.
WithPassword(a, h, n) == [a EXCEPT !.hash = h, !.resets = n]
LEMMA PasswordFields ==
    ASSUME NEW a \in User, NEW h \in Nat \ {0}, NEW n \in Nat,
           NEW row, row = WithPassword(a, h, n)
    PROVE  /\ row \in User /\ row.name = a.name /\ row.email = a.email /\ row.knew = a.knew
           /\ row.hash = h /\ row.resets = n
<1>1. User = [name : Names, email : Emails, hash : Nat \ {0}, logins : Nat, active : BOOLEAN,
              resets : Nat, knew : SUBSET Nat]
  BY DEF User, Names, Emails
<1> HIDE DEF Names, Emails
<1> QED
  BY <1>1 DEF WithPassword

LEMMA SavePasswordIInv ==
    ASSUME IInv, NEW p \in Requests, SavePassword(p)
    PROVE  IInv'
<1>1. PICK q : q = request[p]
  OBVIOUS
<1>2. RequestOK(q) /\ q \in Request /\ q.op = "confirm" /\ q.step = "save"
  BY <1>1, RequestOf DEF SavePassword, At
<1>3. q.user \in Users /\ q.link \in 1 .. Len(links) /\ q.then <= links[q.link].resets
  BY <1>2 DEF RequestOK, ConfirmOK
<1>4. PICK u \in Users : u = q.user
  BY <1>3
<1>5. PICK row : row = [users[u] EXCEPT !.hash = lastHash + 1, !.resets = users[u].resets + 1]
  OBVIOUS
<1>6. users[u] \in User /\ users[u].resets \in Nat /\ lastHash \in Nat
  BY UserFields DEF IInv, RowsOK, TypeOK
<1>7. /\ row \in User /\ row.name = users[u].name /\ row.email = users[u].email /\ row.knew = users[u].knew
      /\ row.hash = lastHash + 1 /\ row.resets = users[u].resets + 1
  <2>1. PICK a \in User : a = users[u]
    BY <1>6
  <2>2. PICK h \in Nat \ {0} : h = lastHash + 1
    BY <1>6
  <2>3. PICK n \in Nat : n = users[u].resets + 1
    BY <1>6
  <2>4. row = WithPassword(a, h, n)
    BY <1>5, <2>1, <2>2, <2>3 DEF WithPassword
  <2>5. /\ row \in User /\ row.name = a.name /\ row.email = a.email /\ row.knew = a.knew
        /\ row.hash = h /\ row.resets = n
    BY <2>4, PasswordFields
  <2> QED
    BY <2>1, <2>2, <2>3, <2>5
<1>8. RowsOK' /\ Moves
  <2>1. users' = [users EXCEPT ![u] = row] /\ UNCHANGED <<lastKey, mail, links, sessions>>
        /\ lastHash' = lastHash + 1 /\ uses' = [uses EXCEPT ![q.link] = uses[q.link] + 1]
    BY <1>1, <1>4, <1>5 DEF SavePassword, Confirmed, sessionVars
  <2>2. uses' \in Seq(Nat) /\ Len(uses') = Len(uses)
    <3>1. uses \in Seq(Nat) /\ q.link \in 1 .. Len(uses)
      BY <1>3 DEF IInv, RowsOK, TypeOK
    <3>2. uses[q.link] + 1 \in Nat
      BY <3>1
    <3> QED
      BY <2>1, <3>1, <3>2, ExceptSeq
  <2>3. RowsOK /\ lastHash' \in Nat /\ lastHash <= lastHash' /\ row.hash <= lastHash' /\ row.hash > lastHash
        /\ users[u].resets <= row.resets
    BY <1>6, <1>7, <2>1 DEF IInv
  <2> QED
    BY <1>7, <2>1, <2>2, <2>3, OneRowMoves
<1>9. PICK r : r = Kept(q)
  OBVIOUS
<1>10. r \in Request /\ r.step = "done" /\ r.op = "confirm" /\ r.link = q.link /\ r.then = q.then
  BY <1>2, <1>9, KeptFields
<1>11. RequestOK(r)
  BY <1>3, <1>10 DEF RequestOK, LoginOK, MeOK, ConfirmOK, RegisterOK
<1>12. request' = [request EXCEPT ![p] = r] /\ RequestOK(r)'
  BY <1>1, <1>2, <1>8, <1>9, <1>11, KeptAnswer, RequestStays DEF SavePassword, Confirmed
<1> QED
  BY <1>8, <1>12, OneRequestMoves DEF IInv

\* A new row, or a new link: what there was stays.
LEMMA Appended ==
    ASSUME NEW S, NEW s \in Seq(S), NEW e \in S, NEW t, t = Append(s, e)
    PROVE  /\ t \in Seq(S) /\ Len(t) = Len(s) + 1 /\ t[Len(s) + 1] = e
           /\ \A i \in 1 .. Len(s) : t[i] = s[i]
OBVIOUS

LEMMA InsertUserIInv ==
    ASSUME IInv, NEW p \in Requests, InsertUser(p)
    PROVE  IInv'
<1>1. PICK q : q = request[p]
  OBVIOUS
<1>2. RequestOK(q) /\ q \in Request /\ q.op = "register" /\ q.step = "insert"
  BY <1>1, RequestOf DEF InsertUser, At
<1>3. /\ q.form \in Forms /\ q.knew \subseteq Users
      /\ \A u \in q.knew : Fold(users[u].name) # Fold(q.form.name)
      /\ \A u \in q.knew : Fold(users[u].email) # Fold(q.form.email)
  BY <1>2 DEF RequestOK, RegisterOK
<1>4. CASE \E u \in Users : users[u].name = q.form.name
  <2>1. Answer(p, 500) /\ UNCHANGED <<users, lastHash, sessionVars, linkVars>>
    BY <1>1, <1>4 DEF InsertUser
  <2>2. RowsOK' /\ Moves
    BY <2>1, RowsUnchanged DEF IInv
  <2> QED
    BY <2>1, <2>2, Answered DEF IInv
<1>5. CASE \A u \in Users : users[u].name # q.form.name
  <2>1. PICK row : row = [name |-> q.form.name, email |-> q.form.email, hash |-> lastHash + 1,
                          logins |-> 0, active |-> TRUE, resets |-> 0, knew |-> q.knew]
    OBVIOUS
  <2>2. /\ users' = Append(users, row) /\ lastHash' = lastHash + 1
        /\ Take(p, "login", Len(users) + 1, row)
        /\ UNCHANGED <<sessions, lastKey, mail, links, uses>>
    BY <1>1, <1>5, <2>1 DEF InsertUser, sessionVars, linkVars
  <2>3. row \in User
    <3>1. q.form.name \in Names /\ q.form.email \in Emails /\ q.knew \in SUBSET Nat
          /\ lastHash + 1 \in Nat \ {0}
      BY <1>3 DEF Names, Emails, Users, IInv, RowsOK, TypeOK
    <3>2. User = [name : Names, email : Emails, hash : Nat \ {0}, logins : Nat, active : BOOLEAN,
                  resets : Nat, knew : SUBSET Nat]
      BY DEF User, Names, Emails
    <3> HIDE DEF Names, Emails
    <3> QED
      BY <2>1, <3>1, <3>2
  <2>4. /\ row.hash = lastHash + 1 /\ row.resets = 0 /\ row.knew = q.knew /\ row.name = q.form.name
        /\ row.email = q.form.email
    BY <2>1
  <2>5. users \in Seq(User) /\ lastHash \in Nat /\ Len(users) \in Nat
    BY DEF IInv, RowsOK, TypeOK
  <2>6. /\ users' \in Seq(User) /\ Len(users') = Len(users) + 1 /\ users'[Len(users) + 1] = row
        /\ \A u \in Users : users'[u] = users[u]
    BY <2>2, <2>3, <2>5, Appended DEF Users
  <2>7. UsersGrow
    <3>1. lastHash' \in Nat /\ lastHash <= lastHash' /\ Len(users) <= Len(users')
      BY <2>2, <2>5, <2>6
    <3>2. \A u \in Users : users[u].resets \in Nat /\ users'[u] = users[u]
      BY <2>6, UserFields DEF IInv, RowsOK
    <3>3. \A u \in Users : users[u].resets <= users'[u].resets
      BY <3>2
    <3> QED
      BY <2>6, <3>1, <3>2, <3>3 DEF UsersGrow
  <2>8. Users' = Users \union {Len(users) + 1} /\ Len(users) + 1 \notin Users
    BY <2>5, <2>6 DEF Users
  <2>9. TypeOK'
    <3> DEFINE L == [user : Users, hash : 1 .. lastHash, logins : Nat, resets : Nat]
               LL == [user : Users', hash : 1 .. lastHash', logins : Nat, resets : Nat]
    <3>1. 1 .. lastHash \subseteq 1 .. lastHash' /\ Users \subseteq Users'
      BY <2>2, <2>5, <2>8
    <3>2. L \subseteq LL
      BY <3>1
    <3>3. links \in Seq(L)
      BY DEF IInv, RowsOK, TypeOK
    <3>4. links' \in Seq(LL)
      <4> HIDE DEF L, LL
      <4> QED
        BY <2>2, <3>2, <3>3, SeqGrows
    <3>5. \A k \in DOMAIN sessions' : sessions'[k] \in [user : Users', hash : 1 .. lastHash', resets : Nat]
      BY <2>2, <3>1 DEF IInv, RowsOK, TypeOK
    <3> QED
      BY <2>2, <2>5, <2>6, <3>1, <3>4, <3>5 DEF IInv, RowsOK, TypeOK
  <2>10. UsersOK'
    <3>1. ASSUME NEW u \in Users PROVE users'[u].hash <= lastHash' /\ users'[u].knew \subseteq 1 .. u - 1
      <4>1. users'[u] = users[u] /\ users[u].hash <= lastHash /\ users[u].knew \subseteq 1 .. u - 1
        BY <2>6 DEF IInv, RowsOK, UsersOK
      <4>2. users[u].hash \in Nat /\ lastHash <= lastHash' /\ lastHash' \in Nat
        BY <2>2, <2>5, UserFields DEF IInv, RowsOK
      <4> QED
        BY <2>5, <4>1, <4>2
    <3>2. users'[Len(users) + 1].hash <= lastHash'
          /\ users'[Len(users) + 1].knew \subseteq 1 .. Len(users) + 1 - 1
      BY <1>3, <2>2, <2>4, <2>5, <2>6 DEF Users
    <3> QED
      BY <2>8, <3>1, <3>2 DEF UsersOK
  <2>11. SessionsOK'
    <3>1. ASSUME NEW k \in DOMAIN sessions', NEW s, s = sessions'[k]
          PROVE  OfUser(s.user, s.hash, s.resets)'
      <4>1. OfUser(s.user, s.hash, s.resets)
        BY <2>2, <3>1 DEF IInv, RowsOK, SessionsOK
      <4> QED
        BY <2>7, <4>1, OfUserStays DEF IInv, RowsOK
    <3> QED
      BY <3>1 DEF SessionsOK
  <2>12. LinksOK'
    <3>1. ASSUME NEW i \in 1 .. Len(links), NEW s, s = links[i] PROVE OfUser(s.user, s.hash, s.resets)'
      <4>1. OfUser(s.user, s.hash, s.resets)
        BY <3>1 DEF IInv, RowsOK, LinksOK
      <4> QED
        BY <2>7, <4>1, OfUserStays DEF IInv, RowsOK
    <3> QED
      BY <2>2, <3>1 DEF LinksOK
  <2>13. TwinsWereConcurrent'
    <3>1. ASSUME NEW a \in Users, NEW b \in Users, a # b
          PROVE  /\ users'[a].name # users'[b].name
                 /\ \/ Fold(users'[a].name) = Fold(users'[b].name)
                    \/ Fold(users'[a].email) = Fold(users'[b].email)
                    => a \notin users'[b].knew /\ b \notin users'[a].knew
      BY <2>6, <3>1 DEF IInv, RowsOK, TwinsWereConcurrent
    <3>2. ASSUME NEW a \in Users
          PROVE  /\ users[a].name # row.name
                 /\ \/ Fold(users[a].name) = Fold(row.name) \/ Fold(users[a].email) = Fold(row.email)
                    => a \notin row.knew
                 /\ Len(users) + 1 \notin users[a].knew
      <4>1. users[a].name # row.name /\ (a \in row.knew => Fold(users[a].name) # Fold(row.name)
                                             /\ Fold(users[a].email) # Fold(row.email))
        BY <1>3, <1>5, <2>4
      <4>2. users[a].knew \subseteq 1 .. a - 1 /\ a \in 1 .. Len(users)
        BY DEF IInv, RowsOK, UsersOK, Users
      <4>3. Len(users) + 1 \notin 1 .. a - 1
        BY <2>5, <4>2
      <4> QED
        BY <4>1, <4>2, <4>3
    <3>3. ASSUME NEW a \in Users', NEW b \in Users', a # b
          PROVE  /\ users'[a].name # users'[b].name
                 /\ \/ Fold(users'[a].name) = Fold(users'[b].name)
                    \/ Fold(users'[a].email) = Fold(users'[b].email)
                    => a \notin users'[b].knew /\ b \notin users'[a].knew
      <4>1. CASE a \in Users /\ b \in Users
        BY <3>1, <3>3, <4>1
      <4>2. CASE a \in Users /\ b = Len(users) + 1
        BY <2>6, <3>2, <4>2
      <4>3. CASE b \in Users /\ a = Len(users) + 1
        BY <2>6, <3>2, <4>3
      <4> QED
        BY <2>8, <3>3, <4>1, <4>2, <4>3
    <3> QED
      BY <3>3 DEF TwinsWereConcurrent
  <2>14. Moves
    BY <2>2, <2>7 DEF Moves, SessionsMove, LinksGrow, IInv, RowsOK, TypeOK
  <2> QED
    <3>1. PICK u : u = Len(users) + 1
      OBVIOUS
    <3>2. OfUser(u, row.hash, row.resets)' /\ u \in Nat /\ Take(p, "login", u, row)
      BY <2>2, <2>4, <2>5, <2>6, <2>8, <3>1 DEF OfUser
    <3>3. RequestsOK'
      BY <1>1, <1>2, <2>3, <2>14, <3>2, TakesToLogin
    <3> QED
      BY <2>9, <2>10, <2>11, <2>12, <2>13, <3>3 DEF IInv, RowsOK
<1> QED
  BY <1>4, <1>5

LEMMA OpenSessionIInv ==
    ASSUME IInv, NEW p \in Requests, OpenSession(p)
    PROVE  IInv'
<1>1. PICK q : q = request[p]
  OBVIOUS
<1>2. RequestOK(q) /\ q \in Request /\ q.step = "session"
  BY <1>1, RequestOf DEF OpenSession
<1>3. q.op \in {"register", "login"} /\ q.copy \in User /\ OfUser(q.user, q.copy.hash, q.copy.resets)
  BY <1>2 DEF RequestOK, LoginOK
<1>4. PICK s : s = [user |-> q.user, hash |-> q.copy.hash, resets |-> q.copy.resets]
  OBVIOUS
<1>5. OfUser(s.user, s.hash, s.resets) /\ s \in [user : Users, hash : 1 .. lastHash, resets : Nat]
  BY <1>3, <1>4 DEF OfUser
<1>6. UNCHANGED <<users, lastHash, mail, links, uses>> /\ lastKey' = lastKey + 1
      /\ sessions' = Opened(q, q.copy.hash) /\ (Answer(p, 200) \/ Answer(p, 201))
  BY <1>1 DEF OpenSession, linkVars
<1>7. lastKey \in Nat /\ DOMAIN sessions \subseteq 1 .. lastKey
  BY DEF IInv, RowsOK, TypeOK
<1>8. /\ DOMAIN sessions' = DOMAIN sessions \union {lastKey + 1}
      /\ \A k \in DOMAIN sessions : sessions'[k] = sessions[k]
      /\ sessions'[lastKey + 1] = s
  BY <1>4, <1>6, <1>7 DEF Opened
<1>9. UsersGrow
  BY <1>6, UsersStay DEF IInv, RowsOK
<1>10. TypeOK'
  <2>1. DOMAIN sessions' \subseteq 1 .. lastKey' /\ lastKey' \in Nat
    BY <1>6, <1>7, <1>8
  <2>2. \A k \in DOMAIN sessions' : sessions'[k] \in [user : Users, hash : 1 .. lastHash, resets : Nat]
    BY <1>5, <1>8 DEF IInv, RowsOK, TypeOK
  <2> QED
    BY <1>6, <2>1, <2>2 DEF IInv, RowsOK, TypeOK, Users
<1>11. SessionsOK'
  <2>1. ASSUME NEW k \in DOMAIN sessions', NEW t, t = sessions'[k] PROVE OfUser(t.user, t.hash, t.resets)'
    <3>1. OfUser(t.user, t.hash, t.resets)
      BY <1>5, <1>8, <2>1 DEF IInv, RowsOK, SessionsOK
    <3> QED
      BY <1>9, <3>1, OfUserStays DEF IInv, RowsOK
  <2> QED
    BY <2>1 DEF SessionsOK
<1>12. UsersOK' /\ LinksOK' /\ TwinsWereConcurrent'
  BY <1>6 DEF IInv, RowsOK, UsersOK, LinksOK, OfUser, TwinsWereConcurrent, Users
<1>13. Moves
  <2>1. SessionsMove
    BY <1>6, <1>7, <1>8 DEF SessionsMove
  <2> QED
    BY <1>6, <1>9, <2>1 DEF Moves, LinksGrow, IInv, RowsOK, TypeOK
<1>14. RequestsOK'
  BY <1>1, <1>3, <1>6, <1>13, Answered
<1> QED
  BY <1>10, <1>11, <1>12, <1>14 DEF IInv, RowsOK

LEMMA SendLinkIInv ==
    ASSUME IInv, NEW u \in Users, SendLink(u)
    PROVE  IInv'
<1>1. UNCHANGED <<users, lastHash, sessions, lastKey, request>> /\ mail' \subseteq Users
  BY DEF SendLink, sessionVars, IInv, RowsOK, TypeOK
<1>2. PICK link : link = [user |-> u, hash |-> users[u].hash, logins |-> users[u].logins,
                          resets |-> users[u].resets]
  OBVIOUS
<1>3. CASE users[u].active
  <2>1. links' = Append(links, link) /\ uses' = Append(uses, 0)
    BY <1>2, <1>3 DEF SendLink
  <2>2. users[u].hash \in 1 .. lastHash /\ users[u].logins \in Nat /\ users[u].resets \in Nat
    <3>1. users[u] \in User /\ lastHash \in Nat
      BY UserFields DEF IInv, RowsOK, TypeOK
    <3> QED
      BY <3>1 DEF User, IInv, RowsOK, UsersOK
  <2>3. /\ link \in [user : Users, hash : 1 .. lastHash, logins : Nat, resets : Nat]
        /\ OfUser(link.user, link.hash, link.resets)
    BY <1>2, <2>2 DEF OfUser
  <2> DEFINE L == [user : Users, hash : 1 .. lastHash, logins : Nat, resets : Nat]
  <2>4. links \in Seq(L) /\ uses \in Seq(Nat) /\ Len(uses) = Len(links) /\ Len(links) \in Nat
    BY DEF IInv, RowsOK, TypeOK
  <2>5. /\ links' \in Seq(L) /\ Len(links') = Len(links) + 1 /\ links'[Len(links) + 1] = link
        /\ \A i \in 1 .. Len(links) : links'[i] = links[i]
    <3> HIDE DEF L
    <3>1. link \in L
      BY <2>3 DEF L
    <3> QED
      BY <2>1, <2>4, <3>1, Appended
  <2>6. uses' \in Seq(Nat) /\ Len(uses') = Len(uses) + 1
    BY <2>1, <2>4
  <2>7. TypeOK'
    BY <1>1, <2>4, <2>5, <2>6 DEF IInv, RowsOK, TypeOK, Users
  <2>8. LinksOK'
    <3>1. ASSUME NEW i \in 1 .. Len(links'), NEW t, t = links'[i] PROVE OfUser(t.user, t.hash, t.resets)
      <4>1. CASE i = Len(links) + 1
        BY <2>3, <2>5, <3>1, <4>1
      <4>2. CASE i \in 1 .. Len(links)
        BY <2>5, <3>1, <4>2 DEF IInv, RowsOK, LinksOK
      <4> QED
        BY <2>4, <2>5, <4>1, <4>2
    <3> QED
      BY <1>1, <3>1 DEF LinksOK, OfUser, Users
  <2>9. UsersOK' /\ SessionsOK' /\ TwinsWereConcurrent'
    BY <1>1 DEF IInv, RowsOK, UsersOK, SessionsOK, OfUser, TwinsWereConcurrent, Users
  <2>10. Moves
    <3>1. UsersGrow
      BY <1>1, UsersStay DEF IInv, RowsOK
    <3>2. LinksGrow
      <4> HIDE DEF L
      <4>1. Len(links') \in Nat /\ Len(links) <= Len(links')
        BY <2>4, <2>5
      <4> QED
        BY <2>5, <4>1 DEF LinksGrow
    <3>3. SessionsMove
      BY <1>1 DEF SessionsMove, IInv, RowsOK, TypeOK
    <3> QED
      BY <3>1, <3>2, <3>3 DEF Moves
  <2> QED
    BY <1>1, <2>7, <2>8, <2>9, <2>10, NoRequestMoves DEF IInv, RowsOK
<1>4. CASE ~users[u].active
  <2>1. UNCHANGED <<links, uses>>
    BY <1>4 DEF SendLink
  <2>2. RowsOK'
    BY <1>1, <2>1 DEF IInv, RowsOK, TypeOK, UsersOK, SessionsOK, LinksOK, OfUser, TwinsWereConcurrent, Users
  <2>3. Moves
    <3>1. UsersGrow
      BY <1>1, UsersStay DEF IInv, RowsOK
    <3> QED
      BY <1>1, <2>1, <3>1 DEF Moves, SessionsMove, LinksGrow, IInv, RowsOK, TypeOK
  <2> QED
    BY <1>1, <2>2, <2>3, NoRequestMoves DEF IInv
<1> QED
  BY <1>3, <1>4

-----------------------------------------------------------------------------
(* The invariant.                                                          *)

LEMMA Initially == Init => IInv
<1> SUFFICES ASSUME Init PROVE IInv
  OBVIOUS
<1>1. /\ users = <<>> /\ lastHash = 0 /\ lastKey = 0 /\ mail = {} /\ links = <<>> /\ uses = <<>>
      /\ DOMAIN sessions = {} /\ Users = {}
  BY DEF Init, Users
<1>2. TypeOK
  BY <1>1 DEF TypeOK
<1>3. UsersOK /\ SessionsOK /\ LinksOK /\ TwinsWereConcurrent
  BY <1>1 DEF UsersOK, SessionsOK, LinksOK, TwinsWereConcurrent
<1>4. RequestsOK
  BY IdleOK DEF Init, RequestsOK
<1> QED
  BY <1>2, <1>3, <1>4 DEF IInv, RowsOK

LEMMA Inductive == IInv /\ [Next]_vars => IInv'
<1> SUFFICES ASSUME IInv, [Next]_vars PROVE IInv'
  OBVIOUS
<1>1. CASE UNCHANGED vars
  <2>1. RowsOK' /\ Moves
    BY <1>1, RowsUnchanged DEF vars, sessionVars, linkVars, IInv
  <2> QED
    BY <1>1, <2>1, NoRequestMoves DEF vars, IInv
<1>2. ASSUME NEW p \in Requests, Step(p) PROVE IInv'
  BY <1>2, AuthenticateIInv, CheckNameIInv, CheckEmailIInv, InsertUserIInv, CheckPasswordIInv, SaveLoginIInv,
     OpenSessionIInv, CloseSessionIInv, ForgotIInv, CheckLinkIInv, SavePasswordIInv DEF Step
<1> QED
  BY <1>1, <1>2, ArriveIInv, SendLinkIInv, SetActiveIInv DEF Next

LEMMA Invariant == Spec => []IInv
BY Initially, Inductive, PTL DEF Spec

\* Every variable has its type, and every reference its row.
THEOREM TypesHold == Spec => []TypeOK
<1>1. IInv => TypeOK
  BY DEF IInv, RowsOK
<1> QED
  BY Invariant, <1>1, PTL

\* After a reset every earlier session of the user is over (ResetEndsSessions).
THEOREM ResetsEndSessions == Spec => []ResetEndsSessions
<1>1. IInv => ResetEndsSessions
  BY DEF IInv, RequestsOK, RequestOK, MeOK, ResetEndsSessions
<1> QED
  BY Invariant, <1>1, PTL

\* A link sent before a reset is refused to every later request (ResetEndsLinks).
THEOREM ResetsEndLinks == Spec => []ResetEndsLinks
<1>1. IInv => ResetEndsLinks
  BY DEF IInv, RequestsOK, RequestOK, ConfirmOK, ResetEndsLinks
<1> QED
  BY Invariant, <1>1, PTL

\* Users whose names or emails differ in case only registered at the same time
\* (TwinsWereConcurrent).
THEOREM TwinsAreConcurrent == Spec => []TwinsWereConcurrent
<1>1. IInv => TwinsWereConcurrent
  BY DEF IInv, RowsOK
<1> QED
  BY Invariant, <1>1, PTL

\* Nothing but the administrator makes a user active or inactive (OnlyAdminActivates).
THEOREM ActivityIsKept == Spec => OnlyAdminActivates
<1> DEFINE A == \A u \in Users : users'[u].active # users[u].active => request' = request
<1>1. ASSUME IInv, [Next]_vars PROVE [A]_vars
  <2>1. CASE users' = users
    BY <2>1
  <2>2. ASSUME NEW v, users' = [users EXCEPT ![v] = users'[v]], v \in Users => users'[v].active = users[v].active
        PROVE  A
    BY <2>2 DEF IInv, RowsOK, TypeOK, Users
  <2>3. ASSUME NEW p \in Requests, InsertUser(p) PROVE A
    <3>1. CASE UNCHANGED users
      BY <3>1
    <3>2. ASSUME NEW row, users' = Append(users, row) PROVE A
      BY <3>2 DEF IInv, RowsOK, TypeOK, Users
    <3> QED
      BY <2>3, <3>1, <3>2 DEF InsertUser
  <2>4. ASSUME NEW p \in Requests, SaveLogin(p) PROVE A
    BY <2>4 DEF SaveLogin, IInv, RowsOK, TypeOK, Users
  <2>5. ASSUME NEW p \in Requests, SavePassword(p) PROVE A
    BY <2>5 DEF SavePassword, IInv, RowsOK, TypeOK, Users
  <2>6. ASSUME NEW u \in Users, SetActive(u) PROVE A
    BY <2>6 DEF SetActive
  <2>7. ASSUME NEW p \in Requests, Arrive(p) PROVE users' = users
    BY <2>7 DEF Arrive, Send
  <2>8. ASSUME NEW p \in Requests, Step(p) PROVE A
    <3>1. CASE Authenticate(p) \/ CheckName(p) \/ CheckEmail(p)
      BY <2>1, <3>1 DEF Authenticate, CheckName, CheckEmail
    <3>2. CASE (\E u \in Users : CheckPassword(p, u)) \/ OpenSession(p) \/ CloseSession(p)
      BY <2>1, <3>2 DEF CheckPassword, OpenSession, CloseSession
    <3>3. CASE Forgot(p) \/ CheckLink(p)
      BY <2>1, <3>3 DEF Forgot, CheckLink
    <3> QED
      BY <2>3, <2>4, <2>5, <2>8, <3>1, <3>2, <3>3 DEF Step
  <2>9. ASSUME NEW u \in Users, SendLink(u) PROVE A
    BY <2>9 DEF SendLink
  <2>10. CASE UNCHANGED vars
    BY <2>10
  <2> QED
    BY <1>1, <2>1, <2>6, <2>7, <2>8, <2>9, <2>10 DEF Next
<1> QED
  BY Invariant, <1>1, PTL DEF Spec, OnlyAdminActivates
=============================================================================
