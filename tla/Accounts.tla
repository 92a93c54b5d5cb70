------------------------------ MODULE Accounts ------------------------------
(***************************************************************************)
(* Accounts: registration, sessions and password reset                     *)
(* (src/apps/users: views.py, serializers.py, services.py, tasks.py), on   *)
(* top of django.contrib.auth and its database sessions.                   *)
(*                                                                         *)
(* A password is abstracted to the number of its hash: every set_password  *)
(* gives a hash never seen before, and a client who knows the password     *)
(* that was hashed as h "logs in with h".  A session carries the hash of   *)
(* the user as login() saw it; a reset link carries what the token is      *)
(* derived from, the hash and last_login.  The checks on CSRF tokens and   *)
(* on the strength of passwords are left out.                              *)
(***************************************************************************)
EXTENDS Integers, Sequences, FiniteSets

CONSTANTS
    Requests,     \* slots for requests being served at the same time
    Forms,        \* what visitors register with: records of name and email
    Fold(_),      \* folds the case of a name or an email
    MaxUsers,     \* bounds on the users, the passwords ever set, the sessions and the links
    MaxHash,
    MaxSessions,
    MaxLinks,
    Ops           \* the operations clients ask for

ASSUME AccountsBounds == MaxUsers \in Nat /\ MaxHash \in Nat /\ MaxSessions \in Nat /\ MaxLinks \in Nat
ASSUME AccountsOps ==
    Ops \subseteq {"register", "login", "logout", "me", "forgot", "confirm", "admin"}

VARIABLES
    users,      \* the User rows, a sequence: the primary key is the index
    lastHash,   \* the last password hash made
    sessions,   \* the session rows by key
    lastKey,    \* the last session key made
    mail,       \* tasks: users to send a reset link to
    links,      \* the links sent
    uses,       \* history: uses[i], how many confirmations link i allowed
    request     \* the state of each request

vars == <<users, lastHash, sessions, lastKey, mail, links, uses, request>>
sessionVars == <<sessions, lastKey>>
linkVars == <<mail, links, uses>>

NoOne == 0
Users == 1 .. Len(users)
\* logins stands for last_login; resets is history: the passwords set by reset.
User == [name : {f.name : f \in Forms}, email : {f.email : f \in Forms}, hash : Nat \ {0},
         logins : Nat, active : BOOLEAN, resets : Nat, knew : SUBSET Nat]

\* key: the session cookie; user: the row a request works on, copy: as it read it;
\* then: history, the resets of the user concerned when the request came;
\* knew: history, the users there were.
IdleRequest == [step |-> "idle", op |-> "none", key |-> NoOne, form |-> <<>>, hash |-> 0, link |-> 0,
                user |-> NoOne, copy |-> <<>>, then |-> 0, knew |-> {}]

Init ==
    /\ users = <<>> /\ lastHash = 0
    /\ sessions = <<>> /\ lastKey = 0
    /\ mail = {} /\ links = <<>> /\ uses = <<>>
    /\ request = [p \in Requests |-> IdleRequest]

-----------------------------------------------------------------------------
At(p, op, step) == request[p].op = op /\ request[p].step = step
Goto(p, step) == request' = [request EXCEPT ![p] = [request[p] EXCEPT !.step = step]]
\* The same, and the request works on the row of u from then on, as it reads now.
Take(p, step, u, row) ==
    request' = [request EXCEPT ![p] =
        [request[p] EXCEPT !.step = step, !.user = u, !.copy = row, !.knew = {}]]
Free(p) == request[p].step \in {"idle", "done"}

Statuses == {200, 201, 204, 400, 403, 500}
\* The response; the slot keeps a 200 to "me" and "confirm" for the properties.
Answer(p, status) ==
    LET q == request[p]
        kept == [IdleRequest EXCEPT !.step = "done", !.op = q.op, !.key = q.key, !.link = q.link,
                                    !.then = q.then]
    IN
    /\ status \in Statuses
    /\ request' = [request EXCEPT ![p] =
           IF status = 200 /\ q.op \in {"me", "confirm"} THEN kept ELSE IdleRequest]

\* Requests that may still open a session: the bounds leave room for them.
Opening(ops) == Cardinality({p \in Requests : request[p].op \in ops /\ ~Free(p)})
Room(op) ==
    /\ op \in {"register", "login"} => lastKey + Opening({"register", "login"}) < MaxSessions
    /\ op = "register" => Len(users) + Opening({"register"}) < MaxUsers
    /\ op \in {"register", "confirm"} => lastHash + Opening({"register", "confirm"}) < MaxHash

\* Mutant of TokenFits: the token is not derived from the password.
TokenFitsAnyPassword(link, row) == link.logins = row.logins

\* default_token_generator.check_token: the token is derived from these fields.
TokenFits(link, row) == link.hash = row.hash /\ link.logins = row.logins

\* The user whose session the cookie names, as get_user finds it: NoOne unless the
\* session has the user's current hash.
SessionUser(key) ==
    IF key \notin DOMAIN sessions THEN NoOne
    ELSE LET s == sessions[key] IN
         IF users[s.user].active /\ s.hash = users[s.user].hash THEN s.user ELSE NoOne

Resets(u) == IF u = NoOne THEN 0 ELSE users[u].resets

\* A request arrives.
Send(p, op, key, form, hash, link) ==
    LET owner == CASE op = "me" -> IF key \in DOMAIN sessions THEN sessions[key].user ELSE NoOne
                   [] op = "confirm" -> links[link].user
                   [] OTHER -> NoOne
    IN
    /\ Free(p) /\ op \in Ops /\ Room(op)
    /\ request' = [request EXCEPT ![p] =
           [IdleRequest EXCEPT !.step = "auth", !.op = op, !.key = key, !.form = form, !.hash = hash,
                               !.link = link, !.then = Resets(owner),
                               !.knew = IF op = "register" THEN Users ELSE {}]]
    /\ UNCHANGED <<users, lastHash, sessionVars, linkVars>>

\* SessionAuthentication, then the permissions: IsAnonymous for register and login,
\* IsAuthenticated for logout and me.  A session with an old hash is flushed.
Authenticate(p) ==
    LET q == request[p]
        user == SessionUser(q.key)
        stale == q.key \in DOMAIN sessions /\ users[sessions[q.key].user].active /\ user = NoOne
    IN
    /\ q.step = "auth"
    /\ sessions' = IF stale THEN [k \in DOMAIN sessions \ {q.key} |-> sessions[k]] ELSE sessions
    /\ CASE q.op \in {"register", "login"} ->
              IF user # NoOne THEN Answer(p, 403) ELSE Goto(p, "check")
         [] q.op = "me" -> Answer(p, IF user = NoOne THEN 403 ELSE 200)
         [] q.op = "logout" -> IF user = NoOne THEN Answer(p, 403) ELSE Goto(p, "flush")
         [] OTHER -> Goto(p, "check")
    /\ UNCHANGED <<users, lastHash, lastKey, linkVars>>

-----------------------------------------------------------------------------
(* Registration.                                                           *)

\* validate_username, validate_email: nobody has it in any case.
CheckName(p) ==
    /\ At(p, "register", "check")
    /\ IF \E u \in Users : Fold(users[u].name) = Fold(request[p].form.name)
       THEN Answer(p, 400) ELSE Goto(p, "email")
    /\ UNCHANGED <<users, lastHash, sessionVars, linkVars>>

\* Mutant of CheckEmail: an exact comparison.
CheckEmailExactly(p) ==
    /\ At(p, "register", "email")
    /\ IF \E u \in Users : users[u].email = request[p].form.email
       THEN Answer(p, 400) ELSE Goto(p, "insert")
    /\ UNCHANGED <<users, lastHash, sessionVars, linkVars>>

CheckEmail(p) ==
    /\ At(p, "register", "email")
    /\ IF \E u \in Users : Fold(users[u].email) = Fold(request[p].form.email)
       THEN Answer(p, 400) ELSE Goto(p, "insert")
    /\ UNCHANGED <<users, lastHash, sessionVars, linkVars>>

\* register_user: the only constraint is on the exact username.
InsertUser(p) ==
    LET q == request[p]
        row == [name |-> q.form.name, email |-> q.form.email, hash |-> lastHash + 1, logins |-> 0,
                active |-> TRUE, resets |-> 0, knew |-> q.knew]
    IN
    /\ At(p, "register", "insert")
    /\ IF \E u \in Users : users[u].name = q.form.name
       THEN Answer(p, 500) /\ UNCHANGED <<users, lastHash>>
       ELSE /\ users' = Append(users, row) /\ lastHash' = lastHash + 1
            /\ Take(p, "login", Len(users) + 1, row)
    /\ UNCHANGED <<sessionVars, linkVars>>

-----------------------------------------------------------------------------
(* Sessions.                                                               *)

\* authenticate(): the row is read and its password compared.
CheckPassword(p, u) ==
    /\ At(p, "login", "check") /\ users[u].name = request[p].form.name
    /\ IF users[u].active /\ users[u].hash = request[p].hash
       THEN Take(p, "login", u, users[u])
       ELSE Answer(p, 400)
    /\ UNCHANGED <<users, lastHash, sessionVars, linkVars>>

\* login(): the session the cookie names, that of an inactive user, is flushed;
\* user_logged_in saves last_login, that field only.
SaveLogin(p) ==
    LET q == request[p] IN
    /\ q.step = "login"
    /\ sessions' = [k \in DOMAIN sessions \ {q.key} |-> sessions[k]]
    /\ users' = [users EXCEPT ![q.user] = [users[q.user] EXCEPT !.logins = users[q.user].logins + 1]]
    /\ Goto(p, "session")
    /\ UNCHANGED <<lastHash, lastKey, linkVars>>

\* The sessions with one more, that of the user q works on.
Opened(q, hash) ==
    [k \in DOMAIN sessions \union {lastKey + 1} |->
        IF k \in DOMAIN sessions THEN sessions[k]
        ELSE [user |-> q.user, hash |-> hash, resets |-> q.copy.resets]]

\* Mutant of OpenSession: login() is given the user read anew.
OpenSessionAnew(p) ==
    LET q == request[p] IN
    /\ q.step = "session"
    /\ sessions' = Opened(q, users[q.user].hash)
    /\ lastKey' = lastKey + 1
    /\ Answer(p, IF q.op = "login" THEN 200 ELSE 201)
    /\ UNCHANGED <<users, lastHash, linkVars>>

\* The session is saved with the response, with the hash of the row login() was given.
OpenSession(p) ==
    LET q == request[p] IN
    /\ q.step = "session"
    /\ sessions' = Opened(q, q.copy.hash)
    /\ lastKey' = lastKey + 1
    /\ Answer(p, IF q.op = "login" THEN 200 ELSE 201)
    /\ UNCHANGED <<users, lastHash, linkVars>>

\* logout()
CloseSession(p) ==
    /\ At(p, "logout", "flush")
    /\ sessions' = [k \in DOMAIN sessions \ {request[p].key} |-> sessions[k]]
    /\ Answer(p, 204)
    /\ UNCHANGED <<users, lastHash, lastKey, linkVars>>

-----------------------------------------------------------------------------
(* Password reset.                                                         *)

\* request_password_reset: a task per active user with the email, in any case.
Forgot(p) ==
    /\ At(p, "forgot", "check")
    /\ mail' = mail \union
           {u \in Users : users[u].active /\ Fold(users[u].email) = Fold(request[p].form.email)}
    /\ Answer(p, 200)
    /\ UNCHANGED <<users, lastHash, sessionVars, links, uses>>

\* send_password_reset_email: the token is made from the row as it is now.
SendLink(u) ==
    /\ u \in mail /\ Len(links) < MaxLinks
    /\ mail' = mail \ {u}
    /\ IF users[u].active
       THEN /\ links' = Append(links, [user |-> u, hash |-> users[u].hash, logins |-> users[u].logins,
                                       resets |-> users[u].resets])
            /\ uses' = Append(uses, 0)
       ELSE UNCHANGED <<links, uses>>
    /\ UNCHANGED <<users, lastHash, sessionVars, request>>

\* PasswordResetConfirmSerializer: an active user whom the token fits.
CheckLink(p) ==
    LET link == links[request[p].link] IN
    /\ At(p, "confirm", "check")
    /\ IF users[link.user].active /\ TokenFits(link, users[link.user])
       THEN Take(p, "save", link.user, users[link.user])
       ELSE Answer(p, 400)
    /\ UNCHANGED <<users, lastHash, sessionVars, linkVars>>

\* What saving the new password changes besides the row.
Confirmed(p) ==
    /\ lastHash' = lastHash + 1
    /\ uses' = [uses EXCEPT ![request[p].link] = uses[request[p].link] + 1]
    /\ Answer(p, 200)
    /\ UNCHANGED <<sessionVars, mail, links>>

\* Mutant of SavePassword: save() without update_fields.
SavePasswordWhole(p) ==
    LET q == request[p] IN
    /\ At(p, "confirm", "save")
    /\ users' = [users EXCEPT ![q.user] =
           [q.copy EXCEPT !.hash = lastHash + 1, !.resets = users[q.user].resets + 1]]
    /\ Confirmed(p)

\* reset_password: set_password, save(update_fields=["password"]).
SavePassword(p) ==
    LET u == request[p].user IN
    /\ At(p, "confirm", "save")
    /\ users' = [users EXCEPT ![u] =
           [users[u] EXCEPT !.hash = lastHash + 1, !.resets = users[u].resets + 1]]
    /\ Confirmed(p)

\* An administrator clears or sets is_active.
SetActive(u) ==
    /\ "admin" \in Ops
    /\ users' = [users EXCEPT ![u] = [users[u] EXCEPT !.active = ~users[u].active]]
    /\ UNCHANGED <<lastHash, sessionVars, linkVars, request>>

-----------------------------------------------------------------------------
Step(p) ==
    \/ Authenticate(p) \/ CheckName(p) \/ CheckEmail(p) \/ InsertUser(p)
    \/ (\E u \in Users : CheckPassword(p, u)) \/ SaveLogin(p) \/ OpenSession(p) \/ CloseSession(p)
    \/ Forgot(p) \/ CheckLink(p) \/ SavePassword(p)

Keys == NoOne .. lastKey

Arrive(p) ==
    \/ \E key \in Keys, f \in Forms : Send(p, "register", key, f, 0, 0)
    \/ \E key \in Keys, u \in Users, h \in 1 .. lastHash :
        Send(p, "login", key, [name |-> users[u].name], h, 0)
    \/ \E key \in Keys, op \in {"logout", "me"} : Send(p, op, key, <<>>, 0, 0)
    \/ \E f \in Forms : Send(p, "forgot", NoOne, [email |-> f.email], 0, 0)
    \/ \E i \in DOMAIN links : Send(p, "confirm", NoOne, <<>>, 0, i)

Next ==
    \/ \E p \in Requests : Arrive(p) \/ Step(p)
    \/ \E u \in Users : SendLink(u) \/ SetActive(u)

Spec == Init /\ [][Next]_vars

-----------------------------------------------------------------------------
(* Properties.                                                             *)

\* Every variable has its type, and every reference its row.
TypeOK ==
    /\ users \in Seq(User) /\ lastHash \in Nat /\ lastKey \in Nat
    /\ DOMAIN sessions \subseteq 1 .. lastKey
    /\ \A k \in DOMAIN sessions : sessions[k] \in [user : Users, hash : 1 .. lastHash, resets : Nat]
    /\ mail \subseteq Users
    /\ links \in Seq([user : Users, hash : 1 .. lastHash, logins : Nat, resets : Nat])
    /\ uses \in Seq(Nat) /\ Len(uses) = Len(links)

\* After a reset every earlier session of the user is over, that of a login which
\* compared the old password while the reset was saved included: a request that
\* comes later is answered only under a session opened with the password it set.
ResetEndsSessions ==
    \A p \in Requests :
        LET q == request[p] IN
        q.op = "me" /\ q.step = "done" /\ q.key \in DOMAIN sessions =>
            sessions[q.key].resets >= q.then

\* A link sent before a password was reset, by itself or by another link, is refused
\* to every request that comes later.
ResetEndsLinks ==
    \A p \in Requests :
        LET q == request[p] IN
        q.op = "confirm" /\ q.step = "done" => links[q.link].resets >= q.then

\* Two users have names or emails that differ in case only, or one email, only if
\* neither was there when the other's registration arrived; usernames never agree.
TwinsWereConcurrent ==
    \A a, b \in Users : a # b =>
        /\ users[a].name # users[b].name
        /\ \/ Fold(users[a].name) = Fold(users[b].name)
           \/ Fold(users[a].email) = Fold(users[b].email)
           => a \notin users[b].knew /\ b \notin users[a].knew

\* Nothing but the administrator makes a user active or inactive: a reset saved from
\* a copy read before does not bring a deactivated user back.
OnlyAdminActivates ==
    [][\A u \in Users : users'[u].active # users[u].active => request' = request]_vars

\* Stated by README, and violated: a link sets a password once.
LinksAreSingleUse == \A i \in DOMAIN uses : uses[i] <= 1
=============================================================================
