------------------------ MODULE SubscriptionsProofs ------------------------
(***************************************************************************)
(* Subscriptions implements Register for any number of requests, users and *)
(* locations.  The inductive invariant adds to the types that a request    *)
(* only reaches the statements of its own operation; with it, a step of a  *)
(* request is either the effect of its call or invisible.                  *)
(***************************************************************************)
EXTENDS Subscriptions, TLAPS

\* A POST checks and inserts, a DELETE deletes.
OpOK ==
    \A p \in Requests :
        /\ request[p].step \in {"check", "insert"} => request[p].op = "add"
        /\ request[p].step = "delete" => request[p].op = "remove"

\* What was removed is not there.
GoneOK == alive \intersect gone = {}

IInv == TypeOK /\ OpOK /\ GoneOK

LEMMA IdleRequestType == IdleRequest \in Request
  BY NonEmptyAssumption DEF IdleRequest, Request, Steps, Ops, Statuses, NoAnswer

LEMMA AnswerType ==
    ASSUME TypeOK, NEW p \in Requests, NEW status \in Statuses, Answer(p, status)
    PROVE  request' \in [Requests -> Request]
<1>1. [request[p] EXCEPT !.step = "done", !.status = status] \in Request
  BY DEF TypeOK, Request, Steps
<1> QED
  BY <1>1 DEF TypeOK, Answer

LEMMA GotoType ==
    ASSUME TypeOK, NEW p \in Requests, NEW step \in Steps, Goto(p, step)
    PROVE  request' \in [Requests -> Request]
<1>1. [request[p] EXCEPT !.step = step] \in Request
  BY DEF TypeOK, Request
<1> QED
  BY <1>1 DEF TypeOK, Goto

\* What a request remembers keeps its type through every step of every request.
LEMMA TypeInductive == TypeOK /\ [Next]_vars => TypeOK'
<1> SUFFICES ASSUME TypeOK, [Next]_vars PROVE TypeOK'
  OBVIOUS
<1>1. ASSUME NEW p \in Requests, NEW op \in Ops, NEW u \in Users, NEW l \in Locations,
             Send(p, op, u, l)
      PROVE  TypeOK'
  BY <1>1 DEF Send, TypeOK, Request, Steps, Statuses, NoAnswer
<1>2. ASSUME NEW p \in Requests, GetLocation(p) PROVE TypeOK'
  <2>1. request' \in [Requests -> Request]
    BY <1>2, AnswerType, GotoType DEF GetLocation, Steps, Statuses
  <2> QED
    BY <1>2, <2>1 DEF GetLocation, TypeOK
<1>3. ASSUME NEW p \in Requests, Check(p) PROVE TypeOK'
  <2>1. request' \in [Requests -> Request]
    BY <1>3, AnswerType, GotoType DEF Check, Steps, Statuses
  <2> QED
    BY <1>3, <2>1 DEF Check, TypeOK
<1>4. ASSUME NEW p \in Requests, Insert(p) PROVE TypeOK'
  <2>1. Pair(p) \in Users \X Locations
    BY DEF Pair, TypeOK, Request
  <2>2. request' \in [Requests -> Request]
    BY <1>4, AnswerType DEF Insert, Statuses
  <2> QED
    BY <1>4, <2>1, <2>2 DEF Insert, TypeOK
<1>5. ASSUME NEW p \in Requests, Delete(p) PROVE TypeOK'
  <2>1. request' \in [Requests -> Request]
    BY <1>5, AnswerType DEF Delete, Statuses
  <2> QED
    BY <1>5, <2>1 DEF Delete, TypeOK
<1>6. ASSUME NEW p \in Requests, Kill(p) PROVE TypeOK'
  <2>1. request' \in [Requests -> Request]
    BY <1>6, AnswerType DEF Kill, Statuses
  <2> QED
    BY <1>6, <2>1 DEF Kill, TypeOK
<1>7. ASSUME NEW l \in Locations, SoftDelete(l) \/ Restore(l) PROVE TypeOK'
  BY <1>7 DEF SoftDelete, Restore, TypeOK
<1>8. ASSUME NEW x \in Users \union Locations, Remove(x) PROVE TypeOK'
  BY <1>8 DEF Remove, TypeOK
<1>9. CASE UNCHANGED vars
  BY <1>9 DEF vars, TypeOK
<1> QED
  BY <1>1, <1>2, <1>3, <1>4, <1>5, <1>6, <1>7, <1>8, <1>9 DEF Next, Step

LEMMA OpsInductive == TypeOK /\ OpOK /\ [Next]_vars => OpOK'
<1> SUFFICES ASSUME TypeOK, OpOK, [Next]_vars PROVE OpOK'
  OBVIOUS
<1> USE DEF TypeOK
<1>1. ASSUME NEW p \in Requests, NEW op \in Ops, NEW u \in Users, NEW l \in Locations,
             Send(p, op, u, l)
      PROVE  OpOK'
  BY <1>1 DEF Send, OpOK
<1>2. ASSUME NEW p \in Requests, NEW status, Answer(p, status) PROVE OpOK'
  <2>1. [request[p] EXCEPT !.step = "done", !.status = status].step = "done"
    BY DEF Request
  <2> QED
    BY <1>2, <2>1 DEF Answer, OpOK
<1>3. ASSUME NEW p \in Requests, NEW step \in Steps, Goto(p, step),
             step \in {"check", "insert"} => request[p].op = "add",
             step = "delete" => request[p].op = "remove"
      PROVE  OpOK'
  <2>1. /\ [request[p] EXCEPT !.step = step].step = step
        /\ [request[p] EXCEPT !.step = step].op = request[p].op
    BY DEF Request
  <2>2. request' = [request EXCEPT ![p] = [request[p] EXCEPT !.step = step]]
    BY <1>3 DEF Goto
  <2> QED
    BY <1>3, <2>1, <2>2 DEF OpOK
<1>4. ASSUME NEW p \in Requests, GetLocation(p) PROVE OpOK'
  BY <1>2, <1>3, <1>4 DEF GetLocation, Steps, Request, Ops
<1>5. ASSUME NEW p \in Requests, Check(p) PROVE OpOK'
  BY <1>2, <1>3, <1>5 DEF Check, At, Steps, OpOK
<1>6. ASSUME NEW p \in Requests, Insert(p) \/ Delete(p) \/ Kill(p) PROVE OpOK'
  BY <1>2, <1>6 DEF Insert, Delete, Kill
<1>7. ASSUME NEW l \in Locations, SoftDelete(l) \/ Restore(l) PROVE OpOK'
  BY <1>7 DEF SoftDelete, Restore, OpOK
<1>8. ASSUME NEW x, Remove(x) PROVE OpOK'
  BY <1>8 DEF Remove, OpOK
<1>9. CASE UNCHANGED vars
  BY <1>9 DEF vars, OpOK
<1> QED
  BY <1>1, <1>4, <1>5, <1>6, <1>7, <1>8, <1>9 DEF Next, Step

LEMMA GoneInductive == GoneOK /\ [Next]_vars => GoneOK'
<1> SUFFICES ASSUME GoneOK, [Next]_vars PROVE GoneOK'
  OBVIOUS
<1>1. ASSUME NEW p \in Requests, Step(p) PROVE UNCHANGED <<alive, gone>>
  BY <1>1 DEF Step, GetLocation, Check, Insert, Delete, Kill
<1>2. ASSUME NEW p \in Requests, NEW op, NEW u, NEW l, Send(p, op, u, l) PROVE UNCHANGED <<alive, gone>>
  BY <1>2 DEF Send
<1>3. ASSUME NEW x, SoftDelete(x) \/ Restore(x) \/ Remove(x) PROVE GoneOK'
  BY <1>3 DEF SoftDelete, Restore, Remove, GoneOK
<1> QED
  BY <1>1, <1>2, <1>3 DEF Next, vars, GoneOK

LEMMA Invariant == Spec => []IInv
<1>1. Init => IInv
  <2>1. IdleRequest.step = "idle"
    BY DEF IdleRequest
  <2> QED
    BY <2>1, IdleRequestType DEF Init, IInv, TypeOK, OpOK, GoneOK
<1>2. IInv /\ [Next]_vars => IInv'
  BY TypeInductive, OpsInductive, GoneInductive DEF IInv
<1> QED
  BY <1>1, <1>2, PTL DEF Spec

-----------------------------------------------------------------------------
(* The refinement.                                                         *)

\* A step that moves a request on without answering it is invisible.
LEMMA MovesAreInvisible ==
    ASSUME TypeOK, NEW p \in Requests, NEW step \in Steps, ~Free(p),
           step \notin {"idle", "done"}, Goto(p, step)
    PROVE  Calls' = Calls
<1>1. CallOf([request[p] EXCEPT !.step = step]) = CallOf(request[p])
  BY DEF TypeOK, Request, CallOf, Free
<1>2. request' = [request EXCEPT ![p] = [request[p] EXCEPT !.step = step]]
  BY DEF Goto, TypeOK
<1>3. \A q \in Requests : CallOf(request'[q]) = CallOf(request[q])
  BY <1>1, <1>2 DEF TypeOK
<1> QED
  BY <1>3 DEF Calls

\* A step that answers a request is the effect of its call.
LEMMA AnswersRespond ==
    ASSUME TypeOK, NEW p \in Requests, NEW status, ~Free(p), Answer(p, status)
    PROVE  /\ Calls[p].result = 100
           /\ Calls' = [Calls EXCEPT ![p].result = status]
<1>1. Calls[p] = [op |-> request[p].op, user |-> request[p].user, loc |-> request[p].loc,
                  result |-> 100]
  BY DEF Calls, CallOf, Free
<1>2. CallOf([request[p] EXCEPT !.step = "done", !.status = status])
         = [op |-> request[p].op, user |-> request[p].user, loc |-> request[p].loc,
            result |-> status]
  BY DEF TypeOK, Request, CallOf
<1>3. CallOf(request'[p]) = [Calls[p] EXCEPT !.result = status]
  BY <1>1, <1>2 DEF Answer, TypeOK
<1>4. \A q \in Requests \ {p} : request'[q] = request[q]
  BY DEF Answer, TypeOK
<1> DEFINE record == [Calls[p] EXCEPT !.result = status]
<1>5. \A q \in Requests : CallOf(request'[q]) = IF q = p THEN record ELSE Calls[q]
  BY <1>3, <1>4 DEF Calls
<1>6. Calls' = [q \in Requests |-> IF q = p THEN record ELSE Calls[q]]
  BY <1>5 DEF Calls
<1> HIDE DEF record
<1>7. [Calls EXCEPT ![p] = record] = [q \in Requests |-> IF q = p THEN record ELSE Calls[q]]
  BY DEF Calls
<1> QED
  BY <1>1, <1>6, <1>7 DEF record

\* Every step of a request, and every change of the locations, is a step of the
\* register or leaves it alone.
LEMMA StepRefines == IInv /\ [Next]_vars => [Abstract!Next]_(Abstract!vars)
<1> SUFFICES ASSUME TypeOK, OpOK, GoneOK, [Next]_vars PROVE [Abstract!Next]_(Abstract!vars)
  BY DEF IInv
<1>0. ASSUME NEW p \in Requests
      PROVE  /\ Calls[p].op = request[p].op /\ Calls[p].loc = request[p].loc
             /\ Abstract!Pair(p) = Pair(p)
             /\ Abstract!Orphan(p) <=> {request[p].user, request[p].loc} \intersect gone # {}
  BY DEF Calls, CallOf, Abstract!Pair, Pair, Abstract!Orphan
<1>9. ASSUME NEW p \in Requests, NEW status, NEW after, ~Free(p),
             Answer(p, status), rows' = after, UNCHANGED <<alive, gone>>
      PROVE  Abstract!Respond(p, after, status)
  BY <1>9, AnswersRespond DEF Abstract!Respond, Abstract!Pending
<1>1. ASSUME NEW p \in Requests, NEW op \in Ops, NEW u \in Users, NEW l \in Locations,
             Send(p, op, u, l)
      PROVE  Abstract!Next
  <2>1. Calls[p].result # 100
    BY <1>1 DEF Send, Free, Calls, CallOf, TypeOK, Request, Statuses, NoAnswer
  <2>2. Calls' = [Calls EXCEPT ![p] = [op |-> op, user |-> u, loc |-> l, result |-> 100]]
    BY <1>1 DEF Send, Calls, CallOf, TypeOK
  <2>3. Abstract!Invoke(p, op, u, l)
    BY <1>1, <2>1, <2>2 DEF Abstract!Invoke, Abstract!Pending, Send
  <2> QED
    BY <2>3 DEF Abstract!Next, Abstract!Ops, Ops
<1>2. ASSUME NEW p \in Requests, GetLocation(p) PROVE Abstract!Next \/ UNCHANGED Abstract!vars
  <2>0. ~Free(p)
    BY <1>2 DEF GetLocation, At, Free
  <2>1. CASE request[p].loc \in alive
    <3>1. Calls' = Calls
      BY <1>2, <2>0, <2>1, MovesAreInvisible DEF GetLocation, Steps
    <3> QED
      BY <1>2, <3>1 DEF GetLocation, Abstract!vars
  <2>2. CASE request[p].loc \notin alive
    <3>1. Abstract!Hidden(p)
      BY <1>2, <1>0, <1>9, <2>0, <2>2 DEF GetLocation, Abstract!Hidden
    <3> QED
      BY <3>1 DEF Abstract!Next
  <2> QED
    BY <2>1, <2>2
<1>3. ASSUME NEW p \in Requests, Check(p) PROVE Abstract!Next \/ UNCHANGED Abstract!vars
  <2>0. ~Free(p)
    BY <1>3 DEF Check, At, Free
  <2>1. CASE Pair(p) \notin rows
    <3>1. Calls' = Calls
      BY <1>3, <2>0, <2>1, MovesAreInvisible DEF Check, Steps
    <3> QED
      BY <1>3, <3>1 DEF Check, Abstract!vars
  <2>2. CASE Pair(p) \in rows
    <3>1. Abstract!Add(p)
      BY <1>3, <1>0, <1>9, <2>0, <2>2 DEF Check, At, OpOK, Abstract!Add
    <3> QED
      BY <3>1 DEF Abstract!Next
  <2> QED
    BY <2>1, <2>2
<1>4. ASSUME NEW p \in Requests, Insert(p) PROVE Abstract!Next
  <2>0. ~Free(p)
    BY <1>4 DEF Insert, At, Free
  <2>1. Calls[p].op = "add"
    BY <1>4, <1>0 DEF Insert, At, OpOK
  <2>2. CASE Pair(p) \in rows
    BY <1>4, <1>0, <1>9, <2>0, <2>1, <2>2 DEF Insert, Abstract!Add, Abstract!Next
  <2>3. CASE Pair(p) \notin rows /\ ~Abstract!Orphan(p)
    <3>1. Abstract!Respond(p, rows \union {Pair(p)}, 201)
      BY <1>4, <1>0, <1>9, <2>0, <2>3 DEF Insert
    <3>2. Abstract!Add(p)
      BY <1>0, <2>1, <2>3, <3>1 DEF Abstract!Add
    <3> QED
      BY <3>2 DEF Abstract!Next
  <2>4. CASE Pair(p) \notin rows /\ Abstract!Orphan(p)
    <3>1. Abstract!Respond(p, rows, 500)
      BY <1>4, <1>0, <1>9, <2>0, <2>4 DEF Insert
    <3>2. Abstract!Add(p)
      BY <2>1, <2>4, <3>1 DEF Abstract!Add
    <3> QED
      BY <3>2 DEF Abstract!Next
  <2> QED
    BY <2>2, <2>3, <2>4
<1>5. ASSUME NEW p \in Requests, Delete(p) PROVE Abstract!Next
  <2>0. ~Free(p)
    BY <1>5 DEF Delete, At, Free
  <2>1. Calls[p].op = "remove"
    BY <1>5, <1>0 DEF Delete, At, OpOK
  <2>2. CASE Pair(p) \in rows
    BY <1>5, <1>0, <1>9, <2>0, <2>1, <2>2 DEF Delete, Abstract!Remove, Abstract!Next
  <2>3. CASE Pair(p) \notin rows
    BY <1>5, <1>0, <1>9, <2>0, <2>1, <2>3 DEF Delete, Abstract!Remove, Abstract!Next
  <2> QED
    BY <2>2, <2>3
<1>6. ASSUME NEW p \in Requests, Kill(p) PROVE Abstract!Next
  <2>1. Abstract!Lose(p)
    BY <1>6, <1>9 DEF Kill, Abstract!Lose, Abstract!Lost, NoAnswer
  <2> QED
    BY <2>1 DEF Abstract!Next
<1>7. ASSUME NEW l \in Locations, SoftDelete(l) \/ Restore(l) PROVE Abstract!Next
  <2>1. Calls' = Calls
    BY <1>7 DEF SoftDelete, Restore, Calls
  <2>2. Abstract!Toggle(l)
    BY <1>7, <2>1 DEF SoftDelete, Restore, Abstract!Toggle, GoneOK
  <2> QED
    BY <2>2 DEF Abstract!Next
<1>8. ASSUME NEW x \in Users \union Locations, Remove(x) PROVE Abstract!Next
  <2>1. Calls' = Calls
    BY <1>8 DEF Remove, Calls
  <2>2. Abstract!Withdraw(x)
    BY <1>8, <2>1 DEF Remove, Abstract!Withdraw
  <2> QED
    BY <2>2 DEF Abstract!Next
<1>10. CASE UNCHANGED vars
  BY <1>10 DEF vars, Abstract!vars, Calls
<1> QED
  BY <1>1, <1>2, <1>3, <1>4, <1>5, <1>6, <1>7, <1>8, <1>10 DEF Next, Step

\* Whatever the requests interleave with, each takes effect at one moment between
\* its arrival and its answer, for any number of requests, users and locations.
THEOREM SubscriptionsImplementRegister == Spec => ImplementsRegister
<1>1. Init => Abstract!Init
  <2>1. CallOf(IdleRequest) = Abstract!NoCall
    BY DEF CallOf, IdleRequest, Abstract!NoCall, NoAnswer, Abstract!Lost
  <2> QED
    BY <2>1 DEF Init, Abstract!Init, Calls
<1> QED
  BY <1>1, Invariant, StepRefines, PTL DEF Spec, ImplementsRegister, Abstract!Spec
=============================================================================
