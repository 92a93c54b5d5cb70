------------------------- MODULE ReviewEmailsProofs -------------------------
(***************************************************************************)
(* Type correctness of ReviewEmails, its invariants and its action         *)
(* property, for any number of users, reviews and retries.  First the loop *)
(* of recipients_for_review, by induction over its turns: for a set of     *)
(* numbers it rests on the least element of its complement.  The inductive *)
(* invariant adds to the types what a task still has to do and how many    *)
(* messages its runs can have sent so far.                                 *)
(***************************************************************************)
EXTENDS ReviewEmails, FiniteSetTheorems, WellFoundedInduction, TLAPS

LEMMA LeastNumber ==
    ASSUME NEW D, D \subseteq Nat, D # {}
    PROVE  \E i \in D : \A j \in D : i <= j
<1>1. PICK i \in D : \A j \in D : ~ (<<j, i>> \in OpToRel(<, Nat))
  BY WFMin, NatLessThanWellFounded, Zenon
<1>2. \A j \in D : ~ (j < i)
  BY <1>1 DEF OpToRel
<1> QED
  BY <1>2

\* Induction up to N: what holds of 0 and passes from n to n + 1 holds up to N.
LEMMA InductionUpTo ==
    ASSUME NEW N \in Nat, NEW S, 0 \in S, \A n \in 1 .. N : n - 1 \in S => n \in S
    PROVE  0 .. N \subseteq S
<1> DEFINE D == (0 .. N) \ S
<1>1. SUFFICES ASSUME D # {} PROVE FALSE
  OBVIOUS
<1>2. D \subseteq Nat
  OBVIOUS
<1>3. PICK n \in D : \A j \in D : n <= j
  <2> HIDE DEF D
  <2> QED
    BY <1>1, <1>2, LeastNumber
<1>4. n \in 1 .. N /\ n - 1 \in 0 .. N
  BY <1>3
<1> QED
  BY <1>3, <1>4

-----------------------------------------------------------------------------
(* recipients_for_review.                                                  *)

LEMMA ToSetAppend ==
    ASSUME NEW S, NEW s \in Seq(S), NEW u \in S
    PROVE  /\ Append(s, u) \in Seq(S) /\ ToSet(Append(s, u)) = ToSet(s) \union {u}
           /\ IsInjective(s) /\ u \notin ToSet(s) => IsInjective(Append(s, u))
<1>1. /\ Append(s, u) \in Seq(S) /\ Len(s) \in Nat
      /\ DOMAIN s = 1 .. Len(s) /\ DOMAIN Append(s, u) = 1 .. Len(s) + 1
      /\ \A i \in 1 .. Len(s) : Append(s, u)[i] = s[i]
      /\ Append(s, u)[Len(s) + 1] = u
  OBVIOUS
<1>2. ToSet(Append(s, u)) \subseteq ToSet(s) \union {u}
  BY <1>1 DEF ToSet
<1>3. ToSet(s) \subseteq ToSet(Append(s, u))
  BY <1>1 DEF ToSet
<1>4. u \in ToSet(Append(s, u))
  BY <1>1 DEF ToSet
<1>5. ASSUME IsInjective(s), u \notin ToSet(s) PROVE IsInjective(Append(s, u))
  <2>1. \A i \in 1 .. Len(s) : s[i] # u
    BY <1>1, <1>5 DEF ToSet
  <2> QED
    BY <1>1, <1>5, <2>1 DEF IsInjective
<1> QED
  BY <1>1, <1>2, <1>3, <1>4, <1>5

LEMMA ConsiderType ==
    ASSUME NEW r \in Reviews, NEW s \in Seq(Users), NEW u \in Users
    PROVE  Consider(r, s, u) \in Seq(Users)
  BY ToSetAppend DEF Consider

\* What the loop collects in n turns over the candidates c.
Turns(r, c, n, f) ==
    /\ f \in [0 .. n -> Seq(Users)]
    /\ f[0] = <<>>
    /\ \A i \in 1 .. n : f[i] = Consider(r, f[i - 1], c[i])

LEMMA OneMoreTurn ==
    ASSUME NEW r \in Reviews, NEW c \in Seq(Users), NEW n \in 1 .. Len(c),
           NEW f, Turns(r, c, n - 1, f)
    PROVE  \E g : Turns(r, c, n, g)
<1> DEFINE last == Consider(r, f[n - 1], c[n])
           g == [i \in 0 .. n |-> IF i = n THEN last ELSE f[i]]
<1>1. n \in Nat /\ n - 1 \in 0 .. n - 1 /\ c[n] \in Users
  OBVIOUS
<1>2. last \in Seq(Users)
  BY <1>1, ConsiderType DEF Turns
<1> HIDE DEF last
<1>3. g \in [0 .. n -> Seq(Users)] /\ g[0] = <<>>
  BY <1>1, <1>2 DEF Turns
<1>4. \A i \in 1 .. n : g[i] = Consider(r, g[i - 1], c[i])
  <2> TAKE i \in 1 .. n
  <2>1. g[i - 1] = f[i - 1]
    BY <1>1
  <2>2. CASE i = n
    BY <1>1, <2>1, <2>2 DEF last
  <2>3. CASE i # n
    <3>1. i \in 1 .. n - 1 /\ g[i] = f[i]
      BY <1>1, <2>3
    <3> QED
      BY <2>1, <3>1 DEF Turns
  <2> QED
    BY <2>2, <2>3
<1> HIDE DEF g
<1> QED
  BY <1>3, <1>4 DEF Turns

LEMMA TurnsExist ==
    ASSUME NEW r \in Reviews, NEW c \in Seq(Users)
    PROVE  \E f : Turns(r, c, Len(c), f)
<1> DEFINE S == {n \in 0 .. Len(c) : \E f : Turns(r, c, n, f)}
<1>1. Len(c) \in Nat
  OBVIOUS
<1>2. 0 \in S
  <2>1. Turns(r, c, 0, [i \in 0 .. 0 |-> <<>>])
    BY DEF Turns
  <2> QED
    BY <1>1, <2>1
<1>3. \A n \in 1 .. Len(c) : n - 1 \in S => n \in S
  BY <1>1, OneMoreTurn
<1> HIDE DEF S
<1>4. 0 .. Len(c) \subseteq S
  BY <1>1, <1>2, <1>3, InductionUpTo
<1> QED
  BY <1>1, <1>4 DEF S

\* Who is named among the first n candidates.
Named(c, n) == {c[i] : i \in 1 .. n}

LEMMA NamedNext ==
    ASSUME NEW c, NEW n \in Nat \ {0}
    PROVE  Named(c, n) = Named(c, n - 1) \union {c[n]}
<1>1. 1 .. n = (1 .. n - 1) \union {n}
  OBVIOUS
<1> QED
  BY <1>1 DEF Named

LEMMA ConsiderCollects ==
    ASSUME NEW r \in Reviews, NEW s \in Seq(Users), NEW u \in Users, NEW U,
           ToSet(s) = (U \ {Reviewer[r]}) \intersect reachable, IsInjective(s)
    PROVE  /\ ToSet(Consider(r, s, u)) = ((U \union {u}) \ {Reviewer[r]}) \intersect reachable
           /\ IsInjective(Consider(r, s, u))
<1>1. CASE u \in ToSet(s) \union {Reviewer[r]} \/ u \notin reachable
  BY <1>1 DEF Consider
<1>2. CASE ~ (u \in ToSet(s) \union {Reviewer[r]} \/ u \notin reachable)
  <2>1. Consider(r, s, u) = Append(s, u)
    BY <1>2 DEF Consider
  <2>2. ToSet(Append(s, u)) = ToSet(s) \union {u} /\ IsInjective(Append(s, u))
    BY <1>2, ToSetAppend
  <2> QED
    BY <1>2, <2>1, <2>2
<1> QED
  BY <1>1, <1>2

\* After each turn: who was named so far, but for the reviewer and who cannot be
\* written to, each once.
LEMMA TurnsCollect ==
    ASSUME NEW r \in Reviews, NEW c \in Seq(Users), NEW f, Turns(r, c, Len(c), f)
    PROVE  /\ ToSet(f[Len(c)]) = (Named(c, Len(c)) \ {Reviewer[r]}) \intersect reachable
           /\ IsInjective(f[Len(c)])
<1> DEFINE S == {n \in 0 .. Len(c) :
                    /\ ToSet(f[n]) = (Named(c, n) \ {Reviewer[r]}) \intersect reachable
                    /\ IsInjective(f[n])}
<1>1. Len(c) \in Nat
  OBVIOUS
<1>2. 0 \in S
  <2>1. f[0] = <<>>
    BY DEF Turns
  <2>2. Named(c, 0) = {} /\ ToSet(<<>>) = {} /\ IsInjective(<<>>)
    BY DEF Named, ToSet, IsInjective
  <2> QED
    BY <1>1, <2>1, <2>2
<1>3. ASSUME NEW n \in 1 .. Len(c), n - 1 \in S PROVE n \in S
  <2>1. f[n - 1] \in Seq(Users) /\ c[n] \in Users /\ n \in Nat \ {0}
    BY <1>1, <1>3 DEF Turns
  <2>2. f[n] = Consider(r, f[n - 1], c[n])
    BY DEF Turns
  <2>3. /\ ToSet(f[n]) = ((Named(c, n - 1) \union {c[n]}) \ {Reviewer[r]}) \intersect reachable
        /\ IsInjective(f[n])
    BY <1>3, <2>1, <2>2, ConsiderCollects
  <2> QED
    BY <1>1, <2>1, <2>3, NamedNext
<1>4. \A n \in 1 .. Len(c) : n - 1 \in S => n \in S
  BY <1>3
<1> HIDE DEF S
<1>5. 0 .. Len(c) \subseteq S
  BY <1>1, <1>2, <1>4, InductionUpTo
<1> QED
  BY <1>1, <1>5 DEF S

Candidates(subscribers) == <<Author>> \o subscribers

LEMMA CandidatesType ==
    ASSUME NEW subscribers \in Seq(Users)
    PROVE  /\ Candidates(subscribers) \in Seq(Users)
           /\ Named(Candidates(subscribers), Len(Candidates(subscribers)))
              = ToSet(subscribers) \union {Author}
<1> DEFINE c == Candidates(subscribers)
<1>1. c \in Seq(Users) /\ Len(c) = Len(subscribers) + 1 /\ Len(subscribers) \in Nat
  BY AuthorAssumption DEF Candidates
<1>2. c[1] = Author /\ \A i \in 1 .. Len(subscribers) : c[i + 1] = subscribers[i]
  BY AuthorAssumption DEF Candidates
<1>3. DOMAIN subscribers = 1 .. Len(subscribers)
  OBVIOUS
<1> HIDE DEF c
<1>4. Named(c, Len(c)) \subseteq ToSet(subscribers) \union {Author}
  <2> SUFFICES ASSUME NEW i \in 1 .. Len(c) PROVE c[i] \in ToSet(subscribers) \union {Author}
    BY DEF Named
  <2>1. CASE i = 1
    BY <1>2, <2>1
  <2>2. CASE i # 1
    <3>1. i - 1 \in 1 .. Len(subscribers) /\ (i - 1) + 1 = i
      BY <1>1, <2>2
    <3>2. c[i] = subscribers[i - 1]
      BY <1>2, <3>1
    <3> QED
      BY <1>3, <3>1, <3>2 DEF ToSet
  <2> QED
    BY <2>1, <2>2
<1>5. Author \in Named(c, Len(c))
  BY <1>1, <1>2 DEF Named
<1>6. ToSet(subscribers) \subseteq Named(c, Len(c))
  <2> SUFFICES ASSUME NEW i \in 1 .. Len(subscribers) PROVE subscribers[i] \in Named(c, Len(c))
    BY <1>3 DEF ToSet
  <2>1. i + 1 \in 1 .. Len(c) /\ subscribers[i] = c[i + 1]
    BY <1>1, <1>2
  <2> QED
    BY <2>1 DEF Named
<1> QED
  BY <1>1, <1>4, <1>5, <1>6 DEF c

\* The recursive function of Recipients exists, so it is what the loop collects.
LEMMA RecipientsAreCollected ==
    ASSUME NEW r \in Reviews, NEW subscribers \in Seq(Users)
    PROVE  \E f : /\ Turns(r, Candidates(subscribers), Len(Candidates(subscribers)), f)
                  /\ Recipients(r, subscribers) = f[Len(Candidates(subscribers))]
<1> DEFINE c == Candidates(subscribers)
           loop(f) == [n \in 0 .. Len(c) |-> IF n = 0 THEN <<>> ELSE Consider(r, f[n - 1], c[n])]
           collected == CHOOSE f : f = loop(f)
<1>1. c \in Seq(Users) /\ Len(c) \in Nat
  BY CandidatesType
<1>2. Recipients(r, subscribers) = collected[Len(c)]
  BY DEF Recipients, Candidates
<1>3. \E f : f = loop(f)
  <2>1. PICK f : Turns(r, c, Len(c), f)
    BY <1>1, TurnsExist
  <2>2. DOMAIN f = 0 .. Len(c) /\ f = [n \in 0 .. Len(c) |-> f[n]]
    BY <2>1 DEF Turns
  <2>3. \A n \in 0 .. Len(c) : f[n] = IF n = 0 THEN <<>> ELSE Consider(r, f[n - 1], c[n])
    BY <1>1, <2>1 DEF Turns
  <2>4. f = loop(f)
    BY <2>2, <2>3
  <2> QED
    BY <2>4
<1>4. collected = loop(collected)
  BY <1>3
<1> HIDE DEF collected
<1>5. \A n \in 0 .. Len(c) : collected[n] = IF n = 0 THEN <<>> ELSE Consider(r, collected[n - 1], c[n])
  BY <1>4
<1>6. collected[0] = <<>> /\ \A n \in 1 .. Len(c) : collected[n] = Consider(r, collected[n - 1], c[n])
  BY <1>1, <1>5
<1>7. DOMAIN collected = 0 .. Len(c) /\ collected = [n \in 0 .. Len(c) |-> collected[n]]
  BY <1>4
<1>8. collected \in [0 .. Len(c) -> Seq(Users)]
  <2> DEFINE S == {n \in 0 .. Len(c) : collected[n] \in Seq(Users)}
  <2>1. 0 \in S
    <3>1. <<>> \in Seq(Users) /\ 0 \in 0 .. Len(c)
      BY <1>1
    <3> QED
      BY <1>6, <3>1
  <2>2. \A n \in 1 .. Len(c) : n - 1 \in S => n \in S
    <3> SUFFICES ASSUME NEW n \in 1 .. Len(c), n - 1 \in S PROVE collected[n] \in Seq(Users)
      BY <1>1
    <3>1. c[n] \in Users
      BY <1>1
    <3> QED
      BY <1>6, <3>1, ConsiderType
  <2> HIDE DEF S
  <2>3. 0 .. Len(c) \subseteq S
    BY <1>1, <2>1, <2>2, InductionUpTo
  <2>4. \A n \in 0 .. Len(c) : collected[n] \in Seq(Users)
    BY <2>3 DEF S
  <2> QED
    BY <1>7, <2>4
<1>9. Turns(r, c, Len(c), collected)
  BY <1>6, <1>8 DEF Turns
<1> HIDE DEF c
<1> QED
  BY <1>2, <1>9 DEF c

\* An enumeration of a finite set names each of its elements.
LEMMA Enumeration ==
    ASSUME NEW S, S \subseteq Users, NEW s \in SetToSeqs(S)
    PROVE  s \in Seq(Users) /\ ToSet(s) = S
<1> DEFINE n == Cardinality(S)
<1>1. IsFiniteSet(S) /\ n \in Nat
  BY UsersAssumption, FS_Subset, FS_CardinalityType
<1>2. s \in [1 .. n -> S] /\ \A i, j \in 1 .. n : i # j => s[i] # s[j]
  BY DEF SetToSeqs
<1>3. s \in Seq(Users) /\ DOMAIN s = 1 .. n
  BY <1>1, <1>2
<1>4. ASSUME NEW x \in S, x \notin ToSet(s) PROVE FALSE
  <2>1. IsFiniteSet(S \ {x}) /\ Cardinality(S \ {x}) = n - 1
    BY <1>1, FS_RemoveElement
  <2>2. IsFiniteSet(1 .. n) /\ Cardinality(1 .. n) = n
    BY <1>1, FS_Interval
  <2>3. s \in [1 .. n -> S \ {x}]
    BY <1>2, <1>3, <1>4 DEF ToSet
  <2> HIDE DEF n
  <2>4. \E i, j \in 1 .. n : i # j /\ s[i] = s[j]
    BY <1>1, <2>1, <2>2, <2>3, FS_PigeonHole
  <2> QED
    BY <1>2, <2>4
<1>5. ToSet(s) \subseteq S
  BY <1>2, <1>3 DEF ToSet
<1> QED
  BY <1>3, <1>4, <1>5

LEMMA RecipientsMeaning ==
    ASSUME subscribed \subseteq Users, NEW r \in Reviews, NEW subscribers \in SetToSeqs(subscribed)
    PROVE  /\ Recipients(r, subscribers) \in Seq(Users)
           /\ ToSet(Recipients(r, subscribers)) = Interested(r)
           /\ IsInjective(Recipients(r, subscribers))
<1> DEFINE c == Candidates(subscribers)
<1>1. subscribers \in Seq(Users) /\ ToSet(subscribers) = subscribed
  BY Enumeration
<1>2. c \in Seq(Users) /\ Len(c) \in Nat /\ Named(c, Len(c)) = subscribed \union {Author}
  BY <1>1, CandidatesType
<1>3. PICK f : Turns(r, c, Len(c), f) /\ Recipients(r, subscribers) = f[Len(c)]
  BY <1>1, RecipientsAreCollected
<1> HIDE DEF c
<1>4. /\ ToSet(f[Len(c)]) = ((subscribed \union {Author}) \ {Reviewer[r]}) \intersect reachable
      /\ IsInjective(f[Len(c)])
  BY <1>2, <1>3, TurnsCollect
<1>5. f[Len(c)] \in Seq(Users)
  BY <1>2, <1>3 DEF Turns
<1> QED
  BY <1>3, <1>4, <1>5 DEF Interested

-----------------------------------------------------------------------------
(* The inductive invariant.                                                *)

\* A task has recipients exactly while it is sending to them, each of them once, and
\* they are people it may write to; one that was taken too late does not get there.
TaskOK(r, q) ==
    /\ q.step = "none" => q.retries = 0 /\ ~q.late
    /\ q.step \in {"connect", "sending"} <=> q.todo # <<>>
    /\ IsInjective(q.todo)
    /\ ToSet(q.todo) \subseteq wanted[r] \ {Reviewer[r]}
    /\ q.step # "none" => subscribed \union {Author} \subseteq wanted[r]
    /\ q.step \in {"loaded", "connect", "sending"} => ~q.late
    /\ q.late => Gone(r)

\* The messages about r in a mailbox: one for each run so far, the present one
\* included only when it has passed u.
MailOK(r, q, u, n) ==
    /\ q.step = "none" => n = 0
    /\ n <= q.retries + 1
    /\ q.step \in {"queued", "taken", "loaded"} \/ u \in ToSet(q.todo) => n <= q.retries
    /\ n > 0 => u \in wanted[r] /\ u # Reviewer[r]

TasksOK == \A r \in Reviews : TaskOK(r, task[r])
MailsOK == \A r \in Reviews, u \in Users : MailOK(r, task[r], u, mail[u][r])

IInv == TypeOK /\ TasksOK /\ MailsOK

LEMMA EmptyTodo == ToSet(<<>>) = {} /\ IsInjective(<<>>) /\ \A S : <<>> \in Seq(S)
  BY DEF ToSet, IsInjective

LEMMA InitOK == Init => IInv
<1> SUFFICES ASSUME Init PROVE IInv
  OBVIOUS
<1> DEFINE idle == [step |-> "none", retries |-> 0, todo |-> <<>>, late |-> FALSE]
<1>1. idle \in Task
  BY EmptyTodo, RetriesAssumption DEF Task, Steps, Running
<1>2. TypeOK
  BY <1>1, RetriesAssumption DEF Init, TypeOK
<1>3. \A r \in Reviews : task[r] = idle
  BY DEF Init
<1>4. TasksOK
  BY <1>3, EmptyTodo DEF TasksOK, TaskOK
<1>5. MailsOK
  BY <1>3, EmptyTodo DEF Init, MailsOK, MailOK
<1> QED
  BY <1>2, <1>4, <1>5 DEF IInv

-----------------------------------------------------------------------------
(* What a step does to one task.                                           *)

\* Only the task of r moves, to q; everything it rests on is as before.
Moves(r, q) ==
    /\ task' = [task EXCEPT ![r] = q]
    /\ UNCHANGED dbVars

LEMMA OneTaskMoves ==
    ASSUME IInv, NEW r \in Reviews, NEW q \in Task, Moves(r, q), smtpErrors' \in 0 .. MaxSmtpErrors,
           mail' \in [Users -> [Reviews -> Nat]],
           \A s \in Reviews \ {r}, u \in Users : mail'[u][s] = mail[u][s],
           TaskOK(r, q), \A u \in Users : MailOK(r, q, u, mail'[u][r])
    PROVE  IInv'
<1>1. task'[r] = q /\ \A s \in Reviews \ {r} : task'[s] = task[s]
  BY DEF Moves, IInv, TypeOK
<1>2. TypeOK'
  BY DEF Moves, IInv, TypeOK, dbVars
<1>3. \A s \in Reviews : \A p : TaskOK(s, p) => TaskOK(s, p)'
  BY DEF TaskOK, Moves, dbVars, Gone
<1>4. \A s \in Reviews, u \in Users : \A p, n : MailOK(s, p, u, n) => MailOK(s, p, u, n)'
  BY DEF MailOK, Moves, dbVars
<1>5. TasksOK'
  BY <1>1, <1>3 DEF TasksOK, IInv
<1>6. MailsOK'
  BY <1>1, <1>4 DEF MailsOK, IInv
<1> QED
  BY <1>2, <1>5, <1>6 DEF IInv

-----------------------------------------------------------------------------
(* Each action of a task.                                                  *)

\* The task at another step, and where its run ended.
AtStep(q, step) == [q EXCEPT !.step = step]
Ended(q, step) == [q EXCEPT !.step = step, !.todo = <<>>]

LEMMA AtStepFields ==
    ASSUME NEW q \in Task, NEW step \in Steps
    PROVE  /\ AtStep(q, step) \in Task /\ AtStep(q, step).step = step
           /\ AtStep(q, step).todo = q.todo /\ AtStep(q, step).retries = q.retries
           /\ AtStep(q, step).late = q.late
  BY DEF Task, AtStep

LEMMA EndedFields ==
    ASSUME NEW q \in Task, NEW step \in Steps
    PROVE  /\ Ended(q, step) \in Task /\ Ended(q, step).step = step
           /\ Ended(q, step).todo = <<>> /\ Ended(q, step).retries = q.retries
           /\ Ended(q, step).late = q.late
  BY EmptyTodo DEF Task, Ended

LEMMA TaskFields ==
    ASSUME TypeOK, NEW r \in Reviews
    PROVE  /\ task[r] \in Task /\ task[r].step \in Steps /\ task[r].todo \in Seq(Users)
           /\ task[r].retries \in 0 .. MaxRetries /\ task[r].late \in BOOLEAN
           /\ \A u \in Users : mail[u][r] \in Nat
           /\ smtpErrors \in 0 .. MaxSmtpErrors /\ mail \in [Users -> [Reviews -> Nat]]
  BY DEF TypeOK, Task

\* A step that goes on with what the task has, sending nothing.
LEMMA GotoOK ==
    ASSUME IInv, NEW r \in Reviews, NEW step \in Steps, Goto(r, step),
           UNCHANGED <<dbVars, smtpErrors, mail>>,
           TaskOK(r, AtStep(task[r], step)),
           \A u \in Users : MailOK(r, AtStep(task[r], step), u, mail[u][r])
    PROVE  IInv'
<1> DEFINE q == AtStep(task[r], step)
<1>1. TypeOK
  BY DEF IInv
<1>2. q \in Task /\ smtpErrors \in 0 .. MaxSmtpErrors /\ mail \in [Users -> [Reviews -> Nat]]
  BY <1>1, TaskFields, AtStepFields
<1>3. Moves(r, q)
  BY DEF Goto, Moves, AtStep
<1> HIDE DEF q
<1> QED
  BY <1>2, <1>3, OneTaskMoves DEF q

LEMMA PublishOK ==
    ASSUME IInv, NEW r \in Reviews, Publish(r)
    PROVE  IInv'
<1> DEFINE q == AtStep(task[r], "queued")
<1>1. TypeOK /\ TaskOK(r, task[r]) /\ \A u \in Users : MailOK(r, task[r], u, mail[u][r])
  BY DEF IInv, TasksOK, MailsOK
<1>2. "queued" \in Steps
  BY DEF Steps, Running
<1>3. q \in Task /\ q.step = "queued" /\ q.todo = task[r].todo /\ q.retries = task[r].retries /\ q.late = task[r].late
  BY <1>1, <1>2, TaskFields, AtStepFields
<1>4. task' = [task EXCEPT ![r] = q]
  BY DEF Publish, Goto, AtStep
<1> HIDE DEF q
<1>5. task'[r] = q /\ \A s \in Reviews \ {r} : task'[s] = task[s]
  BY <1>1, <1>4 DEF TypeOK
<1>6. wanted'[r] = subscribed \union {Author} /\ \A s \in Reviews \ {r} : wanted'[s] = wanted[s]
  BY <1>1 DEF Publish, TypeOK
<1>7. TypeOK'
  BY <1>1, <1>3, <1>4, AuthorAssumption DEF Publish, TypeOK
<1>8. task[r].step = "none" /\ task[r].retries = 0 /\ ~task[r].late /\ task[r].todo = <<>>
  BY <1>1 DEF Publish, At, TaskOK
<1>9. TaskOK(r, task[r])'
  BY <1>3, <1>5, <1>6, <1>8, EmptyTodo DEF TaskOK, Publish
<1>10. \A s \in Reviews \ {r} : TaskOK(s, task[s]) => TaskOK(s, task[s])'
  BY <1>5, <1>6 DEF TaskOK, Publish, Gone
<1>11. \A u \in Users : MailOK(r, task[r], u, mail[u][r])'
  BY <1>1, <1>3, <1>5, <1>8, EmptyTodo DEF MailOK, Publish
<1>12. \A s \in Reviews \ {r}, u \in Users : MailOK(s, task[s], u, mail[u][s]) => MailOK(s, task[s], u, mail[u][s])'
  BY <1>5, <1>6 DEF MailOK, Publish
<1>13. TasksOK'
  BY <1>9, <1>10 DEF TasksOK, IInv
<1>14. MailsOK'
  BY <1>11, <1>12 DEF MailsOK, IInv
<1> QED
  BY <1>7, <1>13, <1>14 DEF IInv

LEMMA TakeOK ==
    ASSUME IInv, NEW r \in Reviews, Take(r)
    PROVE  IInv'
<1>1. TypeOK /\ TaskOK(r, task[r]) /\ \A u \in Users : MailOK(r, task[r], u, mail[u][r])
  BY DEF IInv, TasksOK, MailsOK
<1>2. PICK late \in BOOLEAN : late = Gone(r)
  BY DEF Gone
<1>3. PICK q : q = [task[r] EXCEPT !.step = "taken", !.late = late]
  OBVIOUS
<1>4. task[r] \in Task /\ mail \in [Users -> [Reviews -> Nat]] /\ smtpErrors \in 0 .. MaxSmtpErrors
  BY <1>1, TaskFields
<1>5. q \in Task /\ q.step = "taken" /\ q.todo = task[r].todo /\ q.retries = task[r].retries /\ q.late = late
  BY <1>3, <1>4 DEF Task, Steps, Running
<1>6. Moves(r, q)
  BY <1>2, <1>3 DEF Take, Moves
<1>7. task[r].step = "queued"
  BY DEF Take, At
<1>8. TaskOK(r, q)
  BY <1>1, <1>2, <1>5, <1>7 DEF TaskOK
<1>9. \A u \in Users : MailOK(r, q, u, mail[u][r])
  BY <1>1, <1>5, <1>7 DEF MailOK
<1> QED
  BY <1>4, <1>5, <1>6, <1>8, <1>9, OneTaskMoves DEF Take

LEMMA LoadOK ==
    ASSUME IInv, NEW r \in Reviews, Load(r)
    PROVE  IInv'
<1>1. TypeOK /\ TaskOK(r, task[r]) /\ \A u \in Users : MailOK(r, task[r], u, mail[u][r])
  BY DEF IInv, TasksOK, MailsOK
<1>2. task[r] \in Task /\ task[r].step = "taken"
  BY <1>1, TaskFields DEF Load, At
<1>3. ASSUME NEW step \in {"done", "loaded"}, step = "loaded" => ~Gone(r), Goto(r, step) PROVE IInv'
  <2>1. step \in Steps
    BY DEF Steps, Running
  <2>2. TaskOK(r, AtStep(task[r], step))
    BY <1>1, <1>2, <1>3, <2>1, AtStepFields DEF TaskOK
  <2>3. \A u \in Users : MailOK(r, AtStep(task[r], step), u, mail[u][r])
    BY <1>1, <1>2, <1>3, <2>1, AtStepFields DEF MailOK
  <2> QED
    BY <1>3, <2>1, <2>2, <2>3, GotoOK DEF Load
<1> QED
  BY <1>3 DEF Load

LEMMA ConnectOK ==
    ASSUME IInv, NEW r \in Reviews, Connect(r)
    PROVE  IInv'
<1>1. TypeOK /\ TaskOK(r, task[r]) /\ \A u \in Users : MailOK(r, task[r], u, mail[u][r])
  BY DEF IInv, TasksOK, MailsOK
<1>2. task[r] \in Task /\ task[r].step = "connect" /\ "sending" \in Steps
  BY <1>1, TaskFields DEF Connect, At, Steps, Running
<1>3. TaskOK(r, AtStep(task[r], "sending"))
  BY <1>1, <1>2, AtStepFields DEF TaskOK
<1>4. \A u \in Users : MailOK(r, AtStep(task[r], "sending"), u, mail[u][r])
  BY <1>1, <1>2, AtStepFields DEF MailOK
<1> QED
  BY <1>2, <1>3, <1>4, GotoOK DEF Connect

LEMMA CollectOK ==
    ASSUME IInv, NEW r \in Reviews, Collect(r)
    PROVE  IInv'
<1>1. TypeOK /\ TaskOK(r, task[r]) /\ \A u \in Users : MailOK(r, task[r], u, mail[u][r])
  BY DEF IInv, TasksOK, MailsOK
<1>2. /\ task[r] \in Task /\ task[r].step = "loaded"
      /\ mail \in [Users -> [Reviews -> Nat]] /\ smtpErrors \in 0 .. MaxSmtpErrors
  BY <1>1, TaskFields DEF Collect, At
<1>3. PICK subscribers \in SetToSeqs(subscribed) :
          task' = [task EXCEPT ![r] = [task[r] EXCEPT
              !.todo = Recipients(r, subscribers),
              !.step = IF Recipients(r, subscribers) = <<>> THEN "done" ELSE "connect"]]
  BY DEF Collect
<1>4. PICK todo : todo = Recipients(r, subscribers)
  OBVIOUS
<1>5. todo \in Seq(Users) /\ ToSet(todo) = Interested(r) /\ IsInjective(todo)
  BY <1>1, <1>4, RecipientsMeaning DEF TypeOK
<1>6. PICK step \in {"done", "connect"} : step = IF todo = <<>> THEN "done" ELSE "connect"
  OBVIOUS
<1>7. PICK q : q = [task[r] EXCEPT !.todo = todo, !.step = step]
  OBVIOUS
<1>8. q \in Task /\ q.step = step /\ q.todo = todo /\ q.retries = task[r].retries /\ q.late = task[r].late
  BY <1>2, <1>5, <1>7 DEF Task, Steps, Running
<1>9. Moves(r, q)
  BY <1>3, <1>4, <1>6, <1>7 DEF Moves, Collect
<1>10. TaskOK(r, q)
  BY <1>1, <1>2, <1>5, <1>6, <1>8 DEF TaskOK, Interested
<1>11. \A u \in Users : MailOK(r, q, u, mail[u][r])
  <2> SUFFICES ASSUME NEW u \in Users PROVE MailOK(r, q, u, mail[u][r])
    OBVIOUS
  <2>1. mail[u][r] <= q.retries /\ mail[u][r] \in Nat /\ q.retries \in Nat
    BY <1>1, <1>2, <1>8, RetriesAssumption DEF MailOK, Task
  <2> QED
    BY <1>1, <1>6, <1>8, <2>1 DEF MailOK
<1> QED
  BY <1>2, <1>8, <1>9, <1>10, <1>11, OneTaskMoves DEF Collect

LEMMA Received ==
    ASSUME TypeOK, NEW r \in Reviews, NEW u \in Users, Receive(u, r)
    PROVE  /\ mail' \in [Users -> [Reviews -> Nat]]
           /\ mail'[u][r] = mail[u][r] + 1
           /\ \A v \in Users \ {u} : mail'[v][r] = mail[v][r]
           /\ \A v \in Users, s \in Reviews \ {r} : mail'[v][s] = mail[v][s]
<1>1. mail \in [Users -> [Reviews -> Nat]] /\ mail[u] \in [Reviews -> Nat] /\ mail[u][r] + 1 \in Nat
  BY DEF TypeOK
<1>2. PICK box : box = [mail[u] EXCEPT ![r] = mail[u][r] + 1]
  OBVIOUS
<1>3. box \in [Reviews -> Nat] /\ box[r] = mail[u][r] + 1 /\ \A s \in Reviews \ {r} : box[s] = mail[u][s]
  BY <1>1, <1>2
<1>4. mail' = [mail EXCEPT ![u] = box]
  BY <1>2 DEF Receive
<1> QED
  BY <1>1, <1>3, <1>4

LEMMA HeadAndTail ==
    ASSUME NEW S, NEW s \in Seq(S), s # <<>>, IsInjective(s)
    PROVE  /\ Head(s) \in S /\ Head(s) \in ToSet(s) /\ Tail(s) \in Seq(S)
           /\ ToSet(Tail(s)) \subseteq ToSet(s) \ {Head(s)} /\ IsInjective(Tail(s))
<1>1. /\ Len(s) \in Nat \ {0} /\ DOMAIN s = 1 .. Len(s) /\ Head(s) = s[1] /\ s[1] \in S
      /\ Tail(s) \in Seq(S) /\ DOMAIN Tail(s) = 1 .. Len(s) - 1
      /\ \A i \in 1 .. Len(s) - 1 : Tail(s)[i] = s[i + 1]
  OBVIOUS
<1>2. \A i \in 1 .. Len(s) - 1 : i + 1 \in DOMAIN s /\ i + 1 # 1 /\ 1 \in DOMAIN s
  BY <1>1
<1>3. ToSet(Tail(s)) \subseteq ToSet(s) \ {Head(s)}
  BY <1>1, <1>2 DEF ToSet, IsInjective
<1>4. IsInjective(Tail(s))
  <2> SUFFICES ASSUME NEW i \in 1 .. Len(s) - 1, NEW j \in 1 .. Len(s) - 1, s[i + 1] = s[j + 1]
               PROVE  i = j
    BY <1>1 DEF IsInjective
  <2>1. i + 1 = j + 1
    BY <1>2 DEF IsInjective
  <2> QED
    BY <2>1
<1>5. Head(s) \in ToSet(s)
  BY <1>1 DEF ToSet
<1> QED
  BY <1>1, <1>3, <1>4, <1>5

LEMMA DeliverOK ==
    ASSUME IInv, NEW r \in Reviews, Deliver(r)
    PROVE  IInv'
<1>1. TypeOK /\ TaskOK(r, task[r]) /\ \A u \in Users : MailOK(r, task[r], u, mail[u][r])
  BY DEF IInv, TasksOK, MailsOK
<1>2. /\ task[r] \in Task /\ task[r].step = "sending" /\ task[r].todo \in Seq(Users)
      /\ task[r].retries \in Nat /\ smtpErrors \in 0 .. MaxSmtpErrors
      /\ \A u \in Users : mail[u][r] \in Nat
  BY <1>1, TaskFields, RetriesAssumption DEF Deliver, At
<1>3. PICK head, tail : head = Head(task[r].todo) /\ tail = Tail(task[r].todo)
  OBVIOUS
<1>4. /\ head \in Users /\ head \in ToSet(task[r].todo) /\ tail \in Seq(Users)
      /\ ToSet(tail) \subseteq ToSet(task[r].todo) \ {head} /\ IsInjective(tail)
  <2>1. task[r].todo # <<>> /\ IsInjective(task[r].todo)
    BY <1>1, <1>2 DEF TaskOK
  <2> QED
    BY <1>2, <1>3, <2>1, HeadAndTail
<1>5. /\ mail' \in [Users -> [Reviews -> Nat]]
      /\ mail'[head][r] = mail[head][r] + 1
      /\ \A v \in Users \ {head} : mail'[v][r] = mail[v][r]
      /\ \A v \in Users, s \in Reviews \ {r} : mail'[v][s] = mail[v][s]
  BY <1>1, <1>3, <1>4, Received DEF Deliver
<1>6. PICK step \in {"done", "sending"} : step = IF tail = <<>> THEN "done" ELSE "sending"
  OBVIOUS
<1>7. PICK q : q = [task[r] EXCEPT !.todo = tail, !.step = step]
  OBVIOUS
<1>8. q \in Task /\ q.step = step /\ q.todo = tail /\ q.retries = task[r].retries /\ q.late = task[r].late
  BY <1>2, <1>4, <1>7 DEF Task, Steps, Running
<1>9. Moves(r, q)
  BY <1>3, <1>6, <1>7 DEF Moves, Deliver
<1>10. TaskOK(r, q)
  BY <1>1, <1>2, <1>4, <1>6, <1>8 DEF TaskOK
<1>11. ASSUME NEW u \in Users PROVE MailOK(r, q, u, mail'[u][r])
  <2>1. CASE u = head
    BY <1>1, <1>2, <1>4, <1>5, <1>6, <1>8, <2>1 DEF MailOK, TaskOK
  <2>2. CASE u # head
    BY <1>1, <1>2, <1>4, <1>5, <1>6, <1>8, <2>2 DEF MailOK
  <2> QED
    BY <2>1, <2>2
<1> QED
  BY <1>2, <1>5, <1>8, <1>9, <1>10, <1>11, OneTaskMoves DEF Deliver

\* The task after an SMTPException.
Retried(q) ==
    IF q.retries < MaxRetries
    THEN [q EXCEPT !.step = "queued", !.retries = q.retries + 1, !.todo = <<>>]
    ELSE [q EXCEPT !.step = "failed", !.todo = <<>>]

LEMMA RetriedFields ==
    ASSUME NEW q \in Task
    PROVE  /\ Retried(q) \in Task /\ Retried(q).todo = <<>> /\ Retried(q).late = q.late
           /\ \/ Retried(q).step = "queued" /\ Retried(q).retries = q.retries + 1
              \/ Retried(q).step = "failed" /\ Retried(q).retries = q.retries
<1>1. q.retries \in 0 .. MaxRetries /\ MaxRetries \in Nat
  BY RetriesAssumption DEF Task
<1>2. CASE q.retries < MaxRetries
  <2>1. PICK n \in 0 .. MaxRetries : n = q.retries + 1
    BY <1>1, <1>2
  <2>2. PICK w : w = [q EXCEPT !.step = "queued", !.retries = n, !.todo = <<>>]
    OBVIOUS
  <2>3. w \in Task /\ w.step = "queued" /\ w.retries = n /\ w.todo = <<>> /\ w.late = q.late
    BY <2>2, EmptyTodo DEF Task, Steps, Running
  <2>4. Retried(q) = w
    BY <1>2, <2>1, <2>2 DEF Retried
  <2> QED
    BY <2>1, <2>3, <2>4
<1>3. CASE ~(q.retries < MaxRetries)
  BY <1>3, EmptyTodo DEF Retried, Task, Steps, Running
<1> QED
  BY <1>2, <1>3

\* A run that stops with nothing left to do, to be repeated or for good: what its
\* messages were, and the one it was about when it stopped, counts for this run.
LEMMA StopOK ==
    ASSUME IInv, NEW r \in Reviews, task[r].step \in Running, Interrupted(r),
           NEW q \in Task, Moves(r, q), smtpErrors' \in 0 .. MaxSmtpErrors,
           q.todo = <<>>, q.late = task[r].late,
           \/ q.step = "queued" /\ q.retries = task[r].retries + 1
           \/ q.step \in {"failed", "error", "dropped", "lost"} /\ q.retries = task[r].retries
    PROVE  IInv'
<1>1. TypeOK /\ TaskOK(r, task[r]) /\ \A u \in Users : MailOK(r, task[r], u, mail[u][r])
  BY DEF IInv, TasksOK, MailsOK
<1>2. /\ task[r] \in Task /\ task[r].todo \in Seq(Users) /\ task[r].retries \in Nat
      /\ mail \in [Users -> [Reviews -> Nat]] /\ \A u \in Users : mail[u][r] \in Nat
      /\ task[r].step # "none"
  BY <1>1, TaskFields, RetriesAssumption DEF Running
<1>3. TaskOK(r, q)
  BY <1>1, <1>2, EmptyTodo DEF TaskOK
<1>4. /\ mail' \in [Users -> [Reviews -> Nat]]
      /\ \A s \in Reviews \ {r}, u \in Users : mail'[u][s] = mail[u][s]
      /\ \A u \in Users : \/ mail'[u][r] = mail[u][r]
                          \/ u \in ToSet(task[r].todo) /\ mail'[u][r] = mail[u][r] + 1
  <2>1. CASE UNCHANGED mail
    BY <1>2, <2>1
  <2>2. CASE task[r].step = "sending" /\ Receive(Head(task[r].todo), r)
    <3>1. task[r].todo # <<>> /\ IsInjective(task[r].todo)
      BY <1>1, <2>2 DEF TaskOK
    <3>2. Head(task[r].todo) \in Users /\ Head(task[r].todo) \in ToSet(task[r].todo)
      BY <1>2, <3>1, HeadAndTail
    <3> QED
      BY <1>1, <2>2, <3>2, Received
  <2> QED
    BY <2>1, <2>2 DEF Interrupted, At
<1>5. ASSUME NEW u \in Users PROVE MailOK(r, q, u, mail'[u][r])
  <2>1. PICK n : n = mail'[u][r]
    OBVIOUS
  <2>2. n \in Nat /\ n <= task[r].retries + 1
    <3>1. CASE n = mail[u][r]
      BY <1>1, <1>2, <3>1 DEF MailOK
    <3>2. CASE u \in ToSet(task[r].todo) /\ n = mail[u][r] + 1
      BY <1>1, <1>2, <3>2 DEF MailOK
    <3> QED
      BY <1>4, <2>1, <3>1, <3>2
  <2>3. n > 0 => u \in wanted[r] /\ u # Reviewer[r]
    <3>1. CASE n = mail[u][r]
      BY <1>1, <3>1 DEF MailOK
    <3>2. CASE u \in ToSet(task[r].todo)
      BY <1>1, <3>2 DEF TaskOK
    <3> QED
      BY <1>4, <2>1, <3>1, <3>2
  <2>4. CASE q.step = "queued" /\ q.retries = task[r].retries + 1
    BY <1>2, <2>1, <2>2, <2>3, <2>4, EmptyTodo DEF MailOK
  <2>5. CASE q.step \in {"failed", "error", "dropped", "lost"} /\ q.retries = task[r].retries
    BY <1>2, <2>1, <2>2, <2>3, <2>5, EmptyTodo DEF MailOK
  <2> QED
    BY <2>4, <2>5
<1> QED
  BY <1>3, <1>4, <1>5, OneTaskMoves

LEMMA EndOK ==
    ASSUME IInv, NEW r \in Reviews, task[r].step \in Running, Interrupted(r),
           NEW step \in {"error", "dropped", "lost"}, End(r, step),
           UNCHANGED dbVars, smtpErrors' \in 0 .. MaxSmtpErrors
    PROVE  IInv'
<1> DEFINE q == Ended(task[r], step)
<1>1. TypeOK /\ step \in Steps
  BY DEF IInv, Steps
<1>2. q \in Task /\ q.step = step /\ q.todo = <<>> /\ q.retries = task[r].retries /\ q.late = task[r].late
  BY <1>1, TaskFields, EndedFields
<1>3. Moves(r, q)
  BY DEF End, Moves, Ended
<1> HIDE DEF q
<1> QED
  BY <1>2, <1>3, StopOK

LEMMA SmtpErrorOK ==
    ASSUME IInv, NEW r \in Reviews, SmtpError(r)
    PROVE  IInv'
<1>1. /\ task[r].step \in Running /\ Interrupted(r) /\ UNCHANGED dbVars
      /\ smtpErrors' \in 0 .. MaxSmtpErrors
  BY TaskFields, RetriesAssumption DEF IInv, SmtpError, Running
<1>2. CASE Retry(r)
  <2>1. PICK q : q = Retried(task[r])
    OBVIOUS
  <2>2. task[r] \in Task
    BY TaskFields DEF IInv
  <2>3. /\ q \in Task /\ q.todo = <<>> /\ q.late = task[r].late
        /\ \/ q.step = "queued" /\ q.retries = task[r].retries + 1
           \/ q.step = "failed" /\ q.retries = task[r].retries
    BY <2>1, <2>2, RetriedFields
  <2>4. Moves(r, q)
    BY <1>1, <1>2, <2>1 DEF Moves, Retry, Retried
  <2> QED
    BY <1>1, <2>3, <2>4, StopOK
<1>3. CASE Drop(r)
  BY <1>1, <1>3, EndOK DEF Drop
<1> QED
  BY <1>2, <1>3 DEF SmtpError

LEMMA OtherErrorOK ==
    ASSUME IInv, NEW r \in Reviews, OtherError(r)
    PROVE  IInv'
<1>1. smtpErrors' \in 0 .. MaxSmtpErrors
  BY TaskFields DEF IInv, OtherError
<1> QED
  BY <1>1, EndOK DEF OtherError

LEMMA CrashOK ==
    ASSUME IInv, NEW r \in Reviews, Crash(r)
    PROVE  IInv'
<1>1. smtpErrors' \in 0 .. MaxSmtpErrors /\ Interrupted(r)
  BY TaskFields DEF IInv, Crash, Interrupted
<1> QED
  BY <1>1, EndOK DEF Crash

-----------------------------------------------------------------------------
(* What happens meanwhile.                                                 *)

\* A step that leaves the tasks and the mailboxes alone.
LEMMA MeanwhileOK ==
    ASSUME IInv, TypeOK', UNCHANGED <<task, smtpErrors, mail>>,
           \A r \in Reviews : wanted[r] \subseteq wanted'[r],
           \A r \in Reviews : task[r].step # "none" => subscribed' \union {Author} \subseteq wanted'[r],
           \A r \in Reviews : Gone(r) => Gone(r)'
    PROVE  IInv'
<1>1. \A r \in Reviews : TaskOK(r, task[r]) => TaskOK(r, task[r])'
  BY DEF TaskOK
<1>2. \A r \in Reviews, u \in Users : MailOK(r, task[r], u, mail[u][r]) => MailOK(r, task[r], u, mail[u][r])'
  BY DEF MailOK
<1> QED
  BY <1>1, <1>2 DEF IInv, TasksOK, MailsOK

LEMMA SubscribeOK ==
    ASSUME IInv, NEW u \in Users, Subscribe(u)
    PROVE  IInv'
<1>1. TypeOK /\ \A r \in Reviews : TaskOK(r, task[r]) /\ \A v \in Users : MailOK(r, task[r], v, mail[v][r])
  BY DEF IInv, TasksOK, MailsOK
<1>2. TypeOK'
  BY <1>1 DEF Subscribe, TypeOK
<1>3. \A r \in Reviews : wanted'[r] = IF task[r].step = "none" THEN {} ELSE wanted[r] \union {u}
  BY DEF Subscribe, At
<1>4. UNCHANGED <<task, mail, rows, alive>> /\ subscribed' = subscribed \union {u}
  BY DEF Subscribe
<1>5. ASSUME NEW r \in Reviews PROVE TaskOK(r, task[r])'
  <2>1. CASE task[r].step = "none"
    <3>1. ToSet(task[r].todo) = {}
      BY <1>1, <2>1, EmptyTodo DEF TaskOK
    <3> QED
      BY <1>1, <1>4, <2>1, <3>1 DEF TaskOK, Gone
  <2>2. CASE task[r].step # "none"
    BY <1>1, <1>3, <1>4, <2>2 DEF TaskOK, Gone
  <2> QED
    BY <2>1, <2>2
<1>6. ASSUME NEW r \in Reviews, NEW v \in Users PROVE MailOK(r, task[r], v, mail[v][r])'
  <2>1. MailOK(r, task[r], v, mail[v][r]) /\ mail'[v][r] = mail[v][r] /\ task'[r] = task[r]
    BY <1>1, <1>4
  <2>2. CASE task[r].step = "none"
    <3>1. ~(mail[v][r] > 0)
      BY <2>1, <2>2 DEF MailOK
    <3> QED
      BY <2>1, <3>1 DEF MailOK
  <2>3. CASE task[r].step # "none"
    <3>1. wanted'[r] = wanted[r] \union {u}
      BY <1>3, <2>3
    <3> QED
      BY <2>1, <3>1 DEF MailOK
  <2> QED
    BY <2>2, <2>3
<1>7. TasksOK'
  BY <1>5 DEF TasksOK
<1>8. MailsOK'
  BY <1>6 DEF MailsOK
<1> QED
  BY <1>2, <1>7, <1>8 DEF IInv

LEMMA OthersOK ==
    ASSUME IInv,
           \/ \E u \in Users : Unsubscribe(u) \/ Deactivate(u)
           \/ \E r \in Reviews : DeleteReview(r)
           \/ SoftDelete
    PROVE  IInv'
<1>1. TypeOK /\ \A r \in Reviews : task[r].step # "none" => subscribed \union {Author} \subseteq wanted[r]
  BY DEF IInv, TasksOK, TaskOK
<1>2. ASSUME NEW u \in Users, Unsubscribe(u) PROVE IInv'
  <2>1. TypeOK'
    BY <1>1, <1>2 DEF Unsubscribe, TypeOK
  <2>2. \A r \in Reviews : Gone(r) => Gone(r)'
    BY <1>2 DEF Unsubscribe, Gone
  <2> QED
    BY <1>1, <1>2, <2>1, <2>2, MeanwhileOK DEF Unsubscribe
<1>3. ASSUME NEW u \in Users, Deactivate(u) PROVE IInv'
  <2>1. TypeOK'
    BY <1>1, <1>3 DEF Deactivate, TypeOK
  <2>2. \A r \in Reviews : Gone(r) => Gone(r)'
    BY <1>3 DEF Deactivate, Gone
  <2> QED
    BY <1>1, <1>3, <2>1, <2>2, MeanwhileOK DEF Deactivate
<1>4. ASSUME NEW r \in Reviews, DeleteReview(r) PROVE IInv'
  <2>1. TypeOK'
    BY <1>1, <1>4 DEF DeleteReview, TypeOK
  <2>2. \A s \in Reviews : Gone(s) => Gone(s)'
    BY <1>4 DEF DeleteReview, Gone
  <2> QED
    BY <1>1, <1>4, <2>1, <2>2, MeanwhileOK DEF DeleteReview
<1>5. ASSUME SoftDelete PROVE IInv'
  <2>1. TypeOK'
    BY <1>1, <1>5 DEF SoftDelete, TypeOK
  <2>2. \A r \in Reviews : Gone(r) => Gone(r)'
    BY <1>5 DEF SoftDelete, Gone
  <2> QED
    BY <1>1, <1>5, <2>1, <2>2, MeanwhileOK DEF SoftDelete
<1> QED
  BY <1>2, <1>3, <1>4, <1>5

\* Reviews come back, or their location does: the tasks stay as they are, but for late.
LEMMA BackOK ==
    ASSUME IInv, NEW rs, Back(rs), UNCHANGED <<subscribed, reachable, smtpErrors, mail, wanted>>,
           rows' \subseteq Reviews, alive' \in BOOLEAN,
           \A r \in Reviews \ rs : Gone(r) => Gone(r)'
    PROVE  IInv'
<1>1. TypeOK /\ \A r \in Reviews : TaskOK(r, task[r]) /\ \A u \in Users : MailOK(r, task[r], u, mail[u][r])
  BY DEF IInv, TasksOK, MailsOK
<1>2. ASSUME NEW r \in Reviews
      PROVE  /\ task'[r] \in Task /\ task'[r].step = task[r].step /\ task'[r].todo = task[r].todo
             /\ task'[r].retries = task[r].retries /\ task'[r].late = (task[r].late /\ r \notin rs)
  <2>1. PICK late \in BOOLEAN : late = (task[r].late /\ r \notin rs)
    OBVIOUS
  <2>2. task[r] \in Task /\ task'[r] = [task[r] EXCEPT !.late = late]
    BY <1>1, <2>1, TaskFields DEF Back
  <2> QED
    BY <2>1, <2>2 DEF Task
<1>3. TypeOK'
  <2>1. task' \in [Reviews -> Task]
    BY <1>2 DEF Back
  <2> QED
    BY <1>1, <2>1 DEF TypeOK
<1>4. ASSUME NEW r \in Reviews PROVE TaskOK(r, task[r])'
  <2>1. PICK q : q = task'[r]
    OBVIOUS
  <2>2. /\ q.step = task[r].step /\ q.todo = task[r].todo /\ q.retries = task[r].retries
        /\ q.late => task[r].late /\ Gone(r)'
    BY <1>1, <1>2, <2>1 DEF TaskOK
  <2> QED
    BY <1>1, <2>1, <2>2 DEF TaskOK
<1>5. ASSUME NEW r \in Reviews, NEW u \in Users PROVE MailOK(r, task[r], u, mail[u][r])'
  BY <1>1, <1>2 DEF MailOK
<1>6. TasksOK'
  BY <1>4 DEF TasksOK
<1>7. MailsOK'
  BY <1>5 DEF MailsOK
<1> QED
  BY <1>3, <1>6, <1>7 DEF IInv

LEMMA SaveBackOK ==
    ASSUME IInv, NEW r \in Reviews, SaveBack(r)
    PROVE  IInv'
<1>1. rows \subseteq Reviews /\ alive \in BOOLEAN
  BY DEF IInv, TypeOK
<1>2. PICK rs : rs = IF alive THEN {r} ELSE {}
  OBVIOUS
<1>3. \A s \in Reviews \ rs : Gone(s) => Gone(s)'
  BY <1>2 DEF SaveBack, Gone
<1> QED
  BY <1>1, <1>2, <1>3, BackOK DEF SaveBack

LEMMA RestoreOK ==
    ASSUME IInv, Restore
    PROVE  IInv'
<1>1. rows \subseteq Reviews
  BY DEF IInv, TypeOK
<1>2. \A s \in Reviews \ rows : Gone(s) => Gone(s)'
  BY DEF Restore, Gone
<1> QED
  BY <1>1, <1>2, BackOK DEF Restore

-----------------------------------------------------------------------------
LEMMA Inductive == IInv /\ [Next]_vars => IInv'
<1> SUFFICES ASSUME IInv, [Next]_vars PROVE IInv'
  OBVIOUS
<1>1. ASSUME NEW r \in Reviews, Work(r) PROVE IInv'
  BY <1>1, TakeOK, LoadOK, CollectOK, ConnectOK, DeliverOK DEF Work
<1>2. ASSUME NEW r \in Reviews, SmtpError(r) \/ OtherError(r) \/ Crash(r) PROVE IInv'
  BY <1>2, SmtpErrorOK, OtherErrorOK, CrashOK
<1>3. CASE UNCHANGED vars
  <2>1. TypeOK'
    BY <1>3 DEF IInv, TypeOK, vars
  <2>2. \A r \in Reviews : task[r].step # "none" => subscribed \union {Author} \subseteq wanted[r]
    BY DEF IInv, TasksOK, TaskOK
  <2>3. \A r \in Reviews : Gone(r) => Gone(r)'
    BY <1>3 DEF vars, Gone
  <2> QED
    BY <1>3, <2>1, <2>2, <2>3, MeanwhileOK DEF vars
<1> QED
  BY <1>1, <1>2, <1>3, PublishOK, SubscribeOK, OthersOK, SaveBackOK, RestoreOK DEF Next

LEMMA Invariant == Spec => []IInv
  BY InitOK, Inductive, PTL DEF Spec

-----------------------------------------------------------------------------
(* The theorems.                                                           *)

\* For any number of users, reviews and retries, every variable keeps its type; the
\* retries of a task stay within max_retries.
THEOREM TypesHold == Spec => []TypeOK
<1>1. IInv => TypeOK
  BY DEF IInv
<1> QED
  BY <1>1, Invariant, PTL

\* For any finite number of users, and subscribers in any order, the loop of
\* recipients_for_review collects exactly the location author and the subscribers who
\* can be written to, the reviewer excepted, and none of them twice.
THEOREM LoopCollectsEachOnce == Spec => []EachInterestedOnce
<1>1. IInv => EachInterestedOnce
  <2> SUFFICES ASSUME IInv, NEW r \in Reviews, NEW subscribers \in SetToSeqs(subscribed)
               PROVE  /\ ToSet(Recipients(r, subscribers)) = Interested(r)
                      /\ IsInjective(Recipients(r, subscribers))
    BY DEF EachInterestedOnce
  <2>1. subscribed \subseteq Users
    BY DEF IInv, TypeOK
  <2> QED
    BY <2>1, RecipientsMeaning
<1> QED
  BY <1>1, Invariant, PTL

\* For any number of users and retries: a user gets one message about a review per run
\* of its task at most, so no more than max_retries + 1 in all, also when the SMTP
\* server accepts messages that it reports as failed.
THEOREM OneMessageEachRun == Spec => []OneMessagePerRun
<1>1. IInv => OneMessagePerRun
  BY DEF IInv, MailsOK, MailOK, OneMessagePerRun
<1> QED
  BY <1>1, Invariant, PTL

\* For any number of users and reviews, and whoever subscribes, unsubscribes or leaves
\* while the task and its retries run: a message reaches only the location author and
\* people who were subscribed since the review was published, never the reviewer.
THEOREM MailReachesInterested == Spec => []OnlyToTheInterested
<1>1. IInv => OnlyToTheInterested
  BY DEF IInv, MailsOK, MailOK, OnlyToTheInterested
<1> QED
  BY <1>1, Invariant, PTL

\* Whose mailbox a step changes.
LEMMA MailStep ==
    ASSUME IInv, [Next]_vars, NEW u \in Users, NEW r \in Reviews, mail'[u][r] # mail[u][r]
    PROVE  task[r].step \in {"connect", "sending"}
<1>1. ASSUME NEW s \in Reviews, s # r, task[s].step = "sending", Receive(Head(task[s].todo), s) PROVE FALSE
  <2>1. TypeOK /\ TaskOK(s, task[s]) /\ task[s].todo \in Seq(Users)
    BY TaskFields DEF IInv, TasksOK
  <2>2. Head(task[s].todo) \in Users
    BY <1>1, <2>1, HeadAndTail DEF TaskOK
  <2> QED
    BY <1>1, <2>1, <2>2, Received
<1>2. PICK s \in Reviews : task[s].step = "sending" /\ Receive(Head(task[s].todo), s)
  BY DEF Next, vars, Publish, Work, Take, Load, Collect, Connect, Deliver, SmtpError, OtherError, Crash,
         Interrupted, At, DeleteReview, SaveBack, Restore, Subscribe, Unsubscribe, Deactivate, SoftDelete
<1> QED
  BY <1>1, <1>2

\* For any number of reviews and runs, and whatever is deleted, saved back and restored
\* between their steps: a run taken after its review was deleted, or its location
\* soft-deleted, sends nothing unless both were back before it looked for them.
THEOREM DeletedAreSilent == Spec => NothingAboutTheDeleted
<1>1. IInv /\ [Next]_vars =>
          [\A u \in Users, r \in Reviews : mail'[u][r] # mail[u][r] => ~task[r].late]_vars
  <2> SUFFICES ASSUME IInv, [Next]_vars, NEW u \in Users, NEW r \in Reviews, mail'[u][r] # mail[u][r]
               PROVE  ~task[r].late
    OBVIOUS
  <2>1. task[r].step \in {"connect", "sending"}
    BY MailStep
  <2> QED
    BY <2>1 DEF IInv, TasksOK, TaskOK
<1> QED
  BY <1>1, Invariant, PTL DEF Spec, NothingAboutTheDeleted
=============================================================================
