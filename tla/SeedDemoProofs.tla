---------------------------- MODULE SeedDemoProofs ----------------------------
(***************************************************************************)
(* The invariants of SeedDemo, for any number of runs of the command at    *)
(* once, and any demo data.                                                *)
(***************************************************************************)
EXTENDS SeedDemo, TLAPS

Steps == {"idle", "check", "collect locations", "remove locations", "collect categories",
          "remove categories", "collect users", "remove users", "fill", "categories of fill", "commit"}
UserRow == [name : DemoNames \union Visitors, made : Nat]
Names == CATEGORIES \union Categories
CategoryRow == [born : Names, made : Nat]
Naming == UNION {[cs -> Names] : cs \in SUBSET CategoryRow}
LocationRow == [title : LOCATIONS \union {Place}, made : Nat, author : UserRow, category : CategoryRow]
ReviewRow == [location : LocationRow, author : UserRow]
Rows == [users : SUBSET UserRow, categories : SUBSET CategoryRow,
         locations : SUBSET LocationRow, reviews : SUBSET ReviewRow]
Command == [step : Steps, reset : BOOLEAN, alone : BOOLEAN, gone : Rows, got : Naming]

TypeInv ==
    /\ users \subseteq UserRow /\ nameOf \in Naming
    /\ locations \subseteq LocationRow /\ reviews \subseteq ReviewRow
    /\ made \in Nat
    /\ command \in [Commands -> Command]

\* No row was made later than the last one, nor was what a command is about to remove.
Old(us, ls) == (\A u \in us : u.made <= made) /\ (\A l \in ls : l.made <= made)
AllOld == Old(users, locations) /\ \A p \in Commands : Old(command[p].gone.users, command[p].gone.locations)

CategoriesOld == \A c \in categories : c.made <= made

\* One fill at a time holds the demo names, and nobody has one meanwhile.
OneFill ==
    /\ \A p, q \in Commands : HoldsNames(p) /\ HoldsNames(q) => p = q
    /\ \A p \in Commands, u \in users : HoldsNames(p) => u.name \notin DemoNames

\* The demo locations are a whole batch with its users.
Demo == {l \in locations : l.title \in LOCATIONS}
UserOf(n, l) == [name |-> n, made |-> l.made]
WholeBatch ==
    /\ \A k, l \in Demo : k.made = l.made
    /\ \A l \in Demo : l.made # 0
    /\ \A l \in Demo, t \in LOCATIONS : \E k \in Demo : k.title = t
    /\ \A l \in Demo, n \in DemoNames : UserOf(n, l) \in users
    /\ \A l \in Demo : l.author = UserOf(AuthorOf[l.title], l)

\* What a command is about to remove is all of the batch or nothing of it,
\* and only what is the demo users'.
WholeGone(gone) ==
    /\ \A k, l \in Demo : k \in gone.locations => l \in gone.locations
    /\ \A l \in Demo, m, n \in DemoNames : UserOf(m, l) \in gone.users => UserOf(n, l) \in gone.users
OwnGone(gone) ==
    /\ \A u \in gone.users : u.name \in DemoNames
    /\ \A l \in gone.locations : l.author.name \in DemoNames
    /\ \A r \in gone.reviews : DemoNames \intersect {r.author.name, r.location.author.name} # {}
AllGone == \A p \in Commands : WholeGone(command[p].gone) /\ OwnGone(command[p].gone)

IInv == TypeInv /\ AllOld /\ CategoriesOld /\ ReferencesHold /\ OneFill /\ WholeBatch /\ AllGone

-----------------------------------------------------------------------------
(* Steps of a command that leave the tables alone.                         *)

LEMMA IdleType == Idle \in Command /\ Idle.step = "idle" /\ Idle.gone = Nothing
<1>1. <<>> \in [{} -> Names]
  OBVIOUS
<1>2. <<>> \in Naming
  BY <1>1 DEF Naming
<1> QED
  BY <1>2 DEF Idle, Command, Steps, Nothing, Rows

\* A naming is a function from categories to names.
LEMMA NamingFacts ==
    /\ \A f \in Naming : DOMAIN f \subseteq CategoryRow /\ \A c \in DOMAIN f : f[c] \in Names
    /\ \A cs \in SUBSET CategoryRow : [cs -> Names] \subseteq Naming
BY DEF Naming

LEMMA CategoriesType == ASSUME TypeInv PROVE categories \subseteq CategoryRow
BY NamingFacts DEF TypeInv, categories

\* What remains when categories are removed, and what there is when some are added.
LEMMA WithoutNames ==
    ASSUME TypeInv, NEW cs
    PROVE  DOMAIN Without(cs) = categories \ cs /\ Without(cs) \in Naming
<1>1. nameOf \in Naming /\ categories \ cs \in SUBSET CategoryRow
  BY CategoriesType DEF TypeInv
<1>2. Without(cs) \in [categories \ cs -> Names]
  BY <1>1, NamingFacts DEF Without, categories
<1> QED
  BY <1>1, <1>2, NamingFacts

Fresh(names) == {[born |-> n, made |-> made + 1] : n \in names}
LEMMA WithNames ==
    ASSUME NEW found \in Naming, NEW names \in SUBSET Names, made \in Nat
    PROVE  /\ DOMAIN With(found, names) = DOMAIN found \union Fresh(names)
           /\ With(found, names) \in Naming
           /\ \A c \in DOMAIN found : With(found, names)[c] = found[c]
           /\ \A c \in Fresh(names) : c.made = made + 1
           /\ (\A c \in DOMAIN found : c.made <= made) =>
                 \A n \in names : \E c \in DOMAIN With(found, names) : With(found, names)[c] = n
<1> DEFINE new == Fresh(names)
           all == DOMAIN found \union new
<1>1. /\ new \subseteq CategoryRow
      /\ \A c \in new : c.born \in names /\ c.made = made + 1
      /\ \A n \in names : \E c \in new : c.born = n
  <2>1. ASSUME NEW n \in names PROVE [born |-> n, made |-> made + 1] \in CategoryRow
    BY DEF CategoryRow
  <2>2. ASSUME NEW n \in names PROVE [born |-> n, made |-> made + 1] \in new
    BY DEF Fresh
  <2>3. ASSUME NEW c \in new PROVE c \in CategoryRow /\ c.born \in names /\ c.made = made + 1
    <3>1. PICK n \in names : c = [born |-> n, made |-> made + 1]
      BY DEF Fresh
    <3> QED
      BY <2>1, <3>1
  <2> QED
    BY <2>2, <2>3
<1>2. With(found, names) = [c \in all |-> IF c \in DOMAIN found THEN found[c] ELSE c.born]
  BY DEF With, Fresh
<1> HIDE DEF new
<1>3. DOMAIN found \subseteq CategoryRow /\ \A c \in DOMAIN found : found[c] \in Names
  BY NamingFacts
<1>4. With(found, names) \in [all -> Names]
  BY <1>1, <1>2, <1>3
<1>5. With(found, names) \in Naming
  BY <1>1, <1>3, <1>4, NamingFacts
<1>6. ASSUME \A c \in DOMAIN found : c.made <= made, NEW n \in names
      PROVE  \E c \in all : With(found, names)[c] = n
  <2>1. PICK c \in new : c.born = n
    BY <1>1
  <2>2. c.made = made + 1
    BY <1>1
  <2>3. c \notin DOMAIN found
    BY <1>6, <2>2
  <2>4. With(found, names)[c] = n
    BY <1>2, <2>1, <2>3
  <2> QED
    BY <2>4
<1>7. DOMAIN With(found, names) = all
  BY <1>2
<1>8. \A c \in DOMAIN found : With(found, names)[c] = found[c]
  BY <1>2
<1> QED
  BY <1>1, <1>5, <1>6, <1>7, <1>8 DEF new

\* What a command is about to remove, if it is nothing.
LEMMA NothingGone ==
    /\ Nothing \in Rows /\ WholeGone(Nothing) /\ OwnGone(Nothing)
    /\ Old(Nothing.users, Nothing.locations)
BY DEF Nothing, Rows, WholeGone, OwnGone, Old

\* A command goes to another of its states.
LEMMA CommandMoves ==
    ASSUME IInv, UNCHANGED <<tables, made>>, NEW p \in Commands, NEW c \in Command,
           command' = [command EXCEPT ![p] = c],
           WholeGone(c.gone), OwnGone(c.gone), Old(c.gone.users, c.gone.locations),
           c.step \in {"categories of fill", "commit"} =>
              \/ HoldsNames(p)
              \/ /\ \A q \in Commands : ~HoldsNames(q)
                 /\ \A u \in users : u.name \notin DemoNames
    PROVE  IInv'
<1>1. /\ command' \in [Commands -> Command] /\ command'[p] = c
      /\ \A q \in Commands \ {p} : command'[q] = command[q]
  BY DEF IInv, TypeInv
<1>2. UNCHANGED <<users, nameOf, categories, locations, reviews, made>>
  BY DEF tables, categories
<1>3. TypeInv' /\ ReferencesHold'
  BY <1>1, <1>2 DEF IInv, TypeInv, ReferencesHold, Consistent
<1>4. AllOld' /\ CategoriesOld'
  BY <1>1, <1>2 DEF IInv, AllOld, Old, CategoriesOld
<1>5. OneFill'
  <2>1. \A q \in Commands : HoldsNames(q)' => HoldsNames(q) \/ q = p
    BY <1>1 DEF HoldsNames
  <2>2. HoldsNames(p)' => c.step \in {"categories of fill", "commit"}
    BY <1>1 DEF HoldsNames
  <2> QED
    BY <1>2, <2>1, <2>2 DEF IInv, OneFill
<1>6. WholeBatch' /\ Demo' = Demo
  BY <1>2 DEF IInv, WholeBatch, Demo, UserOf
<1>7. AllGone'
  BY <1>1, <1>2, <1>6 DEF IInv, AllGone, WholeGone, OwnGone, UserOf
<1> QED
  BY <1>3, <1>4, <1>5, <1>6, <1>7 DEF IInv

\* Another step of the same command, with the same rows to remove.
LEMMA GotoIInv ==
    ASSUME IInv, UNCHANGED <<tables, made>>, NEW p \in Commands,
           NEW step \in Steps \ {"categories of fill", "commit"}, Goto(p, step)
    PROVE  IInv'
<1> DEFINE c == [command[p] EXCEPT !.step = step]
<1>1. command[p] \in Command
  BY DEF IInv, TypeInv
<1>2. c \in Command /\ c.step = step /\ c.gone = command[p].gone
  BY <1>1 DEF Command
<1>3. command' = [command EXCEPT ![p] = c]
  BY DEF Goto
<1> HIDE DEF c
<1>4. WholeGone(c.gone) /\ OwnGone(c.gone) /\ Old(c.gone.users, c.gone.locations)
  BY <1>2 DEF IInv, AllGone, AllOld
<1> QED
  BY <1>2, <1>3, <1>4, CommandMoves

LEMMA EndIInv ==
    ASSUME IInv, UNCHANGED <<tables, made>>, NEW p \in Commands, NEW outcome, End(p, outcome)
    PROVE  IInv'
BY IdleType, NothingGone, CommandMoves DEF End

LEMMA CollectedIInv ==
    ASSUME IInv, UNCHANGED <<tables, made>>, NEW p \in Commands,
           NEW step \in Steps \ {"categories of fill", "commit"}, NEW gone \in Rows,
           Collected(p, step, gone),
           WholeGone(gone), OwnGone(gone), Old(gone.users, gone.locations)
    PROVE  IInv'
<1> DEFINE c == [command[p] EXCEPT !.step = step, !.gone = gone]
<1>1. command[p] \in Command
  BY DEF IInv, TypeInv
<1>2. c \in Command /\ c.step = step /\ c.gone = gone
  BY <1>1 DEF Command
<1>3. command' = [command EXCEPT ![p] = c]
  BY DEF Collected
<1> HIDE DEF c
<1> QED
  BY <1>2, <1>3, CommandMoves

LEMMA CheckIInv == ASSUME IInv, NEW p \in Commands, Check(p) PROVE IInv'
<1>1. UNCHANGED <<tables, made>> /\ (End(p, "present") \/ Goto(p, "fill"))
  BY DEF Check
<1> QED
  BY <1>1, EndIInv, GotoIInv DEF Steps

LEMMA CollectLocationsIInv == ASSUME IInv, NEW p \in Commands, CollectLocations(p) PROVE IInv'
<1> DEFINE ls == {l \in locations : l.author.name \in DemoNames}
           gone == [Nothing EXCEPT !.locations = ls, !.reviews = {r \in reviews : r.location \in ls}]
<1>1. Collected(p, "remove locations", gone) /\ UNCHANGED <<tables, made>>
  BY DEF CollectLocations
<1>2. /\ gone.users = {} /\ gone.categories = {} /\ gone.locations = ls
      /\ gone.reviews = {r \in reviews : r.location \in ls} /\ gone \in Rows
  BY DEF Nothing, Rows, IInv, TypeInv
<1>3. \A l \in Demo : l \in ls
  <2> SUFFICES ASSUME NEW l \in Demo PROVE l \in ls
    OBVIOUS
  <2>1. l \in locations /\ l.title \in LOCATIONS
    BY DEF Demo
  <2>2. l.author = UserOf(AuthorOf[l.title], l)
    BY DEF IInv, WholeBatch
  <2>3. AuthorOf[l.title] \in DemoNames
    BY <2>1, DataAssumption DEF DemoNames
  <2> QED
    BY <2>1, <2>2, <2>3 DEF UserOf
<1>4. WholeGone(gone)
  BY <1>2, <1>3 DEF WholeGone
<1>5. OwnGone(gone)
  BY <1>2 DEF OwnGone
<1>6. Old(gone.users, gone.locations)
  BY <1>2 DEF Old, IInv, AllOld
<1> HIDE DEF gone
<1> QED
  BY <1>1, <1>2, <1>4, <1>5, <1>6, CollectedIInv DEF Steps

LEMMA CollectCategoriesIInv == ASSUME IInv, NEW p \in Commands, CollectCategories(p) PROVE IInv'
<1> DEFINE used == {l.category : l \in locations}
           cs == {c \in categories \ used : nameOf[c] \in CATEGORIES}
           gone == [Nothing EXCEPT !.categories = cs]
<1>1. Collected(p, "remove categories", gone) /\ UNCHANGED <<tables, made>>
  BY DEF CollectCategories
<1>2. cs \subseteq CategoryRow
  BY CategoriesType DEF IInv
<1> HIDE DEF cs
<1>3. /\ gone.users = {} /\ gone.categories = cs /\ gone.locations = {} /\ gone.reviews = {}
      /\ gone \in Rows
  BY <1>2 DEF Nothing, Rows, IInv, TypeInv
<1> HIDE DEF gone
<1>4. WholeGone(gone) /\ OwnGone(gone) /\ Old(gone.users, gone.locations)
  BY <1>2, <1>3 DEF WholeGone, OwnGone, Old
<1> QED
  BY <1>1, <1>3, <1>4, CollectedIInv DEF Steps

LEMMA CollectUsersIInv == ASSUME IInv, NEW p \in Commands, CollectUsers(p) PROVE IInv'
<1> DEFINE us == {u \in users : u.name \in DemoNames}
           ls == {l \in locations : l.author \in us}
           rs == {r \in reviews : r.author \in us \/ r.location \in ls}
           gone == [Nothing EXCEPT !.users = us, !.locations = ls, !.reviews = rs]
<1>1. Collected(p, "remove users", gone) /\ UNCHANGED <<tables, made>>
  BY DEF CollectUsers, Cascade
<1>2. /\ gone.users = us /\ gone.categories = {} /\ gone.locations = ls /\ gone.reviews = rs
      /\ gone \in Rows
  BY DEF Nothing, Rows, IInv, TypeInv
<1>3. \A l \in Demo, n \in DemoNames : UserOf(n, l) \in us
  BY DEF IInv, WholeBatch, UserOf
<1>4. \A l \in Demo : l.author \in us
  BY <1>3, DataAssumption DEF IInv, WholeBatch, Demo, DemoNames
<1>5. WholeGone(gone)
  BY <1>2, <1>3, <1>4 DEF WholeGone, Demo
<1>6. OwnGone(gone)
  BY <1>2 DEF OwnGone
<1>7. Old(gone.users, gone.locations)
  BY <1>2 DEF Old, IInv, AllOld
<1> HIDE DEF gone
<1> QED
  BY <1>1, <1>2, <1>5, <1>6, <1>7, CollectedIInv DEF Steps

LEMMA CreateUsersIInv == ASSUME IInv, NEW p \in Commands, CreateUsers(p) PROVE IInv'
<1>1. UNCHANGED <<tables, made>> /\ \A q \in Commands : ~HoldsNames(q)
  BY DEF CreateUsers
<1>2. CASE \E u \in users : u.name \in DemoNames
  BY <1>1, <1>2, EndIInv DEF CreateUsers
<1>3. CASE ~\E u \in users : u.name \in DemoNames
  <2> DEFINE c == [command[p] EXCEPT !.step = "categories of fill"]
  <2>1. command[p] \in Command
    BY DEF IInv, TypeInv
  <2>2. c \in Command /\ c.gone = command[p].gone
    BY <2>1 DEF Command, Steps
  <2>3. command' = [command EXCEPT ![p] = c]
    BY <1>3 DEF CreateUsers, Goto
  <2> HIDE DEF c
  <2>4. WholeGone(c.gone) /\ OwnGone(c.gone) /\ Old(c.gone.users, c.gone.locations)
    BY <2>2 DEF IInv, AllGone, AllOld
  <2> QED
    BY <1>1, <1>3, <2>2, <2>3, <2>4, CommandMoves
<1> QED
  BY <1>2, <1>3

LEMMA GetCategoriesIInv == ASSUME IInv, NEW p \in Commands, GetCategories(p) PROVE IInv'
<1>1. UNCHANGED <<tables, made>> /\ HoldsNames(p)
  BY DEF GetCategories, HoldsNames
<1>2. CASE SlugClash
  BY <1>1, <1>2, EndIInv DEF GetCategories
<1>3. CASE ~SlugClash
  <2> DEFINE found == {x \in categories : nameOf[x] \in CATEGORIES}
             got == [x \in found |-> nameOf[x]]
             c == [command[p] EXCEPT !.step = "commit", !.got = got]
  <2>1. command[p] \in Command
    BY DEF IInv, TypeInv
  <2>3. command' = [command EXCEPT ![p] = c]
    BY <1>3 DEF GetCategories
  <2>5. found \in SUBSET CategoryRow /\ \A x \in found : nameOf[x] \in Names
    BY CategoriesType DEF IInv, Names
  <2>6. got \in [found -> Names]
    BY <2>5
  <2>7. got \in Naming
    BY <2>5, <2>6, NamingFacts
  <2> HIDE DEF got, found
  <2>2. c \in Command /\ c.gone = command[p].gone
    BY <2>1, <2>7 DEF Command, Steps
  <2> HIDE DEF c
  <2>4. WholeGone(c.gone) /\ OwnGone(c.gone) /\ Old(c.gone.users, c.gone.locations)
    BY <2>2 DEF IInv, AllGone, AllOld
  <2> QED
    BY <1>1, <2>2, <2>3, <2>4, CommandMoves
<1> QED
  BY <1>2, <1>3

-----------------------------------------------------------------------------
(* Steps that change the tables.                                           *)

\* The rows that a command collected go.
LEMMA RemoveIInv == ASSUME IInv, NEW p \in Commands, Remove(p) PROVE IInv'
<1> DEFINE gone == command[p].gone
<1>1. CASE ~Consistent(users \ gone.users, categories \ gone.categories,
                       locations \ gone.locations, reviews \ gone.reviews)
  BY <1>1, EndIInv DEF Remove
<1>2. CASE Consistent(users \ gone.users, categories \ gone.categories,
                      locations \ gone.locations, reviews \ gone.reviews)
  <2> DEFINE c == [command[p] EXCEPT !.step = Removals[command[p].step], !.gone = Nothing]
  <2>1. command[p] \in Command /\ TypeInv
    BY DEF IInv, TypeInv
  <2>2. Removals[command[p].step] \in Steps \ {"categories of fill", "commit"}
    BY DEF Remove, Removals, Steps
  <2>3. c \in Command /\ c.step \notin {"categories of fill", "commit"} /\ c.gone = Nothing
    BY <2>1, <2>2, NothingGone DEF Command
  <2>4. /\ command' = [command EXCEPT ![p] = c]
        /\ users' = users \ gone.users /\ nameOf' = Without(gone.categories)
        /\ categories' = categories \ gone.categories
        /\ locations' = locations \ gone.locations /\ reviews' = reviews \ gone.reviews
        /\ made' = made
    BY <1>2, <2>1, WithoutNames DEF Remove, Collected, categories
  <2> HIDE DEF c
  <2>5. /\ command' \in [Commands -> Command] /\ command'[p] = c
        /\ \A q \in Commands \ {p} : command'[q] = command[q]
    BY <2>1, <2>3, <2>4 DEF TypeInv
  <2>6. TypeInv'
    BY <2>1, <2>4, <2>5, WithoutNames DEF TypeInv
  <2>7. AllOld' /\ CategoriesOld'
    BY <2>3, <2>4, <2>5, NothingGone DEF IInv, AllOld, Old, CategoriesOld
  <2>8. ReferencesHold'
    BY <1>2, <2>4 DEF IInv, ReferencesHold
  <2>9. OneFill'
    <3>1. \A q \in Commands : HoldsNames(q)' => HoldsNames(q)
      BY <2>3, <2>5 DEF HoldsNames
    <3> QED
      BY <2>4, <3>1 DEF IInv, OneFill
  <2>10. Demo' \subseteq Demo /\ \A l \in Demo' : l \notin gone.locations /\ l \in locations'
    BY <2>4 DEF Demo
  <2>11. \A l \in Demo' : Demo' = Demo
    <3> SUFFICES ASSUME NEW l \in Demo', NEW k \in Demo PROVE k \in Demo'
      BY <2>10
    <3>1. k \notin gone.locations
      BY <2>10 DEF IInv, AllGone, WholeGone
    <3> QED
      BY <2>4, <3>1 DEF Demo
  <2>12. \A l \in Demo', n \in DemoNames : UserOf(n, l) \in users'
    <3> SUFFICES ASSUME NEW l \in Demo', NEW n \in DemoNames PROVE UserOf(n, l) \in users'
      OBVIOUS
    <3>1. l \in Demo /\ l.title \in LOCATIONS
      BY <2>10 DEF Demo
    <3>2. l.author = UserOf(AuthorOf[l.title], l) /\ UserOf(n, l) \in users
      BY <3>1 DEF IInv, WholeBatch
    <3>3. l.author \in users \ gone.users
      BY <1>2, <2>4, <2>10 DEF Consistent
    <3>4. AuthorOf[l.title] \in DemoNames
      BY <3>1, DataAssumption DEF DemoNames
    <3>5. WholeGone(gone)
      BY DEF IInv, AllGone
    <3>6. UserOf(n, l) \notin gone.users
      BY <3>1, <3>2, <3>3, <3>4, <3>5 DEF WholeGone
    <3> QED
      BY <2>4, <3>2, <3>6
  <2>13. WholeBatch'
    <3>1. \A k, l \in Demo' : k.made = l.made
      BY <2>10 DEF IInv, WholeBatch
    <3>2. \A l \in Demo', t \in LOCATIONS : \E k \in Demo' : k.title = t
      BY <2>10, <2>11 DEF IInv, WholeBatch
    <3>3. \A l \in Demo' : l.author = UserOf(AuthorOf[l.title], l)
      BY <2>10 DEF IInv, WholeBatch
    <3>4. \A l \in Demo' : l.made # 0
      BY <2>10 DEF IInv, WholeBatch
    <3> QED
      BY <2>12, <3>1, <3>2, <3>3, <3>4 DEF WholeBatch, UserOf
  <2>14. AllGone'
    <3>1. ASSUME NEW q \in Commands, NEW g, g = command'[q].gone PROVE (WholeGone(g) /\ OwnGone(g))'
      <4>1. WholeGone(g) /\ OwnGone(g)
        BY <2>3, <2>5, <3>1, NothingGone DEF IInv, AllGone
      <4> QED
        BY <2>10, <4>1 DEF WholeGone, OwnGone, UserOf
    <3> QED
      BY <3>1 DEF AllGone, WholeGone, OwnGone, UserOf
  <2> QED
    BY <2>6, <2>7, <2>8, <2>9, <2>13, <2>14 DEF IInv
<1> QED
  BY <1>1, <1>2

\* A fill commits: its batch is the only one.
LEMMA CommitIInv ==
    ASSUME IInv, NEW p \in Commands, NEW reviewers \in SUBSET USERNAMES, Commit(p, reviewers)
    PROVE  IInv'
<1>1. CASE ~(DOMAIN command[p].got \subseteq categories)
  BY <1>1, EndIInv DEF Commit
<1>2. CASE DOMAIN command[p].got \subseteq categories
  <2> DEFINE got == command[p].got
             cs == With(got, NewCategories(got))
             new == {NewLocation(t, cs) : t \in LOCATIONS}
             us == {NewUser(n) : n \in DemoNames}
             rs == {[location |-> l, author |-> NewUser(n)] : l \in new, n \in reviewers}
  <2>1. /\ users' = users \union us /\ nameOf' = With(nameOf, NewCategories(got))
        /\ locations' = locations \union new /\ reviews' = reviews \union rs
        /\ made' = made + 1 /\ End(p, "created") /\ HoldsNames(p)
    BY <1>2 DEF Commit, HoldsNames
  <2>2. /\ command' \in [Commands -> Command] /\ command'[p] = Idle
        /\ \A q \in Commands \ {p} : command'[q] = command[q]
    BY <2>1, IdleType DEF End, IInv, TypeInv
  <2>3. made \in Nat /\ TypeInv
    BY DEF IInv, TypeInv
  <2>4. \A u \in users : u.name \notin DemoNames
    BY <2>1 DEF IInv, OneFill
  <2>5. us \subseteq UserRow /\ \A u \in us : u.made = made + 1 /\ u.name \in DemoNames
    BY <2>3 DEF NewUser, UserRow
  <2>6. got \in Naming /\ nameOf \in Naming /\ NewCategories(got) \in SUBSET Names
    BY <2>3 DEF TypeInv, Command, NewCategories, Names
  <2>6a. /\ DOMAIN cs = DOMAIN got \union Fresh(NewCategories(got)) /\ cs \in Naming
         /\ \A c \in DOMAIN got : cs[c] = got[c]
         /\ \A c \in Fresh(NewCategories(got)) : c.made = made + 1
         /\ (\A c \in DOMAIN got : c.made <= made) =>
                \A n \in NewCategories(got) : \E c \in DOMAIN cs : cs[c] = n
    BY <2>3, <2>6, WithNames
  <2>6b. categories' = categories \union Fresh(NewCategories(got)) /\ nameOf' \in Naming
    BY <2>1, <2>3, <2>6, WithNames DEF categories
  <2>6c. DOMAIN cs \subseteq CategoryRow /\ DOMAIN cs \subseteq categories' /\ nameOf' \in Naming
        /\ categories \subseteq categories'
    BY <1>2, <2>6a, <2>6b, NamingFacts
  <2>7. \A n \in CATEGORIES : \E c \in DOMAIN cs : cs[c] = n
    <3> SUFFICES ASSUME NEW n \in CATEGORIES PROVE \E c \in DOMAIN cs : cs[c] = n
      OBVIOUS
    <3>1. CASE \E c \in DOMAIN got : got[c] = n
      BY <2>6a, <3>1
    <3>2. CASE n \in NewCategories(got)
      <4>1. \A c \in DOMAIN got : c.made <= made
        BY <1>2 DEF IInv, CategoriesOld
      <4> QED
        BY <2>6a, <3>2, <4>1
    <3> QED
      BY <3>1, <3>2 DEF NewCategories
  <2>7a. CategoriesOld'
    <3>2. \A c \in categories : c.made \in Nat /\ c.made <= made
      BY <2>3, CategoriesType DEF IInv, CategoriesOld, CategoryRow
    <3> QED
      BY <2>1, <2>3, <2>6a, <2>6b, <3>2 DEF CategoriesOld
  <2> HIDE DEF cs, got
  <2>8. \A t \in LOCATIONS :
           LET l == NewLocation(t, cs) IN
           /\ l.title = t /\ l.made = made + 1 /\ l.author = NewUser(AuthorOf[t])
           /\ l.category \in DOMAIN cs /\ l.author \in us /\ l \in LocationRow
    <3> SUFFICES ASSUME NEW t \in LOCATIONS
                 PROVE  LET l == NewLocation(t, cs) IN
                        /\ l.title = t /\ l.made = made + 1 /\ l.author = NewUser(AuthorOf[t])
                        /\ l.category \in DOMAIN cs /\ l.author \in us /\ l \in LocationRow
      OBVIOUS
    <3> DEFINE c == CHOOSE x \in DOMAIN cs : cs[x] = CategoryOf[t]
    <3>1. c \in DOMAIN cs
      BY <2>7, DataAssumption
    <3>2. AuthorOf[t] \in DemoNames
      BY DataAssumption DEF DemoNames
    <3>3. NewUser(AuthorOf[t]) \in us /\ NewUser(AuthorOf[t]) \in UserRow
      BY <2>5, <3>2
    <3>4. c \in CategoryRow
      BY <2>6c, <3>1
    <3> HIDE DEF c, us
    <3>5. NewLocation(t, cs) = [title |-> t, made |-> made + 1, author |-> NewUser(AuthorOf[t]), category |-> c]
      BY DEF NewLocation, c
    <3> QED
      BY <2>3, <3>1, <3>3, <3>4, <3>5 DEF LocationRow
  <2>9. \A l \in new : /\ l.title \in LOCATIONS /\ l.made = made + 1 /\ l.author = NewUser(AuthorOf[l.title])
                       /\ l.category \in DOMAIN cs /\ l.author \in us /\ l \in LocationRow
    BY <2>8
  <2>10. \A t \in LOCATIONS : \E l \in new : l.title = t
    BY <2>8
  <2> HIDE DEF new
  <2>11. \A n \in reviewers : NewUser(n) \in us
    BY DEF DemoNames
  <2>12. \A r \in rs : r.location \in new /\ r.author \in us /\ r \in ReviewRow
    BY <2>5, <2>9, <2>11 DEF ReviewRow
  <2> HIDE DEF rs
  <2>13. TypeInv'
    BY <2>1, <2>2, <2>3, <2>5, <2>9, <2>12, <2>6c DEF TypeInv
  <2>14. AllOld'
    <3>1. \A u \in users : u.made \in Nat /\ u.made <= made
      BY <2>3 DEF IInv, AllOld, Old, TypeInv, UserRow
    <3>2. \A l \in locations : l.made \in Nat /\ l.made <= made
      BY <2>3 DEF IInv, AllOld, Old, TypeInv, LocationRow
    <3>3. \A u \in users' : u.made <= made + 1
      BY <2>1, <2>3, <2>5, <3>1
    <3>4. \A l \in locations' : l.made <= made + 1
      BY <2>1, <2>3, <2>9, <3>2
    <3>5. ASSUME NEW q \in Commands, NEW g, g = command'[q].gone
          PROVE  (\A u \in g.users : u.made <= made + 1) /\ (\A l \in g.locations : l.made <= made + 1)
      <4>1. g \in Rows
        BY <2>2, <3>5 DEF Command
      <4>2. Old(g.users, g.locations)
        BY <2>2, <3>5, IdleType, NothingGone DEF IInv, AllOld
      <4>3. \A u \in g.users : u.made \in Nat
        BY <4>1 DEF Rows, UserRow
      <4>4. \A l \in g.locations : l.made \in Nat
        BY <4>1 DEF Rows, LocationRow
      <4> QED
        BY <2>3, <4>2, <4>3, <4>4 DEF Old
    <3> QED
      BY <2>1, <3>3, <3>4, <3>5 DEF AllOld, Old
  <2>15. ReferencesHold'
    <3>1. Consistent(users, categories, locations, reviews)
      BY DEF IInv, ReferencesHold
    <3>2. Consistent(users', categories', locations', reviews')
      BY <2>1, <2>9, <2>12, <2>6c, <3>1 DEF Consistent
    <3>3. \A u, v \in us : u.name = v.name => u = v
      BY DEF NewUser
    <3>4. \A u, v \in users' : u.name = v.name => u = v
      BY <2>1, <2>4, <2>5, <3>3 DEF IInv, ReferencesHold
    <3> QED
      BY <3>2, <3>4 DEF ReferencesHold
  <2>16. OneFill'
    <3>1. \A q \in Commands : ~HoldsNames(q)'
      BY <2>1, <2>2, IdleType DEF IInv, OneFill, HoldsNames
    <3> QED
      BY <3>1 DEF OneFill
  <2>17. Demo = {}
    <3> SUFFICES ASSUME NEW l \in Demo PROVE FALSE
      OBVIOUS
    <3>1. UserOf(ADMIN, l) \in users
      BY DEF IInv, WholeBatch, DemoNames
    <3> QED
      BY <2>4, <3>1 DEF UserOf, DemoNames
  <2>18. Demo' = new
    BY <2>1, <2>9, <2>17 DEF Demo
  <2>19. \A l \in new, n \in DemoNames : UserOf(n, l) = NewUser(n)
    BY <2>9 DEF UserOf, NewUser
  <2>20. WholeBatch'
    <3>1. \A k, l \in new : k.made = l.made
      BY <2>9
    <3>2. \A l \in new, n \in DemoNames : UserOf(n, l) \in users'
      BY <2>1, <2>19
    <3>3. \A l \in new : l.author = UserOf(AuthorOf[l.title], l)
      BY <2>9, <2>19, DataAssumption DEF DemoNames
    <3>4. \A l \in new : l.made # 0
      BY <2>3, <2>9
    <3> QED
      BY <2>10, <2>18, <3>1, <3>2, <3>3, <3>4 DEF WholeBatch, UserOf
  <2>21. AllGone'
    <3>1. ASSUME NEW q \in Commands, NEW g, g = command'[q].gone PROVE (WholeGone(g) /\ OwnGone(g))'
      <4>1. OwnGone(g) /\ Old(g.users, g.locations) /\ g \in Rows
        BY <2>2, <3>1, IdleType, NothingGone DEF IInv, AllGone, AllOld, TypeInv, Command
      <4>2. \A l \in g.locations : l.made # made + 1
        BY <2>3, <4>1 DEF Old, Rows, LocationRow
      <4>3. \A u \in g.users : u.made # made + 1
        BY <2>3, <4>1 DEF Old, Rows, UserRow
      <4>4. \A k \in new : k \notin g.locations
        BY <2>9, <4>2
      <4>5. \A k \in new, n \in DemoNames : UserOf(n, k) \notin g.users
        BY <2>5, <2>19, <4>3 DEF NewUser
      <4> QED
        BY <2>18, <4>1, <4>4, <4>5 DEF WholeGone, OwnGone, UserOf
    <3> QED
      BY <3>1 DEF AllGone, WholeGone, OwnGone, UserOf
  <2> QED
    BY <2>13, <2>14, <2>15, <2>16, <2>20, <2>21, <2>7a DEF IInv
<1> QED
  BY <1>1, <1>2

-----------------------------------------------------------------------------
(* The site in use.                                                        *)

\* What a step of the site changes of the commands.
LEMMA SiteMoves ==
    ASSUME IInv, command' = Disturbed
    PROVE  /\ command' \in [Commands -> Command]
           /\ \A q \in Commands : /\ command'[q].gone = command[q].gone
                                  /\ HoldsNames(q)' <=> HoldsNames(q)
<1>1. ASSUME NEW q \in Commands
      PROVE  LET c == [command[q] EXCEPT !.alone = FALSE] IN
             /\ c \in Command /\ c.gone = command[q].gone /\ c.step = command[q].step
             /\ command'[q] = c
  <2>1. command[q] \in Command
    BY DEF IInv, TypeInv
  <2> QED
    BY <2>1 DEF Disturbed, Command
<1>2. command' = [q \in Commands |-> command'[q]]
  BY DEF Disturbed
<1> QED
  BY <1>1, <1>2 DEF HoldsNames

\* The site adds rows of its own, or removes or renames a category.
LEMMA SiteIInv ==
    ASSUME IInv, command' = Disturbed \/ command' = command,
           made' \in Nat, made <= made',
           NEW us \in SUBSET UserRow, users' = users \union us,
           NEW ls \in SUBSET LocationRow, locations' = locations \union ls,
           nameOf' \in Naming, reviews' \subseteq ReviewRow, CategoriesOld',
           \A u \in us : u.made <= made', \A l \in ls : l.made <= made' /\ l.title = Place,
           ReferencesHold',
           \A u \in us : u.name \notin DemoNames \/ \A q \in Commands : ~HoldsNames(q)
    PROVE  IInv'
<1>1. /\ command' \in [Commands -> Command]
      /\ \A q \in Commands : /\ command'[q].gone = command[q].gone
                             /\ HoldsNames(q)' <=> HoldsNames(q)
  BY SiteMoves DEF IInv, TypeInv, HoldsNames
<1>2. TypeInv /\ made \in Nat
  BY DEF IInv, TypeInv
<1>3. TypeInv'
  BY <1>1, <1>2 DEF TypeInv
<1>4. ASSUME NEW x \in Nat, x <= made PROVE x <= made'
  BY <1>2, <1>4
<1>5. AllOld'
  <2>1. \A u \in users' : u.made <= made'
    BY <1>2, <1>4 DEF IInv, AllOld, Old, TypeInv, UserRow
  <2>2. \A l \in locations' : l.made <= made'
    BY <1>2, <1>4 DEF IInv, AllOld, Old, TypeInv, LocationRow
  <2>3. ASSUME NEW q \in Commands
        PROVE  /\ \A u \in command'[q].gone.users : u.made <= made'
               /\ \A l \in command'[q].gone.locations : l.made <= made'
    <3>1. command[q].gone \in Rows
      BY <1>2 DEF TypeInv, Command
    <3>2. \A u \in command[q].gone.users : u.made \in Nat /\ u.made <= made
      BY <3>1 DEF Rows, UserRow, IInv, AllOld, Old
    <3>3. \A l \in command[q].gone.locations : l.made \in Nat /\ l.made <= made
      BY <3>1 DEF Rows, LocationRow, IInv, AllOld, Old
    <3> QED
      BY <1>1, <1>4, <3>2, <3>3
  <2> QED
    BY <2>1, <2>2, <2>3 DEF AllOld, Old
<1>6. OneFill'
  BY <1>1 DEF IInv, OneFill
<1>7. Demo' = Demo
  BY DataAssumption DEF Demo
<1>8. WholeBatch'
  BY <1>7 DEF IInv, WholeBatch, UserOf
<1>9. AllGone'
  BY <1>1, <1>7 DEF IInv, AllGone, WholeGone, OwnGone, UserOf
<1> QED
  BY <1>3, <1>5, <1>6, <1>8, <1>9 DEF IInv

\* Categories are as they were.
LEMMA SameCategories ==
    ASSUME IInv, UNCHANGED nameOf, made' \in Nat, made <= made'
    PROVE  nameOf' \in Naming /\ categories' = categories /\ CategoriesOld'
<1>1. nameOf' \in Naming /\ categories' = categories /\ made \in Nat
  BY DEF IInv, TypeInv, categories
<1>2. \A c \in categories : c.made \in Nat /\ c.made <= made
  BY CategoriesType DEF IInv, CategoriesOld, CategoryRow
<1> QED
  BY <1>1, <1>2 DEF CategoriesOld

LEMMA RegisterIInv == ASSUME IInv, NEW n \in DemoNames \union Visitors, Register(n) PROVE IInv'
<1> DEFINE u == NewUser(n)
<1>1. /\ users' = users \union {u} /\ made' = made + 1 /\ command' = Disturbed
      /\ UNCHANGED <<nameOf, locations, reviews>> /\ \A v \in users : v.name # n
      /\ n \in DemoNames => \A q \in Commands : ~HoldsNames(q)
  BY DEF Register
<1>2. made \in Nat /\ u \in UserRow /\ u.made = made + 1 /\ u.name = n
  BY DEF IInv, TypeInv, NewUser, UserRow
<1> HIDE DEF u
<1>5. made' \in Nat /\ made <= made' /\ u.made <= made'
  BY <1>1, <1>2
<1>3. ReferencesHold'
  BY <1>1, <1>2, <1>5, SameCategories DEF IInv, ReferencesHold, Consistent
<1>4. /\ locations' = locations \union {} /\ reviews' \subseteq ReviewRow
      /\ nameOf' \in Naming /\ CategoriesOld'
  BY <1>1, <1>5, SameCategories DEF IInv, TypeInv
<1> DEFINE us == {u}
           ls == {}
<1>6. /\ us \in SUBSET UserRow /\ users' = users \union us /\ ls \in SUBSET LocationRow
      /\ locations' = locations \union ls
      /\ \A v \in us : v.made <= made' /\ (v.name \notin DemoNames \/ \A q \in Commands : ~HoldsNames(q))
      /\ \A l \in ls : l.made <= made' /\ l.title = Place
  BY <1>1, <1>2, <1>4, <1>5
<1> HIDE DEF us, ls
<1> QED
  BY <1>1, <1>3, <1>4, <1>5, <1>6, SiteIInv

\* Steps of the site that neither add users nor locations.
LEMMA RowsIInv ==
    ASSUME IInv, command' = Disturbed \/ command' = command, made' \in Nat, made <= made',
           users' = users, locations' = locations,
           nameOf' \in Naming, CategoriesOld', reviews' \subseteq ReviewRow, ReferencesHold'
    PROVE  IInv'
<1> DEFINE us == {}
           ls == {}
<1>1. /\ us \in SUBSET UserRow /\ users' = users \union us /\ ls \in SUBSET LocationRow
      /\ locations' = locations \union ls
      /\ \A v \in us : v.made <= made' /\ (v.name \notin DemoNames \/ \A q \in Commands : ~HoldsNames(q))
      /\ \A l \in ls : l.made <= made' /\ l.title = Place
  OBVIOUS
<1> HIDE DEF us, ls
<1> QED
  BY <1>1, SiteIInv

LEMMA AddCategoryIInv ==
    ASSUME IInv, NEW n \in CATEGORIES \union Categories, AddCategory(n)
    PROVE  IInv'
<1>1. /\ nameOf' = With(nameOf, {n}) /\ made' = made + 1
      /\ command' = Disturbed /\ UNCHANGED <<users, locations, reviews>>
  BY DEF AddCategory
<1>2. made \in Nat /\ nameOf \in Naming /\ reviews' \subseteq ReviewRow
  BY <1>1 DEF IInv, TypeInv
<1>3. /\ categories' = categories \union Fresh({n}) /\ nameOf' \in Naming
      /\ \A c \in Fresh({n}) : c.made = made + 1
  BY <1>1, <1>2, WithNames DEF categories, Names
<1>4. \A c \in categories : c.made \in Nat /\ c.made <= made
  BY CategoriesType DEF IInv, CategoriesOld, CategoryRow
<1>5. CategoriesOld'
  <2>1. ASSUME NEW c \in categories' PROVE c.made <= made'
    <3>1. CASE c \in categories
      BY <1>1, <1>2, <1>4, <3>1
    <3>2. CASE c \in Fresh({n})
      <4>1. c.made = made + 1
        BY <1>3, <3>2
      <4> QED
        BY <1>1, <1>2, <4>1
    <3> QED
      BY <1>3, <2>1, <3>1, <3>2
  <2> QED
    BY <2>1 DEF CategoriesOld
<1>6. ReferencesHold'
  BY <1>1, <1>3 DEF IInv, ReferencesHold, Consistent
<1> QED
  BY <1>1, <1>2, <1>3, <1>5, <1>6, RowsIInv

LEMMA RenameCategoryIInv ==
    ASSUME IInv, NEW c \in categories, NEW n \in CATEGORIES \union Categories, RenameCategory(c, n)
    PROVE  IInv'
<1>1. /\ nameOf' = [nameOf EXCEPT ![c] = n] /\ command' = Disturbed /\ made' = made
      /\ UNCHANGED <<users, locations, reviews>>
  BY DEF RenameCategory
<1>2. made \in Nat /\ nameOf \in Naming /\ reviews' \subseteq ReviewRow
  BY <1>1 DEF IInv, TypeInv
<1>3. categories \in SUBSET CategoryRow /\ \A x \in categories : nameOf[x] \in Names
  BY <1>2, NamingFacts DEF categories
<1>4. nameOf' = [x \in categories |-> IF x = c THEN n ELSE nameOf[x]]
  BY <1>1, <1>2 DEF categories
<1>5. nameOf' \in [categories -> Names] /\ categories' = categories
  BY <1>3, <1>4 DEF Names, categories
<1>6. nameOf' \in Naming
  BY <1>3, <1>5, NamingFacts
<1>7. CategoriesOld' /\ ReferencesHold'
  BY <1>1, <1>5 DEF IInv, CategoriesOld, ReferencesHold, Consistent
<1> QED
  BY <1>1, <1>2, <1>6, <1>7, RowsIInv

LEMMA RemoveCategoryIInv ==
    ASSUME IInv, NEW c \in categories, RemoveCategory(c)
    PROVE  IInv'
<1>1. /\ nameOf' = Without({c}) /\ command' = Disturbed /\ made' = made
      /\ UNCHANGED <<users, locations, reviews>> /\ \A l \in locations : l.category # c
  BY DEF RemoveCategory
<1>2. TypeInv /\ made \in Nat /\ reviews' \subseteq ReviewRow
  BY <1>1 DEF IInv, TypeInv
<1>3. categories' = categories \ {c} /\ nameOf' \in Naming
  BY <1>1, <1>2, WithoutNames DEF categories
<1>4. CategoriesOld' /\ ReferencesHold'
  BY <1>1, <1>3 DEF IInv, CategoriesOld, ReferencesHold, Consistent
<1> QED
  BY <1>1, <1>2, <1>3, <1>4, RowsIInv

LEMMA AddLocationIInv ==
    ASSUME IInv, NEW u \in users, NEW c \in categories, AddLocation(u, c)
    PROVE  IInv'
<1> DEFINE l == [title |-> Place, made |-> made + 1, author |-> u, category |-> c]
<1>1. /\ locations' = locations \union {l} /\ made' = made + 1 /\ command' = Disturbed
      /\ UNCHANGED <<users, nameOf, reviews>>
  BY DEF AddLocation
<1>2. /\ made \in Nat /\ l \in LocationRow /\ l.made = made + 1 /\ l.title = Place
      /\ l.author = u /\ l.category = c
  BY CategoriesType DEF IInv, TypeInv, LocationRow
<1> HIDE DEF l
<1>6. made' \in Nat /\ made <= made'
  BY <1>1, <1>2
<1>4. /\ nameOf' \in Naming /\ categories' = categories /\ CategoriesOld' /\ reviews' \subseteq ReviewRow
  BY <1>1, <1>6, SameCategories DEF IInv, TypeInv
<1>3. ReferencesHold'
  BY <1>1, <1>2, <1>4 DEF IInv, ReferencesHold, Consistent
<1> DEFINE us == {}
           ls == {l}
<1>5. /\ us \in SUBSET UserRow /\ users' = users \union us /\ ls \in SUBSET LocationRow
      /\ locations' = locations \union ls
      /\ \A v \in us : v.made <= made' /\ (v.name \notin DemoNames \/ \A q \in Commands : ~HoldsNames(q))
      /\ \A k \in ls : k.made <= made' /\ k.title = Place
  BY <1>1, <1>2
<1> HIDE DEF us, ls
<1> QED
  BY <1>1, <1>3, <1>4, <1>5, <1>6, SiteIInv

LEMMA AddReviewIInv ==
    ASSUME IInv, NEW u \in users, NEW l \in locations, AddReview(u, l)
    PROVE  IInv'
<1> DEFINE r == [location |-> l, author |-> u]
<1>1. /\ reviews' = reviews \union {r} /\ command' = Disturbed /\ made' = made
      /\ UNCHANGED <<users, nameOf, locations>>
  BY DEF AddReview
<1>2. r \in ReviewRow /\ r.author = u /\ r.location = l
  BY DEF IInv, TypeInv, ReviewRow
<1> HIDE DEF r
<1>3. /\ made \in Nat /\ nameOf' \in Naming /\ categories' = categories /\ CategoriesOld'
      /\ reviews' \subseteq ReviewRow
  BY <1>1, <1>2, SameCategories DEF IInv, TypeInv
<1>4. ReferencesHold'
  BY <1>1, <1>2, <1>3 DEF IInv, ReferencesHold, Consistent
<1> QED
  BY <1>1, <1>3, <1>4, RowsIInv

\* A command starts, alone or not.
LEMMA StartIInv ==
    ASSUME IInv, NEW p \in Commands, NEW reset \in BOOLEAN, Start(p, reset)
    PROVE  IInv'
<1> DEFINE c == [Idle EXCEPT !.step = IF reset THEN "collect locations" ELSE "check", !.reset = reset,
                             !.alone = \A q \in Commands : ~Running(q)]
<1>1. c \in Command /\ c.gone = Nothing /\ c.step \in {"collect locations", "check"}
  BY IdleType DEF Command, Steps
<1>2. command' = [Disturbed EXCEPT ![p] = c] /\ UNCHANGED <<users, nameOf, categories, locations, reviews, made>>
  BY DEF Start, tables, categories
<1> HIDE DEF c
<1>3. ASSUME NEW q \in Commands
      PROVE  /\ Disturbed[q] \in Command /\ Disturbed[q].gone = command[q].gone
             /\ Disturbed[q].step = command[q].step
  BY DEF Disturbed, Command, IInv, TypeInv
<1>4. Disturbed = [q \in Commands |-> Disturbed[q]]
  BY DEF Disturbed
<1>5. /\ command' \in [Commands -> Command] /\ command'[p] = c
      /\ \A q \in Commands \ {p} : /\ command'[q].gone = command[q].gone
                                   /\ command'[q].step = command[q].step
  BY <1>1, <1>2, <1>3, <1>4
<1>6. TypeInv' /\ ReferencesHold'
  BY <1>2, <1>5 DEF IInv, TypeInv, ReferencesHold, Consistent
<1>7. AllOld' /\ CategoriesOld'
  BY <1>1, <1>2, <1>5, NothingGone DEF IInv, AllOld, Old, CategoriesOld
<1>8. OneFill'
  <2>1. \A q \in Commands : HoldsNames(q)' => HoldsNames(q)
    BY <1>1, <1>5 DEF HoldsNames
  <2> QED
    BY <1>2, <2>1 DEF IInv, OneFill
<1>9. WholeBatch' /\ Demo' = Demo
  BY <1>2 DEF IInv, WholeBatch, Demo, UserOf
<1>10. AllGone'
  <2>1. ASSUME NEW q \in Commands, NEW g, g = command'[q].gone PROVE (WholeGone(g) /\ OwnGone(g))'
    <3>1. WholeGone(g) /\ OwnGone(g)
      BY <1>1, <1>5, <2>1, NothingGone DEF IInv, AllGone
    <3> QED
      BY <1>9, <3>1 DEF WholeGone, OwnGone, UserOf
  <2> QED
    BY <2>1 DEF AllGone, WholeGone, OwnGone, UserOf
<1> QED
  BY <1>6, <1>7, <1>8, <1>9, <1>10 DEF IInv

-----------------------------------------------------------------------------
(* The invariant.                                                          *)

LEMMA InitIInv == Init => IInv
<1> SUFFICES ASSUME Init PROVE IInv
  OBVIOUS
<1>7. categories = {} /\ nameOf \in Naming
  BY IdleType DEF Init, Idle, Command, categories
<1>1. TypeInv /\ CategoriesOld /\ \A p \in Commands : command[p] = Idle
  BY <1>7, IdleType DEF Init, TypeInv, CategoriesOld
<1>2. Demo = {}
  BY DEF Init, Demo
<1>3. AllGone
  BY <1>1, IdleType, NothingGone DEF AllGone
<1>4. AllOld
  BY <1>1, IdleType, NothingGone DEF AllOld, Old, Init
<1>5. OneFill
  BY <1>1, IdleType DEF OneFill, HoldsNames
<1>6. ReferencesHold /\ WholeBatch
  BY <1>2, <1>7 DEF Init, ReferencesHold, Consistent, WholeBatch
<1> QED
  BY <1>1, <1>3, <1>4, <1>5, <1>6 DEF IInv

LEMMA StepIInv == ASSUME IInv, NEW p \in Commands, Step(p) PROVE IInv'
<1>1. CASE \E some \in SUBSET USERNAMES : Commit(p, some)
  BY <1>1, CommitIInv
<1> QED
  BY <1>1, CheckIInv, CollectLocationsIInv, CollectCategoriesIInv, CollectUsersIInv, RemoveIInv,
     CreateUsersIInv, GetCategoriesIInv DEF Step

LEMMA NextIInv == IInv /\ [Next]_vars => IInv'
<1> SUFFICES ASSUME IInv, [Next]_vars PROVE IInv'
  OBVIOUS
<1>1. CASE \E p \in Commands : \E reset \in BOOLEAN : Start(p, reset)
  BY <1>1, StartIInv
<1>2. CASE \E p \in Commands : Step(p)
  BY <1>2, StepIInv
<1>3. CASE \E p \in Commands : Kill(p)
  BY <1>3, EndIInv DEF Kill
<1>4. CASE Site
  <2>1. CASE \E n \in DemoNames \union Visitors : Register(n)
    BY <2>1, RegisterIInv
  <2>2. CASE \E n \in CATEGORIES \union Categories : AddCategory(n)
    BY <2>2, AddCategoryIInv
  <2>3. CASE \E c \in categories : RemoveCategory(c) \/ \E n \in CATEGORIES \union Categories : RenameCategory(c, n)
    BY <2>3, RemoveCategoryIInv, RenameCategoryIInv
  <2>4. CASE \E u \in users, c \in categories : AddLocation(u, c)
    BY <2>4, AddLocationIInv
  <2>5. CASE \E u \in users, l \in locations : AddReview(u, l)
    BY <2>5, AddReviewIInv
  <2> QED
    BY <1>4, <2>1, <2>2, <2>3, <2>4, <2>5 DEF Site
<1>5. CASE UNCHANGED vars
  <2>1. /\ command' = command /\ made' = made /\ users' = users /\ nameOf' = nameOf
        /\ locations' = locations /\ reviews' = reviews
    BY <1>5 DEF vars, tables
  <2>2. made \in Nat /\ reviews \subseteq ReviewRow /\ ReferencesHold
    BY DEF IInv, TypeInv
  <2>4. nameOf' \in Naming /\ categories' = categories /\ CategoriesOld'
    BY <2>1, <2>2, SameCategories
  <2>3. ReferencesHold'
    BY <2>1, <2>2, <2>4 DEF ReferencesHold, Consistent
  <2> QED
    BY <2>1, <2>2, <2>3, <2>4, RowsIInv
<1> QED
  BY <1>1, <1>2, <1>3, <1>4, <1>5 DEF Next

LEMMA Invariant == Spec => []IInv
BY InitIInv, NextIInv, PTL DEF Spec

-----------------------------------------------------------------------------
(* The categories a delete takes had a demo name since it began.           *)

DemoGone ==
    \A p \in Commands :
        /\ command[p].gone.categories \subseteq wasDemo[p]
        /\ command[p].gone.categories # {} => command[p].step = "remove categories"

\* Only the command that makes a step goes to another one.
LEMMA WhoMoves ==
    ASSUME IInv, [Next]_vars, NEW p \in Commands, command'[p].step # command[p].step
    PROVE  Step(p) \/ UNCHANGED tables
<1>1. ASSUME Site PROVE FALSE
  <2>1. command' = Disturbed
    BY <1>1 DEF Site, Register, AddCategory, RenameCategory, RemoveCategory, AddLocation, AddReview
  <2>2. command'[p] = [command[p] EXCEPT !.alone = FALSE] /\ command[p] \in Command
    BY <2>1 DEF Disturbed, IInv, TypeInv
  <2> QED
    BY <2>2 DEF Command
<1>2. ASSUME NEW q \in Commands, Step(q) PROVE q = p
  <2>1. ASSUME NEW d, command' = [command EXCEPT ![q] = d] PROVE q = p
    BY <2>1 DEF IInv, TypeInv
  <2>2. ASSUME NEW step, Goto(q, step) PROVE q = p
    BY <2>1, <2>2 DEF Goto
  <2>3. ASSUME NEW step, NEW rows, Collected(q, step, rows) PROVE q = p
    BY <2>1, <2>3 DEF Collected
  <2>4. ASSUME NEW outcome, End(q, outcome) PROVE q = p
    BY <2>1, <2>4 DEF End
  <2>5. CASE Check(q) \/ CreateUsers(q)
    BY <2>2, <2>4, <2>5 DEF Check, CreateUsers
  <2>6. CASE CollectLocations(q) \/ CollectCategories(q) \/ CollectUsers(q)
    BY <2>3, <2>6 DEF CollectLocations, CollectCategories, CollectUsers
  <2>7. CASE Remove(q) \/ \E some \in SUBSET USERNAMES : Commit(q, some)
    BY <2>3, <2>4, <2>7 DEF Remove, Commit
  <2>8. CASE GetCategories(q)
    BY <2>1, <2>4, <2>8 DEF GetCategories
  <2> QED
    BY <1>2, <2>5, <2>6, <2>7, <2>8 DEF Step
<1>3. CASE UNCHANGED vars
  BY <1>3 DEF vars
<1> QED
  BY <1>1, <1>2, <1>3 DEF Next, Start, Kill

\* A command keeps what it is about to remove, or removes nothing, or has just read it.
LEMMA DemoGoneKept ==
    ASSUME DemoGone, History,
           \A q \in Commands :
              \/ command'[q].gone.categories = {}
              \/ command'[q].gone = command[q].gone /\ command'[q].step = command[q].step
              \/ /\ command'[q].step = "remove categories"
                 /\ command'[q].gone.categories \subseteq {c \in categories' : nameOf'[c] \in CATEGORIES}
    PROVE  DemoGone'
<1> SUFFICES ASSUME NEW q \in Commands
             PROVE  /\ command'[q].gone.categories \subseteq wasDemo'[q]
                    /\ command'[q].gone.categories # {} => command'[q].step = "remove categories"
  BY DEF DemoGone
<1>1. wasDemo'[q] = IF command'[q].step # "remove categories" THEN {}
                    ELSE wasDemo[q] \union {c \in categories' : nameOf'[c] \in CATEGORIES}
  BY DEF History
<1> QED
  BY <1>1 DEF DemoGone

\* The same, of the command that moves.
LEMMA DemoGoneMoves ==
    ASSUME IInv, DemoGone, History, NEW p \in Commands, NEW d, command' = [command EXCEPT ![p] = d],
           \/ d.gone.categories = {}
           \/ d.gone = command[p].gone /\ command[p].step # "remove categories"
           \/ /\ d.step = "remove categories"
              /\ d.gone.categories \subseteq {c \in categories' : nameOf'[c] \in CATEGORIES}
    PROVE  DemoGone'
<1>1. command'[p] = d /\ \A q \in Commands \ {p} : command'[q] = command[q]
  BY DEF IInv, TypeInv
<1>2. command[p].step # "remove categories" => command[p].gone.categories = {}
  BY DEF DemoGone
<1> QED
  BY <1>1, <1>2, DemoGoneKept

LEMMA EndDemoGone ==
    ASSUME IInv, DemoGone, History, NEW p \in Commands, NEW outcome, End(p, outcome)
    PROVE  DemoGone'
<1>1. Idle.gone.categories = {}
  BY DEF Idle, Nothing
<1> QED
  BY <1>1, DemoGoneMoves DEF End

LEMMA GotoDemoGone ==
    ASSUME IInv, DemoGone, History, NEW p \in Commands, NEW step, Goto(p, step),
           command[p].step # "remove categories"
    PROVE  DemoGone'
<1>1. PICK d : d = [command[p] EXCEPT !.step = step]
  OBVIOUS
<1>2. d.gone = command[p].gone
  BY <1>1 DEF IInv, TypeInv, Command
<1> QED
  BY <1>1, <1>2, DemoGoneMoves DEF Goto

LEMMA CollectedDemoGone ==
    ASSUME IInv, DemoGone, History, NEW p \in Commands, NEW step, NEW rows, Collected(p, step, rows),
           \/ rows.categories = {}
           \/ /\ step = "remove categories"
              /\ rows.categories \subseteq {c \in categories' : nameOf'[c] \in CATEGORIES}
    PROVE  DemoGone'
<1>1. PICK d : d = [command[p] EXCEPT !.step = step, !.gone = rows]
  OBVIOUS
<1>2. d.gone = rows /\ d.step = step
  BY <1>1 DEF IInv, TypeInv, Command
<1> QED
  BY <1>1, <1>2, DemoGoneMoves DEF Collected

LEMMA StepDemoGone ==
    ASSUME IInv, DemoGone, History, NEW p \in Commands, Step(p)
    PROVE  DemoGone'
<1>1. CASE Check(p)
  BY <1>1, EndDemoGone, GotoDemoGone DEF Check
<1>2. CASE CollectLocations(p)
  <2>1. PICK rows : /\ Collected(p, "remove locations", rows)
                    /\ rows = [Nothing EXCEPT !.locations = rows.locations, !.reviews = rows.reviews]
    BY <1>2 DEF CollectLocations, Nothing
  <2>2. rows.categories = {}
    BY <2>1 DEF Nothing
  <2> QED
    BY <2>1, <2>2, CollectedDemoGone
<1>3. CASE CollectCategories(p)
  <2>1. PICK cs : cs = {c \in categories \ {l.category : l \in locations} : nameOf[c] \in CATEGORIES}
    OBVIOUS
  <2>2. PICK rows : rows = [Nothing EXCEPT !.categories = cs]
    OBVIOUS
  <2>3. rows.categories = cs
    BY <2>2 DEF Nothing
  <2>4. Collected(p, "remove categories", rows) /\ categories' = categories /\ nameOf' = nameOf
    BY <1>3, <2>1, <2>2 DEF CollectCategories, tables, categories
  <2>5. cs \subseteq {c \in categories' : nameOf'[c] \in CATEGORIES}
    BY <2>1, <2>4
  <2> QED
    BY <2>3, <2>4, <2>5, CollectedDemoGone
<1>4. CASE CollectUsers(p)
  <2>1. PICK rows : Collected(p, "remove users", rows) /\ rows = Cascade(DemoNames)
    BY <1>4 DEF CollectUsers
  <2>2. rows.categories = {}
    BY <2>1 DEF Cascade, Nothing
  <2> QED
    BY <2>1, <2>2, CollectedDemoGone
<1>5. CASE Remove(p)
  <2>1. Nothing.categories = {}
    BY DEF Nothing
  <2>2. End(p, "failed") \/ Collected(p, Removals[command[p].step], Nothing)
    BY <1>5 DEF Remove
  <2> QED
    BY <2>1, <2>2, EndDemoGone, CollectedDemoGone
<1>6. CASE CreateUsers(p)
  BY <1>6, EndDemoGone, GotoDemoGone DEF CreateUsers
<1>7. CASE GetCategories(p)
  <2>1. CASE SlugClash
    BY <1>7, <2>1, EndDemoGone DEF GetCategories
  <2>2. CASE ~SlugClash
    <3>1. PICK d : d = [command[p] EXCEPT !.step = "commit",
                            !.got = [c \in {x \in categories : nameOf[x] \in CATEGORIES} |-> nameOf[c]]]
      OBVIOUS
    <3>2. d.gone = command[p].gone
      BY <3>1 DEF IInv, TypeInv, Command
    <3>3. command' = [command EXCEPT ![p] = d] /\ command[p].step # "remove categories"
      BY <1>7, <2>2, <3>1 DEF GetCategories
    <3> QED
      BY <3>2, <3>3, DemoGoneMoves
  <2> QED
    BY <2>1, <2>2
<1>8. CASE \E some \in SUBSET USERNAMES : Commit(p, some)
  BY <1>8, EndDemoGone DEF Commit
<1> QED
  BY <1>1, <1>2, <1>3, <1>4, <1>5, <1>6, <1>7, <1>8 DEF Step

LEMMA NextDemoGone == IInv /\ DemoGone /\ [Next]_vars => DemoGone'
<1> SUFFICES ASSUME IInv, DemoGone, [Next]_vars PROVE DemoGone'
  OBVIOUS
<1>1. ASSUME NEW q \in Commands
      PROVE  Disturbed[q].gone = command[q].gone /\ Disturbed[q].step = command[q].step
  <2>1. Disturbed[q] = [command[q] EXCEPT !.alone = FALSE] /\ command[q] \in Command
    BY DEF Disturbed, IInv, TypeInv
  <2> QED
    BY <2>1 DEF Command
<1>2. CASE Site /\ History
  <2>1. command' = Disturbed
    BY <1>2 DEF Site, Register, AddCategory, RenameCategory, RemoveCategory, AddLocation, AddReview
  <2> QED
    BY <1>1, <1>2, <2>1, DemoGoneKept
<1>3. CASE (\E p \in Commands : \E reset \in BOOLEAN : Start(p, reset)) /\ History
  <2>1. PICK p \in Commands : \E reset \in BOOLEAN : Start(p, reset)
    BY <1>3
  <2>2. PICK d : /\ command' = [Disturbed EXCEPT ![p] = d]
                 /\ \E reset \in BOOLEAN : d = [Idle EXCEPT
                        !.step = IF reset THEN "collect locations" ELSE "check", !.reset = reset,
                        !.alone = \A q \in Commands : ~Running(q)]
    BY <2>1 DEF Start
  <2>3. d.gone.categories = {}
    BY <2>2 DEF Idle, Nothing
  <2>4. command'[p] = d /\ \A q \in Commands \ {p} : command'[q] = Disturbed[q]
    BY <2>2 DEF Disturbed
  <2> QED
    BY <1>1, <1>3, <2>3, <2>4, DemoGoneKept
<1>4. CASE UNCHANGED vars
  BY <1>4 DEF vars, DemoGone
<1>5. CASE (\E p \in Commands : Step(p)) /\ History
  BY <1>5, StepDemoGone
<1>6. CASE (\E p \in Commands : Kill(p)) /\ History
  BY <1>6, EndDemoGone DEF Kill
<1> QED
  BY <1>2, <1>3, <1>4, <1>5, <1>6 DEF Next

LEMMA InitDemoGone == Init => DemoGone
<1>1. Idle.gone.categories = {}
  BY DEF Idle, Nothing
<1> QED
  BY <1>1 DEF Init, DemoGone

-----------------------------------------------------------------------------
(* A reset that nothing disturbs.                                          *)

DemoLocations == {l \in locations : l.author.name \in DemoNames}
DemoUsers == {u \in users : u.name \in DemoNames}

\* What a reset c that is alone is about to remove, and what it has removed by now.
Clean(c) ==
    /\ c.step \notin {"idle", "check"}
    /\ c.step = "remove locations" =>
        /\ c.gone.users = {} /\ c.gone.categories = {} /\ c.gone.locations = DemoLocations
        /\ c.gone.reviews = {r \in reviews : r.location \in c.gone.locations}
    /\ c.step = "remove categories" =>
        /\ c.gone.users = {} /\ c.gone.locations = {} /\ c.gone.reviews = {}
        /\ \A l \in locations : l.category \notin c.gone.categories
    /\ c.step = "remove users" =>
        /\ c.gone.users = DemoUsers /\ c.gone.categories = {} /\ c.gone.locations = {}
        /\ c.gone.reviews = {r \in reviews : r.author \in c.gone.users}
    /\ c.step \notin {"collect locations", "remove locations"} => DemoLocations = {}
    /\ c.step \in {"fill", "categories of fill", "commit"} => DemoUsers = {}
    /\ c.step = "commit" => DOMAIN c.got \subseteq categories

Alone(p) == command[p].alone /\ command[p].reset
AloneOK ==
    \A p \in Commands : Alone(p) =>
        Clean(command[p]) /\ \A q \in Commands \ {p} : ~Running(q)

\* The command p, which runs, goes on as d.
LEMMA AloneMoves ==
    ASSUME IInv, AloneOK, NEW p \in Commands, Running(p), NEW d, command' = [command EXCEPT ![p] = d],
           d.alone /\ d.reset => Alone(p) /\ Clean(d)'
    PROVE  AloneOK'
<1>1. command'[p] = d /\ \A q \in Commands \ {p} : command'[q] = command[q]
  BY DEF IInv, TypeInv
<1>2. ASSUME NEW q \in Commands, Alone(q)' PROVE q = p
  <2> SUFFICES ASSUME q # p PROVE FALSE
    OBVIOUS
  <2>1. Alone(q)
    BY <1>1, <1>2 DEF Alone
  <2> QED
    BY <2>1 DEF AloneOK
<1>3. ASSUME Alone(p)'
      PROVE  Clean(command[p])' /\ \A q \in Commands \ {p} : ~Running(q)'
  <2>1. Alone(p) /\ Clean(d)'
    BY <1>1, <1>3 DEF Alone
  <2>2. \A q \in Commands \ {p} : ~Running(q)'
    BY <1>1, <2>1 DEF AloneOK, Running
  <2> QED
    BY <1>1, <2>1, <2>2
<1> QED
  BY <1>2, <1>3 DEF AloneOK

LEMMA IdleAlone ==
    ASSUME IInv, AloneOK, NEW p \in Commands, Running(p), NEW outcome, End(p, outcome)
    PROVE  AloneOK'
<1>1. ~Idle.alone
  BY DEF Idle
<1> QED
  BY <1>1, AloneMoves DEF End

LEMMA CommandType == ASSUME IInv, NEW p \in Commands PROVE command[p] \in Command
BY DEF IInv, TypeInv

\* The command collects rows.
LEMMA CollectAlone ==
    ASSUME IInv, AloneOK, NEW p \in Commands, Running(p), NEW step \in Steps, NEW gone,
           Collected(p, step, gone),
           \A d : d.step = step /\ d.gone = gone /\ Alone(p) => Clean(d)'
    PROVE  AloneOK' /\ command'[p].step = step
<1>1. PICK d : d = [command[p] EXCEPT !.step = step, !.gone = gone]
  OBVIOUS
<1>2. d.step = step /\ d.alone = command[p].alone /\ d.reset = command[p].reset /\ d.gone = gone
  BY <1>1, CommandType DEF Command
<1>3. command' = [command EXCEPT ![p] = d]
  BY <1>1 DEF Collected
<1>4. d.alone /\ d.reset => Alone(p) /\ Clean(d)'
  BY <1>2 DEF Alone
<1>5. command'[p] = d
  BY <1>3 DEF IInv, TypeInv
<1> QED
  BY <1>2, <1>3, <1>4, <1>5, AloneMoves

LEMMA CollectLocationsAlone ==
    ASSUME IInv, AloneOK, NEW p \in Commands, CollectLocations(p)
    PROVE  AloneOK' /\ command'[p].step # "idle"
<1>1. PICK gone : gone = [Nothing EXCEPT !.locations = DemoLocations,
                                         !.reviews = {r \in reviews : r.location \in DemoLocations}]
  OBVIOUS
<1>2. Collected(p, "remove locations", gone) /\ UNCHANGED tables /\ Running(p)
  BY <1>1 DEF CollectLocations, DemoLocations, Running
<1>3. /\ gone.users = {} /\ gone.categories = {} /\ gone.locations = DemoLocations
      /\ gone.reviews = {r \in reviews : r.location \in DemoLocations}
  BY <1>1 DEF Nothing
<1>4. ASSUME NEW d, d.step = "remove locations", d.gone = gone PROVE Clean(d)'
  BY <1>2, <1>3, <1>4 DEF Clean, DemoLocations, tables
<1> QED
  BY <1>2, <1>4, CollectAlone DEF Steps

LEMMA CollectCategoriesAlone ==
    ASSUME IInv, AloneOK, NEW p \in Commands, CollectCategories(p)
    PROVE  AloneOK' /\ command'[p].step # "idle"
<1>1. PICK cs : cs = {c \in categories \ {l.category : l \in locations} : nameOf[c] \in CATEGORIES}
  OBVIOUS
<1>2. PICK gone : gone = [Nothing EXCEPT !.categories = cs]
  OBVIOUS
<1>3. Collected(p, "remove categories", gone) /\ UNCHANGED tables /\ Running(p)
      /\ command[p].step = "collect categories"
  BY <1>1, <1>2 DEF CollectCategories, Running
<1>4. gone.users = {} /\ gone.categories = cs /\ gone.locations = {} /\ gone.reviews = {}
  BY <1>2 DEF Nothing
<1>5. \A l \in locations : l.category \notin cs
  BY <1>1
<1>6. ASSUME NEW d, d.step = "remove categories", d.gone = gone, Alone(p) PROVE Clean(d)'
  <2>1. DemoLocations = {}
    BY <1>3, <1>6 DEF AloneOK, Clean
  <2> QED
    BY <1>3, <1>4, <1>5, <1>6, <2>1 DEF Clean, DemoLocations, tables
<1> QED
  BY <1>3, <1>6, CollectAlone DEF Steps

LEMMA CollectUsersAlone ==
    ASSUME IInv, AloneOK, NEW p \in Commands, CollectUsers(p)
    PROVE  AloneOK' /\ command'[p].step # "idle"
<1>1. PICK ls : ls = {l \in locations : l.author \in DemoUsers}
  OBVIOUS
<1>2. PICK gone : gone = [Nothing EXCEPT !.users = DemoUsers, !.locations = ls,
                              !.reviews = {r \in reviews : r.author \in DemoUsers \/ r.location \in ls}]
  OBVIOUS
<1>3. Collected(p, "remove users", gone) /\ UNCHANGED tables /\ Running(p)
      /\ command[p].step = "collect users"
  BY <1>1, <1>2 DEF CollectUsers, Cascade, DemoUsers, Running
<1>4. gone.users = DemoUsers /\ gone.categories = {} /\ gone.locations = ls
      /\ gone.reviews = {r \in reviews : r.author \in DemoUsers \/ r.location \in ls}
  BY <1>2 DEF Nothing
<1>5. ASSUME NEW d, d.step = "remove users", d.gone = gone, Alone(p) PROVE Clean(d)'
  <2>1. DemoLocations = {}
    BY <1>3, <1>5 DEF AloneOK, Clean
  <2>2. ls = {}
    BY <1>1, <2>1 DEF DemoUsers, DemoLocations
  <2> QED
    BY <1>3, <1>4, <1>5, <2>1, <2>2 DEF Clean, DemoLocations, DemoUsers, tables
<1> QED
  BY <1>3, <1>5, CollectAlone DEF Steps

\* Nothing refers to what a reset alone removes.
LEMMA AloneRemoves ==
    ASSUME IInv, NEW p \in Commands, NEW gone, gone = command[p].gone,
           Clean(command[p]), command[p].step \in DOMAIN Removals
    PROVE  Consistent(users \ gone.users, categories \ gone.categories,
                      locations \ gone.locations, reviews \ gone.reviews)
<1>1. Consistent(users, categories, locations, reviews)
  BY DEF IInv, ReferencesHold
<1>2. CASE command[p].step = "remove locations"
  BY <1>1, <1>2 DEF Clean, Consistent
<1>3. CASE command[p].step = "remove categories"
  BY <1>1, <1>3 DEF Clean, Consistent
<1>4. CASE command[p].step = "remove users"
  <2>1. \A l \in locations : l.author \notin gone.users
    BY <1>4 DEF Clean, DemoLocations, DemoUsers
  <2> QED
    BY <1>1, <1>4, <2>1 DEF Clean, Consistent
<1> QED
  BY <1>2, <1>3, <1>4 DEF Removals

LEMMA RemoveAlone ==
    ASSUME IInv, AloneOK, NEW p \in Commands, Remove(p)
    PROVE  AloneOK' /\ (Alone(p) => command'[p].step # "idle")
<1>1. PICK gone : gone = command[p].gone
  OBVIOUS
<1>2. PICK step : step = Removals[command[p].step]
  OBVIOUS
<1>3. command[p].step \in DOMAIN Removals /\ Running(p)
  BY DEF Remove, Removals, Running
<1>4. CASE ~Consistent(users \ gone.users, categories \ gone.categories,
                       locations \ gone.locations, reviews \ gone.reviews)
  <2>1. End(p, "failed")
    BY <1>1, <1>4 DEF Remove
  <2>2. ~Alone(p)
    BY <1>1, <1>3, <1>4, AloneRemoves DEF AloneOK
  <2> QED
    BY <1>3, <2>1, <2>2, IdleAlone
<1>5. CASE Consistent(users \ gone.users, categories \ gone.categories,
                      locations \ gone.locations, reviews \ gone.reviews)
  <2>1. /\ Collected(p, step, Nothing)
        /\ users' = users \ gone.users
        /\ locations' = locations \ gone.locations /\ reviews' = reviews \ gone.reviews
    BY <1>1, <1>2, <1>5 DEF Remove
  <2>2. /\ step \in Steps /\ step \in {"collect categories", "collect users", "fill"}
        /\ step = "collect categories" => command[p].step = "remove locations"
        /\ step = "collect users" => command[p].step = "remove categories"
        /\ step = "fill" => command[p].step = "remove users"
    BY <1>2, <1>3 DEF Removals, Steps
  <2>3. ASSUME Alone(p) PROVE DemoLocations' = {} /\ (step = "fill" => DemoUsers' = {})
    <3>1. Clean(command[p])
      BY <2>3 DEF AloneOK
    <3>2. DemoLocations' = {}
      BY <1>1, <2>1, <2>2, <3>1 DEF Clean, DemoLocations
    <3>3. ASSUME step = "fill" PROVE DemoUsers' = {}
      BY <1>1, <2>1, <2>2, <3>1, <3>3 DEF Clean, DemoUsers
    <3> QED
      BY <3>2, <3>3
  <2>4. ASSUME NEW d, d.step = step, Alone(p) PROVE Clean(d)'
    BY <2>2, <2>3, <2>4 DEF Clean
  <2> QED
    BY <1>3, <2>1, <2>2, <2>4, CollectAlone
<1> QED
  BY <1>4, <1>5

\* A fill: the names are free for a reset alone.
LEMMA GotoAlone ==
    ASSUME IInv, AloneOK, NEW p \in Commands, Running(p), NEW step \in Steps, Goto(p, step),
           \A d : d.step = step /\ Alone(p) => Clean(d)'
    PROVE  AloneOK' /\ command'[p].step = step
<1>1. PICK d : d = [command[p] EXCEPT !.step = step]
  OBVIOUS
<1>2. d.step = step /\ d.alone = command[p].alone /\ d.reset = command[p].reset
  BY <1>1, CommandType DEF Command
<1>3. command' = [command EXCEPT ![p] = d]
  BY <1>1 DEF Goto
<1>4. command'[p] = d
  BY <1>3 DEF IInv, TypeInv
<1> QED
  BY <1>2, <1>3, <1>4, AloneMoves DEF Alone

LEMMA CheckAlone ==
    ASSUME IInv, AloneOK, NEW p \in Commands, Check(p)
    PROVE  AloneOK' /\ ~Alone(p)
<1>1. command[p].step = "check" /\ Running(p) /\ (End(p, "present") \/ Goto(p, "fill"))
  BY DEF Check, Running
<1>2. ~Alone(p)
  BY <1>1 DEF AloneOK, Clean
<1> QED
  BY <1>1, <1>2, IdleAlone, GotoAlone DEF Steps

LEMMA CreateUsersAlone ==
    ASSUME IInv, AloneOK, NEW p \in Commands, CreateUsers(p)
    PROVE  AloneOK' /\ (Alone(p) => command'[p].step # "idle")
<1>1. command[p].step = "fill" /\ Running(p) /\ UNCHANGED tables
  BY DEF CreateUsers, Running
<1>2. Alone(p) => DemoUsers = {} /\ DemoLocations = {}
  BY <1>1 DEF AloneOK, Clean
<1>3. CASE DemoUsers # {}
  <2>1. End(p, "failed") /\ ~Alone(p)
    BY <1>2, <1>3 DEF CreateUsers, DemoUsers
  <2> QED
    BY <1>1, <2>1, IdleAlone
<1>4. CASE DemoUsers = {}
  <2>1. Goto(p, "categories of fill")
    BY <1>4 DEF CreateUsers, DemoUsers
  <2>2. ASSUME NEW d, d.step = "categories of fill", Alone(p) PROVE Clean(d)'
    BY <1>1, <1>2, <2>2 DEF Clean, DemoUsers, DemoLocations, tables
  <2> QED
    BY <1>1, <2>1, <2>2, GotoAlone DEF Steps
<1> QED
  BY <1>3, <1>4

LEMMA GetCategoriesAlone ==
    ASSUME IInv, AloneOK, NEW p \in Commands, GetCategories(p)
    PROVE  AloneOK' /\ (SlugClash \/ command'[p].step # "idle")
<1>1. command[p].step = "categories of fill" /\ Running(p) /\ UNCHANGED tables
  BY DEF GetCategories, Running
<1>2. CASE SlugClash
  BY <1>1, <1>2, IdleAlone DEF GetCategories
<1>3. CASE ~SlugClash
  <2>1. PICK got : got = [c \in {x \in categories : nameOf[x] \in CATEGORIES} |-> nameOf[c]]
    OBVIOUS
  <2>7. DOMAIN got \subseteq categories /\ categories' = categories
    BY <1>1, <2>1 DEF tables, categories
  <2>2. PICK d : d = [command[p] EXCEPT !.step = "commit", !.got = got]
    OBVIOUS
  <2>3. command' = [command EXCEPT ![p] = d]
    BY <1>3, <2>1, <2>2 DEF GetCategories
  <2>4. d.step = "commit" /\ d.got = got /\ d.alone = command[p].alone /\ d.reset = command[p].reset
    BY <2>2, CommandType DEF Command
  <2>5. ASSUME Alone(p) PROVE Clean(d)'
    <3>1. DemoUsers = {} /\ DemoLocations = {}
      BY <1>1, <2>5 DEF AloneOK, Clean
    <3> QED
      BY <1>1, <2>4, <2>7, <3>1 DEF Clean, DemoUsers, DemoLocations, tables
  <2>6. command'[p] = d
    BY <2>3 DEF IInv, TypeInv
  <2> QED
    BY <1>1, <2>3, <2>4, <2>5, <2>6, AloneMoves DEF Alone
<1> QED
  BY <1>2, <1>3

\* The demo users and their locations are all those of the last insertion.
Renewed ==
    /\ made' = made + 1
    /\ \A u \in users' : u.name \in DemoNames => u.made = made'
    /\ \A l \in locations' : l.author.name \in DemoNames => l.made = made'

LEMMA CommitAlone ==
    ASSUME IInv, AloneOK, NEW p \in Commands, NEW some, Commit(p, some)
    PROVE  AloneOK' /\ (Alone(p) => Renewed)
<1>1. command[p].step = "commit" /\ Running(p)
  BY DEF Commit, Running
<1>2. End(p, "failed") \/ End(p, "created")
  BY DEF Commit
<1>3. AloneOK'
  BY <1>1, <1>2, IdleAlone
<1>4. ASSUME Alone(p) PROVE Renewed
  <2>1. DOMAIN command[p].got \subseteq categories /\ DemoUsers = {} /\ DemoLocations = {}
    BY <1>1, <1>4 DEF AloneOK, Clean
  <2>2. PICK cs : cs = With(command[p].got, NewCategories(command[p].got))
    OBVIOUS
  <2>3. /\ made' = made + 1
        /\ users' = users \union {NewUser(n) : n \in DemoNames}
        /\ locations' = locations \union {NewLocation(t, cs) : t \in LOCATIONS}
    BY <2>1, <2>2 DEF Commit
  <2>4. \A n : NewUser(n).made = made + 1
    BY DEF NewUser
  <2>5. \A t : NewLocation(t, cs).made = made + 1
    BY DEF NewLocation
  <2> QED
    BY <2>1, <2>3, <2>4, <2>5 DEF Renewed, DemoUsers, DemoLocations
<1> QED
  BY <1>3, <1>4

LEMMA StepAlone ==
    ASSUME IInv, AloneOK, NEW p \in Commands, Step(p)
    PROVE  AloneOK' /\ (Alone(p) /\ ~Running(p)' => Renewed \/ SlugClash)
<1>1. CASE Check(p) \/ CreateUsers(p) \/ GetCategories(p)
  BY <1>1, CheckAlone, CreateUsersAlone, GetCategoriesAlone DEF Running
<1>2. CASE CollectLocations(p) \/ CollectCategories(p) \/ CollectUsers(p)
  BY <1>2, CollectLocationsAlone, CollectCategoriesAlone, CollectUsersAlone DEF Running
<1>3. CASE Remove(p)
  BY <1>3, RemoveAlone DEF Running
<1>4. CASE \E some \in SUBSET USERNAMES : Commit(p, some)
  BY <1>4, CommitAlone
<1> QED
  BY <1>1, <1>2, <1>3, <1>4 DEF Step

\* Whatever happens besides, no reset is alone any more.
LEMMA DisturbedAlone ==
    ASSUME IInv, AloneOK, command' = Disturbed
    PROVE  AloneOK'
<1>1. ASSUME NEW q \in Commands PROVE ~command'[q].alone
  <2>1. command'[q] = [command[q] EXCEPT !.alone = FALSE]
    BY DEF Disturbed
  <2> QED
    BY <2>1, CommandType DEF Command
<1> QED
  BY <1>1 DEF AloneOK, Alone

LEMMA StartAlone ==
    ASSUME IInv, AloneOK, NEW p \in Commands, NEW reset \in BOOLEAN, Start(p, reset)
    PROVE  AloneOK'
<1>1. PICK d : d = [Idle EXCEPT !.step = IF reset THEN "collect locations" ELSE "check",
                        !.reset = reset, !.alone = \A q \in Commands : ~Running(q)]
  OBVIOUS
<1>2. command' = [Disturbed EXCEPT ![p] = d]
  BY <1>1 DEF Start
<1>3. /\ d.step = IF reset THEN "collect locations" ELSE "check"
      /\ d.reset = reset /\ d.alone = (\A q \in Commands : ~Running(q))
  BY <1>1 DEF Idle
<1>4. ASSUME NEW q \in Commands \ {p} PROVE ~command'[q].alone /\ command'[q].step = command[q].step
  <2>1. command'[q] = [command[q] EXCEPT !.alone = FALSE]
    BY <1>2 DEF Disturbed
  <2> QED
    BY <2>1, CommandType DEF Command
<1>5. command'[p] = d
  BY <1>2 DEF Disturbed
<1>6. ASSUME Alone(p)' PROVE Clean(command[p])' /\ \A q \in Commands \ {p} : ~Running(q)'
  <2>1. d.step = "collect locations" /\ \A q \in Commands : ~Running(q)
    BY <1>3, <1>5, <1>6 DEF Alone
  <2>2. \A q \in Commands \ {p} : ~Running(q)'
    BY <1>4, <2>1 DEF Running
  <2>3. Clean(d)'
    BY <2>1 DEF Clean
  <2> QED
    BY <1>5, <2>2, <2>3
<1> QED
  BY <1>4, <1>6 DEF AloneOK, Alone

LEMMA NextAlone == IInv /\ AloneOK /\ [Next]_vars => AloneOK'
<1> SUFFICES ASSUME IInv, AloneOK, [Next]_vars PROVE AloneOK'
  OBVIOUS
<1>1. CASE Site
  BY <1>1, DisturbedAlone
     DEF Site, Register, AddCategory, RenameCategory, RemoveCategory, AddLocation, AddReview
<1>2. CASE UNCHANGED vars
  BY <1>2 DEF vars, tables, categories, AloneOK, Alone, Clean, DemoLocations, DemoUsers, Running
<1>3. CASE \E p \in Commands : Kill(p)
  BY <1>3, IdleAlone DEF Kill
<1> QED
  BY <1>1, <1>2, <1>3, StartAlone, StepAlone DEF Next

LEMMA InitAlone == Init => AloneOK
BY DEF Init, AloneOK, Alone, Idle

-----------------------------------------------------------------------------
(* The theorems.                                                           *)

\* Whatever runs of the command race each other and the site, every row has the rows it
\* refers to and usernames are unique.
THEOREM RowsKeepTheirReferences == Spec => []ReferencesHold
<1>1. IInv => ReferencesHold
  BY DEF IInv
<1> QED
  BY Invariant, <1>1, PTL

\* The demo locations are always one whole batch, with its users, or none.
THEOREM BatchIsWhole == Spec => []OneWholeBatch
<1>1. IInv => OneWholeBatch
  <2> SUFFICES ASSUME IInv, NEW l \in Demo
               PROVE  \E b \in 1 .. made :
                         /\ Demo = {k \in locations : k.made = b /\ k.title # Place}
                         /\ {k.title : k \in Demo} = LOCATIONS
                         /\ \A n \in DemoNames : [name |-> n, made |-> b] \in users
    BY DEF OneWholeBatch, Demo
  <2>1. l.made \in Nat /\ l.made <= made /\ made \in Nat
    BY DEF Demo, IInv, TypeInv, LocationRow, AllOld, Old
  <2>2. Demo = {k \in locations : k.made = l.made /\ k.title # Place}
    <3>1. \A k \in Demo : k.made = l.made /\ k.title # Place
      BY DataAssumption DEF IInv, WholeBatch, Demo
    <3>2. \A k \in locations : k.title # Place => k.title \in LOCATIONS
      BY DEF IInv, TypeInv, LocationRow
    <3> QED
      BY <3>1, <3>2 DEF Demo
  <2>3. {k.title : k \in Demo} = LOCATIONS
    <3>1. \A t \in LOCATIONS : \E k \in Demo : k.title = t
      BY DEF IInv, WholeBatch
    <3> QED
      BY <3>1 DEF Demo
  <2>4. \A n \in DemoNames : [name |-> n, made |-> l.made] \in users
    BY DEF IInv, WholeBatch, UserOf
  <2>5. l.made # 0
    BY DEF IInv, WholeBatch
  <2> QED
    BY <2>1, <2>2, <2>3, <2>4, <2>5
<1> QED
  BY Invariant, <1>1, PTL

\* A command removes users of the demo names, what is theirs, and categories that had
\* a demo name while it was deleting such categories, only.
THEOREM WhatIsNotDemoIsKept == Spec => OthersKept
<1>1. ASSUME IInv, DemoGone, [Next]_vars, NEW p \in Commands, command'[p].step # command[p].step
      PROVE  /\ \A u \in users \ users' : u.name \in DemoNames
             /\ \A l \in locations \ locations' : l.author.name \in DemoNames
             /\ \A r \in reviews \ reviews' :
                    DemoNames \intersect {r.author.name, r.location.author.name} # {}
             /\ categories \ categories' \subseteq wasDemo[p]
  <2>1. CASE Remove(p)
    <3>1. OwnGone(command[p].gone) /\ command[p].gone.categories \subseteq wasDemo[p]
      BY <1>1 DEF IInv, AllGone, DemoGone
    <3>2. \/ UNCHANGED <<users, categories, locations, reviews>>
          \/ /\ users' = users \ command[p].gone.users
             /\ categories' = categories \ command[p].gone.categories
             /\ locations' = locations \ command[p].gone.locations
             /\ reviews' = reviews \ command[p].gone.reviews
      <4>1. UNCHANGED <<users, nameOf, locations, reviews>> => UNCHANGED <<users, categories, locations, reviews>>
        BY DEF categories
      <4>2. \/ UNCHANGED <<users, nameOf, locations, reviews>>
            \/ /\ users' = users \ command[p].gone.users
               /\ nameOf' = Without(command[p].gone.categories)
               /\ locations' = locations \ command[p].gone.locations
               /\ reviews' = reviews \ command[p].gone.reviews
        BY <2>1 DEF Remove, tables
      <4> QED
        BY <1>1, <4>1, <4>2, WithoutNames DEF IInv, categories
    <3> QED
      BY <3>1, <3>2 DEF OwnGone
  <2>2. CASE \E some \in SUBSET USERNAMES : Commit(p, some)
    <3>1. /\ users \subseteq users' /\ locations \subseteq locations' /\ reviews \subseteq reviews'
          /\ nameOf' = nameOf \/ nameOf' = With(nameOf, NewCategories(command[p].got))
      BY <2>2 DEF Commit, tables
    <3>2. nameOf \in Naming /\ NewCategories(command[p].got) \in SUBSET Names /\ made \in Nat
      BY <1>1 DEF IInv, TypeInv, NewCategories, Names
    <3>3. categories \subseteq categories'
      BY <3>1, <3>2, WithNames DEF categories
    <3> QED
      BY <3>1, <3>3
  <2>3. CASE UNCHANGED tables
    BY <2>3 DEF tables, categories
  <2> QED
    BY <1>1, <2>1, <2>2, <2>3, WhoMoves
       DEF Step, Check, CollectLocations, CollectCategories, CollectUsers, CreateUsers, GetCategories
<1>2. IInv /\ DemoGone /\ [Next]_vars =>
        [\A p \in Commands : command'[p].step # command[p].step =>
            /\ \A u \in users \ users' : u.name \in DemoNames
            /\ \A l \in locations \ locations' : l.author.name \in DemoNames
            /\ \A r \in reviews \ reviews' :
                   DemoNames \intersect {r.author.name, r.location.author.name} # {}
            /\ categories \ categories' \subseteq wasDemo[p]]_vars
  BY <1>1
<1>3. Spec => [](IInv /\ DemoGone)
  BY InitIInv, NextIInv, InitDemoGone, NextDemoGone, PTL DEF Spec
<1> QED
  BY <1>2, <1>3, PTL DEF Spec, OthersKept

\* Whatever earlier runs left behind, a reset that nothing disturbs renews the demo
\* data, unless another category has the slug of a demo category.
THEOREM AloneResetsRenew == Spec => AloneResetRenews
<1>1. Spec => [](IInv /\ AloneOK)
  BY InitIInv, NextIInv, InitAlone, NextAlone, PTL DEF Spec
<1>2. IInv /\ AloneOK =>
        [\A p \in Commands :
            command[p].alone /\ command[p].reset /\ Step(p) /\ ~Running(p)' =>
                \/ /\ made' = made + 1
                   /\ \A u \in users' : u.name \in DemoNames => u.made = made'
                   /\ \A l \in locations' : l.author.name \in DemoNames => l.made = made'
                \/ SlugClash]_vars
  BY StepAlone DEF Alone, Renewed
<1> QED
  BY <1>1, <1>2, PTL DEF AloneResetRenews
=============================================================================
