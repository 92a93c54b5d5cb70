-------------------------- MODULE ListCacheProofs --------------------------
(***************************************************************************)
(* Proofs about ListCache for any numbers of requests, queries and changes *)
(* and any set of faults: the type invariant, that a cached answer is      *)
(* fresh, and that a new version starts empty.                             *)
(***************************************************************************)
EXTENDS ListCache, TLAPS

(***************************************************************************)
(* The inductive invariant.  A version that is current was set after every *)
(* invalidation that took effect; a page stored under a version while up   *)
(* to date contains every change signalled before that version was set.    *)
(***************************************************************************)
HistoryOK == invalidated <= signalled /\ signalled <= db

VersionOK ==
    /\ version # NoVersion => version = Len(since) /\ invalidated <= since[version]
    /\ \A v \in 1 .. Len(since) : since[v] <= signalled

WriterOK(w) ==
    /\ writer[w].change <= signalled
    /\ writer[w].step = "add" /\ version # NoVersion => writer[w].change <= since[version]

\* What holds of a page of the given age stored, or about to be, under version v.
PageOK(v, age, straddled) ==
    v <= Len(since) /\ (v # NoVersion /\ ~straddled => since[v] <= age)

ReaderOK(r) ==
    /\ reader[r].start <= invalidated
    /\ reader[r].ver <= Len(since)
    /\ reader[r].step = "key" /\ reader[r].phase = "get" /\ reader[r].ver # NoVersion =>
           reader[r].start <= since[reader[r].ver]
    /\ reader[r].step = "key" /\ reader[r].phase = "set" =>
           PageOK(reader[r].ver, reader[r].age, reader[r].straddled)
    /\ reader[r].step = "hit" =>
           \/ reader[r].age >= reader[r].start
           \/ reader[r].straddled
           \/ reader[r].ver = NoVersion

IInv ==
    /\ TypeOK
    /\ HistoryOK
    /\ VersionOK
    /\ \A w \in Writers : WriterOK(w)
    /\ \A e \in pages : PageOK(e.ver, e.age, e.straddled)
    /\ \A r \in Readers : ReaderOK(r)

-----------------------------------------------------------------------------
(* Type correctness.                                                       *)

LEMMA IdleTypes == IdleReader \in ReaderState /\ IdleWriter \in WriterState
BY QueriesAssumption DEF IdleReader, IdleWriter, ReaderState, WriterState, CacheSteps, NoVersion

\* Installing a version after the last one set keeps the history typed.
LEMMA InstallType ==
    ASSUME TypeOK, NEW v, v \in 1 .. Len(since) + 1, Install(v)
    PROVE  since' \in Seq(Nat) /\ version' \in 0 .. Len(since')
BY DEF TypeOK, Install

LEMMA CacheAddType ==
    ASSUME TypeOK, CacheAdd
    PROVE  since' \in Seq(Nat) /\ version' \in 0 .. Len(since')
<1>1. CASE version = NoVersion
  BY <1>1, InstallType DEF CacheAdd, InitialVersion
<1>2. CASE version # NoVersion
  BY <1>2 DEF CacheAdd, TypeOK
<1> QED BY <1>1, <1>2

\* make_key keeps the type of the request.
LEMMA ObtainType ==
    ASSUME TypeOK, NEW r \in Readers, Obtain(r)
    PROVE  reader' \in [Readers -> ReaderState]
<1>1. Straddled(r) \in BOOLEAN
  BY DEF Straddled
<1>2. reader[r] \in ReaderState /\ version \in Nat
  BY DEF TypeOK
<1>3. [reader[r] EXCEPT !.step = "key", !.ver = version, !.straddled = Straddled(r)]
          \in ReaderState
  BY <1>1, <1>2 DEF ReaderState, CacheSteps
<1> QED
  BY <1>3 DEF Obtain, TypeOK

\* A step of a request keeps the types.
LEMMA ReaderType ==
    ASSUME TypeOK, NEW r \in Readers, ReaderStep(r)
    PROVE  TypeOK'
<1> USE DEF TypeOK, vars, dbVars, redisVars, ReaderAt, CacheSteps
<1>1. CASE ReadVersion(r)
  <2>1. reader' \in [Readers -> ReaderState]
    <3>1. CASE version = NoVersion
      <4>1. reader' = [reader EXCEPT ![r].step = "add"]
        BY <1>1, <3>1 DEF ReadVersion
      <4> QED BY <4>1 DEF ReaderState
    <3>2. CASE version # NoVersion
      BY <1>1, <3>2, ObtainType DEF ReadVersion
    <3> QED BY <3>1, <3>2
  <2> QED
    BY <1>1, <2>1 DEF ReadVersion
<1>2. CASE AddVersion(r)
  BY <1>2, CacheAddType DEF AddVersion, ReaderState
<1>3. CASE ReadVersionAgain(r)
  BY <1>3, ObtainType DEF ReadVersionAgain
<1>4. CASE Hit(r)
  <2>1. PICK e \in pages :
             reader' = [reader EXCEPT ![r] =
                 [reader[r] EXCEPT !.step = "hit", !.age = e.age, !.straddled = e.straddled]]
    BY <1>4 DEF Hit
  <2>2. e.age \in Nat /\ e.straddled \in BOOLEAN
    BY DEF Entry
  <2>3. [reader[r] EXCEPT !.step = "hit", !.age = e.age, !.straddled = e.straddled]
            \in ReaderState
    BY <2>2 DEF ReaderState
  <2> QED
    BY <1>4, <2>1, <2>3 DEF Hit
<1>5. CASE Miss(r)
  BY <1>5 DEF Miss, ReaderState
<1>6. CASE Query(r)
  BY <1>6 DEF Query, ReaderState
<1>7. CASE Store(r)
  BY <1>7, IdleTypes DEF Store, ReaderState, Entry
<1>8. CASE CacheDown(r)
  BY <1>8, IdleTypes DEF CacheDown, ReaderState
<1>9. CASE Abandon(r)
  BY <1>9, IdleTypes DEF Abandon
<1> QED
  BY <1>1, <1>2, <1>3, <1>4, <1>5, <1>6, <1>7, <1>8, <1>9 DEF ReaderStep
\* A step of a writing request keeps the types.
LEMMA WriterType ==
    ASSUME TypeOK, NEW w \in Writers, WriterStep(w)
    PROVE  TypeOK'
<1> USE DEF TypeOK, dbVars, redisVars, WriterAt
<1>1. CASE Save(w)
  BY <1>1 DEF Save, WriterState
<1>2. CASE Commit(w)
  BY <1>2 DEF Commit, WriterState
<1>3. CASE Rollback(w)
  BY <1>3, IdleTypes DEF Rollback
<1>4. CASE Incr(w)
  <2>1. CASE version = NoVersion
    BY <1>4, <2>1 DEF Incr, WriterState
  <2>2. CASE version # NoVersion
    <3>1. Install(version + 1) /\ TookEffect(w)
      BY <1>4, <2>2 DEF Incr
    <3>2. since' \in Seq(Nat) /\ version' \in 0 .. Len(since')
      BY <3>1, <2>2, InstallType DEF NoVersion
    <3>3. invalidated' \in Nat /\ writer' \in [Writers -> WriterState]
      BY <3>1, IdleTypes DEF TookEffect, WriterState
    <3> QED BY <1>4, <3>2, <3>3 DEF Incr
  <2> QED BY <2>1, <2>2
<1>5. CASE Add(w)
  BY <1>5, CacheAddType, IdleTypes DEF Add, TookEffect, WriterState
<1>6. CASE InvalidateDown(w)
  BY <1>6, IdleTypes DEF InvalidateDown
<1>7. CASE AddDown(w)
  BY <1>7 DEF AddDown, WriterState
<1>8. CASE CrashWriter(w)
  BY <1>8, IdleTypes DEF CrashWriter
<1> QED
  BY <1>1, <1>2, <1>3, <1>4, <1>5, <1>6, <1>7, <1>8 DEF WriterStep
LEMMA TypeStep ==
    ASSUME TypeOK, [Next]_vars
    PROVE  TypeOK'
<1>1. CASE \E r \in Readers, q \in Queries : Start(r, q)
  <2> PICK r \in Readers, q \in Queries : Start(r, q)
    BY <1>1
  <2>1. [IdleReader EXCEPT !.step = "version", !.query = q, !.start = invalidated] \in ReaderState
    BY IdleTypes DEF TypeOK, ReaderState, CacheSteps
  <2> QED
    BY <2>1 DEF Start, TypeOK, dbVars, redisVars
<1>2. CASE \E r \in Readers : ReaderStep(r)
  BY <1>2, ReaderType
<1>3. CASE \E w \in Writers : WriterStep(w)
  BY <1>3, WriterType
<1>4. CASE Environment
  <2> USE DEF TypeOK, dbVars, redisVars
  <2>1. CASE SilentChange
    BY <2>1 DEF SilentChange
  <2>2. CASE Evict
    BY <2>2 DEF Evict, NoVersion
  <2>3. CASE Outage
    BY <2>3 DEF Outage
  <2>4. CASE \E v \in Versions, q \in Queries : Expire(v, q)
    BY <2>4 DEF Expire
  <2> QED BY <1>4, <2>1, <2>2, <2>3, <2>4 DEF Environment
<1>5. CASE UNCHANGED vars
  BY <1>5 DEF vars, TypeOK
<1> QED
  BY <1>1, <1>2, <1>3, <1>4, <1>5 DEF Next

\* Every variable keeps its type and the version key only ever holds a version
\* that was set (cache.py, _version and invalidate), for any number of requests.
THEOREM TypeCorrect == Spec => []TypeOK
<1>1. Init => TypeOK
  BY IdleTypes DEF Init, TypeOK, NoVersion
<1>2. TypeOK /\ [Next]_vars => TypeOK'
  BY TypeStep
<1> QED
  BY <1>1, <1>2, PTL DEF Spec

-----------------------------------------------------------------------------
(* Preservation of the inductive invariant.                                *)

\* A step that only changes one request needs to be looked at for it alone.
LEMMA ReaderOnly ==
    ASSUME IInv, TypeOK', NEW r \in Readers,
           UNCHANGED <<dbVars, invalidated, redisVars, writer>>,
           \A x \in Readers : x # r => reader'[x] = reader[x],
           ReaderOK(r)'
    PROVE  IInv'
<1> USE DEF IInv, dbVars, redisVars
<1>1. HistoryOK' /\ VersionOK'
  BY DEF HistoryOK, VersionOK
<1>2. \A w \in Writers : WriterOK(w)'
  BY DEF WriterOK
<1>3. \A e \in pages' : PageOK(e.ver, e.age, e.straddled)'
  BY DEF PageOK
<1>4. \A x \in Readers : ReaderOK(x)'
  <2> SUFFICES ASSUME NEW x \in Readers, x # r PROVE ReaderOK(x)'
    OBVIOUS
  <2> QED BY DEF ReaderOK, PageOK
<1> QED BY <1>1, <1>2, <1>3, <1>4

\* The version that make_key reads is one under which the request may hit, and
\* may store a page that is not straddled.
LEMMA ObtainOK ==
    ASSUME IInv, NEW r \in Readers, Obtain(r), UNCHANGED <<invalidated, since>>
    PROVE  ReaderOK(r)'
<1>1. /\ reader'[r].step = "key" /\ reader'[r].ver = version
      /\ reader'[r].phase = reader[r].phase /\ reader'[r].age = reader[r].age
      /\ reader'[r].start = reader[r].start
      /\ reader'[r].straddled = Straddled(r)
  BY DEF Obtain, IInv, TypeOK, ReaderState
<1>2. reader[r].start <= invalidated /\ version <= Len(since)
  BY DEF IInv, ReaderOK, TypeOK
<1>3. version # NoVersion => invalidated <= since[version] /\ since[version] <= signalled
  BY DEF IInv, VersionOK, TypeOK, NoVersion
<1>4. /\ reader[r].start \in Nat /\ reader[r].age \in Nat /\ invalidated \in Nat
      /\ signalled \in Nat
      /\ version # NoVersion => since[version] \in Nat
  BY DEF IInv, TypeOK, ReaderState, NoVersion
<1>5. version # NoVersion => reader[r].start <= since[version]
  BY <1>2, <1>3, <1>4
<1>6. (reader[r].phase = "set" => PageOK(reader[r].ver, reader[r].age, reader[r].straddled))'
  <2>1. reader[r].phase = "set" /\ ~Straddled(r) => signalled <= reader[r].age
    BY <1>4 DEF Straddled
  <2> QED BY <1>1, <1>2, <1>3, <1>4, <2>1 DEF PageOK
<1> QED
  BY <1>1, <1>2, <1>5, <1>6 DEF ReaderOK

\* A request that has just become idle satisfies its invariant.
LEMMA IdleReaderOK ==
    ASSUME IInv, TypeOK', NEW r \in Readers, reader'[r] = IdleReader
    PROVE  ReaderOK(r)'
BY DEF ReaderOK, PageOK, IdleReader, TypeOK, NoVersion

\* Setting the next version keeps what is known of the pages of the others:
\* since only grows, and the new version is set after every signalled change.
LEMMA InstallOK ==
    ASSUME IInv, TypeOK', NEW v, v = Len(since) + 1, Install(v), UNCHANGED dbVars,
           UNCHANGED pages, invalidated' <= signalled
    PROVE  /\ HistoryOK' /\ VersionOK' /\ version' # NoVersion /\ version' = Len(since')
           /\ since'[version'] = signalled
           /\ \A u \in 1 .. Len(since) : since'[u] = since[u]
           /\ Len(since) <= Len(since')
           /\ \A e \in pages' : PageOK(e.ver, e.age, e.straddled)'
<1>1. /\ since \in Seq(Nat) /\ signalled \in Nat /\ version \in Nat
      /\ db \in Nat /\ invalidated \in Nat /\ since' \in Seq(Nat)
  BY DEF IInv, TypeOK
<1>2. /\ Len(since') = Len(since) + 1 /\ since'[Len(since) + 1] = signalled
      /\ \A u \in 1 .. Len(since) : since'[u] = since[u]
      /\ version' = Len(since) + 1 /\ Len(since) \in Nat
  BY <1>1 DEF Install
<1>3. HistoryOK'
  BY DEF IInv, HistoryOK, dbVars
<1>4. VersionOK'
  <2>1. \A u \in 1 .. Len(since) : since'[u] <= signalled
    BY <1>2 DEF IInv, VersionOK
  <2>2. \A u \in 1 .. Len(since') : since'[u] <= signalled
    BY <1>1, <1>2, <2>1
  <2>3. signalled' = signalled
    BY DEF dbVars
  <2> QED BY <1>2, <2>2, <2>3 DEF VersionOK
<1>5. \A e \in pages' : PageOK(e.ver, e.age, e.straddled)'
  <2> SUFFICES ASSUME NEW e \in pages PROVE PageOK(e.ver, e.age, e.straddled)'
    OBVIOUS
  <2>1. e.ver \in Nat /\ e.age \in Nat
    BY DEF IInv, TypeOK, Entry
  <2> QED BY <1>2, <2>1 DEF IInv, PageOK, NoVersion
<1> QED
  BY <1>2, <1>3, <1>4, <1>5 DEF NoVersion

\* What is known of a request stays true while the history of versions grows.
LEMMA ReaderKept ==
    ASSUME IInv, TypeOK', NEW x \in Readers, reader'[x].phase = reader[x].phase,
           reader'[x].start = reader[x].start, reader'[x].ver = reader[x].ver,
           reader'[x].step \in {reader[x].step, "again"},
           reader'[x].age = reader[x].age, reader'[x].straddled = reader[x].straddled,
           Len(since) <= Len(since'),
           \A u \in 1 .. Len(since) : since'[u] = since[u],
           invalidated <= invalidated'
    PROVE  ReaderOK(x)'
<1>1. /\ reader[x].start \in Nat /\ reader[x].ver \in Nat
      /\ invalidated \in Nat /\ invalidated' \in Nat
      /\ Len(since) \in Nat /\ Len(since') \in Nat
  BY DEF IInv, TypeOK, ReaderState
<1>2. ReaderOK(x)
  BY DEF IInv
<1>3. reader[x].ver # NoVersion => since'[reader[x].ver] = since[reader[x].ver]
  BY <1>1, <1>2 DEF ReaderOK, NoVersion
<1> QED
  BY <1>1, <1>2, <1>3 DEF ReaderOK, PageOK

\* What is known of a writer stays true when the next version is set.
LEMMA WriterKept ==
    ASSUME IInv, NEW x \in Writers, writer'[x] = writer[x],
           version' # NoVersion => since'[version'] = signalled, signalled' = signalled
    PROVE  WriterOK(x)'
BY DEF IInv, WriterOK

\* Every step of a list or map request preserves the invariant.
LEMMA ReaderInv ==
    ASSUME IInv, TypeOK', NEW r \in Readers, ReaderStep(r)
    PROVE  IInv'
<1> USE DEF ReaderAt
<1>0. reader \in [Readers -> ReaderState] /\ ReaderOK(r) /\ reader[r] \in ReaderState
  BY DEF IInv, TypeOK
<1>1. CASE ReadVersion(r)
  <2>1. CASE version = NoVersion
    <3>1. reader' = [reader EXCEPT ![r].step = "add"]
      BY <1>1, <2>1 DEF ReadVersion
    <3>2. ReaderOK(r)'
      BY <1>0, <1>1, <3>1 DEF ReadVersion, ReaderOK, ReaderState, redisVars
    <3> QED BY <1>0, <1>1, <3>1, <3>2, ReaderOnly DEF ReadVersion
  <2>2. CASE version # NoVersion
    <3>1. Obtain(r)
      BY <1>1, <2>2 DEF ReadVersion
    <3>2. ReaderOK(r)'
      BY <1>1, <3>1, ObtainOK DEF ReadVersion, redisVars
    <3> QED BY <1>0, <1>1, <3>1, <3>2, ReaderOnly DEF ReadVersion, Obtain
  <2> QED BY <2>1, <2>2
<1>2. CASE AddVersion(r)
  <2>1. /\ reader'[r].step = "again" /\ reader'[r].phase = reader[r].phase
        /\ reader'[r].start = reader[r].start /\ reader'[r].ver = reader[r].ver
        /\ reader'[r].age = reader[r].age /\ reader'[r].straddled = reader[r].straddled
        /\ \A x \in Readers : x # r => reader'[x] = reader[x]
    BY <1>0, <1>2 DEF AddVersion, ReaderState
  <2>2. CASE version = NoVersion
    <3>1. Install(Len(since) + 1) /\ UNCHANGED <<dbVars, invalidated, redisUp, pages, writer>>
      BY <1>2, <2>2 DEF AddVersion, CacheAdd, InitialVersion
    <3>2. invalidated' <= signalled /\ invalidated <= invalidated'
      BY <3>1 DEF IInv, HistoryOK, TypeOK
    <3>3. /\ HistoryOK' /\ VersionOK' /\ version' # NoVersion
          /\ since'[version'] = signalled
          /\ \A u \in 1 .. Len(since) : since'[u] = since[u]
          /\ Len(since) <= Len(since')
          /\ \A e \in pages' : PageOK(e.ver, e.age, e.straddled)'
      BY <3>1, <3>2, InstallOK
    <3>4. \A x \in Readers : ReaderOK(x)'
      BY <2>1, <3>2, <3>3, ReaderKept
    <3>5. \A w \in Writers : WriterOK(w)'
      BY <3>1, <3>3, WriterKept DEF dbVars
    <3> QED BY <3>3, <3>4, <3>5 DEF IInv
  <2>3. CASE version # NoVersion
    <3>1. UNCHANGED <<dbVars, invalidated, redisVars, writer>>
      BY <1>2, <2>3 DEF AddVersion, CacheAdd, redisVars
    <3>2. Len(since') = Len(since) /\ since' = since /\ invalidated' = invalidated
      BY <3>1 DEF redisVars
    <3>3. ReaderOK(r)'
      BY <2>1, <3>2, ReaderKept DEF IInv, TypeOK
    <3> QED BY <2>1, <3>1, <3>3, ReaderOnly
  <2> QED BY <2>2, <2>3
<1>3. CASE ReadVersionAgain(r)
  <2>1. ReaderOK(r)'
    BY <1>3, ObtainOK DEF ReadVersionAgain, redisVars
  <2> QED BY <1>0, <1>3, <2>1, ReaderOnly DEF ReadVersionAgain, Obtain
<1>4. CASE Hit(r)
  <2>1. PICK e \in pages :
            /\ e.ver = reader[r].ver
            /\ reader' = [reader EXCEPT ![r] =
                   [reader[r] EXCEPT !.step = "hit", !.age = e.age, !.straddled = e.straddled]]
    BY <1>4 DEF Hit
  <2>2. /\ reader'[r].step = "hit" /\ reader'[r].age = e.age
        /\ reader'[r].straddled = e.straddled /\ reader'[r].ver = reader[r].ver
        /\ reader'[r].start = reader[r].start
    BY <1>0, <2>1 DEF ReaderState
  <2>3. PageOK(reader[r].ver, e.age, e.straddled) /\ e.age \in Nat
    BY <2>1 DEF IInv, TypeOK, Entry
  <2>4. reader[r].ver # NoVersion =>
            reader[r].start <= since[reader[r].ver] /\ since[reader[r].ver] \in Nat
    BY <1>0, <1>4 DEF Hit, ReaderOK, IInv, TypeOK, ReaderState, NoVersion
  <2>5. reader[r].ver # NoVersion /\ ~e.straddled => e.age >= reader[r].start
    BY <1>0, <2>3, <2>4 DEF PageOK, ReaderState
  <2>6. since' = since /\ invalidated' = invalidated
    BY <1>4 DEF Hit, redisVars
  <2>7. ReaderOK(r)'
    BY <1>0, <2>2, <2>5, <2>6 DEF ReaderOK
  <2> QED BY <1>0, <1>4, <2>1, <2>7, ReaderOnly DEF Hit
<1>5. CASE Miss(r)
  <2>1. ReaderOK(r)'
    BY <1>0, <1>5 DEF Miss, ReaderOK, ReaderState, redisVars
  <2> QED BY <1>0, <1>5, <2>1, ReaderOnly DEF Miss
<1>6. CASE Query(r)
  <2>1. ReaderOK(r)'
    BY <1>0, <1>6 DEF Query, ReaderOK, ReaderState, redisVars
  <2> QED BY <1>0, <1>6, <2>1, ReaderOnly DEF Query
<1>7. CASE Store(r)
  <2>1. /\ UNCHANGED <<dbVars, invalidated, version, since, writer>>
        /\ reader'[r] = IdleReader /\ \A x \in Readers : x # r => reader'[x] = reader[x]
    BY <1>0, <1>7 DEF Store
  <2>2. \A x \in Readers : ReaderOK(x)'
    <3> SUFFICES ASSUME NEW x \in Readers, x # r PROVE ReaderOK(x)'
      BY <2>1, IdleReaderOK
    <3> QED BY <2>1 DEF IInv, ReaderOK, PageOK
  <2>3. \A e \in pages' : PageOK(e.ver, e.age, e.straddled)'
    <3>1. PageOK(reader[r].ver, reader[r].age, reader[r].straddled)
      BY <1>0, <1>7 DEF Store, ReaderOK
    <3>2. \A e \in pages' :
              \/ e \in pages
              \/ e.ver = reader[r].ver /\ e.age = reader[r].age
                 /\ e.straddled = reader[r].straddled
      BY <1>7 DEF Store
    <3> QED BY <2>1, <3>1, <3>2 DEF IInv, PageOK
  <2> QED
    BY <2>1, <2>2, <2>3 DEF IInv, HistoryOK, VersionOK, WriterOK, dbVars
<1>8. CASE CacheDown(r)
  <2>1. CASE reader[r].phase = "get"
    <3>1. reader' = [reader EXCEPT ![r].step = "query"]
      BY <1>8, <2>1 DEF CacheDown
    <3>2. ReaderOK(r)'
      BY <1>0, <1>8, <3>1 DEF CacheDown, ReaderOK, ReaderState, redisVars
    <3> QED BY <1>0, <1>8, <3>1, <3>2, ReaderOnly DEF CacheDown
  <2>2. CASE reader[r].phase # "get"
    <3>1. reader' = [reader EXCEPT ![r] = IdleReader]
      BY <1>8, <2>2 DEF CacheDown
    <3> QED BY <1>0, <1>8, <3>1, IdleReaderOK, ReaderOnly DEF CacheDown
  <2> QED BY <2>1, <2>2
<1>9. CASE Abandon(r)
  BY <1>0, <1>9, IdleReaderOK, ReaderOnly DEF Abandon
<1> QED
  BY <1>1, <1>2, <1>3, <1>4, <1>5, <1>6, <1>7, <1>8, <1>9 DEF ReaderStep

\* A step that only changes one writer needs to be looked at for it alone.
LEMMA WriterOnly ==
    ASSUME IInv, TypeOK', NEW w \in Writers,
           UNCHANGED <<dbVars, invalidated, redisVars, reader>>,
           \A x \in Writers : x # w => writer'[x] = writer[x],
           WriterOK(w)'
    PROVE  IInv'
BY DEF IInv, HistoryOK, VersionOK, WriterOK, PageOK, ReaderOK, dbVars, redisVars

LEMMA IdleWriterOK ==
    ASSUME TypeOK', NEW w \in Writers, writer'[w].step # "add", writer'[w].change = 0
    PROVE  WriterOK(w)'
BY DEF WriterOK, TypeOK

\* An invalidation that sets the next version preserves the invariant.
LEMMA InvalidateOK ==
    ASSUME IInv, TypeOK', NEW w \in Writers, Install(Len(since) + 1), TookEffect(w),
           UNCHANGED <<dbVars, pages, reader>>
    PROVE  IInv'
<1>1. invalidated' <= signalled /\ invalidated <= invalidated'
  BY DEF IInv, TypeOK, HistoryOK, WriterOK, TookEffect, WriterState
<1>2. /\ HistoryOK' /\ VersionOK' /\ version' # NoVersion /\ since'[version'] = signalled
      /\ \A u \in 1 .. Len(since) : since'[u] = since[u]
      /\ Len(since) <= Len(since')
      /\ \A e \in pages' : PageOK(e.ver, e.age, e.straddled)'
  BY <1>1, InstallOK
<1>3. \A r \in Readers : ReaderOK(r)'
  BY <1>1, <1>2, ReaderKept
<1>4. \A x \in Writers : WriterOK(x)'
  <2> SUFFICES ASSUME NEW x \in Writers PROVE WriterOK(x)'
    OBVIOUS
  <2>1. CASE x = w
    BY <2>1, IdleWriterOK DEF TookEffect, IdleWriter, IInv, TypeOK
  <2>2. CASE x # w
    BY <2>2, <1>2, WriterKept DEF TookEffect, IInv, TypeOK, dbVars
  <2> QED BY <2>1, <2>2
<1> QED
  BY <1>2, <1>3, <1>4 DEF IInv

\* Every step of a writing request preserves the invariant.
LEMMA WriterInv ==
    ASSUME IInv, TypeOK', NEW w \in Writers, WriterStep(w)
    PROVE  IInv'
<1> USE DEF WriterAt
<1>0. writer \in [Writers -> WriterState] /\ WriterOK(w) /\ writer[w] \in WriterState
  BY DEF IInv, TypeOK
<1>1. CASE Save(w)
  BY <1>0, <1>1, IdleWriterOK, WriterOnly DEF Save
<1>2. CASE Commit(w)
  <2>1. /\ signalled' = db + 1 /\ db' = db + 1 /\ UNCHANGED <<invalidated, redisVars, reader>>
        /\ signalled <= signalled' /\ signalled \in Nat /\ signalled' \in Nat
    BY <1>2 DEF Commit, IInv, HistoryOK, TypeOK
  <2>2. HistoryOK'
    BY <2>1 DEF IInv, HistoryOK, TypeOK
  <2>3. VersionOK'
    <3>1. \A v \in 1 .. Len(since) : since[v] \in Nat /\ since[v] <= signalled
      BY DEF IInv, VersionOK, TypeOK
    <3> QED BY <2>1, <3>1 DEF IInv, VersionOK, redisVars
  <2>4. \A x \in Writers : WriterOK(x)'
    <3> SUFFICES ASSUME NEW x \in Writers PROVE WriterOK(x)'
      OBVIOUS
    <3>1. CASE x = w
      BY <1>0, <1>2, <2>1, <3>1 DEF Commit, WriterOK
    <3>2. CASE x # w
      <4>1. writer'[x] = writer[x] /\ writer[x].change \in Nat
        BY <1>0, <1>2, <3>2 DEF Commit, WriterState
      <4> QED BY <2>1, <4>1 DEF IInv, WriterOK, redisVars
    <3> QED BY <3>1, <3>2
  <2>5. \A e \in pages' : PageOK(e.ver, e.age, e.straddled)'
    BY <2>1 DEF IInv, PageOK, redisVars
  <2>6. \A r \in Readers : ReaderOK(r)'
    BY <2>1 DEF IInv, ReaderOK, PageOK, redisVars
  <2> QED BY <2>2, <2>3, <2>4, <2>5, <2>6 DEF IInv
<1>3. CASE Rollback(w)
  BY <1>0, <1>3, IdleWriterOK, WriterOnly DEF Rollback, IdleWriter
<1>4. CASE Incr(w)
  <2>1. CASE version = NoVersion
    <3>1. /\ writer' = [writer EXCEPT ![w].step = "add"]
          /\ UNCHANGED <<dbVars, invalidated, redisVars, reader>>
      BY <1>4, <2>1 DEF Incr, redisVars
    <3>2. WriterOK(w)'
      BY <1>0, <2>1, <3>1 DEF WriterOK, WriterState, dbVars, redisVars
    <3> QED BY <1>0, <3>1, <3>2, WriterOnly
  <2>2. CASE version # NoVersion
    <3>1. version + 1 = Len(since) + 1
      BY <2>2 DEF IInv, VersionOK
    <3>2. Install(Len(since) + 1) /\ TookEffect(w)
      BY <1>4, <2>2, <3>1 DEF Incr
    <3> QED BY <1>4, <3>2, InvalidateOK DEF Incr
  <2> QED BY <2>1, <2>2
<1>5. CASE Add(w)
  <2>1. CASE version = NoVersion
    <3>1. Install(Len(since) + 1) /\ TookEffect(w)
      BY <1>5, <2>1 DEF Add, CacheAdd, InitialVersion
    <3> QED BY <1>5, <3>1, InvalidateOK DEF Add
  <2>2. CASE version # NoVersion
    \* Someone else set a version after the change was committed: it covers it.
    <3>1. UNCHANGED <<dbVars, redisVars, reader>> /\ TookEffect(w)
      BY <1>5, <2>2 DEF Add, CacheAdd, redisVars
    <3>2. writer[w].change <= signalled /\ writer[w].change <= since[version]
      BY <1>0, <1>5, <2>2 DEF Add, WriterOK
    <3>3. /\ invalidated <= invalidated' /\ invalidated' <= signalled
          /\ invalidated' <= since[version]
      BY <3>1, <3>2, <1>0, <2>2 DEF TookEffect, IInv, HistoryOK, VersionOK, TypeOK, WriterState
    <3>4. HistoryOK' /\ VersionOK'
      BY <3>1, <3>3 DEF IInv, HistoryOK, VersionOK, dbVars, redisVars
    <3>5. \A x \in Writers : WriterOK(x)'
      <4> SUFFICES ASSUME NEW x \in Writers PROVE WriterOK(x)'
        OBVIOUS
      <4>1. CASE x = w
        BY <1>0, <3>1, <4>1, IdleWriterOK DEF TookEffect, IdleWriter, IInv
      <4>2. CASE x # w
        BY <1>0, <3>1, <4>2 DEF IInv, WriterOK, TookEffect, dbVars, redisVars
      <4> QED BY <4>1, <4>2
    <3>6. \A r \in Readers : ReaderOK(r)'
      BY <3>1, <3>3, ReaderKept DEF redisVars, IInv, TypeOK
    <3>7. \A e \in pages' : PageOK(e.ver, e.age, e.straddled)'
      BY <3>1 DEF IInv, PageOK, redisVars
    <3> QED BY <3>4, <3>5, <3>6, <3>7 DEF IInv
  <2> QED BY <2>1, <2>2
<1>6. CASE InvalidateDown(w)
  BY <1>0, <1>6, IdleWriterOK, WriterOnly DEF InvalidateDown, IdleWriter
<1>7. CASE AddDown(w)
  BY <1>0, <1>7, IdleWriterOK, WriterOnly DEF AddDown, IdleWriter
<1>8. CASE CrashWriter(w)
  BY <1>0, <1>8, IdleWriterOK, WriterOnly DEF CrashWriter, IdleWriter
<1> QED
  BY <1>1, <1>2, <1>3, <1>4, <1>5, <1>6, <1>7, <1>8 DEF WriterStep

LEMMA InvStep ==
    ASSUME IInv, [Next]_vars
    PROVE  IInv'
<1>0. TypeOK /\ TypeOK'
  BY TypeStep DEF IInv
<1>1. CASE \E r \in Readers, q \in Queries : Start(r, q)
  <2> PICK r \in Readers, q \in Queries : Start(r, q)
    BY <1>1
  <2>1. /\ reader'[r].start = invalidated /\ reader'[r].ver = NoVersion
        /\ reader'[r].step = "version"
        /\ \A x \in Readers : x # r => reader'[x] = reader[x]
    BY <1>0 DEF Start, IdleReader, TypeOK
  <2>2. ReaderOK(r)'
    BY <1>0, <2>1 DEF Start, ReaderOK, TypeOK, NoVersion
  <2> QED BY <1>0, <2>1, <2>2, ReaderOnly DEF Start
<1>2. CASE \E r \in Readers : ReaderStep(r)
  BY <1>0, <1>2, ReaderInv
<1>3. CASE \E w \in Writers : WriterStep(w)
  BY <1>0, <1>3, WriterInv
<1>4. CASE Environment
  <2> USE <1>0 DEF IInv, dbVars, redisVars
  <2>1. CASE SilentChange
    BY <2>1 DEF SilentChange, HistoryOK, VersionOK, WriterOK, PageOK, ReaderOK, TypeOK
  <2>2. CASE Evict
    BY <2>2 DEF Evict, HistoryOK, VersionOK, WriterOK, PageOK, ReaderOK
  <2>3. CASE Outage
    BY <2>3 DEF Outage, HistoryOK, VersionOK, WriterOK, PageOK, ReaderOK
  <2>4. CASE \E v \in Versions, q \in Queries : Expire(v, q)
    BY <2>4 DEF Expire, HistoryOK, VersionOK, WriterOK, PageOK, ReaderOK
  <2> QED BY <1>4, <2>1, <2>2, <2>3, <2>4 DEF Environment
<1>5. CASE UNCHANGED vars
  BY <1>0, <1>5 DEF vars, IInv, HistoryOK, VersionOK, WriterOK, PageOK, ReaderOK
<1> QED
  BY <1>1, <1>2, <1>3, <1>4, <1>5 DEF Next

LEMMA InvInit ==
    ASSUME Init
    PROVE  IInv
<1>1. TypeOK
  BY IdleTypes DEF Init, TypeOK, NoVersion
<1>2. HistoryOK /\ VersionOK
  BY DEF Init, HistoryOK, VersionOK
<1>3. \A w \in Writers : WriterOK(w)
  BY DEF Init, WriterOK, IdleWriter
<1>4. \A r \in Readers : ReaderOK(r)
  <2>1. Len(since) = 0 /\ invalidated = 0
    BY DEF Init
  <2>2. \A r \in Readers :
            reader[r].step = "idle" /\ reader[r].start = 0 /\ reader[r].ver = 0
    BY DEF Init, IdleReader, NoVersion
  <2> SUFFICES ASSUME NEW r \in Readers PROVE ReaderOK(r)
    OBVIOUS
  <2>3. reader[r].start <= invalidated /\ reader[r].ver <= Len(since)
    BY <2>1, <2>2
  <2>4. reader[r].step # "key" /\ reader[r].step # "hit"
    BY <2>2
  <2> QED BY <2>3, <2>4 DEF ReaderOK
<1> QED
  BY <1>1, <1>2, <1>3, <1>4 DEF IInv, Init

LEMMA Invariant == Spec => []IInv
<1>1. Init => IInv
  BY InvInit
<1>2. IInv /\ [Next]_vars => IInv'
  BY InvStep
<1> QED
  BY <1>1, <1>2, PTL DEF Spec

\* No list or map request is answered from a page older than what was
\* invalidated before it came, but for pages already stale when stored and pages
\* under "vNone" (views.py list and map; cache.py get, set, invalidate).
THEOREM CachedAnswersAreFresh == Spec => []HitIsFresh
<1>1. IInv => HitIsFresh
  BY DEF IInv, ReaderOK, HitIsFresh
<1> QED
  BY <1>1, Invariant, PTL

\* No step, whichever fault it follows, installs a version that already has
\* pages (cache.py, _initial_version: stale pages are not resurrected).
THEOREM VersionsStartEmpty == Spec => NewVersionIsEmpty
<1>1. IInv /\ [Next]_vars =>
          [version' \notin {version, NoVersion} => \A e \in pages' : e.ver # version']_vars
  <2> SUFFICES ASSUME IInv, Next, version' \notin {version, NoVersion}
               PROVE  \A e \in pages' : e.ver # version'
    OBVIOUS
  <2>1. version' = Len(since) + 1 /\ pages' = pages
    <3>1. CASE \E r \in Readers : ReaderStep(r)
      BY <3>1 DEF ReaderStep, ReadVersion, AddVersion, ReadVersionAgain, Hit, Miss, Query, Store,
                  CacheDown, Abandon, CacheAdd, Install, InitialVersion, redisVars
    <3>2. CASE \E w \in Writers : WriterStep(w)
      <4> PICK w \in Writers : WriterStep(w)
        BY <3>2
      <4>1. version # NoVersion => version = Len(since)
        BY DEF IInv, VersionOK
      <4> QED
        BY <4>1 DEF WriterStep, Save, Commit, Rollback, Incr, Add, InvalidateDown, AddDown,
                    CrashWriter, CacheAdd, Install, InitialVersion, redisVars
    <3>3. CASE (\E r \in Readers, q \in Queries : Start(r, q)) \/ Environment
      BY <3>3 DEF Start, Environment, SilentChange, Evict, Outage, Expire, redisVars
    <3> QED BY <3>1, <3>2, <3>3 DEF Next
  <2>2. \A e \in pages : e.ver <= Len(since) /\ e.ver \in Nat
    BY DEF IInv, PageOK, TypeOK, Entry
  <2>3. Len(since) \in Nat
    BY DEF IInv, TypeOK
  <2> QED BY <2>1, <2>2, <2>3
<1> QED
  BY <1>1, Invariant, PTL DEF Spec, NewVersionIsEmpty

=============================================================================
