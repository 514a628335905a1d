-------------------------- MODULE ResourceCacheProofs --------------------------
(***************************************************************************)
(* Proofs about ResourceCache, for any number of requests, any TTL and any *)
(* length of time.  Everything rests on one inductive invariant: who is    *)
(* inside resourceCache.get, how the times a request reads are ordered,    *)
(* and that what is cached is never newer than the vault nor older than    *)
(* what was last answered.                                                 *)
(***************************************************************************)
EXTENDS ResourceCache, TLAPS

Inside  == {"stat", "walk", "read", "fill"}
Statted == {"walk", "read", "fill"}
Listed  == {"read", "fill"}

\* The list of root entries a walk saw is the current one, unless the root has
\* changed in the tick of the walk or later.
RootIsKnown(data) == data.root = rootVer \/ data.at <= rootMtime

\* No data is newer than the vault.
NotAhead(data) == data.root <= rootVer /\ data.deep <= deepVer /\ data.at <= time

\* The answer of one walk does not go back behind that of another.
Follows(data, older) ==
    /\ older.root <= data.root
    /\ older.ok /\ data.ok => older.deep <= data.deep

RequestInv(c) ==
    /\ pc[c] \in Inside <=> mu = c
    /\ pc[c] \in Inside => now[c] <= time
    /\ pc[c] # "idle" => asked[c].root <= rootVer /\ asked[c].deep <= deepVer
    /\ pc[c] \in Statted => stat[c] <= time
    /\ pc[c] = "read" => ~ walk[c].ok
    /\ pc[c] \in Listed =>
          /\ now[c] <= walk[c].at /\ stat[c] <= walk[c].at
          /\ NotAhead(walk[c]) /\ RootIsKnown(walk[c])
          /\ asked[c].root <= walk[c].root
          /\ walk[c].ok => asked[c].deep <= walk[c].deep
          /\ cache.data # NoData => Follows(walk[c], cache.data)

CacheInv ==
    cache.data # NoData =>
        /\ cache.computed <= cache.data.at /\ cache.rootMtime <= cache.data.at
        /\ NotAhead(cache.data) /\ RootIsKnown(cache.data)

ServedInv ==
    /\ served = NoData <=> cache.data = NoData
    /\ served # NoData => served.data = cache.data

Inv ==
    /\ TypeOK
    /\ rootMtime <= time
    /\ CacheInv /\ ServedInv
    /\ \A c \in Reader : RequestInv(c)
    /\ StalenessIsBounded /\ RecomputedIsCurrent

------------------------------------------------------------------------------
\* The initial states satisfy the invariant.
LEMMA InitInv == Init => Inv
<1> SUFFICES ASSUME Init PROVE Inv
  OBVIOUS
<1>1. TypeOK
  <2>1. Unasked \in Seen /\ Nothing \in Data
    BY CacheConstants DEF Unasked, Nothing, Seen, Data
  <2> QED  BY <2>1, CacheConstants DEF Init, TypeOK, Mtime, NoTime
<1>2. \A c \in Reader : RequestInv(c)
  BY CacheConstants DEF Init, RequestInv, Inside, Statted, Listed
<1> QED
  BY <1>1, <1>2 DEF Init, Inv, CacheInv, ServedInv, StalenessIsBounded, RecomputedIsCurrent

------------------------------------------------------------------------------
\* The changes of the vault make data older, never newer than the vault.

LEMMA TickKeepsInv == Inv /\ Tick => Inv'
<1> SUFFICES ASSUME Inv, Tick PROVE Inv'
  OBVIOUS
<1>1. TypeOK'
  BY CacheConstants DEF Inv, TypeOK, Tick
<1>2. \A c \in Reader : RequestInv(c)'
  BY CacheConstants DEF Inv, TypeOK, Tick, RequestInv, Inside, Statted, Listed, NotAhead,
     RootIsKnown, Follows, Data, Mtime, NoTime, Seen
<1> QED
  BY <1>1, <1>2 DEF Inv, Tick, TypeOK, CacheInv, ServedInv, StalenessIsBounded,
     RecomputedIsCurrent, NotAhead, RootIsKnown, Data, Mtime, NoTime

LEMMA ChangeRootKeepsInv == Inv /\ ChangeRoot => Inv'
<1> SUFFICES ASSUME Inv, ChangeRoot PROVE Inv'
  OBVIOUS
<1>1. TypeOK'
  BY CacheConstants DEF Inv, TypeOK, ChangeRoot
<1>2. \A c \in Reader : RequestInv(c)'
  BY CacheConstants DEF Inv, TypeOK, ChangeRoot, RequestInv, Inside, Statted, Listed, NotAhead,
     RootIsKnown, Follows, Data, Mtime, NoTime, Seen
<1> QED
  BY <1>1, <1>2 DEF Inv, ChangeRoot, TypeOK, CacheInv, ServedInv, StalenessIsBounded,
     RecomputedIsCurrent, NotAhead, RootIsKnown, Data, Mtime, NoTime

LEMMA ChangeDeepKeepsInv == Inv /\ ChangeDeep => Inv'
<1> SUFFICES ASSUME Inv, ChangeDeep PROVE Inv'
  OBVIOUS
<1>1. TypeOK'
  BY CacheConstants DEF Inv, TypeOK, ChangeDeep
<1>2. \A c \in Reader : RequestInv(c)'
  BY CacheConstants DEF Inv, TypeOK, ChangeDeep, RequestInv, Inside, Statted, Listed, NotAhead,
     RootIsKnown, Follows, Data, Mtime, NoTime, Seen
<1> QED
  BY <1>1, <1>2 DEF Inv, ChangeDeep, TypeOK, CacheInv, ServedInv, StalenessIsBounded,
     RecomputedIsCurrent, NotAhead, RootIsKnown, Data, Mtime, NoTime

------------------------------------------------------------------------------
\* The steps of resourceCache.get.  Only the request that holds the mutex moves
\* beyond its Lock, so the cache does not change under it.

LEMMA RequestKeepsInv == ASSUME NEW d \in Reader, Inv, Request(d) PROVE Inv'
<1>1. TypeOK'
  BY CacheConstants DEF Inv, TypeOK, Request, GoTo, Data, Seen, Mtime
<1>2. \A c \in Reader : RequestInv(c)'
  BY CacheConstants DEF Inv, TypeOK, Request, GoTo, RequestInv, Inside, Statted, Listed,
     NotAhead, RootIsKnown, Follows, CacheInv, Data, Mtime, NoTime, Seen
<1> QED
  BY <1>1, <1>2 DEF Inv, Request, CacheInv, ServedInv, StalenessIsBounded,
     RecomputedIsCurrent, NotAhead, RootIsKnown

LEMMA LockKeepsInv == ASSUME NEW d \in Reader, Inv, Lock(d) PROVE Inv'
<1>1. TypeOK'
  BY CacheConstants DEF Inv, TypeOK, Lock, GoTo, Data, Seen, Mtime
<1>2. \A c \in Reader : RequestInv(c)'
  BY CacheConstants DEF Inv, TypeOK, Lock, GoTo, RequestInv, Inside, Statted, Listed,
     NotAhead, RootIsKnown, Follows, CacheInv, Data, Mtime, NoTime, Seen
<1> QED
  BY <1>1, <1>2 DEF Inv, Lock, CacheInv, ServedInv, StalenessIsBounded,
     RecomputedIsCurrent, NotAhead, RootIsKnown

LEMMA ListRootKeepsInv == ASSUME NEW d \in Reader, Inv, ListRoot(d) PROVE Inv'
<1>1. TypeOK'
  BY CacheConstants DEF Inv, TypeOK, ListRoot, GoTo, Data, Seen, Mtime
<1>2. \A c \in Reader : RequestInv(c)'
  BY CacheConstants DEF Inv, TypeOK, ListRoot, GoTo, RequestInv, Inside, Statted, Listed,
     NotAhead, RootIsKnown, Follows, CacheInv, Data, Mtime, NoTime, Seen
<1> QED
  BY <1>1, <1>2 DEF Inv, ListRoot, CacheInv, ServedInv, StalenessIsBounded,
     RecomputedIsCurrent, NotAhead, RootIsKnown

LEMMA ReadNotesKeepsInv == ASSUME NEW d \in Reader, Inv, ReadNotes(d) PROVE Inv'
<1>1. TypeOK'
  BY CacheConstants DEF Inv, TypeOK, ReadNotes, GoTo, Data, Seen, Mtime
<1>2. \A c \in Reader : RequestInv(c)'
  BY CacheConstants DEF Inv, TypeOK, ReadNotes, GoTo, RequestInv, Inside, Statted, Listed,
     NotAhead, RootIsKnown, Follows, CacheInv, Data, Mtime, NoTime, Seen
<1> QED
  BY <1>1, <1>2 DEF Inv, ReadNotes, CacheInv, ServedInv, StalenessIsBounded,
     RecomputedIsCurrent, NotAhead, RootIsKnown

LEMMA WalkFailsKeepsInv == ASSUME NEW d \in Reader, Inv, WalkFails(d) PROVE Inv'
<1>1. TypeOK'
  BY CacheConstants DEF Inv, TypeOK, WalkFails, GoTo, Data, Seen, Mtime
<1>2. \A c \in Reader : RequestInv(c)'
  BY CacheConstants DEF Inv, TypeOK, WalkFails, GoTo, RequestInv, Inside, Statted, Listed,
     NotAhead, RootIsKnown, Follows, CacheInv, Data, Mtime, NoTime, Seen
<1> QED
  BY <1>1, <1>2 DEF Inv, WalkFails, CacheInv, ServedInv, StalenessIsBounded,
     RecomputedIsCurrent, NotAhead, RootIsKnown

\* An answer from the cache: the mutex is given back, the cache stays.
LEMMA HitKeepsInv == ASSUME NEW d \in Reader, Inv, pc[d] = "stat",
                            NEW mtime \in {rootMtime, NoTime}, Fresh(d, mtime),
                            Answer(d, cache.data, TRUE),
                            UNCHANGED <<time, rootVer, rootMtime, deepVer, cache>>
                     PROVE Inv'
<1>1. cache.data \in Data /\ served'.data = cache.data /\ served'.now = now[d]
      /\ served'.hit = TRUE /\ served' \in Served
  BY DEF Inv, TypeOK, Fresh, Answer, Served
<1>2. TypeOK'
  BY <1>1, CacheConstants DEF Inv, TypeOK, Answer, Forget, GoTo, Data, Seen, Mtime, Unasked, Nothing
<1>3. \A c \in Reader : RequestInv(c)'
  BY CacheConstants DEF Inv, TypeOK, Answer, Forget, GoTo, RequestInv, Inside, Statted,
     Listed, NotAhead, RootIsKnown
<1>4. StalenessIsBounded'
  BY <1>1, CacheConstants DEF Inv, TypeOK, Fresh, CacheInv, StalenessIsBounded, Data
<1>5. CacheInv' /\ ServedInv' /\ RecomputedIsCurrent'
  BY <1>1, CacheConstants DEF Inv, CacheInv, ServedInv, RecomputedIsCurrent, NotAhead,
     RootIsKnown
<1> QED
  BY <1>2, <1>3, <1>4, <1>5 DEF Inv

LEMMA LookupKeepsInv == ASSUME NEW d \in Reader, Inv, Lookup(d) PROVE Inv'
<1>1. PICK mtime \in {rootMtime, NoTime} : Lookup(d)!2!(mtime)
  BY DEF Lookup
<1>2. CASE Fresh(d, mtime)
  BY <1>1, <1>2, HitKeepsInv DEF Lookup
<1>3. CASE ~ Fresh(d, mtime)
  <2>1. TypeOK'
    BY <1>1, <1>3, CacheConstants DEF Inv, TypeOK, Lookup, GoTo, Mtime
  <2>2. \A c \in Reader : RequestInv(c)'
    BY <1>1, <1>3, CacheConstants DEF Inv, TypeOK, Lookup, GoTo, RequestInv, Inside,
       Statted, Listed, NotAhead, RootIsKnown, Mtime, NoTime
  <2> QED
    BY <1>1, <1>3, <2>1, <2>2 DEF Inv, Lookup, CacheInv, ServedInv, StalenessIsBounded,
       RecomputedIsCurrent, NotAhead, RootIsKnown
<1> QED  BY <1>2, <1>3

\* The result of a walk replaces what was cached: no other request has filled the
\* cache since the walk began, because it would have had to hold the mutex.
LEMMA FillKeepsInv == ASSUME NEW d \in Reader, Inv, Fill(d) PROVE Inv'
<1>1. /\ walk[d] \in Data /\ served'.data = walk[d] /\ served'.now = now[d]
      /\ served'.asked = asked[d] /\ served' \in Served /\ cache'.data = walk[d]
      /\ cache'.rootMtime = stat[d] /\ cache'.computed = now[d]
  BY DEF Inv, TypeOK, Fill, Answer, Served
<1>2. TypeOK'
  BY <1>1, CacheConstants DEF Inv, TypeOK, Fill, Answer, Forget, GoTo, Data, Seen, Mtime,
     Unasked, Nothing
<1>3. \A c \in Reader : RequestInv(c)'
  BY CacheConstants DEF Inv, TypeOK, Fill, Answer, Forget, GoTo, RequestInv, Inside,
     Statted, Listed, NotAhead, RootIsKnown
<1>4. StalenessIsBounded' /\ RecomputedIsCurrent'
  BY <1>1, CacheConstants DEF Inv, TypeOK, Fill, RequestInv, Listed, StalenessIsBounded,
     RecomputedIsCurrent, Data
<1>5. CacheInv' /\ ServedInv' /\ (rootMtime <= time)'
  BY <1>1, CacheConstants DEF Inv, Fill, RequestInv, Listed, CacheInv, ServedInv,
     NotAhead, RootIsKnown
<1> QED
  BY <1>2, <1>3, <1>4, <1>5 DEF Inv

------------------------------------------------------------------------------
\* The invariant holds in every state of every behaviour.
THEOREM Invariance == Spec => []Inv
<1>1. Inv /\ [Next]_vars => Inv'
  <2> SUFFICES ASSUME Inv, [Next]_vars PROVE Inv'
    OBVIOUS
  <2>1. CASE UNCHANGED vars
    BY <2>1 DEF vars, Inv, TypeOK, CacheInv, ServedInv, RequestInv, StalenessIsBounded,
       RecomputedIsCurrent, NotAhead, RootIsKnown, Follows
  <2>2. CASE Tick \/ ChangeRoot \/ ChangeDeep
    BY <2>2, TickKeepsInv, ChangeRootKeepsInv, ChangeDeepKeepsInv
  <2>3. ASSUME NEW d \in Reader, Request(d) \/ Step(d) \/ WalkFails(d) PROVE Inv'
    BY <2>3, RequestKeepsInv, LockKeepsInv, LookupKeepsInv, ListRootKeepsInv,
       ReadNotesKeepsInv, WalkFailsKeepsInv, FillKeepsInv DEF Step
  <2> QED  BY <2>1, <2>2, <2>3 DEF Next
<1> QED  BY InitInv, <1>1, PTL DEF Spec

\* The state of the cache is well-formed: one holder of the mutex at most, times
\* and versions in range.
THEOREM TypeCorrect == Spec => []TypeOK
<1>1. Inv => TypeOK  BY DEF Inv
<1> QED  BY Invariance, <1>1, PTL

\* No answer rests on a walk that began TTL or more before the request took the
\* lock, however long walks last and however many requests queue up.
THEOREM AnswersAreFreshEnough == Spec => []StalenessIsBounded
<1>1. Inv => StalenessIsBounded  BY DEF Inv
<1> QED  BY Invariance, <1>1, PTL

\* A request that recomputes sees every change made before it was sent.
THEOREM WalksAreCurrent == Spec => []RecomputedIsCurrent
<1>1. Inv => RecomputedIsCurrent  BY DEF Inv
<1> QED  BY Invariance, <1>1, PTL

\* Both together: what is served is never older than the cache promises.
THEOREM AnswersAreAlwaysFresh == Spec => []AnswersAreFresh
<1>1. Inv => AnswersAreFresh  BY DEF Inv, AnswersAreFresh
<1> QED  BY Invariance, <1>1, PTL

------------------------------------------------------------------------------
ServesCached(d) ==
    /\ pc[d] = "stat"
    /\ served'.hit = TRUE /\ served'.data = cache.data /\ cache.data # NoData
    /\ cache.rootMtime \in {rootMtime, NoTime}

ServesWalk(d) == pc[d] = "fill" /\ served'.hit = FALSE /\ served'.data = walk[d]

\* Only an answer changes what was served: a hit or the end of a walk.
LEMMA AnswersServe ==
    ASSUME Inv, Next, served' # served
    PROVE  \E d \in Reader : ServesCached(d) \/ ServesWalk(d)
<1>1. PICK d \in Reader : Lookup(d) \/ Fill(d)
  BY DEF Next, Tick, ChangeRoot, ChangeDeep, Request, Step, Lock, ListRoot, ReadNotes, WalkFails
<1>2. CASE Lookup(d)
  BY <1>2 DEF Lookup, Fresh, Answer, ServesCached
<1>3. CASE Fill(d)
  BY <1>3 DEF Fill, Answer, ServesWalk
<1> QED  BY <1>1, <1>2, <1>3

\* A change of the root directory after the tick of the walk is never hidden by
\* the cache, also when it happened before the walk was stored.
THEOREM RootChangesNoticed == Spec => RootChangesAreNoticed
<1> DEFINE Noticed ==
      served' # NoData =>
          (served'.hit /\ cache.rootMtime # NoTime /\ served'.data.root # rootVer
              => served'.data.at = rootMtime)
<1>1. Inv /\ [Next]_vars => [Noticed]_served
  <2> SUFFICES ASSUME Inv, Next, served' # served PROVE Noticed
    BY DEF vars
  <2>1. PICK d \in Reader : ServesCached(d) \/ ServesWalk(d)
    BY AnswersServe
  <2>2. CASE ServesCached(d)
    <3>1. cache.data \in Data
      BY <2>2 DEF ServesCached, Inv, TypeOK
    <3>2. /\ cache.rootMtime <= cache.data.at
          /\ cache.data.root = rootVer \/ cache.data.at <= rootMtime
      BY <2>2 DEF ServesCached, Inv, CacheInv, RootIsKnown
    <3>3. cache.rootMtime # NoTime /\ cache.data.root # rootVer => cache.data.at = rootMtime
      <4>1. cache.data.at \in Int /\ rootMtime \in Int
        BY <3>1 DEF Data, Inv, TypeOK
      <4> QED  BY <2>2, <3>2, <4>1 DEF ServesCached
    <3> QED  BY <2>2, <3>3 DEF ServesCached
  <2>3. CASE ServesWalk(d)
    BY <2>3 DEF ServesWalk
  <2> QED  BY <2>1, <2>2, <2>3
<1> QED  BY Invariance, <1>1, PTL DEF Spec, RootChangesAreNoticed

\* However slow a walk is, its answer is not older than the one before it.
THEOREM NoAnswerGoesBack == Spec => AnswersNeverGoBack
<1> DEFINE Forward ==
      served # NoData /\ served' # NoData =>
          /\ served'.data.root >= served.data.root
          /\ served.data.ok /\ served'.data.ok => served'.data.deep >= served.data.deep
<1>1. Inv /\ [Next]_vars => [Forward]_served
  <2> SUFFICES ASSUME Inv, Next, served' # served, served # NoData PROVE Forward
    BY DEF vars
  <2>1. PICK d \in Reader : ServesCached(d) \/ ServesWalk(d)
    BY AnswersServe
  <2>2. /\ served.data = cache.data /\ cache.data \in Data
    BY DEF Inv, ServedInv, TypeOK
  <2>3. CASE ServesCached(d)
    BY <2>2, <2>3 DEF ServesCached, Data
  <2>4. CASE ServesWalk(d)
    <3>1. Follows(walk[d], cache.data) /\ walk[d] \in Data
      BY <2>2, <2>4, CacheConstants DEF ServesWalk, Inv, TypeOK, RequestInv, Listed
    <3> QED
      BY <2>2, <2>4, <3>1 DEF ServesWalk, Follows, Data
  <2> QED  BY <2>1, <2>3, <2>4
<1> QED  BY Invariance, <1>1, PTL DEF Spec, AnswersNeverGoBack
===============================================================================
