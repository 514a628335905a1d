----------------------------- MODULE ResourceCache -----------------------------
(***************************************************************************)
(* The cached vault resources (internal/resources): obsidian://vault/stats *)
(* and obsidian://vault/tags each keep the answer of their last walk over  *)
(* the vault and serve it again while it is younger than the TTL and the   *)
(* modification time of the vault's root directory has not changed.        *)
(*                                                                         *)
(* The vault is abstracted to two versions: of the list of entries in the  *)
(* root directory, the only thing whose change moves the root's mtime, and *)
(* of everything deeper (the text of the notes, the subdirectories).  The  *)
(* mtime is as coarse as the clock: all changes in one tick share it.      *)
(***************************************************************************)
EXTENDS Integers

CONSTANTS
    Reader,         \* concurrent resources/read requests, one goroutine each
    TTL,            \* resourceCacheTTL, in ticks
    MaxTime,        \* bound on the clock
    MaxChanges,     \* bound on the changes of the vault, of either kind
    Free,           \* value of mu when the mutex is not held
    NoData          \* nothing cached, nothing served

\* What a walk collects: the versions it saw, when it listed the root and whether
\* it got to the end.  A failed walk is rendered as an error text.
Data == [root : 0..MaxChanges, deep : 0..MaxChanges, at : 0..MaxTime, ok : BOOLEAN]

\* The zero time.Time, which stands for the mtime of a root that os.Stat cannot
\* find: a vault that is unmounted, say.
NoTime == -1
Mtime == 0..MaxTime \cup {NoTime}

Seen == [root : 0..MaxChanges, deep : 0..MaxChanges]

\* An answer, with the time the request read, what the vault was when it was sent,
\* and whether it came from the cache.
Served == [data : Data, now : 0..MaxTime, asked : Seen, hit : BOOLEAN]

ASSUME CacheConstants ==
    /\ TTL \in Nat \ {0} /\ MaxTime \in Nat /\ MaxChanges \in Nat
    /\ Free \notin Reader /\ NoData \notin Data \cup Served

VARIABLES
    time,           \* the clock
    rootVer,        \* version of the root directory's entries
    rootMtime,      \* the tick in which they last changed
    deepVer,        \* version of everything below
    mu,             \* the holder of resourceCache.mu, or Free
    cache,          \* the fields of resourceCache: data, rootMtime, computed
    pc,             \* where each request is
    now,            \* the time it read under the lock
    stat,           \* the root mtime it read under the lock
    asked,          \* the versions of the vault when it was sent (history)
    walk,           \* what its walk has collected so far
    served          \* the last answer given (history)

vars == <<time, rootVer, rootMtime, deepVer, mu, cache, pc, now, stat, asked, walk, served>>

Unasked == [root |-> 0, deep |-> 0]
Nothing == [root |-> 0, deep |-> 0, at |-> 0, ok |-> FALSE]

Init ==
    /\ time = 0
    /\ rootVer = 0 /\ rootMtime = 0 /\ deepVer = 0
    /\ mu = Free
    /\ cache = [data |-> NoData, rootMtime |-> 0, computed |-> 0]
    /\ pc = [c \in Reader |-> "idle"]
    /\ now = [c \in Reader |-> 0]
    /\ stat = [c \in Reader |-> NoTime]
    /\ asked = [c \in Reader |-> Unasked]
    /\ walk = [c \in Reader |-> Nothing]
    /\ served = NoData

------------------------------------------------------------------------------
\* The vault, changed by tool calls, by Obsidian or by a synchronisation

Tick ==
    /\ time < MaxTime
    /\ time' = time + 1
    /\ UNCHANGED <<rootVer, rootMtime, deepVer, mu, cache, pc, now, stat, asked, walk, served>>

\* A note or directory is created, deleted or renamed directly in the root.
ChangeRoot ==
    /\ rootVer < MaxChanges
    /\ rootVer' = rootVer + 1
    /\ rootMtime' = time
    /\ UNCHANGED <<time, deepVer, mu, cache, pc, now, stat, asked, walk, served>>

\* A note is edited in place, or anything happens in a subdirectory.
ChangeDeep ==
    /\ deepVer < MaxChanges
    /\ deepVer' = deepVer + 1
    /\ UNCHANGED <<time, rootVer, rootMtime, mu, cache, pc, now, stat, asked, walk, served>>

------------------------------------------------------------------------------
\* resourceCache.get

GoTo(c, step) == pc' = [pc EXCEPT ![c] = step]

Request(c) ==
    /\ pc[c] = "idle"
    /\ GoTo(c, "waiting")
    /\ asked' = [asked EXCEPT ![c] = [root |-> rootVer, deep |-> deepVer]]
    /\ UNCHANGED <<time, rootVer, rootMtime, deepVer, mu, cache, now, stat, walk, served>>

\* c.mu.Lock(); now := time.Now()
Lock(c) ==
    /\ pc[c] = "waiting"
    /\ mu = Free
    /\ mu' = c
    /\ now' = [now EXCEPT ![c] = time]
    /\ GoTo(c, "stat")
    /\ UNCHANGED <<time, rootVer, rootMtime, deepVer, cache, stat, asked, walk, served>>

Fresh(c, mtime) ==
    /\ cache.data # NoData
    /\ now[c] - cache.computed < TTL
    /\ mtime = cache.rootMtime

Forget(c) ==
    /\ now' = [now EXCEPT ![c] = 0]
    /\ stat' = [stat EXCEPT ![c] = NoTime]
    /\ asked' = [asked EXCEPT ![c] = Unasked]
    /\ walk' = [walk EXCEPT ![c] = Nothing]

Answer_Bug(c, data, hit) == \* returns the cached data without unlocking
    /\ served' = [data |-> data, now |-> now[c], asked |-> asked[c], hit |-> hit]
    /\ mu' = IF hit THEN mu ELSE Free
    /\ GoTo(c, "idle")
    /\ Forget(c)

\* get returns: the mutex is unlocked and the locals of the request are gone.
Answer(c, data, hit) ==
    /\ served' = [data |-> data, now |-> now[c], asked |-> asked[c], hit |-> hit]
    /\ mu' = Free
    /\ GoTo(c, "idle")
    /\ Forget(c)

Lookup_Bug(c) ==            \* walks without the mutex
    /\ pc[c] = "stat"
    /\ \E mtime \in {rootMtime, NoTime} :
        IF Fresh(c, mtime) THEN Answer(c, cache.data, TRUE)
        ELSE /\ stat' = [stat EXCEPT ![c] = mtime]
             /\ GoTo(c, "walk")
             /\ mu' = Free
             /\ UNCHANGED <<now, asked, walk, served>>
    /\ UNCHANGED <<time, rootVer, rootMtime, deepVer, cache>>

\* os.Stat(root), which may fail, and the cached data if it is fresh.
Lookup(c) ==
    /\ pc[c] = "stat"
    /\ \E mtime \in {rootMtime, NoTime} :
        IF Fresh(c, mtime) THEN Answer(c, cache.data, TRUE)
        ELSE /\ stat' = [stat EXCEPT ![c] = mtime]
             /\ GoTo(c, "walk")
             /\ UNCHANGED <<mu, now, asked, walk, served>>
    /\ UNCHANGED <<time, rootVer, rootMtime, deepVer, cache>>

\* recompute: the walk lists the root directory ...
ListRoot(c) ==
    /\ pc[c] = "walk"
    /\ walk' = [walk EXCEPT ![c] =
                   [root |-> rootVer, deep |-> 0, at |-> time, ok |-> FALSE]]
    /\ GoTo(c, "read")
    /\ UNCHANGED <<time, rootVer, rootMtime, deepVer, mu, cache, now, stat, asked, served>>

\* ... and reads what is in it.
ReadNotes(c) ==
    /\ pc[c] = "read"
    /\ walk' = [walk EXCEPT ![c].deep = deepVer, ![c].ok = TRUE]
    /\ GoTo(c, "fill")
    /\ UNCHANGED <<time, rootVer, rootMtime, deepVer, mu, cache, now, stat, asked, served>>

\* The walk ends early: the request was cancelled, or the root cannot be read.
\* The handlers turn that into an error text and a nil error.
WalkFails(c) ==
    /\ pc[c] = "read"
    /\ GoTo(c, "fill")
    /\ UNCHANGED <<time, rootVer, rootMtime, deepVer, mu, cache, now, stat, asked, walk, served>>

Fill_Bug(c) ==              \* stats the root again after the walk
    /\ pc[c] = "fill"
    /\ cache' = [data |-> walk[c], rootMtime |-> rootMtime, computed |-> now[c]]
    /\ Answer(c, walk[c], FALSE)
    /\ UNCHANGED <<time, rootVer, rootMtime, deepVer>>

Fill_BugLate(c) ==          \* dates the data by the end of the walk
    /\ pc[c] = "fill"
    /\ cache' = [data |-> walk[c], rootMtime |-> stat[c], computed |-> time]
    /\ Answer(c, walk[c], FALSE)
    /\ UNCHANGED <<time, rootVer, rootMtime, deepVer>>

Fill_BugError(c) ==         \* caches the nil result of a walk that failed
    /\ pc[c] = "fill"
    /\ cache' = [data |-> IF walk[c].ok THEN walk[c] ELSE <<>>,
                 rootMtime |-> stat[c], computed |-> now[c]]
    /\ Answer(c, walk[c], FALSE)
    /\ UNCHANGED <<time, rootVer, rootMtime, deepVer>>

\* The result is cached whatever it is, as of the times read before the walk.
Fill(c) ==
    /\ pc[c] = "fill"
    /\ cache' = [data |-> walk[c], rootMtime |-> stat[c], computed |-> now[c]]
    /\ Answer(c, walk[c], FALSE)
    /\ UNCHANGED <<time, rootVer, rootMtime, deepVer>>

Step(c) == Lock(c) \/ Lookup(c) \/ ListRoot(c) \/ ReadNotes(c) \/ Fill(c)

Next == \/ Tick \/ ChangeRoot \/ ChangeDeep
        \/ \E c \in Reader : Request(c) \/ Step(c) \/ WalkFails(c)

Spec == Init /\ [][Next]_vars

\* A goroutine that can run does, and sync.Mutex hands itself to a goroutine that
\* has waited long (its starvation mode): hence the strong fairness of Lock.
FairSpec ==
    /\ Spec
    /\ \A c \in Reader : SF_vars(Lock(c)) /\ WF_vars(Lookup(c) \/ ListRoot(c))
                         /\ WF_vars(ReadNotes(c)) /\ WF_vars(Fill(c))

------------------------------------------------------------------------------
\* Properties

\* The clock readings and versions are in range, the cache holds nothing or the
\* result of one walk, the mutex is free or has one holder.
TypeOK ==
    /\ time \in 0..MaxTime /\ rootMtime \in 0..MaxTime
    /\ rootVer \in 0..MaxChanges /\ deepVer \in 0..MaxChanges
    /\ mu \in Reader \cup {Free}
    /\ cache.data \in Data \cup {NoData}
    /\ cache.rootMtime \in Mtime /\ cache.computed \in 0..MaxTime
    /\ pc \in [Reader -> {"idle", "waiting", "stat", "walk", "read", "fill"}]
    /\ now \in [Reader -> 0..MaxTime] /\ stat \in [Reader -> Mtime]
    /\ asked \in [Reader -> Seen]
    /\ walk \in [Reader -> Data]
    /\ served \in Served \cup {NoData}

\* Whatever is served, an error included, comes from a walk that began less than
\* TTL before the request got the lock: a walk that lasts long does not make its
\* result count as younger.
StalenessIsBounded == served # NoData => served.now - served.data.at < TTL

\* A cached answer misses a change of the root directory only if the walk listed
\* the root in the very tick of that change; any later change is noticed, also one
\* that happened while the walk was going on.  (Not if os.Stat failed both times.)
RootChangesAreNoticed ==
    [][served' # NoData =>
          (served'.hit /\ cache.rootMtime # NoTime /\ served'.data.root # rootVer
              => served'.data.at = rootMtime)]_served

\* Successive answers never go back in time: a slow walk does not overwrite or
\* follow the result of a later one.
AnswersNeverGoBack ==
    [][served # NoData /\ served' # NoData =>
          /\ served'.data.root >= served.data.root
          /\ served.data.ok /\ served'.data.ok => served'.data.deep >= served.data.deep]_served

\* A request that finds the cache stale sees every change made before it was sent.
RecomputedIsCurrent ==
    served # NoData /\ ~ served.hit =>
        /\ served.data.root >= served.asked.root
        /\ served.data.ok => served.data.deep >= served.asked.deep

\* Every answer is as fresh as the cache promises: younger than TTL if the cache gives
\* it, and as new as the request if the request walks the vault itself.
AnswersAreFresh == StalenessIsBounded /\ RecomputedIsCurrent

\* A request for a resource is answered, although every request that finds the
\* cache stale walks the whole vault under the lock.
EveryRequestIsAnswered == \A c \in Reader : pc[c] = "waiting" ~> pc[c] = "idle"

===============================================================================
