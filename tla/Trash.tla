--------------------------------- MODULE Trash ---------------------------------
(***************************************************************************)
(* The trash of a vault (internal/vault/mutators.go): several server       *)
(* processes on one vault, typically one per client session, each of which *)
(* prunes the trash once when it starts (cmd/obsidian-mcp/main.go) and then *)
(* moves deleted notes into directories named after the time.  Service.mu  *)
(* is a mutex of one process: nothing excludes a prune by one process and  *)
(* a deletion by another, and RemoveAll is two steps, the contents and the *)
(* directory.                                                              *)
(*                                                                         *)
(* An entry is the directory of one deletion; entries are numbered in the  *)
(* order of their names, which are clock readings of nanoseconds and never *)
(* the same.  Files and foreign directories in the trash, which PruneTrash *)
(* leaves alone, are not there.  Time is in ticks, and durations are       *)
(* integers of a bounded width, as time.Duration is.                       *)
(***************************************************************************)
EXTENDS Integers

CONSTANTS
    Process,        \* server processes
    Path,           \* notes
    Nested,         \* those of them that are in a folder
    Retention,      \* values of --trash-retention-days; a start may change it
    Day,            \* ticks per day
    Wide,           \* a duration is in -Wide..Wide - 1: 2^63 nanoseconds
    MaxTime,        \* bound on the clock
    MaxEntry,       \* bound on the number of deletions
    None            \* no entry, no retention

Entry == 1..MaxEntry
Time  == 0..MaxTime

Deletion == [stamp : Time, made : Time, path : Path, held : BOOLEAN,
             dir : {"none", "made", "empty", "gone"}, limit : Retention \cup {None},
             answer : {"none", "deleted", "notFound"}]

ASSUME TrashConstants ==
    /\ Nested \subseteq Path
    /\ Retention \subseteq Nat                      \* config.Load refuses less than 0
    /\ Day \in Nat /\ Wide \in Nat \ {0} /\ MaxTime \in Nat /\ MaxEntry \in Nat
    /\ None \notin Deletion \cup Entry \cup Retention

VARIABLES
    time,           \* the clock
    note,           \* the notes that exist
    entry,          \* the deletions so far and what became of their directories
    pc,             \* what each process does
    retention,      \* its --trash-retention-days, while it prunes
    started,        \* the time it read for its prune
    todo,           \* the entries its prune has still to look at
    cur             \* the entry it is working on

vars == <<time, note, entry, pc, retention, started, todo, cur>>

Init ==
    /\ time = 0
    /\ note = Path
    /\ entry = [e \in Entry |-> None]
    /\ pc = [p \in Process |-> "down"]
    /\ retention = [p \in Process |-> None]
    /\ started = [p \in Process |-> 0]
    /\ todo = [p \in Process |-> {}]
    /\ cur = [p \in Process |-> None]

At(p, step) == pc' = [pc EXCEPT ![p] = step]

------------------------------------------------------------------------------
\* A start: run calls PruneTrash with the time and the configured retention

Start(p) ==
    /\ pc[p] = "down"
    /\ started' = [started EXCEPT ![p] = time]
    /\ \E r \in Retention : retention' = [retention EXCEPT ![p] = r]
    /\ At(p, "list")
    /\ UNCHANGED <<time, note, entry, todo, cur>>

\* The value of a duration of d ticks.
Wrap(d) == ((d + Wide) % (2 * Wide)) - Wide

\* now.Add(-time.Duration(retentionDays) * 24 * time.Hour)
Cutoff_Bug(p) == started[p] + Wrap(retention[p] * Day)
Cutoff(p) == started[p] + Wrap(-(retention[p] * Day))

OnDisk(e) == entry[e] # None /\ entry[e].dir \in {"made", "empty"}

\* os.ReadDir, once, in the order of the names.
List(p) ==
    /\ pc[p] = "list"
    /\ todo' = [todo EXCEPT ![p] = {e \in Entry : OnDisk(e)}]
    /\ At(p, "prune")
    /\ UNCHANGED <<time, note, entry, retention, started, cur>>

Expired(p, e) == entry[e].stamp < Cutoff(p)
First(p, e) == e \in todo[p] /\ \A f \in todo[p] : e <= f

Keep(p) ==
    /\ pc[p] = "prune"
    /\ \E e \in Entry :
          /\ First(p, e) /\ ~ Expired(p, e)
          /\ todo' = [todo EXCEPT ![p] = @ \ {e}]
    /\ UNCHANGED <<time, note, entry, pc, retention, started, cur>>

\* The first half of os.RemoveAll: the note goes, and the folders it lay in.  If
\* another process has removed the entry, there is nothing to do.
Empty(p) ==
    /\ pc[p] = "prune"
    /\ \E e \in Entry :
          /\ First(p, e) /\ Expired(p, e)
          /\ cur' = [cur EXCEPT ![p] = e]
          /\ entry' = IF OnDisk(e)
                      THEN [entry EXCEPT ![e].held = FALSE, ![e].dir = "empty",
                                         ![e].limit = retention[p]]
                      ELSE entry
    /\ At(p, "rmdir")
    /\ UNCHANGED <<time, note, retention, started, todo>>

\* The second half: the directory, if no deletion has put its note there meanwhile.
RemoveDir(p) ==
    /\ pc[p] = "rmdir"
    /\ ~ entry[cur[p]].held
    /\ entry' = [entry EXCEPT ![cur[p]].dir = "gone"]
    /\ todo' = [todo EXCEPT ![p] = @ \ {cur[p]}]
    /\ cur' = [cur EXCEPT ![p] = None]
    /\ At(p, "prune")
    /\ UNCHANGED <<time, note, retention, started>>

\* PruneTrash returns and forgets its arguments; the process begins to serve.
Return(p) ==
    /\ retention' = [retention EXCEPT ![p] = None]
    /\ started' = [started EXCEPT ![p] = 0]
    /\ todo' = [todo EXCEPT ![p] = {}]
    /\ cur' = [cur EXCEPT ![p] = None]
    /\ At(p, "serving")
    /\ UNCHANGED <<time, note, entry>>

\* PruneTrash returns at the first error, of ReadDir or of RemoveAll; the server
\* starts nevertheless.
PruneFails_Bug(p) ==                     \* the error is swallowed
    /\ pc[p] = "prune"
    /\ \E e \in Entry : /\ First(p, e) /\ Expired(p, e)
                        /\ todo' = [todo EXCEPT ![p] = @ \ {e}]
    /\ UNCHANGED <<time, note, entry, pc, retention, started, cur>>

PruneFails(p) ==
    /\ \/ pc[p] \in {"list", "rmdir"}
       \/ pc[p] = "prune" /\ \E e \in Entry : First(p, e) /\ Expired(p, e)
    /\ Return(p)

PruneDone(p) == pc[p] = "prune" /\ todo[p] = {} /\ Return(p)

------------------------------------------------------------------------------
\* A deletion, under the mutex of its process

\* trashTimestamp
BeginDelete(p) ==
    /\ pc[p] = "serving"
    /\ \E path \in Path, e \in Entry :
          /\ entry[e] = None /\ \A f \in Entry : f < e => entry[f] # None
          /\ entry' = [entry EXCEPT ![e] =
                          [stamp |-> time, made |-> time, path |-> path, held |-> FALSE,
                           dir |-> "none", limit |-> None, answer |-> "none"]]
          /\ cur' = [cur EXCEPT ![p] = e]
    /\ At(p, "mkdir")
    /\ UNCHANGED <<time, note, retention, started, todo>>

\* os.MkdirAll
MakeDir_Bug(p) ==                        \* only the trash itself
    /\ pc[p] = "mkdir" /\ At(p, "rename")
    /\ UNCHANGED <<time, note, entry, retention, started, todo, cur>>

MakeDir(p) ==
    /\ pc[p] = "mkdir"
    /\ entry' = [entry EXCEPT ![cur[p]].dir = "made", ![cur[p]].made = time]
    /\ At(p, "rename")
    /\ UNCHANGED <<time, note, retention, started, todo, cur>>

\* The folder the note is moved into is there: the entry itself, or a folder in it.
HasFolder(d) == d.dir = "made" \/ (d.dir = "empty" /\ d.path \notin Nested)

Rename_Bug(p) ==                         \* the error for want of a folder is dropped
    /\ pc[p] = "rename"
    /\ LET d == entry[cur[p]]
           ok == d.path \in note
       IN  /\ note' = IF ok THEN note \ {d.path} ELSE note
           /\ entry' = [entry EXCEPT ![cur[p]].held = ok,
                                     ![cur[p]].answer = IF ok THEN "deleted" ELSE "notFound"]
    /\ cur' = [cur EXCEPT ![p] = None]
    /\ At(p, "serving")
    /\ UNCHANGED <<time, retention, started, todo>>

\* os.Rename: one step, which fails with the same error if there is no note and if
\* there is no folder to move it to.
Rename(p) ==
    /\ pc[p] = "rename"
    /\ LET d == entry[cur[p]]
           ok == d.path \in note /\ HasFolder(d)
       IN  /\ note' = IF ok THEN note \ {d.path} ELSE note
           /\ entry' = [entry EXCEPT ![cur[p]].held = ok,
                                     ![cur[p]].answer = IF ok THEN "deleted" ELSE "notFound"]
    /\ cur' = [cur EXCEPT ![p] = None]
    /\ At(p, "serving")
    /\ UNCHANGED <<time, retention, started, todo>>

\* MkdirAll or Rename fails for another reason.
DeleteFails(p) ==
    /\ pc[p] \in {"mkdir", "rename"}
    /\ cur' = [cur EXCEPT ![p] = None]
    /\ At(p, "serving")
    /\ UNCHANGED <<time, note, entry, retention, started, todo>>

------------------------------------------------------------------------------
\* Everything else

\* write_note, or another program.
Write ==
    /\ \E path \in Path \ note : note' = note \cup {path}
    /\ UNCHANGED <<time, entry, pc, retention, started, todo, cur>>

\* The end of a process, at any point.
Kill(p) ==
    /\ pc[p] # "down"
    /\ todo' = [todo EXCEPT ![p] = {}]
    /\ cur' = [cur EXCEPT ![p] = None]
    /\ retention' = [retention EXCEPT ![p] = None]
    /\ started' = [started EXCEPT ![p] = 0]
    /\ At(p, "down")
    /\ UNCHANGED <<time, note, entry>>

Tick ==
    /\ time < MaxTime
    /\ time' = time + 1
    /\ UNCHANGED <<note, entry, pc, retention, started, todo, cur>>

Prune(p)  == Start(p) \/ List(p) \/ Keep(p) \/ Empty(p) \/ RemoveDir(p)
                \/ PruneFails(p) \/ PruneDone(p)
Delete(p) == BeginDelete(p) \/ MakeDir(p) \/ Rename(p) \/ DeleteFails(p)

Next == Write \/ Tick \/ \E p \in Process : Prune(p) \/ Delete(p) \/ Kill(p)

Spec == Init /\ [][Next]_vars

------------------------------------------------------------------------------
\* Properties

Pruning  == {"list", "prune", "rmdir"}
Deleting == {"mkdir", "rename"}

\* The deletions and the directories are of their types, every process is at a step
\* of its start or of a deletion, and works on an entry exactly where it has one.
TypeOK ==
    /\ time \in Time
    /\ note \subseteq Path
    /\ entry \in [Entry -> Deletion \cup {None}]
    /\ pc \in [Process -> Pruning \cup Deleting \cup {"down", "serving"}]
    /\ retention \in [Process -> Retention \cup {None}]
    /\ started \in [Process -> Time]
    /\ todo \in [Process -> SUBSET Entry]
    /\ cur \in [Process -> Entry \cup {None}]
    /\ \A p \in Process : /\ (cur[p] # None) <=> (pc[p] \in {"rmdir"} \cup Deleting)
                          /\ (retention[p] # None) <=> (pc[p] \in Pruning)
                          /\ cur[p] # None => entry[cur[p]] # None

\* The state is well formed, and what the server counts as a note in the trash lies in
\* a folder that is there: no prune has removed it from under the note.
WellFormed ==
    /\ TypeOK
    /\ \A e \in Entry : entry[e] # None /\ entry[e].held => HasFolder(entry[e])

\* The retention is a duration of its own, and not a wrapped one: at most 106751 days.
Fits(r) == r * Day <= Wide

\* More than r days have passed since a deletion began.
Outlived(e, r) == Fits(r) => entry[e].stamp + r * Day < time

\* A note leaves the trash only when a server prunes whose retention has passed since
\* the note was deleted, however long that prune has been under way, whichever
\* process deleted it and whatever the others have configured.
RetentionIsKept ==
    [][\A e \in Entry : entry[e] # None /\ entry[e].held /\ ~ entry'[e].held =>
          \E p \in Process : pc[p] = "prune" /\ Outlived(e, retention[p])]_vars

\* A deletion answers "not found" of a note that is there only if it has lasted
\* longer than the retention of another server, which took the directory away
\* between MkdirAll and Rename.
DeleteAnswersAreTrue ==
    [][\A e \in Entry :
          entry[e] # None /\ entry'[e].answer = "notFound" /\ entry[e].answer = "none"
          /\ entry[e].path \in note
          => entry[e].limit # None /\ Outlived(e, entry[e].limit)]_vars

\* When a prune ends without an error, everything is gone that was in the trash when
\* the server started and had outlived the retention by then, also when another
\* server pruned at the same time.
PruneIsComplete ==
    [][\A p \in Process :
          pc[p] = "prune" /\ todo[p] = {} /\ pc'[p] = "serving" /\ Fits(retention[p]) =>
              \A e \in Entry : OnDisk(e) /\ entry[e].made < started[p]
                  => entry[e].stamp + retention[p] * Day >= started[p]]_vars
===============================================================================
