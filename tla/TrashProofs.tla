------------------------------ MODULE TrashProofs ------------------------------
(***************************************************************************)
(* The trash for any number of processes, notes and deletions, and for any *)
(* length of a day and width of a duration.                                *)
(***************************************************************************)
EXTENDS Trash, TLAPS

\* The clock does not go back.
StartIsPast == \A p \in Process : started[p] <= time

\* A deletion is the work of one process, and it has not ended while it is.
OneDeletes ==
    \A p, q \in Process :
        pc[p] \in Deleting /\ pc[q] \in Deleting /\ cur[p] = cur[q] => p = q

Unfinished ==
    \A p \in Process : pc[p] \in Deleting =>
        /\ ~ entry[cur[p]].held /\ entry[cur[p]].answer = "none"
        /\ (entry[cur[p]].dir = "none") <=> (pc[p] = "mkdir")

\* A prune looks at directories that were made, and removes one it has emptied.
Looked ==
    \A p \in Process :
        /\ \A e \in todo[p] : entry[e] # None /\ entry[e].dir # "none"
        /\ pc[p] = "rmdir" => entry[cur[p]].dir \in {"empty", "gone"}

\* What was emptied had outlived the retention of the server that did it.
Entitled(e) ==
    entry[e] # None /\ entry[e].dir \in {"empty", "gone"} =>
        entry[e].limit # None /\ Outlived(e, entry[e].limit)

\* What a prune has passed over is young, or was made since it started.
PassedOver(p, e) ==
    /\ pc[p] \in {"prune", "rmdir"} /\ Fits(retention[p])
    /\ e \notin todo[p] /\ OnDisk(e) /\ entry[e].made < started[p]
    => entry[e].stamp + retention[p] * Day >= started[p]

Inv ==
    /\ TypeOK
    /\ StartIsPast
    /\ OneDeletes
    /\ Unfinished
    /\ Looked
    /\ \A e \in Entry : Entitled(e)
    /\ \A p \in Process, e \in Entry : PassedOver(p, e)

------------------------------------------------------------------------------
\* Durations

\* A remainder below the divisor is the number itself.
LEMMA SmallRemainder ==
    ASSUME NEW x \in Int, NEW n \in Int, 0 <= x, x < n
    PROVE  x % n = x
  OBVIOUS

\* A retention that fits is subtracted as it is.
LEMMA NothingWraps ==
    ASSUME NEW d \in Nat, d <= Wide
    PROVE  Wrap(-d) = -d
<1>1. /\ -d + Wide \in Int /\ 2 * Wide \in Int
      /\ 0 <= -d + Wide /\ -d + Wide < 2 * Wide
  BY TrashConstants
<1>2. (-d + Wide) % (2 * Wide) = -d + Wide
  BY <1>1, SmallRemainder
<1> QED
  BY <1>2, TrashConstants DEF Wrap

\* What an entry is compared with, if the retention fits.
LEMMA CutoffIsRight ==
    ASSUME TypeOK, NEW p \in Process, retention[p] # None, Fits(retention[p])
    PROVE  /\ retention[p] * Day \in Nat
           /\ Cutoff(p) = started[p] - retention[p] * Day
<1>1. retention[p] \in Nat
  <2>1. retention[p] \in Retention
    BY DEF TypeOK
  <2>2. Retention \subseteq Nat
    BY TrashConstants
  <2> QED
    BY <2>1, <2>2
<1>2. Day \in Nat /\ started[p] \in Nat
  BY TrashConstants DEF TypeOK, Time
<1>3. retention[p] * Day \in Nat
  BY <1>1, <1>2
<1>4. Wrap(-(retention[p] * Day)) = -(retention[p] * Day)
  BY <1>3, NothingWraps DEF Fits
<1> QED
  BY <1>2, <1>3, <1>4 DEF Cutoff

------------------------------------------------------------------------------
\* What the steps do to the deletions

\* One entry becomes another of its fields, the others stay.
LEMMA OneEntryChanges ==
    ASSUME TypeOK, NEW e \in Entry, NEW d \in Deletion, entry' = [entry EXCEPT ![e] = d]
    PROVE  /\ entry' \in [Entry -> Deletion \cup {None}]
           /\ entry'[e] = d /\ d # None
           /\ \A f \in Entry \ {e} : entry'[f] = entry[f]
  BY TrashConstants DEF TypeOK

LEMMA EmptyEffect ==
    ASSUME TypeOK, NEW p \in Process, Empty(p)
    PROVE  /\ entry' \in [Entry -> Deletion \cup {None}]
           /\ \E e \in Entry :
                /\ e \in todo[p] /\ Expired(p, e) /\ cur' = [cur EXCEPT ![p] = e]
                /\ \A f \in Entry \ {e} : entry'[f] = entry[f]
                /\ ~ OnDisk(e) => entry' = entry
                /\ OnDisk(e) => /\ entry[e] # None /\ entry'[e] # None
                                /\ entry'[e] = [entry[e] EXCEPT !.held = FALSE, !.dir = "empty",
                                                                !.limit = retention[p]]
<1>1. PICK e \in Entry :
         /\ First(p, e) /\ Expired(p, e) /\ cur' = [cur EXCEPT ![p] = e]
         /\ entry' = IF OnDisk(e)
                     THEN [entry EXCEPT ![e].held = FALSE, ![e].dir = "empty",
                                        ![e].limit = retention[p]]
                     ELSE entry
  BY DEF Empty
<1>2. CASE ~ OnDisk(e)
  BY <1>1, <1>2 DEF TypeOK, First
<1>3. CASE OnDisk(e)
  <2> DEFINE d == [entry[e] EXCEPT !.held = FALSE, !.dir = "empty", !.limit = retention[p]]
  <2>1. entry[e] \in Deletion /\ entry[e] # None /\ retention[p] \in Retention \cup {None}
    BY <1>3 DEF OnDisk, TypeOK
  <2>2. d \in Deletion
    BY <2>1 DEF Deletion
  <2>3. entry' = [entry EXCEPT ![e] = d]
    BY <1>1, <1>3, <2>1 DEF TypeOK
  <2> HIDE DEF d
  <2>4. /\ entry' \in [Entry -> Deletion \cup {None}]
        /\ entry'[e] = d /\ d # None
        /\ \A f \in Entry \ {e} : entry'[f] = entry[f]
    BY <2>2, <2>3, OneEntryChanges
  <2> QED
    BY <1>1, <1>3, <2>1, <2>4 DEF First, d
<1> QED
  BY <1>2, <1>3

LEMMA RemoveDirEffect ==
    ASSUME TypeOK, NEW p \in Process, RemoveDir(p)
    PROVE  /\ entry' \in [Entry -> Deletion \cup {None}]
           /\ cur[p] \in Entry /\ entry[cur[p]] \in Deletion /\ entry[cur[p]] # None
           /\ entry'[cur[p]] # None
           /\ entry'[cur[p]] = [entry[cur[p]] EXCEPT !.dir = "gone"]
           /\ \A f \in Entry \ {cur[p]} : entry'[f] = entry[f]
<1> DEFINE d == [entry[cur[p]] EXCEPT !.dir = "gone"]
<1>1. /\ cur[p] \in Entry /\ entry[cur[p]] \in Deletion /\ entry[cur[p]] # None
      /\ pc[p] = "rmdir"
  BY DEF TypeOK, RemoveDir, Deleting
<1>2. d \in Deletion
  BY <1>1 DEF Deletion, TypeOK
<1>3. entry' = [entry EXCEPT ![cur[p]] = d]
  BY <1>1 DEF TypeOK, RemoveDir
<1> HIDE DEF d
<1>4. /\ entry' \in [Entry -> Deletion \cup {None}]
      /\ entry'[cur[p]] = d /\ d # None
      /\ \A f \in Entry \ {cur[p]} : entry'[f] = entry[f]
  BY <1>1, <1>2, <1>3, OneEntryChanges
<1> QED
  BY <1>1, <1>4 DEF d

LEMMA MakeDirEffect ==
    ASSUME TypeOK, NEW p \in Process, MakeDir(p)
    PROVE  /\ entry' \in [Entry -> Deletion \cup {None}]
           /\ cur[p] \in Entry /\ entry[cur[p]] \in Deletion /\ entry[cur[p]] # None
           /\ entry'[cur[p]] # None
           /\ entry'[cur[p]] = [entry[cur[p]] EXCEPT !.dir = "made", !.made = time]
           /\ \A f \in Entry \ {cur[p]} : entry'[f] = entry[f]
<1> DEFINE d == [entry[cur[p]] EXCEPT !.dir = "made", !.made = time]
<1>1. /\ cur[p] \in Entry /\ entry[cur[p]] \in Deletion /\ entry[cur[p]] # None
      /\ pc[p] = "mkdir"
  BY DEF TypeOK, MakeDir, Deleting
<1>2. d \in Deletion
  BY <1>1 DEF Deletion, TypeOK
<1>3. entry' = [entry EXCEPT ![cur[p]] = d]
  BY <1>1 DEF TypeOK, MakeDir
<1> HIDE DEF d
<1>4. /\ entry' \in [Entry -> Deletion \cup {None}]
      /\ entry'[cur[p]] = d /\ d # None
      /\ \A f \in Entry \ {cur[p]} : entry'[f] = entry[f]
  BY <1>1, <1>2, <1>3, OneEntryChanges
<1> QED
  BY <1>1, <1>4 DEF d

\* What Rename answers.
Found(d) == d.path \in note /\ HasFolder(d)

LEMMA RenameEffect ==
    ASSUME TypeOK, NEW p \in Process, Rename(p)
    PROVE  /\ entry' \in [Entry -> Deletion \cup {None}]
           /\ cur[p] \in Entry /\ entry[cur[p]] \in Deletion /\ entry[cur[p]] # None
           /\ entry'[cur[p]] # None
           /\ entry'[cur[p]] =
                 IF Found(entry[cur[p]])
                 THEN [entry[cur[p]] EXCEPT !.held = TRUE, !.answer = "deleted"]
                 ELSE [entry[cur[p]] EXCEPT !.held = FALSE, !.answer = "notFound"]
           /\ \A f \in Entry \ {cur[p]} : entry'[f] = entry[f]
<1>1. /\ cur[p] \in Entry /\ entry[cur[p]] \in Deletion /\ entry[cur[p]] # None
      /\ pc[p] = "rename"
  BY DEF TypeOK, Rename, Deleting
<1>2. CASE Found(entry[cur[p]])
  <2> DEFINE d == [entry[cur[p]] EXCEPT !.held = TRUE, !.answer = "deleted"]
  <2>1. d \in Deletion
    BY <1>1 DEF Deletion
  <2>2. entry' = [entry EXCEPT ![cur[p]].held = TRUE, ![cur[p]].answer = "deleted"]
    BY <1>2 DEF Rename, Found
  <2>3. entry' = [entry EXCEPT ![cur[p]] = d]
    BY <1>1, <2>2 DEF TypeOK
  <2> HIDE DEF d
  <2>4. /\ entry' \in [Entry -> Deletion \cup {None}]
        /\ entry'[cur[p]] = d /\ d # None
        /\ \A f \in Entry \ {cur[p]} : entry'[f] = entry[f]
    BY <1>1, <2>1, <2>3, OneEntryChanges
  <2> QED
    BY <1>1, <1>2, <2>4 DEF d
<1>3. CASE ~ Found(entry[cur[p]])
  <2> DEFINE d == [entry[cur[p]] EXCEPT !.held = FALSE, !.answer = "notFound"]
  <2>1. d \in Deletion
    BY <1>1 DEF Deletion
  <2>2. entry' = [entry EXCEPT ![cur[p]].held = FALSE, ![cur[p]].answer = "notFound"]
    BY <1>3 DEF Rename, Found
  <2>3. entry' = [entry EXCEPT ![cur[p]] = d]
    BY <1>1, <2>2 DEF TypeOK
  <2> HIDE DEF d
  <2>4. /\ entry' \in [Entry -> Deletion \cup {None}]
        /\ entry'[cur[p]] = d /\ d # None
        /\ \A f \in Entry \ {cur[p]} : entry'[f] = entry[f]
    BY <1>1, <2>1, <2>3, OneEntryChanges
  <2> QED
    BY <1>1, <1>3, <2>4 DEF d
<1> QED
  BY <1>2, <1>3

LEMMA BeginDeleteEffect ==
    ASSUME TypeOK, NEW p \in Process, BeginDelete(p)
    PROVE  /\ entry' \in [Entry -> Deletion \cup {None}]
           /\ \E e \in Entry :
                /\ entry[e] = None /\ cur' = [cur EXCEPT ![p] = e]
                /\ entry'[e] # None /\ entry'[e].dir = "none" /\ ~ entry'[e].held
                /\ entry'[e].answer = "none"
                /\ \A f \in Entry \ {e} : entry'[f] = entry[f]
<1>1. PICK path \in Path, e \in Entry :
         /\ entry[e] = None /\ cur' = [cur EXCEPT ![p] = e]
         /\ entry' = [entry EXCEPT ![e] =
                        [stamp |-> time, made |-> time, path |-> path, held |-> FALSE,
                         dir |-> "none", limit |-> None, answer |-> "none"]]
  BY DEF BeginDelete
<1> DEFINE d == [stamp |-> time, made |-> time, path |-> path, held |-> FALSE,
                 dir |-> "none", limit |-> None, answer |-> "none"]
<1>2. d \in Deletion
  BY DEF Deletion, TypeOK
<1>3. entry' = [entry EXCEPT ![e] = d]
  BY <1>1
<1>4. d.dir = "none" /\ ~ d.held /\ d.answer = "none"
  OBVIOUS
<1> HIDE DEF d
<1>5. /\ entry' \in [Entry -> Deletion \cup {None}]
      /\ entry'[e] = d /\ d # None
      /\ \A f \in Entry \ {e} : entry'[f] = entry[f]
  BY <1>2, <1>3, OneEntryChanges
<1> QED
  BY <1>1, <1>4, <1>5

------------------------------------------------------------------------------
\* Types

\* The steps that leave the deletions as they are.
Quiet(p) == \/ Start(p) \/ List(p) \/ Keep(p) \/ PruneFails(p) \/ PruneDone(p)
            \/ DeleteFails(p) \/ Kill(p)

LEMMA EntryType == ASSUME TypeOK, [Next]_vars PROVE entry' \in [Entry -> Deletion \cup {None}]
<1>1. CASE Write \/ Tick \/ UNCHANGED vars \/ \E p \in Process : Quiet(p)
  BY <1>1 DEF TypeOK, Write, Tick, vars, Quiet, Start, List, Keep, PruneFails, PruneDone, Return,
     DeleteFails, Kill
<1>2. ASSUME NEW p \in Process, Empty(p) \/ RemoveDir(p) \/ BeginDelete(p) \/ MakeDir(p) \/ Rename(p)
      PROVE  entry' \in [Entry -> Deletion \cup {None}]
  BY <1>2, EmptyEffect, RemoveDirEffect, BeginDeleteEffect, MakeDirEffect, RenameEffect
<1> QED
  BY <1>1, <1>2 DEF Next, Prune, Delete, Quiet

\* No step takes a deletion back.
LEMMA EntriesStay ==
    ASSUME TypeOK, [Next]_vars, NEW e \in Entry, entry[e] # None
    PROVE  entry'[e] # None
<1>1. CASE Write \/ Tick \/ UNCHANGED vars \/ \E p \in Process : Quiet(p)
  BY <1>1 DEF Write, Tick, vars, Quiet, Start, List, Keep, PruneFails, PruneDone, Return,
     DeleteFails, Kill
<1>2. ASSUME NEW p \in Process, Empty(p) PROVE entry'[e] # None
  BY <1>2, EmptyEffect
<1>3. ASSUME NEW p \in Process, BeginDelete(p) PROVE entry'[e] # None
  BY <1>3, BeginDeleteEffect
<1>4. ASSUME NEW p \in Process, RemoveDir(p) \/ MakeDir(p) \/ Rename(p) PROVE entry'[e] # None
  BY <1>4, RemoveDirEffect, MakeDirEffect, RenameEffect
<1> QED
  BY <1>1, <1>2, <1>3, <1>4 DEF Next, Prune, Delete, Quiet

\* A process works on an entry, and knows its retention, exactly where it needs it.
AtWork(p) == /\ (cur[p] # None) <=> (pc[p] \in {"rmdir"} \cup Deleting)
             /\ (retention[p] # None) <=> (pc[p] \in Pruning)
             /\ cur[p] # None => entry[cur[p]] # None

LEMMA AtWorkStays ==
    ASSUME Inv, [Next]_vars, NEW q \in Process
    PROVE  AtWork(q)'
<1> USE DEF Pruning, Deleting, At
<1>0. /\ TypeOK /\ AtWork(q) /\ cur[q] \in Entry \cup {None}
      /\ pc \in [Process -> Pruning \cup Deleting \cup {"down", "serving"}]
      /\ retention \in [Process -> Retention \cup {None}]
      /\ cur \in [Process -> Entry \cup {None}]
  BY DEF Inv, TypeOK, AtWork
<1>a. None \notin Entry /\ None \notin Retention
  BY TrashConstants
<1>b. cur[q] # None => entry'[cur[q]] # None
  BY <1>0, EntriesStay DEF AtWork
<1>1. CASE Write \/ Tick \/ UNCHANGED vars
  BY <1>0, <1>1 DEF AtWork, Write, Tick, vars
<1>2. ASSUME NEW p \in Process, Start(p) \/ List(p) \/ Keep(p) PROVE AtWork(q)'
  BY <1>0, <1>2, <1>a DEF AtWork, Start, List, Keep
<1>3. ASSUME NEW p \in Process, PruneFails(p) \/ PruneDone(p) \/ DeleteFails(p) \/ Kill(p)
      PROVE  AtWork(q)'
  BY <1>0, <1>3 DEF AtWork, PruneFails, PruneDone, Return, DeleteFails, Kill
<1>4. ASSUME NEW p \in Process, Empty(p) PROVE AtWork(q)'
  <2>1. PICK e \in Entry : cur' = [cur EXCEPT ![p] = e] /\ entry[e] # None
    BY <1>0, <1>4, EmptyEffect DEF Inv, Looked
  <2> QED
    BY <1>0, <1>4, <1>a, <1>b, <2>1, EntriesStay DEF AtWork, Empty
<1>5. ASSUME NEW p \in Process, BeginDelete(p) PROVE AtWork(q)'
  <2>1. PICK e \in Entry : cur' = [cur EXCEPT ![p] = e] /\ entry'[e] # None
    BY <1>0, <1>5, BeginDeleteEffect
  <2> QED
    BY <1>0, <1>5, <1>a, <1>b, <2>1 DEF AtWork, BeginDelete
<1>6. ASSUME NEW p \in Process, RemoveDir(p) \/ MakeDir(p) \/ Rename(p) PROVE AtWork(q)'
  BY <1>0, <1>6, <1>b DEF AtWork, RemoveDir, MakeDir, Rename
<1> QED
  BY <1>1, <1>2, <1>3, <1>4, <1>5, <1>6 DEF Next, Prune, Delete

LEMMA NextTypeOK == ASSUME Inv, [Next]_vars PROVE TypeOK'
<1> USE DEF At
<1>0. TypeOK
  BY DEF Inv
<1>1. entry' \in [Entry -> Deletion \cup {None}] /\ \A q \in Process : AtWork(q)'
  BY <1>0, EntryType, AtWorkStays
<1>2. /\ time' \in Time /\ note' \subseteq Path
      /\ pc' \in [Process -> Pruning \cup Deleting \cup {"down", "serving"}]
      /\ retention' \in [Process -> Retention \cup {None}]
      /\ started' \in [Process -> Time]
      /\ todo' \in [Process -> SUBSET Entry]
      /\ cur' \in [Process -> Entry \cup {None}]
  <2> DEFINE Goal == /\ time' \in Time /\ note' \subseteq Path
                     /\ pc' \in [Process -> Pruning \cup Deleting \cup {"down", "serving"}]
                     /\ retention' \in [Process -> Retention \cup {None}]
                     /\ started' \in [Process -> Time]
                     /\ todo' \in [Process -> SUBSET Entry]
                     /\ cur' \in [Process -> Entry \cup {None}]
  <2>0. /\ time \in Time /\ note \subseteq Path /\ 0 \in Time /\ MaxTime \in Nat
        /\ pc \in [Process -> Pruning \cup Deleting \cup {"down", "serving"}]
        /\ retention \in [Process -> Retention \cup {None}]
        /\ started \in [Process -> Time]
        /\ todo \in [Process -> SUBSET Entry]
        /\ cur \in [Process -> Entry \cup {None}]
    BY <1>0, TrashConstants DEF TypeOK, Time
  <2> USE DEF Pruning, Deleting
  <2>1. CASE Write \/ UNCHANGED vars
    BY <2>0, <2>1 DEF Write, vars
  <2>2. CASE Tick
    <3>1. time' \in Time
      BY <2>0, <2>2 DEF Tick, Time
    <3> QED
      BY <2>0, <2>2, <3>1 DEF Tick
  <2>3. ASSUME NEW p \in Process, Start(p) \/ List(p) \/ Keep(p) PROVE Goal
    BY <2>0, <2>3 DEF Start, List, Keep
  <2>4. ASSUME NEW p \in Process, PruneFails(p) \/ PruneDone(p) \/ DeleteFails(p) \/ Kill(p)
        PROVE  Goal
    BY <2>0, <2>4 DEF PruneFails, PruneDone, Return, DeleteFails, Kill
  <2>5. ASSUME NEW p \in Process, RemoveDir(p) \/ BeginDelete(p) \/ MakeDir(p) PROVE Goal
    BY <2>0, <2>5 DEF RemoveDir, BeginDelete, MakeDir
  <2>7. ASSUME NEW p \in Process, Empty(p) PROVE Goal
    <3>1. \E e \in Entry : cur' = [cur EXCEPT ![p] = e]
      BY <1>0, <2>7, EmptyEffect
    <3> QED
      BY <2>0, <2>7, <3>1 DEF Empty
  <2>6. ASSUME NEW p \in Process, Rename(p) PROVE Goal
    BY <2>0, <2>6 DEF Rename
  <2> QED
    BY <2>1, <2>2, <2>3, <2>4, <2>5, <2>6, <2>7 DEF Next, Prune, Delete
<1> QED
  BY <1>1, <1>2 DEF TypeOK, AtWork

------------------------------------------------------------------------------
\* The invariant

\* What becomes of a deletion: its name stays, its directory is made once and goes.
LEMMA OneWay ==
    ASSUME Inv, [Next]_vars, NEW e \in Entry, entry[e] # None
    PROVE  /\ entry'[e] # None /\ entry'[e].stamp = entry[e].stamp
           /\ entry[e].dir # "none" => /\ entry'[e].dir # "none"
                                       /\ entry'[e].made = entry[e].made
           /\ entry[e].dir = "gone" => entry'[e].dir = "gone"
           /\ entry[e].dir = "empty" => entry'[e].dir \in {"empty", "gone"}
           /\ entry[e].dir = "none" /\ entry'[e].dir # "none" => entry'[e].made = time
<1>0. TypeOK /\ entry[e] \in Deletion
  BY DEF Inv, TypeOK
<1>1. CASE Write \/ Tick \/ UNCHANGED vars \/ \E p \in Process : Quiet(p)
  <2>1. entry' = entry
    BY <1>1 DEF Write, Tick, vars, Quiet, Start, List, Keep, PruneFails, PruneDone, Return,
       DeleteFails, Kill
  <2> QED
    BY <2>1, <1>0 DEF Deletion
<1>2. CASE \E p \in Process : Empty(p)
  <2>1. PICK p \in Process : Empty(p)
    BY <1>2
  <2>2. PICK f \in Entry :
           /\ \A g \in Entry \ {f} : entry'[g] = entry[g]
           /\ ~ OnDisk(f) => entry' = entry
           /\ OnDisk(f) => /\ entry[f] # None /\ entry'[f] # None
                           /\ entry'[f] = [entry[f] EXCEPT !.held = FALSE, !.dir = "empty",
                                                           !.limit = retention[p]]
    BY <1>0, <2>1, EmptyEffect
  <2>3. CASE e # f
    BY <1>0, <2>2, <2>3 DEF Deletion
  <2>4. CASE e = f /\ ~ OnDisk(e)
    BY <1>0, <2>2, <2>4 DEF Deletion
  <2>5. CASE e = f /\ OnDisk(e)
    BY <1>0, <2>2, <2>5 DEF Deletion, OnDisk
  <2> QED
    BY <2>3, <2>4, <2>5
<1>3. CASE \E p \in Process : BeginDelete(p)
  BY <1>0, <1>3, BeginDeleteEffect
<1>4. CASE \E p \in Process : RemoveDir(p)
  <2>1. PICK p \in Process : RemoveDir(p)
    BY <1>4
  <2>2. /\ cur[p] \in Entry /\ entry[cur[p]].dir \in {"empty", "gone"}
        /\ entry'[cur[p]] # None /\ entry'[cur[p]] = [entry[cur[p]] EXCEPT !.dir = "gone"]
        /\ \A f \in Entry \ {cur[p]} : entry'[f] = entry[f]
    BY <1>0, <2>1, RemoveDirEffect DEF Inv, Looked, RemoveDir
  <2> QED
    BY <1>0, <2>2 DEF Deletion
<1>5. CASE \E p \in Process : MakeDir(p)
  <2>1. PICK p \in Process : MakeDir(p)
    BY <1>5
  <2>2. /\ cur[p] \in Entry /\ entry[cur[p]].dir = "none"
        /\ entry'[cur[p]] # None
        /\ entry'[cur[p]] = [entry[cur[p]] EXCEPT !.dir = "made", !.made = time]
        /\ \A f \in Entry \ {cur[p]} : entry'[f] = entry[f]
    BY <1>0, <2>1, MakeDirEffect DEF Inv, Unfinished, MakeDir, Deleting
  <2> QED
    BY <1>0, <2>2 DEF Deletion
<1>6. CASE \E p \in Process : Rename(p)
  <2>1. PICK p \in Process : Rename(p)
    BY <1>6
  <2>2. /\ cur[p] \in Entry
        /\ entry'[cur[p]] # None
        /\ entry'[cur[p]] =
                 IF Found(entry[cur[p]])
                 THEN [entry[cur[p]] EXCEPT !.held = TRUE, !.answer = "deleted"]
                 ELSE [entry[cur[p]] EXCEPT !.held = FALSE, !.answer = "notFound"]
        /\ \A f \in Entry \ {cur[p]} : entry'[f] = entry[f]
        /\ pc[p] = "rename"
    BY <1>0, <2>1, RenameEffect DEF Rename
  <2>3. entry[cur[p]].dir # "none"
    BY <2>2 DEF Inv, Unfinished, Deleting
  <2>4. CASE e # cur[p]
    BY <1>0, <2>2, <2>4 DEF Deletion
  <2>5. CASE e = cur[p] /\ Found(entry[e])
    BY <1>0, <2>2, <2>3, <2>5 DEF Deletion
  <2>6. CASE e = cur[p] /\ ~ Found(entry[e])
    BY <1>0, <2>2, <2>3, <2>6 DEF Deletion
  <2> QED
    BY <2>4, <2>5, <2>6
<1> QED
  BY <1>1, <1>2, <1>3, <1>4, <1>5, <1>6 DEF Next, Prune, Delete, Quiet

LEMMA StartIsPastStays == ASSUME Inv, [Next]_vars PROVE StartIsPast'
<1> SUFFICES ASSUME NEW q \in Process PROVE started'[q] <= time'
  BY DEF StartIsPast
<1>1. /\ time \in Nat /\ started \in [Process -> Time] /\ started[q] \in Nat
      /\ started[q] <= time
  BY TrashConstants DEF Inv, TypeOK, StartIsPast, Time
<1>2. ASSUME NEW p \in Process, Prune(p) \/ Delete(p) \/ Kill(p)
      PROVE  started'[q] \in {started[q], time, 0} /\ time' = time
  BY <1>1, <1>2 DEF Prune, Delete, Start, List, Keep, Empty, RemoveDir, PruneFails, PruneDone,
     Return, BeginDelete, MakeDir, Rename, DeleteFails, Kill
<1>3. CASE Write \/ Tick \/ UNCHANGED vars
  BY <1>1, <1>3 DEF Write, Tick, vars
<1> QED
  BY <1>1, <1>2, <1>3 DEF Next

\* A deletion of its own entry is the work of one process also after a step.
LEMMA OneDeletesStays == ASSUME Inv, [Next]_vars PROVE OneDeletes'
<1> USE DEF Deleting, At
<1>0. /\ TypeOK /\ OneDeletes
      /\ pc \in [Process -> Pruning \cup Deleting \cup {"down", "serving"}]
      /\ cur \in [Process -> Entry \cup {None}]
  BY DEF Inv, TypeOK
<1>1. CASE Write \/ Tick \/ UNCHANGED vars
  BY <1>0, <1>1 DEF OneDeletes, Write, Tick, vars
<1>2. ASSUME NEW p \in Process, Quiet(p) PROVE OneDeletes'
  BY <1>0, <1>2 DEF OneDeletes, Quiet, Start, List, Keep, PruneFails, PruneDone, Return,
     DeleteFails, Kill
<1>3. ASSUME NEW p \in Process, Empty(p) PROVE OneDeletes'
  <2>1. \E e \in Entry : cur' = [cur EXCEPT ![p] = e]
    BY <1>0, <1>3, EmptyEffect
  <2> QED
    BY <1>0, <1>3, <2>1 DEF OneDeletes, Empty
<1>4. ASSUME NEW p \in Process, RemoveDir(p) \/ MakeDir(p) \/ Rename(p) PROVE OneDeletes'
  BY <1>0, <1>4 DEF OneDeletes, RemoveDir, MakeDir, Rename
<1>5. ASSUME NEW p \in Process, BeginDelete(p) PROVE OneDeletes'
  <2>1. PICK e \in Entry : cur' = [cur EXCEPT ![p] = e] /\ entry[e] = None
    BY <1>0, <1>5, BeginDeleteEffect
  <2>2. \A q \in Process : pc[q] \in Deleting => cur[q] # e
    BY <1>0, <2>1 DEF TypeOK
  <2> QED
    BY <1>0, <1>5, <2>1, <2>2 DEF OneDeletes, BeginDelete
<1> QED
  BY <1>1, <1>2, <1>3, <1>4, <1>5 DEF Next, Prune, Delete, Quiet

LEMMA UnfinishedStays == ASSUME Inv, [Next]_vars PROVE Unfinished'
<1> DEFINE U(q) == pc[q] \in Deleting =>
                      /\ ~ entry[cur[q]].held /\ entry[cur[q]].answer = "none"
                      /\ (entry[cur[q]].dir = "none") <=> (pc[q] = "mkdir")
<1> SUFFICES ASSUME NEW q \in Process PROVE U(q)'
  BY DEF Unfinished
<1> USE DEF Deleting, At
<1>0. /\ TypeOK /\ U(q)
      /\ pc \in [Process -> Pruning \cup Deleting \cup {"down", "serving"}]
      /\ cur \in [Process -> Entry \cup {None}]
      /\ pc[q] \in Deleting => cur[q] \in Entry /\ entry[cur[q]] \in Deletion
  BY DEF Inv, TypeOK, Unfinished
<1>1. CASE Write \/ Tick \/ UNCHANGED vars
  BY <1>0, <1>1 DEF Write, Tick, vars
<1>2. ASSUME NEW p \in Process, Quiet(p) PROVE U(q)'
  BY <1>0, <1>2 DEF Quiet, Start, List, Keep, PruneFails, PruneDone, Return, DeleteFails, Kill
<1>3. ASSUME NEW p \in Process, Empty(p) PROVE U(q)'
  <2>1. PICK e \in Entry :
           /\ cur' = [cur EXCEPT ![p] = e]
           /\ \A f \in Entry \ {e} : entry'[f] = entry[f]
           /\ ~ OnDisk(e) => entry' = entry
           /\ OnDisk(e) => /\ entry[e] # None /\ entry'[e] # None
                           /\ entry'[e] = [entry[e] EXCEPT !.held = FALSE, !.dir = "empty",
                                                           !.limit = retention[p]]
    BY <1>0, <1>3, EmptyEffect
  <2>2. pc' = [pc EXCEPT ![p] = "rmdir"]
    BY <1>3 DEF Empty
  <2>3. CASE q = p
    BY <1>0, <2>2, <2>3
  <2>4. CASE q # p /\ (cur[q] # e \/ ~ OnDisk(e))
    BY <1>0, <2>1, <2>2, <2>4
  <2>5. CASE q # p /\ cur[q] = e /\ OnDisk(e)
    <3>1. pc[q] \in Deleting => /\ ~ entry'[e].held /\ entry'[e].answer = "none"
                                /\ entry'[e].dir = "empty" /\ pc[q] # "mkdir"
      BY <1>0, <2>1, <2>5 DEF Deletion, OnDisk
    <3> QED
      BY <1>0, <2>1, <2>2, <2>5, <3>1
  <2> QED
    BY <2>3, <2>4, <2>5
<1>4. ASSUME NEW p \in Process, RemoveDir(p) PROVE U(q)'
  <2>1. /\ entry'[cur[p]] = [entry[cur[p]] EXCEPT !.dir = "gone"] /\ cur[p] \in Entry
        /\ \A f \in Entry \ {cur[p]} : entry'[f] = entry[f]
        /\ entry[cur[p]].dir \in {"empty", "gone"}
    BY <1>0, <1>4, RemoveDirEffect DEF Inv, Looked, RemoveDir
  <2>2. pc' = [pc EXCEPT ![p] = "prune"] /\ cur' = [cur EXCEPT ![p] = None]
    BY <1>4 DEF RemoveDir
  <2>3. CASE q # p /\ cur[q] = cur[p]
    <3>1. pc[q] \in Deleting => /\ ~ entry'[cur[p]].held /\ entry'[cur[p]].answer = "none"
                                /\ entry'[cur[p]].dir = "gone" /\ pc[q] # "mkdir"
      BY <1>0, <2>1, <2>3 DEF Deletion
    <3> QED
      BY <1>0, <2>2, <2>3, <3>1
  <2> QED
    BY <1>0, <2>1, <2>2, <2>3
<1>5. ASSUME NEW p \in Process, MakeDir(p) PROVE U(q)'
  <2>1. /\ entry'[cur[p]] = [entry[cur[p]] EXCEPT !.dir = "made", !.made = time]
        /\ cur[p] \in Entry /\ entry[cur[p]] \in Deletion
        /\ \A f \in Entry \ {cur[p]} : entry'[f] = entry[f]
    BY <1>0, <1>5, MakeDirEffect
  <2>2. pc' = [pc EXCEPT ![p] = "rename"] /\ cur' = cur /\ pc[p] = "mkdir"
    BY <1>5 DEF MakeDir
  <2>3. CASE q = p
    BY <1>0, <2>1, <2>2, <2>3 DEF Deletion
  <2>4. CASE q # p
    <3>1. pc[q] \in Deleting => cur[q] # cur[p]
      BY <1>0, <2>2, <2>4 DEF Inv, OneDeletes
    <3> QED
      BY <1>0, <2>1, <2>2, <2>4, <3>1
  <2> QED
    BY <2>3, <2>4
<1>6. ASSUME NEW p \in Process, Rename(p) PROVE U(q)'
  <2>1. /\ \A f \in Entry \ {cur[p]} : entry'[f] = entry[f]
        /\ pc' = [pc EXCEPT ![p] = "serving"] /\ cur' = [cur EXCEPT ![p] = None]
        /\ pc[p] = "rename"
    BY <1>0, <1>6, RenameEffect DEF Rename
  <2>2. CASE q # p
    <3>1. pc[q] \in Deleting => cur[q] # cur[p]
      BY <1>0, <2>1, <2>2 DEF Inv, OneDeletes
    <3> QED
      BY <1>0, <2>1, <2>2, <3>1
  <2> QED
    BY <1>0, <2>1, <2>2
<1>7. ASSUME NEW p \in Process, BeginDelete(p) PROVE U(q)'
  <2>1. PICK e \in Entry :
           /\ entry[e] = None /\ cur' = [cur EXCEPT ![p] = e]
           /\ entry'[e].dir = "none" /\ ~ entry'[e].held /\ entry'[e].answer = "none"
           /\ \A f \in Entry \ {e} : entry'[f] = entry[f]
    BY <1>0, <1>7, BeginDeleteEffect
  <2>2. pc' = [pc EXCEPT ![p] = "mkdir"]
    BY <1>7 DEF BeginDelete
  <2>3. pc[q] \in Deleting => cur[q] # e
    BY <1>0, <2>1 DEF TypeOK
  <2> QED
    BY <1>0, <2>1, <2>2, <2>3
<1> QED
  BY <1>1, <1>2, <1>3, <1>4, <1>5, <1>6, <1>7 DEF Next, Prune, Delete, Quiet

LEMMA LookedStays == ASSUME Inv, [Next]_vars PROVE Looked'
<1> DEFINE Made(e) == entry[e] # None /\ entry[e].dir # "none"
           Gone(e) == entry[e].dir \in {"empty", "gone"}
<1> SUFFICES ASSUME NEW q \in Process
             PROVE  (\A e \in todo[q] : Made(e))' /\ (pc[q] = "rmdir" => Gone(cur[q]))'
  BY DEF Looked
<1> USE DEF Deleting, At
<1>0. /\ TypeOK /\ todo[q] \subseteq Entry
      /\ \A e \in todo[q] : Made(e)
      /\ pc[q] = "rmdir" => Gone(cur[q]) /\ cur[q] \in Entry /\ entry[cur[q]] # None
      /\ pc \in [Process -> Pruning \cup Deleting \cup {"down", "serving"}]
      /\ cur \in [Process -> Entry \cup {None}]
      /\ todo \in [Process -> SUBSET Entry]
  BY DEF Inv, TypeOK, Looked
<1>1. \A e \in Entry : Made(e) => Made(e)'
  BY OneWay
<1>2. \A e \in Entry : entry[e] # None /\ Gone(e) => Gone(e)'
  BY OneWay
<1> HIDE DEF Made, Gone
<1>a. CASE todo'[q] \subseteq todo[q] /\ (pc'[q] = "rmdir" => pc[q] = "rmdir" /\ cur'[q] = cur[q])
  BY <1>0, <1>1, <1>2, <1>a DEF Gone
<1>3. CASE Write \/ Tick \/ UNCHANGED vars
  BY <1>0, <1>3, <1>a DEF Write, Tick, vars
<1>4. ASSUME NEW p \in Process, Keep(p) \/ Start(p) \/ PruneFails(p) \/ PruneDone(p)
                                \/ DeleteFails(p) \/ Kill(p)
      PROVE  todo'[q] \subseteq todo[q] /\ (pc'[q] = "rmdir" => pc[q] = "rmdir" /\ cur'[q] = cur[q])
  BY <1>0, <1>4 DEF Keep, Start, PruneFails, PruneDone, Return, DeleteFails, Kill
<1>5. ASSUME NEW p \in Process, RemoveDir(p) \/ MakeDir(p) \/ Rename(p)
      PROVE  todo'[q] \subseteq todo[q] /\ (pc'[q] = "rmdir" => pc[q] = "rmdir" /\ cur'[q] = cur[q])
  BY <1>0, <1>5 DEF RemoveDir, MakeDir, Rename
<1>6. ASSUME NEW p \in Process, BeginDelete(p)
      PROVE  todo'[q] \subseteq todo[q] /\ (pc'[q] = "rmdir" => pc[q] = "rmdir" /\ cur'[q] = cur[q])
  BY <1>0, <1>6 DEF BeginDelete
<1>7. CASE \E p \in Process : List(p)
  <2>1. PICK p \in Process : List(p)
    BY <1>7
  <2>2. \A e \in Entry : OnDisk(e) => Made(e)
    BY DEF OnDisk, Made
  <2>3. CASE q = p
    BY <1>0, <1>1, <2>1, <2>2, <2>3 DEF List
  <2>4. CASE q # p
    BY <1>0, <1>a, <2>1, <2>4 DEF List
  <2> QED
    BY <2>3, <2>4
<1>8. CASE \E p \in Process : Empty(p)
  <2>1. PICK p \in Process : Empty(p)
    BY <1>8
  <2>2. PICK e \in Entry :
           /\ e \in todo[p] /\ cur' = [cur EXCEPT ![p] = e]
           /\ ~ OnDisk(e) => entry' = entry
           /\ OnDisk(e) => /\ entry[e] # None /\ entry'[e] # None
                           /\ entry'[e] = [entry[e] EXCEPT !.held = FALSE, !.dir = "empty",
                                                           !.limit = retention[p]]
    BY <1>0, <2>1, EmptyEffect
  <2>3. entry[e] \in Deletion /\ entry[e].dir # "none" /\ entry[e] # None
    BY <2>2 DEF Inv, TypeOK, Looked
  <2>4. Gone(e)'
    <3>1. CASE OnDisk(e)
      BY <2>2, <2>3, <3>1 DEF Gone, Deletion
    <3>2. CASE ~ OnDisk(e)
      BY <2>2, <2>3, <3>2 DEF Gone, OnDisk, Deletion
    <3> QED
      BY <3>1, <3>2
  <2>5. todo' = todo /\ pc' = [pc EXCEPT ![p] = "rmdir"]
    BY <2>1 DEF Empty
  <2>6. CASE q = p
    BY <1>0, <1>1, <2>2, <2>4, <2>5, <2>6 DEF Gone
  <2>7. CASE q # p
    BY <1>0, <1>a, <2>2, <2>5, <2>7
  <2> QED
    BY <2>6, <2>7
<1> QED
  BY <1>3, <1>a, <1>4, <1>5, <1>6, <1>7, <1>8 DEF Next, Prune, Delete

\* More time only makes a deletion older.
LEMMA StillOutlived ==
    ASSUME Inv, [Next]_vars, NEW e \in Entry, entry[e] # None, NEW r \in Retention, Outlived(e, r)
    PROVE  Outlived(e, r)'
<1>1. entry'[e].stamp = entry[e].stamp
  BY OneWay
<1>2. time' = time \/ time' = time + 1
  BY DEF Next, Prune, Delete, Start, List, Keep, Empty, RemoveDir, PruneFails, PruneDone,
     Return, BeginDelete, MakeDir, Rename, DeleteFails, Kill, Write, Tick, vars
<1>3. time \in Nat /\ entry[e].stamp \in Nat
  BY TrashConstants DEF Inv, TypeOK, Time, Deletion
<1>4. r * Day \in Nat
  <2>1. r \in Nat /\ Day \in Nat
    BY TrashConstants
  <2> QED
    BY <2>1
<1> QED
  BY <1>1, <1>2, <1>3, <1>4 DEF Outlived, Fits

\* What a prune takes for expired has outlived its retention, at the time it takes it.
LEMMA ExpiredIsOld ==
    ASSUME Inv, NEW p \in Process, retention[p] # None,
           NEW e \in Entry, entry[e] # None, Expired(p, e)
    PROVE  Outlived(e, retention[p])
<1> SUFFICES ASSUME Fits(retention[p])
             PROVE  entry[e].stamp + retention[p] * Day < time
  BY DEF Outlived
<1>1. retention[p] * Day \in Nat /\ Cutoff(p) = started[p] - retention[p] * Day
  BY CutoffIsRight DEF Inv
<1>2. /\ time \in Nat /\ entry[e].stamp \in Nat /\ started[p] \in Nat
      /\ started[p] <= time
  BY TrashConstants DEF Inv, TypeOK, Time, Deletion, StartIsPast
<1> QED
  BY <1>1, <1>2 DEF Expired

LEMMA EntitledStays == ASSUME Inv, [Next]_vars, NEW e \in Entry PROVE Entitled(e)'
<1>0. TypeOK /\ Entitled(e)
  BY DEF Inv
<1>a. ASSUME entry[e] # None, entry'[e].dir \in {"empty", "gone"} => entry[e].dir \in {"empty", "gone"},
             entry'[e].limit = entry[e].limit
      PROVE  Entitled(e)'
  <2>1. entry[e].limit \in Retention \cup {None}
    BY <1>0, <1>a DEF TypeOK, Deletion
  <2>2. entry'[e].limit # None /\ Outlived(e, entry[e].limit) => Outlived(e, entry[e].limit)'
    BY <1>a, <2>1, StillOutlived
  <2> QED
    BY <1>0, <1>a, <2>1, <2>2 DEF Entitled, Outlived
<1>1. CASE entry' = entry
  <2>1. CASE entry[e] # None
    BY <1>1, <1>a, <2>1
  <2>2. CASE entry[e] = None
    BY <1>1, <2>2 DEF Entitled
  <2> QED
    BY <2>1, <2>2
<1>2. CASE Write \/ Tick \/ UNCHANGED vars \/ \E p \in Process : Quiet(p)
  <2>1. entry' = entry
    BY <1>2 DEF Write, Tick, vars, Quiet, Start, List, Keep, PruneFails, PruneDone, Return,
       DeleteFails, Kill
  <2> QED
    BY <2>1, <1>1
<1>3. CASE \E p \in Process : BeginDelete(p)
  <2>1. PICK p \in Process : BeginDelete(p)
    BY <1>3
  <2>2. PICK f \in Entry :
           /\ entry'[f].dir = "none"
           /\ \A g \in Entry \ {f} : entry'[g] = entry[g]
    BY <1>0, <2>1, BeginDeleteEffect
  <2>3. CASE e = f
    BY <2>2, <2>3 DEF Entitled
  <2>4. CASE e # f /\ entry[e] = None
    BY <2>2, <2>4 DEF Entitled
  <2>5. CASE e # f /\ entry[e] # None
    BY <2>2, <2>5, <1>a
  <2> QED
    BY <2>3, <2>4, <2>5
<1>4. CASE \E p \in Process : Empty(p)
  <2>1. PICK p \in Process : Empty(p)
    BY <1>4
  <2>2. PICK f \in Entry :
           /\ f \in todo[p] /\ Expired(p, f)
           /\ \A g \in Entry \ {f} : entry'[g] = entry[g]
           /\ ~ OnDisk(f) => entry' = entry
           /\ OnDisk(f) => /\ entry[f] # None /\ entry'[f] # None
                           /\ entry'[f] = [entry[f] EXCEPT !.held = FALSE, !.dir = "empty",
                                                           !.limit = retention[p]]
    BY <1>0, <2>1, EmptyEffect
  <2>3. CASE e # f /\ entry[e] = None
    BY <2>2, <2>3 DEF Entitled
  <2>4. CASE e # f /\ entry[e] # None
    BY <2>2, <2>4, <1>a
  <2>5. CASE ~ OnDisk(f)
    BY <2>2, <2>5, <1>1
  <2>6. CASE e = f /\ OnDisk(f)
    <3>1. retention[p] # None /\ retention[p] \in Retention
      BY <2>1 DEF Inv, TypeOK, Empty, Pruning
    <3>2. entry[e] # None /\ entry[e] \in Deletion
      BY <2>6, <1>0 DEF OnDisk, TypeOK
    <3>3. Outlived(e, retention[p])
      BY <2>2, <2>6, <3>1, <3>2, ExpiredIsOld
    <3>4. retention' = retention
      BY <2>1 DEF Empty
    <3>5. Outlived(e, retention[p])'
      BY <3>1, <3>2, <3>3, <3>4, StillOutlived DEF Outlived
    <3>6. entry'[e].limit = retention[p]
      BY <2>2, <2>6, <3>2 DEF Deletion
    <3> QED
      BY <3>1, <3>4, <3>5, <3>6 DEF Entitled, Outlived
  <2> QED
    BY <2>3, <2>4, <2>5, <2>6
<1>5. CASE \E p \in Process : RemoveDir(p)
  <2>1. PICK p \in Process : RemoveDir(p)
    BY <1>5
  <2>2. /\ cur[p] \in Entry /\ entry[cur[p]].dir \in {"empty", "gone"}
        /\ entry[cur[p]] # None /\ entry[cur[p]] \in Deletion
        /\ entry'[cur[p]] = [entry[cur[p]] EXCEPT !.dir = "gone"]
        /\ \A f \in Entry \ {cur[p]} : entry'[f] = entry[f]
    BY <1>0, <2>1, RemoveDirEffect DEF Inv, Looked, RemoveDir
  <2>3. CASE e # cur[p] /\ entry[e] = None
    BY <2>2, <2>3 DEF Entitled
  <2>4. CASE e # cur[p] /\ entry[e] # None
    BY <2>2, <2>4, <1>a
  <2>5. CASE e = cur[p]
    <3>1. entry'[e].limit = entry[e].limit
      BY <2>2, <2>5 DEF Deletion
    <3> QED
      BY <2>2, <2>5, <3>1, <1>a
  <2> QED
    BY <2>3, <2>4, <2>5
<1>6. CASE \E p \in Process : MakeDir(p)
  <2>1. PICK p \in Process : MakeDir(p)
    BY <1>6
  <2>2. /\ cur[p] \in Entry /\ entry[cur[p]] \in Deletion
        /\ entry'[cur[p]] = [entry[cur[p]] EXCEPT !.dir = "made", !.made = time]
        /\ \A f \in Entry \ {cur[p]} : entry'[f] = entry[f]
    BY <1>0, <2>1, MakeDirEffect
  <2>3. CASE e # cur[p] /\ entry[e] = None
    BY <2>2, <2>3 DEF Entitled
  <2>4. CASE e # cur[p] /\ entry[e] # None
    BY <2>2, <2>4, <1>a
  <2>5. CASE e = cur[p]
    BY <2>2, <2>5 DEF Deletion, Entitled
  <2> QED
    BY <2>3, <2>4, <2>5
<1>7. CASE \E p \in Process : Rename(p)
  <2>1. PICK p \in Process : Rename(p)
    BY <1>7
  <2>2. /\ cur[p] \in Entry /\ entry[cur[p]] \in Deletion /\ entry[cur[p]] # None
        /\ entry'[cur[p]] =
              IF Found(entry[cur[p]])
              THEN [entry[cur[p]] EXCEPT !.held = TRUE, !.answer = "deleted"]
              ELSE [entry[cur[p]] EXCEPT !.held = FALSE, !.answer = "notFound"]
        /\ \A f \in Entry \ {cur[p]} : entry'[f] = entry[f]
    BY <1>0, <2>1, RenameEffect
  <2>3. CASE e # cur[p] /\ entry[e] = None
    BY <2>2, <2>3 DEF Entitled
  <2>4. CASE e # cur[p] /\ entry[e] # None
    BY <2>2, <2>4, <1>a
  <2>5. CASE e = cur[p]
    <3>1. entry'[e].limit = entry[e].limit /\ entry'[e].dir = entry[e].dir
      <4>1. CASE Found(entry[e])
        BY <2>2, <2>5, <4>1 DEF Deletion
      <4>2. CASE ~ Found(entry[e])
        BY <2>2, <2>5, <4>2 DEF Deletion
      <4> QED
        BY <4>1, <4>2
    <3> QED
      BY <2>2, <2>5, <3>1, <1>a
  <2> QED
    BY <2>3, <2>4, <2>5
<1> QED
  BY <1>2, <1>3, <1>4, <1>5, <1>6, <1>7 DEF Next, Prune, Delete, Quiet

LEMMA PassedOverStays ==
    ASSUME Inv, [Next]_vars, NEW q \in Process, NEW e \in Entry
    PROVE  PassedOver(q, e)'
<1> USE DEF At
<1>0. /\ TypeOK /\ PassedOver(q, e)
      /\ pc \in [Process -> Pruning \cup Deleting \cup {"down", "serving"}]
      /\ todo \in [Process -> SUBSET Entry]
      /\ retention \in [Process -> Retention \cup {None}]
      /\ started \in [Process -> Time]
  BY DEF Inv, TypeOK
<1>1. SUFFICES ASSUME /\ pc'[q] \in {"prune", "rmdir"} /\ Fits(retention'[q])
                      /\ e \notin todo'[q] /\ OnDisk(e)'
                      /\ entry'[e].made < started'[q]
               PROVE  entry'[e].stamp + retention'[q] * Day >= started'[q]
  BY DEF PassedOver, Fits
\* An entry that is on disk was there before, or was made after the start.
<1>2. OnDisk(e) /\ entry'[e].made = entry[e].made /\ entry'[e].stamp = entry[e].stamp
  <2>1. started'[q] \in Nat /\ started'[q] <= time' /\ time \in Nat
    BY NextTypeOK, StartIsPastStays, TrashConstants DEF StartIsPast, Inv, TypeOK, Time
  <2>2. CASE entry[e] = None
    <3>1. \E p \in Process : BeginDelete(p)
      <4>1. CASE Write \/ Tick \/ UNCHANGED vars \/ \E p \in Process : Quiet(p)
        BY <4>1, <2>2, <1>1 DEF Write, Tick, vars, Quiet, Start, List, Keep, PruneFails, PruneDone,
           Return, DeleteFails, Kill, OnDisk
      <4>2. ASSUME NEW p \in Process, Empty(p) PROVE FALSE
        BY <1>0, <4>2, <2>2, <1>1, EmptyEffect DEF OnDisk
      <4>3. ASSUME NEW p \in Process, RemoveDir(p) \/ MakeDir(p) \/ Rename(p) PROVE FALSE
        BY <1>0, <4>3, <2>2, <1>1, RemoveDirEffect, MakeDirEffect, RenameEffect DEF OnDisk
      <4> QED
        BY <4>1, <4>2, <4>3 DEF Next, Prune, Delete, Quiet
    <3> QED
      BY <1>0, <1>1, <2>2, <3>1, BeginDeleteEffect DEF OnDisk
  <2>3. CASE entry[e] # None /\ entry[e].dir = "none"
    <3>1. entry'[e].made = time /\ time' = time
      <4>1. entry'[e].made = time
        BY <1>1, <2>3, OneWay DEF OnDisk
      <4>2. entry' # entry
        BY <1>1, <2>3 DEF OnDisk
      <4> QED
        BY <4>1, <4>2 DEF Next, Prune, Delete, Start, List, Keep, Empty, RemoveDir, PruneFails,
           PruneDone, Return, BeginDelete, MakeDir, Rename, DeleteFails, Kill, Write, Tick, vars
    <3> QED
      BY <1>1, <2>1, <3>1
  <2>4. CASE entry[e] # None /\ entry[e].dir # "none"
    <3>1. entry[e].dir \in {"made", "empty", "gone"}
      BY <1>0, <2>4 DEF TypeOK, Deletion
    <3> QED
      BY <1>1, <2>4, <3>1, OneWay DEF OnDisk
  <2> QED
    BY <2>2, <2>3, <2>4
<1>3. CASE /\ pc[q] \in {"prune", "rmdir"} /\ e \notin todo[q]
           /\ retention'[q] = retention[q] /\ started'[q] = started[q]
  BY <1>0, <1>1, <1>2, <1>3 DEF PassedOver
<1>4. ASSUME NEW p \in Process, p # q, Prune(p) \/ Delete(p) \/ Kill(p)
      PROVE  /\ pc'[q] = pc[q] /\ todo'[q] = todo[q]
             /\ retention'[q] = retention[q] /\ started'[q] = started[q]
  BY <1>0, <1>4 DEF Prune, Delete, Start, List, Keep, Empty, RemoveDir, PruneFails, PruneDone,
     Return, BeginDelete, MakeDir, Rename, DeleteFails, Kill
<1>11. CASE \E p \in Process \ {q} : Prune(p) \/ Delete(p) \/ Kill(p)
  BY <1>1, <1>3, <1>4, <1>11
<1>5. CASE Write \/ Tick \/ UNCHANGED vars
  BY <1>1, <1>3, <1>5 DEF Write, Tick, vars
<1>6. CASE Start(q) \/ PruneFails(q) \/ PruneDone(q) \/ Kill(q) \/ Delete(q)
  BY <1>0, <1>1, <1>6 DEF Start, PruneFails, PruneDone, Return, Kill, Delete, BeginDelete, MakeDir,
     Rename, DeleteFails
<1>7. CASE List(q)
  BY <1>0, <1>1, <1>2, <1>7 DEF List
<1>8. CASE Keep(q)
  <2>1. PICK f \in Entry : First(q, f) /\ ~ Expired(q, f) /\ todo' = [todo EXCEPT ![q] = @ \ {f}]
    BY <1>8 DEF Keep
  <2>2. /\ pc[q] = "prune" /\ pc' = pc /\ retention' = retention /\ started' = started
        /\ retention[q] # None
    BY <1>0, <1>8 DEF Keep, TypeOK, Pruning
  <2>3. CASE e # f
    BY <1>0, <1>1, <1>3, <2>1, <2>2, <2>3
  <2>4. CASE e = f
    <3>1. retention[q] * Day \in Nat /\ Cutoff(q) = started[q] - retention[q] * Day
      BY <1>0, <1>1, <2>2, CutoffIsRight
    <3>2. entry[e].stamp \in Nat /\ started[q] \in Nat
      BY <1>0, <1>2, TrashConstants DEF TypeOK, Time, Deletion, OnDisk
    <3>3. ~ (entry[e].stamp < Cutoff(q))
      BY <2>1, <2>4 DEF Expired
    <3> QED
      BY <1>2, <2>2, <3>1, <3>2, <3>3
  <2> QED
    BY <2>3, <2>4
<1>9. CASE Empty(q)
  <2>1. todo' = todo /\ retention' = retention /\ started' = started /\ pc[q] = "prune"
    BY <1>9 DEF Empty
  <2> QED
    BY <1>1, <1>3, <2>1
<1>10. CASE RemoveDir(q)
  <2>1. /\ pc[q] = "rmdir" /\ todo' = [todo EXCEPT ![q] = @ \ {cur[q]}]
        /\ retention' = retention /\ started' = started
    BY <1>10 DEF RemoveDir
  <2>2. entry'[cur[q]].dir = "gone"
    BY <1>0, <1>10, RemoveDirEffect DEF Deletion
  <2>3. e # cur[q]
    BY <1>1, <2>2 DEF OnDisk
  <2>4. e \notin todo[q]
    BY <1>0, <1>1, <2>1, <2>3
  <2> QED
    BY <1>3, <2>1, <2>4
<1> QED
  BY <1>5, <1>6, <1>7, <1>8, <1>9, <1>10, <1>11 DEF Next, Prune

LEMMA InitInv == Init => Inv
<1> SUFFICES ASSUME Init PROVE Inv
  OBVIOUS
<1>1. TypeOK
  BY TrashConstants DEF Init, TypeOK, Time, Pruning, Deleting
<1>2. StartIsPast /\ OneDeletes /\ Unfinished /\ Looked
  BY DEF Init, StartIsPast, OneDeletes, Unfinished, Looked, Deleting
<1>3. \A e \in Entry : Entitled(e) /\ \A p \in Process : PassedOver(p, e)
  BY DEF Init, Entitled, PassedOver
<1> QED
  BY <1>1, <1>2, <1>3 DEF Inv

THEOREM Invariance == Spec => []Inv
<1>1. Inv /\ [Next]_vars => Inv'
  BY NextTypeOK, StartIsPastStays, OneDeletesStays, UnfinishedStays, LookedStays, EntitledStays,
     PassedOverStays DEF Inv
<1> QED
  BY InitInv, <1>1, PTL DEF Spec

------------------------------------------------------------------------------
(***************************************************************************)
(* The properties of the model-checking run, for every instance            *)
(***************************************************************************)

\* Deletions and directories are of their types, and a process is at work on an entry
\* exactly where it has one.
THEOREM TypeCorrect == Spec => []TypeOK
<1>1. Inv => TypeOK
  BY DEF Inv
<1> QED
  BY <1>1, Invariance, PTL

InFolder(e) == entry[e] # None /\ entry[e].held => HasFolder(entry[e])

LEMMA InFolderStays ==
    ASSUME TypeOK, [Next]_vars, NEW e \in Entry, InFolder(e)
    PROVE  InFolder(e)'
<1>0. entry[e] # None => entry[e] \in Deletion
  BY DEF TypeOK
<1>1. CASE entry' = entry
  BY <1>1 DEF InFolder, HasFolder
<1>2. CASE Write \/ Tick \/ UNCHANGED vars \/ \E p \in Process : Quiet(p)
  BY <1>1, <1>2 DEF Write, Tick, vars, Quiet, Start, List, Keep, PruneFails, PruneDone, Return,
     DeleteFails, Kill
<1>3. ASSUME NEW p \in Process, Empty(p) PROVE InFolder(e)'
  <2>1. entry'[e] = entry[e] \/ ~ entry'[e].held
    BY <1>0, <1>3, EmptyEffect DEF Deletion
  <2> QED
    BY <2>1 DEF InFolder, HasFolder
<1>4. ASSUME NEW p \in Process, RemoveDir(p) PROVE InFolder(e)'
  <2>1. entry'[e] = entry[e] \/ ~ entry'[e].held
    BY <1>4, RemoveDirEffect DEF RemoveDir, Deletion
  <2> QED
    BY <2>1 DEF InFolder, HasFolder
<1>5. ASSUME NEW p \in Process, BeginDelete(p) PROVE InFolder(e)'
  <2>1. entry'[e] = entry[e] \/ ~ entry'[e].held
    BY <1>5, BeginDeleteEffect
  <2> QED
    BY <2>1 DEF InFolder, HasFolder
<1>6. ASSUME NEW p \in Process, MakeDir(p) PROVE InFolder(e)'
  <2>0. /\ entry[cur[p]] \in Deletion
        /\ entry'[cur[p]] = [entry[cur[p]] EXCEPT !.dir = "made", !.made = time]
        /\ e # cur[p] => entry'[e] = entry[e]
    BY <1>6, MakeDirEffect
  <2>1. entry'[e] = entry[e] \/ entry'[e].dir = "made"
    BY <2>0 DEF Deletion
  <2> QED
    BY <2>1 DEF InFolder, HasFolder
<1>7. ASSUME NEW p \in Process, Rename(p) PROVE InFolder(e)'
  <2>0. /\ entry[cur[p]] \in Deletion
        /\ entry'[cur[p]] =
              IF Found(entry[cur[p]])
              THEN [entry[cur[p]] EXCEPT !.held = TRUE, !.answer = "deleted"]
              ELSE [entry[cur[p]] EXCEPT !.held = FALSE, !.answer = "notFound"]
        /\ e # cur[p] => entry'[e] = entry[e]
    BY <1>7, RenameEffect
  <2>1. \/ entry'[e] = entry[e]
        \/ ~ entry'[e].held
        \/ /\ HasFolder(entry[e])
           /\ entry'[e].dir = entry[e].dir /\ entry'[e].path = entry[e].path
    BY <2>0 DEF Deletion, Found
  <2> QED
    BY <2>1 DEF InFolder, HasFolder
<1> QED
  BY <1>2, <1>3, <1>4, <1>5, <1>6, <1>7 DEF Next, Prune, Delete, Quiet

\* A note in the trash lies in a folder that is there, however many servers prune and
\* delete at the same time.
THEOREM WellFormedAlways == Spec => []WellFormed
<1> DEFINE Folders == \A e \in Entry : InFolder(e)
<1>1. Init => Folders
  BY DEF Init, InFolder
<1>2. TypeOK /\ Folders /\ [Next]_vars => Folders'
  BY InFolderStays
<1>3. TypeOK /\ Folders => WellFormed
  BY DEF WellFormed, InFolder
<1> QED
  BY <1>1, <1>2, <1>3, TypeCorrect, PTL DEF Spec

LEMMA NotesLeaveLate ==
    ASSUME Inv, [Next]_vars, NEW e \in Entry, entry[e] # None, entry[e].held, ~ entry'[e].held
    PROVE  \E p \in Process : pc[p] = "prune" /\ Outlived(e, retention[p])
<1>0. TypeOK /\ entry[e] \in Deletion
  BY DEF Inv, TypeOK
<1>1. CASE \E p \in Process : Empty(p)
  <2>1. PICK p \in Process : Empty(p)
    BY <1>1
  <2>2. Expired(p, e)
    BY <1>0, <2>1, EmptyEffect
  <2>3. pc[p] = "prune" /\ retention[p] # None
    BY <1>0, <2>1 DEF Empty, TypeOK, Pruning
  <2> QED
    BY <2>2, <2>3, ExpiredIsOld
<1>2. ASSUME NEW p \in Process, BeginDelete(p) PROVE FALSE
  BY <1>0, <1>2, BeginDeleteEffect
<1>3. ASSUME NEW p \in Process, RemoveDir(p) \/ MakeDir(p) PROVE FALSE
  BY <1>0, <1>3, RemoveDirEffect, MakeDirEffect DEF Deletion
<1>4. ASSUME NEW p \in Process, Rename(p) PROVE FALSE
  <2>1. cur[p] \in Entry /\ \A f \in Entry \ {cur[p]} : entry'[f] = entry[f]
    BY <1>0, <1>4, RenameEffect
  <2>2. ~ entry[cur[p]].held
    BY <1>4 DEF Inv, Unfinished, Rename, Deleting
  <2> QED
    BY <2>1, <2>2
<1>5. CASE Write \/ Tick \/ UNCHANGED vars \/ \E p \in Process : Quiet(p)
  BY <1>5 DEF Write, Tick, vars, Quiet, Start, List, Keep, PruneFails, PruneDone, Return,
     DeleteFails, Kill
<1> QED
  BY <1>1, <1>2, <1>3, <1>4, <1>5 DEF Next, Prune, Delete, Quiet

\* A note leaves the trash only once a retention of a server that prunes has passed
\* since it was deleted, for any number of servers and any retentions.
THEOREM RetentionIsKeptAlways == Spec => RetentionIsKept
<1> DEFINE Step == \A e \in Entry : entry[e] # None /\ entry[e].held /\ ~ entry'[e].held =>
                      \E p \in Process : pc[p] = "prune" /\ Outlived(e, retention[p])
<1>1. Inv /\ [Next]_vars => [Step]_vars
  BY NotesLeaveLate
<1> HIDE DEF Step
<1>2. Spec => [][Step]_vars
  BY <1>1, Invariance, PTL DEF Spec
<1> QED
  BY <1>2 DEF RetentionIsKept, Step

LEMMA NotFoundIsDeserved ==
    ASSUME Inv, [Next]_vars, NEW e \in Entry, entry[e] # None, entry'[e].answer = "notFound",
           entry[e].answer = "none", entry[e].path \in note
    PROVE  entry[e].limit # None /\ Outlived(e, entry[e].limit)
<1>0. TypeOK /\ entry[e] \in Deletion
  BY DEF Inv, TypeOK
<1>1. CASE \E p \in Process : Rename(p)
  <2>1. PICK p \in Process : Rename(p)
    BY <1>1
  <2>2. /\ cur[p] \in Entry /\ entry[cur[p]] \in Deletion
        /\ entry'[cur[p]] =
              IF Found(entry[cur[p]])
              THEN [entry[cur[p]] EXCEPT !.held = TRUE, !.answer = "deleted"]
              ELSE [entry[cur[p]] EXCEPT !.held = FALSE, !.answer = "notFound"]
        /\ \A f \in Entry \ {cur[p]} : entry'[f] = entry[f]
        /\ pc[p] = "rename"
    BY <1>0, <2>1, RenameEffect DEF Rename
  <2>3. e = cur[p]
    BY <2>2
  <2>4. ~ HasFolder(entry[e])
    BY <2>2, <2>3 DEF Deletion, Found
  <2>5. entry[e].dir # "none"
    BY <2>2, <2>3 DEF Inv, Unfinished, Deleting
  <2>6. entry[e].dir \in {"empty", "gone"}
    BY <1>0, <2>4, <2>5 DEF HasFolder, Deletion
  <2> QED
    BY <2>6 DEF Inv, Entitled
<1>2. CASE \E p \in Process : Empty(p)
  <2>1. PICK p \in Process : Empty(p)
    BY <1>2
  <2>2. PICK f \in Entry :
           /\ \A g \in Entry \ {f} : entry'[g] = entry[g]
           /\ ~ OnDisk(f) => entry' = entry
           /\ OnDisk(f) => /\ entry[f] # None /\ entry'[f] # None
                           /\ entry'[f] = [entry[f] EXCEPT !.held = FALSE, !.dir = "empty",
                                                           !.limit = retention[p]]
    BY <1>0, <2>1, EmptyEffect
  <2>3. e = f /\ OnDisk(f)
    BY <2>2
  <2> QED
    BY <1>0, <2>2, <2>3 DEF Deletion
<1>3. ASSUME NEW p \in Process, BeginDelete(p) \/ RemoveDir(p) \/ MakeDir(p) PROVE FALSE
  <2>1. ASSUME BeginDelete(p) PROVE FALSE
    BY <1>0, <2>1, BeginDeleteEffect
  <2>2. ASSUME RemoveDir(p) PROVE FALSE
    BY <1>0, <2>2, RemoveDirEffect DEF Deletion
  <2>3. ASSUME MakeDir(p) PROVE FALSE
    <3>1. /\ entry[cur[p]] \in Deletion
          /\ entry'[cur[p]] = [entry[cur[p]] EXCEPT !.dir = "made", !.made = time]
          /\ e # cur[p] => entry'[e] = entry[e]
      BY <1>0, <2>3, MakeDirEffect
    <3> QED
      BY <3>1 DEF Deletion
  <2> QED
    BY <1>3, <2>1, <2>2, <2>3
<1>4. CASE Write \/ Tick \/ UNCHANGED vars \/ \E p \in Process : Quiet(p)
  BY <1>4 DEF Write, Tick, vars, Quiet, Start, List, Keep, PruneFails, PruneDone, Return,
     DeleteFails, Kill
<1> QED
  BY <1>1, <1>2, <1>3, <1>4 DEF Next, Prune, Delete, Quiet

\* "Not found" of a note that is there is only ever answered by a deletion that has
\* outlasted the retention of a server that pruned meanwhile.
THEOREM DeleteAnswersAreTrueAlways == Spec => DeleteAnswersAreTrue
<1> DEFINE Step == \A e \in Entry :
                      entry[e] # None /\ entry'[e].answer = "notFound" /\ entry[e].answer = "none"
                      /\ entry[e].path \in note
                      => entry[e].limit # None /\ Outlived(e, entry[e].limit)
<1>1. Inv /\ [Next]_vars => [Step]_vars
  BY NotFoundIsDeserved
<1> HIDE DEF Step
<1>2. Spec => [][Step]_vars
  BY <1>1, Invariance, PTL DEF Spec
<1> QED
  BY <1>2 DEF DeleteAnswersAreTrue, Step

\* A prune that ends without an error has removed all that had expired when the server
\* started, however many servers prune and delete at the same time.
THEOREM PruneIsCompleteAlways == Spec => PruneIsComplete
<1> DEFINE Step == \A p \in Process :
                      pc[p] = "prune" /\ todo[p] = {} /\ pc'[p] = "serving" /\ Fits(retention[p]) =>
                          \A e \in Entry : OnDisk(e) /\ entry[e].made < started[p]
                              => entry[e].stamp + retention[p] * Day >= started[p]
<1>1. Inv => Step
  BY DEF Inv, PassedOver
<1> HIDE DEF Step
<1>2. Spec => [][Step]_vars
  BY <1>1, Invariance, PTL DEF Spec
<1> QED
  BY <1>2 DEF PruneIsComplete, Step
===============================================================================
