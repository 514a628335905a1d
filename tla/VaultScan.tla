------------------------------- MODULE VaultScan -------------------------------
(***************************************************************************)
(* The calls that read the whole vault, or a folder, or a list of notes,   *)
(* while others change it.  WalkNotes (internal/vault/walk.go) takes no    *)
(* lock: it lists a folder when it comes to it and calls back for each     *)
(* note of the listing, in the order of the names, and the callback opens  *)
(* what is there by then.  An answer is computed from what was read at     *)
(* different times of a vault that may never have been in that state.      *)
(*                                                                         *)
(* Callers: search_regex, search_notes ("bm25"), get_recent_changes,       *)
(* audit_notes, the vault_health_check prompt, list_all_tags and           *)
(* get_vault_stats; and, with a loop of their own instead of the walk,     *)
(* list_directory and read_multiple_notes or get_notes_info ("batch").     *)
(*                                                                         *)
(* Nodes are numbered in the order of the walk.  A note is at a path; a    *)
(* move leaves one path for another.  What the calls can tell apart of a   *)
(* text is given by functions of it; a text that a writer has truncated    *)
(* and not yet written is a text like any other.  Folders stay, but files  *)
(* and folders may be out of reach for a time.                             *)
(*                                                                         *)
(* A file name is the sequence of its parts between dots, as in            *)
(* LinkRewrite; lower case is a function of the parts.                     *)
(***************************************************************************)
EXTENDS Integers, Sequences, FiniteSets

CONSTANTS
    Note, Dir,          \* paths of notes and of folders
    Root,               \* the folder that is the vault
    Parent,             \* [Note \cup Dir -> Dir \cup {Root}]
    Name, FileName,     \* names, and that of each note with its extension
    Md,                 \* the extension that a link may leave out
    Lower,              \* strings.ToLower of a part of a name
    Place,              \* where the stem of a note stands in the order of the stems
    Named,              \* notes whose path the pattern or a term of the query matches
    Text,               \* texts of notes
    Hits,               \* matching lines, or occurrences, in each text
    LongAt,             \* matching lines before a line over 64 KB; None without one
    Tagged,             \* texts with tags
    Links,              \* link targets in each text; Root where no folder is named
    Locked, Big,        \* "texts" of files that cannot be opened, or are over 10 MB
    Limit,              \* effective limits: one result at least
    PerFile,            \* maxMatchesPerFile
    Cap,                \* maxBM25Docs, maxAuditNotes, maxAggregateTagsNotes
    Batch,              \* MaxBatch
    Wanted,             \* path scopes, and lists of paths, that are asked for
    Shown,              \* how many of each class vault_health_check lists
    Initial,            \* vaults that a call may find
    Faults,             \* sets of files and folders that may be out of reach
    MaxChanges,         \* bound on the changes meanwhile
    None, Missing       \* no note, or nothing read yet; nothing there to read

Node == Note \cup Dir
Time == 0..MaxChanges
Link == [folder : Dir \cup {Root}, name : Name]
Kind == {"regex", "bm25", "recent", "batch", "audit", "health", "tags", "stats", "list"}

Call == [kind : Kind, limit : Limit, scope : {"path", "content", "both"},
         since : Time, wanted : Wanted \cup {Note}]

Path(n)    == [folder |-> Parent[n], name |-> FileName[n]]
Bare(link) == link.folder = Root

\* filepath.Ext takes off the last part, whatever it means.
TrimExt(name)   == IF Len(name) > 1 THEN [i \in 1..Len(name) - 1 |-> name[i]] ELSE name
LowerCase(name) == [i \in DOMAIN name |-> Lower[name[i]]]
Stem(n)         == TrimExt(FileName[n])
StemLower(n)    == LowerCase(Stem(n))

\* The walk comes to a folder before what is in it.
ASSUME ScanConstants ==
    /\ Note \cap Dir = {} /\ Root \notin Node
    /\ IsFiniteSet(Node) /\ Node = 1..Cardinality(Node)
    /\ Parent \in [Node -> Dir \cup {Root}]
    /\ \A n \in Node : Parent[n] # Root => Parent[n] < n
    /\ IsFiniteSet(Name) /\ Name \subseteq Seq(DOMAIN Lower) /\ FileName \in [Note -> Name]
    /\ \A n, m \in Note : Path(n) = Path(m) => n = m
    /\ Place \in [Note -> Nat] /\ Named \subseteq Note /\ Shown \in Nat
    /\ Hits \in [Text -> Nat] /\ LongAt \in [Text -> Nat \cup {None}]
    /\ Links \in [Text -> SUBSET Link]
    /\ Tagged \subseteq Text /\ Locked \subseteq Text /\ Big \subseteq Text
    /\ Limit \subseteq Nat \ {0} /\ PerFile \in Nat \ {0} /\ Cap \in Nat /\ Batch \in Nat
    /\ Wanted \subseteq SUBSET Note
    /\ None \notin Text /\ None \notin Call /\ Missing \notin Text \cup {None}
    /\ Initial \subseteq [Note -> Text \cup {None}] /\ MaxChanges \in Nat
    /\ {} \in Faults /\ Faults \subseteq SUBSET Node
    /\ \A out \in Faults : \A n \in Node : Parent[n] \in out => n \in out

VARIABLES
    note,           \* the text at each path
    mtime,          \* and when it was written
    barred,         \* files and folders that are out of reach
    changes,        \* the number of changes so far, which is the clock
    call,           \* what is asked
    phase,          \* "idle", "walk", "tags" (between two reads), "more" (pages), "done"
    todo,           \* what is listed and not yet visited
    saw,            \* what the callbacks read
    when,           \* modification times they read
    tags,           \* the notes of which ListTags found tags
    offset,         \* of the page
    got,            \* how often each entry was on a page
    answer,
    stable,         \* paths nobody has touched since the call began, in reach all the time
    ever,           \* texts there have been meanwhile, with their paths
    came, went      \* the number of entries of the folder that have appeared, disappeared

walk  == <<todo, saw, when, tags>>
ghost == <<stable, ever, came, went>>
vars  == <<note, mtime, barred, changes, call, phase, walk, offset, got, answer, ghost>>

Answer == [error : BOOLEAN, truncated : BOOLEAN, found : SUBSET Node, count : 0..Cardinality(Note),
           orphans : SUBSET Note, untagged : SUBSET Note, dangling : SUBSET (Note \X Link),
           twins : SUBSET Note]

Blank == [error |-> FALSE, truncated |-> FALSE, found |-> {}, count |-> 0,
          orphans |-> {}, untagged |-> {}, dangling |-> {}, twins |-> {}]

Nothing == /\ saw' = [n \in Note |-> None] /\ when' = [n \in Note |-> 0]
           /\ tags' = {}

Init ==
    /\ note \in Initial
    /\ mtime = [n \in Note |-> 0]
    /\ barred = {} /\ changes = 0
    /\ call = None /\ phase = "idle" /\ answer = None
    /\ todo = {} /\ saw = [n \in Note |-> None] /\ when = [n \in Note |-> 0] /\ tags = {}
    /\ offset = 0 /\ got = [e \in Node |-> 0]
    /\ stable = {} /\ ever = {} /\ came = 0 /\ went = 0

Exists(n) == n \in Dir \/ note[n] # None
Listing(d) == {n \in Node : Parent[n] = d /\ Exists(n)}

\* The k members of S that come first by rank, in any order where ranks are equal.
Leading(S, k, rank) ==
    {D \in SUBSET S : /\ IF Cardinality(S) <= k THEN D = S ELSE Cardinality(D) = k
                      /\ \A d \in D, e \in S \ D : rank[d] <= rank[e]}

Before(S, e) == Cardinality({f \in S : f < e})
InOrder == [n \in Node |-> n]
First(n) == n \in todo /\ \A m \in todo : n <= m

------------------------------------------------------------------------------
\* A call begins

\* clampBatch keeps the first paths of the list.
Asked(c) == {n \in c.wanted : Before(c.wanted, n) < Batch}

Plain(c) == /\ c.kind # "regex" => c.scope = "both"
            /\ c.kind # "recent" => c.since = 0
            /\ c.kind \notin {"bm25", "batch"} => c.wanted = Note

Start ==
    /\ phase = "idle"
    /\ \E c \in Call :
          /\ Plain(c)
          /\ call' = c
          /\ todo' = CASE c.kind = "batch" -> Asked(c)
                       [] c.kind = "list"  -> Listing(Root) \ Dir
                       [] OTHER -> Listing(Root)
    /\ phase' = "walk"
    /\ stable' = {n \in Node : Exists(n)} \ barred
    /\ ever' = {<<n, note[n]>> : n \in {m \in Note : note[m] # None}}
    /\ UNCHANGED <<note, mtime, barred, changes, saw, when, tags, offset, got, answer, came, went>>

------------------------------------------------------------------------------
\* The walk

Visited == {n \in Note : saw[n] # None}
Seen    == {n \in Note : saw[n] \in Text}

\* ReadNote and AggregateTags refuse what is over 10 MB; the others read with
\* os.ReadFile; Stat opens nothing.
Stats(kind) == kind \in {"recent", "list"}
Readable(kind, t) == /\ t # None
                     /\ ~ Stats(kind) => t \notin Locked
                     /\ kind \in {"batch", "tags", "health"} => t \notin Big

InReach(kind, n) == IF Stats(kind) THEN Parent[n] \notin barred ELSE n \notin barred

View_Bug(n) ==              \* after an error, what was read before is taken for the text
    IF Readable(call.kind, note[n]) /\ InReach(call.kind, n) THEN note[n]
    ELSE IF \E m \in Seen : m < n
         THEN saw[CHOOSE m \in Seen : m < n /\ \A k \in Seen : k < n => k <= m]
         ELSE Missing

View(n) == IF Readable(call.kind, note[n]) /\ InReach(call.kind, n) THEN note[n] ELSE Missing

\* A match of search_regex, by the path or by what scanFileMatches finds.
Matches(c, n, t) == \/ c.scope \in {"path", "both"} /\ n \in Named
                    \/ c.scope \in {"content", "both"} /\ t \in Text /\ Hits[t] > 0

Found == {n \in Visited : Matches(call, n, saw[n])}

\* The scanner comes to a line it has no buffer for before it has enough matches.
Overlong(t) == LongAt[t] # None /\ LongAt[t] < PerFile
Aborts(n)   == /\ call.kind = "regex" /\ call.scope # "path"
               /\ View(n) \in Text /\ Overlong(View(n))

Full_Bug == call.kind = "regex" /\ Cardinality(Visited) >= call.limit    \* notes, not results

\* A callback returns SkipAll when there is enough.
Full == CASE call.kind = "regex" -> Cardinality(Found) >= call.limit
          [] call.kind = "bm25"  -> Cardinality(Seen) >= Cap
          [] call.kind \in {"audit", "tags"} -> Cardinality(Visited) >= Cap
          [] OTHER -> FALSE

\* A folder that cannot be read is passed over, without a word.
Enter ==
    /\ phase = "walk"
    /\ \E d \in Dir :
          /\ First(d)
          /\ todo' = (todo \ {d}) \cup (IF d \in barred THEN {} ELSE Listing(d))
    /\ UNCHANGED <<note, mtime, barred, changes, call, phase, saw, when, tags, offset, got, answer, ghost>>

Visit ==
    /\ phase = "walk" /\ ~ Full
    /\ \E n \in Note :
          /\ First(n) /\ ~ Aborts(n)
          /\ IF call.kind = "bm25" /\ n \notin call.wanted
             THEN UNCHANGED <<saw, when>>
             ELSE /\ saw' = [saw EXCEPT ![n] = View(n)]
                  /\ when' = [when EXCEPT ![n] = IF call.kind = "recent" THEN mtime[n] ELSE 0]
          /\ IF call.kind = "health" /\ View(n) \in Text
             THEN phase' = "tags" /\ todo' = todo
             ELSE phase' = phase /\ todo' = todo \ {n}
    /\ UNCHANGED <<note, mtime, barred, changes, call, tags, offset, got, answer, ghost>>

\* vault_health_check reads the note again for its tags; an error is no tags.
ReadTags ==
    /\ phase = "tags"
    /\ \E n \in Note :
          /\ First(n)
          /\ tags' = IF View(n) \in Tagged THEN tags \cup {n} ELSE tags
          /\ todo' = todo \ {n}
    /\ phase' = "walk"
    /\ UNCHANGED <<note, mtime, barred, changes, call, saw, when, offset, got, answer, ghost>>

SkipAll ==
    /\ phase = "walk" /\ Full
    /\ \E n \in Note : First(n)
    /\ todo' = {}
    /\ UNCHANGED <<note, mtime, barred, changes, call, phase, saw, when, tags, offset, got, answer, ghost>>

\* The call fails: a line is too long for search_regex, or the client has gone.
Fail ==
    /\ phase \in {"walk", "tags"}
    /\ answer' = [Blank EXCEPT !.error = TRUE]
    /\ phase' = "done" /\ todo' = {} /\ Nothing
    /\ UNCHANGED <<note, mtime, barred, changes, call, offset, got, ghost>>

TooLong  == phase = "walk" /\ ~ Full /\ (\E n \in Note : First(n) /\ Aborts(n)) /\ Fail
Canceled == Fail

------------------------------------------------------------------------------
\* The answer

Answers(a) == answer' = a /\ UNCHANGED <<offset, got>>

\* Twice the number of occurrences, and half of it again for a title that matches.
Score(n, t) == IF t \in Text THEN Hits[t] * (IF n \in Named THEN 3 ELSE 2) ELSE 0

\* The order of search_notes, score and then path, as one number.
ByScore == [n \in Node |-> n - IF n \in Note THEN Score(n, saw[n]) * (Cardinality(Node) + 1) ELSE 0]
ByTime  == [n \in Node |-> IF n \in Note THEN -when[n] ELSE 0]

Search == call.kind = "regex" /\ Answers([Blank EXCEPT !.found = Found])

Rank == /\ call.kind = "bm25"
        /\ \E D \in Leading({n \in Seen : Score(n, saw[n]) > 0}, call.limit, ByScore) :
              Answers([Blank EXCEPT !.found = D])

Recent == /\ call.kind = "recent"
          /\ \E D \in Leading({n \in Seen : when[n] >= call.since}, call.limit, ByTime) :
                Answers([Blank EXCEPT !.found = D])

ReadBatch == /\ call.kind = "batch"
             /\ Answers([Blank EXCEPT !.found = Seen,
                                      !.truncated = Cardinality(call.wanted) > Batch])

Count == /\ call.kind \in {"tags", "stats"}
         /\ Answers([Blank EXCEPT !.count = Cardinality({n \in Seen : saw[n] \in Tagged})])

\* The notes an audit knows: audit_notes counts what it could not read,
\* vault_health_check does not.
Known     == IF call.kind = "audit" THEN Visited ELSE Seen
HasTags   == IF call.kind = "audit" THEN {n \in Seen : saw[n] \in Tagged} ELSE tags
LinksOf(n) == IF n \in Seen THEN Links[saw[n]] ELSE {}

\* stemToPath: the last note of a name in the order of the walk for audit_notes, and
\* any of them for vault_health_check, which goes through a Go map.
Indexes ==
    {index \in [{StemLower(n) : n \in Known} -> Known] :
        \A n \in Known : /\ StemLower(index[StemLower(n)]) = StemLower(n)
                         /\ call.kind = "audit" => n <= index[StemLower(n)]}

\* The name a link is looked up by.  resolveAuditLink drops the folder and what follows
\* the last dot; vault_health_check takes the target as it is, and no stem has a folder.
Keys(link) == IF call.kind = "audit" THEN {LowerCase(TrimExt(link.name))}
              ELSE IF Bare(link) THEN {LowerCase(link.name)} ELSE {}

WithMd(link) == [link EXCEPT !.name = Append(@, Md)]

\* resolveAuditLink tries the path, and the path with ".md", before the name.
AtPath(link) ==
    LET At(path) == {n \in Known : call.kind = "audit" /\ Path(n) = path}
    IN  IF At(link) # {} THEN At(link) ELSE At(WithMd(link))

\* The note a link leads to, as a set of at most one.
Resolved(index, link) ==
    IF AtPath(link) # {} THEN AtPath(link)
    ELSE {index[key] : key \in Keys(link) \cap DOMAIN index}

Incoming_Bug(index) ==                   \* a note's own links count
    {n \in Known : \E m \in Known : \E link \in LinksOf(m) : n \in Resolved(index, link)}

Incoming(index) ==
    {n \in Known : \E m \in Known : /\ call.kind = "audit" => m # n
                                    /\ \E link \in LinksOf(m) : n \in Resolved(index, link)}

Dangling(index) == {p \in Known \X Link : p[2] \in LinksOf(p[1]) /\ Resolved(index, p[2]) = {}}
BySource == [p \in Note \X Link |-> p[1]]
Twins    == {n \in Known : \E m \in Known \ {n} : Stem(m) = Stem(n)}
ByStem   == [n \in Node |-> IF n \in Note THEN Place[n] * (Cardinality(Node) + 1) + n ELSE 0]

\* audit_notes cuts each class at the limit, vault_health_check after ten in the order
\* of a Go map, and twins by their names; both say so.
Most == IF call.kind = "audit" THEN call.limit ELSE Shown

Cut(S) == Cardinality(S) > Most

Selected(S, rank) == Leading(S, Most, IF call.kind = "audit" THEN rank ELSE [x \in S |-> 0])

SelectedTwins ==
    IF call.kind = "audit" THEN Selected(Twins, ByStem)
    ELSE {{n \in Twins : Stem(n) \in D} : D \in Selected({Stem(n) : n \in Twins}, ByStem)}

Report ==
    /\ call.kind \in {"audit", "health"}
    /\ \E index \in Indexes :
          LET orphans  == Known \ (HasTags \cup Incoming(index))
              untagged == Known \ HasTags
              dangling == Dangling(index)
              twins    == IF call.kind = "audit" THEN Twins ELSE {Stem(n) : n \in Twins}
          IN  \E O \in Selected(orphans, InOrder), U \in Selected(untagged, InOrder),
                 D \in Selected(dangling, BySource), T \in SelectedTwins :
                 Answers([Blank EXCEPT
                     !.orphans = O, !.untagged = U, !.dangling = D, !.twins = T,
                     !.truncated = Cut(orphans) \/ Cut(untagged) \/ Cut(dangling) \/ Cut(twins)])

Return ==
    /\ phase = "walk" /\ todo = {} /\ call.kind # "list"
    /\ Search \/ Rank \/ Recent \/ ReadBatch \/ Count \/ Report
    /\ phase' = "done" /\ Nothing
    /\ UNCHANGED <<note, mtime, barred, changes, call, todo, ghost>>

\* One page of list_directory: sorted by name, from the offset, at most the limit.
Entries == Seen \cup {d \in Dir : Parent[d] = Root}
OnPage_Bug ==                            \* the offset is the last entry of the page before
    {e \in Entries : Before(Entries, e) \in offset + 1..offset + call.limit}
OnPage == {e \in Entries : Before(Entries, e) \in offset..offset + call.limit - 1}
MoreToCome == Cardinality(Entries) > offset + call.limit

Page ==
    /\ phase = "walk" /\ todo = {} /\ call.kind = "list"
    /\ answer' = [Blank EXCEPT !.found = OnPage, !.truncated = MoreToCome]
    /\ got' = [e \in Node |-> got[e] + IF e \in OnPage THEN 1 ELSE 0]
    /\ phase' = IF MoreToCome THEN "more" ELSE "done"
    /\ Nothing
    /\ UNCHANGED <<note, mtime, barred, changes, call, todo, offset, ghost>>

\* The client asks for the next page.
NextPage ==
    /\ phase = "more"
    /\ offset' = offset + call.limit
    /\ todo' = Listing(Root) \ Dir
    /\ phase' = "walk" /\ answer' = None
    /\ UNCHANGED <<note, mtime, barred, changes, call, saw, when, tags, got, ghost>>

\* The client has its answer, and asks for no more of it.
Close ==
    /\ phase \in {"done", "more"}
    /\ phase' = "idle" /\ call' = None /\ answer' = None
    /\ offset' = 0 /\ got' = [e \in Node |-> 0]
    /\ stable' = {} /\ ever' = {} /\ came' = 0 /\ went' = 0
    /\ UNCHANGED <<note, mtime, barred, changes, walk>>

------------------------------------------------------------------------------
\* Meanwhile: another call, which has the mutex and needs no other, or another program

Becomes(new, times) ==
    /\ phase \in {"walk", "tags", "more"} /\ changes < MaxChanges
    /\ changes' = changes + 1
    /\ note' = new /\ mtime' = times
    /\ LET Gone == {n \in Note : new[n] = None /\ note[n] # None}
           Come == {n \in Note : new[n] # None /\ note[n] = None}
           Here(S) == Cardinality({n \in S : Parent[n] = Root})
       IN  /\ stable' = stable \ {n \in Note : <<new[n], times[n]>> # <<note[n], mtime[n]>>}
           /\ ever' = ever \cup {<<n, new[n]>> : n \in {m \in Note : new[m] # None}}
           /\ went' = went + Here(Gone) /\ came' = came + Here(Come)
    /\ UNCHANGED <<barred, call, phase, walk, offset, got, answer>>

Write == \E n \in Note, t \in Text :
            Becomes([note EXCEPT ![n] = t], [mtime EXCEPT ![n] = changes + 1])

Delete == \E n \in Note : note[n] # None
             /\ Becomes([note EXCEPT ![n] = None], [mtime EXCEPT ![n] = 0])

\* A rename keeps the time.
Move == \E n, m \in Note : note[n] # None /\ note[m] = None
           /\ Becomes([note EXCEPT ![n] = None, ![m] = note[n]],
                      [mtime EXCEPT ![n] = 0, ![m] = mtime[n]])

\* Another program holds files, or a folder cannot be read; or all is well again.
Bar == /\ phase \in {"walk", "tags", "more"} /\ changes < MaxChanges
       /\ changes' = changes + 1
       /\ \E out \in Faults \ {barred} : barred' = out /\ stable' = stable \ out
       /\ UNCHANGED <<note, mtime, call, phase, walk, offset, got, answer, ever, came, went>>

Next == \/ Start \/ Enter \/ Visit \/ ReadTags \/ SkipAll \/ TooLong \/ Canceled
        \/ Return \/ Page \/ NextPage \/ Close
        \/ Write \/ Delete \/ Move \/ Bar

Spec == Init /\ [][Next]_vars

------------------------------------------------------------------------------
\* Properties

\* The locals of a call are of their types and at rest when there is none; what a
\* callback reads was at that path meanwhile, and an untouched path is as it was.
TypeOK ==
    /\ note \in [Note -> Text \cup {None}]
    /\ mtime \in [Note -> Time] /\ changes \in Time /\ barred \in Faults
    /\ call \in Call \cup {None} /\ answer \in Answer \cup {None}
    /\ phase \in {"idle", "walk", "tags", "more", "done"}
    /\ (call = None <=> phase = "idle")
    /\ todo \subseteq Node /\ (phase \notin {"walk", "tags"} => todo = {})
    /\ saw \in [Note -> Text \cup {None, Missing}]
    /\ when \in [Note -> Time]
    /\ tags \subseteq Note /\ (phase \notin {"walk", "tags"} => Visited = {} /\ tags = {})
    /\ offset \in Nat /\ got \in [Node -> Nat]
    /\ stable \subseteq Node \ barred /\ came \in Nat /\ went \in Nat
    /\ ever \subseteq Note \X Text
    /\ \A n \in Seen : <<n, saw[n]>> \in ever
    /\ \A n \in stable \cap Note : note[n] # None

Done(kinds) == answer # None /\ call.kind \in kinds /\ ~ answer.error

Was(n)     == \E t \in Text : <<n, t>> \in ever
UnderCap   == Cardinality({n \in Note : Was(n)}) <= Cap
Stays(n)   == n \in stable /\ Readable(call.kind, note[n])

\* A count of notes is at least the number of those that nobody touches and at most
\* the number of those there have been: a note that is moved may count twice or not
\* at all.  Beyond Cap list_all_tags counts no more.
CountIsBounded ==
    Done({"tags", "stats"}) =>
        /\ answer.count <= Cardinality({n \in Note : \E t \in Tagged : <<n, t>> \in ever})
        /\ call.kind = "stats" \/ UnderCap =>
              Cardinality({n \in Note : Stays(n) /\ note[n] \in Tagged}) <= answer.count

\* A search finds every note that matches and that nobody touches, whatever is written,
\* moved or deleted meanwhile; what it leaves out comes after what it lists, and what
\* it lists did match.  Exceptions: beyond Cap notes search_notes looks at no more,
\* without a word.  (A note that is moved during the walk may be missed.)  Counts are
\* bounded in the same way.
SearchFindsWhatStays ==
    /\ Done({"regex"}) =>
          /\ \A n \in stable \cap Note : Matches(call, n, View(n)) =>
                \/ n \in answer.found
                \/ Cardinality(answer.found) = call.limit /\ \A m \in answer.found : m < n
          /\ \A n \in answer.found : n \in Named \/ \E t \in Text : <<n, t>> \in ever /\ Hits[t] > 0
    /\ Done({"bm25"}) =>
          /\ UnderCap => \A n \in call.wanted : Stays(n) /\ Score(n, note[n]) > 0 =>
                \/ n \in answer.found
                \/ /\ Cardinality(answer.found) = call.limit
                   /\ \A m \in answer.found \cap stable : Score(m, note[m]) >= Score(n, note[n])
          /\ \A n \in answer.found : \E t \in Text : <<n, t>> \in ever /\ Score(n, t) > 0
    /\ Done({"recent"}) =>
          \A n \in Note : Stays(n) /\ mtime[n] >= call.since =>
              \/ n \in answer.found
              \/ /\ Cardinality(answer.found) = call.limit
                 /\ \A m \in answer.found \cap stable : mtime[m] >= mtime[n]
    /\ Done({"batch"}) =>
          \A n \in call.wanted : Stays(n) => n \in answer.found \/ (answer.truncated /\ n \notin Asked(call))
    /\ CountIsBounded

\* The link leads to a note, whether or not its name is ambiguous: by its path, which
\* may lack ".md", or by its name without regard to case.  audit_notes looks for the part
\* of a name before its last dot, so that a link without extension to a note with a dot
\* in its name is none to it; for vault_health_check one with an extension or a folder
\* is none.
Names(link, n) ==
    IF call.kind = "audit"
    THEN \/ Path(n) = link
         \/ Path(n) = WithMd(link) /\ \A m \in Note : Was(m) => Path(m) # link
         \/ /\ Bare(link) /\ \A m \in Note : Was(m) => Path(m) \notin {link, WithMd(link)}
            /\ \/ LowerCase(link.name) = LowerCase(FileName[n])
               \/ Len(link.name) = 1 /\ LowerCase(link.name) = StemLower(n)
    ELSE Bare(link) /\ LowerCase(link.name) = StemLower(n)

\* What keeps a link from being reported as dangling.
MayLead(link, n) == \/ call.kind = "audit" /\ Path(n) = WithMd(link)
                    \/ StemLower(n) \in Keys(link)

Alone(n) == \A m \in Note : Was(m) /\ StemLower(m) = StemLower(n) => m = n

\* What an audit says of notes that nobody touches or holds is true, and without
\* "truncated" it is all there is to say of them: no tags, no links to it, a link that
\* leads nowhere, a stem of another note.  Exceptions, all silent: the notes beyond Cap; a
\* file audit_notes cannot read has no tags and no links; the links to a name that two
\* notes share, up to case, count for one of them; those that Names leaves out, so that
\* [[v1.2]] is dangling for audit_notes unless there is a note v1, also if it leads to
\* sub/v1.2.md; and vault_health_check does not see files it cannot read.
AuditIsTrue ==
    Done({"audit", "health"}) /\ (call.kind = "audit" => UnderCap) =>
        LET NoTags(n) == note[n] \notin Tagged
            Other(m, n) == call.kind = "audit" => m # n
        IN  /\ \A n \in answer.untagged : Stays(n) => NoTags(n)
            /\ \A n \in answer.orphans : Stays(n) /\ Alone(n) =>
                  /\ NoTags(n)
                  /\ \A m \in Note : Stays(m) /\ Other(m, n) =>
                        \A link \in Links[note[m]] : ~ Names(link, n)
            /\ \A p \in answer.dangling : Stays(p[1]) =>
                  /\ p[2] \in Links[note[p[1]]]
                  /\ \A n \in Note : Stays(n) => ~ Names(p[2], n)
            /\ \A n \in answer.twins : \E m \in Note \ {n} : Was(m) /\ Stem(m) = Stem(n)
            /\ ~ answer.truncated =>
                  /\ \A n \in Note : Stays(n) /\ NoTags(n) =>
                        /\ n \in answer.untagged
                        /\ \/ n \in answer.orphans
                           \/ \E p \in ever : \E link \in Links[p[2]] :
                                 Other(p[1], n) /\ MayLead(link, n)
                  /\ \A m \in Note : Stays(m) => \A link \in Links[note[m]] :
                        \/ <<m, link>> \in answer.dangling
                        \/ \E n \in Note : Was(n) /\ MayLead(link, n)
                  /\ \A n, m \in Note : Stays(n) /\ Stays(m) /\ n # m /\ Stem(n) = Stem(m) =>
                        n \in answer.twins

\* A client that pages through a folder to the end misses at most as many of the
\* entries that stay as entries have disappeared meanwhile, and gets at most as many
\* of them twice as have appeared: an entry that comes or goes shifts the others.
PagesAreComplete ==
    Done({"list"}) /\ ~ answer.truncated =>
        LET staying == {e \in stable : Parent[e] = Root}
        IN  /\ Cardinality({e \in staying : got[e] = 0}) <= went
            /\ Cardinality({e \in staying : got[e] > 1}) <= came
===============================================================================
