# TLA+ models of obsidian-mcp-server

`obsidian-mcp-server` is an MCP server that lets a language-model client read and
change an Obsidian vault, a directory tree of Markdown notes, over stdio or HTTP.
The modules in this directory model the parts of it where concurrency, failure and
time matter, TLC checks them on small instances, and TLAPS proves the safety properties of
all of them, and the refinement, for every instance. Paths below are relative to the
repository; `vault/` is `internal/vault/`, and so on.

## 1. The system

| Component | State it keeps | Operations | Status |
|---|---|---|---|
| **Vault service, mutating calls** (`vault/vault.go`, `mutators.go`, `replace.go`, `frontmatter.go`, `tags.go`, `renametag.go`, `linkrewrite.go`, `etag.go`) | the files; one `sync.Mutex` | WriteNote, PatchNote, UpdateFrontmatter, AddTag, RemoveTag, ReplaceInNote, DeleteNote, MoveNote, RewriteLinksOnMove, RenameTag, PruneTrash | `VaultNotes`, `LinkRewrite`, `NoteText`, `Trash` |
| **Tool handlers** (`tools/`) | none (a read-only switch at registration) | one handler per tool; `get_periodic_note` reads, writes and reads | those that change notes: `VaultNotes`; lists of periodic notes: `PeriodicNotes` |
| **Path resolution and filters** (`vault.go`, `pathfilter.go`) | none | sanitizePath, resolveSymlink, existenceCheck, PathFilter | not modelled |
| **Readers** (`walk.go`, `stats.go`, `links.go`, `outline.go`, `tags.go`; the read-only tools) | none | walks over the vault without the lock | walks, audits and listings under changes: `VaultScan`; the walk behind the cache: `ResourceCache`; GetBacklinks: `LinkRewrite`; ListTags, GetNoteOutline: `NoteText` |
| **Cached resources** (`resources/cache.go`, `vault.go`) | answer, root mtime and time of the last walk; a mutex | `get`: serve or recompute | `ResourceCache` |
| **Other resources and prompts** | none | read and format | `vault_health_check`: `VaultScan`; `weekly_review`: `PeriodicNotes` |
| **Periodic notes** (`periodic/`) | the configuration, cached at its first use | path of the note for a date and offset, lists of dates | `PeriodicNotes` |
| **Search** (`search/`) | none (an index per query) | BM25 and regex search | walk, caps, limits and order of the results: `VaultScan` |
| **HTTP transport** (`httptransport/`) | session map with a mutex; token and certificate files; server life | middleware chain, Generate/Validate/Terminate, sweeper, Run | `HttpSessions`, `StateDir` |
| **Configuration and start-up** (`config/`, `cmd/`) | none after start | flags, wiring, signal, the prune of the trash | the prune: `Trash` |
| **Markdown fences** (`markdown/fence.go`) | a line automaton | which lines and characters are code | `NoteText` |
| **Responses, tokens, packaging** | a table loaded once | formatting | not modelled |

### How the parts interact

Every tool call and resource request is a goroutine of its own. A mutating call goes
from its handler to one method of `vault.Service`, which checks the path, takes
`Service.mu`, reads, checks (`if_match`, existence, the size cap), edits and writes
the file with `os.WriteFile`, which truncates first. The vault-wide walks
(`rename_tag`, the link rewriting of `move_note`) read each note *without* the
mutex and take it only for each write. Readers never take it. The resources walk
the same files under a mutex of their own cache. Over HTTP, a request passes the
middleware chain before mcp-go asks the session store about its session and calls
the tool. Obsidian itself and file synchronisation change the same files with no
lock at all, and so do other servers: over stdio every client starts one of its own, and
each prunes the trash of the vault when it starts.

### What is hard, and what correctness means

* *Vault.* Lost updates between a read and its write; an etag that is stale when it
  is used; a move onto a note created a moment ago; a deleted note coming back; a
  crash or a full disk between truncation and write; an error path that keeps the
  mutex; a walk that is cut short. Correct means: a locked call acts atomically on
  the current content, a condition holds at the moment of the change, acknowledged
  text survives, notes vanish only into the trash, to a destination or on request,
  and every call returns.
* *Cache.* What is cached may be older than the vault; walks are long and fail;
  mtimes are coarse. Correct means: a bound on the age, no answer older than an
  earlier one, a recomputed answer that misses nothing, every request answered.
* *HTTP.* Sweeps with the time of an old tick race requests; ids are presented by
  the wrong client; streams never end. Correct means: only the owner uses or ends a
  session, sessions end once and on time, shutdown ends.
* *State files.* Crashes between two files or in the middle of one, first starts at the
  same time. Correct means: every server serves with one token and one matching pair,
  and a later start loads what is there or makes what is missing.
* *Links.* Positions that shift while a line is rewritten; names that match in more
  than one way; an index that is older or younger than the move. Correct means: the
  links that are reported change and nothing else does, whoever linked to the note
  still does, and a dry run predicts the move.
* *Text.* Readers and writers of tags with patterns of their own; separators that a match
  consumes; code that looks like text and text that becomes code. Correct means: an edit
  of a tag changes the list of tags by that tag only, and a patch nothing outside its
  section.
* *Trash.* Several processes prune and delete without a common lock; a removal of a
  directory is more than one step; a retention in days overflows 64 bits of nanoseconds.
  Correct means: nothing leaves before its time, and an answer tells the truth.
* *Scans.* A walk lists each folder when it gets there, reads what is there by then, and
  stops at caps; pages are counted off in listings of different times. Correct means: what
  is said of the notes that nobody touched meanwhile is true and complete.
* *Periodic notes.* The clock is read several times in a call, months have different
  lengths, weeks have years of their own, and the configuration is cached without a lock.
  Correct means: a path names the date it is listed with, and a list has no gaps.

`PROJECT.json` lists every hazard at its line with the properties that cover it.

## 2. Modules

### `VaultNotes`: mutating calls

A note is the *set of pieces of text* in it: one piece per call (the text that call
contributes) and `Block`, the one passage of the original text that edits address:
the heading of `patch_note`, the tag, the link or the pattern. That is enough to see
a lost, duplicated-away or resurrected text; the etag, a hash of the content, is the
content, and the size is the number of pieces.

| Variable | Code |
|---|---|
| `note`, `trash` | the files of the vault; entries under `.obsidian-mcp/trash` |
| `mu` | `Service.mu` |
| `pc`, `req`, `ifMatch`, `at` | where a call is, its arguments, its `if_match`, the note it works on |
| `base`, `next` | the bytes it read; the bytes it will write |
| `todo` | the notes `WalkNotes` has still to visit |
| `res`, `faults` | the answer; how many crashes and I/O errors happened |

`Start` and `Refuse` are the handler up to the mutex. One action per method
(`WriteNote`, `PatchNote`, `UpdateFrontmatter`, `AddTag`, `RemoveTag`,
`ReplaceInNote`, `DeleteNote`, `MoveNote`) is what it does from the lock to the first
change of a file: all checks, in the order of the code, with their answers. The
change itself is `Truncate` then `Store`, or `Remove`, or `Rename`, which also give
the mutex back. `SweepRead`, `SweepWrite`, `SweepDone` are a walk, note by note;
`PeriodicLookup` and `PeriodicReread` surround the write of `get_periodic_note`.
`AppendUnread`, `SweepUnread`, `PeriodicUnread`, `StorePart`, `IOFails`,
`SweepCancelled` and `Crash` are the failures. Only `write_note` and the walks' writes and
replacements compare the result with the size cap; the other edits, as in the code, can
leave a note that no call reads again, and `CappedWritesReadable` leaves them out. An edit
of keys or of a pattern keeps `Block` or takes it out (`Edited`); a tag that is already there
may still be written again, since the frontmatter is marshalled anew (`tags.go:286`).
`ChecksHold` joins what the handlers check before they write: `EditsAreCurrent`,
`IfMatchHolds` and `MoveNeverClobbers`; `WellFormed` is the type invariant with the
discipline of the mutex: it is held exactly by the call in a critical section.

`rename_tag` says that it writes to notes "already known ... to exist"
(`renametag.go:68`); but it read them without the lock, and so does the link rewriting
of `move_note`. A note deleted in between is written back, and an edit in between is
overwritten. `NoResurrection` and `AckedEditSurvives` are therefore about requests
without these walks.

### `NoteStore` and `VaultRefinement`: what the vault promises

`NoteStore` is the promise: updates, deletions and moves that happen at one instant,
on the content of that instant, only if the condition holds. No lock, no truncation,
no order of checks. `VaultRefinement` maps `VaultNotes` to it (`Committed` hides the
truncated file while a call is storing) and states `AtomicNotes`.

### `ResourceCache`

The vault is two version numbers: the entries of its root directory, the only change
that moves the root's mtime, and everything below. `Request`, `Lock`, `Lookup`
(clock, `os.Stat`, freshness, the answer from the cache), `ListRoot` and `ReadNotes`
(the walk), `WalkFails` (an error is rendered as a text and cached like data), `Fill`.
`ChangeRoot`, `ChangeDeep` and `Tick` are the environment. The cache has one instance
per resource; the model is of one. An edit in place does not move the root's mtime: an
answer may miss it until the TTL has passed, which is what the bound on the age
in `AnswersAreFresh` allows.

### `HttpSessions`

`Chain` gives the status the middleware answers with; `TurnAway` and `Admit` are the
two outcomes; `Generate`, `Validate`, `Terminate` and `Refuse` are the
`SessionIdManager`, one critical section each; `TickerFires` and `Sweep` separate the
time in the ticker's channel from the moment the sweeper uses it; `Cancel`, `Stop`
and `GiveUp` are the end of `Run`. That `initialize` generates, calls validate and
DELETE terminates is mcp-go's part, external to this repository. A `Credential` is
the hash of token and client certificate.

### `StateDir`

One action per access to a file in the start of a server, since nothing excludes other
starts (a server is at a `stage`, which ends in serving or not): `ReadToken`, `ReadCert` and `ReadKey` (which compares the pair, as
`tls.LoadX509KeyPair` does), `Open` (the file exists and is empty) and `FillToken`,
`FillFirst`, `FillSecond`. `IOFails`, `Killed` and `Shutdown` end a server. A secret is
the name of the server that generated it; `overlap` remembers whether two starts ever
ran at the same time, which is what `OneIdentity` in
`ServingIsSound`, and `NextStartSucceeds`, exclude.

Starts that do overlap may serve different tokens, or the empty text one of them read
before another had written it; a start killed between `Open` and `FillToken` leaves an
empty token for all later ones. The code does nothing against that, and no property
says that it does: `NextStartSucceeds` is about the pair of key and certificate.

### `LinkRewrite`

`move_note` seen from the text, one call at a time. A file name is a sequence of parts
between dots, since `filepath.Ext` cuts at the last dot whatever it means; a line is a
sequence of cells, and a link a run of them, so that a splice at a wrong offset does in
the model what it does to the bytes. `MatchTargets`, `RewriteTarget`, `IsAmbiguous`,
`RewriteLine` are the functions of `linkrewrite.go`; `Preview`, `MoveNote`
and `MoveOnly` are MoveNote with `dryRun`, with and without `updateLinks`. `AsReported`
is the reference: the line with each reported link replaced in its place. The names, the paths,
the width of a name and the lines a vault may start with are constants, so that the
theorems hold for links of any length and any number of them in a line. Anchors, aliases and
percent-encoding are left out; with an anchor, a Markdown link is one for `rewriteLine`
(`linkrewrite.go:23`) and none for `get_backlinks` (`links.go:20`).

The code has two tests of whether a link leads to a note, and so has the model. `LeadsTo` is
that of `GetBacklinks`, which trims the target (`links.go:49-53`); `Matches` is that of
`rewriteLine`, which does not (`linkrewrite.go:210-213`), so that `[[a |x]]` is a backlink
that a move neither rewrites nor reports. What has the form of a Markdown link (`Piece`) is a
link only if its path ends in `.md` (`IsLink`). `BacklinksFollow` states which backlinks
follow a move and which do not: a link with white space stays as it is; a Markdown link is lost
when the note is moved to a name without `.md`; and an ambiguous link when the name changes.
It is about lines in which no matching Markdown link stands before a matching wikilink
(`InOrder`); `link_splice` shows the others.

A bare link that "also matches some other note ... is reported but left untouched, never
guessed at" (`linkrewrite.go:110`). The code does guess: when the move changes the name and
one other note keeps the old one, and when a dot that is part of a name makes a link lead to
two notes. `NamesakesDecide` states what it does for every bare link: it counts the notes that have,
after the move, the stem the link is looked up by, leaves the link alone from two on, and
otherwise rewrites it, also if it leads elsewhere. The findings in `PROJECT.json` record where
this differs from the comment. Two weaknesses are
not in the properties because no comment promises otherwise: a path link to a note that
is moved to the root becomes a bare one, and with it open to ambiguity at the next
move; and a note's links to itself are never rewritten.

### `NoteText`

The text of one note under `patch_note`, `manage_tags` and `rename_tag`, one call at a
time. Lines (`NoteLine`) are fence delimiters, headings or prose; prose is a sequence of tags
and of the characters that matter to the two patterns and to `stripInlineCode`: a backtick, a
space, and one of several bytes, with at least one of them between two tags. `FenceStep` is the automaton that `StripCodeFences`,
RemoveTag and `renameInlineTag` each have a copy of; `Line` is `FenceOpener`, since taking
a tag away can leave a line of backticks and make code of what follows. `Hidden` is
`stripInlineCode`, which the list of tags uses and the edits do not. `Hits` are the
occurrences a pattern finds from left to right, `Without` and `Renamed` the two
replacements, `AddToFrontmatter`, `SectionEnd` and `PatchNote` the functions of those names.
The loops over lines and characters are recursive functions (`OpenAfter`, the scans of
`Hidden` and `Hits`, `Dropping`), one step of each being an operator of its own
(`FenceStep`, `CodeStep`, `HitStep`), so that the proofs can speak of them. An entry of the
frontmatter that is empty, which every reader skips, is left out.

The properties say in their hypotheses where the code does less than one would expect,
and TLC shows that nothing else needs an exception. Of two occurrences with a single
character between them, the second is not found (`renametag.go:149`, `tags.go:391`): after
"#a #a" a renaming reports one and leaves the other. A removal takes the character after
the tag away, also a backtick; and of "the leading non-tag character" it means to keep
(`tags.go:413`) it keeps the first byte, as a character, so that a dash before the tag
becomes a letter. A
scalar of several tags becomes one entry when one is added, and is neither renamed in nor
removed from. A tag added below a code block that is never closed is code. Lines of code
that look like headings are headings for `patch_note` and the outline alike. And content
that opens a code block and does not close it makes code of what follows: `PatchesAreLocal`
is about contents that close what they open.

### `Trash`

Server processes on one vault. `Start` and `List` are the beginning of `PruneTrash` at the
start of a process, `Keep`, `Empty` and `RemoveDir` its loop: `os.RemoveAll` first empties
a directory and then removes it. `BeginDelete`, `MakeDir` and `Rename` are a
`delete_note` into the trash: the timestamp, `os.MkdirAll` and `os.Rename`, between which another
process may prune. `PruneFails`, `DeleteFails` and `Kill` are the failures. A duration is
an integer of a bounded width and `Wrap` its overflow: a retention beyond 106751 days, which
the configuration accepts, puts the cutoff anywhere, also into the future, where it empties
the trash. `RetentionIsKept` and `PruneIsComplete` are about retentions that fit.
`WellFormed` says next to the types that a note in the trash is in a folder that is there,
which is what a prune and a deletion in the middle of each other could break.

### `VaultScan`

Every call that reads many notes, with writes, moves and deletions between any two of its
reads. `Enter`, `Visit` and `SkipAll` are `WalkNotes` and its callbacks; `ReadTags` is the
second read of a note by `vault_health_check`; `Search`, `Rank`, `Recent`, `ReadBatch`,
`Count` and `Report` compute the answers of the calls from what was seen, `Page` and
`NextPage` those of `list_directory`. A text is what the calls can tell apart of it: its
matches, a line over 64 KB, tags, links, and whether it can be opened at all. `Bar` puts
files, or a folder with what is in it, out of reach for a time: a read then fails although
nobody has changed the note, and a folder is passed over without a word (`walk.go:21-28`).
`stable` is the notes that nobody has touched since the call began and that were in reach all
the time, and the properties are about them.

A name is a sequence of parts between dots, as in `LinkRewrite`. The code uses three different
keys of a note and the model keeps them apart: its path (`Path`), its stem in lower case, by
which links are looked up (`StemLower`, `Indexes`), and its stem as it is, by which duplicates
are found (`Stem`, `Twins`); `A.md` and `sub/a.md` collide for links only. `Keys` is what a
link is looked up by: `audit_notes` takes off the folder and what follows the last dot
(`audit.go:288-290`), so that `[[v1.2]]` is looked up as `v1` and is dangling although
`sub/v1.2.md` is there; `vault_health_check` takes the target as it is. `Names` is the
reference: which links the two find. The health check lists ten of each class
(`Shown`), `audit_notes` as many as its limit.

What the properties have to except is what the code does silently. `search_notes`, `audit_notes`
and `list_all_tags` stop after `maxBM25Docs`, `maxAuditNotes` and `maxAggregateTagsNotes` notes.
`audit_notes` counts a note it cannot read as one without tags and links. The health check
reports every link by path, or with an extension, as dangling, and drops the error of its second
read: a note out of reach at that moment has no tags.
One line over 64 KB makes all of `search_regex` fail, unless the limit was reached
before. A note that is moved during a walk is missed or counted twice.

### `PeriodicNotes`

`Begin` reads the clock for the dates of a list; `UseCache`, `FindNoCache`, `ReadFile` and
`StoreCache` are `LoadConfig`, which nothing locks; `Resolve` reads the clock again for
each path. `AddDate` and `ISOWeek` are those of package `time`. The properties say when the
two clocks may differ (over midnight), when two configurations may be in use (two calls
were the first to read it), and where a list has a gap: a month before the 31st may be a
month later than one thinks, because `applyOffset` relies on `AddDate`, which normalises 31 February
into March.

### The other modules

`MCVaultNotes`, `MCResourceCache`, `MCHttpSessions`, `MCStateDir`, `MCLinkRewrite`,
`MCNoteText`, `MCTrash`, `MCVaultScan`, `MCPeriodicNotes` instantiate for TLC.
`VaultNotesProofs`, `ResourceCacheProofs`, `HttpTransportProofs`, `TrashProofs`,
`LinkRewriteProofs`, `NoteTextProofs`, `PeriodicNotesProofs` and `VaultScanProofs` hold the
proofs. `HttpTransportProofs` extends both `HttpSessions` and `StateDir`, whose names are
therefore different (`StateInit`, `StateNext`, `StateTypeOK`). Operators named `X_Bug...` are
wrong versions of the mapped definition `X`, one for each property: with `X` replaced by it
the run of that property fails, which shows that the property and the instance can tell.

## 3. Runs

| Run | Instance | What it shows |
|---|---|---|
| `vault_locked` | 3 calls, 1 fault, 2 paths, cap 2; every locked operation on `p1`, append, move and delete of `p2`; etags on append and move | no interleaving breaks the safety properties, and `VaultNotes` implements `NoteStore` |
| `vault_sweeps` | 2 calls, 1 fault, fairness; renames, link rewriting, periodic notes, edits | walks under races, crashes and I/O errors; every call returns |
| `cache` | 2 requests, TTL 2, clock to 2, one change of each kind, fairness | age, order and completeness of answers, and that they come |
| `http` | 2 requests, 2 credentials, 1 id, TTL 1, clock to 3, fairness | who may use and who may end a session; expired sessions leave; `Run` returns |
| `state_dir` | 3 starts, 2 faults | what servers serve with, what an interrupted start leaves |
| `links` | 1 move of any note, lines of up to 2 links, with white space in a target or not, up to 2 other notes on 6 paths, among them `a.txt` and `a.2.md` | the answer of a move is what happened, which backlinks follow, dry runs predict, when a link with several meanings is rewritten |
| `text` | 2 edits; every line of up to 4 characters of 5 kinds, or of 5 of 4 kinds, with 6 kinds of frontmatter; every note of up to 3 lines of 8 kinds | tags that are added, removed or renamed are listed so, and patches are local |
| `trash` | 2 processes, 2 notes, one in a folder, 2 deletions, retentions of 1 day and of 4, which wraps; durations to 3, clock to 2 | nothing leaves the trash early, deletions answer truly, prunes are complete |
| `scan` | 4 paths of notes, whose names differ in case, in the extension and by a dot that is none, one folder, 5 texts, 4 vaults, 2 changes or failures; cap 3, limits 1 and 2, batches of 2 | searches, audits, counts and pages are right about the notes that stay |
| `periodic` | 2 callers; the ends of a month, a leap February, a year and an ISO year; 1 midnight, 1 edit of the file, lists of 2 | paths name their dates, lists have no gaps |

The violation runs each refute one sentence of the documentation:

| Run | What the documentation says | What the code does |
|---|---|---|
| `vault_periodic` | `createIfMissing` creates "the note if it does not exist" (`tools/periodic.go:28`) | it overwrites a note that appeared after the lookup, or that could not be read |
| `link_splice` | replacements run "right-to-left by byte offset so earlier replacements don't invalidate later ones' indices" (`linkrewrite.go:200`) | all Markdown links of a line are replaced before its wikilinks; after one that stands first the offsets are wrong, and the line is corrupted or the call panics |

Four more disagreements are stated by properties that pass, because these say exactly what the
code does instead: what becomes of ambiguous links (`NamesakesDecide`), backlinks that do not
follow a move (`BacklinksFollow`), links to names with a dot that `audit_notes` takes for
dangling (`AuditIsTrue`), and the second of two adjacent tags (`TagEditsAreListed`).

*Why the bounds are enough.* A violation of the vault properties needs a victim, a
call that interferes between two of its steps and, for moves and deletions, a third;
and two paths, since a call names at most two. A cap of 2 is reached by one append to
a note with its block. One fault covers each kind of failure at each step; faults
do not enable each other except through the file they leave. Two requests
suffice for the cache since the mutex serialises all but the waiting; its clock
passes the TTL and its vault changes before, during and after a walk. One id with
an owner and a stranger is enough for the sessions, whose records never refer to each
other; the clock to 3 lets a session be issued late, expire and be swept by an old
tick. Of three servers two can overlap, or two can fail, before a third starts. Links in
different lines do not affect each other, and of two links in a line each can shift the
other; two more notes make a name ambiguous before and after a move, and a note that is moved to
`a.txt` or to `a.2.md`, or from there, changes its extension or has a dot in its name. In a line of five characters a tag has neighbours on
both sides and their neighbours; three lines open a code block, hide a heading and close
it, or nest sections; the second edit works on what the first left. Two processes and two
deletions meet in every order, a third would meet them in pairs. A scan distinguishes notes
before, at and after the place it has come to, a folder among them, twins by name, and a
vault above and below the cap; one change is a write, a removal, an arrival or a failure to
read, and two can undo or compensate each other. The days of `periodic` are those where the calendar
has edges; an entry of a list depends on its own offset, so that two show gaps and repetitions. The
proofs below remove the bounds for the safety of all modules and for the refinement; for
liveness they stay.
Symmetry is used only in runs without liveness. The named bounds are `MaxFaults`, `MaxTime`,
`MaxChanges`, `MaxMoves`, `MaxCalls`, `MaxEntry`, `MaxEdits`, `MaxMidnights` and `MaxCount`; the clock
stopping at `MaxTime` hides no step but later ones of the same kinds.
`CHECK_DEADLOCK FALSE` is set only for `HttpSessions` and `StateDir`, where the server
really stops, and `LinkRewrite`, `NoteText` and `Trash`, where nothing need follow the last
call or deletion.

## 4. Fairness

* `VaultNotes`: weak fairness of each call's own steps, which never include a failure
  or a cancellation. A goroutine that can run is run. For the mutex weak fairness is
  enough, because the calls are finitely many and each locks finitely often.
* `ResourceCache`: weak fairness of the steps of a request that holds the mutex, and
  strong fairness of `Lock`: `sync.Mutex` switches to starvation mode and hands itself
  to a goroutine that has waited for a millisecond. Requests come for ever.
* `HttpSessions`: weak fairness of the ticker, of the sweeper while the server serves,
  of the clock, of the shutdown timeout and of the handling of an admitted request.
  There is none for `Finish`: a call or stream may never end; and none for `Cancel`.

## 5. Proofs

All theorems hold for every value of the constants that satisfies the assumption
of its module (`ConstantsAssumption`, `CacheConstants`, `SessionConstants`, `StateDirConstants`, `TrashConstants`,
`LinkConstants`, `TextConstants`, `PeriodicConstants`, `ScanConstants`): the special values
are not ordinary ones, bounds are natural numbers. Finiteness of the sets of calls, paths, requests, ids,
callers or servers is not assumed. Three assumptions are about the shape of a vault.
`ScanConstants` says that it has finitely many files and folders, numbered in the order in
which `filepath.WalkDir` meets them, so that a folder comes before what is in it.
`LinkConstants` says that the paths are finitely many and, as those of notes, have an
extension; a move to a name without one, which takes a note out of the allowed extensions
and so out of every later walk, is left out. `TextConstants` says that what notes start from
and what patches put in are sequences of `NoteLine`, that is, that prose has a character
between two tags and does not begin like a fence; that the edits keep it so is proved.

* **`VaultNotesProofs`** proves `Inv`: `TypeOK`, the discipline of the mutex, and what
  each place in the code knows. None of the properties is inductive alone:
  `EditsAreCurrent`, say, needs that a call between lock and truncation holds the
  mutex, that no other call is inside, and that its buffer is what it read under the
  same lock; `IfMatchHolds` needs in addition that the etag was compared with that
  buffer. Then one lemma per group of actions, and theorems `TypeCorrect`,
  `LockIsDisciplined`, `WellFormedAlways`, `NoLostUpdate`, `IfMatchIsSound`, `NoClobber` (the three together are
  `ChecksHoldAlways`), `CapIsRespected`, `NotesDoNotVanish`, and
  `NoResurrectionWithoutWalks`, which says exactly where resurrections come from: with no
  vault-wide walk among the requests there are none.
  Its second part proves `AckedTextSurvives`: text acknowledged to a client is in
  some note, in the trash, or in the buffer of the one call that has truncated its
  note. `Holds` adds what is inductive about it: whoever is about to truncate a note
  is about to store every acknowledged piece of it.
  The third proves `RenameIsCompleteAlways`. A walk reads without the lock, so
  what it saw may be gone when it writes; the invariant `Clears` is that nobody writes the
  tag into a note, and that where the tag still is, every rename under way has yet to go
  or is about to write.
  The last proves `LockedCallsAreAtomic`: with any number of requests for
  the locked operations, `VaultNotes` implements `NoteStore`. `Pending` is what the mapping
  needs beyond `Inv`: what a call is about to store is one of the contents the store allows
  from the content it replaces, and the conditions held when it truncated the note. Every
  step is then matched: most are none of the store's, `Start` is `Ask`, `Store` is `Update`,
  `Remove` is `Delete`, `Rename` is `Move`, and errors and crashes are `Damage`.
* **`ResourceCacheProofs`** (`AnswersAreAlwaysFresh` and others): the times a request reads are ordered with those of its
  walk and of the cached data, no data is ahead of the vault, and the walk in
  progress does not fall behind the cached one.
* **`HttpTransportProofs`**, first for the sessions (`SessionsLiveOnceAlways` and others): a
  session is as it was issued, a tick is not ahead of the clock, whatever is past the chain
  passed all of it. Then for the state directory (`ServingIsSoundAlways` and others): what a
  server holds is what it read or made; before two starts have overlapped, a whole
  certificate is there only with its key, and nobody serves with anything but what is on
  disk. `NextPairIsUsable` is about the pair only.
* **`TrashProofs`**: a deletion is the work of one process and unfinished while it lasts
  (`OneDeletes`, `Unfinished`); what a prune has emptied had outlived the retention of its
  server (`Entitled`); and what it has passed over was young, or made after it started
  (`PassedOver`). `InFolderStays` is why a note in the trash has its folder. From these follow
  `WellFormedAlways`, `RetentionIsKeptAlways`, `DeleteAnswersAreTrueAlways` and
  `PruneIsCompleteAlways`; `NothingWraps` is the arithmetic of the retention.
* **`VaultScanProofs`** proves `SearchesFindWhatStays`, `AuditsAreTrue` and `PagingIsComplete`
  for every vault. `Core` is the inductive invariant: what the callbacks have seen is what a
  note contained at some time since the call began (`Recorded`), and what it contains if
  nobody has touched it (`Fresh`); the walk has passed every node before its place
  (`Ordered`), and a note it has not passed is still to come, itself or a folder it is in
  (`Covered`). The lemmas about `Under`, which is "in a folder, at any depth", need no
  recursion: a counterexample would have a least node. From `Core` each answer is proved at
  the moment it is given, one lemma per call (`RegexAtTheEnd`, `RankAtTheEnd`,
  `RecentAtTheEnd`, `BatchAtTheEnd`, `AuditAtTheEnd`, `CountAtTheEnd`). Pages need a second
  invariant, `Pages`: the entries missed or repeated so far are at most as many as the ones
  that have disappeared or appeared since the first page, each of which has shifted the
  offsets by one (`Paid`).
* **`PeriodicNotesProofs`** proves `PathsAlwaysNameTheirDates` and `ListsHaveNoGaps` for every day,
  every list length and every configuration. A good half of it is the calendar: every day is
  in exactly one year and one month (`YearIs`, `MonthOf`), `AddDate` of months is what the
  month numbers say, with its overflow into the next month (`AddDateIs`, `OffsetIs`), and two
  days have the same name in a default format exactly if they are in one day, ISO week,
  month, quarter or year (`NamesArePeriods`). `Inv` says of a call what it has read from which
  clock (`Chronicle`), and of all calls that they use one configuration unless two of them
  were the first to read it (`OneConfiguration`).
* **`LinkRewriteProofs`** proves `AnswerIsTrue`, `LinksFollow`, `NamesakesAreCounted` and `PreviewIsTrue`
  for lines, names and vaults of any size. Links that occur in a line do not overlap
  (`Disjoint`). `Done` is the argument for going from right to left: when the splicing has
  come to a place, what stands behind it is the rewritten end of the line and what stands
  before it is the old line, so that offsets found before the first splice are still right
  (`OnePlace`, `OnePass`). Hence a line is rewritten as the sum of its pieces, each of them
  old or replaced (`SplicesAre`), provided that the wikilinks to be replaced stand before the
  Markdown links; the run `link_splice` shows the other case. A link that is kept or put in is
  a link of the new line (`LinksOfRewritten`), which is why a backlink follows. `Remembered`
  ties the answer of a dry run to the vault it looked at, and `SameIndex` compares the index
  of names before and after the move by counting.
* **`NoteTextProofs`** proves `TypeCorrect`, `TagEditsAreListedAlways` and
  `PatchesAreLocalAlways` for lines, notes, frontmatter and contents of any length. `TypeOK` is
  inductive, and needs that what a removal leaves of a line has still a character between two
  tags (`WithoutSpaced`): a removal takes one away, but what stands before the tag, which is
  no tag, stays, if only as `Broken`. The rest
  is about how four scans of the same line relate. `HitsAre`: the pattern finds every tag
  that stands free, where no two are one character apart. `Ranks` counts what `Dropping`
  leaves, so that a place in the old line has a place in the new one, in the same order.
  `SameCode` runs `stripInlineCode` over both lines at once: if what goes or is replaced is
  no backtick and does not stand behind one, a place is hidden in the new line exactly if it was in the old one
  (`TagsWithout`, `TagsRenamed`). `SameFences` does the same for the automaton of fences,
  over two texts that differ in prose only, from any two places on where the same fence is
  open; with it the lines that are prose stay those that are prose (`SameProse`), and the
  tags of a note change as those of its lines do (`InlineTagsRemoved`, `InlineTagsRenamed`,
  `InlineTagsAdded`). `SpliceIsLocal` uses it three times for a patch: before the content,
  through it, and after it; `CutsAreOutsideCode` is why no fence is open at the cuts, a
  heading that is not code being on one side of each.

Induction over data is done in the form the provers can follow, over sets of numbers
instead of predicates: a set that contains 0 and with each number the next is everything
(`Upward`, `Downward`), and a function defined from its values at smaller numbers exists and
is the one that `SpliceAll`, `FlattenSeq` and the scans of `NoteText` name (`Recursion`).

Only model-checked: liveness (`EveryCallReturns`, `EveryRequestIsAnswered`,
`ExpiredSessionsLeave`, `ShutdownEnds`), which is out of reach of the prover. Every other
property of a passing run is stated by a theorem.

## 6. What is not modelled

* Path resolution and filters (`sanitizePath`, `existenceCheck`, `resolveSymlink`,
  `PathFilter`): functions of one string and of the directory tree that keep no state. In
  the models a path is one they accept, and a refusal is `Refuse` or `Reject`.
* Parsing of the configuration, of YAML beyond tags and of regular expressions;
  formatting of responses, snippets, summaries and token counts; the registration of tools.
* BM25: floating-point scores and the tokenizer. `VaultScan` ranks by occurrences.
* Text beyond what `LinkRewrite` and `NoteText` need; `ReadNoteLines`; duplicate paths in
  one batch; that `get_recent_changes` reads the notes it lists once more for summaries.
* Changes of the files by Obsidian during a call of the vault service (no lock of this
  program can exclude them; `ResourceCache` and `VaultScan` do model them); directories
  and symbolic links beyond "the path was refused"; two deletions in the same nanosecond.
* Whether mcp-go validates the session of an SSE stream.
* That edits may exceed the size cap, and that an append whose read fails stores its own
  text alone (`vault.go:429`), are modelled, but no property forbids them: the code allows
  both. `NoteStore` shows the second as damage that only follows a fault.

What would add most from here: `PathResolve`, over small trees.
