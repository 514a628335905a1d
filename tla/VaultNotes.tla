------------------------------ MODULE VaultNotes ------------------------------
(***************************************************************************)
(* The mutating half of the vault service (internal/vault): concurrent     *)
(* tool calls that write, edit, delete, move and sweep notes, serialised   *)
(* by the one mutex Service.mu, over files that os.WriteFile first empties *)
(* and then fills.                                                         *)
(*                                                                         *)
(* A note is abstracted to the set of pieces of text in it: one piece per  *)
(* call (the text that call contributes) and Block, the one block of       *)
(* original text that edits address (the heading of patch_note, the tag of *)
(* rename_tag and manage_tags, the link of a move, the pattern of          *)
(* replace_in_note).  The etag is the hash of the content, hence the       *)
(* content itself; the size is the number of pieces.                       *)
(***************************************************************************)
EXTENDS Naturals, FiniteSets

CONSTANTS
    Path,       \* vault-relative note paths
    Call,       \* tool calls, each a goroutine of its own
    Requests,   \* the requests a call may carry: a set of records, see Request
    Cap,        \* maxFileSizeBytes, in pieces
    MaxFaults,  \* bound on crashes and I/O errors
    Block,      \* the original block of text the edits address
    Absent,     \* value of note[p] when no file exists at p
    Free,       \* value of mu when the mutex is not held
    NoEtag      \* the empty if_match: "no condition"

WriteOps  == {"overwrite", "append", "periodic"}
EditOps   == {"patch", "replaceBody", "frontmatter", "addTag", "addInlineTag",
              "removeTag", "replace"}
DeleteOps == {"delete", "deletePermanent"}
MoveOps   == {"move", "moveLinks"}
SweepOps  == {"moveLinks", "renameTag"}
Ops       == WriteOps \cup EditOps \cup DeleteOps \cup MoveOps \cup SweepOps

\* replace_in_note, rename_tag and get_periodic_note take no if_match.
CondOps == Ops \ {"replace", "renameTag", "periodic"}

Request == [op : Ops, path : Path, dst : Path, cond : BOOLEAN]
Content == SUBSET (Call \cup {Block})

ASSUME ConstantsAssumption ==
    /\ Requests \subseteq {r \in Request : r.cond => r.op \in CondOps}
    /\ Cap \in Nat \ {0} /\ MaxFaults \in Nat
    /\ \A x \in Content : x # Absent /\ x # NoEtag
    /\ Free \notin Call /\ Block \notin Call

VARIABLES
    note,       \* what a reader of each path finds on disk
    trash,      \* notes under .obsidian-mcp/trash
    mu,         \* the holder of Service.mu, or Free
    pc,         \* where each call is
    req,        \* the request of each call
    ifMatch,    \* its etag condition
    at,         \* the note it is working on
    base,       \* the content it read and derives its new content from
    next,       \* the content it is about to store
    todo,       \* the notes a vault-wide walk has still to visit
    res,        \* the answer it returned
    faults      \* crashes and I/O errors so far

vars == <<note, trash, mu, pc, req, ifMatch, at, base, next, todo, res, faults>>

Steps == {"idle", "lookup", "queued", "truncate", "store", "remove", "rename",
          "reread", "walk", "sweep", "done"}
InCritical == {"truncate", "store", "remove", "rename"}
Answers == {"none", "ok", "refused", "notFound", "conflict", "exists",
            "tooLarge", "headingNotFound", "ioError", "cancelled", "lost"}

TooLarge(content) == Cardinality(content) > Cap
Readable(file) == file # Absent /\ ~ TooLarge(file)

\* The client's own earlier read_note, whose etag it presents.  A note it could
\* not read leaves it with an etag from elsewhere, here that of the empty text.
EtagOf(file) == IF Readable(file) THEN file ELSE {}

Init ==
    /\ note \in [Path -> {Absent, {Block}}]
    /\ trash = {}
    /\ mu = Free
    /\ pc = [c \in Call |-> "idle"]
    /\ req \in [Call -> Requests]
    /\ ifMatch = [c \in Call |-> NoEtag]
    /\ at = [c \in Call |-> req[c].path]
    /\ base = [c \in Call |-> Absent]
    /\ next = [c \in Call |-> {}]
    /\ todo = [c \in Call |-> {}]
    /\ res = [c \in Call |-> "none"]
    /\ faults = 0

------------------------------------------------------------------------------
\* Beginning and ending a call

GoTo(c, step) == pc' = [pc EXCEPT ![c] = step]

Return(c, answer) ==
    /\ GoTo(c, "done")
    /\ res' = [res EXCEPT ![c] = answer]

FirstStep(op) == CASE op = "periodic"  -> "lookup"
                   [] op = "renameTag" -> "walk"
                   [] OTHER            -> "queued"

\* The handler before the lock.  The client read the note earlier, and the etag
\* it got then is the one the call carries.
Start(c) ==
    /\ pc[c] = "idle"
    /\ GoTo(c, FirstStep(req[c].op))
    /\ ifMatch' = [ifMatch EXCEPT ![c] =
                      IF req[c].cond THEN EtagOf(note[req[c].path]) ELSE NoEtag]
    /\ todo' = [todo EXCEPT ![c] = IF req[c].op = "renameTag" THEN Path ELSE {}]
    /\ UNCHANGED <<note, trash, mu, req, at, base, next, res, faults>>

\* A cancelled context, a path outside the vault or a confirm that does not
\* repeat the path: the call returns before it takes the lock.
Refuse(c) ==
    /\ pc[c] = "idle"
    /\ Return(c, "refused")
    /\ UNCHANGED <<note, trash, mu, req, ifMatch, at, base, next, todo, faults>>

------------------------------------------------------------------------------
\* The critical sections.  Each of the handlers below takes Service.mu, reads
\* and checks the note, and either returns (the deferred Unlock) or keeps the
\* lock until its write, its removal or its rename is finished.

AtLock_Bug(c, ops) == pc[c] = "queued" /\ req[c].op \in ops

AtLock(c, ops) ==
    /\ pc[c] = "queued"
    /\ req[c].op \in ops
    /\ mu = Free

\* What checkIfMatch and the read before it answer for a call with an etag.
IfMatchVerdict(c, file, missing) ==
    CASE ifMatch[c] = NoEtag -> "ok"
      [] ifMatch[c] # NoEtag /\ file = Absent -> missing
      [] ifMatch[c] # NoEtag /\ file # Absent /\ TooLarge(file) -> "tooLarge"
      [] ifMatch[c] # NoEtag /\ Readable(file) /\ file # ifMatch[c] -> "conflict"
      [] OTHER -> "ok"

\* The same for the edits, which read the note whether or not there is an etag.
EditVerdict(c, file) ==
    CASE file = Absent -> "notFound"
      [] file # Absent /\ TooLarge(file) -> "tooLarge"
      [] OTHER -> IfMatchVerdict(c, file, "notFound")

BeginWrite_Bug(c, new) ==   \* unlocks between the read and the write
    /\ mu' = Free
    /\ GoTo(c, "truncate")
    /\ base' = [base EXCEPT ![c] = note[at[c]]]
    /\ next' = [next EXCEPT ![c] = new]
    /\ UNCHANGED <<note, trash, req, ifMatch, at, todo, res, faults>>

\* Go on to os.WriteFile with new content, still holding the lock ...
BeginWrite(c, new) ==
    /\ mu' = c
    /\ GoTo(c, "truncate")
    /\ base' = [base EXCEPT ![c] = note[at[c]]]
    /\ next' = [next EXCEPT ![c] = new]
    /\ UNCHANGED <<note, trash, req, ifMatch, at, todo, res, faults>>

Answer_Bug(c, answer) ==    \* an early return without the deferred unlock
    /\ mu' = c
    /\ Return(c, answer)
    /\ UNCHANGED <<note, trash, req, ifMatch, at, base, next, todo, faults>>

\* ... or give the lock back with an answer and the files as they were.
Answer(c, answer) ==
    /\ mu' = Free
    /\ Return(c, answer)
    /\ UNCHANGED <<note, trash, req, ifMatch, at, base, next, todo, faults>>

\* What a handler may find wrong under the lock before it touches the note: a
\* symlink that leaves the vault, frontmatter that is not YAML, a bad pattern, a
\* parent directory that cannot be made.
Reject(c) ==
    /\ pc[c] \in {"queued", "sweep"}
    /\ mu = Free
    /\ Answer(c, "refused")

\* The text WriteNote stores on top of what it found.
Written(c, existing) ==
    CASE req[c].op = "append"   -> existing \cup {c}
      [] req[c].op = "periodic" -> {}
      [] OTHER                  -> {c}

\* write_note (append stands for prepend too) and the creation of a periodic note.
WriteNote(c) ==
    /\ AtLock(c, WriteOps)
    /\ LET file     == note[at[c]]
           new      == Written(c, IF file = Absent THEN {} ELSE file)
           verdict  == IfMatchVerdict(c, file, "conflict")
       IN  IF verdict # "ok" THEN Answer(c, verdict)
           ELSE IF TooLarge(new) THEN Answer(c, "tooLarge")
           ELSE BeginWrite(c, new)

\* patch_note: before and after keep the section, replace_body replaces its text.  All
\* other pieces of the note count as that text: the worst case, for which no text is
\* promised to survive.
PatchNote(c) ==
    /\ AtLock(c, {"patch", "replaceBody"})
    /\ LET file    == note[at[c]]
           verdict == EditVerdict(c, file)
       IN  IF verdict # "ok" THEN Answer(c, verdict)
           ELSE IF Block \notin file THEN Answer(c, "headingNotFound")
           ELSE BeginWrite(c, IF req[c].op = "patch" THEN file \cup {c} ELSE {Block, c})

\* The text of an edit comes beside the block it addresses, or in its place.
Edited(c, file) == {file \cup {c}, (file \ {Block}) \cup {c}}

\* update_frontmatter.  Each call sets a key of its own, beside the others or in the
\* place of Block: a key that held Block has its value overwritten, or is removed.
UpdateFrontmatter(c) ==
    /\ AtLock(c, {"frontmatter"})
    /\ LET file    == note[at[c]]
           verdict == EditVerdict(c, file)
       IN  IF verdict # "ok" THEN Answer(c, verdict)
           ELSE \E new \in Edited(c, file) : BeginWrite(c, new)

\* manage_tags add.  Of a tag the frontmatter has already the block is marshalled
\* again, and written if that lays it out differently; an inline tag is appended
\* whatever the note holds.
AddTag(c) ==
    /\ AtLock(c, {"addTag", "addInlineTag"})
    /\ LET file    == note[at[c]]
           verdict == EditVerdict(c, file)
           new     == file \cup {IF req[c].op = "addTag" THEN Block ELSE c}
       IN  IF verdict # "ok" THEN Answer(c, verdict)
           ELSE \/ new = file /\ Answer(c, "ok")
                \/ BeginWrite(c, new)

\* manage_tags remove: written even when nothing was removed.
RemoveTag(c) ==
    /\ AtLock(c, {"removeTag"})
    /\ LET file    == note[at[c]]
           verdict == EditVerdict(c, file)
       IN  IF verdict # "ok" THEN Answer(c, verdict)
           ELSE BeginWrite(c, file \ {Block})

\* replace_in_note, which puts text of its own in the place of what the pattern
\* matches, or beside it: the replacement may repeat it, or occurrences be left.
ReplaceInNote(c) ==
    /\ AtLock(c, {"replace"})
    /\ LET file    == note[at[c]]
           verdict == EditVerdict(c, file)
       IN  IF verdict # "ok" THEN Answer(c, verdict)
           ELSE IF Block \notin file THEN Answer(c, "ok")
           ELSE \E new \in Edited(c, file) :
                    IF TooLarge(new) THEN Answer(c, "tooLarge") ELSE BeginWrite(c, new)

\* readExistingOrEmpty takes a read error for a missing note: an append whose
\* read fails goes on to write its own text alone.
AppendUnread(c) ==
    /\ AtLock(c, {"append"})
    /\ faults < MaxFaults
    /\ ifMatch[c] = NoEtag
    /\ note[at[c]] # Absent
    /\ mu' = c
    /\ GoTo(c, "truncate")
    /\ base' = [base EXCEPT ![c] = note[at[c]]]
    /\ next' = [next EXCEPT ![c] = {c}]
    /\ faults' = faults + 1
    /\ UNCHANGED <<note, trash, req, ifMatch, at, todo, res>>

\* os.WriteFile opens the file with O_TRUNC (and creates it) ...
Truncate(c) ==
    /\ pc[c] = "truncate"
    /\ note' = [note EXCEPT ![at[c]] = {}]
    /\ GoTo(c, "store")
    /\ UNCHANGED <<trash, mu, req, ifMatch, at, base, next, todo, res, faults>>

AfterStore(c) == CASE req[c].op \in SweepOps  -> "walk"
                   [] req[c].op = "periodic" -> "reread"
                   [] OTHER                  -> "done"

\* ... and then writes the bytes; the handler returns and unlocks.
Store(c) ==
    /\ pc[c] = "store"
    /\ note' = [note EXCEPT ![at[c]] = next[c]]
    /\ mu' = Free
    /\ GoTo(c, AfterStore(c))
    /\ res' = IF AfterStore(c) = "done" THEN [res EXCEPT ![c] = "ok"] ELSE res
    /\ UNCHANGED <<trash, req, ifMatch, at, base, next, todo, faults>>

\* The bytes reach the file in pieces, so that a reader without the lock, or a
\* crash, may find the beginning of them only.
StorePart(c) ==
    /\ pc[c] = "store"
    /\ \E part \in SUBSET next[c] :
        /\ note[at[c]] \subseteq part
        /\ note' = [note EXCEPT ![at[c]] = part]
    /\ UNCHANGED <<trash, mu, pc, req, ifMatch, at, base, next, todo, res, faults>>

\* os.WriteFile fails, on opening the file or with part of the bytes in it (a full
\* disk), or os.Remove or os.Rename fails: nothing is repaired.
IOFails(c) ==
    /\ pc[c] \in InCritical
    /\ faults < MaxFaults
    /\ faults' = faults + 1
    /\ mu' = Free
    /\ Return(c, "ioError")
    /\ UNCHANGED <<note, trash, req, ifMatch, at, base, next, todo>>

------------------------------------------------------------------------------
\* delete_note

DeleteNote(c) ==
    /\ AtLock(c, DeleteOps)
    /\ LET verdict == IfMatchVerdict(c, note[at[c]], "notFound")
       IN  IF verdict # "ok" THEN Answer(c, verdict)
           ELSE /\ mu' = c
                /\ GoTo(c, "remove")
                /\ UNCHANGED <<note, trash, req, ifMatch, at, base, next, todo, res, faults>>

Remove_Bug(c) ==            \* every deletion is permanent
    /\ pc[c] = "remove"
    /\ mu' = Free
    /\ Return(c, IF note[at[c]] = Absent THEN "notFound" ELSE "ok")
    /\ note' = [note EXCEPT ![at[c]] = Absent]
    /\ UNCHANGED <<trash, req, ifMatch, at, base, next, todo, faults>>

\* os.Remove, or os.Rename into the trash.
Remove(c) ==
    /\ pc[c] = "remove"
    /\ mu' = Free
    /\ Return(c, IF note[at[c]] = Absent THEN "notFound" ELSE "ok")
    /\ note' = [note EXCEPT ![at[c]] = Absent]
    /\ trash' = IF note[at[c]] = Absent \/ req[c].op = "deletePermanent"
                THEN trash
                ELSE trash \cup {[path |-> at[c], content |-> note[at[c]]]}
    /\ UNCHANGED <<req, ifMatch, at, base, next, todo, faults>>

------------------------------------------------------------------------------
\* move_note: moveFileLocked, then, unlocked, RewriteLinksOnMove

MoveNote(c) ==
    /\ AtLock(c, MoveOps)
    /\ LET verdict == IfMatchVerdict(c, note[at[c]], "notFound")
       IN  IF note[req[c].dst] # Absent THEN Answer(c, "exists")
           ELSE IF verdict # "ok" THEN Answer(c, verdict)
           ELSE /\ mu' = c
                /\ GoTo(c, "rename")
                /\ UNCHANGED <<note, trash, req, ifMatch, at, base, next, todo, res, faults>>

Rename_Bug(c) ==            \* rewrites the links without giving the lock back
    /\ pc[c] = "rename"
    /\ IF note[at[c]] = Absent
       THEN Return(c, "notFound") /\ mu' = Free /\ UNCHANGED <<note, todo>>
       ELSE /\ note' = [note EXCEPT ![at[c]] = Absent, ![req[c].dst] = note[at[c]]]
            /\ IF req[c].op = "moveLinks"
               THEN /\ GoTo(c, "walk")
                    /\ todo' = [todo EXCEPT ![c] = Path \ {req[c].dst}]
                    /\ UNCHANGED <<mu, res>>
               ELSE Return(c, "ok") /\ mu' = Free /\ UNCHANGED todo
    /\ UNCHANGED <<trash, req, ifMatch, at, base, next, faults>>

\* os.Rename replaces whatever is at the destination.
Rename(c) ==
    /\ pc[c] = "rename"
    /\ mu' = Free
    /\ IF note[at[c]] = Absent
       THEN Return(c, "notFound") /\ UNCHANGED <<note, todo>>
       ELSE /\ note' = [note EXCEPT ![at[c]] = Absent, ![req[c].dst] = note[at[c]]]
            /\ IF req[c].op = "moveLinks"
               THEN /\ GoTo(c, "walk")
                    /\ todo' = [todo EXCEPT ![c] = Path \ {req[c].dst}]
                    /\ UNCHANGED res
               ELSE Return(c, "ok") /\ UNCHANGED todo
    /\ UNCHANGED <<trash, req, ifMatch, at, base, next, faults>>

------------------------------------------------------------------------------
\* rename_tag and the link rewriting of move_note: a walk over the vault that
\* reads each note without the lock and locks only to write it back.

\* One WalkNotes callback up to the lock.  A note that is gone, or has nothing
\* to rewrite, is skipped.  Block is the text the pattern of the walk finds: of two
\* tags with one character between them it misses the second (renametag.go:149),
\* which is in NoteText.  Each note is taken to be in a directory of its own, listed
\* when the walk gets there, in any order.
SweepRead(c) ==
    /\ pc[c] = "walk"
    /\ \E p \in todo[c] :
        /\ todo' = [todo EXCEPT ![c] = @ \ {p}]
        /\ IF note[p] # Absent /\ Block \in note[p]
           THEN /\ at' = [at EXCEPT ![c] = p]
                /\ base' = [base EXCEPT ![c] = note[p]]
                /\ next' = [next EXCEPT ![c] = (note[p] \ {Block}) \cup {c}]
                /\ GoTo(c, "sweep")
           ELSE UNCHANGED <<at, base, next, pc>>
    /\ UNCHANGED <<note, trash, mu, req, ifMatch, res, faults>>

\* A note that cannot be read is skipped, and the walk goes on.
SweepUnread(c) ==
    /\ pc[c] = "walk"
    /\ faults < MaxFaults
    /\ \E p \in todo[c] : todo' = [todo EXCEPT ![c] = @ \ {p}]
    /\ faults' = faults + 1
    /\ UNCHANGED <<note, trash, mu, pc, req, ifMatch, at, base, next, res>>

\* writeRenamedTagNote and writeRewrittenNote: an error ends the walk, and what
\* it has rewritten so far stays.
SweepWrite(c) ==
    /\ pc[c] = "sweep"
    /\ mu = Free
    /\ IF TooLarge(next[c])
       THEN Return(c, "tooLarge") /\ UNCHANGED mu
       ELSE mu' = c /\ GoTo(c, "truncate") /\ UNCHANGED res
    /\ UNCHANGED <<note, trash, req, ifMatch, at, base, next, todo, faults>>

SweepDone_Bug(c) ==         \* ends the walk after any note
    /\ pc[c] = "walk"
    /\ Return(c, "ok")
    /\ UNCHANGED <<note, trash, mu, req, ifMatch, at, base, next, todo, faults>>

SweepDone(c) ==
    /\ pc[c] = "walk"
    /\ todo[c] = {}
    /\ Return(c, "ok")
    /\ UNCHANGED <<note, trash, mu, req, ifMatch, at, base, next, todo, faults>>

\* The request context is cancelled in the middle of the walk.
SweepCancelled(c) ==
    /\ pc[c] = "walk"
    /\ todo[c] # {}
    /\ Return(c, "cancelled")
    /\ UNCHANGED <<note, trash, mu, req, ifMatch, at, base, next, todo, faults>>

------------------------------------------------------------------------------
\* get_periodic_note with createIfMissing: a read, and if it fails for whatever
\* reason an overwrite with the empty text and a second read.

PeriodicLookup(c) ==
    /\ pc[c] = "lookup"
    /\ IF Readable(note[at[c]])
       THEN Return(c, "ok")
       ELSE GoTo(c, "queued") /\ UNCHANGED res
    /\ UNCHANGED <<note, trash, mu, req, ifMatch, at, base, next, todo, faults>>

\* A read error other than "not found" is taken for a missing note as well.
PeriodicUnread(c) ==
    /\ pc[c] = "lookup"
    /\ faults < MaxFaults
    /\ faults' = faults + 1
    /\ GoTo(c, "queued")
    /\ UNCHANGED <<note, trash, mu, req, ifMatch, at, base, next, todo, res>>

PeriodicReread(c) ==
    /\ pc[c] = "reread"
    /\ Return(c, CASE note[at[c]] = Absent -> "notFound"
                   [] Readable(note[at[c]]) -> "ok"
                   [] OTHER -> "tooLarge")
    /\ UNCHANGED <<note, trash, mu, req, ifMatch, at, base, next, todo, faults>>

------------------------------------------------------------------------------
\* The process dies and is started again: the calls in flight are lost, the
\* mutex is new, and the files are as the writes left them.
Crash ==
    /\ faults < MaxFaults
    /\ \E c \in Call : pc[c] \notin {"idle", "done"}
    /\ faults' = faults + 1
    /\ mu' = Free
    /\ pc' = [c \in Call |-> IF pc[c] = "idle" THEN "idle" ELSE "done"]
    /\ res' = [c \in Call |-> IF pc[c] \in {"idle", "done"} THEN res[c] ELSE "lost"]
    /\ UNCHANGED <<note, trash, req, ifMatch, at, base, next, todo>>

\* Every call has been answered: the server waits for requests.
Idle ==
    /\ \A c \in Call : pc[c] = "done"
    /\ UNCHANGED vars

Lock(c) ==
    \/ WriteNote(c) \/ PatchNote(c) \/ UpdateFrontmatter(c) \/ AddTag(c)
    \/ RemoveTag(c) \/ ReplaceInNote(c) \/ DeleteNote(c) \/ MoveNote(c)
    \/ SweepWrite(c)

Step(c) ==
    \/ Start(c) \/ Lock(c) \/ Truncate(c) \/ Store(c) \/ Remove(c) \/ Rename(c)
    \/ SweepRead(c) \/ SweepDone(c) \/ PeriodicLookup(c) \/ PeriodicReread(c)

Disturb(c) ==
    \/ Refuse(c) \/ Reject(c) \/ SweepCancelled(c) \/ AppendUnread(c)
    \/ StorePart(c) \/ IOFails(c) \/ SweepUnread(c) \/ PeriodicUnread(c)

Next == \/ \E c \in Call : Step(c) \/ Disturb(c)
        \/ Crash
        \/ Idle

Spec == Init /\ [][Next]_vars

\* A goroutine that can run does run.  Weak fairness is enough for the mutex too:
\* the calls are finitely many and each locks finitely often.
FairSpec == Spec /\ \A c \in Call : WF_vars(Step(c))

------------------------------------------------------------------------------
\* Properties

\* A note that exists is a set of pieces of text, the mutex is free or has one
\* holder, every call is at a step of its handler or has one of its answers.
TypeOK ==
    /\ note \in [Path -> {Absent} \cup Content]
    /\ trash \subseteq [path : Path, content : Content]
    /\ mu \in Call \cup {Free}
    /\ pc \in [Call -> Steps]
    /\ req \in [Call -> Requests]
    /\ ifMatch \in [Call -> {NoEtag} \cup Content]
    /\ at \in [Call -> Path]
    /\ base \in [Call -> {Absent} \cup Content]
    /\ next \in [Call -> Content]
    /\ todo \in [Call -> SUBSET Path]
    /\ res \in [Call -> Answers]
    /\ faults \in 0..MaxFaults

\* The lock is held exactly by the call inside a critical section, so that no
\* two calls are ever between a check and the write it guards, and no error
\* path of a handler leaves the mutex locked.
LockDiscipline == \A c \in Call : pc[c] \in InCritical <=> mu = c

\* The state is well formed, and the mutex is held exactly by the call inside a
\* critical section: no error path of a handler leaves it locked.
WellFormed == TypeOK /\ LockDiscipline

\* A handler that reads, edits and writes a note under the lock writes an edit
\* of what is on disk at that moment: nothing came in between (the lost update
\* the comment "Lock for all write modes" in WriteNote is about).
EditsAreCurrent ==
    \A c \in Call : pc[c] = "truncate" /\ req[c].op \notin SweepOps
                        => note[at[c]] = base[c]

\* When a call that carries an etag reaches the point of changing its note, the
\* note still has the content the etag names, however many calls, crashes and
\* failed writes happened since the client read it.
IfMatchHolds ==
    \A c \in Call : /\ ifMatch[c] # NoEtag
                    /\ \/ pc[c] \in {"remove", "rename"}
                       \/ pc[c] = "truncate" /\ req[c].op \notin SweepOps
                    => note[at[c]] = ifMatch[c]

\* A move reaches its rename only while the destination is free, so os.Rename
\* never replaces a note there (the race that was once in move_note).
MoveNeverClobbers ==
    \A c \in Call : pc[c] = "rename" => note[req[c].dst] = Absent

\* What a handler checks on disk before it writes, the note it edits, the etag or the
\* free destination, still holds when it writes.
ChecksHold == EditsAreCurrent /\ IfMatchHolds /\ MoveNeverClobbers

\* A write that checks the cap never leaves a note that read_note refuses: the
\* check is on the assembled text, not on the text the caller sent.
CappedWritesReadable ==
    \A c \in Call : /\ pc[c] \in {"truncate", "store"}
                    /\ req[c].op \in WriteOps \cup SweepOps \cup {"replace"}
                    => ~ TooLarge(next[c])

\* Text that a call may remove on purpose, or without holding the lock.
Lossy == {"overwrite", "periodic", "replaceBody", "deletePermanent"} \cup SweepOps
Additive == {"append", "patch", "frontmatter", "addInlineTag"}

Survives(piece) ==
    \/ \E p \in Path : note[p] # Absent /\ piece \in note[p]
    \/ \E t \in trash : piece \in t.content
    \/ \E c \in Call : pc[c] = "store" /\ piece \in next[c]

\* Text a client was told is stored is still in the vault or its trash, whatever
\* edits, moves and deletions ran at the same time, as long as nobody asked
\* for text to be replaced or destroyed and nothing failed.
AckedEditSurvives ==
    faults = 0 /\ (\A d \in Call : req[d].op \notin Lossy) =>
        \A c \in Call : res[c] = "ok" /\ req[c].op \in Additive => Survives(c)

\* A rename_tag that reports success leaves nothing its pattern finds behind, in any
\* note, also when it races other renames, removals and deletions.  (Calls that store
\* the block anew, or take a note out of the way of the walk, are excluded; what the
\* pattern finds in a line is a matter of NoteText.)
RenameIsComplete ==
    faults = 0 /\ (\A d \in Call : req[d].op \in {"renameTag", "removeTag"} \cup DeleteOps) =>
        \A c \in Call : res[c] = "ok" /\ req[c].op = "renameTag" =>
            \A p \in Path : Block \notin (IF note[p] = Absent THEN {} ELSE note[p])

CreatedOpenly(p) ==
    note[p] = Absent /\ note'[p] # Absent =>
        \E c \in Call :
            \/ pc[c] = "truncate" /\ at[c] = p /\ req[c].op \in WriteOps
                                  /\ ifMatch[c] = NoEtag
            \/ pc[c] = "rename" /\ req[c].dst = p

\* A note comes into being only through write_note without a condition, through
\* the creation of a periodic note, or as the destination of a move: an edit
\* never brings back a note deleted or moved away since it was read.
NoResurrection == [][\A p \in Path : CreatedOpenly(p)]_vars

KeptOrDestroyed(p) ==
    note[p] # Absent /\ note'[p] = Absent =>
        \/ [path |-> p, content |-> note[p]] \in trash'
        \/ \E q \in Path : note[q] = Absent /\ note'[q] = note[p]
        \/ \E c \in Call : pc[c] = "remove" /\ at[c] = p
                           /\ req[c].op = "deletePermanent"

\* A note leaves its path only with its whole content: into the trash, to the
\* destination of a move, or by a permanent delete of that very path.
NothingVanishes == [][\A p \in Path : KeptOrDestroyed(p)]_vars

\* Every call is answered (or lost with the process): no handler keeps the
\* mutex, or asks for it while it holds it.
EveryCallReturns == \A c \in Call : <>(pc[c] = "done")

------------------------------------------------------------------------------
\* What the documentation says and the code does not do

\* "Create the note if it does not exist": the creation of a periodic note never
\* empties a note that is there.
PeriodicOnlyCreates ==
    \A c \in Call : pc[c] = "truncate" /\ req[c].op = "periodic" => note[at[c]] = Absent

===============================================================================
