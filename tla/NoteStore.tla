------------------------------- MODULE NoteStore -------------------------------
(***************************************************************************)
(* What the vault service promises its clients about a single note: every  *)
(* successful call takes effect at one instant, on the content the note    *)
(* has at that instant, and, if it carries an etag, only if that is the    *)
(* content the etag names.  Only a crash or an I/O error in the middle of  *)
(* a write may damage a note, and then just the one being written.         *)
(*                                                                         *)
(* There is no lock here, no truncation and no order of checks: those are  *)
(* how VaultNotes keeps the promise.  The vault-wide walks and the         *)
(* creation of periodic notes promise less and are not part of it.         *)
(***************************************************************************)
EXTENDS Naturals

CONSTANTS Path, Call, MaxFaults, Block, Absent, NoEtag

VARIABLES
    store,      \* the content of each note, or Absent
    bin,        \* what was deleted but not destroyed
    request,    \* what each call asks for
    etag,       \* the content it insists on, or NoEtag
    performed,  \* the calls that have taken effect
    damage      \* crashes and I/O errors so far

vars == <<store, bin, request, etag, performed, damage>>

Contents == SUBSET (Call \cup {Block})

\* An append that could not read its note stores its own text alone: after an
\* I/O error that much is promised, and no more.
Unread(c) == IF damage > 0 /\ etag[c] = NoEtag THEN {{c}} ELSE {}

\* The text of an edit comes beside the block it addresses, or in its place.
Edited(c, old) == {old \cup {c}, (old \ {Block}) \cup {c}}

\* The contents call c may turn old into.
Result(c, old) ==
    CASE request[c].op = "overwrite"    -> {{c}}
      [] request[c].op = "append"       ->
            {(IF old = Absent THEN {} ELSE old) \cup {c}} \cup Unread(c)
      [] request[c].op = "replaceBody"  -> {{Block, c}}
      [] request[c].op = "addTag"       -> {old \cup {Block}}
      [] request[c].op = "removeTag"    -> {old \ {Block}}
      [] request[c].op = "replace"      -> IF Block \in old THEN Edited(c, old) ELSE {old}
      [] request[c].op = "frontmatter"  -> Edited(c, old)
      [] request[c].op \in {"patch", "addInlineTag"} -> {old \cup {c}}
      [] OTHER -> {}

\* What must be so for a call to change note p: it has not been performed, and
\* the note is what it insists on.
May(c, p) ==
    /\ c \notin performed
    /\ etag[c] # NoEtag => store[p] = etag[c]

\* Only a write without a condition makes a new note.
MayUpdate(c, p) ==
    /\ May(c, p)
    /\ store[p] = Absent => request[c].op \in {"overwrite", "append"} /\ etag[c] = NoEtag

\* The client settles what it insists on: the note as it read it at some time.
Ask(c) ==
    /\ c \notin performed
    /\ \E e \in {NoEtag} \cup Contents : etag' = [etag EXCEPT ![c] = e]
    /\ UNCHANGED <<store, bin, request, performed, damage>>

\* A write or an edit.
Update(c) ==
    LET p == request[c].path
    IN  /\ MayUpdate(c, p)
        /\ performed' = performed \cup {c}
        /\ \E new \in Result(c, store[p]) : store' = [store EXCEPT ![p] = new]
        /\ UNCHANGED <<bin, request, etag, damage>>

Delete(c) ==
    LET p == request[c].path
    IN  /\ request[c].op \in {"delete", "deletePermanent"}
        /\ May(c, p)
        /\ performed' = performed \cup {c}
        /\ store[p] # Absent
        /\ store' = [store EXCEPT ![p] = Absent]
        /\ bin' = IF request[c].op = "delete"
                  THEN bin \cup {[path |-> p, content |-> store[p]]} ELSE bin
        /\ UNCHANGED <<request, etag, damage>>

\* A move never replaces a note.
Move(c) ==
    LET p == request[c].path
        q == request[c].dst
    IN  /\ request[c].op = "move"
        /\ May(c, p)
        /\ performed' = performed \cup {c}
        /\ store[p] # Absent /\ store[q] = Absent
        /\ store' = [store EXCEPT ![p] = Absent, ![q] = store[p]]
        /\ UNCHANGED <<bin, request, etag, damage>>

\* A fault may leave the one note being written with a part of the new text.
Damage ==
    /\ damage < MaxFaults
    /\ damage' = damage + 1
    /\ \/ UNCHANGED store
       \/ \E c \in Call :
            LET p == request[c].path
            IN  /\ MayUpdate(c, p)
                /\ \E new \in Result(c, store[p]) : \E part \in SUBSET new :
                    store' = [store EXCEPT ![p] = part]
    /\ UNCHANGED <<bin, request, etag, performed>>

Init ==
    /\ store \in [Path -> {Absent, {Block}}]
    /\ bin = {} /\ performed = {} /\ damage = 0
    /\ etag = [c \in Call |-> NoEtag]

Next == \/ \E c \in Call : Ask(c) \/ Update(c) \/ Delete(c) \/ Move(c)
        \/ Damage

Spec == Init /\ [][Next]_vars
===============================================================================
