--------------------------- MODULE VaultRefinement ---------------------------
(***************************************************************************)
(* The locked operations of VaultNotes implement the atomic NoteStore: a   *)
(* write takes effect when its bytes are stored, a deletion and a move at  *)
(* their rename.                                                           *)
(***************************************************************************)
EXTENDS VaultNotes

\* The note as its clients should see it: while a write is between truncation
\* and store, still the content it replaces.
Committed ==
    [p \in Path |->
        IF \E c \in Call : pc[c] = "store" /\ at[c] = p
        THEN base[CHOOSE c \in Call : pc[c] = "store" /\ at[c] = p]
        ELSE note[p]]

Atomic == INSTANCE NoteStore WITH
    store <- Committed, bin <- trash, request <- req, etag <- ifMatch,
    performed <- {c \in Call : res[c] = "ok"}, damage <- faults

\* Every call of a locked operation looks to the other locked operations as if it
\* had happened at once, on the whole note: in no interleaving, and after no crash,
\* does one build on half of another's work.  A fault damages at most the note
\* being written.  (An unlocked read may still catch a note between truncation
\* and store: that is what Ask allows a client to insist on.)
AtomicNotes == Atomic!Spec
===============================================================================
