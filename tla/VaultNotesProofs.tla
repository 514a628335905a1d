--------------------------- MODULE VaultNotesProofs ---------------------------
(***************************************************************************)
(* Proofs about VaultNotes, for any set of paths, calls and requests, any  *)
(* cap and any number of faults: type correctness, the discipline of the   *)
(* mutex, and what it buys - edits of current content, etag conditions     *)
(* that still hold when the note is changed, moves that replace nothing.   *)
(* Then what the vault promises its clients: acknowledged text is not      *)
(* lost, a rename_tag that reports success has missed no note, and the     *)
(* locked operations look atomic.                                          *)
(***************************************************************************)
EXTENDS VaultRefinement, FiniteSetTheorems, TLAPS

LEMMA RequestFields ==
    ASSUME NEW r \in Requests
    PROVE  r.op \in Ops /\ r.path \in Path /\ r.dst \in Path /\ r.cond \in BOOLEAN
BY ConstantsAssumption DEF Request

LEMMA StepsAreSteps ==
    ASSUME NEW op
    PROVE  FirstStep(op) \in {"lookup", "walk", "queued"}
BY DEF FirstStep

LEMMA AfterStoreIsAStep ==
    ASSUME NEW c \in Call
    PROVE  AfterStore(c) \in {"walk", "reread", "done"}
BY DEF AfterStore

LEMMA VerdictIsAnAnswer ==
    ASSUME NEW c \in Call, NEW file, NEW missing \in Answers
    PROVE  /\ IfMatchVerdict(c, file, missing) \in Answers
           /\ EditVerdict(c, file) \in Answers
BY DEF IfMatchVerdict, EditVerdict, Answers, Readable

LEMMA WrittenIsContent ==
    ASSUME NEW c \in Call, NEW x \in Content
    PROVE  Written(c, x) \in Content
BY DEF Written, Content

LEMMA EtagOfIsContent ==
    ASSUME NEW x \in {Absent} \cup Content
    PROVE  EtagOf(x) \in Content
BY DEF EtagOf, Readable, Content

LEMMA BeginWriteTyped ==
    ASSUME TypeOK, NEW c \in Call, NEW new \in Content, BeginWrite(c, new)
    PROVE  TypeOK'
BY DEF TypeOK, BeginWrite, GoTo, Steps

LEMMA AnswerTyped ==
    ASSUME TypeOK, NEW c \in Call, NEW answer \in Answers, Answer(c, answer)
    PROVE  TypeOK'
BY DEF TypeOK, Answer, Return, GoTo, Steps

LEMMA InitTyped == Init => TypeOK
<1> SUFFICES ASSUME Init PROVE TypeOK
  OBVIOUS
<1>1. \A c \in Call : req[c].path \in Path
  BY RequestFields DEF Init
<1>2. {Block} \in Content /\ {} \in Content
  BY DEF Content
<1>3. note \in [Path -> {Absent} \cup Content]
  BY <1>2 DEF Init
<1>4. req \in [Call -> Requests] /\ at \in [Call -> Path]
  BY <1>1 DEF Init
<1>5. /\ pc \in [Call -> Steps] /\ res \in [Call -> Answers]
      /\ ifMatch \in [Call -> {NoEtag} \cup Content]
      /\ base \in [Call -> {Absent} \cup Content]
      /\ next \in [Call -> Content] /\ todo \in [Call -> SUBSET Path]
  BY <1>2 DEF Init, Steps, Answers
<1>6. /\ trash \subseteq [path : Path, content : Content]
      /\ mu \in Call \cup {Free} /\ faults \in 0..MaxFaults
  BY ConstantsAssumption DEF Init
<1> QED
  BY <1>3, <1>4, <1>5, <1>6 DEF TypeOK

------------------------------------------------------------------------------
(***************************************************************************)
(* The inductive invariant: the properties themselves, and what the place  *)
(* of a call says about its request: only the vault-wide walks walk, an    *)
(* edit that is about to write found its note, a note being stored has  *)
(* part of the new text.                                                   *)
(***************************************************************************)

Placed(c) ==
    /\ pc[c] \in {"walk", "sweep"} => req[c].op \in SweepOps
    /\ pc[c] = "truncate" =>
          \/ req[c].op \in SweepOps \cup WriteOps
          \/ req[c].op \in EditOps /\ base[c] # Absent
    /\ pc[c] = "store" => note[at[c]] # Absent /\ note[at[c]] \subseteq next[c]
    /\ pc[c] \in {"lookup", "reread"} => req[c].op = "periodic"
    /\ pc[c] = "remove" => req[c].op \in DeleteOps
    /\ pc[c] = "rename" => req[c].op \in MoveOps

Positions == \A c \in Call : Placed(c)

Inv == /\ TypeOK
       /\ LockDiscipline
       /\ Positions
       /\ EditsAreCurrent
       /\ IfMatchHolds
       /\ MoveNeverClobbers
       /\ CappedWritesReadable

LEMMA InitInv == Init => Inv
<1> SUFFICES ASSUME Init PROVE Inv
  OBVIOUS
<1>1. TypeOK
  BY InitTyped
<1>2. \A c \in Call : pc[c] = "idle" /\ mu # c
  BY ConstantsAssumption DEF Init
<1> QED
  BY <1>1, <1>2 DEF Inv, LockDiscipline, Positions, Placed, EditsAreCurrent, IfMatchHolds,
     MoveNeverClobbers, CappedWritesReadable, InCritical

\* A handler that gives the lock back at once disturbs nothing.
LEMMA AnswerKeepsInv ==
    ASSUME Inv, NEW c \in Call, NEW answer \in Answers,
           pc[c] \in {"queued", "sweep"}, mu = Free, Answer(c, answer)
    PROVE  Inv'
<1>1. TypeOK'
  BY AnswerTyped DEF Inv
<1>2. /\ pc' = [pc EXCEPT ![c] = "done"] /\ mu' = Free
      /\ UNCHANGED <<note, req, ifMatch, at, base, next>>
  BY DEF Answer, Return, GoTo
<1>3. LockDiscipline'
  BY <1>2, ConstantsAssumption DEF Inv, TypeOK, LockDiscipline, InCritical
<1> QED
  BY <1>1, <1>2, <1>3 DEF Inv, TypeOK, Positions, Placed, EditsAreCurrent, IfMatchHolds,
     MoveNeverClobbers, CappedWritesReadable

LEMMA RejectKeepsInv ==
    ASSUME Inv, NEW c \in Call, Reject(c)
    PROVE  Inv'
BY AnswerKeepsInv DEF Reject, Answers

\* A handler that goes on to write holds the lock with an edit of what is there.
LEMMA BeginWriteKeepsInv ==
    ASSUME Inv, NEW c \in Call, NEW new \in Content,
           pc[c] = "queued", mu = Free, BeginWrite(c, new),
           ifMatch[c] # NoEtag => note[at[c]] = ifMatch[c],
           req[c].op \in WriteOps \cup {"replace"} => ~ TooLarge(new),
           req[c].op \notin SweepOps,
           req[c].op \in WriteOps \/ (req[c].op \in EditOps /\ note[at[c]] # Absent)
    PROVE  Inv'
<1>1. TypeOK'
  BY BeginWriteTyped DEF Inv
<1>2. /\ pc' = [pc EXCEPT ![c] = "truncate"] /\ mu' = c
      /\ base' = [base EXCEPT ![c] = note[at[c]]]
      /\ next' = [next EXCEPT ![c] = new]
      /\ UNCHANGED <<note, req, ifMatch, at>>
  BY DEF BeginWrite, GoTo
<1>3. LockDiscipline'
  BY <1>2, ConstantsAssumption DEF Inv, TypeOK, LockDiscipline, InCritical
<1>4. Positions'
  BY <1>2 DEF Inv, TypeOK, Positions, Placed
<1>5. EditsAreCurrent'
  BY <1>2 DEF Inv, TypeOK, EditsAreCurrent
<1>6. IfMatchHolds'
  BY <1>2 DEF Inv, TypeOK, IfMatchHolds
<1>7. MoveNeverClobbers'
  BY <1>2 DEF Inv, TypeOK, MoveNeverClobbers
<1>8. CappedWritesReadable'
  <2> SUFFICES ASSUME NEW d \in Call, pc'[d] \in {"truncate", "store"},
                      req'[d].op \in WriteOps \cup SweepOps \cup {"replace"}
               PROVE  ~ TooLarge(next'[d])
    BY DEF CappedWritesReadable, TooLarge
  <2>1. CASE d = c
    BY <1>2, <2>1 DEF Inv, TypeOK
  <2>2. CASE d # c
    BY <1>2, <2>2 DEF Inv, TypeOK, CappedWritesReadable
  <2> QED
    BY <2>1, <2>2
<1> QED
  BY <1>1, <1>3, <1>4, <1>5, <1>6, <1>7, <1>8 DEF Inv

------------------------------------------------------------------------------
\* The critical sections, handler by handler

LEMMA EditVerdictOk ==
    ASSUME NEW c \in Call, NEW file, EditVerdict(c, file) = "ok"
    PROVE  file # Absent /\ (ifMatch[c] # NoEtag => file = ifMatch[c])
BY DEF EditVerdict, IfMatchVerdict, Readable

LEMMA IfMatchVerdictOk ==
    ASSUME NEW c \in Call, NEW file, NEW missing \in {"conflict", "notFound"},
           IfMatchVerdict(c, file, missing) = "ok"
    PROVE  ifMatch[c] # NoEtag => file = ifMatch[c]
BY DEF IfMatchVerdict, Readable

LEMMA WriteNoteKeepsInv ==
    ASSUME Inv, NEW c \in Call, WriteNote(c)
    PROVE  Inv'
<1> DEFINE file    == note[at[c]]
           new     == Written(c, IF file = Absent THEN {} ELSE file)
           verdict == IfMatchVerdict(c, file, "conflict")
<1>1. pc[c] = "queued" /\ mu = Free /\ req[c].op \in WriteOps
  BY DEF WriteNote, AtLock
<1>2. new \in Content
  BY WrittenIsContent DEF Inv, TypeOK, Content
<1>3. verdict \in Answers
  BY VerdictIsAnAnswer DEF Answers
<1>4. CASE verdict # "ok"
  <2>1. Answer(c, verdict)
    BY <1>4 DEF WriteNote
  <2> QED
    BY <2>1, <1>1, <1>3, AnswerKeepsInv
<1>5. CASE verdict = "ok" /\ TooLarge(new)
  <2>1. Answer(c, "tooLarge")
    BY <1>5 DEF WriteNote
  <2> QED
    BY <2>1, <1>1, AnswerKeepsInv DEF Answers
<1>6. CASE verdict = "ok" /\ ~ TooLarge(new)
  <2>1. BeginWrite(c, new)
    BY <1>6 DEF WriteNote
  <2>2. ifMatch[c] # NoEtag => note[at[c]] = ifMatch[c]
    BY <1>6, IfMatchVerdictOk
  <2>3. req[c].op \notin SweepOps
    BY <1>1 DEF WriteOps, SweepOps
  <2>4. req[c].op \in WriteOps \/ (req[c].op \in EditOps /\ note[at[c]] # Absent)
    BY <1>1
  <2> HIDE DEF new
  <2> QED
    BY <2>1, <2>2, <2>3, <2>4, <1>1, <1>2, <1>6, BeginWriteKeepsInv
<1> QED
  BY <1>4, <1>5, <1>6

\* An edit makes a note of a note.
LEMMA EditedIsContent ==
    ASSUME NEW c \in Call, NEW file \in Content, NEW new \in Edited(c, file)
    PROVE  new \in Content /\ c \in new /\ file \ {Block} \subseteq new
BY DEF Edited, Content

\* The five handlers that edit a note they have read under the lock.
LEMMA EditKeepsInv ==
    ASSUME Inv, NEW c \in Call, NEW new \in Content, NEW answer \in Answers,
           pc[c] = "queued", mu = Free, req[c].op \in EditOps,
           \/ Answer(c, answer)
           \/ /\ BeginWrite(c, new)
              /\ EditVerdict(c, note[at[c]]) = "ok"
              /\ req[c].op = "replace" => ~ TooLarge(new)
    PROVE  Inv'
<1>1. CASE Answer(c, answer)
  BY <1>1, AnswerKeepsInv
<1>2. CASE /\ BeginWrite(c, new)
           /\ EditVerdict(c, note[at[c]]) = "ok"
           /\ req[c].op = "replace" => ~ TooLarge(new)
  <2>1. ifMatch[c] # NoEtag => note[at[c]] = ifMatch[c]
    BY <1>2, EditVerdictOk
  <2>2. req[c].op \notin SweepOps /\ req[c].op \notin WriteOps
    BY DEF EditOps, SweepOps, WriteOps
  <2>3. req[c].op \in WriteOps \/ (req[c].op \in EditOps /\ note[at[c]] # Absent)
    BY <1>2, EditVerdictOk
  <2> QED
    BY <1>2, <2>1, <2>2, <2>3, BeginWriteKeepsInv
<1> QED
  BY <1>1, <1>2

LEMMA EditsKeepInv ==
    ASSUME Inv, NEW c \in Call,
           \/ PatchNote(c) \/ UpdateFrontmatter(c) \/ AddTag(c)
           \/ RemoveTag(c) \/ ReplaceInNote(c)
    PROVE  Inv'
<1> DEFINE file    == note[at[c]]
           verdict == EditVerdict(c, file)
<1>1. file \in {Absent} \cup Content /\ verdict \in Answers
  BY VerdictIsAnAnswer DEF Inv, TypeOK, Answers
<1>2. verdict = "ok" => file \in Content
  BY <1>1, EditVerdictOk
<1> HIDE DEF verdict
<1>3. CASE PatchNote(c)
  <2>1. pc[c] = "queued" /\ mu = Free /\ req[c].op \in EditOps /\ req[c].op # "replace"
    BY <1>3 DEF PatchNote, AtLock, EditOps
  <2>2. CASE verdict # "ok"
    <3>1. Answer(c, verdict)
      BY <1>3, <2>2 DEF PatchNote, verdict
    <3> QED
      BY <3>1, <2>1, <1>1, AnswerKeepsInv
  <2>3. CASE verdict = "ok" /\ Block \notin file
    <3>1. Answer(c, "headingNotFound")
      BY <1>3, <2>3 DEF PatchNote, verdict
    <3> QED
      BY <3>1, <2>1, AnswerKeepsInv DEF Answers
  <2>4. CASE verdict = "ok" /\ Block \in file
    <3>1. PICK new \in {file \cup {c}, {Block, c}} : BeginWrite(c, new)
      BY <1>3, <2>4 DEF PatchNote, verdict
    <3>2. new \in Content
      BY <1>2, <2>4 DEF Content
    <3>3. EditVerdict(c, note[at[c]]) = "ok"
      BY <2>4 DEF verdict
    <3> QED
      BY <3>1, <3>2, <3>3, <2>1, EditKeepsInv, <1>1
  <2> QED
    BY <2>2, <2>3, <2>4
<1>4. CASE UpdateFrontmatter(c)
  <2>1. pc[c] = "queued" /\ mu = Free /\ req[c].op \in EditOps /\ req[c].op # "replace"
    BY <1>4 DEF UpdateFrontmatter, AtLock, EditOps
  <2>2. CASE verdict # "ok"
    <3>1. Answer(c, verdict)
      BY <1>4, <2>2 DEF UpdateFrontmatter, verdict
    <3> QED
      BY <3>1, <2>1, <1>1, AnswerKeepsInv
  <2>3. CASE verdict = "ok"
    <3>1. PICK new \in Edited(c, file) : BeginWrite(c, new)
      BY <1>4, <2>3 DEF UpdateFrontmatter, verdict
    <3>2. new \in Content
      BY <1>2, <2>3, EditedIsContent
    <3>3. EditVerdict(c, note[at[c]]) = "ok"
      BY <2>3 DEF verdict
    <3> QED
      BY <3>1, <3>2, <3>3, <2>1, EditKeepsInv, <1>1
  <2> QED
    BY <2>2, <2>3
<1>5. CASE AddTag(c)
  <2> DEFINE new == file \cup {IF req[c].op = "addTag" THEN Block ELSE c}
  <2>1. pc[c] = "queued" /\ mu = Free /\ req[c].op \in EditOps /\ req[c].op # "replace"
    BY <1>5 DEF AddTag, AtLock, EditOps
  <2>2. CASE verdict # "ok"
    <3>1. Answer(c, verdict)
      BY <1>5, <2>2 DEF AddTag, verdict
    <3> QED
      BY <3>1, <2>1, <1>1, AnswerKeepsInv
  <2>3. CASE Answer(c, "ok")
    BY <2>1, <2>3, AnswerKeepsInv DEF Answers
  <2>4. CASE verdict = "ok" /\ BeginWrite(c, new)
    <3>1. BeginWrite(c, new)
      BY <2>4
    <3>2. new \in Content
      BY <1>2, <2>4 DEF Content
    <3>3. EditVerdict(c, note[at[c]]) = "ok"
      BY <2>4 DEF verdict
    <3> HIDE DEF new
    <3> QED
      BY <3>1, <3>2, <3>3, <2>1, EditKeepsInv, <1>1
  <2> QED
    BY <1>5, <2>2, <2>3, <2>4 DEF AddTag, verdict
<1>6. CASE RemoveTag(c)
  <2>1. pc[c] = "queued" /\ mu = Free /\ req[c].op \in EditOps /\ req[c].op # "replace"
    BY <1>6 DEF RemoveTag, AtLock, EditOps
  <2>2. CASE verdict # "ok"
    <3>1. Answer(c, verdict)
      BY <1>6, <2>2 DEF RemoveTag, verdict
    <3> QED
      BY <3>1, <2>1, <1>1, AnswerKeepsInv
  <2>3. CASE verdict = "ok"
    <3>1. BeginWrite(c, file \ {Block})
      BY <1>6, <2>3 DEF RemoveTag, verdict
    <3>2. file \ {Block} \in Content
      BY <1>2, <2>3 DEF Content
    <3>3. EditVerdict(c, note[at[c]]) = "ok"
      BY <2>3 DEF verdict
    <3> QED
      BY <3>1, <3>2, <3>3, <2>1, EditKeepsInv, <1>1
  <2> QED
    BY <2>2, <2>3
<1>7. CASE ReplaceInNote(c)
  <2>1. pc[c] = "queued" /\ mu = Free /\ req[c].op \in EditOps
    BY <1>7 DEF ReplaceInNote, AtLock, EditOps
  <2>2. CASE verdict # "ok"
    <3>1. Answer(c, verdict)
      BY <1>7, <2>2 DEF ReplaceInNote, verdict
    <3> QED
      BY <3>1, <2>1, <1>1, AnswerKeepsInv
  <2>3. ASSUME verdict = "ok", NEW answer \in {"ok", "tooLarge"}, Answer(c, answer)
        PROVE  Inv'
    BY <2>1, <2>3, AnswerKeepsInv DEF Answers
  <2>4. ASSUME verdict = "ok", NEW new \in Edited(c, file), ~ TooLarge(new), BeginWrite(c, new)
        PROVE  Inv'
    <3>1. new \in Content
      BY <1>2, <2>4, EditedIsContent
    <3>2. EditVerdict(c, note[at[c]]) = "ok"
      BY <2>4 DEF verdict
    <3> QED
      BY <3>1, <3>2, <2>1, <2>4, EditKeepsInv, <1>1
  <2> QED
    BY <1>7, <2>2, <2>3, <2>4 DEF ReplaceInNote, verdict
<1> QED
  BY <1>3, <1>4, <1>5, <1>6, <1>7

\* Taking the lock for a removal or a rename.
LEMMA HoldKeepsInv ==
    ASSUME Inv, NEW c \in Call, NEW step \in {"remove", "rename"},
           pc[c] = "queued", mu = Free, mu' = c, GoTo(c, step),
           ifMatch[c] # NoEtag => note[at[c]] = ifMatch[c],
           step = "rename" => note[req[c].dst] = Absent,
           req[c].op \in (IF step = "rename" THEN MoveOps ELSE DeleteOps),
           UNCHANGED <<note, trash, req, ifMatch, at, base, next, todo, res, faults>>
    PROVE  Inv'
<1>1. TypeOK'
  BY DEF Inv, TypeOK, GoTo, Steps
<1>2. LockDiscipline'
  BY ConstantsAssumption DEF Inv, TypeOK, LockDiscipline, InCritical, GoTo
<1> QED
  BY <1>1, <1>2 DEF Inv, TypeOK, GoTo, Positions, Placed, EditsAreCurrent, IfMatchHolds,
     MoveNeverClobbers, CappedWritesReadable

LEMMA DeleteNoteKeepsInv ==
    ASSUME Inv, NEW c \in Call, DeleteNote(c)
    PROVE  Inv'
<1> DEFINE verdict == IfMatchVerdict(c, note[at[c]], "notFound")
<1>1. pc[c] = "queued" /\ mu = Free /\ req[c].op \in DeleteOps
  BY DEF DeleteNote, AtLock
<1>2. CASE verdict # "ok"
  <2>1. Answer(c, verdict) /\ verdict \in Answers
    BY <1>2, VerdictIsAnAnswer DEF DeleteNote, Answers
  <2> QED
    BY <2>1, <1>1, AnswerKeepsInv
<1>3. CASE verdict = "ok"
  <2>1. ifMatch[c] # NoEtag => note[at[c]] = ifMatch[c]
    BY <1>3, IfMatchVerdictOk
  <2> QED
    BY <2>1, <1>1, <1>3, HoldKeepsInv DEF DeleteNote
<1> QED
  BY <1>2, <1>3

LEMMA MoveNoteKeepsInv ==
    ASSUME Inv, NEW c \in Call, MoveNote(c)
    PROVE  Inv'
<1> DEFINE verdict == IfMatchVerdict(c, note[at[c]], "notFound")
<1>1. pc[c] = "queued" /\ mu = Free /\ req[c].op \in MoveOps
  BY DEF MoveNote, AtLock
<1>2. CASE note[req[c].dst] # Absent
  <2>1. Answer(c, "exists")
    BY <1>2 DEF MoveNote
  <2> QED
    BY <2>1, <1>1, AnswerKeepsInv DEF Answers
<1>3. CASE note[req[c].dst] = Absent /\ verdict # "ok"
  <2>1. Answer(c, verdict) /\ verdict \in Answers
    BY <1>3, VerdictIsAnAnswer DEF MoveNote, Answers
  <2> QED
    BY <2>1, <1>1, AnswerKeepsInv
<1>4. CASE note[req[c].dst] = Absent /\ verdict = "ok"
  <2>1. ifMatch[c] # NoEtag => note[at[c]] = ifMatch[c]
    BY <1>4, IfMatchVerdictOk
  <2> QED
    BY <2>1, <1>1, <1>4, HoldKeepsInv DEF MoveNote
<1> QED
  BY <1>2, <1>3, <1>4

------------------------------------------------------------------------------
\* The steps of the holder: nobody else is in a critical section, so what they
\* change is nobody else's business.

LEMMA TruncateKeepsInv ==
    ASSUME Inv, NEW c \in Call, Truncate(c)
    PROVE  Inv'
<1>1. /\ pc[c] = "truncate" /\ mu = c
      /\ \A d \in Call \ {c} : pc[d] \notin InCritical
  BY DEF Truncate, Inv, LockDiscipline, InCritical
<1>2. TypeOK'
  BY DEF Truncate, GoTo, Inv, TypeOK, Steps, Content
<1>3. LockDiscipline'
  BY <1>1 DEF Truncate, GoTo, Inv, TypeOK, LockDiscipline, InCritical
<1>4. Positions'
  BY <1>1, ConstantsAssumption DEF Truncate, GoTo, Inv, TypeOK, InCritical, Positions,
     Placed, Content
<1>5. EditsAreCurrent' /\ IfMatchHolds'
  BY <1>1 DEF Truncate, GoTo, Inv, TypeOK, InCritical, EditsAreCurrent, IfMatchHolds
<1>6. MoveNeverClobbers' /\ CappedWritesReadable'
  BY <1>1 DEF Truncate, GoTo, Inv, TypeOK, InCritical, MoveNeverClobbers,
     CappedWritesReadable
<1> QED
  BY <1>2, <1>3, <1>4, <1>5, <1>6 DEF Inv

\* Leaving the critical section, whatever it did to the notes.
LEMMA ReleaseKeepsInv ==
    ASSUME Inv, TypeOK', NEW c \in Call, NEW step \in {"walk", "reread", "done"},
           pc[c] \in InCritical, mu' = Free, GoTo(c, step),
           step = "walk" => req[c].op \in SweepOps,
           step = "reread" => req[c].op = "periodic",
           UNCHANGED <<req, ifMatch, at, base, next>>
    PROVE  Inv'
<1>1. mu = c /\ \A d \in Call \ {c} : pc[d] \notin InCritical
  BY DEF Inv, LockDiscipline
<1>2. pc'[c] = step /\ \A d \in Call \ {c} : pc'[d] = pc[d]
  BY DEF GoTo, Inv, TypeOK
<1>3. \A d \in Call : pc'[d] \notin InCritical
  BY <1>1, <1>2 DEF InCritical
<1>4. LockDiscipline'
  BY <1>3, ConstantsAssumption DEF LockDiscipline
<1>5. Positions'
  BY <1>1, <1>2, <1>3 DEF Inv, Positions, Placed, InCritical
<1> QED
  BY <1>3, <1>4, <1>5 DEF Inv, InCritical, EditsAreCurrent, IfMatchHolds,
     MoveNeverClobbers, CappedWritesReadable

LEMMA StoreKeepsInv ==
    ASSUME Inv, NEW c \in Call, Store(c)
    PROVE  Inv'
<1>1. AfterStore(c) \in {"walk", "reread", "done"}
  BY AfterStoreIsAStep
<1>2. /\ AfterStore(c) = "walk" => req[c].op \in SweepOps
      /\ AfterStore(c) = "reread" => req[c].op = "periodic"
  BY DEF AfterStore
<1> HIDE DEF AfterStore
<1>3. TypeOK'
  BY <1>1 DEF Store, GoTo, Inv, TypeOK, Steps, Answers
<1> QED
  BY <1>1, <1>2, <1>3, ReleaseKeepsInv DEF Store, InCritical

LEMMA StorePartKeepsInv ==
    ASSUME Inv, NEW c \in Call, StorePart(c)
    PROVE  Inv'
<1>1. PICK part \in SUBSET next[c] : note' = [note EXCEPT ![at[c]] = part]
  BY DEF StorePart
<1>2. /\ pc[c] = "store" /\ at[c] \in Path /\ part \in Content /\ part # Absent
      /\ \A d \in Call \ {c} : pc[d] \notin InCritical
      /\ UNCHANGED <<trash, mu, pc, req, ifMatch, at, base, next, todo, res, faults>>
  BY ConstantsAssumption DEF StorePart, Inv, TypeOK, LockDiscipline, InCritical, Content
<1>3. TypeOK'
  BY <1>1, <1>2 DEF Inv, TypeOK
<1>4. Positions'
  BY <1>1, <1>2 DEF Inv, TypeOK, Positions, Placed, InCritical
<1>5. LockDiscipline' /\ CappedWritesReadable'
  BY <1>2 DEF Inv, LockDiscipline, CappedWritesReadable
<1>6. EditsAreCurrent' /\ IfMatchHolds' /\ MoveNeverClobbers'
  BY <1>2 DEF EditsAreCurrent, IfMatchHolds, MoveNeverClobbers, InCritical
<1> QED
  BY <1>3, <1>4, <1>5, <1>6 DEF Inv

LEMMA IOFailsKeepsInv ==
    ASSUME Inv, NEW c \in Call, IOFails(c)
    PROVE  Inv'
<1>1. TypeOK'
  BY ConstantsAssumption DEF IOFails, Return, GoTo, Inv, TypeOK, Steps, Answers
<1> QED
  BY <1>1, ReleaseKeepsInv DEF IOFails, Return, InCritical

LEMMA RemoveKeepsInv ==
    ASSUME Inv, NEW c \in Call, Remove(c)
    PROVE  Inv'
<1>1. trash' \subseteq [path : Path, content : Content]
  BY DEF Remove, Inv, TypeOK
<1>2. TypeOK'
  BY <1>1 DEF Remove, Return, GoTo, Inv, TypeOK, Steps, Answers
<1> QED
  BY <1>2, ReleaseKeepsInv DEF Remove, Return, InCritical

LEMMA RenameKeepsInv ==
    ASSUME Inv, NEW c \in Call, Rename(c)
    PROVE  Inv'
<1>1. req[c].dst \in Path
  BY RequestFields DEF Inv, TypeOK
<1>2. PICK step \in {"walk", "done"} :
          GoTo(c, step) /\ (step = "walk" => req[c].op \in SweepOps)
  BY DEF Rename, Return, SweepOps
<1>3. TypeOK'
  BY <1>1 DEF Rename, Return, GoTo, Inv, TypeOK, Steps, Answers
<1> QED
  BY <1>2, <1>3, ReleaseKeepsInv DEF Rename, InCritical

------------------------------------------------------------------------------
\* The steps a call takes without the lock

LEMMA OutsideKeepsInv ==
    ASSUME Inv, TypeOK', NEW c \in Call, NEW step \in Steps \ InCritical,
           pc[c] \in Steps \ InCritical, GoTo(c, step),
           step \in {"walk", "sweep"} => req[c].op \in SweepOps,
           step \in {"lookup", "reread"} => req[c].op = "periodic",
           UNCHANGED <<note, mu, req>>,
           \A d \in Call \ {c} : /\ at'[d] = at[d] /\ base'[d] = base[d]
                                 /\ next'[d] = next[d] /\ ifMatch'[d] = ifMatch[d]
    PROVE  Inv'
<1>1. pc'[c] = step /\ \A d \in Call \ {c} : pc'[d] = pc[d]
  BY DEF GoTo, Inv, TypeOK
<1>2. LockDiscipline'
  BY <1>1 DEF Inv, LockDiscipline
<1>3. Positions'
  BY <1>1 DEF Inv, Positions, Placed, InCritical
<1>4. EditsAreCurrent' /\ IfMatchHolds' /\ MoveNeverClobbers'
  BY <1>1 DEF Inv, InCritical, EditsAreCurrent, IfMatchHolds, MoveNeverClobbers
<1>5. CappedWritesReadable'
  BY <1>1 DEF Inv, InCritical, CappedWritesReadable
<1> QED
  BY <1>2, <1>3, <1>4, <1>5 DEF Inv

LEMMA StartKeepsInv ==
    ASSUME Inv, NEW c \in Call, Start(c)
    PROVE  Inv'
<1>1. FirstStep(req[c].op) \in {"lookup", "walk", "queued"}
  BY StepsAreSteps
<1>2. /\ FirstStep(req[c].op) = "walk" => req[c].op \in SweepOps
      /\ FirstStep(req[c].op) = "lookup" => req[c].op = "periodic"
  BY DEF FirstStep, SweepOps
<1>3. req[c].path \in Path /\ EtagOf(note[req[c].path]) \in Content
  BY RequestFields, EtagOfIsContent DEF Inv, TypeOK
<1> HIDE DEF FirstStep, EtagOf
<1>4. TypeOK'
  BY <1>1, <1>3 DEF Start, GoTo, Inv, TypeOK, Steps
<1>5. \A d \in Call \ {c} : ifMatch'[d] = ifMatch[d]
  BY DEF Start, Inv, TypeOK
<1> QED
  BY <1>1, <1>2, <1>4, <1>5, OutsideKeepsInv DEF Start, Steps, InCritical

LEMMA ReturnKeepsInv ==
    ASSUME Inv, NEW c \in Call, NEW answer \in Answers,
           pc[c] \in Steps \ InCritical, Return(c, answer),
           UNCHANGED <<note, trash, mu, req, ifMatch, at, base, next, todo, faults>>
    PROVE  Inv'
<1>1. TypeOK'
  BY DEF Return, GoTo, Inv, TypeOK, Steps
<1> QED
  BY <1>1, OutsideKeepsInv DEF Return, Steps, InCritical

LEMMA UnlockedStepsKeepInv ==
    ASSUME Inv, NEW c \in Call,
           \/ Refuse(c) \/ SweepDone(c) \/ SweepCancelled(c)
           \/ PeriodicLookup(c) \/ PeriodicReread(c)
    PROVE  Inv'
<1>1. CASE Refuse(c) \/ SweepDone(c) \/ SweepCancelled(c) \/ PeriodicReread(c)
  BY <1>1, ReturnKeepsInv
     DEF Refuse, SweepDone, SweepCancelled, PeriodicReread, Steps, InCritical, Answers
<1>2. CASE PeriodicLookup(c) /\ Readable(note[at[c]])
  BY <1>2, ReturnKeepsInv DEF PeriodicLookup, Steps, InCritical, Answers
<1>3. CASE PeriodicLookup(c) /\ ~ Readable(note[at[c]])
  <2>1. TypeOK'
    BY <1>3 DEF PeriodicLookup, GoTo, Inv, TypeOK, Steps
  <2> QED
    BY <1>3, <2>1, OutsideKeepsInv DEF PeriodicLookup, Steps, InCritical
<1> QED
  BY <1>1, <1>2, <1>3

LEMMA SweepReadKeepsInv ==
    ASSUME Inv, NEW c \in Call, SweepRead(c)
    PROVE  Inv'
<1>1. PICK p \in todo[c] :
          /\ todo' = [todo EXCEPT ![c] = @ \ {p}]
          /\ IF note[p] # Absent /\ Block \in note[p]
             THEN /\ at' = [at EXCEPT ![c] = p]
                  /\ base' = [base EXCEPT ![c] = note[p]]
                  /\ next' = [next EXCEPT ![c] = (note[p] \ {Block}) \cup {c}]
                  /\ GoTo(c, "sweep")
             ELSE UNCHANGED <<at, base, next, pc>>
  BY DEF SweepRead
<1>2. p \in Path /\ pc[c] = "walk" /\ req[c].op \in SweepOps
  BY DEF SweepRead, Inv, TypeOK, Positions, Placed
<1>3. UNCHANGED <<note, trash, mu, req, ifMatch, res, faults>>
  BY DEF SweepRead
<1>4. CASE note[p] # Absent /\ Block \in note[p]
  <2>1. (note[p] \ {Block}) \cup {c} \in Content
    BY <1>2, <1>4 DEF Inv, TypeOK, Content
  <2>2. TypeOK'
    <3>1. at' \in [Call -> Path] /\ next' \in [Call -> Content]
      BY <1>1, <1>2, <1>4, <2>1 DEF Inv, TypeOK
    <3>2. base' \in [Call -> {Absent} \cup Content]
      BY <1>1, <1>2, <1>4 DEF Inv, TypeOK
    <3>3. pc' \in [Call -> Steps] /\ todo' \in [Call -> SUBSET Path]
      BY <1>1, <1>4 DEF GoTo, Inv, TypeOK, Steps
    <3> QED
      BY <1>3, <3>1, <3>2, <3>3 DEF Inv, TypeOK
  <2>3. \A d \in Call \ {c} : at'[d] = at[d] /\ base'[d] = base[d] /\ next'[d] = next[d]
    BY <1>1, <1>4 DEF Inv, TypeOK
  <2> QED
    BY <1>1, <1>2, <1>3, <1>4, <2>2, <2>3, OutsideKeepsInv DEF Steps, InCritical
<1>5. CASE ~ (note[p] # Absent /\ Block \in note[p])
  <2>1. UNCHANGED <<at, base, next, pc>>
    BY <1>1, <1>5
  <2>2. todo' \in [Call -> SUBSET Path]
    BY <1>1 DEF Inv, TypeOK
  <2>3. TypeOK'
    BY <1>3, <2>1, <2>2 DEF Inv, TypeOK
  <2> QED
    BY <1>3, <2>1, <2>3 DEF Inv, LockDiscipline, Positions, Placed, EditsAreCurrent,
       IfMatchHolds, MoveNeverClobbers, CappedWritesReadable
<1> QED
  BY <1>4, <1>5

LEMMA SweepWriteKeepsInv ==
    ASSUME Inv, NEW c \in Call, SweepWrite(c)
    PROVE  Inv'
<1>1. pc[c] = "sweep" /\ mu = Free /\ req[c].op \in SweepOps
  BY DEF SweepWrite, Inv, Positions, Placed
<1>2. CASE TooLarge(next[c])
  BY <1>1, <1>2, ReturnKeepsInv DEF SweepWrite, Steps, InCritical, Answers
<1>3. CASE ~ TooLarge(next[c])
  <2>1. /\ mu' = c /\ pc' = [pc EXCEPT ![c] = "truncate"]
        /\ UNCHANGED <<note, trash, req, ifMatch, at, base, next, todo, res, faults>>
    BY <1>3 DEF SweepWrite, GoTo
  <2>2. TypeOK'
    BY <2>1 DEF Inv, TypeOK, Steps
  <2>3. LockDiscipline'
    BY <1>1, <2>1, ConstantsAssumption DEF Inv, TypeOK, LockDiscipline, InCritical
  <2>4. EditsAreCurrent' /\ IfMatchHolds' /\ MoveNeverClobbers'
    BY <1>1, <2>1 DEF Inv, TypeOK, EditsAreCurrent, IfMatchHolds, MoveNeverClobbers
  <2>6. Positions'
    <3> SUFFICES ASSUME NEW d \in Call PROVE Placed(d)'
      BY DEF Positions
    <3>1. CASE d = c
      BY <1>1, <2>1, <3>1 DEF Inv, TypeOK, Placed
    <3>2. CASE d # c
      BY <2>1, <3>2 DEF Inv, TypeOK, Positions, Placed
    <3> QED
      BY <3>1, <3>2
  <2>5. CappedWritesReadable'
    BY <1>3, <2>1 DEF Inv, TypeOK, CappedWritesReadable
  <2> QED
    BY <2>2, <2>3, <2>4, <2>5, <2>6 DEF Inv
<1> QED
  BY <1>2, <1>3

LEMMA AppendUnreadKeepsInv ==
    ASSUME Inv, NEW c \in Call, AppendUnread(c)
    PROVE  Inv'
<1>1. /\ pc[c] = "queued" /\ mu = Free /\ req[c].op = "append" /\ ifMatch[c] = NoEtag
      /\ pc' = [pc EXCEPT ![c] = "truncate"] /\ mu' = c
      /\ base' = [base EXCEPT ![c] = note[at[c]]]
      /\ next' = [next EXCEPT ![c] = {c}]
      /\ faults' = faults + 1 /\ faults < MaxFaults
      /\ UNCHANGED <<note, trash, req, ifMatch, at, todo, res>>
  BY DEF AppendUnread, AtLock, GoTo
<1>2. TypeOK'
  BY <1>1, ConstantsAssumption DEF Inv, TypeOK, Steps, Content
<1>3. LockDiscipline'
  BY <1>1, ConstantsAssumption DEF Inv, TypeOK, LockDiscipline, InCritical
<1>4. EditsAreCurrent' /\ IfMatchHolds' /\ MoveNeverClobbers'
  BY <1>1 DEF Inv, TypeOK, EditsAreCurrent, IfMatchHolds, MoveNeverClobbers
<1>7. Positions'
  <2> SUFFICES ASSUME NEW d \in Call PROVE Placed(d)'
    BY DEF Positions
  <2>1. CASE d = c
    BY <1>1, <2>1 DEF Inv, TypeOK, WriteOps, Placed
  <2>2. CASE d # c
    BY <1>1, <2>2 DEF Inv, TypeOK, Positions, Placed
  <2> QED
    BY <2>1, <2>2
<1>5. ~ TooLarge({c})
  <2>1. Cardinality({c}) = 1
    BY FS_Singleton, Zenon
  <2> QED
    BY <2>1, ConstantsAssumption DEF TooLarge
<1>6. CappedWritesReadable'
  BY <1>1, <1>5 DEF Inv, TypeOK, CappedWritesReadable
<1> QED
  BY <1>2, <1>3, <1>4, <1>6, <1>7 DEF Inv

LEMMA ReadErrorsKeepInv ==
    ASSUME Inv, NEW c \in Call, SweepUnread(c) \/ PeriodicUnread(c)
    PROVE  Inv'
<1>1. CASE SweepUnread(c)
  <2>1. TypeOK'
    BY <1>1, ConstantsAssumption DEF SweepUnread, Inv, TypeOK
  <2> QED
    BY <1>1, <2>1 DEF SweepUnread, Inv, LockDiscipline, Positions, Placed,
       EditsAreCurrent, IfMatchHolds, MoveNeverClobbers, CappedWritesReadable
<1>2. CASE PeriodicUnread(c)
  <2>1. TypeOK'
    BY <1>2, ConstantsAssumption DEF PeriodicUnread, GoTo, Inv, TypeOK, Steps
  <2> QED
    BY <1>2, <2>1, OutsideKeepsInv DEF PeriodicUnread, Steps, InCritical
<1> QED
  BY <1>1, <1>2

LEMMA CrashKeepsInv ==
    ASSUME Inv, Crash
    PROVE  Inv'
<1>1. /\ mu' = Free
      /\ pc' = [c \in Call |-> IF pc[c] = "idle" THEN "idle" ELSE "done"]
      /\ res' = [c \in Call |-> IF pc[c] \in {"idle", "done"} THEN res[c] ELSE "lost"]
      /\ faults' = faults + 1 /\ faults < MaxFaults
      /\ UNCHANGED <<note, trash, req, ifMatch, at, base, next, todo>>
  BY DEF Crash
<1>2. TypeOK'
  BY <1>1, ConstantsAssumption DEF Inv, TypeOK, Steps, Answers
<1>3. \A c \in Call : pc'[c] \in {"idle", "done"}
  BY <1>1
<1>4. LockDiscipline'
  BY <1>1, <1>3, ConstantsAssumption DEF LockDiscipline, InCritical
<1>5. Positions'
  BY <1>3 DEF Positions, Placed
<1>6. EditsAreCurrent' /\ IfMatchHolds' /\ MoveNeverClobbers'
  BY <1>3 DEF EditsAreCurrent, IfMatchHolds, MoveNeverClobbers
<1>7. CappedWritesReadable'
  BY <1>3 DEF CappedWritesReadable
<1> QED
  BY <1>2, <1>4, <1>5, <1>6, <1>7 DEF Inv

LEMMA NextKeepsInv == Inv /\ [Next]_vars => Inv'
<1> SUFFICES ASSUME Inv, [Next]_vars PROVE Inv'
  OBVIOUS
<1>1. CASE UNCHANGED vars
  BY <1>1 DEF vars, Inv, TypeOK, LockDiscipline, Positions, Placed, EditsAreCurrent,
     IfMatchHolds, MoveNeverClobbers, CappedWritesReadable
<1>2. ASSUME NEW c \in Call, Step(c) PROVE Inv'
  BY <1>2, StartKeepsInv, WriteNoteKeepsInv, EditsKeepInv, DeleteNoteKeepsInv,
     MoveNoteKeepsInv, SweepWriteKeepsInv, TruncateKeepsInv, StoreKeepsInv,
     RemoveKeepsInv, RenameKeepsInv, SweepReadKeepsInv, UnlockedStepsKeepInv
     DEF Step, Lock
<1>3. ASSUME NEW c \in Call, Disturb(c) PROVE Inv'
  BY <1>3, UnlockedStepsKeepInv, RejectKeepsInv, AppendUnreadKeepsInv, StorePartKeepsInv,
     IOFailsKeepsInv, ReadErrorsKeepInv DEF Disturb
<1>4. CASE Crash
  BY <1>4, CrashKeepsInv
<1>5. CASE Idle
  BY <1>1, <1>5 DEF Idle
<1> QED
  BY <1>1, <1>2, <1>3, <1>4, <1>5 DEF Next

\* Every reachable state satisfies the inductive invariant: whatever the calls, the
\* requests, the paths, the cap and the faults are.
THEOREM Safety == Spec => []Inv
<1>1. Inv /\ [Next]_vars => Inv'
  BY NextKeepsInv
<1> QED
  BY InitInv, <1>1, PTL DEF Spec

------------------------------------------------------------------------------
(***************************************************************************)
(* The properties of the model-checking runs, for every instance           *)
(***************************************************************************)

\* Every variable keeps its type: in particular a note that exists is a set of
\* pieces of text, and the lock is free or held by one call.
THEOREM TypeCorrect == Spec => []TypeOK
<1>1. Inv => TypeOK
  BY DEF Inv
<1> QED
  BY <1>1, Safety, PTL

\* The mutex is held by exactly the call that is inside a critical section, at
\* every moment: no handler forgets to unlock, none touches a note without it.
THEOREM LockIsDisciplined == Spec => []LockDiscipline
<1>1. Inv => LockDiscipline
  BY DEF Inv
<1> QED
  BY <1>1, Safety, PTL

\* The state is well formed and the mutex where it belongs, for any calls and notes,
\* after any number of crashes and I/O errors.
THEOREM WellFormedAlways == Spec => []WellFormed
BY TypeCorrect, LockIsDisciplined, PTL DEF WellFormed

\* The read-modify-write handlers write an edit of what is on disk.
THEOREM NoLostUpdate == Spec => []EditsAreCurrent
<1>1. Inv => EditsAreCurrent
  BY DEF Inv
<1> QED
  BY <1>1, Safety, PTL

\* A conditional call changes a note only while it has the content of its etag.
THEOREM IfMatchIsSound == Spec => []IfMatchHolds
<1>1. Inv => IfMatchHolds
  BY DEF Inv
<1> QED
  BY <1>1, Safety, PTL

\* A rename is only ever reached with a free destination.
THEOREM NoClobber == Spec => []MoveNeverClobbers
<1>1. Inv => MoveNeverClobbers
  BY DEF Inv
<1> QED
  BY <1>1, Safety, PTL

\* What every handler checked before its write holds at its write, however many
\* calls, crashes and failed writes there are.
THEOREM ChecksHoldAlways == Spec => []ChecksHold
<1>1. Inv => ChecksHold
  BY DEF Inv, ChecksHold
<1> QED
  BY <1>1, Safety, PTL

\* What write_note, replace_in_note and the walks store is within the cap.
THEOREM CapIsRespected == Spec => []CappedWritesReadable
<1>1. Inv => CappedWritesReadable
  BY DEF Inv
<1> QED
  BY <1>1, Safety, PTL

------------------------------------------------------------------------------
(***************************************************************************)
(* Action properties: which step may make a note appear or disappear       *)
(***************************************************************************)

\* The handlers that take the lock touch no note in the step in which they do.
LEMMA LocksLeaveNotes ==
    ASSUME NEW c \in Call, Lock(c)
    PROVE  UNCHANGED <<note, req, faults>>
<1>1. ASSUME NEW x, Answer(c, x) \/ BeginWrite(c, x)
      PROVE  UNCHANGED <<note, req, faults>>
  BY <1>1 DEF Answer, BeginWrite
<1>2. CASE WriteNote(c)
  BY <1>1, <1>2 DEF WriteNote
<1>3. CASE PatchNote(c)
  BY <1>1, <1>3 DEF PatchNote
<1>4. CASE UpdateFrontmatter(c)
  BY <1>1, <1>4 DEF UpdateFrontmatter
<1>5. CASE AddTag(c)
  BY <1>1, <1>5 DEF AddTag
<1>6. CASE RemoveTag(c)
  BY <1>1, <1>6 DEF RemoveTag
<1>7. CASE ReplaceInNote(c)
  BY <1>1, <1>7 DEF ReplaceInNote
<1>8. CASE DeleteNote(c) \/ MoveNote(c)
  BY <1>1, <1>8 DEF DeleteNote, MoveNote
<1>9. CASE SweepWrite(c)
  BY <1>9 DEF SweepWrite
<1> QED
  BY <1>2, <1>3, <1>4, <1>5, <1>6, <1>7, <1>8, <1>9 DEF Lock

\* No step changes a request, and every failure is counted.
LEMMA FaultsOnlyGrow ==
    ASSUME [Next]_vars
    PROVE  req' = req /\ (faults' = faults \/ faults' = faults + 1)
<1>1. ASSUME NEW c \in Call, Step(c)
      PROVE  UNCHANGED <<req, faults>>
  <2>1. CASE Lock(c)
    BY <2>1, LocksLeaveNotes
  <2>2. CASE ~ Lock(c)
    BY <1>1, <2>2 DEF Step, Start, Truncate, Store, Remove, Rename, SweepRead,
       SweepDone, PeriodicLookup, PeriodicReread
  <2> QED
    BY <2>1, <2>2
<1>2. ASSUME NEW c \in Call, Disturb(c)
      PROVE  req' = req /\ (faults' = faults \/ faults' = faults + 1)
  BY <1>2 DEF Disturb, Refuse, Reject, Answer, SweepCancelled, AppendUnread, StorePart, IOFails,
     SweepUnread, PeriodicUnread
<1> QED
  BY <1>1, <1>2 DEF Next, Crash, Idle, vars

\* Only the holder of the lock touches a note at all.
LEMMA WhoTouchesNotes ==
    ASSUME Inv, [Next]_vars
    PROVE  \/ note' = note
           \/ \E c \in Call : Truncate(c) \/ StorePart(c) \/ Store(c) \/ Remove(c) \/ Rename(c)
<1>1. ASSUME NEW c \in Call, Step(c)
      PROVE  note' = note \/ Truncate(c) \/ Store(c) \/ Remove(c) \/ Rename(c)
  <2>1. CASE Lock(c)
    BY <2>1, LocksLeaveNotes
  <2>2. CASE ~ Lock(c)
    BY <1>1, <2>2 DEF Step, Start, SweepRead, SweepDone, PeriodicLookup, PeriodicReread
  <2> QED
    BY <2>1, <2>2
<1>2. ASSUME NEW c \in Call, Disturb(c)
      PROVE  note' = note \/ StorePart(c)
  BY <1>2 DEF Disturb, Refuse, Reject, Answer, SweepCancelled, AppendUnread, IOFails,
     SweepUnread, PeriodicUnread
<1> QED
  BY <1>1, <1>2 DEF Next, Crash, Idle, vars

\* A note leaves its path for the trash, for the destination of a move, or by a
\* permanent delete.  The move is where the invariant is needed: its rename finds
\* the destination free and the two paths distinct.
THEOREM NotesDoNotVanish == Spec => NothingVanishes
<1>1. ASSUME Inv, [Next]_vars PROVE [\A p \in Path : KeptOrDestroyed(p)]_vars
  <2> SUFFICES ASSUME NEW p \in Path, note[p] # Absent, note'[p] = Absent
               PROVE  \/ [path |-> p, content |-> note[p]] \in trash'
                      \/ \E q \in Path : note[q] = Absent /\ note'[q] = note[p]
                      \/ \E c \in Call : pc[c] = "remove" /\ at[c] = p
                                         /\ req[c].op = "deletePermanent"
    BY DEF KeptOrDestroyed
  <2>1. PICK c \in Call : Truncate(c) \/ StorePart(c) \/ Store(c) \/ Remove(c) \/ Rename(c)
    BY <1>1, WhoTouchesNotes
  <2>2. CASE Truncate(c) \/ StorePart(c) \/ Store(c)
    <3>1. \A x \in Content : x # Absent
      BY ConstantsAssumption
    <3>2. {} \in Content /\ next[c] \in Content /\ SUBSET next[c] \subseteq Content
      BY <1>1 DEF Inv, TypeOK, Content
    <3>3. note'[p] = note[p] \/ note'[p] \in SUBSET next[c]
      BY <1>1, <2>2 DEF Truncate, StorePart, Store, Inv, TypeOK
    <3> QED
      BY <3>1, <3>2, <3>3
  <2>3. CASE Remove(c)
    <3>1. p = at[c]
      BY <1>1, <2>3 DEF Remove, Inv, TypeOK
    <3> QED
      BY <2>3, <3>1 DEF Remove
  <2>4. CASE Rename(c)
    <3>1. note[req[c].dst] = Absent /\ req[c].dst \in Path /\ at[c] \in Path
      BY <1>1, <2>4, RequestFields DEF Rename, Inv, TypeOK, MoveNeverClobbers
    <3>2. note[at[c]] # Absent
      BY <2>4 DEF Rename
    <3>3. note' = [note EXCEPT ![at[c]] = Absent, ![req[c].dst] = note[at[c]]]
      BY <2>4, <3>2 DEF Rename
    <3>4. p = at[c] /\ note'[req[c].dst] = note[p]
      BY <1>1, <3>1, <3>2, <3>3 DEF Inv, TypeOK
    <3> QED
      BY <3>1, <3>4
  <2> QED
    BY <2>1, <2>2, <2>3, <2>4
<1> QED
  BY <1>1, Safety, PTL DEF Spec, NothingVanishes

\* Without a vault-wide walk no edit brings back a note that is gone: what an edit
\* is about to truncate is the note it read, and that was there.
THEOREM NoResurrectionWithoutWalks ==
    ASSUME \A r \in Requests : r.op \notin SweepOps
    PROVE  Spec => NoResurrection
<1>1. ASSUME Inv, [Next]_vars PROVE [\A p \in Path : CreatedOpenly(p)]_vars
  <2> SUFFICES ASSUME NEW p \in Path, note[p] = Absent, note'[p] # Absent
               PROVE  \E c \in Call :
                         \/ pc[c] = "truncate" /\ at[c] = p /\ req[c].op \in WriteOps
                                               /\ ifMatch[c] = NoEtag
                         \/ pc[c] = "rename" /\ req[c].dst = p
    BY DEF CreatedOpenly
  <2>1. PICK c \in Call : Truncate(c) \/ StorePart(c) \/ Store(c) \/ Remove(c) \/ Rename(c)
    BY <1>1, WhoTouchesNotes
  <2>2. req[c].op \notin SweepOps
    BY <1>1 DEF Inv, TypeOK
  <2>3. CASE Truncate(c)
    <3>1. at[c] = p /\ pc[c] = "truncate"
      BY <1>1, <2>3 DEF Truncate, Inv, TypeOK
    <3>2. note[at[c]] = base[c]
      BY <1>1, <2>2, <3>1 DEF Inv, EditsAreCurrent
    <3>3. req[c].op \in WriteOps
      BY <1>1, <2>2, <3>1, <3>2 DEF Inv, Positions, Placed
    <3>4. ifMatch[c] = NoEtag
      <4>1. ifMatch[c] # NoEtag => note[at[c]] = ifMatch[c]
        BY <1>1, <2>2, <3>1 DEF Inv, IfMatchHolds
      <4>2. ifMatch[c] # NoEtag => ifMatch[c] # Absent
        BY <1>1, ConstantsAssumption DEF Inv, TypeOK
      <4> QED
        BY <3>1, <4>1, <4>2
    <3> QED
      BY <3>1, <3>3, <3>4
  <2>4. CASE StorePart(c) \/ Store(c)
    <3>1. at[c] = p /\ pc[c] = "store"
      BY <1>1, <2>4 DEF StorePart, Store, Inv, TypeOK
    <3>2. note[p] # Absent
      BY <1>1, <3>1 DEF Inv, Positions, Placed
    <3> QED
      BY <3>2
  <2>5. CASE Remove(c)
    BY <1>1, <2>5 DEF Remove, Inv, TypeOK
  <2>6. CASE Rename(c)
    <3>1. pc[c] = "rename" /\ req[c].dst = p
      BY <1>1, <2>6 DEF Rename, Inv, TypeOK
    <3> QED
      BY <3>1
  <2> QED
    BY <2>1, <2>3, <2>4, <2>5, <2>6
<1> QED
  BY <1>1, Safety, PTL DEF Spec, NoResurrection

------------------------------------------------------------------------------
(***************************************************************************)
(* Acknowledged text is never lost: the proof that AckedEditSurvives, for  *)
(* any number of concurrent calls, follows from what each critical section *)
(* stores.                                                                 *)
(***************************************************************************)

Quiet == faults = 0 /\ \A d \in Call : req[d].op \notin Lossy

\* What a call holds for its text and for the text of the others: an additive
\* call is about to store its own piece, whoever is about to truncate a note is
\* about to store everything in it but the block, and text once acknowledged is
\* somewhere.
Holds(c) ==
    /\ res[c] = "ok" /\ req[c].op \in Additive => Survives(c)
    /\ pc[c] \in {"truncate", "store"} /\ req[c].op \in Additive => c \in next[c]
    /\ pc[c] = "truncate" =>
          \A d \in Call : note[at[c]] # Absent /\ d \in note[at[c]] => d \in next[c]

AckInv == Quiet => \A c \in Call : Holds(c)

LEMMA InitAckInv == Init => AckInv
BY DEF Init, AckInv, Holds

\* As long as nothing has failed after the step, nothing had failed before it, and
\* the requests are the same.
LEMMA QuietBefore ==
    ASSUME Inv, [Next]_vars, Quiet'
    PROVE  Quiet /\ UNCHANGED <<req, faults>>
<1>1. req' = req /\ (faults' = faults \/ faults' = faults + 1)
  BY FaultsOnlyGrow
<1>2. faults \in Nat
  BY ConstantsAssumption DEF Inv, TypeOK
<1>3. faults' = faults
  BY <1>1, <1>2 DEF Quiet
<1> QED
  BY <1>1, <1>3 DEF Quiet

\* A step that leaves files, buffers and stores in progress alone keeps Holds for
\* every call it does not answer with ok.
LEMMA AnswerKeepsHolds ==
    ASSUME Inv, Quiet, AckInv, NEW c \in Call, NEW answer \in Answers,
           Return(c, answer), pc[c] # "store",
           answer = "ok" /\ req[c].op \in Additive => Survives(c),
           UNCHANGED <<note, trash, req, at, next>>
    PROVE  \A d \in Call : Holds(d)'
<1> SUFFICES ASSUME NEW d \in Call PROVE Holds(d)'
  OBVIOUS
<1>1. pc' = [pc EXCEPT ![c] = "done"] /\ res' = [res EXCEPT ![c] = answer]
  BY DEF Return, GoTo
<1>2. \A e \in Call : Survives(e) => Survives(e)'
  BY <1>1 DEF Survives, Inv, TypeOK
<1>3. Holds(d) /\ Holds(c)
  BY DEF AckInv
<1> QED
  BY <1>1, <1>2, <1>3 DEF Holds, Inv, TypeOK

LEMMA GoKeepsHolds ==
    ASSUME Inv, Quiet, AckInv, NEW c \in Call,
           NEW step \in Steps \ {"truncate", "store"},
           GoTo(c, step), pc[c] # "store",
           UNCHANGED <<note, trash, req, at, next, res>>
    PROVE  \A d \in Call : Holds(d)'
<1> SUFFICES ASSUME NEW d \in Call PROVE Holds(d)'
  OBVIOUS
<1>1. pc' = [pc EXCEPT ![c] = step]
  BY DEF GoTo
<1>2. \A e \in Call : Survives(e) => Survives(e)'
  BY <1>1 DEF Survives, Inv, TypeOK
<1>3. Holds(d)
  BY DEF AckInv
<1> QED
  BY <1>1, <1>2, <1>3 DEF Holds, Inv, TypeOK

LEMMA BeginWriteKeepsHolds ==
    ASSUME Inv, Quiet, AckInv, NEW c \in Call, NEW new \in Content,
           pc[c] = "queued", BeginWrite(c, new),
           req[c].op \in Additive => c \in new,
           \A d \in Call : note[at[c]] # Absent /\ d \in note[at[c]] => d \in new
    PROVE  \A d \in Call : Holds(d)'
<1> SUFFICES ASSUME NEW d \in Call PROVE Holds(d)'
  OBVIOUS
<1>1. /\ pc' = [pc EXCEPT ![c] = "truncate"] /\ next' = [next EXCEPT ![c] = new]
      /\ UNCHANGED <<note, trash, req, at, res>>
  BY DEF BeginWrite, GoTo
<1>2. \A e \in Call : Survives(e) => Survives(e)'
  BY <1>1 DEF Survives, Inv, TypeOK
<1>3. Holds(d)
  BY DEF AckInv
<1>4. CASE d = c
  BY <1>1, <1>2, <1>3, <1>4 DEF Holds, Inv, TypeOK
<1>5. CASE d # c
  BY <1>1, <1>2, <1>3, <1>5 DEF Holds, Inv, TypeOK
<1> QED
  BY <1>4, <1>5

------------------------------------------------------------------------------
\* The handlers

LEMMA WriteNoteKeepsHolds ==
    ASSUME Inv, Quiet, AckInv, NEW c \in Call, WriteNote(c)
    PROVE  \A d \in Call : Holds(d)'
<1> DEFINE file    == note[at[c]]
           new     == Written(c, IF file = Absent THEN {} ELSE file)
           verdict == IfMatchVerdict(c, file, "conflict")
<1>1. pc[c] = "queued" /\ req[c].op = "append"
  BY DEF WriteNote, AtLock, WriteOps, Quiet, Lossy
<1>2. new = (IF file = Absent THEN {} ELSE file) \cup {c}
  BY <1>1 DEF Written
<1>3. new \in Content
  BY <1>2 DEF Inv, TypeOK, Content
<1>4. CASE \E answer \in Answers : answer # "ok" /\ Answer(c, answer)
  BY <1>1, <1>4, AnswerKeepsHolds DEF Answer
<1>5. CASE BeginWrite(c, new)
  BY <1>1, <1>2, <1>3, <1>5, BeginWriteKeepsHolds
<1>6. verdict \in Answers
  BY VerdictIsAnAnswer DEF Answers
<1>7. (\E answer \in Answers : answer # "ok" /\ Answer(c, answer)) \/ BeginWrite(c, new)
  BY <1>6 DEF WriteNote, Answers
<1> QED
  BY <1>4, <1>5, <1>7

LEMMA EditsKeepHolds ==
    ASSUME Inv, Quiet, AckInv, NEW c \in Call,
           \/ PatchNote(c) \/ UpdateFrontmatter(c) \/ AddTag(c)
           \/ RemoveTag(c) \/ ReplaceInNote(c)
    PROVE  \A d \in Call : Holds(d)'
<1> DEFINE file    == note[at[c]]
           verdict == EditVerdict(c, file)
<1>1. /\ pc[c] = "queued" /\ at[c] \in Path /\ file \in {Absent} \cup Content
      /\ req[c].op # "replaceBody"
  BY DEF PatchNote, UpdateFrontmatter, AddTag, RemoveTag, ReplaceInNote, AtLock, Inv,
     TypeOK, Quiet, Lossy
<1>2. verdict \in Answers /\ (verdict = "ok" => file \in Content)
  BY <1>1, VerdictIsAnAnswer, EditVerdictOk DEF Answers
<1>3. ASSUME NEW answer \in Answers, Answer(c, answer),
             answer = "ok" /\ req[c].op \in Additive => Survives(c)
      PROVE  \A d \in Call : Holds(d)'
  BY <1>1, <1>3, AnswerKeepsHolds DEF Answer
<1>4. ASSUME NEW new \in SUBSET (Call \cup {Block}), BeginWrite(c, new),
             req[c].op \in Additive => c \in new, file \ {Block} \subseteq new
      PROVE  \A d \in Call : Holds(d)'
  <2>1. \A d \in Call : d # Block
    BY ConstantsAssumption
  <2>2. \A d \in Call : note[at[c]] # Absent /\ d \in note[at[c]] => d \in new
    BY <1>4, <2>1
  <2> QED
    BY <1>1, <1>4, <2>2, BeginWriteKeepsHolds DEF Content
<1> HIDE DEF verdict
<1>5. CASE verdict # "ok"
  <2>1. Answer(c, verdict)
    BY <1>5 DEF PatchNote, UpdateFrontmatter, AddTag, RemoveTag, ReplaceInNote, verdict
  <2> QED
    BY <1>2, <1>3, <1>5, <2>1
<1>6. CASE verdict = "ok" /\ PatchNote(c)
  <2>1. Answer(c, "headingNotFound") \/ BeginWrite(c, file \cup {c})
    BY <1>1, <1>6 DEF PatchNote, AtLock, verdict
  <2>2. file \cup {c} \in SUBSET (Call \cup {Block})
    BY <1>2, <1>6 DEF Content
  <2> QED
    BY <1>3, <1>4, <2>1, <2>2 DEF Answers
<1>7. CASE verdict = "ok" /\ UpdateFrontmatter(c)
  <2>1. PICK new \in Edited(c, file) : BeginWrite(c, new)
    BY <1>7 DEF UpdateFrontmatter, verdict
  <2>2. new \in SUBSET (Call \cup {Block}) /\ c \in new /\ file \ {Block} \subseteq new
    BY <1>2, <1>7, EditedIsContent DEF Content
  <2> QED
    BY <1>4, <2>1, <2>2
<1>8. CASE verdict = "ok" /\ AddTag(c)
  <2> DEFINE new == file \cup {IF req[c].op = "addTag" THEN Block ELSE c}
  <2>1. new \in SUBSET (Call \cup {Block})
    BY <1>2, <1>8 DEF Content
  <2>2. req[c].op \in Additive => c \in new
    BY DEF Additive
  <2>3. CASE new = file /\ Answer(c, "ok")
    <3>1. Answer(c, "ok")
      BY <2>3
    <3>2. req[c].op \in Additive => Survives(c)
      BY <1>1, <1>2, <1>8, <2>2, <2>3, ConstantsAssumption DEF Survives
    <3> QED
      BY <1>3, <3>1, <3>2 DEF Answers
  <2>4. CASE BeginWrite(c, new)
    BY <1>4, <2>1, <2>2, <2>4
  <2> QED
    BY <1>8, <2>3, <2>4 DEF AddTag, verdict
<1>9. CASE verdict = "ok" /\ RemoveTag(c)
  <2>1. BeginWrite(c, file \ {Block}) /\ req[c].op \notin Additive
    BY <1>9 DEF RemoveTag, AtLock, Additive, verdict
  <2>2. file \ {Block} \in SUBSET (Call \cup {Block})
    BY <1>2, <1>9 DEF Content
  <2> QED
    BY <1>4, <2>1, <2>2
<1>10. CASE verdict = "ok" /\ ReplaceInNote(c)
  <2>1. \/ \E answer \in {"ok", "tooLarge"} : Answer(c, answer)
        \/ Block \in file /\ \E new \in Edited(c, file) : BeginWrite(c, new)
    BY <1>10 DEF ReplaceInNote, verdict
  <2>2. req[c].op \notin Additive
    BY <1>10 DEF ReplaceInNote, AtLock, Additive
  <2>3. ASSUME NEW new \in Edited(c, file)
        PROVE  new \in SUBSET (Call \cup {Block}) /\ file \ {Block} \subseteq new
    BY <1>2, <1>10, EditedIsContent DEF Content
  <2> QED
    BY <1>3, <1>4, <2>1, <2>2, <2>3 DEF Answers
<1> QED
  BY <1>5, <1>6, <1>7, <1>8, <1>9, <1>10

\* The handlers that only take the lock, and the beginning of a call.
LEMMA StartsKeepHolds ==
    ASSUME Inv, Quiet, AckInv, NEW c \in Call,
           Start(c) \/ Refuse(c) \/ Reject(c) \/ DeleteNote(c) \/ MoveNote(c)
    PROVE  \A d \in Call : Holds(d)'
<1>1. pc[c] # "store"
  BY DEF Start, Refuse, Reject, DeleteNote, MoveNote, AtLock
<1>2. CASE Start(c)
  <2>1. FirstStep(req[c].op) \in Steps \ {"truncate", "store"}
    BY StepsAreSteps DEF Steps
  <2> QED
    BY <1>1, <1>2, <2>1, GoKeepsHolds DEF Start
<1>3. CASE Refuse(c) \/ Reject(c)
  BY <1>1, <1>3, AnswerKeepsHolds DEF Refuse, Reject, Answer, Answers
<1>4. ASSUME NEW answer \in Answers, answer # "ok", Answer(c, answer)
      PROVE  \A d \in Call : Holds(d)'
  BY <1>1, <1>4, AnswerKeepsHolds DEF Answer
<1>5. ASSUME NEW step \in {"remove", "rename"}, GoTo(c, step),
             UNCHANGED <<note, trash, req, at, next, res>>
      PROVE  \A d \in Call : Holds(d)'
  BY <1>1, <1>5, GoKeepsHolds DEF Steps
<1> DEFINE verdict == IfMatchVerdict(c, note[at[c]], "notFound")
<1>6. verdict \in Answers /\ "exists" \in Answers
  BY VerdictIsAnAnswer DEF Answers
<1> HIDE DEF verdict
<1>7. CASE DeleteNote(c)
  <2>1. CASE verdict # "ok"
    <3>1. Answer(c, verdict)
      BY <1>7, <2>1 DEF DeleteNote, verdict
    <3> QED
      BY <1>4, <1>6, <2>1, <3>1
  <2>2. CASE verdict = "ok"
    <3>1. GoTo(c, "remove") /\ UNCHANGED <<note, trash, req, at, next, res>>
      BY <1>7, <2>2 DEF DeleteNote, verdict
    <3> QED
      BY <1>5, <3>1
  <2> QED
    BY <2>1, <2>2
<1>8. CASE MoveNote(c)
  <2>1. CASE note[req[c].dst] # Absent
    <3>1. Answer(c, "exists")
      BY <1>8, <2>1 DEF MoveNote
    <3> QED
      BY <1>4, <1>6, <3>1
  <2>2. CASE note[req[c].dst] = Absent /\ verdict # "ok"
    <3>1. Answer(c, verdict)
      BY <1>8, <2>2 DEF MoveNote, verdict
    <3> QED
      BY <1>4, <1>6, <2>2, <3>1
  <2>3. CASE note[req[c].dst] = Absent /\ verdict = "ok"
    <3>1. GoTo(c, "rename") /\ UNCHANGED <<note, trash, req, at, next, res>>
      BY <1>8, <2>3 DEF MoveNote, verdict
    <3> QED
      BY <1>5, <3>1
  <2> QED
    BY <2>1, <2>2, <2>3
<1> QED
  BY <1>2, <1>3, <1>7, <1>8

\* The truncation hides text only from the disk: the call that truncates has it all
\* in the content it is about to store.
LEMMA TruncateKeepsHolds ==
    ASSUME Inv, Quiet, AckInv, NEW c \in Call, Truncate(c)
    PROVE  \A d \in Call : Holds(d)'
<1>1. /\ pc[c] = "truncate" /\ at[c] \in Path
      /\ note' = [note EXCEPT ![at[c]] = {}] /\ pc' = [pc EXCEPT ![c] = "store"]
      /\ UNCHANGED <<trash, req, at, next, res>>
  BY DEF Truncate, GoTo, Inv, TypeOK
<1>2. \A d \in Call : d # c => pc[d] \notin {"truncate", "store"}
  BY <1>1 DEF Inv, LockDiscipline, InCritical
<1>3. Holds(c)
  BY DEF AckInv
<1>4. pc'[c] = "store" /\ next'[c] = next[c]
  BY <1>1 DEF Inv, TypeOK
<1>5. ASSUME NEW e \in Call, Survives(e) PROVE Survives(e)'
  <2>1. CASE \E t \in trash : e \in t.content
    BY <1>1, <2>1 DEF Survives
  <2>2. CASE \E d \in Call : pc[d] = "store" /\ e \in next[d]
    BY <1>1, <1>2, <2>2
  <2>3. CASE \E p \in Path : note[p] # Absent /\ e \in note[p]
    <3>1. PICK p \in Path : note[p] # Absent /\ e \in note[p]
      BY <2>3
    <3>2. CASE p = at[c]
      <4>1. e \in next[c]
        BY <1>1, <1>3, <3>1, <3>2 DEF Holds
      <4> QED
        BY <1>4, <4>1 DEF Survives
    <3>3. CASE p # at[c]
      <4>1. note'[p] = note[p]
        BY <1>1, <3>3 DEF Inv, TypeOK
      <4> QED
        BY <3>1, <4>1 DEF Survives
    <3> QED
      BY <3>2, <3>3
  <2> QED
    BY <1>5, <2>1, <2>2, <2>3 DEF Survives
<1> SUFFICES ASSUME NEW d \in Call PROVE Holds(d)'
  OBVIOUS
<1>6. Holds(d)
  BY DEF AckInv
<1>7. CASE d = c
  BY <1>1, <1>4, <1>5, <1>6, <1>7 DEF Holds
<1>8. CASE d # c
  <2>1. pc'[d] = pc[d]
    BY <1>1, <1>8 DEF Inv, TypeOK
  <2> QED
    BY <1>1, <1>2, <1>5, <1>6, <1>8, <2>1 DEF Holds
<1> QED
  BY <1>7, <1>8

\* The steps that finish a change (store, remove, rename) leave no write begun.
LEMMA FinishKeepsHolds ==
    ASSUME Inv, Quiet, AckInv, NEW c \in Call, pc[c] \in InCritical,
           pc' = [pc EXCEPT ![c] = "done"], UNCHANGED <<req, next>>,
           \A d \in Call : d # c => res'[d] = res[d],
           \A e \in Call : Survives(e) => Survives(e)',
           res'[c] = "ok" /\ req[c].op \in Additive => Survives(c)'
    PROVE  \A d \in Call : Holds(d)'
<1> SUFFICES ASSUME NEW d \in Call PROVE Holds(d)'
  OBVIOUS
<1>1. Holds(d)
  BY DEF AckInv
<1>2. pc'[d] \notin {"truncate", "store"}
  BY DEF Inv, TypeOK, LockDiscipline, InCritical
<1> QED
  BY <1>1, <1>2 DEF Holds

\* While the bytes arrive, the whole text is still with the call that stores it.
LEMMA StorePartKeepsHolds ==
    ASSUME Inv, Quiet, AckInv, NEW c \in Call, StorePart(c)
    PROVE  \A d \in Call : Holds(d)'
<1>1. /\ pc[c] = "store" /\ at[c] \in Path
      /\ \E part : note' = [note EXCEPT ![at[c]] = part]
      /\ UNCHANGED <<trash, pc, req, at, next, res>>
  BY DEF StorePart, Inv, TypeOK
<1>2. note[at[c]] \subseteq next[c] /\ \A d \in Call : pc[d] # "truncate"
  BY <1>1 DEF Inv, Positions, Placed, LockDiscipline, InCritical
<1>3. ASSUME NEW e \in Call, Survives(e) PROVE Survives(e)'
  <2>1. CASE \E t \in trash : e \in t.content
    BY <1>1, <2>1 DEF Survives
  <2>2. CASE \E d \in Call : pc[d] = "store" /\ e \in next[d]
    BY <1>1, <2>2 DEF Survives
  <2>3. CASE \E p \in Path : note[p] # Absent /\ e \in note[p]
    <3>1. PICK p \in Path : note[p] # Absent /\ e \in note[p]
      BY <2>3
    <3>2. e \in next[c] \/ note'[p] = note[p]
      BY <1>1, <1>2, <3>1 DEF Inv, TypeOK
    <3> QED
      BY <1>1, <3>1, <3>2 DEF Survives
  <2> QED
    BY <1>3, <2>1, <2>2, <2>3 DEF Survives
<1> SUFFICES ASSUME NEW d \in Call PROVE Holds(d)'
  OBVIOUS
<1>4. Holds(d)
  BY DEF AckInv
<1> QED
  BY <1>1, <1>2, <1>3, <1>4 DEF Holds

LEMMA StoreKeepsHolds ==
    ASSUME Inv, Quiet, AckInv, NEW c \in Call, Store(c)
    PROVE  \A d \in Call : Holds(d)'
<1>1. AfterStore(c) = "done"
  BY DEF AfterStore, Quiet, Lossy
<1>2. /\ pc[c] = "store" /\ at[c] \in Path /\ next[c] \in Content
      /\ note' = [note EXCEPT ![at[c]] = next[c]]
      /\ pc' = [pc EXCEPT ![c] = "done"] /\ res' = [res EXCEPT ![c] = "ok"]
      /\ UNCHANGED <<trash, req, next>>
  BY <1>1 DEF Store, GoTo, Inv, TypeOK
<1>3. note[at[c]] \subseteq next[c]
  BY <1>2 DEF Inv, Positions, Placed
<1>4. note'[at[c]] = next[c] /\ next[c] # Absent
  BY <1>2, ConstantsAssumption DEF Inv, TypeOK
<1>5. \A e \in Call : e \in next[c] => Survives(e)'
  BY <1>2, <1>4 DEF Survives
<1>6. ASSUME NEW e \in Call, Survives(e) PROVE Survives(e)'
  <2>1. CASE \E t \in trash : e \in t.content
    BY <1>2, <2>1 DEF Survives
  <2>2. CASE \E d \in Call : pc[d] = "store" /\ e \in next[d]
    <3>1. e \in next[c]
      BY <1>2, <2>2 DEF Inv, LockDiscipline, InCritical
    <3> QED
      BY <1>5, <3>1
  <2>3. CASE \E p \in Path : note[p] # Absent /\ e \in note[p]
    <3>1. PICK p \in Path : note[p] # Absent /\ e \in note[p]
      BY <2>3
    <3>2. e \in next[c] \/ note'[p] = note[p]
      BY <1>2, <1>3, <3>1 DEF Inv, TypeOK
    <3> QED
      BY <1>5, <3>1, <3>2 DEF Survives
  <2> QED
    BY <1>6, <2>1, <2>2, <2>3 DEF Survives
<1>7. req[c].op \in Additive => Survives(c)'
  <2>1. Holds(c)
    BY DEF AckInv
  <2> QED
    BY <1>2, <1>5, <2>1 DEF Holds
<1>8. \A d \in Call : d # c => res'[d] = res[d]
  BY <1>2 DEF Inv, TypeOK
<1> QED
  BY <1>2, <1>6, <1>7, <1>8, FinishKeepsHolds DEF InCritical

LEMMA RemoveKeepsHolds ==
    ASSUME Inv, Quiet, AckInv, NEW c \in Call, Remove(c)
    PROVE  \A d \in Call : Holds(d)'
<1>1. /\ pc[c] = "remove" /\ at[c] \in Path
      /\ note' = [note EXCEPT ![at[c]] = Absent]
      /\ pc' = [pc EXCEPT ![c] = "done"] /\ UNCHANGED <<req, next>>
  BY DEF Remove, Return, GoTo, Inv, TypeOK
<1>2. req[c].op = "delete"
  BY <1>1 DEF Inv, Positions, Placed, DeleteOps, Quiet, Lossy
<1>3. trash' = IF note[at[c]] = Absent THEN trash
               ELSE trash \cup {[path |-> at[c], content |-> note[at[c]]]}
  BY <1>2 DEF Remove
<1>4. ASSUME NEW e \in Call, Survives(e) PROVE Survives(e)'
  <2>1. CASE \E t \in trash : e \in t.content
    BY <1>3, <2>1 DEF Survives
  <2>2. CASE \E d \in Call : pc[d] = "store" /\ e \in next[d]
    BY <1>1, <2>2 DEF Inv, LockDiscipline, InCritical
  <2>3. CASE \E p \in Path : note[p] # Absent /\ e \in note[p]
    <3>1. PICK p \in Path : note[p] # Absent /\ e \in note[p]
      BY <2>3
    <3>2. CASE p = at[c]
      <4>1. [path |-> p, content |-> note[p]] \in trash'
        BY <1>3, <3>1, <3>2
      <4> QED
        BY <3>1, <4>1 DEF Survives
    <3>3. CASE p # at[c]
      <4>1. note'[p] = note[p]
        BY <1>1, <3>3 DEF Inv, TypeOK
      <4> QED
        BY <3>1, <4>1 DEF Survives
    <3> QED
      BY <3>2, <3>3
  <2> QED
    BY <1>4, <2>1, <2>2, <2>3 DEF Survives
<1>5. \A d \in Call : d # c => res'[d] = res[d]
  BY DEF Remove, Return, Inv, TypeOK
<1>6. req[c].op \notin Additive
  BY <1>2 DEF Additive
<1> QED
  BY <1>1, <1>4, <1>5, <1>6, FinishKeepsHolds DEF InCritical

LEMMA RenameKeepsHolds ==
    ASSUME Inv, Quiet, AckInv, NEW c \in Call, Rename(c)
    PROVE  \A d \in Call : Holds(d)'
<1>1. pc[c] = "rename" /\ at[c] \in Path /\ req[c].dst \in Path /\ req[c].op = "move"
  <2>1. pc[c] = "rename" /\ at[c] \in Path /\ req[c] \in Requests
    BY DEF Rename, Inv, TypeOK
  <2>2. req[c].op \in MoveOps
    BY <2>1 DEF Inv, Positions, Placed
  <2> QED
    BY <2>1, <2>2, RequestFields DEF MoveOps, SweepOps, Quiet, Lossy
<1>2. /\ UNCHANGED <<trash, req, next>> /\ pc' = [pc EXCEPT ![c] = "done"]
      /\ \A d \in Call : d # c => res'[d] = res[d]
  BY <1>1 DEF Rename, Return, GoTo, Inv, TypeOK
<1>3. \/ note' = note
      \/ /\ note[at[c]] # Absent
         /\ note' = [note EXCEPT ![at[c]] = Absent, ![req[c].dst] = note[at[c]]]
  BY DEF Rename
<1>4. note[req[c].dst] = Absent
  BY <1>1 DEF Inv, MoveNeverClobbers
<1>5. ASSUME NEW e \in Call, Survives(e) PROVE Survives(e)'
  <2>1. CASE \E t \in trash : e \in t.content
    BY <1>2, <2>1 DEF Survives
  <2>2. CASE \E d \in Call : pc[d] = "store" /\ e \in next[d]
    BY <1>1, <2>2 DEF Inv, LockDiscipline, InCritical
  <2>3. CASE \E p \in Path : note[p] # Absent /\ e \in note[p]
    <3>1. PICK p \in Path : note[p] # Absent /\ e \in note[p]
      BY <2>3
    <3>2. \E q \in Path : note'[q] = note[p]
      BY <1>1, <1>3, <1>4, <3>1 DEF Inv, TypeOK
    <3> QED
      BY <3>1, <3>2 DEF Survives
  <2> QED
    BY <1>5, <2>1, <2>2, <2>3 DEF Survives
<1>6. req[c].op \notin Additive
  BY <1>1 DEF Additive
<1> QED
  BY <1>1, <1>2, <1>5, <1>6, FinishKeepsHolds DEF InCritical

\* The walks and the periodic notes are not quiet, and neither is a failed write.
LEMMA NextKeepsAckInv ==
    ASSUME Inv, AckInv, [Next]_vars
    PROVE  AckInv'
<1> SUFFICES ASSUME Quiet' PROVE \A d \in Call : Holds(d)'
  BY DEF AckInv
<1>1. Quiet /\ UNCHANGED <<req, faults>>
  BY QuietBefore
<1>2. CASE UNCHANGED vars
  BY <1>1, <1>2 DEF vars, AckInv, Holds, Survives
<1>3. faults \in Nat
  BY ConstantsAssumption DEF Inv, TypeOK
<1>4. CASE Crash
  BY <1>1, <1>3, <1>4 DEF Crash
<1>5. ASSUME NEW c \in Call, Step(c) \/ Disturb(c)
      PROVE  \A d \in Call : Holds(d)'
  <2>1. pc[c] \notin {"walk", "sweep", "lookup", "reread"}
    BY <1>1 DEF Inv, Positions, Placed, Quiet, Lossy
  <2>2. ~ AppendUnread(c) /\ ~ IOFails(c) /\ ~ SweepUnread(c) /\ ~ PeriodicUnread(c)
    BY <1>1, <1>3 DEF AppendUnread, IOFails, SweepUnread, PeriodicUnread
  <2>3. ~ SweepRead(c) /\ ~ SweepDone(c) /\ ~ SweepCancelled(c) /\ ~ SweepWrite(c)
        /\ ~ PeriodicLookup(c) /\ ~ PeriodicReread(c)
    BY <2>1 DEF SweepRead, SweepDone, SweepCancelled, SweepWrite, PeriodicLookup,
       PeriodicReread
  <2>4. \/ Start(c) \/ Refuse(c) \/ Reject(c) \/ StorePart(c) \/ DeleteNote(c) \/ MoveNote(c) \/ WriteNote(c)
        \/ PatchNote(c) \/ UpdateFrontmatter(c) \/ AddTag(c) \/ RemoveTag(c)
        \/ ReplaceInNote(c) \/ Truncate(c) \/ Store(c) \/ Remove(c) \/ Rename(c)
    BY <1>5, <2>2, <2>3 DEF Step, Disturb, Lock
  <2> QED
    BY <1>1, <2>4, StartsKeepHolds, WriteNoteKeepsHolds, EditsKeepHolds,
       TruncateKeepsHolds, StorePartKeepsHolds, StoreKeepsHolds, RemoveKeepsHolds, RenameKeepsHolds
<1> QED
  BY <1>2, <1>4, <1>5 DEF Next, Idle

\* Text that a client was told is stored survives every interleaving of any number
\* of appends, patches, frontmatter and tag edits, replacements, moves and deletions
\* into the trash, over any set of notes.
THEOREM AckedTextSurvives == Spec => []AckedEditSurvives
<1>1. AckInv => AckedEditSurvives
  BY DEF AckInv, Quiet, Holds, AckedEditSurvives
<1>2. Inv /\ AckInv /\ [Next]_vars => AckInv'
  BY NextKeepsAckInv
<1> QED
  BY <1>1, <1>2, InitAckInv, Safety, PTL DEF Spec

------------------------------------------------------------------------------
(***************************************************************************)
(* A rename_tag that reports success has missed no note: the proof that    *)
(* RenameIsComplete, for any number of renames, removals and deletions     *)
(* that race each other over any set of notes, although the walk reads     *)
(* without the lock.                                                       *)
(***************************************************************************)

Calm == faults = 0 /\ \A d \in Call : req[d].op \in {"renameTag", "removeTag"} \cup DeleteOps

HasBlock(p) == note[p] # Absent /\ Block \in note[p]

Writing == {"sweep", "truncate", "store"}

\* Whoever writes has taken the tag out of what it writes, so that no step puts the tag
\* into a note; and where the tag still is, a rename that is under way has yet to go,
\* or is about to write.
Clears(c) ==
    /\ pc[c] \in Writing => Block \notin next[c]
    /\ req[c].op = "renameTag" /\ pc[c] \in {"walk"} \cup Writing =>
          \A p \in Path : HasBlock(p) => p \in todo[c] \/ (pc[c] \in Writing /\ p = at[c])
    /\ req[c].op = "renameTag" /\ res[c] = "ok" => \A p \in Path : ~ HasBlock(p)

WalkInv == Calm => \A c \in Call : Clears(c)

NoNewBlock == \A p \in Path : HasBlock(p)' => HasBlock(p)

LEMMA InitWalkInv == Init => WalkInv
BY DEF Init, WalkInv, Clears, Writing

\* If the step leaves the others alone, it is enough to look at the call that takes it.
LEMMA OnlyTheStep ==
    ASSUME Inv, Calm, WalkInv, NEW c \in Call, NoNewBlock, Clears(c)',
           \A d \in Call \ {c} : /\ pc'[d] = pc[d] /\ res'[d] = res[d] /\ at'[d] = at[d]
                                 /\ next'[d] = next[d] /\ todo'[d] = todo[d],
           req' = req
    PROVE  \A d \in Call : Clears(d)'
<1> SUFFICES ASSUME NEW d \in Call, d # c PROVE Clears(d)'
  OBVIOUS
<1>1. Clears(d)
  BY DEF WalkInv
<1> QED
  BY <1>1 DEF Clears, NoNewBlock

\* A step that only goes on to a place where nothing is written, or to an answer.
LEMMA GoKeepsClears ==
    ASSUME Inv, Calm, WalkInv, NEW c \in Call, NEW step \in {"queued", "remove", "done"},
           GoTo(c, step), NoNewBlock, UNCHANGED <<req, at, next>>,
           \A d \in Call \ {c} : res'[d] = res[d] /\ todo'[d] = todo[d],
           res'[c] = "ok" => res[c] = "ok" \/ req[c].op # "renameTag" \/ \A p \in Path : ~ HasBlock(p)
    PROVE  \A d \in Call : Clears(d)'
<1>1. pc' = [pc EXCEPT ![c] = step]
  BY DEF GoTo
<1>2. Clears(c)
  BY DEF WalkInv
<1>3. Clears(c)'
  BY <1>1, <1>2 DEF Clears, NoNewBlock, Writing, Inv, TypeOK
<1>4. \A d \in Call \ {c} : pc'[d] = pc[d]
  BY <1>1 DEF Inv, TypeOK
<1> QED
  BY <1>3, <1>4, OnlyTheStep

------------------------------------------------------------------------------
\* The steps, one by one

\* A walk begins with every note before it.
LEMMA StartKeepsClears ==
    ASSUME Inv, Calm, WalkInv, NEW c \in Call, Start(c)
    PROVE  \A d \in Call : Clears(d)'
<1>1. /\ pc' = [pc EXCEPT ![c] = FirstStep(req[c].op)]
      /\ todo' = [todo EXCEPT ![c] = IF req[c].op = "renameTag" THEN Path ELSE {}]
      /\ UNCHANGED <<note, req, at, next, res>>
  BY DEF Start, GoTo
<1>2. NoNewBlock
  BY <1>1 DEF NoNewBlock, HasBlock
<1>3. FirstStep(req[c].op) \in {"lookup", "walk", "queued"}
  BY StepsAreSteps
<1>4. Clears(c)'
  <2>1. Clears(c)
    BY DEF WalkInv
  <2> QED
    BY <1>1, <1>2, <1>3, <2>1 DEF Clears, NoNewBlock, Writing, Inv, TypeOK
<1> QED
  BY <1>1, <1>2, <1>4, OnlyTheStep DEF Inv, TypeOK

LEMMA AnswersKeepClears ==
    ASSUME Inv, Calm, WalkInv, NEW c \in Call,
           Refuse(c) \/ Reject(c) \/ SweepCancelled(c) \/ DeleteNote(c)
    PROVE  \A d \in Call : Clears(d)'
<1> DEFINE verdict == IfMatchVerdict(c, note[at[c]], "notFound")
<1>1. ASSUME NEW answer, answer # "ok", Return(c, answer), UNCHANGED <<note, req, at, next, todo>>
      PROVE  \A d \in Call : Clears(d)'
  <2>1. res' = [res EXCEPT ![c] = answer] /\ GoTo(c, "done")
    BY <1>1 DEF Return
  <2>2. NoNewBlock
    BY <1>1 DEF NoNewBlock, HasBlock
  <2> QED
    BY <1>1, <2>1, <2>2, GoKeepsClears DEF Inv, TypeOK
<1> HIDE DEF verdict
<1>2. CASE Refuse(c)
  BY <1>1, <1>2 DEF Refuse
<1>3. CASE Reject(c)
  BY <1>1, <1>3 DEF Reject, Answer
<1>4. CASE SweepCancelled(c)
  BY <1>1, <1>4 DEF SweepCancelled
<1>5. CASE DeleteNote(c) /\ verdict # "ok"
  <2>1. Answer(c, verdict)
    BY <1>5 DEF DeleteNote, verdict
  <2> QED
    BY <1>1, <1>5, <2>1 DEF Answer
<1>6. CASE DeleteNote(c) /\ verdict = "ok"
  <2>1. GoTo(c, "remove") /\ UNCHANGED <<note, req, at, next, todo, res>>
    BY <1>6 DEF DeleteNote, verdict
  <2>2. NoNewBlock
    BY <2>1 DEF NoNewBlock, HasBlock
  <2> QED
    BY <2>1, <2>2, GoKeepsClears
<1> QED
  BY <1>2, <1>3, <1>4, <1>5, <1>6

LEMMA RemoveTagKeepsClears ==
    ASSUME Inv, Calm, WalkInv, NEW c \in Call, RemoveTag(c)
    PROVE  \A d \in Call : Clears(d)'
<1> DEFINE verdict == EditVerdict(c, note[at[c]])
<1>1. req[c].op = "removeTag"
  BY DEF RemoveTag, AtLock
<1>2. NoNewBlock
  BY DEF RemoveTag, Answer, BeginWrite, NoNewBlock, HasBlock
<1> HIDE DEF verdict
<1>3. CASE verdict # "ok"
  <2>1. Return(c, verdict) /\ UNCHANGED <<req, at, next, todo>>
    BY <1>3 DEF RemoveTag, Answer, verdict
  <2>2. res' = [res EXCEPT ![c] = verdict] /\ GoTo(c, "done")
    BY <2>1 DEF Return
  <2> QED
    BY <1>1, <1>2, <2>1, <2>2, GoKeepsClears DEF Inv, TypeOK
<1>4. CASE verdict = "ok"
  <2>1. /\ pc' = [pc EXCEPT ![c] = "truncate"]
        /\ next' = [next EXCEPT ![c] = note[at[c]] \ {Block}]
        /\ UNCHANGED <<req, at, todo, res>>
    BY <1>4 DEF RemoveTag, BeginWrite, GoTo, verdict
  <2>2. Clears(c)'
    BY <1>1, <2>1 DEF Clears, Inv, TypeOK
  <2> QED
    BY <1>2, <2>1, <2>2, OnlyTheStep DEF Inv, TypeOK
<1> QED
  BY <1>3, <1>4

\* What is written, in full or in part, does not have the tag.
LEMMA WritesKeepClears ==
    ASSUME Inv, Calm, WalkInv, NEW c \in Call, Truncate(c) \/ StorePart(c) \/ Store(c)
    PROVE  \A d \in Call : Clears(d)'
<1>1. pc[c] \in {"truncate", "store"} /\ at[c] \in Path
  BY DEF Truncate, StorePart, Store, Inv, TypeOK
<1>2. Clears(c)
  BY DEF WalkInv
<1>3. Block \notin next[c]
  BY <1>1, <1>2 DEF Clears, Writing
<1>4. PICK new : note' = [note EXCEPT ![at[c]] = new] /\ new \subseteq next[c]
  BY DEF Truncate, StorePart, Store
<1>5. NoNewBlock /\ ~ HasBlock(at[c])'
  <2>1. note'[at[c]] = new /\ at' = at
    BY <1>1, <1>4 DEF Truncate, StorePart, Store, Inv, TypeOK
  <2>2. \A p \in Path : p # at[c] => note'[p] = note[p]
    BY <1>4 DEF Inv, TypeOK
  <2>3. Block \notin new
    BY <1>3, <1>4
  <2> QED
    BY <1>1, <2>1, <2>2, <2>3 DEF NoNewBlock, HasBlock
<1>6. CASE Truncate(c)
  <2>1. pc' = [pc EXCEPT ![c] = "store"] /\ UNCHANGED <<req, at, next, todo, res>>
    BY <1>6 DEF Truncate, GoTo
  <2>2. Clears(c)'
    BY <1>1, <1>2, <1>5, <2>1 DEF Clears, NoNewBlock, Writing, Inv, TypeOK
  <2> QED
    BY <1>5, <2>1, <2>2, OnlyTheStep DEF Inv, TypeOK
<1>7. CASE StorePart(c)
  <2>1. UNCHANGED <<pc, req, at, next, todo, res>>
    BY <1>7 DEF StorePart
  <2>2. Clears(c)'
    BY <1>2, <1>5, <2>1 DEF Clears, NoNewBlock
  <2> QED
    BY <1>5, <2>1, <2>2, OnlyTheStep
<1>8. CASE Store(c)
  <2>1. /\ pc' = [pc EXCEPT ![c] = AfterStore(c)] /\ UNCHANGED <<req, at, next, todo>>
        /\ res' = IF AfterStore(c) = "done" THEN [res EXCEPT ![c] = "ok"] ELSE res
    BY <1>8 DEF Store, GoTo
  <2>2. CASE req[c].op = "renameTag"
    <3>1. AfterStore(c) = "walk"
      BY <2>2 DEF AfterStore, SweepOps
    <3>2. Clears(c)'
      BY <1>1, <1>2, <1>5, <2>1, <2>2, <3>1 DEF Clears, NoNewBlock, Writing, Inv, TypeOK
    <3> QED
      BY <1>5, <2>1, <3>1, <3>2, OnlyTheStep DEF Inv, TypeOK
  <2>3. CASE req[c].op # "renameTag"
    <3>1. AfterStore(c) \in {"walk", "reread", "done"}
      BY AfterStoreIsAStep
    <3>2. pc'[c] \notin Writing
      BY <2>1, <3>1 DEF Writing, Inv, TypeOK
    <3>3. Clears(c)'
      BY <2>1, <2>3, <3>2 DEF Clears
    <3>4. \A d \in Call \ {c} : pc'[d] = pc[d] /\ res'[d] = res[d]
      BY <2>1 DEF Inv, TypeOK
    <3> QED
      BY <1>5, <2>1, <3>3, <3>4, OnlyTheStep
  <2> QED
    BY <2>2, <2>3
<1> QED
  BY <1>6, <1>7, <1>8

LEMMA RemoveKeepsClears ==
    ASSUME Inv, Calm, WalkInv, NEW c \in Call, Remove(c)
    PROVE  \A d \in Call : Clears(d)'
<1>1. /\ pc[c] = "remove" /\ note' = [note EXCEPT ![at[c]] = Absent]
      /\ GoTo(c, "done") /\ UNCHANGED <<req, at, next, todo>>
      /\ \E answer : res' = [res EXCEPT ![c] = answer]
  BY DEF Remove, Return
<1>2. req[c].op # "renameTag"
  BY <1>1 DEF Inv, Positions, Placed, DeleteOps
<1>3. NoNewBlock
  BY <1>1 DEF NoNewBlock, HasBlock, Inv, TypeOK
<1> QED
  BY <1>1, <1>2, <1>3, GoKeepsClears DEF Inv, TypeOK

\* The callback of a note with the tag goes on to write it without; a note without the
\* tag will not have it again.
LEMMA SweepReadKeepsClears ==
    ASSUME Inv, Calm, WalkInv, NEW c \in Call, SweepRead(c)
    PROVE  \A d \in Call : Clears(d)'
<1>1. pc[c] = "walk" /\ UNCHANGED <<note, req, res>>
  BY DEF SweepRead
<1>2. NoNewBlock
  BY <1>1 DEF NoNewBlock, HasBlock
<1>3. Clears(c)
  BY DEF WalkInv
<1>4. PICK p \in todo[c] :
        /\ todo' = [todo EXCEPT ![c] = @ \ {p}]
        /\ IF HasBlock(p)
           THEN /\ at' = [at EXCEPT ![c] = p]
                /\ next' = [next EXCEPT ![c] = (note[p] \ {Block}) \cup {c}]
                /\ GoTo(c, "sweep")
           ELSE UNCHANGED <<at, next, pc>>
  BY DEF SweepRead, HasBlock
<1>5. CASE HasBlock(p)
  <2>1. /\ pc' = [pc EXCEPT ![c] = "sweep"] /\ at' = [at EXCEPT ![c] = p]
        /\ next' = [next EXCEPT ![c] = (note[p] \ {Block}) \cup {c}]
    BY <1>4, <1>5 DEF GoTo
  <2>2. Block \notin next'[c]
    BY <2>1, ConstantsAssumption DEF Inv, TypeOK
  <2>3. Clears(c)'
    BY <1>1, <1>2, <1>3, <1>4, <2>1, <2>2 DEF Clears, NoNewBlock, Writing, Inv, TypeOK
  <2> QED
    BY <1>1, <1>2, <1>4, <2>1, <2>3, OnlyTheStep DEF Inv, TypeOK
<1>6. CASE ~ HasBlock(p)
  <2>1. UNCHANGED <<at, next, pc>>
    BY <1>4, <1>6
  <2>2. Clears(c)'
    <3>1. \A q \in Path : HasBlock(q)' => q # p
      BY <1>2, <1>6 DEF NoNewBlock
    <3> QED
      BY <1>1, <1>2, <1>3, <1>4, <2>1, <3>1 DEF Clears, NoNewBlock, Writing, Inv, TypeOK
  <2> QED
    BY <1>1, <1>2, <1>4, <2>1, <2>2, OnlyTheStep DEF Inv, TypeOK
<1> QED
  BY <1>5, <1>6

LEMMA SweepWriteKeepsClears ==
    ASSUME Inv, Calm, WalkInv, NEW c \in Call, SweepWrite(c)
    PROVE  \A d \in Call : Clears(d)'
<1>1. pc[c] = "sweep" /\ UNCHANGED <<note, req, at, next, todo>>
  BY DEF SweepWrite
<1>2. NoNewBlock
  BY <1>1 DEF NoNewBlock, HasBlock
<1>3. CASE TooLarge(next[c])
  <2>1. res' = [res EXCEPT ![c] = "tooLarge"] /\ GoTo(c, "done")
    BY <1>3 DEF SweepWrite, Return
  <2> QED
    BY <1>1, <1>2, <2>1, GoKeepsClears DEF Inv, TypeOK
<1>4. CASE ~ TooLarge(next[c])
  <2>1. pc' = [pc EXCEPT ![c] = "truncate"] /\ UNCHANGED res
    BY <1>4 DEF SweepWrite, GoTo
  <2>2. Clears(c)
    BY DEF WalkInv
  <2>3. Clears(c)'
    BY <1>1, <1>2, <2>1, <2>2 DEF Clears, NoNewBlock, Writing, Inv, TypeOK
  <2> QED
    BY <1>1, <1>2, <2>1, <2>3, OnlyTheStep DEF Inv, TypeOK
<1> QED
  BY <1>3, <1>4

\* The end of a walk: there is no note left to go to.
LEMMA SweepDoneKeepsClears ==
    ASSUME Inv, Calm, WalkInv, NEW c \in Call, SweepDone(c)
    PROVE  \A d \in Call : Clears(d)'
<1>1. /\ pc[c] = "walk" /\ todo[c] = {} /\ GoTo(c, "done")
      /\ res' = [res EXCEPT ![c] = "ok"] /\ UNCHANGED <<note, req, at, next, todo>>
  BY DEF SweepDone, Return
<1>2. NoNewBlock
  BY <1>1 DEF NoNewBlock, HasBlock
<1>3. req[c].op = "renameTag" => \A p \in Path : ~ HasBlock(p)
  <2>1. Clears(c)
    BY DEF WalkInv
  <2> QED
    BY <1>1, <2>1 DEF Clears, Writing
<1> QED
  BY <1>1, <1>2, <1>3, GoKeepsClears DEF Inv, TypeOK

------------------------------------------------------------------------------
\* Nothing failed before a step after which nothing has failed.
LEMMA CalmBefore ==
    ASSUME Inv, [Next]_vars, Calm'
    PROVE  Calm /\ UNCHANGED <<req, faults>>
<1>1. req' = req /\ (faults' = faults \/ faults' = faults + 1)
  BY FaultsOnlyGrow
<1>2. faults \in Nat
  BY ConstantsAssumption DEF Inv, TypeOK
<1>3. faults' = faults
  BY <1>1, <1>2 DEF Calm
<1> QED
  BY <1>1, <1>3 DEF Calm

\* The other handlers have no request, and the failures are failures.
LEMMA NextKeepsWalkInv ==
    ASSUME Inv, WalkInv, [Next]_vars
    PROVE  WalkInv'
<1> SUFFICES ASSUME Calm' PROVE \A d \in Call : Clears(d)'
  BY DEF WalkInv
<1>1. Calm /\ UNCHANGED <<req, faults>>
  BY CalmBefore
<1>2. faults \in Nat
  BY ConstantsAssumption DEF Inv, TypeOK
<1>3. CASE UNCHANGED vars
  BY <1>1, <1>3 DEF vars, WalkInv, Clears, HasBlock
<1>4. CASE Crash
  BY <1>1, <1>2, <1>4 DEF Crash
<1>5. ASSUME NEW c \in Call, Step(c) \/ Disturb(c)
      PROVE  \A d \in Call : Clears(d)'
  <2>1. req[c].op \in {"renameTag", "removeTag", "delete", "deletePermanent"}
    BY <1>1 DEF Calm, DeleteOps
  <2>2. ~ AppendUnread(c) /\ ~ IOFails(c) /\ ~ SweepUnread(c) /\ ~ PeriodicUnread(c)
    BY <1>1, <1>2 DEF AppendUnread, IOFails, SweepUnread, PeriodicUnread
  <2>3. ~ WriteNote(c) /\ ~ PatchNote(c) /\ ~ UpdateFrontmatter(c) /\ ~ AddTag(c)
        /\ ~ ReplaceInNote(c) /\ ~ MoveNote(c)
    BY <2>1 DEF WriteNote, PatchNote, UpdateFrontmatter, AddTag, ReplaceInNote, MoveNote,
       AtLock, WriteOps, MoveOps
  <2>4. pc[c] \notin {"rename", "lookup", "reread"}
    BY <2>1 DEF Inv, Positions, Placed, MoveOps
  <2>5. ~ Rename(c) /\ ~ PeriodicLookup(c) /\ ~ PeriodicReread(c)
    BY <2>4 DEF Rename, PeriodicLookup, PeriodicReread
  <2>6. \/ Start(c) \/ Refuse(c) \/ Reject(c) \/ SweepCancelled(c) \/ DeleteNote(c)
        \/ RemoveTag(c) \/ Truncate(c) \/ StorePart(c) \/ Store(c) \/ Remove(c)
        \/ SweepRead(c) \/ SweepWrite(c) \/ SweepDone(c)
    BY <1>5, <2>2, <2>3, <2>5 DEF Step, Disturb, Lock
  <2> QED
    BY <1>1, <2>6, StartKeepsClears, AnswersKeepClears, RemoveTagKeepsClears, WritesKeepClears,
       RemoveKeepsClears, SweepReadKeepsClears, SweepWriteKeepsClears, SweepDoneKeepsClears
<1> QED
  BY <1>3, <1>4, <1>5 DEF Next, Idle

\* A rename_tag that reports success leaves no occurrence of the tag in any note that
\* it, another rename, a removal or a deletion could have had in hands, whatever the
\* interleaving of any number of them.
THEOREM RenameIsCompleteAlways == Spec => []RenameIsComplete
<1>1. WalkInv => RenameIsComplete
  BY DEF WalkInv, Calm, Clears, HasBlock, RenameIsComplete
<1>2. Inv /\ WalkInv /\ [Next]_vars => WalkInv'
  BY NextKeepsWalkInv
<1> QED
  BY <1>1, <1>2, InitWalkInv, Safety, PTL DEF Spec

------------------------------------------------------------------------------
(***************************************************************************)
(* VaultNotes implements NoteStore: for any number of locked operations,   *)
(* over any notes, every step of the detailed specification is a step of   *)
(* the abstract one, or none.                                              *)
(***************************************************************************)

AtomicOps == (Ops \ SweepOps) \ {"periodic"}

Performed == {c \in Call : res[c] = "ok"}

\* A call works on the note it names, has not been answered before it is done, and
\* has for its note what the store may put there; once it has truncated the note, it
\* has also kept what the store requires of the note as it was.
Pending(c) ==
    /\ at[c] = req[c].path
    /\ res[c] = "ok" => pc[c] = "done"
    /\ pc[c] \in {"truncate", "store"} => next[c] \in Atomic!Result(c, base[c])
    /\ pc[c] = "store" =>
          /\ ifMatch[c] # NoEtag => base[c] = ifMatch[c]
          /\ base[c] = Absent => req[c].op \in {"overwrite", "append"} /\ ifMatch[c] = NoEtag

RefInv == \A c \in Call : Pending(c) /\ req[c].op \in AtomicOps

LEMMA InitRefInv ==
    ASSUME \A r \in Requests : r.op \in AtomicOps, Init
    PROVE  RefInv
BY DEF Init, RefInv, Pending

------------------------------------------------------------------------------
\* What the store looks like

LEMMA Visible ==
    ASSUME TypeOK
    PROVE  /\ (\A c \in Call : pc[c] # "store") => Committed = note
           /\ \A c \in Call :
                 pc[c] = "store" /\ (\A d \in Call : pc[d] = "store" => d = c)
                 => Committed = [note EXCEPT ![at[c]] = base[c]]
<1>1. note \in [Path -> {Absent} \cup Content] /\ \A c \in Call : at[c] \in Path
  BY DEF TypeOK
<1>2. (\A c \in Call : pc[c] # "store") => Committed = note
  BY <1>1 DEF Committed
<1>3. ASSUME NEW c \in Call, pc[c] = "store", \A d \in Call : pc[d] = "store" => d = c
      PROVE  Committed = [note EXCEPT ![at[c]] = base[c]]
  <2>1. ASSUME NEW q \in Path
        PROVE  Committed[q] = IF q = at[c] THEN base[c] ELSE note[q]
    <3>1. CASE q = at[c]
      <4>1. (CHOOSE d \in Call : pc[d] = "store" /\ at[d] = q) = c
        BY <1>3, <3>1
      <4> QED
        BY <1>3, <3>1, <4>1 DEF Committed
    <3>2. CASE q # at[c]
      BY <1>3, <3>2 DEF Committed
    <3> QED
      BY <3>1, <3>2
  <2>2. Committed = [q \in Path |-> Committed[q]]
    BY DEF Committed
  <2> QED
    BY <1>1, <2>1, <2>2
<1> QED
  BY <1>2, <1>3

LEMMA VisibleNext ==
    ASSUME TypeOK'
    PROVE  /\ (\A c \in Call : pc'[c] # "store") => Committed' = note'
           /\ \A c \in Call :
                 pc'[c] = "store" /\ (\A d \in Call : pc'[d] = "store" => d = c)
                 => Committed' = [note' EXCEPT ![at'[c]] = base'[c]]
<1>1. note' \in [Path -> {Absent} \cup Content] /\ \A c \in Call : at'[c] \in Path
  BY DEF TypeOK
<1>2. (\A c \in Call : pc'[c] # "store") => Committed' = note'
  BY <1>1 DEF Committed
<1>3. ASSUME NEW c \in Call, pc'[c] = "store", \A d \in Call : pc'[d] = "store" => d = c
      PROVE  Committed' = [note' EXCEPT ![at'[c]] = base'[c]]
  <2>1. ASSUME NEW q \in Path
        PROVE  (Committed')[q] = IF q = at'[c] THEN base'[c] ELSE note'[q]
    <3>1. CASE q = at'[c]
      <4>1. (CHOOSE d \in Call : pc'[d] = "store" /\ at'[d] = q) = c
        BY <1>3, <3>1
      <4> QED
        BY <1>3, <3>1, <4>1 DEF Committed
    <3>2. CASE q # at'[c]
      BY <1>3, <3>2 DEF Committed
    <3> QED
      BY <3>1, <3>2
  <2>2. Committed' = [q \in Path |-> (Committed')[q]]
    BY DEF Committed
  <2> QED
    BY <1>1, <2>1, <2>2
<1> QED
  BY <1>2, <1>3

LEMMA OneInside ==
    ASSUME Inv, NEW c \in Call, NEW d \in Call, pc[c] \in InCritical, pc[d] \in InCritical
    PROVE  c = d
BY DEF Inv, LockDiscipline

\* A step that leaves alone the files and whoever stores is not seen.
LEMMA CommittedStays ==
    ASSUME Inv, UNCHANGED note, pc' = [d \in Call |-> pc'[d]],
           \A d \in Call : /\ (pc'[d] = "store") <=> (pc[d] = "store")
                           /\ pc[d] = "store" => base'[d] = base[d] /\ at'[d] = at[d],
           Inv'
    PROVE  Committed' = Committed
<1>1. TypeOK /\ TypeOK'
  BY DEF Inv
<1>2. CASE \A c \in Call : pc[c] # "store"
  BY <1>1, <1>2, Visible, VisibleNext
<1>3. CASE \E c \in Call : pc[c] = "store"
  <2>1. PICK c \in Call : pc[c] = "store"
    BY <1>3
  <2>2. \A d \in Call : pc[d] = "store" => d = c
    BY <2>1, OneInside DEF InCritical
  <2>3. Committed = [note EXCEPT ![at[c]] = base[c]]
    BY <1>1, <2>1, <2>2, Visible
  <2>4. Committed' = [note' EXCEPT ![at'[c]] = base'[c]]
    BY <1>1, <2>1, <2>2, VisibleNext
  <2> QED
    BY <2>1, <2>3, <2>4
<1> QED
  BY <1>2, <1>3

\* Inside a critical section that has not begun to store, the store is the files.
LEMMA CommittedInside ==
    ASSUME Inv, Inv', NEW c \in Call, pc[c] \in InCritical, pc[c] # "store"
    PROVE  Committed = note
<1>1. \A d \in Call : pc[d] # "store"
  BY OneInside DEF InCritical
<1> QED
  BY <1>1, Visible DEF Inv

------------------------------------------------------------------------------
\* The invariant

\* What a call may store does not become less when a failure is counted.
LEMMA PendingStays ==
    ASSUME Inv, RefInv, NEW d \in Call, req' = req,
           faults' = faults \/ faults' = faults + 1,
           at'[d] = at[d], base'[d] = base[d], next'[d] = next[d], ifMatch'[d] = ifMatch[d],
           pc'[d] = pc[d] \/ pc'[d] \notin {"truncate", "store"},
           res'[d] = res[d] \/ res'[d] # "ok" \/ pc'[d] = "done",
           pc[d] = "done" => pc'[d] = "done"
    PROVE  Pending(d)'
<1>1. Pending(d) /\ faults \in Nat
  BY ConstantsAssumption DEF RefInv, Inv, TypeOK
<1>2. faults > 0 => faults' > 0
  BY <1>1
<1>3. Atomic!Result(d, base[d]) \subseteq Atomic!Result(d, base[d])'
  BY <1>1, <1>2 DEF Atomic!Result, Atomic!Unread
<1> QED
  BY <1>1, <1>3 DEF Pending

\* In a step of one call, the others keep what they may store.
LEMMA OthersKeepTheirs ==
    ASSUME Inv, RefInv, NEW c \in Call, req' = req,
           faults' = faults \/ faults' = faults + 1,
           \A d \in Call : d # c =>
               /\ pc'[d] = pc[d] /\ at'[d] = at[d] /\ base'[d] = base[d]
               /\ next'[d] = next[d] /\ ifMatch'[d] = ifMatch[d] /\ res'[d] = res[d],
           Pending(c)'
    PROVE  RefInv'
<1>1. ASSUME NEW d \in Call PROVE Pending(d)'
  <2>1. CASE d = c
    BY <2>1
  <2>2. CASE d # c
    BY <2>2, PendingStays
  <2> QED
    BY <2>1, <2>2
<1> QED
  BY <1>1 DEF RefInv

\* The step of a call that does not store, and does not go on to store.
LEMMA QuietStep ==
    ASSUME Inv, Inv', RefInv, NEW c \in Call, NEW step, NEW answer,
           pc[c] \notin {"store", "done"}, step \notin {"truncate", "store"},
           pc' = [pc EXCEPT ![c] = step], res' = [res EXCEPT ![c] = answer],
           answer = "ok" => step = "done",
           UNCHANGED <<note, req, at, base, next, faults>>,
           \A d \in Call : d # c => ifMatch'[d] = ifMatch[d]
    PROVE  RefInv' /\ Committed' = Committed
<1>1. Pending(c)'
  BY DEF RefInv, Pending, Inv, TypeOK
<1>2. RefInv'
  BY <1>1, OthersKeepTheirs DEF Inv, TypeOK
<1>3. Committed' = Committed
  BY CommittedStays DEF Inv, TypeOK
<1> QED
  BY <1>2, <1>3

LEMMA AnswerIsUnseen ==
    ASSUME Inv, Inv', RefInv, NEW c \in Call, NEW answer, answer # "ok",
           pc[c] = "queued", Answer(c, answer)
    PROVE  RefInv' /\ UNCHANGED Atomic!vars
<1>1. RefInv' /\ Committed' = Committed
  BY QuietStep DEF Answer, Return, GoTo
<1>2. res[c] # "ok"
  BY DEF RefInv, Pending
<1>3. {d \in Call : res[d] = "ok"}' = {d \in Call : res[d] = "ok"}
  BY <1>2 DEF Answer, Return, Inv, TypeOK
<1> QED
  BY <1>1, <1>3 DEF Atomic!vars, Answer

LEMMA BeginWriteIsUnseen ==
    ASSUME Inv, Inv', RefInv, NEW c \in Call, NEW new, pc[c] = "queued",
           new \in Atomic!Result(c, note[at[c]]), BeginWrite(c, new)
    PROVE  RefInv' /\ UNCHANGED Atomic!vars
<1>1. Pending(c)'
  BY DEF RefInv, Pending, BeginWrite, GoTo, Inv, TypeOK, Atomic!Result, Atomic!Unread
<1>2. RefInv'
  BY <1>1, OthersKeepTheirs DEF BeginWrite, GoTo, Inv, TypeOK
<1>3. Committed' = Committed
  BY CommittedStays DEF BeginWrite, GoTo, Inv, TypeOK
<1> QED
  BY <1>2, <1>3 DEF Atomic!vars, BeginWrite

\* A call that is answered "ok" and leaves the note as it is, which is what it asks for.
LEMMA NothingToDo ==
    ASSUME Inv, Inv', RefInv, NEW c \in Call, pc[c] = "queued", mu = Free,
           EditVerdict(c, note[at[c]]) = "ok", note[at[c]] \in Atomic!Result(c, note[at[c]]),
           Answer(c, "ok")
    PROVE  RefInv' /\ Atomic!Update(c)
<1>1. RefInv' /\ Committed' = Committed
  BY QuietStep DEF Answer, Return, GoTo
<1>2. Committed = note
  <2>1. \A d \in Call : pc[d] # "store"
    BY ConstantsAssumption DEF Inv, LockDiscipline, InCritical
  <2> QED
    BY <2>1, Visible DEF Inv
<1>3. res[c] # "ok" /\ at[c] = req[c].path
  BY DEF RefInv, Pending
<1>4. {d \in Call : res[d] = "ok"}' = {d \in Call : res[d] = "ok"} \cup {c}
  BY DEF Answer, Return, Inv, TypeOK
<1>5. Atomic!MayUpdate(c, req[c].path)
  BY <1>2, <1>3, EditVerdictOk DEF Atomic!MayUpdate, Atomic!May
<1>6. Committed' = [Committed EXCEPT ![req[c].path] = note[at[c]]]
  BY <1>1, <1>2, <1>3 DEF Inv, TypeOK
<1> QED
  BY <1>1, <1>2, <1>3, <1>4, <1>5, <1>6 DEF Atomic!Update, Answer

LEMMA WriteNoteRefines ==
    ASSUME Inv, Inv', RefInv, NEW c \in Call, WriteNote(c)
    PROVE  RefInv' /\ UNCHANGED Atomic!vars
<1> DEFINE file    == note[at[c]]
           new     == Written(c, IF file = Absent THEN {} ELSE file)
           verdict == IfMatchVerdict(c, file, "conflict")
<1>1. pc[c] = "queued" /\ req[c].op \in {"overwrite", "append"}
  BY DEF WriteNote, AtLock, WriteOps, RefInv, AtomicOps
<1>2. new \in Atomic!Result(c, file)
  BY <1>1 DEF Written, Atomic!Result
<1>3. CASE verdict # "ok"
  BY <1>1, <1>3, AnswerIsUnseen DEF WriteNote
<1>4. CASE verdict = "ok" /\ TooLarge(new)
  <2>1. Answer(c, "tooLarge")
    BY <1>4 DEF WriteNote
  <2> QED
    BY <1>1, <2>1, AnswerIsUnseen
<1>5. CASE verdict = "ok" /\ ~ TooLarge(new)
  <2>1. BeginWrite(c, new)
    BY <1>5 DEF WriteNote
  <2> HIDE DEF new
  <2> QED
    BY <1>1, <1>2, <2>1, BeginWriteIsUnseen
<1> QED
  BY <1>3, <1>4, <1>5

LEMMA EditRefines ==
    ASSUME Inv, Inv', RefInv, NEW c \in Call, NEW new,
           pc[c] = "queued", mu = Free, new \in Atomic!Result(c, note[at[c]]),
           \/ \E answer \in Answers \ {"ok"} : Answer(c, answer)
           \/ Answer(c, "ok") /\ EditVerdict(c, note[at[c]]) = "ok" /\ new = note[at[c]]
           \/ BeginWrite(c, new)
    PROVE  RefInv' /\ (UNCHANGED Atomic!vars \/ Atomic!Update(c))
BY AnswerIsUnseen, NothingToDo, BeginWriteIsUnseen

LEMMA EditsRefine ==
    ASSUME Inv, Inv', RefInv, NEW c \in Call,
           \/ PatchNote(c) \/ UpdateFrontmatter(c) \/ AddTag(c)
           \/ RemoveTag(c) \/ ReplaceInNote(c)
    PROVE  RefInv' /\ (UNCHANGED Atomic!vars \/ Atomic!Update(c))
<1> DEFINE file    == note[at[c]]
           verdict == EditVerdict(c, file)
<1>1. verdict \in Answers
  BY VerdictIsAnAnswer DEF Answers
<1>2. \A a \in {"tooLarge", "headingNotFound"} : a \in Answers \ {"ok"}
  BY DEF Answers
<1>3. pc[c] = "queued" /\ mu = Free
  BY DEF PatchNote, UpdateFrontmatter, AddTag, RemoveTag, ReplaceInNote, AtLock
<1> HIDE DEF verdict
<1>4. CASE PatchNote(c)
  <2> DEFINE new == IF req[c].op = "patch" THEN file \cup {c} ELSE {Block, c}
  <2>1. new \in Atomic!Result(c, file)
    BY <1>4 DEF PatchNote, AtLock, Atomic!Result
  <2>2. \/ \E answer \in Answers \ {"ok"} : Answer(c, answer)
        \/ BeginWrite(c, new)
    BY <1>1, <1>2, <1>4 DEF PatchNote, verdict
  <2> HIDE DEF new
  <2> QED
    BY <1>3, <2>1, <2>2, EditRefines
<1>5. CASE UpdateFrontmatter(c)
  <2>1. ASSUME NEW new \in Edited(c, file)
        PROVE  new \in Atomic!Result(c, file)
    BY <1>5 DEF UpdateFrontmatter, AtLock, Atomic!Result, Atomic!Edited, Edited
  <2>2. file \cup {c} \in Edited(c, file)
    BY DEF Edited
  <2>3. PICK new \in Edited(c, file) :
           \/ \E answer \in Answers \ {"ok"} : Answer(c, answer)
           \/ BeginWrite(c, new)
    BY <1>1, <1>2, <1>5, <2>2 DEF UpdateFrontmatter, verdict
  <2> QED
    BY <1>3, <2>1, <2>3, EditRefines
<1>6. CASE AddTag(c)
  <2> DEFINE new == file \cup {IF req[c].op = "addTag" THEN Block ELSE c}
  <2>1. new \in Atomic!Result(c, file)
    BY <1>6 DEF AddTag, AtLock, Atomic!Result
  <2>2. \/ \E answer \in Answers \ {"ok"} : Answer(c, answer)
        \/ Answer(c, "ok") /\ verdict = "ok" /\ new = file
        \/ BeginWrite(c, new)
    BY <1>1, <1>2, <1>6 DEF AddTag, verdict
  <2> HIDE DEF new
  <2> QED
    BY <1>3, <2>1, <2>2, EditRefines DEF verdict
<1>7. CASE RemoveTag(c)
  <2> DEFINE new == file \ {Block}
  <2>1. new \in Atomic!Result(c, file)
    BY <1>7 DEF RemoveTag, AtLock, Atomic!Result
  <2>2. \/ \E answer \in Answers \ {"ok"} : Answer(c, answer)
        \/ BeginWrite(c, new)
    BY <1>1, <1>2, <1>7 DEF RemoveTag, verdict
  <2> HIDE DEF new
  <2> QED
    BY <1>3, <2>1, <2>2, EditRefines
<1>8. CASE ReplaceInNote(c)
  <2>1. ASSUME NEW new \in IF Block \in file THEN Edited(c, file) ELSE {file}
        PROVE  new \in Atomic!Result(c, file)
    BY <1>8, <2>1 DEF ReplaceInNote, AtLock, Atomic!Result, Atomic!Edited, Edited
  <2>2. file \cup {c} \in Edited(c, file)
    BY DEF Edited
  <2>3. PICK new \in IF Block \in file THEN Edited(c, file) ELSE {file} :
           \/ \E answer \in Answers \ {"ok"} : Answer(c, answer)
           \/ Answer(c, "ok") /\ verdict = "ok" /\ new = file
           \/ BeginWrite(c, new)
    BY <1>1, <1>2, <1>8, <2>2 DEF ReplaceInNote, verdict
  <2> QED
    BY <1>3, <2>1, <2>3, EditRefines DEF verdict
<1> QED
  BY <1>4, <1>5, <1>6, <1>7, <1>8

\* The client settles what it insists on, or the server turns the call away.
LEMMA StartRefines ==
    ASSUME Inv, Inv', RefInv, NEW c \in Call, Start(c) \/ Refuse(c) \/ Reject(c)
    PROVE  RefInv' /\ (UNCHANGED Atomic!vars \/ Atomic!Ask(c))
<1>1. res[c] # "ok" \/ pc[c] = "done"
  BY DEF RefInv, Pending
<1>2. CASE Start(c)
  <2>1. pc' = [pc EXCEPT ![c] = "queued"] /\ res' = [res EXCEPT ![c] = res[c]]
    BY <1>2 DEF Start, GoTo, FirstStep, RefInv, AtomicOps, SweepOps, Inv, TypeOK
  <2>2. RefInv' /\ Committed' = Committed
    BY <1>1, <1>2, <2>1, QuietStep DEF Start, Inv, TypeOK
  <2>3. PICK e \in {NoEtag} \cup Atomic!Contents : ifMatch' = [ifMatch EXCEPT ![c] = e]
    <3>1. note[req[c].path] \in {Absent} \cup Content
      BY RequestFields DEF Inv, TypeOK
    <3>2. EtagOf(note[req[c].path]) \in Content
      BY <3>1, EtagOfIsContent
    <3> QED
      BY <1>2, <3>2 DEF Start, Content, Atomic!Contents
  <2> QED
    BY <1>1, <1>2, <2>2, <2>3 DEF Start, Atomic!Ask
<1>3. CASE Refuse(c)
  <2>1. pc' = [pc EXCEPT ![c] = "done"] /\ res' = [res EXCEPT ![c] = "refused"]
    BY <1>3 DEF Refuse, Return, GoTo
  <2>2. RefInv' /\ Committed' = Committed
    BY <1>3, <2>1, QuietStep DEF Refuse
  <2>3. {d \in Call : res[d] = "ok"}' = {d \in Call : res[d] = "ok"}
    BY <1>1, <1>3, <2>1 DEF Refuse, Inv, TypeOK
  <2> QED
    BY <1>3, <2>2, <2>3 DEF Refuse, Atomic!vars
<1>4. CASE Reject(c)
  <2>1. pc[c] = "queued"
    BY <1>4 DEF Reject, Inv, Positions, Placed, RefInv, AtomicOps
  <2> QED
    BY <1>4, <2>1, AnswerIsUnseen DEF Reject
<1> QED
  BY <1>2, <1>3, <1>4

\* An append that cannot read its note: an error that has damaged nothing yet.
LEMMA AppendUnreadRefines ==
    ASSUME Inv, Inv', RefInv, NEW c \in Call, AppendUnread(c)
    PROVE  RefInv' /\ Atomic!Damage
<1>1. faults \in Nat /\ faults + 1 > 0
  BY ConstantsAssumption DEF Inv, TypeOK
<1>2. Pending(c)'
  BY <1>1 DEF AppendUnread, AtLock, GoTo, RefInv, Pending, Inv, TypeOK, Atomic!Result, Atomic!Unread
<1>3. RefInv'
  BY <1>2, OthersKeepTheirs DEF AppendUnread, GoTo, Inv, TypeOK
<1>4. Committed' = Committed
  BY CommittedStays DEF AppendUnread, AtLock, GoTo, Inv, TypeOK
<1> QED
  BY <1>3, <1>4 DEF AppendUnread, Atomic!Damage

------------------------------------------------------------------------------
\* The write itself

LEMMA TruncateRefines ==
    ASSUME Inv, Inv', RefInv, NEW c \in Call, Truncate(c)
    PROVE  RefInv' /\ UNCHANGED Atomic!vars
<1>1. pc[c] = "truncate" /\ req[c].op \in AtomicOps
  BY DEF Truncate, RefInv
<1>2. note[at[c]] = base[c] /\ (ifMatch[c] # NoEtag => base[c] = ifMatch[c])
  BY <1>1 DEF Inv, EditsAreCurrent, IfMatchHolds, AtomicOps
<1>3. base[c] = Absent => req[c].op \in {"overwrite", "append"} /\ ifMatch[c] = NoEtag
  BY <1>1, <1>2, ConstantsAssumption
     DEF Inv, TypeOK, Positions, Placed, AtomicOps, WriteOps
<1>4. Pending(c)'
  BY <1>1, <1>2, <1>3 DEF Truncate, GoTo, RefInv, Pending, Inv, TypeOK, Atomic!Result, Atomic!Unread
<1>5. RefInv'
  BY <1>4, OthersKeepTheirs DEF Truncate, GoTo, Inv, TypeOK
<1>6. pc'[c] = "store" /\ \A d \in Call : pc'[d] = "store" => d = c
  BY <1>1, OneInside DEF Truncate, GoTo, Inv, TypeOK, InCritical
<1>7. Committed = note
  BY <1>1, CommittedInside DEF InCritical
<1>8. Committed' = [note' EXCEPT ![at'[c]] = base'[c]]
  BY <1>6, VisibleNext DEF Inv
<1>9. Committed' = Committed
  BY <1>2, <1>7, <1>8 DEF Truncate, Inv, TypeOK
<1> QED
  BY <1>5, <1>9 DEF Truncate, Atomic!vars

\* The one call that stores, and what the store looks like meanwhile.
LEMMA WhileStoring ==
    ASSUME Inv, RefInv, NEW c \in Call, pc[c] = "store"
    PROVE  /\ Committed = [note EXCEPT ![at[c]] = base[c]]
           /\ Committed[req[c].path] = base[c]
           /\ at[c] = req[c].path /\ at[c] \in Path
           /\ Atomic!MayUpdate(c, req[c].path)
           /\ next[c] \in Atomic!Result(c, Committed[req[c].path])
           /\ \A d \in Call : pc[d] = "store" => d = c
<1>1. \A d \in Call : pc[d] = "store" => d = c
  BY OneInside DEF InCritical
<1>2. Committed = [note EXCEPT ![at[c]] = base[c]]
  BY <1>1, Visible DEF Inv
<1>3. at[c] = req[c].path /\ at[c] \in Path /\ res[c] # "ok"
  BY DEF RefInv, Pending, Inv, TypeOK
<1>4. Committed[req[c].path] = base[c]
  BY <1>2, <1>3 DEF Inv, TypeOK
<1>5. Atomic!MayUpdate(c, req[c].path)
  BY <1>3, <1>4 DEF RefInv, Pending, Atomic!MayUpdate, Atomic!May
<1>6. next[c] \in Atomic!Result(c, Committed[req[c].path])
  BY <1>4 DEF RefInv, Pending
<1> QED
  BY <1>1, <1>2, <1>3, <1>4, <1>5, <1>6

LEMMA StorePartRefines ==
    ASSUME Inv, Inv', RefInv, NEW c \in Call, StorePart(c)
    PROVE  RefInv' /\ UNCHANGED Atomic!vars
<1>1. pc[c] = "store" /\ UNCHANGED <<trash, pc, req, ifMatch, at, base, next, res, faults>>
  BY DEF StorePart
<1>2. RefInv'
  BY <1>1 DEF RefInv, Pending, Atomic!Result, Atomic!Unread
<1>3. Committed = [note EXCEPT ![at[c]] = base[c]] /\ \A d \in Call : pc[d] = "store" => d = c
  BY <1>1, WhileStoring
<1>4. Committed' = [note' EXCEPT ![at'[c]] = base'[c]]
  BY <1>1, <1>3, VisibleNext DEF Inv
<1>5. Committed' = Committed
  BY <1>1, <1>3, <1>4 DEF StorePart, Inv, TypeOK
<1> QED
  BY <1>1, <1>2, <1>5 DEF Atomic!vars

\* The write takes effect when its last byte is stored.
LEMMA StoreRefines ==
    ASSUME Inv, Inv', RefInv, NEW c \in Call, Store(c)
    PROVE  RefInv' /\ Atomic!Update(c)
<1>1. pc[c] = "store" /\ AfterStore(c) = "done"
  BY DEF Store, AfterStore, RefInv, AtomicOps
<1>2. pc' = [pc EXCEPT ![c] = "done"] /\ res' = [res EXCEPT ![c] = "ok"]
  BY <1>1 DEF Store, GoTo
<1>3. Pending(c)'
  BY <1>2 DEF Store, RefInv, Pending, Inv, TypeOK
<1>4. RefInv'
  BY <1>2, <1>3, OthersKeepTheirs DEF Store, Inv, TypeOK
<1>5. /\ Committed = [note EXCEPT ![at[c]] = base[c]]
      /\ at[c] = req[c].path /\ at[c] \in Path
      /\ Atomic!MayUpdate(c, req[c].path)
      /\ next[c] \in Atomic!Result(c, Committed[req[c].path])
      /\ \A d \in Call : pc[d] = "store" => d = c
  BY <1>1, WhileStoring
<1>6. Committed' = note'
  <2>1. \A d \in Call : pc'[d] # "store"
    BY <1>2, <1>5 DEF Inv, TypeOK
  <2> QED
    BY <2>1, VisibleNext DEF Inv
<1>7. Committed' = [Committed EXCEPT ![req[c].path] = next[c]]
  BY <1>5, <1>6 DEF Store, Inv, TypeOK
<1>8. {d \in Call : res[d] = "ok"}' = {d \in Call : res[d] = "ok"} \cup {c}
  BY <1>2 DEF Inv, TypeOK
<1> QED
  BY <1>4, <1>5, <1>7, <1>8 DEF Store, Atomic!Update

------------------------------------------------------------------------------
\* Deletions and moves

LEMMA HoldIsUnseen ==
    ASSUME Inv, Inv', RefInv, NEW c \in Call, NEW step \in {"remove", "rename"},
           pc[c] = "queued", pc' = [pc EXCEPT ![c] = step],
           UNCHANGED <<note, trash, req, ifMatch, at, base, next, res, faults>>
    PROVE  RefInv' /\ UNCHANGED Atomic!vars
<1>1. res' = [res EXCEPT ![c] = res[c]] /\ res[c] # "ok"
  BY DEF RefInv, Pending, Inv, TypeOK
<1>2. RefInv' /\ Committed' = Committed
  BY <1>1, QuietStep
<1> QED
  BY <1>2 DEF Atomic!vars

LEMMA ChecksRefine ==
    ASSUME Inv, Inv', RefInv, NEW c \in Call, DeleteNote(c) \/ MoveNote(c)
    PROVE  RefInv' /\ UNCHANGED Atomic!vars
<1>1. pc[c] = "queued"
  BY DEF DeleteNote, MoveNote, AtLock
<1>2. \/ \E answer \in {"exists", IfMatchVerdict(c, note[at[c]], "notFound")} :
            answer # "ok" /\ Answer(c, answer)
      \/ \E step \in {"remove", "rename"} :
            /\ pc' = [pc EXCEPT ![c] = step]
            /\ UNCHANGED <<note, trash, req, ifMatch, at, base, next, res, faults>>
  BY DEF DeleteNote, MoveNote, GoTo
<1> QED
  BY <1>1, <1>2, AnswerIsUnseen, HoldIsUnseen

\* A call that is about to remove or to rename holds the lock, and may.
LEMMA BeforeRemoval ==
    ASSUME Inv, RefInv, NEW c \in Call, pc[c] \in {"remove", "rename"}
    PROVE  /\ Committed = note
           /\ at[c] = req[c].path /\ at[c] \in Path
           /\ Atomic!May(c, req[c].path)
           /\ \A d \in Call : pc[d] # "store"
<1>1. \A d \in Call : pc[d] # "store"
  BY OneInside DEF InCritical
<1>2. Committed = note
  BY <1>1, Visible DEF Inv
<1> QED
  BY <1>1, <1>2 DEF RefInv, Pending, Atomic!May, Inv, TypeOK, IfMatchHolds

\* After a step that returns, no call stores.
LEMMA RemovalSettles ==
    ASSUME Inv, Inv', RefInv, NEW c \in Call, pc[c] \in {"remove", "rename"},
           pc' = [pc EXCEPT ![c] = "done"], \A d \in Call : d # c => res'[d] = res[d],
           UNCHANGED <<req, ifMatch, at, base, next, faults>>
    PROVE  /\ RefInv' /\ Committed' = note'
           /\ \A d \in Call : res'[d] = "ok" <=> res[d] = "ok" \/ (d = c /\ res'[d] = "ok")
<1>1. Pending(c)' /\ res[c] # "ok"
  BY DEF RefInv, Pending, Inv, TypeOK
<1>2. RefInv'
  BY <1>1, OthersKeepTheirs DEF Inv, TypeOK
<1>3. \A d \in Call : pc'[d] # "store"
  BY BeforeRemoval DEF Inv, TypeOK
<1>4. Committed' = note'
  BY <1>3, VisibleNext DEF Inv
<1>5. \A d \in Call : res'[d] = "ok" <=> res[d] = "ok" \/ (d = c /\ res'[d] = "ok")
  BY <1>1 DEF Inv, TypeOK
<1> QED
  BY <1>2, <1>4, <1>5

LEMMA RemoveRefines ==
    ASSUME Inv, Inv', RefInv, NEW c \in Call, Remove(c)
    PROVE  RefInv' /\ (UNCHANGED Atomic!vars \/ Atomic!Delete(c))
<1>0. PICK answer \in Answers : answer = IF note[at[c]] = Absent THEN "notFound" ELSE "ok"
  BY DEF Answers
<1>1. /\ pc[c] = "remove" /\ pc' = [pc EXCEPT ![c] = "done"] /\ res' = [res EXCEPT ![c] = answer]
      /\ UNCHANGED <<req, ifMatch, at, base, next, faults>>
  BY <1>0 DEF Remove, Return, GoTo
<1>2. /\ RefInv' /\ Committed' = note'
      /\ \A d \in Call : res'[d] = "ok" <=> res[d] = "ok" \/ (d = c /\ answer = "ok")
  BY <1>1, RemovalSettles DEF Inv, TypeOK
<1>3. /\ Committed = note /\ at[c] = req[c].path /\ at[c] \in Path /\ Atomic!May(c, req[c].path)
  BY <1>1, BeforeRemoval
<1>4. req[c].op \in {"delete", "deletePermanent"}
  BY <1>1 DEF Inv, Positions, Placed, DeleteOps
<1>5. CASE note[at[c]] = Absent
  <2>1. note' = note /\ trash' = trash
    BY <1>5 DEF Remove, Inv, TypeOK
  <2>2. {d \in Call : res[d] = "ok"}' = {d \in Call : res[d] = "ok"}
    BY <1>0, <1>2, <1>5
  <2> QED
    BY <1>1, <1>2, <1>3, <2>1, <2>2 DEF Atomic!vars
<1>6. CASE note[at[c]] # Absent
  <2>1. {d \in Call : res[d] = "ok"}' = {d \in Call : res[d] = "ok"} \cup {c}
    BY <1>0, <1>2, <1>6
  <2>2. trash' = IF req[c].op = "delete"
                 THEN trash \cup {[path |-> at[c], content |-> note[at[c]]]} ELSE trash
    BY <1>4, <1>6 DEF Remove
  <2>3. note' = [note EXCEPT ![at[c]] = Absent]
    BY DEF Remove
  <2> QED
    BY <1>1, <1>2, <1>3, <1>4, <1>6, <2>1, <2>2, <2>3 DEF Atomic!Delete
<1> QED
  BY <1>5, <1>6

LEMMA RenameRefines ==
    ASSUME Inv, Inv', RefInv, NEW c \in Call, Rename(c)
    PROVE  RefInv' /\ (UNCHANGED Atomic!vars \/ Atomic!Move(c))
<1>0. PICK answer \in Answers : answer = IF note[at[c]] = Absent THEN "notFound" ELSE "ok"
  BY DEF Answers
<1>1. pc[c] = "rename" /\ req[c].op = "move"
  BY DEF Rename, RefInv, AtomicOps, Inv, Positions, Placed, MoveOps, SweepOps
<1>2. /\ pc' = [pc EXCEPT ![c] = "done"] /\ res' = [res EXCEPT ![c] = answer]
      /\ UNCHANGED <<trash, req, ifMatch, at, base, next, faults>>
  BY <1>0, <1>1 DEF Rename, Return, GoTo
<1>3. /\ RefInv' /\ Committed' = note'
      /\ \A d \in Call : res'[d] = "ok" <=> res[d] = "ok" \/ (d = c /\ answer = "ok")
  BY <1>1, <1>2, RemovalSettles DEF Inv, TypeOK
<1>4. /\ Committed = note /\ at[c] = req[c].path /\ at[c] \in Path /\ Atomic!May(c, req[c].path)
  BY <1>1, BeforeRemoval
<1>5. CASE note[at[c]] = Absent
  <2>1. note' = note
    BY <1>5 DEF Rename
  <2>2. {d \in Call : res[d] = "ok"}' = {d \in Call : res[d] = "ok"}
    BY <1>0, <1>3, <1>5
  <2> QED
    BY <1>2, <1>3, <1>4, <2>1, <2>2 DEF Atomic!vars
<1>6. CASE note[at[c]] # Absent
  <2>1. {d \in Call : res[d] = "ok"}' = {d \in Call : res[d] = "ok"} \cup {c}
    BY <1>0, <1>3, <1>6
  <2>2. note[req[c].dst] = Absent
    BY <1>1 DEF Inv, MoveNeverClobbers
  <2>3. note' = [note EXCEPT ![at[c]] = Absent, ![req[c].dst] = note[at[c]]]
    BY <1>6 DEF Rename
  <2> QED
    BY <1>1, <1>2, <1>3, <1>4, <1>6, <2>1, <2>2, <2>3 DEF Atomic!Move
<1> QED
  BY <1>5, <1>6

------------------------------------------------------------------------------
\* Faults

\* What is left of a write that stops in the middle.
LEMMA PartIsDamage ==
    ASSUME Inv, RefInv, NEW c \in Call, pc[c] = "store", Committed' = note, faults < MaxFaults,
           faults' = faults + 1, UNCHANGED <<trash, req, ifMatch>>,
           {d \in Call : res[d] = "ok"}' = {d \in Call : res[d] = "ok"}
    PROVE  Atomic!Damage
<1>1. /\ Committed = [note EXCEPT ![at[c]] = base[c]]
      /\ at[c] = req[c].path /\ at[c] \in Path
      /\ Atomic!MayUpdate(c, req[c].path)
      /\ next[c] \in Atomic!Result(c, Committed[req[c].path])
  BY WhileStoring
<1>2. note[at[c]] \in SUBSET next[c]
  BY DEF Inv, Positions, Placed
<1>3. Committed' = [Committed EXCEPT ![req[c].path] = note[at[c]]]
  BY <1>1 DEF Inv, TypeOK
<1>4. \E d \in Call : /\ Atomic!MayUpdate(d, req[d].path)
                      /\ \E new \in Atomic!Result(d, Committed[req[d].path]) : \E part \in SUBSET new :
                            Committed' = [Committed EXCEPT ![req[d].path] = part]
  BY <1>1, <1>2, <1>3
<1> QED
  BY <1>4 DEF Atomic!Damage

LEMMA IOFailsRefines ==
    ASSUME Inv, Inv', RefInv, NEW c \in Call, IOFails(c)
    PROVE  RefInv' /\ Atomic!Damage
<1>1. /\ pc' = [pc EXCEPT ![c] = "done"] /\ res' = [res EXCEPT ![c] = "ioError"]
      /\ pc[c] \in InCritical /\ faults < MaxFaults /\ faults' = faults + 1
      /\ UNCHANGED <<note, trash, req, ifMatch, at, base, next>>
  BY DEF IOFails, Return, GoTo
<1>2. Pending(c)' /\ res[c] # "ok"
  BY <1>1 DEF RefInv, Pending, Inv, TypeOK, InCritical
<1>3. RefInv'
  BY <1>1, <1>2, OthersKeepTheirs DEF Inv, TypeOK
<1>4. {d \in Call : res[d] = "ok"}' = {d \in Call : res[d] = "ok"}
  BY <1>1, <1>2 DEF Inv, TypeOK
<1>5. Committed' = note
  <2>1. \A d \in Call : pc'[d] # "store"
    BY <1>1, OneInside DEF Inv, TypeOK, InCritical
  <2> QED
    BY <1>1, <2>1, VisibleNext DEF Inv
<1>6. CASE pc[c] = "store"
  BY <1>1, <1>3, <1>4, <1>5, <1>6, PartIsDamage
<1>7. CASE pc[c] # "store"
  <2>1. Committed = note
    BY <1>1, <1>7, CommittedInside
  <2> QED
    BY <1>1, <1>3, <1>4, <1>5, <2>1 DEF Atomic!Damage
<1> QED
  BY <1>6, <1>7

LEMMA CrashRefines ==
    ASSUME Inv, Inv', RefInv, Crash
    PROVE  RefInv' /\ Atomic!Damage
<1>1. /\ pc' = [c \in Call |-> IF pc[c] = "idle" THEN "idle" ELSE "done"]
      /\ res' = [c \in Call |-> IF pc[c] \in {"idle", "done"} THEN res[c] ELSE "lost"]
      /\ faults < MaxFaults /\ faults' = faults + 1
      /\ UNCHANGED <<note, trash, req, ifMatch, at, base, next>>
  BY DEF Crash
<1>2. \A c \in Call : res[c] = "ok" => pc[c] = "done"
  BY DEF RefInv, Pending
<1>3. RefInv'
  <2>1. ASSUME NEW c \in Call PROVE Pending(c)'
    BY <1>1, <1>2 DEF RefInv, Pending
  <2> QED
    BY <1>1, <2>1 DEF RefInv
<1>4. {d \in Call : res[d] = "ok"}' = {d \in Call : res[d] = "ok"}
  BY <1>1, <1>2
<1>5. Committed' = note
  <2>1. \A d \in Call : pc'[d] # "store"
    BY <1>1
  <2> QED
    BY <1>1, <2>1, VisibleNext DEF Inv
<1>6. CASE \E c \in Call : pc[c] = "store"
  BY <1>1, <1>3, <1>4, <1>5, <1>6, PartIsDamage
<1>7. CASE \A c \in Call : pc[c] # "store"
  <2>1. Committed = note
    BY <1>7, Visible DEF Inv
  <2> QED
    BY <1>1, <1>3, <1>4, <1>5, <2>1 DEF Atomic!Damage
<1> QED
  BY <1>6, <1>7

------------------------------------------------------------------------------
\* Every step of the detailed specification is one of the abstract specification, or none.
LEMMA NextRefines ==
    ASSUME Inv, Inv', RefInv, [Next]_vars
    PROVE  RefInv' /\ [Atomic!Next]_(Atomic!vars)
<1>1. \A c \in Call : /\ req[c].op \notin SweepOps \cup {"periodic"}
                        /\ pc[c] \notin {"walk", "sweep", "lookup", "reread"}
  BY DEF RefInv, AtomicOps, Inv, Positions, Placed
<1>2. CASE UNCHANGED vars
  BY <1>2 DEF vars, Atomic!vars, Committed, RefInv, Pending, Atomic!Result, Atomic!Unread
<1>3. ASSUME NEW c \in Call, Step(c)
      PROVE  RefInv' /\ [Atomic!Next]_(Atomic!vars)
  <2>1. ~ (SweepWrite(c) \/ SweepRead(c) \/ SweepDone(c) \/ PeriodicLookup(c) \/ PeriodicReread(c))
    BY <1>1 DEF SweepWrite, SweepRead, SweepDone, PeriodicLookup, PeriodicReread
  <2> QED
    BY <1>3, <2>1, StartRefines, WriteNoteRefines, EditsRefine, ChecksRefine, TruncateRefines,
       StoreRefines, RemoveRefines, RenameRefines DEF Step, Lock, Atomic!Next
<1>4. ASSUME NEW c \in Call, Disturb(c)
      PROVE  RefInv' /\ [Atomic!Next]_(Atomic!vars)
  <2>1. ~ (SweepCancelled(c) \/ SweepUnread(c) \/ PeriodicUnread(c))
    BY <1>1 DEF SweepCancelled, SweepUnread, PeriodicUnread
  <2> QED
    BY <1>4, <2>1, StartRefines, AppendUnreadRefines, StorePartRefines, IOFailsRefines
       DEF Disturb, Atomic!Next
<1>5. CASE Crash
  BY <1>5, CrashRefines DEF Atomic!Next
<1>6. CASE Idle
  BY <1>2, <1>6 DEF Idle
<1> QED
  BY <1>2, <1>3, <1>4, <1>5, <1>6 DEF Next

LEMMA InitRefines ==
    ASSUME Init
    PROVE  Atomic!Init
<1>1. Committed = note
  BY DEF Init, Committed
<1>2. {c \in Call : res[c] = "ok"} = {}
  BY DEF Init
<1> QED
  BY <1>1, <1>2 DEF Init, Atomic!Init

\* Any number of calls of the locked operations, over any notes, look to each other as
\* if each had happened at once, and a fault damages at most the note being written.
THEOREM LockedCallsAreAtomic ==
    ASSUME \A r \in Requests : r.op \in AtomicOps
    PROVE  Spec => AtomicNotes
<1>1. Init => RefInv
  BY InitRefInv
<1>2. Init => Atomic!Init
  BY InitRefines
<1>3. Inv /\ Inv' /\ RefInv /\ [Next]_vars => RefInv' /\ [Atomic!Next]_(Atomic!vars)
  BY NextRefines
<1> QED
  BY <1>1, <1>2, <1>3, Safety, PTL DEF Spec, AtomicNotes, Atomic!Spec
================================================================================
