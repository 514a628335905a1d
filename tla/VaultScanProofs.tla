---------------------------- MODULE VaultScanProofs ----------------------------
(***************************************************************************)
(* The calls that read the vault while others change it, for any tree of   *)
(* folders, any texts, limits and caps, and any number of changes: that a  *)
(* walk without a lock loses nothing that stays (Core), what an answer     *)
(* then says of the notes nobody touched, and that the pages of a folder   *)
(* are complete but for what changed (Pages, on top of Core).              *)
(***************************************************************************)
EXTENDS VaultScan, FiniteSetTheorems, NaturalsInduction, TLAPS

------------------------------------------------------------------------------
\* Nodes and sets of them

Size == Cardinality(Node)

LEMMA Nodes ==
    /\ Size \in Nat /\ IsFiniteSet(Node) /\ IsFiniteSet(Note)
    /\ \A n \in Node : n \in Nat /\ 1 <= n /\ n <= Size
    /\ Note \subseteq Node /\ Dir \subseteq Node /\ Node = Note \cup Dir /\ Note \cap Dir = {}
<1>1. IsFiniteSet(Node) /\ Node = 1..Cardinality(Node) /\ Note \cap Dir = {}
  BY ScanConstants
<1>2. Size \in Nat
  BY <1>1, FS_CardinalityType DEF Size
<1>3. Note \subseteq Node /\ Dir \subseteq Node /\ Node = Note \cup Dir
  BY DEF Node
<1>4. IsFiniteSet(Note)
  BY <1>1, <1>3, FS_Subset
<1>5. \A n \in Node : n \in Nat /\ 1 <= n /\ n <= Size
  <2>1. Node = 1..Size
    BY <1>1 DEF Size
  <2> QED
    BY <2>1, <1>2
<1> QED
  BY <1>1, <1>2, <1>3, <1>4, <1>5

LEMMA LeastNode ==
    ASSUME NEW T, T \subseteq Node, T # {}
    PROVE  \E x \in T : \A y \in T : x <= y
<1>1. T \subseteq Nat
  BY Nodes
<1>2. PICK x \in T : \A y \in T : ~ (<<y, x>> \in OpToRel(<, Nat))
  BY <1>1, WFMin, NatLessThanWellFounded
<1>3. ASSUME NEW y \in T PROVE x <= y
  <2>1. x \in Nat /\ y \in Nat
    BY <1>1
  <2>2. ~ (y < x)
    BY <1>2, <2>1 DEF OpToRel
  <2> QED
    BY <2>1, <2>2
<1> QED
  BY <1>3

LEMMA GreatestNode ==
    ASSUME NEW T, T \subseteq Node, T # {}
    PROVE  \E x \in T : \A y \in T : y <= x
<1> DEFINE U == {z \in Nat : \E x \in T : z = Size - x}
<1>1. U \subseteq Nat /\ U # {}
  BY Nodes
<1>2. PICK z \in U : \A y \in U : ~ (<<y, z>> \in OpToRel(<, Nat))
  <2> HIDE DEF U
  <2> QED
    BY <1>1, WFMin, NatLessThanWellFounded
<1>3. PICK x \in T : z = Size - x
  BY <1>2
<1>4. ASSUME NEW y \in T PROVE y <= x
  <2>1. x \in Nat /\ y \in Nat /\ Size \in Nat /\ x <= Size /\ y <= Size
    BY Nodes
  <2>2. Size - y \in U /\ z \in Nat
    BY <2>1
  <2>3. ~ (Size - y < z)
    BY <1>2, <2>2 DEF OpToRel
  <2> QED
    BY <1>3, <2>1, <2>3
<1> QED
  BY <1>4

LEMMA SetsOfNodes ==
    ASSUME NEW S, S \subseteq Node
    PROVE  IsFiniteSet(S) /\ Cardinality(S) \in Nat /\ Cardinality(S) <= Size
<1>1. IsFiniteSet(S) /\ Cardinality(S) <= Size
  BY Nodes, FS_Subset DEF Size
<1> QED
  BY <1>1, FS_CardinalityType

LEMMA SmallerSet ==
    ASSUME NEW S, NEW T, S \subseteq T, IsFiniteSet(T)
    PROVE  /\ IsFiniteSet(S) /\ Cardinality(S) \in Nat /\ Cardinality(T) \in Nat
           /\ Cardinality(S) <= Cardinality(T)
           /\ \A x \in T \ S : Cardinality(S) < Cardinality(T)
<1>1. IsFiniteSet(S) /\ Cardinality(S) <= Cardinality(T)
  BY FS_Subset
<1>2. Cardinality(S) \in Nat /\ Cardinality(T) \in Nat
  BY <1>1, FS_CardinalityType
<1>3. ASSUME NEW x \in T \ S PROVE Cardinality(S) # Cardinality(T)
  BY <1>3, FS_Subset
<1> QED
  BY <1>1, <1>2, <1>3

\* Two sets apart in a third.
LEMMA Apart ==
    ASSUME NEW S, NEW T, NEW U, S \cup T \subseteq U, S \cap T = {}, IsFiniteSet(U)
    PROVE  Cardinality(S) + Cardinality(T) <= Cardinality(U)
<1>1. IsFiniteSet(S) /\ IsFiniteSet(T) /\ IsFiniteSet(S \cup T) /\ IsFiniteSet(S \cap T)
  BY FS_Subset
<1>2. Cardinality(S \cup T) = Cardinality(S) + Cardinality(T) - Cardinality(S \cap T)
  BY <1>1, FS_Union
<1>3. Cardinality(S \cap T) = 0
  BY FS_EmptySet
<1>4. Cardinality(S \cup T) <= Cardinality(U)
  BY FS_Subset
<1>5. Cardinality(S) \in Nat /\ Cardinality(T) \in Nat /\ Cardinality(U) \in Nat /\ Cardinality(S \cup T) \in Nat
  BY <1>1, FS_CardinalityType
<1> QED
  BY <1>2, <1>3, <1>4, <1>5

\* A set in the union of two.
LEMMA Joined ==
    ASSUME NEW S, NEW T, NEW U, U \subseteq S \cup T, IsFiniteSet(S), IsFiniteSet(T)
    PROVE  /\ IsFiniteSet(U) /\ Cardinality(U) <= Cardinality(S) + Cardinality(T)
           /\ Cardinality(U) \in Nat /\ Cardinality(S) \in Nat /\ Cardinality(T) \in Nat
<1>1. /\ IsFiniteSet(S \cup T) /\ IsFiniteSet(S \cap T)
      /\ Cardinality(S \cup T) = Cardinality(S) + Cardinality(T) - Cardinality(S \cap T)
  BY FS_Union, FS_Subset
<1>2. IsFiniteSet(U) /\ Cardinality(U) <= Cardinality(S \cup T)
  BY <1>1, FS_Subset
<1>3. /\ Cardinality(S) \in Nat /\ Cardinality(T) \in Nat /\ Cardinality(U) \in Nat
      /\ Cardinality(S \cup T) \in Nat /\ Cardinality(S \cap T) \in Nat
  BY <1>1, <1>2, FS_CardinalityType
<1> QED
  BY <1>1, <1>2, <1>3

LEMMA OneMore ==
    ASSUME NEW S, NEW T, NEW x, T \subseteq S \cup {x}, IsFiniteSet(S)
    PROVE  IsFiniteSet(T) /\ Cardinality(T) <= Cardinality(S) + 1
<1>1. IsFiniteSet({x}) /\ Cardinality({x}) = 1
  BY FS_Singleton
<1> QED
  BY <1>1, Joined

------------------------------------------------------------------------------
\* The tree

\* The nodes of every set that has d and what is in the folders it has.
Under(d, n) ==
    \A S \in SUBSET Node :
        d \in S /\ (\A m \in Node : Parent[m] \in S => m \in S) => n \in S

LEMMA UnderItself ==
    ASSUME NEW d
    PROVE  Under(d, d)
BY DEF Under

LEMMA InFolder ==
    ASSUME NEW d, NEW p, NEW n \in Node, Under(d, p), Parent[n] = p
    PROVE  Under(d, n)
BY DEF Under

LEMMA UnderComesLater ==
    ASSUME NEW d \in Node, NEW n \in Node, Under(d, n)
    PROVE  d <= n
<1> DEFINE S == {m \in Node : d <= m}
<1>1. d \in S
  BY Nodes
<1>2. ASSUME NEW m \in Node, Parent[m] \in S PROVE m \in S
  <2>1. Parent[m] # Root /\ Parent[m] < m /\ Parent[m] \in Node
    BY <1>2, ScanConstants
  <2> QED
    BY <1>2, <2>1, Nodes
<1>3. n \in S
  <2>1. S \in SUBSET Node
    OBVIOUS
  <2> HIDE DEF S
  <2> QED
    BY <1>1, <1>2, <2>1 DEF Under
<1> QED
  BY <1>3

LEMMA FirstStepDown ==
    ASSUME NEW d \in Node, NEW n \in Node, Under(d, n), n # d
    PROVE  \E c \in Node : Parent[c] = d /\ Under(c, n)
<1> DEFINE S == {m \in Node : m = d \/ \E c \in Node : Parent[c] = d /\ Under(c, m)}
<1>1. d \in S /\ S \in SUBSET Node
  OBVIOUS
<1>2. ASSUME NEW m \in Node, Parent[m] \in S PROVE m \in S
  <2>1. CASE Parent[m] = d
    BY <2>1, UnderItself
  <2>2. CASE Parent[m] # d
    <3>1. PICK c \in Node : Parent[c] = d /\ Under(c, Parent[m])
      BY <1>2, <2>2
    <3>2. Under(c, m)
      BY <3>1, InFolder
    <3> QED
      BY <3>1, <3>2
  <2> QED
    BY <2>1, <2>2
<1>3. n \in S
  <2> HIDE DEF S
  <2> QED
    BY <1>1, <1>2 DEF Under
<1> QED
  BY <1>3

LEMMA UnderTheRoot ==
    ASSUME NEW n \in Node
    PROVE  \E c \in Node : Parent[c] = Root /\ Under(c, n)
<1> DEFINE T == {m \in Node : ~ \E c \in Node : Parent[c] = Root /\ Under(c, m)}
<1>1. ASSUME T # {} PROVE FALSE
  <2>1. PICK m \in T : \A y \in T : m <= y
    <3>1. T \subseteq Node
      OBVIOUS
    <3> HIDE DEF T
    <3> QED
      BY <1>1, <3>1, LeastNode
  <2>2. Parent[m] # Root
    BY UnderItself
  <2>3. Parent[m] < m /\ Parent[m] \in Node
    BY <2>2, ScanConstants, Nodes
  <2>4. Parent[m] \notin T
    <3>1. ~ (m <= Parent[m])
      BY <2>3, Nodes
    <3> QED
      BY <2>1, <3>1
  <2>5. PICK c \in Node : Parent[c] = Root /\ Under(c, Parent[m])
    BY <2>3, <2>4
  <2>6. Under(c, m)
    BY <2>5, InFolder
  <2> QED
    BY <2>5, <2>6
<1> QED
  BY <1>1

\* There is nothing in a note.
LEMMA NotesAreLeaves ==
    ASSUME NEW m \in Note, NEW n \in Node, Under(m, n)
    PROVE  n = m
<1>1. \A c \in Node : Parent[c] # m
  BY ScanConstants, Nodes
<1> QED
  BY <1>1, FirstStepDown, Nodes

\* The way to a note that exists goes through the listing of each folder above it.
LEMMA ListingLeadsOn ==
    ASSUME NEW d, NEW n \in Note, note[n] # None,
           NEW c \in Node, Parent[c] = d, Under(c, n)
    PROVE  n \in Listing(d) \/ \E e \in Listing(d) \cap Dir : Under(e, n)
<1>1. CASE c \in Dir
  BY <1>1 DEF Listing, Exists
<1>2. CASE c \in Note
  <2>1. n = c
    BY <1>2, NotesAreLeaves, Nodes
  <2> QED
    BY <2>1 DEF Listing, Exists
<1> QED
  BY <1>1, <1>2, Nodes

------------------------------------------------------------------------------
\* The invariant of the walk

Walking == phase \in {"walk", "tags"}

\* Between calls, and between the pages of one.
AtRest ==
    /\ answer # None => phase \in {"done", "more"}
    /\ phase = "tags" => call.kind = "health"
    /\ phase = "more" => call.kind = "list"
    /\ phase # "idle" => Plain(call)
    /\ phase = "idle" => offset = 0 /\ got = [e \in Node |-> 0] /\ came = 0 /\ went = 0

\* What is in the vault during a call is among what there has been.
Recorded == phase # "idle" => \A n \in Note : note[n] # None => <<n, note[n]>> \in ever

\* What is listed was there to list; a batch has the notes of a list of paths, and a
\* page the notes of one folder.
Listed ==
    Walking =>
        /\ call.kind # "batch" => \A n \in Note : n \in todo \cup Visited => Was(n)
        /\ call.kind = "batch" => todo \subseteq Note
        /\ call.kind = "list" => \A n \in todo \cup Visited : n \in Note /\ Parent[n] = Root

\* What was read of a note that nobody has touched is what is there.
Fresh ==
    Walking => \A n \in stable \cap Visited :
        saw[n] = View(n) /\ (call.kind = "recent" => when[n] = mtime[n])

\* The walk goes upwards; between its two reads of a note it stays at it.
Ordered ==
    /\ Walking => \A v \in Visited, m \in todo : v < m \/ (phase = "tags" /\ v = m)
    /\ \A v \in tags, m \in todo : v < m
    /\ phase = "tags" => \E n \in Note : First(n) /\ n \in Visited

\* A note is to be visited that is asked for, and in the folder that is.
Meant(n) ==
    /\ n \in call.wanted
    /\ call.kind = "batch" => n \in Asked(call)
    /\ call.kind = "list" => Parent[n] = Root

\* No note that nobody touches is lost on the way: it has been visited, or it is listed,
\* or the walk has yet to enter a folder above it; unless there is enough.
Covered ==
    Walking => \A n \in stable \cap Note : Meant(n) =>
        \/ n \in todo \cup Visited
        \/ \E d \in todo \cap Dir : Under(d, n)
        \/ Full /\ \A v \in Visited : v < n

\* A search stops in time.
Enough == Walking /\ call.kind = "regex" => Cardinality(Found) <= call.limit

\* What was found of the tags of a note that nobody has touched is true.
Tagging ==
    Walking /\ call.kind = "health" => \A n \in stable \cap Seen :
        (phase = "tags" /\ n \in todo) \/ (n \in tags <=> note[n] \in Tagged)

Core == /\ TypeOK /\ AtRest /\ Recorded /\ Listed /\ Fresh
        /\ Ordered /\ Covered /\ Enough /\ Tagging

LEMMA CallFields ==
    ASSUME NEW c \in Call
    PROVE  /\ c # None /\ c.kind \in Kind /\ c.limit \in Nat /\ 1 <= c.limit /\ c.since \in Time
           /\ c.wanted \subseteq Note /\ Asked(c) \subseteq c.wanted
           /\ c.limit \in Limit
<1>1. /\ c # None /\ c.kind \in Kind /\ c.limit \in Limit /\ c.since \in Time
      /\ c.wanted \in Wanted \cup {Note}
  BY ScanConstants DEF Call
<1>2. c.limit \in Nat /\ c.limit # 0
  BY <1>1, ScanConstants
<1>3. c.wanted \subseteq Note
  BY <1>1, ScanConstants
<1>4. Asked(c) \subseteq c.wanted
  BY DEF Asked
<1> QED
  BY <1>1, <1>2, <1>3, <1>4

LEMMA SeenVisited == Seen \subseteq Visited /\ Visited \subseteq Note
BY ScanConstants DEF Seen, Visited

LEMMA SameWalk ==
    ASSUME call' = call, saw' = saw
    PROVE  /\ Visited' = Visited /\ Seen' = Seen /\ Found' = Found /\ Full' = Full
           /\ \A n : Meant(n)' = Meant(n)
<1>1. Visited' = Visited /\ Seen' = Seen
  BY DEF Visited, Seen
<1>2. Found' = Found
  BY <1>1 DEF Found, Matches
<1>3. Full' = Full
  BY <1>1, <1>2 DEF Full
<1>4. \A n : Meant(n)' = Meant(n)
  BY DEF Meant, Asked, Before
<1> QED
  BY <1>1, <1>2, <1>3, <1>4

\* Nothing is said of a walk when there is none.
LEMMA NoWalk ==
    ASSUME phase' \notin {"walk", "tags"}, todo' = {}
    PROVE  Listed' /\ Fresh' /\ Ordered' /\ Covered' /\ Enough' /\ Tagging'
BY DEF Listed, Fresh, Ordered, Covered, Enough, Tagging, Walking

LEMMA ViewIs ==
    ASSUME note \in [Note -> Text \cup {None}], NEW n \in Note
    PROVE  /\ View(n) \in Text \cup {Missing} /\ View(n) # None
           /\ View(n) \in Text => View(n) = note[n] /\ note[n] # None /\ Readable(call.kind, note[n])
           /\ Readable(call.kind, note[n]) /\ InReach(call.kind, n) => View(n) = note[n] /\ View(n) \in Text
<1>1. Missing \notin Text /\ Missing # None /\ None \notin Text
  BY ScanConstants
<1>2. note[n] \in Text \cup {None}
  OBVIOUS
<1>3. CASE Readable(call.kind, note[n]) /\ InReach(call.kind, n)
  <2>1. note[n] # None
    BY <1>3 DEF Readable
  <2>2. View(n) = note[n]
    BY <1>3 DEF View
  <2> QED
    BY <1>1, <1>2, <1>3, <2>1, <2>2
<1>4. CASE ~ (Readable(call.kind, note[n]) /\ InReach(call.kind, n))
  <2>1. View(n) = Missing
    BY <1>4 DEF View
  <2> QED
    BY <1>1, <1>4, <2>1
<1> QED
  BY <1>3, <1>4

\* What nobody has touched has been in reach, with the folders above it.
LEMMA ReachIs ==
    ASSUME TypeOK, NEW n \in stable
    PROVE  n \in Node /\ n \notin barred /\ InReach(call.kind, n)
<1>1. n \in Node /\ n \notin barred /\ barred \in Faults
  BY DEF TypeOK
<1>2. Parent[n] \notin barred
  BY <1>1, ScanConstants
<1> QED
  BY <1>1, <1>2 DEF InReach

\* A folder that is passed over has nothing in it that is in reach.
LEMMA BehindBars ==
    ASSUME TypeOK, NEW d \in barred, NEW n \in stable
    PROVE  ~ Under(d, n)
<1>1. n \in Node /\ n \notin barred /\ barred \in Faults
  BY DEF TypeOK
<1>2. barred \in SUBSET Node /\ \A m \in Node : Parent[m] \in barred => m \in barred
  BY <1>1, ScanConstants
<1> QED
  BY <1>1, <1>2 DEF Under

LEMMA InitCore ==
    ASSUME Init
    PROVE  Core
<1>1. Visited = {} /\ Seen = {}
  BY ScanConstants DEF Init, Visited, Seen
<1>2. note \in [Note -> Text \cup {None}] /\ changes \in Time /\ mtime \in [Note -> Time] /\ barred \in Faults
  BY ScanConstants DEF Init, Time
<1>3. TypeOK
  BY <1>1, <1>2 DEF Init, TypeOK, Time
<1> QED
  BY <1>3 DEF Init, Core, AtRest, Recorded, Listed, Fresh, Ordered, Covered, Enough, Tagging, Walking

LEMMA StartStep ==
    ASSUME Core, Start
    PROVE  Core'
<1>1. PICK c \in Call :
         /\ Plain(c) /\ call' = c
         /\ todo' = CASE c.kind = "batch" -> Asked(c)
                      [] c.kind = "list"  -> Listing(Root) \ Dir
                      [] OTHER -> Listing(Root)
  BY DEF Start
<1>2. /\ phase = "idle" /\ phase' = "walk"
      /\ stable' = {n \in Node : Exists(n)} \ barred
      /\ ever' = {<<n, note[n]>> : n \in {m \in Note : note[m] # None}}
      /\ UNCHANGED <<note, mtime, barred, changes, saw, when, tags, offset, got, answer, came, went>>
  BY DEF Start
<1>3. TypeOK /\ AtRest
  BY DEF Core
<1>4. Visited = {} /\ tags = {} /\ Visited' = {} /\ Seen' = {}
  <2>1. Visited = {} /\ tags = {}
    BY <1>2, <1>3 DEF TypeOK
  <2>2. Visited' = Visited
    BY <1>2 DEF Visited
  <2>3. Seen' \subseteq Visited'
    BY ScanConstants DEF Seen, Visited
  <2> QED
    BY <2>1, <2>2, <2>3
<1>5. c # None /\ c.wanted \subseteq Note /\ Asked(c) \subseteq c.wanted
  BY CallFields
<1>6. Listing(Root) = {n \in Node : Parent[n] = Root /\ (n \in Dir \/ note[n] # None)}
  BY DEF Listing, Exists
<1>7. /\ c.kind = "batch" => todo' = Asked(c)
      /\ c.kind = "list" => todo' = Listing(Root) \ Dir
      /\ c.kind \notin {"batch", "list"} => todo' = Listing(Root)
  BY <1>1
<1>8. todo' \subseteq Node
  BY <1>5, <1>6, <1>7, Nodes
<1>9. ever' \subseteq Note \X Text
  BY <1>2, <1>3 DEF TypeOK
<1>10. \A n \in stable' \cap Note : note[n] # None
  BY <1>2, Nodes DEF Exists
<1>11. TypeOK'
  <2>1. stable' \subseteq Node \ barred'
    BY <1>2
  <2>2. answer' \in Answer \cup {None} /\ call' \in Call \cup {None}
    BY <1>1, <1>2, <1>3 DEF TypeOK
  <2>3. phase' \in {"idle", "walk", "tags", "more", "done"} /\ (call' = None <=> phase' = "idle")
    BY <1>1, <1>2, <1>5
  <2> QED
    BY <1>2, <1>3, <1>4, <1>8, <1>9, <1>10, <2>1, <2>2, <2>3 DEF TypeOK
<1>12. AtRest'
  <2>1. answer' = None
    BY <1>2, <1>3 DEF AtRest
  <2> QED
    BY <1>1, <1>2, <2>1 DEF AtRest
<1>13. \A n \in Note : note[n] # None => <<n, note[n]>> \in ever'
  BY <1>2
<1>14. Recorded'
  BY <1>2, <1>13 DEF Recorded
<1>15. Listed'
  <2>1. ASSUME c.kind # "batch", NEW n \in Note, n \in todo' PROVE Was(n)'
    <3>1. note[n] # None
      BY <2>1, <1>6, <1>7, Nodes
    <3>2. note[n] \in Text /\ <<n, note[n]>> \in ever'
      BY <3>1, <1>3, <1>13 DEF TypeOK
    <3> QED
      BY <3>2 DEF Was
  <2>2. c.kind = "batch" => todo' \subseteq Note
    BY <1>5, <1>7
  <2>3. c.kind = "list" => \A n \in todo' : n \in Note /\ Parent[n] = Root
    BY <1>6, <1>7, Nodes
  <2> QED
    BY <1>1, <1>4, <2>1, <2>2, <2>3 DEF Listed
<1>16. Fresh' /\ Ordered' /\ Tagging'
  BY <1>2, <1>4 DEF Fresh, Ordered, Tagging
<1>17. Enough'
  <2>1. Found' = {}
    BY <1>4 DEF Found
  <2>2. Cardinality({}) = 0 /\ c.limit \in Nat
    BY FS_EmptySet, CallFields
  <2> QED
    BY <1>1, <2>1, <2>2 DEF Enough
<1>18. Covered'
  <2> SUFFICES ASSUME NEW n \in Note, n \in stable', Meant(n)'
               PROVE  n \in todo' \/ \E d \in todo' \cap Dir : Under(d, n)
    BY DEF Covered
  <2>1. note[n] # None
    BY <1>10
  <2>2. CASE c.kind = "batch"
    BY <1>1, <1>7, <2>2 DEF Meant
  <2>3. CASE c.kind = "list"
    BY <1>1, <1>6, <1>7, <2>1, <2>3, Nodes DEF Meant
  <2>4. CASE c.kind \notin {"batch", "list"}
    <3>1. PICK e \in Node : Parent[e] = Root /\ Under(e, n)
      BY UnderTheRoot, Nodes
    <3> QED
      BY <1>7, <2>1, <2>4, <3>1, ListingLeadsOn
  <2> QED
    BY <2>2, <2>3, <2>4
<1> QED
  BY <1>11, <1>12, <1>14, <1>15, <1>16, <1>17, <1>18 DEF Core

LEMMA EnterStep ==
    ASSUME Core, Enter
    PROVE  Core'
<1>1. PICK d \in Dir : First(d) /\ todo' = (todo \ {d}) \cup (IF d \in barred THEN {} ELSE Listing(d))
  BY DEF Enter
<1>2. /\ phase = "walk"
      /\ UNCHANGED <<note, mtime, barred, changes, call, phase, saw, when, tags, offset, got, answer, ghost>>
  BY DEF Enter
<1>3. UNCHANGED <<stable, ever, came, went>>
  BY <1>2 DEF ghost
<1>4. TypeOK /\ AtRest /\ Recorded /\ Listed /\ Fresh /\ Ordered /\ Covered /\ Enough /\ Tagging
  BY DEF Core
<1>5. Visited' = Visited /\ Seen' = Seen /\ Found' = Found /\ Full' = Full /\ \A n : Meant(n)' = Meant(n)
  BY <1>2, SameWalk
<1>6. d \in todo /\ d \in Node /\ d \notin Note /\ (\A m \in todo : d <= m)
  BY <1>1, Nodes DEF First
<1>7. Listing(d) \subseteq Node /\ \A m \in Listing(d) : Parent[m] = d /\ d < m
  BY <1>6, ScanConstants DEF Listing
<1>8. call.kind \notin {"batch", "list"}
  BY <1>2, <1>4, <1>6 DEF Listed, Walking
<1>9. TypeOK'
  <2>1. todo' \subseteq Node
    BY <1>1, <1>4, <1>7 DEF TypeOK
  <2> QED
    BY <1>2, <1>3, <1>4, <1>5, <2>1 DEF TypeOK
<1>10. AtRest' /\ Recorded'
  BY <1>2, <1>3, <1>4 DEF AtRest, Recorded
<1>11. Listed'
  <2>1. ASSUME NEW n \in Note, n \in todo' \cup Visited PROVE Was(n)
    <3>1. CASE n \in todo \cup Visited
      BY <1>2, <1>4, <1>8, <3>1 DEF Listed, Walking
    <3>2. CASE n \in Listing(d)
      <4>1. note[n] # None
        BY <3>2, Nodes DEF Listing, Exists
      <4>2. note[n] \in Text /\ <<n, note[n]>> \in ever
        BY <4>1, <1>2, <1>4 DEF TypeOK, Recorded
      <4> QED
        BY <4>2 DEF Was
    <3> QED
      BY <1>1, <2>1, <3>1, <3>2
  <2>2. \A n : Was(n)' = Was(n)
    BY <1>3 DEF Was
  <2> QED
    BY <1>2, <1>5, <1>8, <2>1, <2>2 DEF Listed
<1>12. Fresh'
  <2>1. \A n \in Note : View(n)' = View(n)
    BY <1>2 DEF View, InReach
  <2> QED
    BY <1>2, <1>3, <1>4, <1>5, <2>1 DEF Fresh, Walking, Visited
<1>13. Ordered'
  <2>1. ASSUME NEW v, v \in Visited \/ v \in tags, NEW m \in todo' PROVE v < m
    <3>1. \A k \in todo : v < k
      BY <1>2, <1>4, <2>1 DEF Ordered, Walking
    <3>2. CASE m \in Listing(d)
      <4>1. v < d /\ d < m /\ d \in Nat /\ m \in Nat
        BY <1>6, <1>7, <3>1, <3>2, Nodes
      <4>2. v \in Nat
        BY <2>1, <1>4, Nodes DEF TypeOK, Visited
      <4> QED
        BY <4>1, <4>2
    <3> QED
      BY <1>1, <3>1, <3>2
  <2> QED
    BY <1>2, <1>5, <2>1 DEF Ordered
<1>14. Covered'
  <2> SUFFICES ASSUME NEW n \in Note, n \in stable, Meant(n)
               PROVE  \/ n \in todo' \cup Visited
                      \/ \E e \in todo' \cap Dir : Under(e, n)
                      \/ Full /\ \A v \in Visited : v < n
    BY <1>3, <1>5 DEF Covered
  <2>1. \/ n \in todo \cup Visited
        \/ \E e \in todo \cap Dir : Under(e, n)
        \/ Full /\ \A v \in Visited : v < n
    BY <1>2, <1>4 DEF Covered, Walking
  <2>2. CASE n \in todo \cup Visited
    BY <1>1, <1>6, <2>2
  <2>3. ASSUME NEW e \in todo \cap Dir, Under(e, n), e # d
        PROVE  e \in todo' \cap Dir /\ Under(e, n)
    BY <1>1, <2>3
  <2>4. CASE Under(d, n)
    <3>1. PICK c \in Node : Parent[c] = d /\ Under(c, n)
      BY <1>6, <2>4, FirstStepDown, Nodes
    <3>2. note[n] # None
      BY <1>4 DEF TypeOK
    <3>3. d \notin barred
      BY <1>4, <2>4, BehindBars
    <3> QED
      BY <1>1, <3>1, <3>2, <3>3, ListingLeadsOn
  <2> QED
    BY <2>1, <2>2, <2>3, <2>4
<1>15. Enough'
  BY <1>2, <1>4, <1>5 DEF Enough, Walking
<1>16. Tagging'
  BY <1>2, <1>3, <1>4, <1>5 DEF Tagging, Walking
<1> QED
  BY <1>9, <1>10, <1>11, <1>12, <1>13, <1>14, <1>15, <1>16 DEF Core

\* A callback reads the first note of the listing.
LEMMA VisitStep ==
    ASSUME Core, Visit
    PROVE  Core'
<1>1. PICK n \in Note :
         /\ First(n)
         /\ IF call.kind = "bm25" /\ n \notin call.wanted
            THEN UNCHANGED <<saw, when>>
            ELSE /\ saw' = [saw EXCEPT ![n] = View(n)]
                 /\ when' = [when EXCEPT ![n] = IF call.kind = "recent" THEN mtime[n] ELSE 0]
         /\ IF call.kind = "health" /\ View(n) \in Text
            THEN phase' = "tags" /\ todo' = todo
            ELSE phase' = phase /\ todo' = todo \ {n}
  BY DEF Visit
<1>2. /\ phase = "walk" /\ ~ Full
      /\ UNCHANGED <<note, mtime, barred, changes, call, tags, offset, got, answer, stable, ever, came, went>>
  BY DEF Visit, ghost
<1>3. TypeOK /\ AtRest /\ Recorded /\ Listed /\ Fresh /\ Ordered /\ Covered /\ Enough /\ Tagging
  BY DEF Core
<1>4. n \in todo /\ (\A m \in todo : n <= m) /\ n \in Node /\ n \in Nat /\ todo \subseteq Node
  BY <1>1, <1>3, Nodes DEF First, TypeOK
<1>5. /\ View(n) \in Text \cup {Missing} /\ View(n) # None
      /\ View(n) \in Text => View(n) = note[n] /\ note[n] # None
  BY <1>3, ViewIs DEF TypeOK
<1>6. call # None /\ call \in Call
  BY <1>2, <1>3 DEF TypeOK
<1> DEFINE skip == call.kind = "bm25" /\ n \notin call.wanted
<1>7. /\ \A m \in Note \ {n} : saw'[m] = saw[m] /\ when'[m] = when[m]
      /\ skip => saw' = saw /\ when' = when
      /\ ~ skip => saw'[n] = View(n) /\ (call.kind = "recent" => when'[n] = mtime[n])
  BY <1>1, <1>3 DEF TypeOK
<1>8. saw' \in [Note -> Text \cup {None, Missing}] /\ when' \in [Note -> Time]
  <2>1. 0 \in Time /\ mtime[n] \in Time
    BY <1>3, ScanConstants DEF Time, TypeOK
  <2> QED
    BY <1>1, <1>3, <1>5, <2>1 DEF TypeOK
<1>9. phase' \in {"walk", "tags"} /\ todo' \subseteq todo /\ todo \ {n} \subseteq todo' /\ (n \in todo' => phase' = "tags")
  BY <1>1, <1>2
<1>10. /\ \A m \in Note \ {n} : (m \in Visited' <=> m \in Visited) /\ (m \in Seen' <=> m \in Seen)
       /\ ~ skip => n \in Visited' /\ (n \in Seen' <=> View(n) \in Text)
       /\ skip => Visited' = Visited /\ Seen' = Seen
       /\ Visited' \subseteq Visited \cup {n} /\ Visited' \subseteq Note
  BY <1>5, <1>7 DEF Visited, Seen
<1>11. Visited \subseteq Visited' /\ (n \notin Visited)
  <2>1. n \notin Visited
    <3>1. ~ (n < n)
      BY <1>4
    <3> QED
      BY <1>2, <1>3, <1>4, <3>1 DEF Ordered, Walking
  <2> QED
    BY <1>10, <2>1 DEF Visited
<1>12. TypeOK'
  <2>1. ASSUME NEW m \in Seen' PROVE <<m, saw'[m]>> \in ever
    <3>1. CASE m # n
      <4>1. m \in Seen /\ saw'[m] = saw[m]
        BY <2>1, <3>1, <1>7, <1>10 DEF Seen
      <4> QED
        BY <4>1, <1>3 DEF TypeOK
    <3>2. CASE m = n /\ skip
      BY <2>1, <3>2, <1>3, <1>7, <1>10 DEF TypeOK
    <3>3. CASE m = n /\ ~ skip
      BY <2>1, <3>3, <1>2, <1>3, <1>5, <1>7, <1>10 DEF Recorded
    <3> QED
      BY <3>1, <3>2, <3>3
  <2>2. \A m \in stable' \cap Note : note'[m] # None
    BY <1>2, <1>3 DEF TypeOK
  <2>3. todo' \subseteq Node /\ (phase' \notin {"walk", "tags"} => todo' = {})
    BY <1>3, <1>9 DEF TypeOK
  <2>4. /\ phase' \in {"idle", "walk", "tags", "more", "done"}
        /\ (call' = None <=> phase' = "idle")
    BY <1>2, <1>3, <1>6, <1>9
  <2> QED
    BY <1>2, <1>3, <1>8, <1>9, <2>1, <2>2, <2>3, <2>4 DEF TypeOK
<1>13. AtRest'
  <2>1. phase' = "tags" => call.kind = "health"
    BY <1>1, <1>2
  <2>2. answer' = None /\ Plain(call)
    BY <1>2, <1>3 DEF AtRest
  <2> QED
    BY <1>2, <1>9, <2>1, <2>2 DEF AtRest
<1>14. Recorded'
  BY <1>2, <1>3 DEF Recorded
<1>15. Listed'
  <2>1. \A m : Was(m)' = Was(m)
    BY <1>2 DEF Was
  <2>2. todo' \cup Visited' \subseteq todo \cup Visited /\ todo' \subseteq todo
    BY <1>4, <1>9, <1>10
  <2>3. /\ call.kind # "batch" => \A m \in Note : m \in todo \cup Visited => Was(m)
        /\ call.kind = "batch" => todo \subseteq Note
        /\ call.kind = "list" => \A m \in todo \cup Visited : m \in Note /\ Parent[m] = Root
    BY <1>2, <1>3 DEF Listed, Walking
  <2>4. call.kind # "batch" => \A m \in Note : m \in todo' \cup Visited' => Was(m)'
    BY <2>1, <2>2, <2>3
  <2>5. call.kind = "list" => \A m \in todo' \cup Visited' : m \in Note /\ Parent[m] = Root
    BY <2>2, <2>3
  <2> QED
    BY <1>2, <2>2, <2>3, <2>4, <2>5 DEF Listed
<1>16. \A m \in Note : View(m)' = View(m)
  BY <1>2 DEF View, InReach
<1>17. Fresh'
  <2> SUFFICES ASSUME NEW m \in Note, m \in stable, m \in Visited'
               PROVE  saw'[m] = View(m) /\ (call.kind = "recent" => when'[m] = mtime[m])
    BY <1>2, <1>10, <1>16 DEF Fresh
  <2>1. CASE m # n \/ skip
    <3>1. m \in Visited /\ saw'[m] = saw[m] /\ when'[m] = when[m]
      BY <2>1, <1>7, <1>10
    <3> QED
      BY <3>1, <1>2, <1>3 DEF Fresh, Walking
  <2>2. CASE m = n /\ ~ skip
    BY <2>2, <1>7
  <2> QED
    BY <2>1, <2>2
<1>18. Ordered'
  <2>1. ASSUME NEW v \in Visited', NEW m \in todo'
        PROVE  v < m \/ (phase' = "tags" /\ v = m)
    <3>1. CASE v = n
      BY <1>4, <1>9, <2>1, <3>1, Nodes
    <3>2. CASE v # n
      BY <1>2, <1>3, <1>9, <1>10, <2>1, <3>2 DEF Ordered, Walking
    <3> QED
      BY <3>1, <3>2
  <2>2. \A v \in tags, m \in todo' : v < m
    BY <1>3, <1>9 DEF Ordered
  <2>3. ASSUME phase' = "tags" PROVE First(n)' /\ n \in Visited'
    <3>1. todo' = todo /\ call.kind = "health"
      BY <1>1, <1>2, <2>3
    <3>2. First(n)'
      BY <1>1, <3>1 DEF First
    <3> QED
      BY <3>1, <3>2, <1>10
  <2> QED
    BY <1>2, <2>1, <2>2, <2>3 DEF Ordered
<1>19. Covered'
  <2> SUFFICES ASSUME NEW m \in Note, m \in stable, Meant(m)
               PROVE  m \in todo' \cup Visited' \/ \E e \in todo' \cap Dir : Under(e, m)
    <3>1. \A m : Meant(m)' = Meant(m)
      BY <1>2 DEF Meant, Asked, Before
    <3> QED
      BY <1>2, <3>1 DEF Covered
  <2>1. m \in todo \cup Visited \/ \E e \in todo \cap Dir : Under(e, m)
    BY <1>2, <1>3 DEF Covered, Walking
  <2>2. CASE m \in todo \cup Visited
    <3>1. m = n => ~ skip
      BY DEF Meant
    <3> QED
      BY <2>2, <3>1, <1>9, <1>10, <1>11
  <2>3. ASSUME NEW e \in todo \cap Dir PROVE e \in todo' \cap Dir
    BY <1>9, Nodes
  <2> QED
    BY <2>1, <2>2, <2>3
<1>20. Enough'
  <2> SUFFICES ASSUME call.kind = "regex" PROVE Cardinality(Found') <= call.limit
    BY <1>2 DEF Enough
  <2>1. Found' \subseteq Found \cup {n}
    <3>1. ASSUME NEW m \in Note, m # n, m \in Found' PROVE m \in Found
      <4>1. m \in Visited' /\ Matches(call, m, saw'[m])
        BY <3>1, <1>2 DEF Found
      <4>2. m \in Visited /\ saw'[m] = saw[m]
        BY <3>1, <4>1, <1>7, <1>10
      <4> QED
        BY <4>1, <4>2 DEF Found
    <3> QED
      BY <3>1, <1>10 DEF Found
  <2>2. ~ (Cardinality(Found) >= call.limit)
    BY <1>2 DEF Full
  <2>3. Found \subseteq Node
    BY Nodes DEF Found, Visited
  <2>4. IsFiniteSet(Found) /\ Cardinality(Found) \in Nat /\ call.limit \in Nat
    BY <2>3, <1>6, SetsOfNodes, CallFields
  <2>5. Cardinality(Found') <= Cardinality(Found) + 1 /\ IsFiniteSet(Found')
    BY <2>1, <2>4, OneMore
  <2>6. Cardinality(Found') \in Nat
    BY <2>5, FS_CardinalityType
  <2> QED
    BY <2>2, <2>4, <2>5, <2>6
<1>21. Tagging'
  <2> SUFFICES ASSUME call.kind = "health", NEW m \in Note, m \in stable, m \in Seen'
               PROVE  (phase' = "tags" /\ m \in todo') \/ (m \in tags <=> note[m] \in Tagged)
    BY <1>2, <1>10, SeenVisited DEF Tagging, Seen
  <2>1. CASE m = n
    BY <2>1, <1>1, <1>4, <1>10
  <2>2. CASE m # n
    BY <2>2, <1>2, <1>3, <1>10 DEF Tagging, Walking
  <2> QED
    BY <2>1, <2>2
<1> QED
  BY <1>12, <1>13, <1>14, <1>15, <1>17, <1>18, <1>19, <1>20, <1>21 DEF Core

\* Where the two reads of a note are, there is one that has been read once.
LEMMA ReadTagsStep ==
    ASSUME Core, ReadTags
    PROVE  Core'
<1>1. PICK n \in Note :
         /\ First(n)
         /\ tags' = IF View(n) \in Tagged THEN tags \cup {n} ELSE tags
         /\ todo' = todo \ {n}
  BY DEF ReadTags
<1>2. /\ phase = "tags" /\ phase' = "walk"
      /\ UNCHANGED <<note, mtime, barred, changes, call, saw, when, offset, got, answer, stable, ever, came, went>>
  BY DEF ReadTags, ghost
<1>3. TypeOK /\ AtRest /\ Recorded /\ Listed /\ Fresh /\ Ordered /\ Covered /\ Enough /\ Tagging
  BY DEF Core
<1>4. Visited' = Visited /\ Seen' = Seen /\ Found' = Found /\ Full' = Full /\ \A m : Meant(m)' = Meant(m)
  BY <1>2, SameWalk
<1>5. n \in todo /\ (\A m \in todo : n <= m) /\ n \in Nat /\ todo \subseteq Node /\ (\A m \in todo : m \in Nat)
  BY <1>1, <1>3, Nodes DEF First, TypeOK
<1>6. n \in Visited
  <2>1. PICK k \in Note : First(k) /\ k \in Visited
    BY <1>2, <1>3 DEF Ordered
  <2>2. k <= n /\ n <= k /\ k \in Nat
    BY <1>5, <2>1 DEF First
  <2>3. k = n
    BY <1>5, <2>2
  <2> QED
    BY <2>1, <2>3
<1>7. call # None /\ call.kind = "health"
  BY <1>2, <1>3 DEF TypeOK, AtRest
<1>8. TypeOK'
  BY <1>1, <1>2, <1>3, <1>4, <1>7 DEF TypeOK
<1>9. AtRest' /\ Recorded'
  BY <1>2, <1>3 DEF AtRest, Recorded
<1>10. Listed'
  <2>1. \A m : Was(m)' = Was(m)
    BY <1>2 DEF Was
  <2> QED
    BY <1>1, <1>2, <1>3, <1>4, <1>7, <2>1 DEF Listed, Walking
<1>11. \A m \in Note : View(m)' = View(m)
  BY <1>2 DEF View, InReach
<1>12. Fresh'
  BY <1>2, <1>3, <1>4, <1>11 DEF Fresh, Walking, Visited
<1>13. Ordered'
  <2>1. ASSUME NEW v \in Visited, NEW m \in todo' PROVE v < m
    <3>1. v < n \/ v = n
      BY <1>3, <1>2, <1>5 DEF Ordered, Walking
    <3>2. n < m
      BY <1>1, <1>5
    <3>3. v \in Nat /\ m \in Nat
      BY <1>1, <1>5, Nodes DEF Visited
    <3> QED
      BY <1>5, <3>1, <3>2, <3>3
  <2>2. ASSUME NEW v \in tags', NEW m \in todo' PROVE v < m
    <3>1. n < m /\ m \in todo
      BY <1>1, <1>5
    <3> QED
      BY <1>1, <1>3, <2>2, <3>1 DEF Ordered
  <2> QED
    BY <1>2, <1>4, <2>1, <2>2 DEF Ordered
<1>14. Covered'
  <2> SUFFICES ASSUME NEW m \in Note, m \in stable, Meant(m)
               PROVE  \/ m \in todo' \cup Visited
                      \/ \E e \in todo' \cap Dir : Under(e, m)
                      \/ Full /\ \A v \in Visited : v < m
    BY <1>2, <1>4 DEF Covered
  <2>1. \/ m \in todo \cup Visited
        \/ \E e \in todo \cap Dir : Under(e, m)
        \/ Full /\ \A v \in Visited : v < m
    BY <1>2, <1>3 DEF Covered, Walking
  <2> QED
    BY <1>1, <1>6, <2>1, Nodes
<1>15. Enough'
  BY <1>2, <1>7 DEF Enough
<1>16. Tagging'
  <2> SUFFICES ASSUME NEW m \in Note, m \in stable, m \in Seen
               PROVE  m \in tags' <=> note[m] \in Tagged
    BY <1>2, <1>4 DEF Tagging, Seen
  <2>1. CASE m = n
    <3>1. n \notin tags
      <4>1. ~ (n < n)
        BY <1>5
      <4> QED
        BY <1>3, <1>5, <4>1 DEF Ordered
    <3>2. saw[n] = View(n) /\ saw[n] \in Text
      BY <1>2, <1>3, <1>6, <2>1 DEF Fresh, Walking, Seen
    <3>3. View(n) = note[n]
      BY <3>2, ScanConstants DEF View, InReach
    <3> QED
      BY <1>1, <2>1, <3>1, <3>3
  <2>2. CASE m # n
    <3>1. m \notin todo
      <4>1. m \in todo => n < m
        BY <1>5, <2>2
      <4>2. m \in todo => m <= n
        <5>1. m \in Visited
          BY SeenVisited
        <5>2. m < n \/ m = n
          BY <1>2, <1>3, <1>5, <5>1 DEF Ordered, Walking
        <5> QED
          BY <5>2, <1>5, Nodes
      <4> QED
        BY <4>1, <4>2, <1>5, Nodes
    <3>2. m \in tags <=> note[m] \in Tagged
      BY <1>2, <1>3, <1>7, <3>1 DEF Tagging, Walking
    <3> QED
      BY <1>1, <2>2, <3>2
  <2> QED
    BY <2>1, <2>2
<1> QED
  BY <1>8, <1>9, <1>10, <1>12, <1>13, <1>14, <1>15, <1>16 DEF Core

\* There is enough: what is left comes after all that was visited.
LEMMA SkipAllStep ==
    ASSUME Core, SkipAll
    PROVE  Core'
<1>1. PICK n \in Note : First(n)
  BY DEF SkipAll
<1>2. /\ phase = "walk" /\ Full /\ todo' = {}
      /\ UNCHANGED <<note, mtime, barred, changes, call, phase, saw, when, tags, offset, got, answer, stable, ever, came, went>>
  BY DEF SkipAll, ghost
<1>3. TypeOK /\ AtRest /\ Recorded /\ Listed /\ Fresh /\ Ordered /\ Covered /\ Enough /\ Tagging
  BY DEF Core
<1>4. Visited' = Visited /\ Seen' = Seen /\ Found' = Found /\ Full' = Full /\ \A m : Meant(m)' = Meant(m)
  BY <1>2, SameWalk
<1>5. TypeOK'
  BY <1>2, <1>3, <1>4 DEF TypeOK
<1>6. AtRest' /\ Recorded'
  BY <1>2, <1>3 DEF AtRest, Recorded
<1>7. Listed'
  <2>1. \A m : Was(m)' = Was(m)
    BY <1>2 DEF Was
  <2> QED
    BY <1>2, <1>3, <1>4, <2>1 DEF Listed, Walking
<1>8. \A m \in Note : View(m)' = View(m)
  BY <1>2 DEF View, InReach
<1>9. Fresh'
  BY <1>2, <1>3, <1>4, <1>8 DEF Fresh, Walking, Visited
<1>10. Ordered'
  BY <1>2, <1>4 DEF Ordered
<1>11. Covered'
  <2> SUFFICES ASSUME NEW m \in Note, m \in stable, Meant(m)
               PROVE  m \in Visited \/ \A v \in Visited : v < m
    BY <1>2, <1>4 DEF Covered
  <2>1. \/ m \in todo \cup Visited
        \/ \E e \in todo \cap Dir : Under(e, m)
        \/ \A v \in Visited : v < m
    BY <1>2, <1>3 DEF Covered, Walking
  <2>2. \A v \in Visited, k \in todo : v < k
    BY <1>2, <1>3 DEF Ordered, Walking
  <2>3. ASSUME NEW e \in todo \cap Dir, Under(e, m), NEW v \in Visited
        PROVE  v < m
    <3>1. v < e
      BY <2>2
    <3>2. e <= m
      BY <2>3, UnderComesLater, Nodes
    <3>3. v \in Nat /\ e \in Nat /\ m \in Nat
      BY Nodes DEF Visited
    <3> QED
      BY <3>1, <3>2, <3>3
  <2> QED
    BY <2>1, <2>2, <2>3
<1>12. Enough' /\ Tagging'
  <2>1. todo' \subseteq todo /\ phase' # "tags"
    BY <1>2
  <2> QED
    BY <1>2, <1>3, <1>4, <2>1 DEF Enough, Tagging, Walking
<1> QED
  BY <1>5, <1>6, <1>7, <1>9, <1>10, <1>11, <1>12 DEF Core

LEMMA BlankIs == Blank \in Answer
<1>1. Cardinality(Note) \in Nat
  BY Nodes, FS_CardinalityType
<1>2. 0 \in 0..Cardinality(Note)
  BY <1>1
<1> QED
  BY <1>2 DEF Blank, Answer

LEMMA WalkCleared ==
    ASSUME Nothing
    PROVE  /\ Visited' = {} /\ Seen' = {} /\ tags' = {}
           /\ saw' \in [Note -> Text \cup {None, Missing}] /\ when' \in [Note -> Time]
<1>1. 0 \in Time
  BY ScanConstants DEF Time
<1>2. None \notin Text
  BY ScanConstants
<1> QED
  BY <1>1, <1>2 DEF Nothing, Visited, Seen

LEMMA LeadingIs ==
    ASSUME NEW S, NEW k, NEW rank, NEW D \in Leading(S, k, rank)
    PROVE  /\ D \subseteq S
           /\ Cardinality(S) <= k => D = S
           /\ ~ (Cardinality(S) <= k) => Cardinality(D) = k
           /\ \A d \in D, e \in S \ D : rank[d] <= rank[e]
BY DEF Leading

LEMMA Listings ==
    /\ Visited \subseteq Note /\ Seen \subseteq Note /\ Found \subseteq Note
    /\ Known \subseteq Note /\ Twins \subseteq Note
    /\ \A index : Dangling(index) \subseteq Note \X Link
<1>1. Visited \subseteq Note /\ Seen \subseteq Note /\ Found \subseteq Note
  BY DEF Visited, Seen, Found
<1>2. Known \subseteq Note
  BY <1>1 DEF Known
<1> QED
  BY <1>1, <1>2 DEF Twins, Dangling

\* What the answers are.
LEMMA SearchAnswer ==
    ASSUME Search
    PROVE  /\ answer' \in Answer /\ UNCHANGED <<offset, got>>
           /\ call.kind = "regex" /\ answer'.found = Found
<1>1. answer' = [Blank EXCEPT !.found = Found] /\ UNCHANGED <<offset, got>> /\ call.kind = "regex"
  BY DEF Search, Answers
<1> QED
  BY <1>1, BlankIs, Listings, Nodes DEF Answer

LEMMA RankAnswer ==
    ASSUME Rank
    PROVE  /\ answer' \in Answer /\ UNCHANGED <<offset, got>> /\ call.kind = "bm25"
           /\ answer'.found \in Leading({n \in Seen : Score(n, saw[n]) > 0}, call.limit, ByScore)
<1>1. PICK D \in Leading({n \in Seen : Score(n, saw[n]) > 0}, call.limit, ByScore) :
         answer' = [Blank EXCEPT !.found = D] /\ UNCHANGED <<offset, got>>
  BY DEF Rank, Answers
<1>2. D \subseteq Node
  BY <1>1, LeadingIs, Listings, Nodes
<1>3. call.kind = "bm25"
  BY DEF Rank
<1> QED
  BY <1>1, <1>2, <1>3, BlankIs DEF Answer

LEMMA RecentAnswer ==
    ASSUME Recent
    PROVE  /\ answer' \in Answer /\ UNCHANGED <<offset, got>> /\ call.kind = "recent"
           /\ answer'.found \in Leading({n \in Seen : when[n] >= call.since}, call.limit, ByTime)
<1>1. PICK D \in Leading({n \in Seen : when[n] >= call.since}, call.limit, ByTime) :
         answer' = [Blank EXCEPT !.found = D] /\ UNCHANGED <<offset, got>>
  BY DEF Recent, Answers
<1>2. D \subseteq Node
  BY <1>1, LeadingIs, Listings, Nodes
<1>3. call.kind = "recent"
  BY DEF Recent
<1> QED
  BY <1>1, <1>2, <1>3, BlankIs DEF Answer

LEMMA BatchAnswer ==
    ASSUME ReadBatch
    PROVE  /\ answer' \in Answer /\ UNCHANGED <<offset, got>> /\ call.kind = "batch"
           /\ answer'.found = Seen
           /\ answer'.truncated <=> Cardinality(call.wanted) > Batch
<1> DEFINE more == Cardinality(call.wanted) > Batch
<1>1. /\ answer' = [Blank EXCEPT !.found = Seen, !.truncated = more]
      /\ UNCHANGED <<offset, got>> /\ call.kind = "batch"
  BY DEF ReadBatch, Answers
<1>2. more \in BOOLEAN /\ Seen \subseteq Node
  BY Listings, Nodes
<1> HIDE DEF more
<1>3. answer' \in Answer /\ answer'.found = Seen /\ answer'.truncated = more
  BY <1>1, <1>2, BlankIs DEF Answer
<1> QED
  BY <1>1, <1>3 DEF more

LEMMA CountAnswer ==
    ASSUME Count
    PROVE  /\ answer' \in Answer /\ UNCHANGED <<offset, got>> /\ call.kind \in {"tags", "stats"}
           /\ answer'.count = Cardinality({n \in Seen : saw[n] \in Tagged})
<1> DEFINE k == Cardinality({n \in Seen : saw[n] \in Tagged})
<1>1. /\ answer' = [Blank EXCEPT !.count = k]
      /\ UNCHANGED <<offset, got>> /\ call.kind \in {"tags", "stats"}
  BY DEF Count, Answers
<1>2. k \in 0..Cardinality(Note)
  <2>1. {n \in Seen : saw[n] \in Tagged} \subseteq Note /\ IsFiniteSet(Note)
    BY Listings, Nodes
  <2>2. k \in Nat /\ Cardinality(Note) \in Nat /\ k <= Cardinality(Note)
    BY <2>1, SmallerSet
  <2> QED
    BY <2>2
<1> HIDE DEF k
<1>3. answer' \in Answer /\ answer'.count = k
  BY <1>1, <1>2, BlankIs DEF Answer
<1> QED
  BY <1>1, <1>3 DEF k

\* What an audit reports of a class.
LEMMA SelectedIs ==
    ASSUME NEW S, NEW rank, NEW D \in Selected(S, rank)
    PROVE  D \subseteq S /\ (Cardinality(S) <= Most => D = S)
<1>1. PICK order : D \in Leading(S, Most, order)
  BY DEF Selected
<1> QED
  BY <1>1, LeadingIs

LEMMA SelectedTwinsAre ==
    ASSUME NEW T \in SelectedTwins
    PROVE  T \subseteq Twins
<1>1. CASE call.kind = "audit"
  BY <1>1, SelectedIs DEF SelectedTwins
<1>2. CASE call.kind # "audit"
  BY <1>2 DEF SelectedTwins
<1> QED
  BY <1>1, <1>2

\* The classes of an audit, and whether one is cut short.
Orphans(index)  == Known \ (HasTags \cup Incoming(index))
Untagged        == Known \ HasTags
TwinNames       == {Stem(n) : n \in Twins}
Pairs           == IF call.kind = "audit" THEN Twins ELSE TwinNames
OneCut(index)   == Cut(Orphans(index)) \/ Cut(Untagged) \/ Cut(Dangling(index)) \/ Cut(Pairs)

LEMMA ReportAnswer ==
    ASSUME Report
    PROVE  /\ answer' \in Answer /\ UNCHANGED <<offset, got>> /\ call.kind \in {"audit", "health"}
           /\ \E index \in Indexes :
                 /\ answer'.orphans \in Selected(Orphans(index), InOrder)
                 /\ answer'.untagged \in Selected(Untagged, InOrder)
                 /\ answer'.dangling \in Selected(Dangling(index), BySource)
                 /\ answer'.twins \in SelectedTwins
                 /\ answer'.truncated <=> OneCut(index)
<1>1. PICK index \in Indexes :
         \E O \in Selected(Orphans(index), InOrder), U \in Selected(Untagged, InOrder),
            D \in Selected(Dangling(index), BySource), T \in SelectedTwins :
            Answers([Blank EXCEPT !.orphans = O, !.untagged = U, !.dangling = D, !.twins = T,
                                  !.truncated = OneCut(index)])
  BY ZenonT(60) DEF Report, Orphans, Untagged, Pairs, TwinNames, OneCut
<1>2. PICK O \in Selected(Orphans(index), InOrder), U \in Selected(Untagged, InOrder),
           D \in Selected(Dangling(index), BySource), T \in SelectedTwins :
         Answers([Blank EXCEPT !.orphans = O, !.untagged = U, !.dangling = D, !.twins = T,
                               !.truncated = OneCut(index)])
  BY <1>1
<1>3. O \subseteq Note /\ U \subseteq Note /\ T \subseteq Note /\ D \subseteq Note \X Link
  BY SelectedIs, SelectedTwinsAre, Listings DEF Orphans, Untagged
<1>4. OneCut(index) \in BOOLEAN
  BY DEF OneCut, Cut
<1>5. /\ answer' = [Blank EXCEPT !.orphans = O, !.untagged = U, !.dangling = D, !.twins = T,
                                 !.truncated = OneCut(index)]
      /\ UNCHANGED <<offset, got>>
  BY <1>2 DEF Answers
<1>6. answer' \in Answer /\ answer'.orphans = O /\ answer'.untagged = U /\ answer'.dangling = D
      /\ answer'.twins = T /\ answer'.truncated = OneCut(index)
  BY <1>3, <1>4, <1>5, BlankIs DEF Answer
<1>7. call.kind \in {"audit", "health"}
  BY DEF Report
<1> QED
  BY <1>2, <1>5, <1>6, <1>7

LEMMA ReturnStep ==
    ASSUME Core, Return
    PROVE  Core'
<1>1. /\ phase = "walk" /\ phase' = "done" /\ Nothing /\ todo = {}
      /\ UNCHANGED <<note, mtime, barred, changes, call, todo, stable, ever, came, went>>
      /\ Search \/ Rank \/ Recent \/ ReadBatch \/ Count \/ Report
  BY DEF Return, ghost
<1>2. answer' \in Answer /\ UNCHANGED <<offset, got>>
  BY <1>1, SearchAnswer, RankAnswer, RecentAnswer, BatchAnswer, CountAnswer, ReportAnswer
<1>3. TypeOK /\ AtRest /\ Recorded
  BY DEF Core
<1>4. TypeOK'
  BY <1>1, <1>2, <1>3, WalkCleared DEF TypeOK
<1>5. AtRest' /\ Recorded'
  BY <1>1, <1>2, <1>3 DEF AtRest, Recorded
<1> QED
  BY <1>1, <1>4, <1>5, NoWalk DEF Core

LEMMA FailStep ==
    ASSUME Core, Fail
    PROVE  Core'
<1>1. /\ phase \in {"walk", "tags"} /\ phase' = "done" /\ Nothing /\ todo' = {}
      /\ answer' = [Blank EXCEPT !.error = TRUE]
      /\ UNCHANGED <<note, mtime, barred, changes, call, offset, got, stable, ever, came, went>>
  BY DEF Fail, ghost
<1>2. answer' \in Answer
  BY <1>1, BlankIs DEF Answer
<1>3. TypeOK /\ AtRest /\ Recorded
  BY DEF Core
<1>4. TypeOK'
  BY <1>1, <1>2, <1>3, WalkCleared DEF TypeOK
<1>5. AtRest' /\ Recorded'
  BY <1>1, <1>3 DEF AtRest, Recorded
<1> QED
  BY <1>1, <1>4, <1>5, NoWalk DEF Core

LEMMA PageAnswer ==
    ASSUME TypeOK, Page
    PROVE  answer' \in Answer /\ answer'.error = FALSE /\ (answer'.truncated <=> MoreToCome)
<1>1. answer' = [Blank EXCEPT !.found = OnPage, !.truncated = MoreToCome]
  BY DEF Page
<1>2. OnPage \subseteq Node /\ MoreToCome \in BOOLEAN
  BY Listings, Nodes DEF OnPage, Entries, MoreToCome
<1>3. Blank.error = FALSE
  BY DEF Blank
<1> QED
  BY <1>1, <1>2, <1>3, BlankIs DEF Answer

LEMMA PageStep ==
    ASSUME Core, Page
    PROVE  Core'
<1>1. /\ phase = "walk" /\ todo = {} /\ call.kind = "list" /\ phase' \in {"more", "done"} /\ Nothing
      /\ got' = [e \in Node |-> got[e] + IF e \in OnPage THEN 1 ELSE 0]
      /\ UNCHANGED <<note, mtime, barred, changes, call, todo, offset, stable, ever, came, went>>
  BY DEF Page, ghost
<1>2. TypeOK /\ AtRest /\ Recorded
  BY DEF Core
<1>3. answer' \in Answer
  BY <1>2, PageAnswer
<1>4. got' \in [Node -> Nat]
  BY <1>1, <1>2 DEF TypeOK
<1>5. TypeOK'
  BY <1>1, <1>2, <1>3, <1>4, WalkCleared DEF TypeOK
<1>6. AtRest' /\ Recorded'
  BY <1>1, <1>2 DEF AtRest, Recorded
<1> QED
  BY <1>1, <1>5, <1>6, NoWalk DEF Core

LEMMA CloseStep ==
    ASSUME Core, Close
    PROVE  Core'
<1>1. /\ phase \in {"done", "more"} /\ phase' = "idle" /\ call' = None /\ answer' = None
      /\ offset' = 0 /\ got' = [e \in Node |-> 0]
      /\ stable' = {} /\ ever' = {} /\ came' = 0 /\ went' = 0
      /\ UNCHANGED <<note, mtime, barred, changes, todo, saw, when, tags>>
  BY DEF Close, walk
<1>2. TypeOK
  BY DEF Core
<1>3. Visited' = {} /\ Seen' = {} /\ todo' = {}
  <2>1. Visited = {} /\ Visited' = Visited /\ todo = {}
    BY <1>1, <1>2 DEF TypeOK, Visited
  <2>2. Seen' \subseteq Visited'
    BY ScanConstants DEF Seen, Visited
  <2> QED
    BY <2>1, <2>2, <1>1
<1>4. got' \in [Node -> Nat]
  BY <1>1
<1>5. TypeOK'
  BY <1>1, <1>2, <1>3, <1>4 DEF TypeOK
<1>6. AtRest' /\ Recorded'
  BY <1>1 DEF AtRest, Recorded
<1> QED
  BY <1>1, <1>3, <1>5, <1>6, NoWalk DEF Core

\* The next page has a listing of its own.
LEMMA NextPageStep ==
    ASSUME Core, NextPage
    PROVE  Core'
<1>1. /\ phase = "more" /\ phase' = "walk" /\ offset' = offset + call.limit
      /\ todo' = Listing(Root) \ Dir /\ answer' = None
      /\ UNCHANGED <<note, mtime, barred, changes, call, saw, when, tags, got, stable, ever, came, went>>
  BY DEF NextPage, ghost
<1>2. TypeOK /\ AtRest /\ Recorded
  BY DEF Core
<1>3. call \in Call /\ call # None /\ call.kind = "list" /\ call.limit \in Nat
  BY <1>1, <1>2, CallFields DEF TypeOK, AtRest
<1>4. Visited' = {} /\ Seen' = {} /\ tags' = {}
  <2>1. Visited = {} /\ tags = {} /\ Visited' = Visited
    BY <1>1, <1>2 DEF TypeOK, Visited
  <2>2. Seen' \subseteq Visited'
    BY ScanConstants DEF Seen, Visited
  <2> QED
    BY <1>1, <2>1, <2>2
<1>5. todo' = {n \in Note : Parent[n] = Root /\ note[n] # None}
  BY <1>1, Nodes DEF Listing, Exists
<1>6. TypeOK'
  <2>1. todo' \subseteq Node /\ offset' \in Nat
    BY <1>1, <1>2, <1>3, <1>5, Nodes DEF TypeOK
  <2> QED
    BY <1>1, <1>2, <1>3, <1>4, <2>1 DEF TypeOK
<1>7. AtRest' /\ Recorded'
  BY <1>1, <1>2 DEF AtRest, Recorded
<1>8. Listed'
  <2>1. ASSUME NEW n \in todo' PROVE n \in Note /\ Parent[n] = Root /\ Was(n)'
    <3>1. n \in Note /\ Parent[n] = Root /\ note[n] \in Text
      BY <2>1, <1>2, <1>5 DEF TypeOK
    <3>2. <<n, note[n]>> \in ever'
      BY <2>1, <1>1, <1>2, <1>5 DEF Recorded
    <3> QED
      BY <3>1, <3>2 DEF Was
  <2> QED
    BY <1>1, <1>3, <1>4, <2>1 DEF Listed
<1>9. Fresh' /\ Ordered' /\ Tagging' /\ Enough'
  BY <1>1, <1>3, <1>4 DEF Fresh, Ordered, Tagging, Enough
<1>10. Covered'
  <2> SUFFICES ASSUME NEW n \in Note, n \in stable, Meant(n)' PROVE n \in todo'
    BY <1>1 DEF Covered
  <2>1. Parent[n] = Root /\ note[n] # None
    BY <1>1, <1>2, <1>3 DEF Meant, TypeOK
  <2> QED
    BY <1>5, <2>1
<1> QED
  BY <1>6, <1>7, <1>8, <1>9, <1>10 DEF Core

\* Meanwhile, what nobody touches is as it was and what there has been has been.
LEMMA BecomesStep ==
    ASSUME Core, NEW new \in [Note -> Text \cup {None}], NEW times \in [Note -> Time], Becomes(new, times)
    PROVE  Core'
<1>1. /\ phase \in {"walk", "tags", "more"} /\ changes < MaxChanges /\ changes' = changes + 1
      /\ note' = new /\ mtime' = times
      /\ stable' = stable \ {n \in Note : <<new[n], times[n]>> # <<note[n], mtime[n]>>}
      /\ ever' = ever \cup {<<n, new[n]>> : n \in {m \in Note : new[m] # None}}
      /\ UNCHANGED <<barred, call, phase, todo, saw, when, tags, offset, got, answer>>
  BY DEF Becomes, walk
<1>2. TypeOK /\ AtRest /\ Recorded /\ Listed /\ Fresh /\ Ordered /\ Covered /\ Enough /\ Tagging
  BY DEF Core
<1>3. Visited' = Visited /\ Seen' = Seen /\ Found' = Found /\ Full' = Full /\ \A m : Meant(m)' = Meant(m)
  BY <1>1, SameWalk
<1>4. /\ stable' \subseteq stable
      /\ \A n \in stable' \cap Note : note'[n] = note[n] /\ mtime'[n] = mtime[n]
  BY <1>1
<1>5. ever \subseteq ever' /\ \A n : Was(n) => Was(n)'
  BY <1>1 DEF Was
<1>6. came' \in Nat /\ went' \in Nat
  <2> DEFINE G == {n \in {m \in Note : new[m] = None /\ note[m] # None} : Parent[n] = Root}
             C == {n \in {m \in Note : new[m] # None /\ note[m] = None} : Parent[n] = Root}
  <2>1. went' = went + Cardinality(G) /\ came' = came + Cardinality(C)
    BY DEF Becomes
  <2>2. Cardinality(G) \in Nat /\ Cardinality(C) \in Nat
    BY SetsOfNodes, Nodes
  <2> QED
    BY <2>1, <2>2, <1>2 DEF TypeOK
<1>7. TypeOK'
  <2>1. changes' \in Time
    BY <1>1, <1>2, ScanConstants DEF TypeOK, Time
  <2>2. ever' \subseteq Note \X Text
    BY <1>1, <1>2 DEF TypeOK
  <2>3. stable' \subseteq Node \ barred' /\ \A n \in stable' \cap Note : note'[n] # None
    BY <1>1, <1>2, <1>4 DEF TypeOK
  <2>4. \A n \in Seen' : <<n, saw'[n]>> \in ever'
    BY <1>1, <1>2, <1>3, <1>5 DEF TypeOK
  <2> QED
    BY <1>1, <1>2, <1>3, <1>6, <2>1, <2>2, <2>3, <2>4 DEF TypeOK
<1>8. AtRest'
  BY <1>1, <1>2 DEF AtRest
<1>9. Recorded'
  BY <1>1 DEF Recorded
<1>10. Listed'
  BY <1>1, <1>2, <1>3, <1>5 DEF Listed, Walking
<1>11. Fresh'
  <2>1. \A n \in stable' \cap Note : View(n)' = View(n)
    BY <1>1, <1>4 DEF View, InReach
  <2> QED
    BY <1>1, <1>2, <1>3, <1>4, <2>1 DEF Fresh, Walking, Visited
<1>12. Ordered'
  <2>1. \A n : First(n)' = First(n)
    BY <1>1 DEF First
  <2> QED
    BY <1>1, <1>2, <1>3, <2>1 DEF Ordered, Walking
<1>13. Covered'
  BY <1>1, <1>2, <1>3, <1>4 DEF Covered, Walking
<1>14. Enough'
  BY <1>1, <1>2, <1>3 DEF Enough, Walking
<1>15. Tagging'
  BY <1>1, <1>2, <1>3, <1>4 DEF Tagging, Walking, Seen
<1> QED
  BY <1>7, <1>8, <1>9, <1>10, <1>11, <1>12, <1>13, <1>14, <1>15 DEF Core

LEMMA MeanwhileStep ==
    ASSUME TypeOK, Write \/ Delete \/ Move
    PROVE  \E new \in [Note -> Text \cup {None}], times \in [Note -> Time] : Becomes(new, times)
<1>1. /\ note \in [Note -> Text \cup {None}] /\ mtime \in [Note -> Time] /\ changes \in Time
      /\ 0 \in Time /\ MaxChanges \in Nat
  BY ScanConstants DEF TypeOK, Time
<1>2. ASSUME NEW new, NEW times, Becomes(new, times)
      PROVE  changes + 1 \in Time
  BY <1>1, <1>2 DEF Becomes, Time
<1>3. CASE Write
  <2>1. PICK n \in Note, t \in Text : Becomes([note EXCEPT ![n] = t], [mtime EXCEPT ![n] = changes + 1])
    BY <1>3 DEF Write
  <2>2. /\ [note EXCEPT ![n] = t] \in [Note -> Text \cup {None}]
        /\ [mtime EXCEPT ![n] = changes + 1] \in [Note -> Time]
    BY <1>1, <1>2, <2>1
  <2> QED
    BY <2>1, <2>2
<1>4. CASE Delete
  <2>1. PICK n \in Note : Becomes([note EXCEPT ![n] = None], [mtime EXCEPT ![n] = 0])
    BY <1>4 DEF Delete
  <2>2. /\ [note EXCEPT ![n] = None] \in [Note -> Text \cup {None}]
        /\ [mtime EXCEPT ![n] = 0] \in [Note -> Time]
    BY <1>1
  <2> QED
    BY <2>1, <2>2
<1>5. CASE Move
  <2>1. PICK n \in Note, m \in Note : Becomes([note EXCEPT ![n] = None, ![m] = note[n]],
                                           [mtime EXCEPT ![n] = 0, ![m] = mtime[n]])
    BY <1>5 DEF Move
  <2>2. /\ [note EXCEPT ![n] = None, ![m] = note[n]] \in [Note -> Text \cup {None}]
        /\ [mtime EXCEPT ![n] = 0, ![m] = mtime[n]] \in [Note -> Time]
    BY <1>1
  <2> QED
    BY <2>1, <2>2
<1> QED
  BY <1>3, <1>4, <1>5

\* What goes out of reach is no longer among what nobody touches.
LEMMA BarStep ==
    ASSUME Core, Bar
    PROVE  Core'
<1>1. PICK out \in Faults : barred' = out /\ stable' = stable \ out
  BY DEF Bar
<1>2. /\ phase \in {"walk", "tags", "more"} /\ changes < MaxChanges /\ changes' = changes + 1
      /\ UNCHANGED <<note, mtime, call, phase, todo, saw, when, tags, offset, got, answer, ever, came, went>>
  BY DEF Bar, walk
<1>3. TypeOK /\ AtRest /\ Recorded /\ Listed /\ Fresh /\ Ordered /\ Covered /\ Enough /\ Tagging
  BY DEF Core
<1>4. Visited' = Visited /\ Seen' = Seen /\ Found' = Found /\ Full' = Full /\ \A m : Meant(m)' = Meant(m)
  BY <1>2, SameWalk
<1>5. stable' \subseteq stable
  BY <1>1
<1>6. TypeOK'
  <2>1. changes' \in Time
    BY <1>2, <1>3, ScanConstants DEF TypeOK, Time
  <2>2. stable' \subseteq Node \ barred' /\ barred' \in Faults /\ \A n \in stable' \cap Note : note[n] # None
    BY <1>1, <1>3, <1>5 DEF TypeOK
  <2> QED
    BY <1>2, <1>3, <1>4, <2>1, <2>2 DEF TypeOK
<1>7. AtRest' /\ Recorded'
  BY <1>2, <1>3 DEF AtRest, Recorded
<1>8. Listed'
  <2>1. \A n : Was(n)' = Was(n)
    BY <1>2 DEF Was
  <2> QED
    BY <1>2, <1>3, <1>4, <2>1 DEF Listed, Walking
<1>9. Fresh'
  <2> SUFFICES ASSUME NEW n \in stable', n \in Visited, Walking
               PROVE  saw[n] = View(n)' /\ (call.kind = "recent" => when[n] = mtime[n])
    BY <1>2, <1>4 DEF Fresh, Walking
  <2>1. InReach(call.kind, n)
    BY <1>3, <1>5, ReachIs
  <2>2. InReach(call.kind, n)'
    <3>1. n \in Node /\ n \notin barred' /\ barred' \in Faults
      BY <1>6 DEF TypeOK
    <3>2. Parent[n] \notin barred'
      BY <3>1, ScanConstants
    <3> QED
      BY <3>1, <3>2 DEF InReach
  <2>3. View(n)' = View(n)
    BY <1>2, <2>1, <2>2 DEF View
  <2> QED
    BY <1>3, <1>5, <2>3 DEF Fresh
<1>10. Ordered'
  <2>1. \A n : First(n)' = First(n)
    BY <1>2 DEF First
  <2> QED
    BY <1>2, <1>3, <1>4, <2>1 DEF Ordered, Walking
<1>11. Covered' /\ Enough' /\ Tagging'
  BY <1>2, <1>3, <1>4, <1>5 DEF Covered, Enough, Tagging, Walking, Seen
<1> QED
  BY <1>6, <1>7, <1>8, <1>9, <1>10, <1>11 DEF Core

LEMMA CoreStep ==
    ASSUME Core, [Next]_vars
    PROVE  Core'
<1>1. CASE Next
  <2>1. CASE Start \/ Enter \/ Visit \/ ReadTags \/ SkipAll
    BY <2>1, StartStep, EnterStep, VisitStep, ReadTagsStep, SkipAllStep
  <2>2. CASE TooLong \/ Canceled
    BY <2>2, FailStep DEF TooLong, Canceled
  <2>3. CASE Return \/ Page \/ NextPage \/ Close
    BY <2>3, ReturnStep, PageStep, NextPageStep, CloseStep
  <2>4. CASE Write \/ Delete \/ Move
    <3>1. TypeOK
      BY DEF Core
    <3> QED
      BY <2>4, <3>1, MeanwhileStep, BecomesStep
  <2>5. CASE Bar
    BY <2>5, BarStep
  <2> QED
    BY <1>1, <2>1, <2>2, <2>3, <2>4, <2>5 DEF Next
<1>2. CASE UNCHANGED vars
  <2>1. UNCHANGED <<note, mtime, barred, changes, call, phase, todo, saw, when, tags, offset, got, answer, stable, ever, came, went>>
    BY <1>2 DEF vars, walk, ghost
  <2>2. Visited' = Visited /\ Seen' = Seen /\ Found' = Found /\ Full' = Full /\ \A m : Meant(m)' = Meant(m)
    BY <2>1, SameWalk
  <2>3. TypeOK /\ AtRest /\ Recorded /\ Listed /\ Fresh /\ Ordered /\ Covered /\ Enough /\ Tagging
    BY DEF Core
  <2>4. TypeOK' /\ AtRest' /\ Recorded'
    BY <2>1, <2>2, <2>3 DEF TypeOK, AtRest, Recorded
  <2>5. (\A n : Was(n)' = Was(n)) /\ (\A n : First(n)' = First(n)) /\ (\A n : View(n)' = View(n))
    BY <2>1 DEF Was, First, View, InReach
  <2>6. Listed' /\ Fresh' /\ Ordered'
    BY <2>1, <2>2, <2>3, <2>5 DEF Listed, Fresh, Ordered, Walking, Visited
  <2>7. Covered' /\ Enough' /\ Tagging'
    BY <2>1, <2>2, <2>3 DEF Covered, Enough, Tagging, Walking
  <2> QED
    BY <2>4, <2>6, <2>7 DEF Core
<1> QED
  BY <1>1, <1>2

\* What a callback reads was at that path meanwhile, an untouched path is as it was, and
\* the locals of a call are of their types, at rest when there is none: in any tree.
THEOREM TypeCorrect == Spec => []TypeOK
<1>1. Init => Core
  BY InitCore
<1>2. Core /\ [Next]_vars => Core'
  BY CoreStep
<1>3. Core => TypeOK
  BY DEF Core
<1> QED
  BY <1>1, <1>2, <1>3, PTL DEF Spec

------------------------------------------------------------------------------
\* The answers

\* A call ends once, with an answer or with an error, and its answer stays till it is
\* closed.
LEMMA HowItEnds ==
    ASSUME Core, [Next]_vars, answer' # None, call'.kind # "list"
    PROVE  UNCHANGED vars \/ answer'.error \/ Return
<1>1. Core' /\ AtRest' /\ AtRest
  BY CoreStep DEF Core
<1>2. phase' = "done"
  BY <1>1 DEF AtRest
<1>3. CASE Start \/ Enter \/ Visit \/ ReadTags \/ SkipAll \/ NextPage \/ Close
  BY <1>2, <1>3 DEF Start, Enter, Visit, ReadTags, SkipAll, NextPage, Close
<1>4. CASE TooLong \/ Canceled
  <2>1. answer' = [Blank EXCEPT !.error = TRUE]
    BY <1>4 DEF TooLong, Canceled, Fail
  <2> QED
    BY <2>1, BlankIs DEF Answer
<1>5. CASE Page
  BY <1>5 DEF Page
<1>6. CASE Write \/ Delete \/ Move
  <2>1. PICK new, times : Becomes(new, times)
    BY <1>6 DEF Write, Delete, Move
  <2> QED
    BY <1>2, <2>1 DEF Becomes
<1>7. CASE Bar
  BY <1>2, <1>7 DEF Bar
<1> QED
  BY <1>3, <1>4, <1>5, <1>6, <1>7 DEF Next

\* At the end of a walk every note that nobody touched was visited, or there was enough.
LEMMA Reached ==
    ASSUME Core, phase = "walk", todo = {}, NEW n \in Note, n \in stable, Meant(n)
    PROVE  \/ /\ n \in Visited /\ saw[n] = View(n) /\ (call.kind = "recent" => when[n] = mtime[n])
              /\ Stays(n) => n \in Seen /\ saw[n] = note[n]
           \/ Full /\ \A v \in Visited : v < n
<1>1. n \in Visited \/ (Full /\ \A v \in Visited : v < n)
  BY DEF Core, Covered, Walking
<1>2. ASSUME n \in Visited
      PROVE  saw[n] = View(n) /\ (call.kind = "recent" => when[n] = mtime[n])
  BY <1>2 DEF Core, Fresh, Walking
<1>3. ASSUME n \in Visited, Stays(n)
      PROVE  n \in Seen /\ saw[n] = note[n]
  <2>1. InReach(call.kind, n) /\ Readable(call.kind, note[n])
    BY <1>3, ReachIs DEF Core, Stays
  <2> QED
    BY <1>2, <1>3, <2>1, ViewIs DEF Core, TypeOK, Seen
<1> QED
  BY <1>1, <1>2, <1>3

\* Under Cap there never is.
LEMMA ReachedUnderCap ==
    ASSUME Core, phase = "walk", todo = {}, NEW n \in Note, n \in stable, Meant(n),
           call.kind # "regex", call.kind \in {"bm25", "audit", "tags"} => UnderCap
    PROVE  /\ n \in Visited /\ saw[n] = View(n) /\ (call.kind = "recent" => when[n] = mtime[n])
           /\ Stays(n) => n \in Seen /\ saw[n] = note[n]
<1>1. ASSUME n \notin Visited PROVE FALSE
  <2>1. Full
    BY <1>1, Reached
  <2>2. call.kind \in {"bm25", "audit", "tags"} /\ (Cardinality(Seen) >= Cap \/ Cardinality(Visited) >= Cap)
    BY <2>1 DEF Full
  <2> DEFINE W == {m \in Note : Was(m)}
  <2>3. Visited \subseteq W /\ n \in W
    <3>1. Visited \subseteq W
      BY <2>2, Listings DEF Core, Listed, Walking
    <3>2. note[n] \in Text /\ <<n, note[n]>> \in ever
      BY DEF Core, TypeOK, Recorded
    <3> QED
      BY <3>1, <3>2 DEF Was
  <2>4. IsFiniteSet(W) /\ Cardinality(W) <= Cap
    <3>1. Cardinality(W) <= Cap
      BY <2>2 DEF UnderCap
    <3> QED
      BY <3>1, SetsOfNodes, Nodes
  <2> HIDE DEF W
  <2>5. /\ Cardinality(Visited) \in Nat /\ Cardinality(W) \in Nat
        /\ Cardinality(Visited) < Cardinality(W)
    BY <1>1, <2>3, <2>4, SmallerSet
  <2>6. Cardinality(Seen) \in Nat /\ Cardinality(Seen) <= Cardinality(Visited)
    <3>1. IsFiniteSet(Visited)
      BY <2>3, <2>4, SmallerSet
    <3> QED
      BY <3>1, SeenVisited, SmallerSet
  <2>7. Cap \in Nat
    BY ScanConstants
  <2> QED
    BY <2>2, <2>4, <2>5, <2>6, <2>7
<1>2. ~ (n < n)
  BY Nodes
<1> QED
  BY <1>1, <1>2, Reached

LEMMA Wider ==
    ASSUME NEW a \in Nat, NEW b \in Nat, NEW w \in Nat, a < b
    PROVE  a * w + w <= b * w
<1>1. PICK k \in Nat : b = a + 1 + k
  <2>1. b - a - 1 \in Nat /\ b = a + 1 + (b - a - 1)
    OBVIOUS
  <2> QED
    BY <2>1
<1>2. b * w = a * w + w + k * w
  BY <1>1
<1>3. k * w \in Nat /\ a * w \in Nat
  OBVIOUS
<1> QED
  BY <1>2, <1>3

LEMMA ScoreIsNat ==
    ASSUME NEW n, NEW t
    PROVE  Score(n, t) \in Nat
<1>1. t \in Text => Hits[t] \in Nat
  BY ScanConstants
<1> QED
  BY <1>1 DEF Score

\* Nodes are fewer than what one more hit weighs.
LEMMA HigherScore ==
    ASSUME NEW m \in Note, NEW n \in Note, ByScore[m] <= ByScore[n]
    PROVE  Score(m, saw[m]) >= Score(n, saw[n])
<1>1. /\ ByScore[m] = m - Score(m, saw[m]) * (Size + 1)
      /\ ByScore[n] = n - Score(n, saw[n]) * (Size + 1)
  BY Nodes DEF ByScore, Size
<1>2. PICK a \in Nat, b \in Nat : a = Score(m, saw[m]) /\ b = Score(n, saw[n])
  BY ScoreIsNat
<1>3. PICK w \in Nat : w = Size + 1
  BY Nodes
<1>4. m \in Nat /\ n \in Nat /\ 1 <= m /\ n < w
  BY <1>3, Nodes
<1>5. m - a * w <= n - b * w
  BY <1>1, <1>2, <1>3
<1>6. ASSUME a < b PROVE FALSE
  <2>1. a * w + w <= b * w
    BY <1>6, Wider
  <2>2. a * w \in Nat /\ b * w \in Nat
    OBVIOUS
  <2> QED
    BY <1>4, <1>5, <2>1, <2>2
<1> QED
  BY <1>2, <1>6

\* What a call in its answer says of the vault, where the walk and the vault at the end
\* of the walk are those of the state before.
SameVault == UNCHANGED <<note, mtime, barred, call, stable, ever>>

LEMMA SameVaultIs ==
    ASSUME SameVault
    PROVE  /\ \A n : View(n)' = View(n) /\ (Stays(n)' <=> Stays(n)) /\ (Was(n)' <=> Was(n))
           /\ UnderCap' <=> UnderCap
<1>1. \A n : View(n)' = View(n) /\ (Stays(n)' <=> Stays(n)) /\ (Was(n)' <=> Was(n))
  BY DEF SameVault, View, InReach, Stays, Was
<1>2. {n \in Note : Was(n)'} = {n \in Note : Was(n)}
  BY <1>1
<1>3. UnderCap' <=> UnderCap
  BY <1>2 DEF UnderCap
<1> QED
  BY <1>1, <1>3

RegexIsRight ==
    Done({"regex"}) =>
        /\ \A n \in stable \cap Note : Matches(call, n, View(n)) =>
              \/ n \in answer.found
              \/ Cardinality(answer.found) = call.limit /\ \A m \in answer.found : m < n
        /\ \A n \in answer.found : n \in Named \/ \E t \in Text : <<n, t>> \in ever /\ Hits[t] > 0

RankIsRight ==
    Done({"bm25"}) =>
        /\ UnderCap => \A n \in call.wanted : Stays(n) /\ Score(n, note[n]) > 0 =>
              \/ n \in answer.found
              \/ /\ Cardinality(answer.found) = call.limit
                 /\ \A m \in answer.found \cap stable : Score(m, note[m]) >= Score(n, note[n])
        /\ \A n \in answer.found : \E t \in Text : <<n, t>> \in ever /\ Score(n, t) > 0

RecentIsRight ==
    Done({"recent"}) =>
        \A n \in Note : Stays(n) /\ mtime[n] >= call.since =>
            \/ n \in answer.found
            \/ /\ Cardinality(answer.found) = call.limit
               /\ \A m \in answer.found \cap stable : mtime[m] >= mtime[n]

BatchIsRight ==
    Done({"batch"}) =>
        \A n \in call.wanted : Stays(n) => n \in answer.found \/ (answer.truncated /\ n \notin Asked(call))

LEMMA FoundMatches ==
    ASSUME Core, NEW n \in Seen
    PROVE  saw[n] \in Text /\ <<n, saw[n]>> \in ever
BY DEF Core, TypeOK, Seen

LEMMA RegexAtTheEnd ==
    ASSUME Core, Return
    PROVE  RegexIsRight'
<1> SUFFICES ASSUME answer' # None, call.kind = "regex"
             PROVE  /\ \A n \in stable \cap Note : Matches(call, n, View(n)) =>
                          \/ n \in answer'.found
                          \/ Cardinality(answer'.found) = call.limit /\ \A m \in answer'.found : m < n
                    /\ \A n \in answer'.found : n \in Named \/ \E t \in Text : <<n, t>> \in ever /\ Hits[t] > 0
  <2>1. SameVault
    BY DEF Return, SameVault, ghost
  <2> QED
    BY <2>1, SameVaultIs DEF RegexIsRight, Done, SameVault
<1>1. phase = "walk" /\ todo = {} /\ answer'.found = Found
  <2>1. Search
    BY DEF Return, Rank, Recent, ReadBatch, Count, Report
  <2> QED
    BY <2>1, SearchAnswer DEF Return
<1>2. call \in Call /\ call # None
  BY <1>1 DEF Core, TypeOK
<1>3. ASSUME NEW n \in Note, n \in stable, Matches(call, n, View(n)), n \notin Found
      PROVE  Cardinality(Found) = call.limit /\ \A m \in Found : m < n
  <2>1. Meant(n)
    <3>1. call.wanted = Note
      BY <1>1 DEF Core, AtRest, Plain
    <3> QED
      BY <3>1 DEF Meant
  <2>2. Full /\ \A v \in Visited : v < n
    BY <1>1, <1>3, <2>1, Reached DEF Found
  <2>3. Cardinality(Found) >= call.limit /\ Cardinality(Found) <= call.limit
    BY <1>1, <2>2 DEF Full, Core, Enough, Walking
  <2>4. Cardinality(Found) \in Nat /\ call.limit \in Nat
    BY <1>2, Listings, Nodes, SetsOfNodes, CallFields
  <2> QED
    BY <2>2, <2>3, <2>4 DEF Found
<1>4. ASSUME NEW n \in Found, n \notin Named
      PROVE  \E t \in Text : <<n, t>> \in ever /\ Hits[t] > 0
  <2>1. saw[n] \in Text /\ Hits[saw[n]] > 0 /\ n \in Note
    BY <1>4, Listings DEF Found, Matches
  <2>2. n \in Seen
    BY <2>1 DEF Seen
  <2> QED
    BY <2>1, <2>2, FoundMatches
<1> QED
  BY <1>1, <1>3, <1>4

LEMMA RankAtTheEnd ==
    ASSUME Core, Return
    PROVE  RankIsRight'
<1> SUFFICES ASSUME answer' # None, call.kind = "bm25"
             PROVE  /\ UnderCap => \A n \in call.wanted : Stays(n) /\ Score(n, note[n]) > 0 =>
                          \/ n \in answer'.found
                          \/ /\ Cardinality(answer'.found) = call.limit
                             /\ \A m \in answer'.found \cap stable : Score(m, note[m]) >= Score(n, note[n])
                    /\ \A n \in answer'.found : \E t \in Text : <<n, t>> \in ever /\ Score(n, t) > 0
  <2>1. SameVault
    BY DEF Return, SameVault, ghost
  <2> QED
    BY <2>1, SameVaultIs DEF RankIsRight, Done, SameVault
<1> DEFINE S == {n \in Seen : Score(n, saw[n]) > 0}
<1>1. phase = "walk" /\ todo = {} /\ answer'.found \in Leading(S, call.limit, ByScore)
  <2>1. Rank
    BY DEF Return, Search, Recent, ReadBatch, Count, Report
  <2> QED
    BY <2>1, RankAnswer DEF Return
<1>2. call \in Call /\ call # None /\ call.wanted \subseteq Note
  BY <1>1, CallFields DEF Core, TypeOK
<1>3. /\ answer'.found \subseteq S
      /\ Cardinality(S) <= call.limit => answer'.found = S
      /\ ~ (Cardinality(S) <= call.limit) => Cardinality(answer'.found) = call.limit
      /\ \A d \in answer'.found, e \in S \ answer'.found : ByScore[d] <= ByScore[e]
  BY <1>1, LeadingIs
<1>4. ASSUME UnderCap, NEW n \in call.wanted, Stays(n), Score(n, note[n]) > 0, n \notin answer'.found
      PROVE  /\ Cardinality(answer'.found) = call.limit
             /\ \A m \in answer'.found \cap stable : Score(m, note[m]) >= Score(n, note[n])
  <2>1. n \in Note /\ n \in stable /\ Meant(n)
    BY <1>2, <1>4 DEF Stays, Meant
  <2>2. n \in Seen /\ saw[n] = note[n]
    BY <1>1, <1>4, <2>1, ReachedUnderCap
  <2>3. n \in S
    BY <1>4, <2>2
  <2>4. Cardinality(answer'.found) = call.limit
    BY <1>3, <1>4, <2>3
  <2>5. ASSUME NEW m \in answer'.found \cap stable
        PROVE  Score(m, note[m]) >= Score(n, note[n])
    <3>1. m \in Seen /\ m \in Note /\ m \in Visited
      BY <1>3, SeenVisited
    <3>2. saw[m] = View(m) /\ saw[m] \in Text
      BY <1>1, <3>1 DEF Core, Fresh, Walking, Seen
    <3>3. saw[m] = note[m]
      BY <3>1, <3>2, ViewIs DEF Core, TypeOK
    <3>4. ByScore[m] <= ByScore[n]
      BY <1>3, <1>4, <2>3
    <3> QED
      BY <2>1, <2>2, <3>1, <3>3, <3>4, HigherScore
  <2> QED
    BY <2>4, <2>5
<1>5. ASSUME NEW n \in answer'.found
      PROVE  \E t \in Text : <<n, t>> \in ever /\ Score(n, t) > 0
  <2>1. n \in Seen /\ Score(n, saw[n]) > 0
    BY <1>3
  <2> QED
    BY <2>1, FoundMatches
<1> QED
  BY <1>4, <1>5

LEMMA RecentAtTheEnd ==
    ASSUME Core, Return
    PROVE  RecentIsRight'
<1> SUFFICES ASSUME answer' # None, call.kind = "recent"
             PROVE  \A n \in Note : Stays(n) /\ mtime[n] >= call.since =>
                       \/ n \in answer'.found
                       \/ /\ Cardinality(answer'.found) = call.limit
                          /\ \A m \in answer'.found \cap stable : mtime[m] >= mtime[n]
  <2>1. SameVault
    BY DEF Return, SameVault, ghost
  <2> QED
    BY <2>1, SameVaultIs DEF RecentIsRight, Done, SameVault
<1> DEFINE S == {n \in Seen : when[n] >= call.since}
<1>1. phase = "walk" /\ todo = {} /\ answer'.found \in Leading(S, call.limit, ByTime)
  <2>1. Recent
    BY DEF Return, Search, Rank, ReadBatch, Count, Report
  <2> QED
    BY <2>1, RecentAnswer DEF Return
<1>2. call.wanted = Note
  BY <1>1 DEF Core, AtRest, Plain
<1>3. /\ answer'.found \subseteq S
      /\ Cardinality(S) <= call.limit => answer'.found = S
      /\ ~ (Cardinality(S) <= call.limit) => Cardinality(answer'.found) = call.limit
      /\ \A d \in answer'.found, e \in S \ answer'.found : ByTime[d] <= ByTime[e]
  BY <1>1, LeadingIs
<1>4. ASSUME NEW n \in Note, Stays(n), mtime[n] >= call.since, n \notin answer'.found
      PROVE  /\ Cardinality(answer'.found) = call.limit
             /\ \A m \in answer'.found \cap stable : mtime[m] >= mtime[n]
  <2>1. n \in stable /\ Meant(n)
    BY <1>2, <1>4 DEF Stays, Meant
  <2>2. n \in Seen /\ when[n] = mtime[n]
    BY <1>1, <1>4, <2>1, ReachedUnderCap
  <2>3. n \in S
    BY <1>4, <2>2
  <2>4. ASSUME NEW m \in answer'.found \cap stable PROVE mtime[m] >= mtime[n]
    <3>1. m \in Seen /\ m \in Note /\ m \in Visited
      BY <1>3, SeenVisited
    <3>2. when[m] = mtime[m]
      BY <1>1, <3>1 DEF Core, Fresh, Walking
    <3>3. ByTime[m] <= ByTime[n]
      BY <1>3, <1>4, <2>3
    <3>4. ByTime[m] = -mtime[m] /\ ByTime[n] = -mtime[n] /\ mtime[m] \in Int /\ mtime[n] \in Int
      BY <2>2, <3>1, <3>2, Nodes, ScanConstants DEF ByTime, Core, TypeOK, Time
    <3> QED
      BY <3>3, <3>4
  <2> QED
    BY <1>3, <1>4, <2>3, <2>4
<1> QED
  BY <1>4

\* The first paths of a list are at most Batch, and with more the answer says so.
LEMMA BatchAtTheEnd ==
    ASSUME Core, Return
    PROVE  BatchIsRight'
<1> SUFFICES ASSUME answer' # None, call.kind = "batch", NEW n \in call.wanted, Stays(n)
             PROVE  n \in answer'.found \/ (answer'.truncated /\ n \notin Asked(call))
  <2>1. SameVault
    BY DEF Return, SameVault, ghost
  <2> QED
    BY <2>1, SameVaultIs DEF BatchIsRight, Done, SameVault
<1>1. /\ phase = "walk" /\ todo = {} /\ answer'.found = Seen
      /\ answer'.truncated <=> Cardinality(call.wanted) > Batch
  <2>1. ReadBatch
    BY DEF Return, Search, Rank, Recent, Count, Report
  <2> QED
    BY <2>1, BatchAnswer DEF Return
<1>2. call \in Call /\ call.wanted \subseteq Note /\ n \in Note
  BY <1>1, CallFields DEF Core, TypeOK
<1>3. CASE n \in Asked(call)
  <2>1. Meant(n) /\ n \in stable
    BY <1>3 DEF Meant, Stays
  <2> QED
    BY <1>1, <1>2, <2>1, ReachedUnderCap
<1>4. CASE n \notin Asked(call)
  <2> DEFINE P == {m \in call.wanted : m < n}
  <2>1. ~ (Cardinality(P) < Batch)
    BY <1>4 DEF Asked, Before
  <2>2. n \in call.wanted \ P /\ P \subseteq call.wanted
    BY <1>2, Nodes
  <2>3. IsFiniteSet(call.wanted)
    BY <1>2, SetsOfNodes, Nodes
  <2>4. Cardinality(P) < Cardinality(call.wanted) /\ Cardinality(P) \in Nat /\ Cardinality(call.wanted) \in Nat
    BY <2>2, <2>3, SmallerSet
  <2>5. Batch \in Nat
    BY ScanConstants
  <2> QED
    BY <1>1, <1>4, <2>1, <2>4, <2>5
<1> QED
  BY <1>3, <1>4

LEMMA CountAtTheEnd ==
    ASSUME Core, Return
    PROVE  CountIsBounded'
<1> DEFINE All  == {n \in Note : \E t \in Tagged : <<n, t>> \in ever}
           Keep == {n \in Note : Stays(n) /\ note[n] \in Tagged}
           T    == {n \in Seen : saw[n] \in Tagged}
<1> SUFFICES ASSUME answer' # None, call.kind \in {"tags", "stats"}
             PROVE  /\ answer'.count <= Cardinality(All)
                    /\ call.kind = "stats" \/ UnderCap => Cardinality(Keep) <= answer'.count
  <2>1. SameVault
    BY DEF Return, SameVault, ghost
  <2>2. {n \in Note : Stays(n)' /\ note'[n] \in Tagged} = Keep
    BY <2>1, SameVaultIs DEF SameVault
  <2>3. {n \in Note : \E t \in Tagged : <<n, t>> \in ever'} = All
    BY <2>1 DEF SameVault
  <2> HIDE DEF Keep, All
  <2> QED
    BY <2>1, <2>2, <2>3, SameVaultIs DEF CountIsBounded, Done, SameVault
<1>1. phase = "walk" /\ todo = {} /\ answer'.count = Cardinality(T)
  <2>1. Count
    BY DEF Return, Search, Rank, Recent, ReadBatch, Report
  <2> QED
    BY <2>1, CountAnswer DEF Return
<1>2. call.wanted = Note
  BY <1>1 DEF Core, AtRest, Plain
<1>3. T \subseteq All
  BY FoundMatches, Listings
<1>4. ASSUME call.kind = "stats" \/ UnderCap PROVE Keep \subseteq T
  <2>1. ASSUME NEW n \in Note, Stays(n), note[n] \in Tagged PROVE n \in Seen /\ saw[n] = note[n]
    <3>1. n \in stable /\ Meant(n)
      BY <1>2, <2>1 DEF Stays, Meant
    <3> QED
      BY <1>1, <1>4, <2>1, <3>1, ReachedUnderCap
  <2> QED
    BY <2>1
<1>5. IsFiniteSet(All) /\ IsFiniteSet(T)
  BY SetsOfNodes, Nodes, Listings
<1> HIDE DEF All, Keep, T
<1>6. Cardinality(T) <= Cardinality(All)
  BY <1>3, <1>5, SmallerSet
<1>7. ASSUME call.kind = "stats" \/ UnderCap PROVE Cardinality(Keep) <= Cardinality(T)
  BY <1>4, <1>5, <1>7, SmallerSet
<1> QED
  BY <1>1, <1>6, <1>7

LEMMA SearchIs ==
    SearchFindsWhatStays <=> RegexIsRight /\ RankIsRight /\ RecentIsRight /\ BatchIsRight /\ CountIsBounded
BY DEF SearchFindsWhatStays, RegexIsRight, RankIsRight, RecentIsRight, BatchIsRight

LEMMA SearchStep ==
    ASSUME Core, SearchFindsWhatStays, [Next]_vars
    PROVE  SearchFindsWhatStays'
<1>1. CASE answer' = None \/ call'.kind = "list" \/ answer'.error
  BY <1>1 DEF SearchFindsWhatStays, CountIsBounded, Done
<1>2. CASE UNCHANGED vars
  <2>1. SameVault /\ answer' = answer
    BY <1>2 DEF vars, SameVault, ghost
  <2>2. CountIsBounded' <=> CountIsBounded
    BY <1>2 DEF vars, ghost, CountIsBounded, Done, Stays, UnderCap, Was
  <2>3. RegexIsRight' <=> RegexIsRight
    BY <2>1, SameVaultIs DEF RegexIsRight, Done, SameVault
  <2>4. RankIsRight' <=> RankIsRight
    BY <2>1, SameVaultIs DEF RankIsRight, Done, SameVault
  <2>5. (RecentIsRight' <=> RecentIsRight) /\ (BatchIsRight' <=> BatchIsRight)
    BY <2>1, SameVaultIs DEF RecentIsRight, BatchIsRight, Done, SameVault
  <2>6. SearchFindsWhatStays' <=> (RegexIsRight' /\ RankIsRight' /\ RecentIsRight' /\ BatchIsRight' /\ CountIsBounded')
    BY DEF SearchFindsWhatStays, RegexIsRight, RankIsRight, RecentIsRight, BatchIsRight
  <2> QED
    BY <2>2, <2>3, <2>4, <2>5, <2>6, SearchIs
<1>3. CASE Return
  <2>1. SearchFindsWhatStays' <=> (RegexIsRight' /\ RankIsRight' /\ RecentIsRight' /\ BatchIsRight' /\ CountIsBounded')
    BY DEF SearchFindsWhatStays, RegexIsRight, RankIsRight, RecentIsRight, BatchIsRight
  <2> QED
    BY <1>3, <2>1, RegexAtTheEnd, RankAtTheEnd, RecentAtTheEnd, BatchAtTheEnd, CountAtTheEnd
<1> QED
  BY <1>1, <1>2, <1>3, HowItEnds

\* Every search finds what matches and nobody touches, for any tree, any texts, any
\* limits and any number of changes meanwhile.
THEOREM SearchesFindWhatStays == Spec => []SearchFindsWhatStays
<1>1. Init => Core /\ SearchFindsWhatStays
  <2>1. Init => SearchFindsWhatStays
    BY DEF Init, SearchFindsWhatStays, CountIsBounded, Done
  <2> QED
    BY <2>1, InitCore
<1>2. Core /\ SearchFindsWhatStays /\ [Next]_vars => Core' /\ SearchFindsWhatStays'
  BY CoreStep, SearchStep
<1> QED
  BY <1>1, <1>2, PTL DEF Spec

------------------------------------------------------------------------------
\* The audits

\* What is true of an answer that reports on the vault.
AuditHolds(a) ==
    LET NoTags(n) == note[n] \notin Tagged
        Other(m, n) == call.kind = "audit" => m # n
    IN  /\ \A n \in a.untagged : Stays(n) => NoTags(n)
        /\ \A n \in a.orphans : Stays(n) /\ Alone(n) =>
              /\ NoTags(n)
              /\ \A m \in Note : Stays(m) /\ Other(m, n) =>
                    \A link \in Links[note[m]] : ~ Names(link, n)
        /\ \A p \in a.dangling : Stays(p[1]) =>
              /\ p[2] \in Links[note[p[1]]]
              /\ \A n \in Note : Stays(n) => ~ Names(p[2], n)
        /\ \A n \in a.twins : \E m \in Note \ {n} : Was(m) /\ Stem(m) = Stem(n)
        /\ ~ a.truncated =>
              /\ \A n \in Note : Stays(n) /\ NoTags(n) =>
                    /\ n \in a.untagged
                    /\ \/ n \in a.orphans
                       \/ \E p \in ever : \E link \in Links[p[2]] :
                             Other(p[1], n) /\ MayLead(link, n)
              /\ \A m \in Note : Stays(m) => \A link \in Links[note[m]] :
                    \/ <<m, link>> \in a.dangling
                    \/ \E n \in Note : Was(n) /\ MayLead(link, n)
              /\ \A n, m \in Note : Stays(n) /\ Stays(m) /\ n # m /\ Stem(n) = Stem(m) =>
                    n \in a.twins

LEMMA LinksAre ==
    ASSUME NEW t \in Text
    PROVE  Links[t] \subseteq Link
BY ScanConstants

LEMMA FiniteLinks == IsFiniteSet(Link)
<1> DEFINE P == (Dir \cup {Root}) \X Name
           f == [p \in P |-> [folder |-> p[1], name |-> p[2]]]
<1>1. IsFiniteSet(Dir) /\ IsFiniteSet({Root}) /\ IsFiniteSet(Name)
  BY Nodes, SetsOfNodes, FS_Singleton, ScanConstants
<1>2. IsFiniteSet(P)
  <2>1. IsFiniteSet(Dir \cup {Root})
    BY <1>1, FS_Union
  <2> QED
    BY <1>1, <2>1, FS_Product
<1>3. \A link \in Link : \E p \in P : f[p] = link
  <2> SUFFICES ASSUME NEW link \in Link PROVE \E p \in P : f[p] = link
    OBVIOUS
  <2>1. link.folder \in Dir \cup {Root} /\ link.name \in Name /\ link = [folder |-> link.folder, name |-> link.name]
    BY DEF Link
  <2>2. <<link.folder, link.name>> \in P
    BY <2>1
  <2>3. f[<<link.folder, link.name>>] = link
    BY <2>1, <2>2
  <2> QED
    BY <2>2, <2>3
<1>4. f \in Surjection(P, Link)
  <2>1. f \in [P -> Link]
    BY DEF Link
  <2> HIDE DEF f
  <2> QED
    BY <1>3, <2>1 DEF Surjection
<1> HIDE DEF P, f
<1> QED
  BY <1>2, <1>4, FS_Surjection

\* The names of finitely many notes are finitely many.
LEMMA FiniteNames == IsFiniteSet(Twins) /\ IsFiniteSet(TwinNames)
<1> DEFINE f == [n \in Twins |-> Stem(n)]
<1>1. IsFiniteSet(Twins)
  BY Listings, Nodes, SetsOfNodes
<1>2. f \in Surjection(Twins, TwinNames)
  BY DEF TwinNames, Surjection
<1> HIDE DEF f
<1> QED
  BY <1>1, <1>2, FS_Surjection

\* Names that differ by case only do so without their extensions.
LEMMA SameWithoutExtension ==
    ASSUME NEW x \in Name, NEW y \in Name, LowerCase(x) = LowerCase(y)
    PROVE  LowerCase(TrimExt(x)) = LowerCase(TrimExt(y))
<1>1. /\ Len(x) \in Nat /\ DOMAIN x = 1..Len(x)
      /\ Len(y) \in Nat /\ DOMAIN y = 1..Len(y)
  BY ScanConstants
<1>2. DOMAIN x = DOMAIN y /\ \A i \in DOMAIN x : Lower[x[i]] = Lower[y[i]]
  <2>1. DOMAIN LowerCase(x) = DOMAIN x /\ DOMAIN LowerCase(y) = DOMAIN y
    BY DEF LowerCase
  <2>2. \A i \in DOMAIN x : LowerCase(x)[i] = Lower[x[i]]
    BY DEF LowerCase
  <2>3. \A i \in DOMAIN y : LowerCase(y)[i] = Lower[y[i]]
    BY DEF LowerCase
  <2> QED
    BY <2>1, <2>2, <2>3
<1>3. Len(x) = Len(y)
  <2>1. PICK a \in Nat, b \in Nat : a = Len(x) /\ b = Len(y)
    BY <1>1
  <2>2. 1..a = 1..b
    BY <1>1, <1>2, <2>1
  <2>3. ~ (a < b) /\ ~ (b < a)
    <3>1. a < b => b \in 1..b /\ b \notin 1..a
      OBVIOUS
    <3>2. b < a => a \in 1..a /\ a \notin 1..b
      OBVIOUS
    <3> QED
      BY <2>2, <3>1, <3>2
  <2> QED
    BY <2>1, <2>3
<1>4. CASE Len(x) > 1
  <2>1. /\ TrimExt(x) = [i \in 1..Len(x) - 1 |-> x[i]]
        /\ TrimExt(y) = [i \in 1..Len(x) - 1 |-> y[i]]
    BY <1>3, <1>4 DEF TrimExt
  <2>2. /\ LowerCase(TrimExt(x)) = [i \in 1..Len(x) - 1 |-> Lower[x[i]]]
        /\ LowerCase(TrimExt(y)) = [i \in 1..Len(x) - 1 |-> Lower[y[i]]]
    BY <2>1 DEF LowerCase
  <2>3. \A i \in 1..Len(x) - 1 : Lower[x[i]] = Lower[y[i]]
    BY <1>1, <1>2
  <2> QED
    BY <2>2, <2>3
<1>5. CASE ~ (Len(x) > 1)
  BY <1>3, <1>5 DEF TrimExt
<1> QED
  BY <1>4, <1>5

\* Every name of a note that is known leads to a note of that name, up to case.
LEMMA IndexIs ==
    ASSUME NEW index \in Indexes
    PROVE  /\ \A n \in Known : /\ StemLower(n) \in DOMAIN index /\ index[StemLower(n)] \in Known
                               /\ StemLower(index[StemLower(n)]) = StemLower(n)
           /\ \A s \in DOMAIN index : index[s] \in Known /\ StemLower(index[s]) = s
<1>1. \A n \in Known : /\ StemLower(n) \in DOMAIN index /\ index[StemLower(n)] \in Known
                       /\ StemLower(index[StemLower(n)]) = StemLower(n)
  BY DEF Indexes
<1>2. \A s \in DOMAIN index : \E n \in Known : s = StemLower(n)
  BY DEF Indexes
<1> QED
  BY <1>1, <1>2

\* Where a link leads by its path.
LEMMA AtPathIs ==
    ASSUME NEW link \in Link
    PROVE  /\ \A n \in AtPath(link) : n \in Known /\ call.kind = "audit" /\ Path(n) \in {link, WithMd(link)}
           /\ \A n \in Known : call.kind = "audit" /\ Path(n) = link => n \in AtPath(link)
           /\ \A n \in Known : call.kind = "audit" /\ Path(n) = WithMd(link) /\ (\A m \in Known : Path(m) # link)
                 => n \in AtPath(link)
BY DEF AtPath

\* A link leads to a note that is known and that it may lead to; and where it names one
\* that is known, it leads to one of the same name up to case.
LEMMA ResolvedIs ==
    ASSUME NEW index \in Indexes, NEW link \in Link, \A n \in Known : Was(n) /\ n \in Note
    PROVE  /\ \A n \in Resolved(index, link) : n \in Known /\ MayLead(link, n)
           /\ \A n \in Known : Names(link, n) =>
                 \E m \in Resolved(index, link) : StemLower(m) = StemLower(n)
<1>1. /\ AtPath(link) # {} => Resolved(index, link) = AtPath(link)
      /\ AtPath(link) = {} => Resolved(index, link) = {index[key] : key \in Keys(link) \cap DOMAIN index}
  BY DEF Resolved
<1>2. link.name \in Name /\ \A n \in Known : FileName[n] \in Name
  BY ScanConstants DEF Link
<1>3. ASSUME NEW n \in Known, Path(n) = link
      PROVE  LowerCase(TrimExt(link.name)) = StemLower(n)
  BY <1>3 DEF Path, StemLower, Stem
<1>4. ASSUME NEW n \in Resolved(index, link)
      PROVE  n \in Known /\ MayLead(link, n)
  <2>1. CASE AtPath(link) # {}
    <3>1. n \in Known /\ call.kind = "audit" /\ Path(n) \in {link, WithMd(link)}
      BY <1>1, <1>4, <2>1, AtPathIs
    <3>2. CASE Path(n) = link
      <4>1. Keys(link) = {LowerCase(TrimExt(link.name))}
        BY <3>1 DEF Keys
      <4> QED
        BY <1>3, <3>1, <3>2, <4>1 DEF MayLead
    <3>3. CASE Path(n) = WithMd(link)
      BY <3>1, <3>3 DEF MayLead
    <3> QED
      BY <3>1, <3>2, <3>3
  <2>2. CASE AtPath(link) = {}
    <3>1. PICK key \in Keys(link) \cap DOMAIN index : n = index[key]
      BY <1>1, <1>4, <2>2
    <3>2. n \in Known /\ StemLower(n) = key
      BY <3>1, IndexIs
    <3> QED
      BY <3>1, <3>2 DEF MayLead
  <2> QED
    BY <2>1, <2>2
<1>5. ASSUME NEW n \in Known, AtPath(link) = {}, StemLower(n) \in Keys(link)
      PROVE  \E m \in Resolved(index, link) : StemLower(m) = StemLower(n)
  <2>1. StemLower(n) \in DOMAIN index /\ StemLower(index[StemLower(n)]) = StemLower(n)
    BY IndexIs
  <2> QED
    BY <1>1, <1>5, <2>1
<1>6. ASSUME NEW n \in Known, Names(link, n)
      PROVE  \E m \in Resolved(index, link) : StemLower(m) = StemLower(n)
  <2>1. CASE n \in AtPath(link)
    BY <1>1, <2>1
  <2>2. CASE n \notin AtPath(link) /\ call.kind = "audit"
    <3>1. /\ Bare(link) /\ \A m \in Note : Was(m) => Path(m) \notin {link, WithMd(link)}
          /\ \/ LowerCase(link.name) = LowerCase(FileName[n])
             \/ Len(link.name) = 1 /\ LowerCase(link.name) = StemLower(n)
      <4>1. \A m \in Known : m \in Note /\ Was(m)
        OBVIOUS
      <4> QED
        BY <1>6, <2>2, <4>1, AtPathIs DEF Names
    <3>2. AtPath(link) = {}
      BY <3>1, AtPathIs
    <3>3. Keys(link) = {LowerCase(TrimExt(link.name))}
      BY <2>2 DEF Keys
    <3>4. CASE LowerCase(link.name) = LowerCase(FileName[n])
      <4>1. LowerCase(TrimExt(link.name)) = LowerCase(TrimExt(FileName[n]))
        BY <1>2, <3>4, SameWithoutExtension
      <4> QED
        BY <1>5, <3>2, <3>3, <4>1 DEF StemLower, Stem
    <3>5. CASE Len(link.name) = 1 /\ LowerCase(link.name) = StemLower(n)
      <4>1. TrimExt(link.name) = link.name
        BY <3>5 DEF TrimExt
      <4> QED
        BY <1>5, <3>2, <3>3, <3>5, <4>1
    <3> QED
      BY <3>1, <3>4, <3>5
  <2>3. CASE call.kind # "audit"
    <3>1. Bare(link) /\ LowerCase(link.name) = StemLower(n)
      BY <1>6, <2>3 DEF Names
    <3>2. AtPath(link) = {} /\ Keys(link) = {LowerCase(link.name)}
      BY <2>3, <3>1, AtPathIs DEF Keys
    <3> QED
      BY <1>5, <3>1, <3>2
  <2> QED
    BY <2>1, <2>2, <2>3
<1> QED
  BY <1>4, <1>6

\* What the walk of an audit knows in the end: the notes that stay, as they are.
LEMMA AuditKnows ==
    ASSUME Core, phase = "walk", todo = {}, call.kind \in {"audit", "health"},
           call.kind = "audit" => UnderCap
    PROVE  /\ \A n \in Note : Stays(n) =>
                 /\ n \in Known /\ n \in Seen /\ saw[n] = note[n] /\ note[n] \in Text
                 /\ LinksOf(n) = Links[note[n]]
                 /\ (n \in HasTags <=> note[n] \in Tagged)
           /\ \A n \in Known : Was(n) /\ n \in Note
           /\ \A n \in Known : \A link \in LinksOf(n) :
                 link \in Link /\ n \in Seen /\ <<n, saw[n]>> \in ever /\ link \in Links[saw[n]]
<1>1. call.wanted = Note
  BY DEF Core, AtRest, Plain
<1>2. ASSUME NEW n \in Note, Stays(n)
      PROVE  /\ n \in Known /\ n \in Seen /\ saw[n] = note[n] /\ note[n] \in Text
             /\ LinksOf(n) = Links[note[n]]
             /\ (n \in HasTags <=> note[n] \in Tagged)
  <2>1. n \in stable /\ Meant(n)
    BY <1>1, <1>2 DEF Stays, Meant
  <2>2. n \in Visited /\ n \in Seen /\ saw[n] = note[n]
    BY <1>2, <2>1, ReachedUnderCap
  <2>3. n \in Known /\ note[n] \in Text /\ LinksOf(n) = Links[note[n]]
    BY <2>2 DEF Known, LinksOf, Seen
  <2>4. n \in HasTags <=> note[n] \in Tagged
    <3>1. CASE call.kind = "audit"
      BY <2>2, <3>1 DEF HasTags
    <3>2. CASE call.kind = "health"
      <4>1. n \in tags <=> note[n] \in Tagged
        BY <2>1, <2>2, <3>2 DEF Core, Tagging, Walking
      <4> QED
        BY <3>2, <4>1 DEF HasTags
    <3> QED
      BY <3>1, <3>2
  <2> QED
    BY <2>2, <2>3, <2>4
<1>3. ASSUME NEW n \in Known PROVE Was(n) /\ n \in Note
  <2>1. n \in Visited /\ n \in Note
    BY SeenVisited DEF Known
  <2> QED
    BY <2>1 DEF Core, Listed, Walking
<1>4. ASSUME NEW n \in Known, NEW link \in LinksOf(n)
      PROVE  link \in Link /\ n \in Seen /\ <<n, saw[n]>> \in ever /\ link \in Links[saw[n]]
  <2>1. n \in Seen /\ link \in Links[saw[n]]
    BY <1>4 DEF LinksOf
  <2>2. saw[n] \in Text /\ <<n, saw[n]>> \in ever
    BY <2>1, FoundMatches
  <2> QED
    BY <2>1, <2>2, LinksAre
<1> QED
  BY <1>2, <1>3, <1>4

LEMMA IncomingIs ==
    ASSUME NEW index, NEW n \in Known
    PROVE  n \in Incoming(index) <=>
              \E m \in Known : (call.kind = "audit" => m # n) /\
                 \E link \in LinksOf(m) : n \in Resolved(index, link)
BY DEF Incoming

\* Without "truncated" no class is cut short.
LEMMA NotCut ==
    ASSUME Core, phase = "walk", NEW S, IsFiniteSet(S), ~ Cut(S)
    PROVE  Cardinality(S) <= Most
<1>1. call \in Call /\ call.limit \in Nat
  BY CallFields DEF Core, TypeOK
<1>2. Cardinality(S) \in Nat /\ Most \in Nat
  BY <1>1, FS_CardinalityType, ScanConstants DEF Most
<1> QED
  BY <1>2 DEF Cut

LEMMA AllTwins ==
    ASSUME Core, phase = "walk", ~ Cut(Pairs), NEW T \in SelectedTwins
    PROVE  T = Twins
<1>1. CASE call.kind = "audit"
  <2>1. Cardinality(Twins) <= Most
    BY <1>1, NotCut, FiniteNames DEF Pairs
  <2>2. T \in Selected(Twins, ByStem)
    BY <1>1 DEF SelectedTwins
  <2> QED
    BY <2>1, <2>2, SelectedIs
<1>2. CASE call.kind # "audit"
  <2>1. Cardinality(TwinNames) <= Most
    BY <1>2, NotCut, FiniteNames DEF Pairs
  <2>2. PICK D \in Selected(TwinNames, ByStem) : T = {n \in Twins : Stem(n) \in D}
    BY <1>2 DEF SelectedTwins, TwinNames
  <2>3. D = TwinNames
    BY <2>1, <2>2, SelectedIs
  <2> QED
    BY <2>2, <2>3 DEF TwinNames
<1> QED
  BY <1>1, <1>2

LEMMA AuditAtTheEnd ==
    ASSUME Core, Return, call.kind \in {"audit", "health"}, call.kind = "audit" => UnderCap
    PROVE  AuditHolds(answer')
<1>1. phase = "walk" /\ todo = {} /\ Report
  BY DEF Return, Search, Rank, Recent, ReadBatch, Count
<1>2. PICK index \in Indexes :
         /\ answer'.orphans \in Selected(Orphans(index), InOrder)
         /\ answer'.untagged \in Selected(Untagged, InOrder)
         /\ answer'.dangling \in Selected(Dangling(index), BySource)
         /\ answer'.twins \in SelectedTwins
         /\ answer'.truncated <=> OneCut(index)
  BY <1>1, ReportAnswer
<1>3. /\ answer'.orphans \subseteq Orphans(index) /\ answer'.untagged \subseteq Untagged
      /\ answer'.dangling \subseteq Dangling(index) /\ answer'.twins \subseteq Twins
  BY <1>2, SelectedIs, SelectedTwinsAre
<1>4. ASSUME ~ answer'.truncated
      PROVE  /\ answer'.orphans = Orphans(index) /\ answer'.untagged = Untagged
             /\ answer'.dangling = Dangling(index) /\ answer'.twins = Twins
  <2>1. ~ Cut(Orphans(index)) /\ ~ Cut(Untagged) /\ ~ Cut(Dangling(index)) /\ ~ Cut(Pairs)
    BY <1>2, <1>4 DEF OneCut
  <2>2. IsFiniteSet(Orphans(index)) /\ IsFiniteSet(Untagged)
    BY Listings, Nodes, SetsOfNodes DEF Orphans, Untagged
  <2>3. IsFiniteSet(Dangling(index))
    <3>1. IsFiniteSet(Note \X Link)
      BY FiniteLinks, Nodes, FS_Product
    <3> QED
      BY <3>1, Listings, FS_Subset
  <2>4. /\ Cardinality(Orphans(index)) <= Most /\ Cardinality(Untagged) <= Most
        /\ Cardinality(Dangling(index)) <= Most
    BY <1>1, <2>1, <2>2, <2>3, NotCut
  <2>5. answer'.twins = Twins
    BY <1>1, <1>2, <2>1, AllTwins
  <2> QED
    BY <1>2, <2>4, <2>5, SelectedIs
<1> USE AuditKnows
<1>5. ASSUME NEW n \in answer'.untagged, Stays(n) PROVE note[n] \notin Tagged
  BY <1>1, <1>3, <1>5, Listings DEF Untagged
<1>6. ASSUME NEW n \in answer'.orphans, Stays(n), Alone(n)
      PROVE  /\ note[n] \notin Tagged
             /\ \A m \in Note : Stays(m) /\ (call.kind = "audit" => m # n) =>
                   \A link \in Links[note[m]] : ~ Names(link, n)
  <2>1. n \in Known /\ n \in Note /\ n \notin HasTags /\ n \notin Incoming(index)
    BY <1>3, Listings DEF Orphans
  <2>2. note[n] \notin Tagged
    BY <1>1, <1>6, <2>1
  <2>3. ASSUME NEW m \in Note, Stays(m), call.kind = "audit" => m # n, NEW link \in Links[note[m]], Names(link, n)
        PROVE  FALSE
    <3>1. m \in Known /\ link \in LinksOf(m) /\ link \in Link
      BY <1>1, <2>3
    <3>2. PICK k \in Resolved(index, link) : StemLower(k) = StemLower(n)
      BY <1>1, <2>1, <2>3, <3>1, ResolvedIs
    <3>3. k \in Known /\ Was(k) /\ k \in Note
      BY <1>1, <3>1, <3>2, ResolvedIs
    <3>4. k = n
      BY <1>6, <3>2, <3>3 DEF Alone
    <3> QED
      BY <2>1, <2>3, <3>1, <3>2, <3>4, IncomingIs
  <2> QED
    BY <2>2, <2>3
<1>7. ASSUME NEW p \in answer'.dangling, Stays(p[1])
      PROVE  /\ p[2] \in Links[note[p[1]]]
             /\ \A n \in Note : Stays(n) => ~ Names(p[2], n)
  <2>1. p[1] \in Known /\ p[2] \in LinksOf(p[1]) /\ Resolved(index, p[2]) = {}
    BY <1>3 DEF Dangling
  <2>2. p[1] \in Note /\ p[2] \in Link
    BY <1>1, <2>1
  <2>3. p[2] \in Links[note[p[1]]]
    BY <1>1, <1>7, <2>1, <2>2
  <2>4. ASSUME NEW n \in Note, Stays(n), Names(p[2], n) PROVE FALSE
    <3>1. n \in Known
      BY <1>1, <2>4
    <3> QED
      BY <1>1, <2>1, <2>2, <2>4, <3>1, ResolvedIs
  <2> QED
    BY <2>3, <2>4
<1>8. ASSUME ~ answer'.truncated, NEW n \in Note, Stays(n), note[n] \notin Tagged
      PROVE  /\ n \in answer'.untagged
             /\ \/ n \in answer'.orphans
                \/ \E p \in ever : \E link \in Links[p[2]] :
                      (call.kind = "audit" => p[1] # n) /\ MayLead(link, n)
  <2>1. n \in Known /\ n \notin HasTags
    BY <1>1, <1>8
  <2>2. n \in answer'.untagged
    BY <1>4, <1>8, <2>1 DEF Untagged
  <2>3. ASSUME n \notin answer'.orphans
        PROVE  \E p \in ever : \E link \in Links[p[2]] :
                  (call.kind = "audit" => p[1] # n) /\ MayLead(link, n)
    <3>1. n \in Incoming(index)
      BY <1>4, <1>8, <2>1, <2>3 DEF Orphans
    <3>2. PICK m \in Known : (call.kind = "audit" => m # n) /\
                \E link \in LinksOf(m) : n \in Resolved(index, link)
      BY <2>1, <3>1, IncomingIs
    <3>3. PICK link \in LinksOf(m) : n \in Resolved(index, link)
      BY <3>2
    <3>4. link \in Link /\ <<m, saw[m]>> \in ever /\ link \in Links[saw[m]]
      BY <1>1, <3>3
    <3>5. MayLead(link, n)
      BY <1>1, <3>3, <3>4, ResolvedIs
    <3> QED
      BY <3>2, <3>4, <3>5
  <2> QED
    BY <2>2, <2>3
<1>9. ASSUME ~ answer'.truncated, NEW m \in Note, Stays(m), NEW link \in Links[note[m]]
      PROVE  \/ <<m, link>> \in answer'.dangling
             \/ \E n \in Note : Was(n) /\ MayLead(link, n)
  <2>1. m \in Known /\ link \in LinksOf(m) /\ link \in Link
    BY <1>1, <1>9
  <2>2. CASE Resolved(index, link) = {}
    BY <1>4, <1>9, <2>1, <2>2 DEF Dangling
  <2>3. CASE Resolved(index, link) # {}
    <3>1. PICK n \in Resolved(index, link) : TRUE
      BY <2>3
    <3>2. n \in Known /\ MayLead(link, n)
      BY <1>1, <2>1, <3>1, ResolvedIs
    <3> QED
      BY <1>1, <3>2
  <2> QED
    BY <2>2, <2>3
<1>10. ASSUME ~ answer'.truncated, NEW n \in Note, NEW m \in Note,
              Stays(n), Stays(m), n # m, Stem(n) = Stem(m)
       PROVE  n \in answer'.twins
  BY <1>1, <1>4, <1>10 DEF Twins
<1>11. ASSUME NEW n \in answer'.twins
       PROVE  \E m \in Note \ {n} : Was(m) /\ Stem(m) = Stem(n)
  BY <1>1, <1>3, <1>11 DEF Twins
<1> QED
  BY <1>5, <1>6, <1>7, <1>8, <1>9, <1>10, <1>11 DEF AuditHolds

LEMMA AuditIs ==
    AuditIsTrue <=> (Done({"audit", "health"}) /\ (call.kind = "audit" => UnderCap) => AuditHolds(answer))
BY DEF AuditIsTrue, AuditHolds

LEMMA SameAudit ==
    ASSUME SameVault, AuditHolds(answer')
    PROVE  AuditHolds(answer)'
<1>1. UNCHANGED <<note, mtime, barred, call, stable, ever>>
  BY DEF SameVault
<1>2. \A n : (Stays(n)' <=> Stays(n)) /\ (Was(n)' <=> Was(n)) /\ (Alone(n)' <=> Alone(n))
  BY <1>1, SameVaultIs DEF Alone
<1>3. \A link, n : (Names(link, n)' <=> Names(link, n)) /\ (MayLead(link, n)' <=> MayLead(link, n))
  BY <1>1, <1>2 DEF Names, MayLead, Keys
<1> QED
  BY <1>1, <1>2, <1>3 DEF AuditHolds

LEMMA AuditStep ==
    ASSUME Core, AuditIsTrue, [Next]_vars
    PROVE  AuditIsTrue'
<1> SUFFICES ASSUME Done({"audit", "health"})', (call'.kind = "audit" => UnderCap')
             PROVE  AuditHolds(answer)'
  BY DEF AuditIsTrue, AuditHolds
<1>1. answer' # None /\ call'.kind \in {"audit", "health"} /\ ~ answer'.error
  BY DEF Done
<1>2. CASE UNCHANGED vars
  <2>1. SameVault /\ answer' = answer
    BY <1>2 DEF vars, SameVault, ghost
  <2>2. Done({"audit", "health"}) /\ (call.kind = "audit" => UnderCap)
    BY <1>1, <2>1, SameVaultIs DEF SameVault, Done
  <2>3. AuditHolds(answer)
    BY <2>2, AuditIs
  <2> QED
    BY <2>1, <2>3, SameAudit
<1>3. CASE Return
  <2>1. SameVault
    BY <1>3 DEF Return, SameVault, ghost
  <2>2. call.kind \in {"audit", "health"} /\ (call.kind = "audit" => UnderCap)
    BY <1>1, <2>1, SameVaultIs DEF SameVault
  <2> QED
    BY <1>3, <2>1, <2>2, AuditAtTheEnd, SameAudit
<1> QED
  BY <1>1, <1>2, <1>3, HowItEnds

\* An audit is true of the notes that nobody touches or holds, and complete where it does
\* not say that it is cut short, up to the exceptions of AuditIsTrue: more than Cap notes,
\* links to names that notes share up to case, and links that Names leaves out because
\* the code cuts the target at its last dot.  For any tree, any texts and any limit.
THEOREM AuditsAreTrue == Spec => []AuditIsTrue
<1>1. Init => Core /\ AuditIsTrue
  <2>1. Init => AuditIsTrue
    BY DEF Init, AuditIsTrue, Done
  <2> QED
    BY <2>1, InitCore
<1>2. Core /\ AuditIsTrue /\ [Next]_vars => Core' /\ AuditIsTrue'
  BY CoreStep, AuditStep
<1> QED
  BY <1>1, <1>2, PTL DEF Spec

------------------------------------------------------------------------------
\* The pages of a folder

LEMMA BeforeIs ==
    ASSUME NEW P, P \subseteq Node, NEW e \in Node
    PROVE  /\ Before(P, e) \in Nat
           /\ e \in P => Before(P, e) < Cardinality(P)
<1> DEFINE B == {f \in P : f < e}
<1>1. B \subseteq P /\ IsFiniteSet(P)
  BY SetsOfNodes
<1>2. e \notin B
  BY Nodes
<1>3. Cardinality(B) \in Nat /\ (e \in P => Cardinality(B) < Cardinality(P))
  BY <1>1, <1>2, SmallerSet
<1> QED
  BY <1>3 DEF Before

\* Entries that are among the first o of a list and are not of another: for each there
\* is one that is in the other only.
LEMMA Shifted ==
    ASSUME NEW P, P \subseteq Node, NEW Q, Q \subseteq Node, NEW X, X \subseteq P, X \subseteq Q,
           NEW o \in Nat, \A e \in X : Before(Q, e) < o /\ Before(P, e) >= o
    PROVE  Cardinality(X) <= Cardinality(P \ Q)
<1>1. CASE X = {}
  <2>1. Cardinality(P \ Q) \in Nat /\ Cardinality({}) = 0
    BY SetsOfNodes, FS_EmptySet
  <2> QED
    BY <1>1, <2>1
<1>2. CASE X # {}
  <2>1. PICK a \in X : \A y \in X : a <= y
    BY <1>2, LeastNode
  <2>2. PICK z \in X : \A y \in X : y <= z
    BY <1>2, GreatestNode
  <2>3. a \in Nat /\ z \in Nat /\ a \in Node /\ z \in Node
    BY <2>1, <2>2, Nodes
  <2> DEFINE A == {f \in P : f < a}
             Z == {f \in Q : f < z}
             Y == X \ {z}
  <2>4. Cardinality(A) >= o /\ Cardinality(Z) < o
    BY <2>1, <2>2 DEF Before
  <2>5. A \cap Q \subseteq Z
    <3>1. ASSUME NEW f \in A \cap Q PROVE f < z
      <4>1. f < a /\ a <= z /\ f \in Nat
        BY <2>1, Nodes
      <4> QED
        BY <4>1, <2>3
    <3> QED
      BY <3>1
  <2>6. Y \subseteq Z
    <3>1. ASSUME NEW f \in Y PROVE f < z
      <4>1. f <= z /\ f # z /\ f \in Nat
        BY <2>2, Nodes
      <4> QED
        BY <4>1, <2>3
    <3> QED
      BY <3>1
  <2>7. (A \cap Q) \cap Y = {}
    <3>1. ASSUME NEW f \in A, f \in X PROVE FALSE
      BY <3>1, <2>1, <2>3, Nodes
    <3> QED
      BY <3>1
  <2>8. /\ A \subseteq Node /\ Z \subseteq Node /\ Y \subseteq Node /\ X \subseteq Node
        /\ A \subseteq (A \cap Q) \cup (P \ Q) /\ z \in X /\ Y = X \ {z}
    BY <2>2
  <2> HIDE DEF A, Z, Y
  <2>9. /\ IsFiniteSet(A) /\ IsFiniteSet(Z) /\ IsFiniteSet(Y) /\ IsFiniteSet(X)
        /\ IsFiniteSet(A \cap Q) /\ IsFiniteSet(P \ Q)
        /\ Cardinality(A) \in Nat /\ Cardinality(Z) \in Nat /\ Cardinality(X) \in Nat
    <3>1. A \cap Q \subseteq Node /\ P \ Q \subseteq Node
      BY <2>8
    <3> QED
      BY <2>8, <3>1, SetsOfNodes
  <2>10. Cardinality(A \cap Q) + Cardinality(Y) <= Cardinality(Z)
    <3>1. (A \cap Q) \cup Y \subseteq Z
      BY <2>5, <2>6
    <3> QED
      BY <2>7, <2>9, <3>1, Apart
  <2>11. /\ Cardinality(A) <= Cardinality(A \cap Q) + Cardinality(P \ Q)
         /\ Cardinality(A \cap Q) \in Nat /\ Cardinality(P \ Q) \in Nat
    BY <2>8, <2>9, Joined
  <2>12. Cardinality(Y) = Cardinality(X) - 1
    BY <2>8, <2>9, FS_RemoveElement
  <2> QED
    BY <2>4, <2>9, <2>10, <2>11, <2>12
<1> QED
  BY <1>1, <1>2

\* The entries of S not yet got that no page from o on can have, and those got twice or
\* that a page from o on can have again, in a folder of the entries P.
Missed(S, g, P, o) == {e \in S : g[e] = 0 /\ Before(P, e) < o}
Again(S, g, P, o)  == {e \in S : g[e] > 1 \/ (g[e] > 0 /\ Before(P, e) >= o)}

LEMMA Switch ==
    ASSUME NEW P, P \subseteq Node, NEW Q, Q \subseteq Node, NEW S, S \subseteq P, S \subseteq Q,
           NEW g \in [Node -> Nat], NEW o \in Nat
    PROVE  /\ Cardinality(Missed(S, g, Q, o)) <= Cardinality(Missed(S, g, P, o)) + Cardinality(P \ Q)
           /\ Cardinality(Again(S, g, Q, o)) <= Cardinality(Again(S, g, P, o)) + Cardinality(Q \ P)
<1>1. \A e \in S : Before(P, e) \in Nat /\ Before(Q, e) \in Nat
  BY BeforeIs
<1> DEFINE X == {e \in S : Before(Q, e) < o /\ Before(P, e) >= o}
           Y == {e \in S : Before(P, e) < o /\ Before(Q, e) >= o}
<1>2. Missed(S, g, Q, o) \subseteq Missed(S, g, P, o) \cup X
  BY <1>1 DEF Missed
<1>3. Again(S, g, Q, o) \subseteq Again(S, g, P, o) \cup Y
  BY <1>1 DEF Again
<1>4. X \subseteq P /\ X \subseteq Q /\ \A e \in X : Before(Q, e) < o /\ Before(P, e) >= o
  OBVIOUS
<1>5. Y \subseteq P /\ Y \subseteq Q /\ \A e \in Y : Before(P, e) < o /\ Before(Q, e) >= o
  OBVIOUS
<1>6. /\ Missed(S, g, P, o) \subseteq Node /\ Again(S, g, P, o) \subseteq Node
      /\ X \subseteq Node /\ Y \subseteq Node /\ P \ Q \subseteq Node /\ Q \ P \subseteq Node
  BY DEF Missed, Again
<1> HIDE DEF X, Y
<1>7. Cardinality(X) <= Cardinality(P \ Q) /\ Cardinality(Y) <= Cardinality(Q \ P)
  BY <1>4, <1>5, Shifted
<1>8. /\ IsFiniteSet(Missed(S, g, P, o)) /\ IsFiniteSet(Again(S, g, P, o))
      /\ IsFiniteSet(X) /\ IsFiniteSet(Y)
      /\ Cardinality(P \ Q) \in Nat /\ Cardinality(Q \ P) \in Nat
  BY <1>6, SetsOfNodes
<1>9. /\ Cardinality(Missed(S, g, Q, o)) <= Cardinality(Missed(S, g, P, o)) + Cardinality(X)
      /\ Cardinality(Missed(S, g, Q, o)) \in Nat /\ Cardinality(Missed(S, g, P, o)) \in Nat
      /\ Cardinality(X) \in Nat
  BY <1>2, <1>8, Joined
<1>10. /\ Cardinality(Again(S, g, Q, o)) <= Cardinality(Again(S, g, P, o)) + Cardinality(Y)
       /\ Cardinality(Again(S, g, Q, o)) \in Nat /\ Cardinality(Again(S, g, P, o)) \in Nat
       /\ Cardinality(Y) \in Nat
  BY <1>3, <1>8, Joined
<1> QED
  BY <1>7, <1>8, <1>9, <1>10

\* What the folder has, and what the page in the making will have if nothing changes.
RootDirs == {d \in Dir : Parent[d] = Root}
Live     == {n \in Note : Parent[n] = Root /\ note[n] # None} \cup RootDirs
Expected == Seen \cup {n \in todo \cap Note : note[n] # None} \cup RootDirs
Staying  == {e \in stable : Parent[e] = Root}

\* Each entry that is missed, or got again, is paid for by one that has disappeared, or
\* appeared; so is each that the page in the making has too many, or too few.
Paid(P, o) ==
    /\ Cardinality(Missed(Staying, got, P, o)) + Cardinality(P \ Live) <= went
    /\ Cardinality(Again(Staying, got, P, o)) + Cardinality(Live \ P) <= came

Pages ==
    call # None /\ call.kind = "list" =>
        /\ phase = "walk" => Paid(Expected, offset)
        /\ phase = "more" => Paid(Live, offset + call.limit) /\ answer.truncated

LEMMA Folder ==
    ASSUME Core, call # None, call.kind = "list"
    PROVE  /\ Live \subseteq Node /\ Staying \subseteq Live /\ Expected \subseteq Node
           /\ phase = "walk" => /\ Staying \subseteq Expected
                                /\ \A n \in todo \cup Visited : n \in Note /\ Parent[n] = Root
           /\ call \in Call /\ call.limit \in Nat /\ ~ Full
<1>1. TypeOK
  BY DEF Core
<1>2. call \in Call /\ call.limit \in Nat
  BY <1>1, CallFields DEF TypeOK
<1>3. ~ Full
  BY DEF Full
<1>4. Live \subseteq Node /\ Expected \subseteq Node
  BY Nodes, Listings DEF Live, Expected, RootDirs
<1>5. Staying \subseteq Live
  BY <1>1, Nodes DEF TypeOK, Staying, Live, RootDirs
<1>6. ASSUME phase = "walk"
      PROVE  \A n \in todo \cup Visited : n \in Note /\ Parent[n] = Root
  BY <1>6 DEF Core, Listed, Walking
<1>7. ASSUME phase = "walk", NEW e \in Staying
      PROVE  e \in Expected
  <2>1. e \in stable /\ Parent[e] = Root /\ e \in Node
    BY <1>1 DEF Staying, TypeOK
  <2>2. CASE e \in Dir
    BY <2>1, <2>2 DEF Expected, RootDirs
  <2>3. CASE e \in Note
    <3>1. note[e] # None /\ note[e] \in Text
      BY <1>1, <2>1, <2>3 DEF TypeOK
    <3>2. Meant(e)
      <4>1. call.wanted = Note
        BY <1>7 DEF Core, AtRest, Plain
      <4> QED
        BY <2>1, <2>3, <4>1 DEF Meant
    <3>3. e \in todo \cup Visited
      <4>1. \A d \in todo : d \notin Dir
        BY <1>6, <1>7, Nodes
      <4> QED
        BY <1>3, <1>7, <2>1, <2>3, <3>2, <4>1 DEF Core, Covered, Walking
    <3>4. CASE e \in todo
      BY <2>3, <3>1, <3>4 DEF Expected
    <3>5. CASE e \in Visited
      <4>1. saw[e] = View(e)
        BY <1>7, <2>1, <3>5 DEF Core, Fresh, Walking
      <4>2. Readable(call.kind, note[e]) /\ InReach(call.kind, e)
        BY <1>1, <2>1, <3>1, ReachIs DEF Readable, Stats
      <4>3. saw[e] \in Text
        BY <1>1, <2>3, <4>1, <4>2, ViewIs DEF TypeOK
      <4> QED
        BY <2>3, <4>3 DEF Expected, Seen
    <3> QED
      BY <3>3, <3>4, <3>5
  <2> QED
    BY <2>1, <2>2, <2>3, Nodes
<1> QED
  BY <1>2, <1>3, <1>4, <1>5, <1>6, <1>7

LEMMA EmptySets ==
    Cardinality({}) = 0 /\ \A P : P \ P = {}
BY FS_EmptySet

\* Nothing got yet, and a list as the folder is.
LEMMA StartPages ==
    ASSUME Core, Core', Start
    PROVE  Pages'
<1> SUFFICES ASSUME call' # None, call'.kind = "list"
             PROVE  Paid(Expected, offset)'
  BY DEF Pages, Start
<1>1. /\ phase = "idle" /\ UNCHANGED <<note, saw, offset, got, came, went>>
      /\ todo' = Listing(Root) \ Dir
  BY DEF Start
<1>2. offset = 0 /\ got = [e \in Node |-> 0] /\ came = 0 /\ went = 0
  BY <1>1 DEF Core, AtRest
<1>3. Seen' = {}
  <2>1. Visited = {} /\ Seen' = Seen
    BY <1>1 DEF Core, TypeOK, Seen
  <2> QED
    BY <2>1, SeenVisited
<1>4. Expected' = Live'
  BY <1>1, <1>3, Nodes DEF Expected, Live, RootDirs, Listing, Exists
<1>5. Staying' \subseteq Node /\ Live' \subseteq Node
  BY Nodes DEF Staying, Live, RootDirs, Core, TypeOK
<1>6. Missed(Staying', got, Live', 0) = {} /\ Again(Staying', got, Live', 0) = {}
  <2>1. \A e \in Staying' : Before(Live', e) \in Nat /\ got[e] = 0
    BY <1>2, <1>5, BeforeIs
  <2> QED
    BY <2>1 DEF Missed, Again
<1> QED
  BY <1>1, <1>2, <1>4, <1>6, EmptySets DEF Paid

\* The read of a note makes no difference to what the page will have.
LEMMA VisitPages ==
    ASSUME Core, Pages, Visit
    PROVE  Pages'
<1> SUFFICES ASSUME call # None, call.kind = "list"
             PROVE  Paid(Expected, offset)' /\ phase' = "walk"
  BY DEF Pages, Visit
<1>1. PICK n \in Note : /\ First(n) /\ saw' = [saw EXCEPT ![n] = View(n)]
                        /\ phase' = phase /\ todo' = todo \ {n}
  BY DEF Visit
<1>2. phase = "walk" /\ UNCHANGED <<note, call, offset, got, stable, came, went>>
  BY DEF Visit, ghost
<1>3. n \in todo /\ n \notin Visited
  <2>1. n \in todo
    BY <1>1 DEF First
  <2>2. ~ (n < n)
    BY Nodes
  <2> QED
    BY <1>2, <2>1, <2>2 DEF Core, Ordered, Walking
<1>4. /\ note \in [Note -> Text \cup {None}] /\ saw \in [Note -> Text \cup {None, Missing}]
      /\ Missing \notin Text
  BY ScanConstants DEF Core, TypeOK
<1>5. View(n) \in Text <=> note[n] # None
  <2>1. Readable(call.kind, note[n]) <=> note[n] # None
    BY DEF Readable, Stats
  <2>2. InReach(call.kind, n)
    <3>1. Parent[n] = Root
      BY <1>2, <1>3, Folder
    <3>2. Root \notin barred
      BY ScanConstants DEF Core, TypeOK
    <3> QED
      BY <3>1, <3>2 DEF InReach, Stats
  <2> QED
    BY <1>4, <2>1, <2>2, ViewIs
<1>6. \A m \in Note \ {n} : m \in Seen' <=> m \in Seen
  BY <1>1, <1>4 DEF Seen
<1>7. (n \in Seen' <=> note[n] # None) /\ n \notin Seen
  BY <1>1, <1>3, <1>4, <1>5, SeenVisited DEF Seen
<1>8. Seen' \subseteq Note /\ Seen \subseteq Note
  BY DEF Seen
<1>9. Expected' = Expected
  <2>1. ASSUME NEW m \in Note PROVE m \in Expected' <=> m \in Expected
    <3>1. m \in Expected <=> m \in Seen \/ (m \in todo /\ note[m] # None) \/ m \in RootDirs
      BY DEF Expected
    <3>2. m \in Expected' <=> m \in Seen' \/ (m \in todo' /\ note[m] # None) \/ m \in RootDirs
      BY <1>2 DEF Expected, RootDirs
    <3>3. CASE m = n
      BY <1>1, <1>3, <1>7, <3>1, <3>2, <3>3
    <3>4. CASE m # n
      BY <1>1, <1>6, <3>1, <3>2, <3>4
    <3> QED
      BY <3>3, <3>4
  <2>2. \A m : m \notin Note => (m \in Expected' <=> m \in Expected)
    BY <1>8 DEF Expected, RootDirs
  <2> QED
    BY <2>1, <2>2
<1>10. Live' = Live /\ Staying' = Staying
  BY <1>2 DEF Live, Staying, RootDirs
<1>11. Paid(Expected, offset)
  BY <1>2 DEF Pages
<1> QED
  BY <1>1, <1>2, <1>9, <1>10, <1>11 DEF Paid

\* A page: what it has is not missed and is behind the next offset, and what is before
\* the offset and was not got will not be.
LEMMA PageTurns ==
    ASSUME Core, Pages, Page
    PROVE  /\ Expected \subseteq Node /\ Staying \subseteq Expected /\ Entries = Expected
           /\ Cardinality(Missed(Staying, got', Expected, offset + call.limit))
                 + Cardinality(Expected \ Live) <= went
           /\ Cardinality(Again(Staying, got', Expected, offset + call.limit))
                 + Cardinality(Live \ Expected) <= came
<1>1. /\ phase = "walk" /\ todo = {} /\ call.kind = "list"
      /\ got' = [e \in Node |-> got[e] + IF e \in OnPage THEN 1 ELSE 0]
  BY DEF Page
<1>2. call # None /\ offset \in Nat /\ got \in [Node -> Nat] /\ went \in Nat /\ came \in Nat
  BY <1>1 DEF Core, TypeOK
<1>3. Expected \subseteq Node /\ Staying \subseteq Expected /\ call.limit \in Nat /\ Live \subseteq Node
  BY <1>1, <1>2, Folder
<1>4. Entries = Expected
  BY <1>1 DEF Entries, Expected, RootDirs
<1>5. ASSUME NEW e \in Staying
      PROVE  /\ Before(Expected, e) \in Nat /\ got[e] \in Nat /\ e \in Node
             /\ got'[e] = IF offset <= Before(Expected, e) /\ Before(Expected, e) < offset + call.limit
                          THEN got[e] + 1 ELSE got[e]
  <2>1. e \in Node /\ e \in Expected /\ Before(Expected, e) \in Nat /\ got[e] \in Nat
    BY <1>2, <1>3, BeforeIs
  <2>2. e \in OnPage <=> Before(Expected, e) \in offset..offset + call.limit - 1
    BY <1>4, <2>1 DEF OnPage
  <2>3. got'[e] = got[e] + IF e \in OnPage THEN 1 ELSE 0
    BY <1>1, <2>1
  <2> QED
    BY <1>2, <1>3, <2>1, <2>2, <2>3
<1>6. Missed(Staying, got', Expected, offset + call.limit) \subseteq Missed(Staying, got, Expected, offset)
  BY <1>2, <1>3, <1>5 DEF Missed
<1>7. Again(Staying, got', Expected, offset + call.limit) \subseteq Again(Staying, got, Expected, offset)
  BY <1>2, <1>3, <1>5 DEF Again
<1>8. Paid(Expected, offset)
  BY <1>1, <1>2 DEF Pages
<1>9. Missed(Staying, got, Expected, offset) \subseteq Node /\ Again(Staying, got, Expected, offset) \subseteq Node
  BY <1>3 DEF Missed, Again
<1>10. /\ Cardinality(Missed(Staying, got', Expected, offset + call.limit))
             <= Cardinality(Missed(Staying, got, Expected, offset))
       /\ Cardinality(Missed(Staying, got', Expected, offset + call.limit)) \in Nat
       /\ Cardinality(Missed(Staying, got, Expected, offset)) \in Nat
  BY <1>6, <1>9, SetsOfNodes, SmallerSet
<1>11. /\ Cardinality(Again(Staying, got', Expected, offset + call.limit))
             <= Cardinality(Again(Staying, got, Expected, offset))
       /\ Cardinality(Again(Staying, got', Expected, offset + call.limit)) \in Nat
       /\ Cardinality(Again(Staying, got, Expected, offset)) \in Nat
  BY <1>7, <1>9, SetsOfNodes, SmallerSet
<1>12. Cardinality(Expected \ Live) \in Nat /\ Cardinality(Live \ Expected) \in Nat
  BY <1>3, SetsOfNodes
<1> QED
  BY <1>2, <1>3, <1>4, <1>8, <1>10, <1>11, <1>12 DEF Paid

LEMMA PagePages ==
    ASSUME Core, Pages, Page
    PROVE  Pages'
<1>1. /\ call.kind = "list" /\ phase = "walk"
      /\ UNCHANGED <<note, call, offset, stable, came, went>>
      /\ phase' = IF MoreToCome THEN "more" ELSE "done"
  BY DEF Page, ghost
<1>2. TypeOK /\ call # None
  BY <1>1 DEF Core, TypeOK
<1>3. CASE ~ MoreToCome
  BY <1>1, <1>3 DEF Pages
<1>4. CASE MoreToCome
  <2>1. answer'.truncated
    BY <1>2, <1>4, PageAnswer
  <2>2. /\ Live \subseteq Node /\ Staying \subseteq Live /\ call.limit \in Nat /\ offset \in Nat
        /\ went \in Nat /\ came \in Nat
    BY <1>1, <1>2, Folder DEF TypeOK
  <2>3. got' \in [Node -> Nat]
    BY PageStep DEF Core, TypeOK
  <2>4. PICK o \in Nat : o = offset + call.limit
    BY <2>2
  <2>5. /\ Cardinality(Missed(Staying, got', Live, o))
              <= Cardinality(Missed(Staying, got', Expected, o)) + Cardinality(Expected \ Live)
        /\ Cardinality(Again(Staying, got', Live, o))
              <= Cardinality(Again(Staying, got', Expected, o)) + Cardinality(Live \ Expected)
    BY <2>2, <2>3, PageTurns, Switch
  <2>6. Live \ Live = {} /\ Cardinality({}) = 0
    BY EmptySets
  <2>7. /\ Cardinality(Missed(Staying, got', Live, o)) \in Nat
        /\ Cardinality(Again(Staying, got', Live, o)) \in Nat
        /\ Cardinality(Missed(Staying, got', Expected, o)) \in Nat
        /\ Cardinality(Again(Staying, got', Expected, o)) \in Nat
        /\ Cardinality(Expected \ Live) \in Nat /\ Cardinality(Live \ Expected) \in Nat
    <3>1. Expected \subseteq Node
      BY PageTurns
    <3> QED
      BY <2>2, <3>1, SetsOfNodes DEF Missed, Again
  <2>8. /\ Cardinality(Missed(Staying, got', Live, o)) + Cardinality(Live \ Live) <= went
        /\ Cardinality(Again(Staying, got', Live, o)) + Cardinality(Live \ Live) <= came
    <3>1. /\ Cardinality(Missed(Staying, got', Expected, o)) + Cardinality(Expected \ Live) <= went
          /\ Cardinality(Again(Staying, got', Expected, o)) + Cardinality(Live \ Expected) <= came
      BY <2>4, PageTurns
    <3>2. Cardinality(Live \ Live) = 0
      BY <2>6
    <3>3. Cardinality(Missed(Staying, got', Live, o)) <= went
      BY <2>2, <2>5, <2>7, <3>1
    <3>4. Cardinality(Again(Staying, got', Live, o)) <= came
      BY <2>2, <2>5, <2>7, <3>1
    <3> QED
      BY <2>7, <3>2, <3>3, <3>4
  <2>9. Live' = Live /\ Staying' = Staying
    BY <1>1 DEF Live, Staying, RootDirs
  <2>10. Paid(Live, offset + call.limit)'
    BY <1>1, <2>4, <2>8, <2>9 DEF Paid
  <2> QED
    BY <1>1, <1>4, <2>1, <2>10 DEF Pages
<1> QED
  BY <1>3, <1>4

LEMMA NextPagePages ==
    ASSUME Core, Pages, NextPage
    PROVE  Pages'
<1>1. /\ phase = "more" /\ phase' = "walk" /\ offset' = offset + call.limit
      /\ todo' = Listing(Root) \ Dir
      /\ UNCHANGED <<note, call, saw, got, stable, came, went>>
  BY DEF NextPage, ghost
<1>2. call # None /\ call.kind = "list"
  BY <1>1 DEF Core, TypeOK, AtRest
<1>3. Seen' = {}
  <2>1. Visited = {} /\ Seen' = Seen
    BY <1>1 DEF Core, TypeOK, Seen
  <2> QED
    BY <2>1, SeenVisited
<1>4. Live' = Live /\ Staying' = Staying
  BY <1>1 DEF Live, Staying, RootDirs
<1>5. Expected' = Live'
  BY <1>1, <1>3, Nodes DEF Expected, Live, RootDirs, Listing, Exists
<1>6. Paid(Live, offset + call.limit)
  BY <1>1, <1>2 DEF Pages
<1>7. Paid(Expected, offset)'
  BY <1>1, <1>4, <1>5, <1>6 DEF Paid
<1> QED
  BY <1>1, <1>2, <1>7 DEF Pages

\* A change of the vault is paid for: what the page will have follows what the folder has
\* but for what was read already.
LEMMA BecomesPages ==
    ASSUME Core, Core', Pages, NEW new, NEW times, Becomes(new, times)
    PROVE  Pages'
<1> SUFFICES ASSUME call # None, call.kind = "list"
             PROVE  /\ phase = "walk" => Paid(Expected, offset)'
                    /\ phase = "more" => Paid(Live, offset + call.limit)' /\ answer.truncated
  BY DEF Pages, Becomes
<1> DEFINE G == {n \in {m \in Note : new[m] = None /\ note[m] # None} : Parent[n] = Root}
           C == {n \in {m \in Note : new[m] # None /\ note[m] = None} : Parent[n] = Root}
<1>1. /\ note' = new /\ stable' \subseteq stable
      /\ UNCHANGED <<call, phase, todo, saw, offset, got, answer>>
      /\ went' = went + Cardinality(G) /\ came' = came + Cardinality(C)
  BY DEF Becomes, walk
<1>2. /\ Live \subseteq Node /\ Staying \subseteq Live /\ Expected \subseteq Node
      /\ phase = "walk" => Staying \subseteq Expected
      /\ phase = "walk" => \A n \in todo \cup Visited : n \in Note /\ Parent[n] = Root
      /\ call.limit \in Nat
  BY Folder
<1>3. /\ Live' \subseteq Node /\ Staying' \subseteq Live' /\ Expected' \subseteq Node
      /\ phase = "walk" => Staying' \subseteq Expected'
  <2>1. /\ stable' \subseteq Node
        /\ \A n \in stable' \cap Note : note'[n] # None
    BY DEF Core, TypeOK
  <2>2. Live' \subseteq Node
    BY Nodes DEF Live, RootDirs
  <2>3. Staying' \subseteq Live'
    BY <2>1, Nodes DEF Staying, Live, RootDirs
  <2>4. Expected' \subseteq Node
    BY Nodes DEF Expected, Seen, RootDirs
  <2>5. ASSUME phase = "walk", NEW e \in Staying' PROVE e \in Expected'
    <3>1. e \in stable' /\ Parent[e] = Root
      BY DEF Staying
    <3>2. e \in Expected
      BY <1>1, <1>2, <2>5, <3>1 DEF Staying
    <3>3. CASE e \in Dir
      BY <3>1, <3>3 DEF Expected, RootDirs
    <3>4. CASE e \in Note
      <4>1. note'[e] # None
        BY <2>1, <3>1, <3>4
      <4>2. e \in Seen \/ e \in todo
        BY <3>2, <3>4, Nodes DEF Expected, RootDirs
      <4> QED
        BY <1>1, <3>4, <4>1, <4>2 DEF Expected, Seen
    <3> QED
      BY <2>1, <3>1, <3>3, <3>4, Nodes
  <2> QED
    BY <2>2, <2>3, <2>4, <2>5
<1>4. Staying' \subseteq Staying
  BY <1>1 DEF Staying
<1>5. offset \in Nat /\ got \in [Node -> Nat] /\ went \in Nat /\ came \in Nat
  BY DEF Core, TypeOK
<1>6. /\ G \subseteq Node /\ C \subseteq Node
      /\ Live \ Live' \subseteq G /\ Live' \ Live \subseteq C
      /\ \A n \in Live : n \notin Live' => n \in G
      /\ \A n \in Live' : n \notin Live => n \in C
  BY <1>1, Nodes DEF Live, RootDirs
<1>7. ASSUME phase = "walk"
      PROVE  /\ (Expected \ Expected') \cup (Expected' \ Live') \subseteq (Expected \ Live) \cup G
             /\ (Expected' \ Expected) \cup (Live' \ Expected') \subseteq (Live \ Expected) \cup C
  <2>1. Seen' = Seen /\ Seen \subseteq Visited /\ Seen \subseteq Note
    BY <1>1, SeenVisited, Listings DEF Seen
  <2>2. \A n \in Note : /\ n \in Expected <=> n \in Seen \/ (n \in todo /\ note[n] # None)
                        /\ n \in Expected' <=> n \in Seen \/ (n \in todo /\ new[n] # None)
                        /\ n \in Live <=> Parent[n] = Root /\ note[n] # None
                        /\ n \in Live' <=> Parent[n] = Root /\ new[n] # None
                        /\ n \in G <=> Parent[n] = Root /\ new[n] = None /\ note[n] # None
                        /\ n \in C <=> Parent[n] = Root /\ new[n] # None /\ note[n] = None
    BY <1>1, <2>1, Nodes DEF Expected, Live, RootDirs
  <2>3. \A n : n \notin Note =>
           /\ n \in Expected <=> n \in RootDirs
           /\ n \in Expected' <=> n \in RootDirs
           /\ n \in Live <=> n \in RootDirs
           /\ n \in Live' <=> n \in RootDirs
    BY <2>1 DEF Expected, Live, RootDirs
  <2>4. \A n \in Note : n \in Seen \/ n \in todo => Parent[n] = Root
    BY <1>2, <1>7, <2>1
  <2> HIDE DEF G, C
  <2> QED
    BY <2>2, <2>3, <2>4
<1> HIDE DEF G, C
<1>8. IsFiniteSet(G) /\ IsFiniteSet(C) /\ Cardinality(G) \in Nat /\ Cardinality(C) \in Nat
  BY <1>6, SetsOfNodes
<1>9. ASSUME NEW P, P \subseteq Node, NEW o \in Nat
      PROVE  /\ Cardinality(Missed(Staying', got, P, o)) <= Cardinality(Missed(Staying, got, P, o))
             /\ Cardinality(Again(Staying', got, P, o)) <= Cardinality(Again(Staying, got, P, o))
             /\ Cardinality(Missed(Staying', got, P, o)) \in Nat
             /\ Cardinality(Again(Staying', got, P, o)) \in Nat
             /\ Cardinality(Missed(Staying, got, P, o)) \in Nat
             /\ Cardinality(Again(Staying, got, P, o)) \in Nat
  <2>1. /\ Missed(Staying', got, P, o) \subseteq Missed(Staying, got, P, o)
        /\ Again(Staying', got, P, o) \subseteq Again(Staying, got, P, o)
        /\ Missed(Staying, got, P, o) \subseteq Node /\ Again(Staying, got, P, o) \subseteq Node
    BY <1>2, <1>4 DEF Missed, Again
  <2> QED
    BY <2>1, SetsOfNodes, SmallerSet
<1>10. ASSUME phase = "walk" PROVE Paid(Expected, offset)'
  <2>1. Paid(Expected, offset)
    BY <1>10 DEF Pages
  <2>2. Staying' \subseteq Expected /\ Staying' \subseteq Expected'
    BY <1>2, <1>3, <1>4, <1>10
  <2>3. /\ Cardinality(Missed(Staying', got, Expected', offset))
              <= Cardinality(Missed(Staying', got, Expected, offset)) + Cardinality(Expected \ Expected')
        /\ Cardinality(Again(Staying', got, Expected', offset))
              <= Cardinality(Again(Staying', got, Expected, offset)) + Cardinality(Expected' \ Expected)
    BY <1>2, <1>3, <1>5, <2>2, Switch
  <2>4. /\ IsFiniteSet(Expected \ Live) /\ IsFiniteSet(Live \ Expected)
        /\ Cardinality(Expected \ Live) \in Nat /\ Cardinality(Live \ Expected) \in Nat
        /\ Cardinality(Expected \ Expected') \in Nat /\ Cardinality(Expected' \ Expected) \in Nat
        /\ Cardinality(Expected' \ Live') \in Nat /\ Cardinality(Live' \ Expected') \in Nat
    BY <1>2, <1>3, SetsOfNodes
  <2>5. Cardinality(Expected \ Expected') + Cardinality(Expected' \ Live')
           <= Cardinality(Expected \ Live) + Cardinality(G)
    <3>1. /\ IsFiniteSet((Expected \ Live) \cup G)
          /\ Cardinality((Expected \ Live) \cup G) <= Cardinality(Expected \ Live) + Cardinality(G)
          /\ Cardinality((Expected \ Live) \cup G) \in Nat
      BY <1>8, <2>4, Joined
    <3>2. (Expected \ Expected') \cap (Expected' \ Live') = {}
      OBVIOUS
    <3>3. Cardinality(Expected \ Expected') + Cardinality(Expected' \ Live')
             <= Cardinality((Expected \ Live) \cup G)
      BY <1>7, <1>10, <3>1, <3>2, Apart
    <3> QED
      BY <1>8, <2>4, <3>1, <3>3
  <2>6. Cardinality(Expected' \ Expected) + Cardinality(Live' \ Expected')
           <= Cardinality(Live \ Expected) + Cardinality(C)
    <3>1. /\ IsFiniteSet((Live \ Expected) \cup C)
          /\ Cardinality((Live \ Expected) \cup C) <= Cardinality(Live \ Expected) + Cardinality(C)
          /\ Cardinality((Live \ Expected) \cup C) \in Nat
      BY <1>8, <2>4, Joined
    <3>2. (Expected' \ Expected) \cap (Live' \ Expected') = {}
      OBVIOUS
    <3>3. Cardinality(Expected' \ Expected) + Cardinality(Live' \ Expected')
             <= Cardinality((Live \ Expected) \cup C)
      BY <1>7, <1>10, <3>1, <3>2, Apart
    <3> QED
      BY <1>8, <2>4, <3>1, <3>3
  <2>7. Cardinality(Missed(Staying', got, Expected', offset)) + Cardinality(Expected' \ Live') <= went'
    <3>1. Cardinality(Missed(Staying, got, Expected, offset)) + Cardinality(Expected \ Live) <= went
      BY <2>1 DEF Paid
    <3>2. Cardinality(Missed(Staying', got, Expected', offset)) \in Nat
      BY <1>3, <1>5, <1>9
    <3> QED
      BY <1>1, <1>2, <1>5, <1>8, <1>9, <2>3, <2>4, <2>5, <3>1, <3>2
  <2>8. Cardinality(Again(Staying', got, Expected', offset)) + Cardinality(Live' \ Expected') <= came'
    <3>1. Cardinality(Again(Staying, got, Expected, offset)) + Cardinality(Live \ Expected) <= came
      BY <2>1 DEF Paid
    <3>2. Cardinality(Again(Staying', got, Expected', offset)) \in Nat
      BY <1>3, <1>5, <1>9
    <3> QED
      BY <1>1, <1>2, <1>5, <1>8, <1>9, <2>3, <2>4, <2>6, <3>1, <3>2
  <2> QED
    BY <1>1, <2>7, <2>8 DEF Paid
<1>11. ASSUME phase = "more" PROVE Paid(Live, offset + call.limit)' /\ answer.truncated
  <2>1. PICK o \in Nat : o = offset + call.limit
    BY <1>2, <1>5
  <2>2. Paid(Live, o) /\ answer.truncated
    BY <1>11, <2>1 DEF Pages
  <2>3. Staying' \subseteq Live
    BY <1>2, <1>4
  <2>4. /\ Cardinality(Missed(Staying', got, Live', o))
              <= Cardinality(Missed(Staying', got, Live, o)) + Cardinality(Live \ Live')
        /\ Cardinality(Again(Staying', got, Live', o))
              <= Cardinality(Again(Staying', got, Live, o)) + Cardinality(Live' \ Live)
    BY <1>2, <1>3, <1>5, <2>3, Switch
  <2>5. /\ Cardinality(Live \ Live') <= Cardinality(G) /\ Cardinality(Live' \ Live) <= Cardinality(C)
        /\ Cardinality(Live \ Live') \in Nat /\ Cardinality(Live' \ Live) \in Nat
    BY <1>6, <1>8, SmallerSet
  <2>6. Live \ Live = {} /\ Live' \ Live' = {} /\ Cardinality({}) = 0
    BY EmptySets
  <2>7. /\ Cardinality(Missed(Staying, got, Live, o)) + Cardinality(Live \ Live) <= went
        /\ Cardinality(Again(Staying, got, Live, o)) + Cardinality(Live \ Live) <= came
    BY <2>2 DEF Paid
  <2>8. Cardinality(Missed(Staying', got, Live', o)) \in Nat /\ Cardinality(Again(Staying', got, Live', o)) \in Nat
    BY <1>3, <1>9
  <2>9. /\ Cardinality(Missed(Staying', got, Live', o)) + Cardinality(Live' \ Live') <= went'
        /\ Cardinality(Again(Staying', got, Live', o)) + Cardinality(Live' \ Live') <= came'
    <3>1. Cardinality(Live \ Live) = 0 /\ Cardinality(Live' \ Live') = 0
      BY <2>6
    <3>2. /\ Cardinality(Missed(Staying', got, Live, o)) <= Cardinality(Missed(Staying, got, Live, o))
          /\ Cardinality(Again(Staying', got, Live, o)) <= Cardinality(Again(Staying, got, Live, o))
          /\ Cardinality(Missed(Staying', got, Live, o)) \in Nat
          /\ Cardinality(Again(Staying', got, Live, o)) \in Nat
          /\ Cardinality(Missed(Staying, got, Live, o)) \in Nat
          /\ Cardinality(Again(Staying, got, Live, o)) \in Nat
      BY <1>2, <1>9
    <3>3. /\ Cardinality(Missed(Staying, got, Live, o)) <= went
          /\ Cardinality(Again(Staying, got, Live, o)) <= came
      BY <1>5, <2>7, <3>1, <3>2
    <3>4. Cardinality(Missed(Staying', got, Live', o)) <= went'
      BY <1>1, <1>5, <1>8, <2>4, <2>5, <2>8, <3>2, <3>3
    <3>5. Cardinality(Again(Staying', got, Live', o)) <= came'
      BY <1>1, <1>5, <1>8, <2>4, <2>5, <2>8, <3>2, <3>3
    <3>6. went' \in Nat /\ came' \in Nat
      BY <1>1, <1>5, <1>8
    <3> QED
      BY <2>8, <3>1, <3>4, <3>5, <3>6
  <2> QED
    BY <1>1, <2>1, <2>2, <2>9 DEF Paid
<1> QED
  BY <1>10, <1>11

\* What goes out of reach is still listed, and no longer among what stays.
LEMMA BarPages ==
    ASSUME Core, Core', Pages, Bar
    PROVE  Pages'
<1> SUFFICES ASSUME call # None, call.kind = "list"
             PROVE  /\ phase = "walk" => Paid(Expected, offset)'
                    /\ phase = "more" => Paid(Live, offset + call.limit)' /\ answer.truncated
  BY DEF Pages, Bar
<1>1. stable' \subseteq stable /\ UNCHANGED <<note, call, phase, todo, saw, offset, got, answer, came, went>>
  BY DEF Bar, walk
<1>2. Live' = Live /\ Expected' = Expected /\ Staying' \subseteq Staying
  BY <1>1 DEF Live, Expected, RootDirs, Seen, Staying
<1>3. Live \subseteq Node /\ Staying \subseteq Live /\ Expected \subseteq Node /\ call.limit \in Nat
  BY Folder
<1>4. offset \in Nat /\ got \in [Node -> Nat] /\ went \in Nat /\ came \in Nat
  BY DEF Core, TypeOK
<1>5. ASSUME NEW P, P \subseteq Node, NEW o \in Nat, Paid(P, o), Live' = Live
      PROVE  /\ Cardinality(Missed(Staying', got, P, o)) + Cardinality(P \ Live) <= went
             /\ Cardinality(Again(Staying', got, P, o)) + Cardinality(Live \ P) <= came
  <2>1. /\ Missed(Staying', got, P, o) \subseteq Missed(Staying, got, P, o)
        /\ Again(Staying', got, P, o) \subseteq Again(Staying, got, P, o)
        /\ Missed(Staying, got, P, o) \subseteq Node /\ Again(Staying, got, P, o) \subseteq Node
        /\ P \ Live \subseteq Node /\ Live \ P \subseteq Node
    BY <1>2, <1>3, <1>5 DEF Missed, Again
  <2>2. /\ Cardinality(Missed(Staying', got, P, o)) <= Cardinality(Missed(Staying, got, P, o))
        /\ Cardinality(Again(Staying', got, P, o)) <= Cardinality(Again(Staying, got, P, o))
        /\ Cardinality(Missed(Staying', got, P, o)) \in Nat /\ Cardinality(Missed(Staying, got, P, o)) \in Nat
        /\ Cardinality(Again(Staying', got, P, o)) \in Nat /\ Cardinality(Again(Staying, got, P, o)) \in Nat
        /\ Cardinality(P \ Live) \in Nat /\ Cardinality(Live \ P) \in Nat
    BY <2>1, SetsOfNodes, SmallerSet
  <2>3. /\ Cardinality(Missed(Staying, got, P, o)) + Cardinality(P \ Live) <= went
        /\ Cardinality(Again(Staying, got, P, o)) + Cardinality(Live \ P) <= came
    BY <1>5 DEF Paid
  <2> QED
    BY <1>4, <2>2, <2>3
<1>6. ASSUME phase = "walk" PROVE Paid(Expected, offset)'
  <2>1. Paid(Expected, offset)
    BY <1>6 DEF Pages
  <2> QED
    BY <1>1, <1>2, <1>3, <1>4, <1>5, <2>1 DEF Paid
<1>7. ASSUME phase = "more" PROVE Paid(Live, offset + call.limit)' /\ answer.truncated
  <2>1. PICK o \in Nat : o = offset + call.limit
    BY <1>3, <1>4
  <2>2. Paid(Live, o) /\ answer.truncated
    BY <1>7, <2>1 DEF Pages
  <2> QED
    BY <1>1, <1>2, <1>3, <1>5, <2>1, <2>2 DEF Paid
<1> QED
  BY <1>6, <1>7

LEMMA PagesStep ==
    ASSUME Core, Pages, [Next]_vars
    PROVE  Pages'
<1>1. Core'
  BY CoreStep
<1>2. CASE Start \/ Visit \/ Page \/ NextPage
  BY <1>1, <1>2, StartPages, VisitPages, PagePages, NextPagePages
<1>3. CASE TooLong \/ Canceled \/ Return \/ Close
  <2>1. phase' \notin {"walk", "more"}
    BY <1>3 DEF TooLong, Canceled, Fail, Return, Close
  <2> QED
    BY <2>1 DEF Pages
<1>4. CASE Enter \/ ReadTags \/ SkipAll
  <2>1. call' = call /\ phase \in {"walk", "tags"}
    BY <1>4 DEF Enter, ReadTags, SkipAll
  <2>2. ASSUME call # None, call.kind = "list" PROVE FALSE
    <3>1. phase = "walk" /\ ~ Full /\ \A n \in todo : n \in Note
      <4>1. phase = "walk"
        BY <2>1, <2>2 DEF Core, AtRest
      <4> QED
        BY <2>2, <4>1, Folder
    <3> QED
      BY <1>4, <3>1, Nodes DEF Enter, ReadTags, SkipAll, First
  <2> QED
    BY <2>1, <2>2 DEF Pages
<1>5. CASE Write \/ Delete \/ Move
  <2>1. PICK new, times : Becomes(new, times)
    BY <1>5 DEF Write, Delete, Move
  <2> QED
    BY <1>1, <2>1, BecomesPages
<1>6. CASE UNCHANGED vars
  <2>1. UNCHANGED <<note, call, phase, todo, saw, offset, got, answer, stable, came, went>>
    BY <1>6 DEF vars, walk, ghost
  <2>2. Live' = Live /\ Staying' = Staying /\ Expected' = Expected
    BY <2>1 DEF Live, Staying, Expected, RootDirs, Seen
  <2> QED
    BY <2>1, <2>2 DEF Pages, Paid
<1>7. CASE Bar
  BY <1>1, <1>7, BarPages
<1> QED
  BY <1>2, <1>3, <1>4, <1>5, <1>6, <1>7 DEF Next

\* After the last page every entry that stays is before the next offset.
LEMMA LastPage ==
    ASSUME Core, Pages, Page, ~ MoreToCome
    PROVE  PagesAreComplete'
<1> DEFINE o == offset + call.limit
<1>1. UNCHANGED <<stable, came, went>> /\ call.kind = "list" /\ phase = "walk"
  BY DEF Page, ghost
<1>2. call # None /\ offset \in Nat /\ got' \in [Node -> Nat] /\ went \in Nat /\ came \in Nat
  BY <1>1, PageStep DEF Core, TypeOK
<1>3. call.limit \in Nat /\ Live \subseteq Node
  BY <1>1, <1>2, Folder
<1>4. ASSUME NEW e \in Staying PROVE Before(Expected, e) < o
  <2>1. e \in Expected /\ Expected \subseteq Node /\ e \in Node /\ Entries = Expected
    BY PageTurns
  <2>2. Before(Expected, e) < Cardinality(Expected) /\ Before(Expected, e) \in Nat
        /\ Cardinality(Expected) \in Nat
    BY <2>1, BeforeIs, SetsOfNodes
  <2>3. ~ (Cardinality(Expected) > offset + call.limit)
    BY <2>1 DEF MoreToCome
  <2> QED
    BY <1>2, <1>3, <2>2, <2>3
<1>5. {e \in Staying : got'[e] = 0} \subseteq Missed(Staying, got', Expected, o)
  BY <1>4 DEF Missed
<1>6. {e \in Staying : got'[e] > 1} \subseteq Again(Staying, got', Expected, o)
  BY DEF Again
<1>7. /\ Cardinality(Missed(Staying, got', Expected, o)) + Cardinality(Expected \ Live) <= went
      /\ Cardinality(Again(Staying, got', Expected, o)) + Cardinality(Live \ Expected) <= came
  BY PageTurns
<1>8. /\ Missed(Staying, got', Expected, o) \subseteq Node /\ Again(Staying, got', Expected, o) \subseteq Node
      /\ Expected \ Live \subseteq Node /\ Live \ Expected \subseteq Node
  BY <1>3, PageTurns DEF Missed, Again
<1> HIDE DEF o
<1>9. Cardinality({e \in Staying : got'[e] = 0}) <= went
  <2>1. /\ Cardinality({e \in Staying : got'[e] = 0}) <= Cardinality(Missed(Staying, got', Expected, o))
        /\ Cardinality({e \in Staying : got'[e] = 0}) \in Nat
        /\ Cardinality(Missed(Staying, got', Expected, o)) \in Nat
    BY <1>5, <1>8, SetsOfNodes, SmallerSet
  <2>2. Cardinality(Expected \ Live) \in Nat
    BY <1>8, SetsOfNodes
  <2> QED
    BY <1>2, <1>7, <2>1, <2>2
<1>10. Cardinality({e \in Staying : got'[e] > 1}) <= came
  <2>1. /\ Cardinality({e \in Staying : got'[e] > 1}) <= Cardinality(Again(Staying, got', Expected, o))
        /\ Cardinality({e \in Staying : got'[e] > 1}) \in Nat
        /\ Cardinality(Again(Staying, got', Expected, o)) \in Nat
    BY <1>6, <1>8, SetsOfNodes, SmallerSet
  <2>2. Cardinality(Live \ Expected) \in Nat
    BY <1>8, SetsOfNodes
  <2> QED
    BY <1>2, <1>7, <2>1, <2>2
<1> QED
  BY <1>1, <1>9, <1>10 DEF PagesAreComplete, Staying

LEMMA CompleteStep ==
    ASSUME Core, Pages, PagesAreComplete, [Next]_vars
    PROVE  PagesAreComplete'
<1> SUFFICES ASSUME Done({"list"})', ~ answer'.truncated
             PROVE  PagesAreComplete'
  BY DEF PagesAreComplete
<1>1. answer' # None /\ call'.kind = "list" /\ ~ answer'.error
  BY DEF Done
<1>2. Core' /\ Pages'
  BY CoreStep, PagesStep
<1>3. phase' = "done" /\ call' # None
  BY <1>1, <1>2 DEF Core, AtRest, Pages, TypeOK
<1>4. CASE Start \/ Enter \/ Visit \/ ReadTags \/ SkipAll \/ NextPage \/ Close
  BY <1>3, <1>4 DEF Start, Enter, Visit, ReadTags, SkipAll, NextPage, Close
<1>5. CASE TooLong \/ Canceled
  <2>1. answer' = [Blank EXCEPT !.error = TRUE]
    BY <1>5 DEF TooLong, Canceled, Fail
  <2> QED
    BY <1>1, <2>1, BlankIs DEF Answer
<1>6. CASE Return
  BY <1>1, <1>6 DEF Return
<1>7. CASE Page
  <2>1. ~ MoreToCome
    BY <1>3, <1>7 DEF Page
  <2> QED
    BY <1>7, <2>1, LastPage
<1>8. CASE Write \/ Delete \/ Move
  <2>1. PICK new, times : Becomes(new, times)
    BY <1>8 DEF Write, Delete, Move
  <2> QED
    BY <1>3, <2>1 DEF Becomes
<1>9. CASE UNCHANGED vars
  BY <1>9 DEF vars, ghost, PagesAreComplete, Done
<1>10. CASE Bar
  BY <1>3, <1>10 DEF Bar
<1> QED
  BY <1>4, <1>5, <1>6, <1>7, <1>8, <1>9, <1>10 DEF Next

\* A client that pages to the end misses at most as many of the entries that stay as have
\* disappeared, and gets at most as many twice as have appeared: for any folder, any
\* size of a page and any number of changes.
THEOREM PagingIsComplete == Spec => []PagesAreComplete
<1>1. Init => Core /\ Pages /\ PagesAreComplete
  <2>1. Init => Pages /\ PagesAreComplete
    BY DEF Init, Pages, PagesAreComplete, Done
  <2> QED
    BY <2>1, InitCore
<1>2. Core /\ Pages /\ PagesAreComplete /\ [Next]_vars => Core' /\ Pages' /\ PagesAreComplete'
  BY CoreStep, PagesStep, CompleteStep
<1> QED
  BY <1>1, <1>2, PTL DEF Spec
===============================================================================
