------------------------------ MODULE LinkRewrite ------------------------------
(***************************************************************************)
(* Links between notes, and what move_note does to them (MoveNote and      *)
(* RewriteLinksOnMove with rewriteLine, buildMatchTargets, rewriteTarget   *)
(* and basenameIndex; GetBacklinks).  Calls are taken one at a time here:  *)
(* their interleaving is the subject of VaultNotes.                        *)
(*                                                                         *)
(* A file name is the sequence of its parts between dots, so that          *)
(* v1.2.md is <<"v1", "2", "md">>: filepath.Ext takes off the last part,   *)
(* whatever it means.  A target may have white space before or after it.   *)
(* A line is a sequence of cells, one for each byte that matters: cell k   *)
(* of a piece of text.  Lines are rewritten one by one, and a note is one  *)
(* line here.  Anchors, aliases and the percent-encoding of Markdown links *)
(* travel with the link and are left out.                                  *)
(***************************************************************************)
EXTENDS Naturals, FiniteSets, SequencesExt

CONSTANTS
    Folder,     \* folders of the vault
    Root,       \* the root of the vault; in a target: no folder is named
    Name,       \* names, with and without their extensions
    Path,       \* paths of notes: a folder and a name of two parts or more
    Vaults,     \* the vaults to start from: a line, or Absent, for each path
    Md,         \* the extension of the files that Markdown links lead to
    Width,      \* the number of cells of each name
    MaxMoves,   \* bound on the moves; no call follows the last one
    Absent,     \* no such note
    Ambiguous,  \* what is reported in place of a new link
    Panicked    \* what a slice out of range leaves

VARIABLES
    vault,      \* the line of each note
    last,       \* the last call and its answer
    moves

vars == <<vault, last, moves>>

------------------------------------------------------------------------------
\* Names and targets

HasExt(name)  == Len(name) > 1
TrimExt(name) == IF HasExt(name) THEN Front(name) ELSE name
Stem(path)    == TrimExt(path.name)

Bare(target) == target.folder = Root

Target(link) == [folder |-> link.folder, name |-> link.name]

\* buildMatchTargets: base name or path, with or without extension.
MatchTargets(path) == [folder : {Root, path.folder}, name : {path.name, Stem(path)}]

Trimmed(target) == [target EXCEPT !.name = TrimExt(@)]

\* The test of GetBacklinks, which takes off the white space around a target.
LeadsTo(target, path) ==
    target \in MatchTargets(path) \/ Trimmed(target) \in MatchTargets(path)

\* The test of rewriteLine, which does not: the space after an extension goes with it,
\* any other keeps the target from matching.
Matches(link, path) ==
    \/ link.space = "none" /\ LeadsTo(Target(link), path)
    \/ link.space = "after" /\ HasExt(link.name) /\ Trimmed(Target(link)) \in MatchTargets(path)

RewriteTarget_Bug(target, path) ==      \* the folder is forgotten
    [folder |-> target.folder,
     name   |-> IF HasExt(target.name) THEN path.name ELSE Stem(path)]

RewriteTarget_BugExt(target, path) ==   \* the extension is forgotten
    [folder |-> IF Bare(target) THEN Root ELSE path.folder,
     name   |-> Stem(path)]

\* A bare target stays bare, an extension stays an extension.
RewriteTarget(target, path) ==
    [folder |-> IF Bare(target) THEN Root ELSE path.folder,
     name   |-> IF HasExt(target.name) THEN path.name ELSE Stem(path)]

IsAmbiguous_Bug(target, notes) ==       \* looked up with the extension
    /\ Bare(target)
    /\ Cardinality({p \in notes : Stem(p) = target.name}) > 1

\* basenameIndex, looked up with the stem of a bare target.
IsAmbiguous(target, notes) ==
    /\ Bare(target)
    /\ Cardinality({p \in notes : Stem(p) = TrimExt(target.name)}) > 1

Relink(link, path) ==
    LET target == RewriteTarget(Target(link), path)
    IN  [link EXCEPT !.folder = target.folder, !.name = target.name, !.space = "none"]

------------------------------------------------------------------------------
\* Lines

Size(piece) == 1 + (IF piece.folder = Root THEN 0 ELSE 1)
                 + (IF piece.space = "none" THEN 0 ELSE 1) + Width[piece.name]

\* What has the shape of a link.  A Markdown link names a file with its extension.
Piece == {l \in [kind : {"wiki", "markdown"}, folder : {Root} \cup Folder, name : Name,
                 space : {"none", "before", "after"}] :
            l.kind = "markdown" => HasExt(l.name)}

\* The regular expressions take a Markdown link for one if its path ends in ".md".
EndsInMd(name) == HasExt(name) /\ Last(name) = Md
IsLink(piece)  == piece.kind = "markdown" => EndsInMd(piece.name) /\ piece.space # "after"

Cell  == {c \in [piece : Piece, k : Nat] : c.k \in 1..Size(c.piece)}

Cells(piece) == [k \in 1..Size(piece) |-> [piece |-> piece, k |-> k]]

\* A path is that of a note, which has an extension (IsAllowedExtension).
ASSUME LinkConstants ==
    /\ \A n \in Name : Len(n) \in Nat \ {0} /\ TrimExt(n) \in Name
    /\ IsFiniteSet(Path) /\ Path \subseteq [folder : {Root} \cup Folder, name : Name]
    /\ \A p \in Path : HasExt(p.name)
    /\ Width \in [Name -> Nat]
    /\ Vaults \subseteq [Path -> Seq(Cell) \cup {Absent}]
    /\ MaxMoves \in Nat
    /\ Absent \notin Seq(Cell) /\ Panicked \notin Seq(Cell) /\ Ambiguous \notin Piece

EndOf(line, i) == i + Size(line[i].piece) - 1

\* A whole piece, and a whole link, begins at cell i.
PieceAt(line, i) ==
    /\ line[i].k = 1 /\ EndOf(line, i) <= Len(line)
    /\ SubSeq(line, i, EndOf(line, i)) = Cells(line[i].piece)

LinkAt(line, i) == PieceAt(line, i) /\ IsLink(line[i].piece)

MatchAt(line, i, path) == LinkAt(line, i) /\ Matches(line[i].piece, path)

MatchesOf(line, kind, path) ==
    {i \in DOMAIN line : MatchAt(line, i, path) /\ line[i].piece.kind = kind}

AllMatches(line, path) == MatchesOf(line, "wiki", path) \cup MatchesOf(line, "markdown", path)

\* result[:start] + text + result[end:]
Splice(result, start, end, text) ==
    IF result = Panicked \/ end > Len(result) THEN Panicked
    ELSE SubSeq(result, 1, start - 1) \o text \o SubSeq(result, end + 1, Len(result))

\* The links at the places in starts replaced, from the last to the first, each at the
\* place it has in the old line.
SpliceAll(line, starts, dst, start) ==
    LET from[i \in 1..Len(line) + 1] ==
            IF i > Len(line) THEN start
            ELSE IF i \in starts
            THEN Splice(from[i + 1], i, EndOf(line, i), Cells(Relink(line[i].piece, dst)))
            ELSE from[i + 1]
    IN  from[1]

Replaceable(line, kind, src, notes) ==
    {i \in MatchesOf(line, kind, src) : ~ IsAmbiguous(Target(line[i].piece), notes)}

RewriteLine_Bug(line, src, dst, notes) ==   \* wikilinks are the last that are replaced
    SpliceAll(line, Replaceable(line, "markdown", src, notes), dst,
              SpliceAll(line, Replaceable(line, "wiki", src, notes), dst, line))

\* The list of matches has the wikilinks first and is gone through from its end.
RewriteLine(line, src, dst, notes) ==
    SpliceAll(line, Replaceable(line, "wiki", src, notes), dst,
              SpliceAll(line, Replaceable(line, "markdown", src, notes), dst, line))

------------------------------------------------------------------------------
\* The vault

Notes(v) == {p \in Path : v[p] # Absent}

Nothing == [call |-> "none"]

Init ==
    /\ vault \in Vaults
    /\ last = Nothing
    /\ moves = 0

\* The links of p that are reported, with what becomes of each.
LinksOf(v, p, src, dst, notes) ==
    {[path |-> p, old |-> v[p][i].piece,
      new  |-> IF IsAmbiguous(Target(v[p][i].piece), notes) THEN Ambiguous
               ELSE Relink(v[p][i].piece, dst)] :
        i \in AllMatches(v[p], src)}

\* RewriteLinksOnMove: the walk visits every note but the one at dst.
Visited(v, dst) == Notes(v) \ {dst}

Report_Bug(v, src, dst) ==      \* the index is built without the note at dst
    UNION {LinksOf(v, p, src, dst, Visited(v, dst)) : p \in Visited(v, dst)}

Report(v, src, dst) == UNION {LinksOf(v, p, src, dst, Notes(v)) : p \in Visited(v, dst)}

Renamed(src, dst) == [vault EXCEPT ![dst] = vault[src], ![src] = Absent]

\* Otherwise the call is refused and nothing changes.
CanMove(src, dst) == vault[src] # Absent /\ vault[dst] = Absent

Preview(src, dst) ==
    /\ CanMove(src, dst) /\ moves < MaxMoves
    /\ last' = [call |-> "preview", src |-> src, dst |-> dst, links |-> Report(vault, src, dst)]
    /\ UNCHANGED <<vault, moves>>

\* The file is renamed, then the links are looked for.  A panic ends the call in the
\* middle of the walk, whose order is left open.
MoveNote(src, dst) ==
    /\ CanMove(src, dst) /\ moves < MaxMoves
    /\ moves' = moves + 1
    /\ LET moved   == Renamed(src, dst)
           visited == Visited(moved, dst)
           line    == [p \in visited |-> RewriteLine(moved[p], src, dst, Notes(moved))]
           panics  == {p \in visited : line[p] = Panicked}
       IN  \/ /\ panics = {}
              /\ vault' = [p \in Path |-> IF p \in visited THEN line[p] ELSE moved[p]]
              /\ last' = [call |-> "move", src |-> src, dst |-> dst,
                          links |-> Report(moved, src, dst)]
           \/ /\ panics # {}
              /\ \E done \in SUBSET (visited \ panics) :
                     vault' = [p \in Path |-> IF p \in done THEN line[p] ELSE moved[p]]
              /\ last' = [call |-> "panic", src |-> src, dst |-> dst]

\* updateLinks is false.
MoveOnly(src, dst) ==
    /\ CanMove(src, dst) /\ moves < MaxMoves
    /\ moves' = moves + 1
    /\ vault' = Renamed(src, dst)
    /\ last' = Nothing

Next == \E src, dst \in Path : Preview(src, dst) \/ MoveNote(src, dst) \/ MoveOnly(src, dst)

Spec == Init /\ [][Next]_vars

------------------------------------------------------------------------------
\* Properties

\* A note is a line of cells of links, whatever a splice leaves of them.
TypeOK ==
    /\ vault \in [Path -> Seq(Cell) \cup {Absent}]
    /\ last.call \in {"none", "preview", "move", "panic"}
    /\ moves \in 0..MaxMoves

LinksIn(line) == {line[i].piece : i \in {j \in DOMAIN line : LinkAt(line, j)}}

\* GetBacklinks
Backlinks(v, path) ==
    {p \in Notes(v) \ {path} : \E l \in LinksIn(v[p]) : LeadsTo(Target(l), path)}

\* No matching Markdown link stands before a matching wikilink.
InOrder(line, path) ==
    \A i, j \in AllMatches(line, path) :
        line[i].piece.kind = "markdown" /\ line[j].piece.kind = "wiki" => j < i

\* What a line becomes if each link for which the answer has a new one is replaced,
\* and nothing else is touched.
AsReported(p, line, links) ==
    LET New(l)    == {r.new : r \in {x \in links : x.path = p /\ x.old = l}} \ {Ambiguous}
        Stays(i)  == \A j \in 1..i : LinkAt(line, j) /\ i <= EndOf(line, j)
                                        => New(line[j].piece) = {}
        Starts(i) == LinkAt(line, i) /\ ~ Stays(i)
    IN  FlattenSeq([i \in DOMAIN line |->
            IF Starts(i) THEN Cells(CHOOSE n \in New(line[i].piece) : TRUE)
            ELSE IF Stays(i) THEN <<line[i]>> ELSE <<>>])

Moved == last'.call = "move"

\* A move with its links leaves every other note as its answer says: the links listed
\* with a new text are replaced, at their places, and every other byte stays, however
\* many links share a line and however long the names are; and it does return.  This
\* holds where no matching Markdown link stands before a matching wikilink.
AnswerIsWhatHappened ==
    [][/\ Moved => \A p \in Notes(vault) \ {last'.src} :
            InOrder(vault[p], last'.src) => vault'[p] = AsReported(p, vault[p], last'.links)
       /\ last'.call = "panic" =>
            \E p \in Notes(vault) : ~ InOrder(vault[p], last'.src)]_vars

\* Of the links that get_backlinks takes for links to the moved note, those that
\* rewriteLine sees lead to it after the move, so that it keeps its backlinks; except
\* for a link that is reported as ambiguous, if the name has changed, and a Markdown link
\* to a note that is moved to a name without ".md", which is no link any more.  Those
\* that rewriteLine does not see, for the white space in them, stay as they are, without
\* a word, although they lead nowhere now.  All this where no matching Markdown link
\* stands before a matching wikilink.
BacklinksFollow ==
    [][Moved => \A p \in Notes(vault) \ {last'.src} : \A l \in LinksIn(vault[p]) :
        LET src == last'.src
            dst == last'.dst
        IN  LeadsTo(Target(l), src) /\ InOrder(vault[p], src) =>
            IF Matches(l, src)
            THEN /\ \/ src.name = dst.name
                    \/ [path |-> p, old |-> l, new |-> Ambiguous] \notin last'.links
                 /\ l.kind = "markdown" => EndsInMd(dst.name)
                 => p \in Backlinks(vault', dst)
            ELSE l \in LinksIn(vault'[p])]_vars

\* A dry run lists what the move that follows it does, up to the links of the note to
\* itself, if the name stays: the index of stems, built before the file is renamed
\* by the one and after by the other, is then the same.
PreviewIsExact ==
    [][/\ last.call = "preview" /\ Moved
       /\ last.src = last'.src /\ last.dst = last'.dst
       /\ Stem(last.src) = Stem(last.dst)
       => last'.links = {r \in last.links : r.path # last.src}]_vars

\* What becomes of a bare link to the moved note is decided by the notes that have, after
\* the move, the stem it is looked up by: from two on it stays as it is, and otherwise it
\* is rewritten, also if it leads to another note.  The comment of RewriteLinksOnMove
\* promises that such a link is "left untouched, never guessed at".  It is guessed at if
\* the name changes and one other note has the old one, since the index is built after
\* the rename; and if its target has a dot that is not the extension, so that it leads to
\* notes of two stems, since it is looked up by one of them.
NamesakesDecide ==
    [][Moved => \A p \in Notes(vault) \ {last'.src} : \A l \in LinksIn(vault[p]) :
        LET src    == last'.src
            dst    == last'.dst
            stem   == TrimExt(l.name)
            Others == {q \in Notes(vault) \ {src} : Stem(q) = stem}
        IN  /\ Bare(Target(l)) /\ Matches(l, src) /\ InOrder(vault[p], src)
            => IF Cardinality(Others) >= (IF Stem(dst) = stem THEN 1 ELSE 2)
               THEN l \in LinksIn(vault'[p])
               ELSE IsLink(Relink(l, dst)) => Relink(l, dst) \in LinksIn(vault'[p])]_vars

------------------------------------------------------------------------------
\* What the comments say and the code does not do

\* "Matches are processed right-to-left by byte offset so earlier replacements don't
\* invalidate later ones' indices": lines stay lines of whole links.
LinesStayWhole ==
    /\ last.call # "panic"
    /\ \A p \in Notes(vault) : \A i \in DOMAIN vault[p] :
           \E j \in 1..i : PieceAt(vault[p], j) /\ i <= EndOf(vault[p], j)
===============================================================================
