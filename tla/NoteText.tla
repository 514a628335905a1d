-------------------------------- MODULE NoteText --------------------------------
(***************************************************************************)
(* The text of one note under the calls that edit it by its structure:     *)
(* PatchNote, which addresses a heading, and AddTag, RemoveTag and         *)
(* RenameTag, which address a tag, with the readers that tell a client     *)
(* what the structure is, GetNoteOutline and ListTags.                     *)
(*                                                                         *)
(* The body is a sequence of lines: fence delimiters, headings, and prose, *)
(* which is a sequence of tags and other characters: a backtick (Tick), a  *)
(* space (Space), and one that UTF-8 encodes in several bytes and a tag    *)
(* cannot have, such as a dash (Wide).  Broken is what becomes of it when  *)
(* its first byte is taken for a character, which is a letter.  The        *)
(* tags of the frontmatter are a YAML sequence of entries or a scalar of   *)
(* one entry.  An entry is a sequence of tags: "a, b" is <<a, b>>; empty   *)
(* entries, which all readers skip, the other keys and the comments of the *)
(* frontmatter, final newlines and carriage returns are left out.          *)
(***************************************************************************)
EXTENDS Naturals, FiniteSets, SequencesExt

CONSTANTS
    Tag,
    Tick, Space, Wide, Broken,  \* the other characters of prose
    Title,          \* the texts of headings
    None,           \* no tags in the frontmatter; no open fence
    Notes,          \* the notes to start from
    Contents,       \* what patch_note is given: sequences of lines
    MaxCalls        \* bound on the calls

VARIABLES
    tags,       \* of the frontmatter: [style, entries], or None
    lines,      \* of the body
    last,       \* the last call
    calls

vars == <<tags, lines, last, calls>>

Init ==
    /\ \E n \in Notes : tags = n.tags /\ lines = n.lines
    /\ last = [call |-> "none"]
    /\ calls = 0

------------------------------------------------------------------------------
\* Lines

\* FenceOpener: a line that starts with three backticks is a fence delimiter.
Line(chars) ==
    LET other == {i \in DOMAIN chars : chars[i] # Tick}
        run   == IF other = {} THEN Len(chars) ELSE Min(other) - 1
    IN  IF run < 3 THEN [kind |-> "prose", chars |-> chars]
        ELSE [kind |-> "fence", char |-> "backtick", run |-> run,
              info |-> \E i \in other : chars[i] # Space]

Char == Tag \cup {Tick, Space, Wide, Broken}

Fence   == [kind : {"fence"}, char : {"backtick", "tilde"}, run : Nat, info : BOOLEAN]
Heading == [kind : {"heading"}, level : Nat, text : Title]
Prose   == [kind : {"prose"}, chars : Seq(Char)]

\* Between two tags there is a character; prose does not begin like a fence.
NoteLine ==
    {l \in Fence : l.run >= 3} \cup {l \in Heading : l.level >= 1}
    \cup {l \in Prose : /\ Line(l.chars) = l
                        /\ \A k \in 2..Len(l.chars) : ~ {l.chars[k - 1], l.chars[k]} \subseteq Tag}

Frontmatter ==
    {f \in [style : {"sequence", "scalar"}, entries : Seq(Seq(Tag) \ {<<>>})] :
        f.style = "scalar" => Len(f.entries) = 1}

ASSUME TextConstants ==
    /\ Tag \cap {Tick, Space, Wide, Broken} = {}
    /\ Tick \notin {Space, Wide, Broken} /\ Wide \notin {Space, Broken} /\ Space # Broken
    /\ None \notin NoteLine \cup Frontmatter
    /\ \A n \in Notes : n.tags \in Frontmatter \cup {None} /\ n.lines \in Seq(NoteLine)
    /\ Contents \subseteq Seq(NoteLine) /\ MaxCalls \in Nat

------------------------------------------------------------------------------
\* Fences: the line automaton of StripCodeFences, RemoveTag and renameInlineTag

Closes(line, fence) ==
    line.kind = "fence" /\ line.char = fence.char /\ line.run >= fence.run /\ ~ line.info

FenceStep(fence, line) ==
    IF fence # None THEN (IF Closes(line, fence) THEN None ELSE fence)
    ELSE IF line.kind = "fence" THEN line ELSE None

\* The fence that is open after line i of the text.
OpenAfter(text, i) ==
    LET open[n \in 0..Len(text)] == IF n = 0 THEN None ELSE FenceStep(open[n - 1], text[n])
    IN  open[i]

IsCode(text, i) == OpenAfter(text, i - 1) # None \/ text[i].kind = "fence"

IsProse(text, i) == text[i].kind = "prose" /\ ~ IsCode(text, i)

------------------------------------------------------------------------------
\* Reading tags

TickRunEnd(chars, i) == Min({j \in i..Len(chars) : j = Len(chars) \/ chars[j + 1] # Tick})

CodeStep(chars, s, i) ==
    LET end   == TickRunEnd(chars, i)
        later == {j \in (i + 1)..Len(chars) : chars[j] = Tick}
    IN  IF i < s.next \/ chars[i] # Tick \/ (end = i /\ later = {}) THEN s
        ELSE IF end > i THEN [s EXCEPT !.next = end + 1]
        ELSE [next |-> Min(later) + 1, hidden |-> s.hidden \cup i..Min(later)]

\* stripInlineCode: a single backtick pairs with the next one there is; two or more
\* are passed over.
Hidden(chars) ==
    LET scan[i \in 0..Len(chars)] ==
            IF i = 0 THEN [next |-> 1, hidden |-> {}] ELSE CodeStep(chars, scan[i - 1], i)
    IN  scan[Len(chars)].hidden

FollowsLetter(chars, k) == k > 1 /\ chars[k - 1] = Broken

BeforeLetter(chars, k) == k < Len(chars) /\ chars[k + 1] = Broken

\* The tags a line shows; one that runs into a letter is another tag.
TagsOf(chars) ==
    {IF BeforeLetter(chars, k) THEN <<chars[k], Broken>> ELSE <<chars[k]>> :
        k \in {j \in DOMAIN chars \ Hidden(chars) : chars[j] \in Tag /\ ~ FollowsLetter(chars, j)}}

InlineTags(text) ==
    UNION {TagsOf(text[i].chars) : i \in {n \in DOMAIN text : IsProse(text, n)}}

\* ExtractFrontmatterTags: only a scalar is split at its commas.
FrontmatterTags(fm) ==
    IF fm = None THEN {}
    ELSE IF fm.style = "scalar" THEN {<<t>> : t \in ToSet(fm.entries[1])} ELSE ToSet(fm.entries)

ListTags(fm, text) == FrontmatterTags(fm) \cup InlineTags(text)

------------------------------------------------------------------------------
\* Writing tags

\* (^|[^\p{L}\p{N}_/])#tag([^\p{L}\p{N}_/\-]|$) begins at k; the tag is then at TagOf.
MatchAt(chars, k, tag) ==
    \/ k = 1 /\ chars[1] = tag /\ ~ BeforeLetter(chars, 1)
    \/ /\ k < Len(chars) /\ chars[k + 1] = tag
       /\ chars[k] \notin Tag \cup {Broken} /\ ~ BeforeLetter(chars, k + 1)

TagOf(chars, k, tag) == IF k = 1 /\ chars[1] = tag THEN 1 ELSE k + 1

HitStep(chars, tag, s, k) ==
    IF k < s.next \/ ~ MatchAt(chars, k, tag) THEN s
    ELSE [next |-> TagOf(chars, k, tag) + 2, hits |-> s.hits \cup {TagOf(chars, k, tag)}]

\* The tags that matches from left to right find: each match takes the character
\* after the tag with it, which cannot also come before another one.
Hits(chars, tag) ==
    LET scan[k \in 0..Len(chars)] ==
            IF k = 0 THEN [next |-> 1, hits |-> {}] ELSE HitStep(chars, tag, scan[k - 1], k)
    IN  scan[Len(chars)].hits

\* The sequence without the places that are gone.
Dropping(seq, gone) ==
    LET kept[i \in 0..Len(seq)] ==
            IF i = 0 THEN <<>> ELSE IF i \in gone THEN kept[i - 1] ELSE Append(kept[i - 1], seq[i])
    IN  kept[Len(seq)]

Without_Bug(chars, tag) ==  \* the characters on both sides go
    Dropping(chars, UNION {{k - 1, k, k + 1} : k \in Hits(chars, tag)})

\* RemoveTag keeps the first byte of what is before the tag and nothing of what is
\* after it.
Without(chars, tag) ==
    LET hits  == Hits(chars, tag)
        bytes == [k \in DOMAIN chars |-> IF chars[k] = Wide /\ k + 1 \in hits THEN Broken ELSE chars[k]]
    IN  Dropping(bytes, hits \cup {k + 1 : k \in hits})

Renamed(chars, tag, new) ==
    [k \in DOMAIN chars |-> IF k \in Hits(chars, tag) THEN new ELSE chars[k]]

EditProse(Edit(_)) ==
    lines' = [i \in DOMAIN lines |->
                IF IsProse(lines, i) THEN Line(Edit(lines[i].chars)) ELSE lines[i]]

Call(record) ==
    /\ calls < MaxCalls
    /\ calls' = calls + 1
    /\ last' = record

\* addTagToFrontmatter: a scalar becomes the first entry of a sequence, whatever is
\* in it.
AddToFrontmatter(fm, tag) ==
    LET entries == IF fm = None THEN <<>> ELSE fm.entries
    IN  [style   |-> "sequence",
         entries |-> IF <<tag>> \in ToSet(entries) THEN entries ELSE Append(entries, <<tag>>)]

AddTag(tag) ==
    /\ Call([call |-> "add", tag |-> tag])
    /\ \/ tags' = AddToFrontmatter(tags, tag) /\ UNCHANGED lines
       \/ lines' = Append(lines, [kind |-> "prose", chars |-> <<tag>>]) /\ UNCHANGED tags

RemoveTag_Bug(tag) ==       \* the frontmatter is forgotten
    /\ Call([call |-> "remove", tag |-> tag])
    /\ UNCHANGED tags
    /\ EditProse(LAMBDA chars : Without(chars, tag))

RemoveTag(tag) ==
    /\ Call([call |-> "remove", tag |-> tag])
    /\ tags' = IF tags # None /\ tags.style = "sequence"
               THEN [tags EXCEPT !.entries = Dropping(@, {i \in DOMAIN @ : @[i] = <<tag>>})] ELSE tags
    /\ EditProse(LAMBDA chars : Without(chars, tag))

RenameTag(tag, new) ==
    /\ Call([call |-> "rename", tag |-> tag, new |-> new])
    /\ tags' = IF tags = None THEN None
               ELSE [tags EXCEPT !.entries =
                        [i \in DOMAIN @ |-> IF @[i] = <<tag>> THEN <<new>> ELSE @[i]]]
    /\ EditProse(LAMBDA chars : Renamed(chars, tag, new))

------------------------------------------------------------------------------
\* Headings

IsHeading(text, i) == text[i].kind = "heading"

\* GetNoteOutline, with the line numbers.
Outline(text) == {i \in DOMAIN text : IsHeading(text, i)}

SectionEnd_Bug(text, i) ==      \* the next heading of any level
    LET next == {j \in (i + 1)..Len(text) : IsHeading(text, j)}
    IN  IF next = {} THEN Len(text) ELSE Min(next) - 1

\* The last line of the section of the heading at i.
SectionEnd(text, i) ==
    LET next == {j \in (i + 1)..Len(text) : IsHeading(text, j) /\ text[j].level <= text[i].level}
    IN  IF next = {} THEN Len(text) ELSE Min(next) - 1

\* Without a heading of that text the call is refused and nothing changes.
PatchNote(heading, position, content) ==
    LET found == {i \in DOMAIN lines : IsHeading(lines, i) /\ lines[i].text = heading}
        at    == Min(found)
        end   == SectionEnd(lines, at)
        from(i) == SubSeq(lines, i, Len(lines))
    IN  /\ found # {}
        /\ Call([call |-> "patch", at |-> at, end |-> end, position |-> position, content |-> content])
        /\ lines' = CASE position = "before"       -> SubSeq(lines, 1, at - 1) \o content \o from(at)
                      [] position = "after"        -> SubSeq(lines, 1, end) \o content \o from(end + 1)
                      [] position = "replace_body" -> SubSeq(lines, 1, at) \o content \o from(end + 1)
        /\ UNCHANGED tags

HeadingTexts == {lines[i].text : i \in Outline(lines)}

Next ==
    \/ \E t \in Tag : AddTag(t) \/ RemoveTag(t)
    \/ \E t, u \in Tag : t # u /\ RenameTag(t, u)
    \/ \E h \in HeadingTexts, p \in {"before", "after", "replace_body"}, c \in Contents :
           PatchNote(h, p, c)

Spec == Init /\ [][Next]_vars

------------------------------------------------------------------------------
\* Properties

\* A note is frontmatter and lines; no edit of a tag runs two tags into one another.
TypeOK ==
    /\ tags \in Frontmatter \cup {None}
    /\ lines \in Seq(NoteLine)
    /\ last.call \in {"none", "add", "remove", "rename", "patch"}
    /\ calls \in 0..MaxCalls

Listed == ListTags(tags, lines)

Entry(fm, tag) == fm # None /\ fm.style = "scalar" /\ Len(fm.entries[1]) > 1 /\ tag \in ToSet(fm.entries[1])

\* A tag that has been added is listed from then on, and the list is otherwise the
\* same.  Excepted are a scalar of several tags, which becomes one entry, and a tag
\* added below a code block that is never closed.
AddedTagsAreListed ==
    [][last'.call = "add" /\ calls' # calls =>
        \/ tags' # tags /\ tags # None /\ Len(tags.entries) = 1 /\ Len(tags.entries[1]) > 1
        \/ lines' # lines /\ OpenAfter(lines, Len(lines)) # None
        \/ Listed' = Listed \cup {<<last'.tag>>}]_vars

ProseOf(text) == {text[i].chars : i \in {n \in DOMAIN text : IsProse(text, n)}}

\* No occurrence of the tag is one character from the next.
Apart(chars, tag) == \A k \in 3..Len(chars) : ~ (chars[k - 2] = tag /\ chars[k] = tag)

\* No occurrence is next to a backtick or after a wide character, and the line starts
\* no code block without it.
Clear(chars, tag) ==
    /\ \A k \in 2..Len(chars) : {chars[k - 1], chars[k]} # {tag, Tick}
    /\ \A k \in 2..Len(chars) : <<chars[k - 1], chars[k]>> # <<Wide, tag>>
    /\ Line(Without(chars, tag)).kind = "prose"

\* Removing a tag takes it, and nothing else, off the list of the note, although the
\* removal and the list read code spans and the borders of tags in ways of their own.
\* This holds where its occurrences are apart and clear of both, and
\* the frontmatter does not have it as a scalar.
RemovedTagsAreGone ==
    [][last'.call = "remove" /\ calls' # calls =>
        LET t == last'.tag
        IN  \/ \E chars \in ProseOf(lines) : ~ Apart(chars, t) \/ ~ Clear(chars, t)
            \/ tags # None /\ tags.style = "scalar" /\ t \in ToSet(tags.entries[1])
            \/ Listed' = Listed \ {<<t>>}]_vars

\* Renaming a tag renames it in the list of the note and changes nothing else there,
\* where its occurrences are apart and no scalar has it among others.
RenamedTagsAreListed ==
    [][last'.call = "rename" /\ calls' # calls =>
        LET t == last'.tag
        IN  \/ \E chars \in ProseOf(lines) : ~ Apart(chars, t)
            \/ Entry(tags, t)
            \/ Listed' = {IF x = <<t>> THEN <<last'.new>> ELSE x : x \in Listed}]_vars

\* The three edits of tags and the list of tags agree on what a tag is.
TagEditsAreListed == AddedTagsAreListed /\ RemovedTagsAreGone /\ RenamedTagsAreListed

\* The lines under the heading at i, down to the next heading of its level or above.
Under(text, i) ==
    {j \in (i + 1)..Len(text) :
        \A k \in (i + 1)..j : IsHeading(text, k) => text[k].level > text[i].level}

\* A patch puts its content where it says, takes away the lines under the heading if
\* it replaces them, and every other line stays what it was: code stays code and
\* prose stays prose.  This holds where no line of a code block looks like a heading,
\* and of contents that close the code blocks they open.
PatchesAreLocal ==
    [][/\ last'.call = "patch" /\ calls' # calls
       /\ \A i \in Outline(lines) : ~ IsCode(lines, i)
       /\ OpenAfter(last'.content, Len(last'.content)) = None
       => LET at   == last'.at
            body == Under(lines, at)
            gone == IF last'.position = "replace_body" THEN Cardinality(body) ELSE 0
            cut  == CASE last'.position = "before" -> at - 1
                      [] last'.position = "after" -> at + Cardinality(body)
                      [] last'.position = "replace_body" -> at
            new  == Len(last'.content)
        IN  /\ Len(lines') = Len(lines) - gone + new
            /\ SubSeq(lines', cut + 1, cut + new) = last'.content
            /\ \A i \in DOMAIN lines :
                  LET j == IF i <= cut THEN i ELSE i + new - gone
                  IN  i \in (cut + 1)..(cut + gone)
                      \/ (lines'[j] = lines[i] /\ (IsCode(lines', j) <=> IsCode(lines, i)))]_vars
===============================================================================
