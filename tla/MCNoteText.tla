------------------------------- MODULE MCNoteText -------------------------------
(***************************************************************************)
(* Finite instances of NoteText: notes of one line, with every kind of     *)
(* frontmatter, and notes of several lines, with fences and headings.      *)
(***************************************************************************)
EXTENDS NoteText, TLC

CONSTANTS a, b

ProseText(chars) == [kind |-> "prose", chars |-> chars]
Delimiter(char, info) == [kind |-> "fence", char |-> char, run |-> 3, info |-> info]
Headline(level, text) == [kind |-> "heading", level |-> level, text |-> text]

Chars == UNION {[1..n -> {a, b, Tick, Space, Wide}] : n \in 1..4} \cup [1..5 -> {a, b, Tick, Space}]

\* No two tags without a character between them.
ProseLines ==
    {Line(c) : c \in {d \in Chars : \A k \in 2..Len(d) : ~ {d[k - 1], d[k]} \subseteq Tag}}

TagValues ==
    {None} \cup {[style |-> "scalar", entries |-> <<e>>] : e \in {<<a>>, <<a, b>>}}
           \cup {[style |-> "sequence", entries |-> s] : s \in {<<>>, <<<<b>>, <<a>>>>, <<<<a, b>>>>}}

ProseNotes == [tags : TagValues, lines : {<<l>> : l \in ProseLines}]

BlockLines ==
    {ProseText(<<a>>), ProseText(<<a, Space, Tick, Tick, Tick>>), Delimiter("backtick", FALSE), Delimiter("backtick", TRUE),
     Delimiter("tilde", FALSE), Headline(1, "h"), Headline(2, "h"), Headline(2, "g")}

BlockNotes == [tags : {None}, lines : UNION {[1..n -> BlockLines] : n \in 1..3}]

AllNotes == ProseNotes \cup BlockNotes

TextAndCode ==
    {<<>>, <<ProseText(<<b>>)>>, <<Delimiter("tilde", FALSE)>>,
     <<Delimiter("tilde", TRUE), ProseText(<<b>>), Delimiter("tilde", FALSE)>>}
===============================================================================
