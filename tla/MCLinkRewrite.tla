----------------------------- MODULE MCLinkRewrite -----------------------------
(***************************************************************************)
(* A finite instance of LinkRewrite: a note with up to two links among up  *)
(* to two other notes, each of which links to itself.                      *)
(***************************************************************************)
EXTENDS LinkRewrite, TLC

CONSTANT d  \* a folder

Names == {<<"a">>, <<"a", "md">>, <<"a", "txt">>, <<"a", "2">>, <<"a", "2", "md">>,
          <<"b">>, <<"b", "md">>}

\* b stands for a shorter name.
Widths == [n \in Names |-> Len(n) + IF n[1] = "a" THEN 1 ELSE 0]

Paths == [folder : {Root, d}, name : {<<"a", "md">>, <<"b", "md">>}]
            \cup [folder : {d}, name : {<<"a", "2", "md">>, <<"a", "txt">>}]

Targets == [folder : {Root, d}, name : {<<"a">>, <<"a", "md">>, <<"a", "2">>}]

LinkTo(kind, t, space) == [kind |-> kind, folder |-> t.folder, name |-> t.name, space |-> space]

WikiLinks     == {LinkTo("wiki", t, "none") : t \in Targets}
SpacedLinks   == {LinkTo("wiki", [folder |-> Root, name |-> n], "after") : n \in {<<"a">>, <<"a", "md">>}}
                    \cup {LinkTo("wiki", [folder |-> d, name |-> <<"a">>], "before")}
MarkdownLinks == {LinkTo("markdown", t, "none") : t \in {u \in Targets : u.name = <<"a", "md">>}}
PlainLinks    == WikiLinks \cup MarkdownLinks

Lines == {Cells(l) : l \in PlainLinks \cup SpacedLinks}
            \cup {Cells(l) \o Cells(m) : l, m \in PlainLinks}
            \cup {Cells(l) \o Cells(m) : l \in SpacedLinks, m \in MarkdownLinks}

Linker == [folder |-> Root, name |-> <<"b", "md">>]

SelfLink(path) == Cells(LinkTo("wiki", [folder |-> Root, name |-> Stem(path)], "none"))

SmallVaults ==
    {[p \in Path |-> IF p = Linker THEN line
                     ELSE IF p \in others THEN SelfLink(p) ELSE Absent] :
        line \in Lines, others \in {s \in SUBSET (Path \ {Linker}) : Cardinality(s) <= 2}}
===============================================================================
