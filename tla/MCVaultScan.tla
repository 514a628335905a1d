------------------------------ MODULE MCVaultScan ------------------------------
(***************************************************************************)
(* A finite instance of VaultScan: C.md, b/v1.2.md, c.md and c.txt, with   *)
(* five texts, so that there are names that differ in case, in the         *)
(* extension, and by a dot that is none.                                   *)
(***************************************************************************)
EXTENDS VaultScan

CONSTANTS plain, linked, long, locked, big

MCLower == [p \in {"C", "c", "v1", "2", "md", "txt"} |-> IF p = "C" THEN "c" ELSE p]

MCParent   == [n \in 1..5 |-> IF n = 3 THEN 2 ELSE Root]
MCFileName == [n \in {1, 3, 4, 5} |-> CASE n = 1 -> <<"C", "md">>
                                        [] n = 3 -> <<"v1", "2", "md">>
                                        [] n = 4 -> <<"c", "md">>
                                        [] n = 5 -> <<"c", "txt">>]
MCPlace    == [n \in {1, 3, 4, 5} |-> CASE n = 1 -> 1 [] n = 3 -> 3 [] OTHER -> 2]
MCText     == {plain, linked, long, locked, big}

MCName == {<<"C", "md">>, <<"v1", "2", "md">>, <<"c", "md">>, <<"c", "txt">>,
           <<"C">>, <<"c">>, <<"v1", "2">>}

To(folder, name) == [folder |-> folder, name |-> name]

\* plain has no tags and links to C, which may be itself; linked has tags and links to
\* b/v1.2.md with and without its path; long has one match before its long line; locked
\* and big are files that matter by what is not seen of them.
MCHits   == [t \in MCText |-> CASE t = plain -> 2 [] t = linked -> 0 [] OTHER -> 1]
MCLongAt == [t \in MCText |-> IF t = long THEN 1 ELSE None]
MCLinks  == [t \in MCText |-> CASE t = plain -> {To(Root, <<"C">>)}
                               [] t = linked -> {To(2, <<"v1", "2">>), To(Root, <<"v1", "2">>)}
                               [] t = big -> {To(Root, <<"c", "md">>)}
                               [] OTHER -> {}]
MCTagged == {linked, big}

MCWanted == {{1, 4}, {3, 4, 5}}

\* Vaults with twins, with every kind of text, with and without a free path.
Vault(a, b, c, d) == [n \in Note |-> CASE n = 1 -> a [] n = 3 -> b [] n = 4 -> c [] OTHER -> d]

MCInitial == {Vault(plain, linked, None, None), Vault(linked, None, plain, big),
              Vault(plain, locked, linked, None), Vault(linked, plain, long, plain)}

\* A file, or the folder with what is in it.
MCFaults == {{}, {1}, {2, 3}}
===============================================================================
