--------------------------- MODULE LinkRewriteProofs ---------------------------
(***************************************************************************)
(* Moves and links, for any names, any number of notes and any number of   *)
(* links in a line: that splicing from the right leaves every other byte   *)
(* where it was (SplicesAre), and from it what an answer says of a move,   *)
(* who still links to the note, and which links are left alone.            *)
(***************************************************************************)
EXTENDS LinkRewrite, SequenceTheorems, NaturalsInduction, FiniteSetTheorems, TLAPS

------------------------------------------------------------------------------
\* Induction on sets of numbers, and recursion

LEMMA Upward ==
    ASSUME NEW n \in Nat, NEW T, 0 \in T, \A k \in 0..n - 1 : k \in T => k + 1 \in T
    PROVE  \A k \in 0..n : k \in T
<1> DEFINE U == {k \in 0..n : k \notin T}
<1> SUFFICES ASSUME U # {} PROVE FALSE
  OBVIOUS
<1>1. U \subseteq Nat /\ U # {} /\ U \subseteq 0..n /\ \A k \in U : k \notin T
  OBVIOUS
<1>2. \A k \in 0..n : k \notin U => k \in T
  OBVIOUS
<1> HIDE DEF U
<1>3. PICK u \in U : \A y \in U : ~ (<<y, u>> \in OpToRel(<, Nat))
  BY <1>1, WFMin, NatLessThanWellFounded
<1>4. u \in Nat /\ u <= n /\ u \notin T /\ u # 0
  <2>1. u \in U /\ u \in 0..n /\ u \notin T
    BY <1>1, <1>3
  <2>2. u # 0
    BY <2>1
  <2> QED
    BY <2>1, <2>2
<1>5. u - 1 \in Nat /\ u - 1 \in 0..n - 1 /\ u - 1 \in 0..n /\ (u - 1) + 1 = u
  BY <1>4
<1>6. u - 1 \notin U
  <2>1. u - 1 < u
    BY <1>4
  <2>2. <<u - 1, u>> \in OpToRel(<, Nat)
    BY <1>4, <1>5, <2>1 DEF OpToRel
  <2> QED
    BY <1>3, <2>2
<1> QED
  BY <1>2, <1>4, <1>5, <1>6

LEMMA Downward ==
    ASSUME NEW lo \in Nat, NEW hi \in Nat, lo <= hi, NEW T, hi \in T,
           \A i \in lo..hi - 1 : i + 1 \in T => i \in T
    PROVE  \A i \in lo..hi : i \in T
<1> DEFINE U == {k \in 0..hi - lo : hi - k \in T}
<1>1. hi - lo \in Nat /\ 0 \in U
  OBVIOUS
<1>2. ASSUME NEW k \in 0..hi - lo - 1, k \in U PROVE k + 1 \in U
  <2>1. hi - (k + 1) \in lo..hi - 1 /\ (hi - (k + 1)) + 1 = hi - k
    OBVIOUS
  <2>2. hi - k \in T
    BY <1>2
  <2>3. hi - (k + 1) \in T
    BY <2>1, <2>2
  <2> QED
    BY <2>3
<1> HIDE DEF U
<1>3. \A k \in 0..hi - lo : k \in U
  BY <1>1, <1>2, Upward
<1>4. ASSUME NEW i \in lo..hi PROVE i \in T
  <2>1. hi - i \in 0..hi - lo /\ hi - (hi - i) = i
    OBVIOUS
  <2> QED
    BY <1>3, <2>1 DEF U
<1> QED
  BY <1>4

Iterates(f, S, b, g) ==
    f \in [Nat -> S] /\ f[0] = b /\ \A n \in Nat : f[n + 1] = g[<<n, f[n]>>]

LEMMA Recursion ==
    ASSUME NEW S, NEW b \in S, NEW g \in [Nat \X S -> S]
    PROVE  \E f : Iterates(f, S, b, g)
<1> DEFINE R(n, h) == /\ h \in [0..n -> S] /\ h[0] = b
                      /\ \A k \in 0..n - 1 : h[k + 1] = g[<<k, h[k]>>]
<1>1. ASSUME NEW n \in Nat PROVE \E h : R(n, h)
  <2> DEFINE T == {k \in 0..n : \E h : R(k, h)}
  <2>1. 0 \in T
    <3>1. R(0, [k \in 0..0 |-> b])
      OBVIOUS
    <3>2. \E h : R(0, h)
      <4> HIDE DEF R
      <4> QED
        BY <3>1
    <3> QED
      BY <3>2
  <2>2. ASSUME NEW k \in 0..n - 1, k \in T PROVE k + 1 \in T
    <3>1. PICK h : R(k, h)
      BY <2>2
    <3> DEFINE e == [j \in 0..k + 1 |-> IF j = k + 1 THEN g[<<k, h[k]>>] ELSE h[j]]
    <3>2. k \in Nat /\ k + 1 \in 0..n /\ h[k] \in S
      BY <3>1
    <3>3. g[<<k, h[k]>>] \in S
      BY <3>2
    <3>4. e \in [0..k + 1 -> S] /\ e[0] = b
      BY <3>1, <3>2, <3>3
    <3>5. ASSUME NEW j \in 0..(k + 1) - 1 PROVE e[j + 1] = g[<<j, e[j]>>]
      <4>1. j \in 0..k /\ j # k + 1 /\ e[j] = h[j]
        BY <3>2
      <4>2. CASE j = k
        <5>1. k + 1 \in 0..k + 1
          BY <3>2
        <5>2. e[k + 1] = g[<<k, h[k]>>]
          BY <5>1
        <5> QED
          BY <4>1, <4>2, <5>2
      <4>3. CASE j # k
        <5>1. j \in 0..k - 1 /\ j + 1 \in 0..k /\ j + 1 # k + 1
          BY <3>2, <4>1, <4>3
        <5> QED
          BY <3>1, <4>1, <5>1
      <4> QED
        BY <4>2, <4>3
    <3>6. R(k + 1, e)
      BY <3>4, <3>5
    <3>7. \E h2 : R(k + 1, h2)
      <4> HIDE DEF R, e
      <4> QED
        BY <3>6
    <3> QED
      BY <3>2, <3>7
  <2> HIDE DEF T
  <2>3. n \in T
    BY <2>1, <2>2, Upward
  <2> QED
    BY <2>3 DEF T
<1>2. ASSUME NEW n \in Nat, NEW m \in Nat, NEW h, NEW e, R(n, h), R(m, e), n <= m
      PROVE  \A k \in 0..n : h[k] = e[k]
  <2> DEFINE T == {k \in 0..n : h[k] = e[k]}
  <2>1. 0 \in T
    BY <1>2
  <2>2. ASSUME NEW k \in 0..n - 1, k \in T PROVE k + 1 \in T
    <3>1. k \in 0..m - 1 /\ k + 1 \in 0..n
      BY <1>2
    <3>2. h[k + 1] = g[<<k, h[k]>>] /\ e[k + 1] = g[<<k, e[k]>>] /\ h[k] = e[k]
      BY <1>2, <2>2, <3>1
    <3> QED
      BY <3>1, <3>2
  <2> HIDE DEF T
  <2>3. \A k \in 0..n : k \in T
    BY <2>1, <2>2, Upward
  <2> QED
    BY <2>3 DEF T
<1> DEFINE H(n) == CHOOSE h : R(n, h)
           f == [n \in Nat |-> H(n)[n]]
<1>3. ASSUME NEW n \in Nat PROVE R(n, H(n))
  <2> HIDE DEF R
  <2> QED
    BY <1>1, Zenon
<1>4. f[0] = b
  <2>1. R(0, H(0))
    BY <1>3
  <2> HIDE DEF H
  <2> QED
    BY <2>1
<1>5. ASSUME NEW n \in Nat PROVE f[n] \in S /\ f[n + 1] = g[<<n, f[n]>>]
  <2>1. R(n, H(n)) /\ R(n + 1, H(n + 1)) /\ n + 1 \in Nat /\ n <= n + 1
    <3> HIDE DEF R, H
    <3> QED
      BY <1>3
  <2>2. H(n)[n] = H(n + 1)[n]
    <3> HIDE DEF R, H
    <3>1. \A k \in 0..n : H(n)[k] = H(n + 1)[k]
      BY <1>2, <2>1
    <3> QED
      BY <3>1
  <2> HIDE DEF H
  <2>3. f[n] = H(n)[n] /\ f[n + 1] = H(n + 1)[n + 1]
    BY <2>1
  <2>4. H(n)[n] \in S
    BY <2>1
  <2>5. H(n + 1)[n + 1] = g[<<n, H(n + 1)[n]>>]
    BY <2>1
  <2> QED
    BY <2>2, <2>3, <2>4, <2>5
<1> HIDE DEF f
<1>6. f \in [Nat -> S]
  BY <1>5 DEF f
<1>7. Iterates(f, S, b, g)
  BY <1>4, <1>5, <1>6 DEF Iterates
<1> QED
  BY <1>7

------------------------------------------------------------------------------
\* Names, links and lines

Line == Seq(Cell)

LEMMA Pieces ==
    ASSUME NEW l \in Piece
    PROVE  /\ l.name \in Name /\ l.folder \in {Root} \cup Folder /\ l.kind \in {"wiki", "markdown"}
           /\ Size(l) \in Nat /\ Size(l) >= 1
           /\ Cells(l) \in Line /\ Len(Cells(l)) = Size(l)
           /\ \A k \in 1..Size(l) : Cells(l)[k] = [piece |-> l, k |-> k]
<1>1. l.name \in Name /\ l.folder \in {Root} \cup Folder /\ l.kind \in {"wiki", "markdown"}
  BY DEF Piece
<1>2. Width[l.name] \in Nat
  BY <1>1, LinkConstants
<1>3. Size(l) \in Nat /\ Size(l) >= 1
  BY <1>2 DEF Size
<1>4. \A k \in 1..Size(l) : [piece |-> l, k |-> k] \in Cell
  BY <1>3 DEF Cell
<1>5. Cells(l) \in [1..Size(l) -> Cell]
  BY <1>4 DEF Cells
<1>6. Cells(l) \in Line /\ Len(Cells(l)) = Size(l)
  BY <1>3, <1>5 DEF Line
<1> QED
  BY <1>1, <1>3, <1>6 DEF Cells

LEMMA Names ==
    ASSUME NEW path \in Path
    PROVE  /\ path.name \in Name /\ path.folder \in {Root} \cup Folder /\ HasExt(path.name)
           /\ Stem(path) \in Name /\ Stem(path) = TrimExt(path.name)
BY LinkConstants DEF Stem

\* The new link has the shape of one, and leads to the note in its new place.
LEMMA RelinkIs ==
    ASSUME NEW l \in Piece, NEW path \in Path
    PROVE  /\ Relink(l, path) \in Piece /\ LeadsTo(Target(Relink(l, path)), path)
           /\ (l.kind = "markdown" => EndsInMd(path.name)) => IsLink(Relink(l, path))
<1> DEFINE t == RewriteTarget(Target(l), path)
<1>1. /\ t.folder \in {Root, path.folder} /\ t.name \in {path.name, Stem(path)}
      /\ HasExt(l.name) => HasExt(t.name)
  BY Names DEF RewriteTarget, Target
<1>1a. HasExt(l.name) => t.name = path.name
  BY DEF RewriteTarget, Target
<1>2. t = [folder |-> t.folder, name |-> t.name]
  BY DEF RewriteTarget
<1>3. t.folder \in {Root} \cup Folder /\ t.name \in Name
  BY <1>1, Names
<1> DEFINE r == [l EXCEPT !.folder = t.folder, !.name = t.name, !.space = "none"]
<1>4. Relink(l, path) = r
  BY DEF Relink
<1> HIDE DEF t
<1>5. r.kind = l.kind /\ r.folder = t.folder /\ r.name = t.name /\ r.space = "none"
  BY DEF Piece
<1>6. r \in [kind : {"wiki", "markdown"}, folder : {Root} \cup Folder, name : Name,
             space : {"none", "before", "after"}]
  BY <1>3 DEF Piece
<1>7. r.kind = "markdown" => HasExt(r.name)
  BY <1>1, <1>5 DEF Piece
<1>8. r \in Piece
  BY <1>6, <1>7 DEF Piece
<1>9. Target(r) \in MatchTargets(path)
  BY <1>1, <1>5 DEF Target, MatchTargets
<1>10. (l.kind = "markdown" => EndsInMd(path.name)) => IsLink(r)
  <2>1. l.kind = "markdown" => HasExt(l.name)
    BY DEF Piece
  <2> HIDE DEF r
  <2> QED
    BY <1>1a, <1>5, <2>1 DEF IsLink
<1> QED
  BY <1>4, <1>8, <1>9, <1>10 DEF LeadsTo

LEMMA LineCells ==
    ASSUME NEW line \in Line
    PROVE  /\ Len(line) \in Nat /\ DOMAIN line = 1..Len(line)
           /\ \A i \in 1..Len(line) : /\ line[i] \in Cell /\ line[i].piece \in Piece
                                      /\ line[i].k \in 1..Size(line[i].piece)
                                      /\ line[i] = [piece |-> line[i].piece, k |-> line[i].k]
BY DEF Line, Cell

\* The cells of a whole link.
LEMMA Span ==
    ASSUME NEW line \in Line, NEW i \in DOMAIN line, LinkAt(line, i)
    PROVE  /\ i \in 1..Len(line) /\ line[i].piece \in Piece
           /\ EndOf(line, i) \in i..Len(line) /\ EndOf(line, i) = i + Size(line[i].piece) - 1
           /\ \A j \in i..EndOf(line, i) :
                 line[j].k = j - i + 1 /\ line[j].piece = line[i].piece
<1> DEFINE e == EndOf(line, i)
           l == line[i].piece
<1>1. i \in 1..Len(line) /\ l \in Piece /\ Len(line) \in Nat
  BY LineCells
<1>2. Size(l) \in Nat /\ Size(l) >= 1 /\ e = i + Size(l) - 1
  BY <1>1, Pieces DEF EndOf
<1>3. e \in i..Len(line)
  BY <1>1, <1>2 DEF LinkAt, PieceAt
<1>4. SubSeq(line, i, e) = Cells(l)
  BY DEF LinkAt, PieceAt
<1> HIDE DEF e, l
<1>5. ASSUME NEW j \in i..e
      PROVE  line[j].k = j - i + 1 /\ line[j].piece = l
  <2>1. j - i + 1 \in 1..Size(l) /\ i \in Int /\ e \in Int
    BY <1>1, <1>2, <1>3
  <2>2. ASSUME NEW k \in i..e PROVE line[k] \in Cell
    <3>1. k \in 1..Len(line)
      BY <1>1, <1>3
    <3> QED
      BY <3>1, LineCells
  <2>3. SubSeq(line, i, e)[j - i + 1] = line[i + (j - i + 1) - 1]
    BY <1>2, <2>1, <2>2, SubSeqProperties
  <2>4. Cells(l)[j - i + 1] = [piece |-> l, k |-> j - i + 1]
    BY <1>1, <2>1, Pieces
  <2>5. i + (j - i + 1) - 1 = j
    BY <1>1
  <2> QED
    BY <1>4, <2>3, <2>4, <2>5
<1> QED
  BY <1>1, <1>2, <1>3, <1>5 DEF e, l

\* Whole links do not overlap.
LEMMA Disjoint ==
    ASSUME NEW line \in Line, NEW i \in DOMAIN line, NEW j \in DOMAIN line,
           LinkAt(line, i), LinkAt(line, j), i < j
    PROVE  EndOf(line, i) < j
<1>1. i \in Nat /\ j \in Nat /\ EndOf(line, i) \in Nat
  BY LineCells, Span
<1>2. ASSUME j <= EndOf(line, i) PROVE FALSE
  <2>1. j \in i..EndOf(line, i)
    BY <1>1, <1>2
  <2>2. line[j].k = j - i + 1
    BY <2>1, Span
  <2>3. line[j].k = 1
    BY DEF LinkAt, PieceAt
  <2> QED
    BY <1>1, <2>2, <2>3
<1> QED
  BY <1>1, <1>2

Result == Line \cup {Panicked}

LEMMA SpliceType ==
    ASSUME NEW r \in Result, NEW i \in Nat, i >= 1, NEW e \in Nat, i <= e, NEW text \in Line
    PROVE  /\ Splice(r, i, e, text) \in Result
           /\ r \in Line /\ e <= Len(r) =>
                 /\ Splice(r, i, e, text) = SubSeq(r, 1, i - 1) \o text \o SubSeq(r, e + 1, Len(r))
                 /\ Splice(r, i, e, text) \in Line
<1>1. r \in Line => r # Panicked
  BY LinkConstants DEF Line
<1>2. ASSUME r \in Line, e <= Len(r)
      PROVE  SubSeq(r, 1, i - 1) \o text \o SubSeq(r, e + 1, Len(r)) \in Line
  <2>1. Len(r) \in Nat /\ \A k \in 1..Len(r) : r[k] \in Cell
    BY <1>2, LineCells
  <2>2. SubSeq(r, 1, i - 1) \in Line
    <3>1. \A k \in 1..i - 1 : r[k] \in Cell
      BY <1>2, <2>1
    <3> QED
      BY <3>1, SubSeqProperties DEF Line
  <2>3. SubSeq(r, e + 1, Len(r)) \in Line
    <3>1. \A k \in e + 1..Len(r) : r[k] \in Cell
      BY <2>1
    <3> QED
      BY <2>1, <3>1, SubSeqProperties DEF Line
  <2> QED
    BY <2>2, <2>3, ConcatProperties DEF Line
<1>3. ASSUME r \in Line, ~ (e <= Len(r)) PROVE Splice(r, i, e, text) = Panicked
  <2>1. e > Len(r)
    BY <1>3, LineCells
  <2> QED
    BY <2>1 DEF Splice
<1>4. ASSUME r \in Line, e <= Len(r)
      PROVE  Splice(r, i, e, text) = SubSeq(r, 1, i - 1) \o text \o SubSeq(r, e + 1, Len(r))
  <2>1. ~ (e > Len(r))
    BY <1>4, LineCells
  <2> QED
    BY <1>1, <1>4, <2>1 DEF Splice
<1>5. r = Panicked => Splice(r, i, e, text) = Panicked
  BY DEF Splice
<1> QED
  BY <1>2, <1>3, <1>4, <1>5 DEF Result

\* The function behind SpliceAll, from the last place to the first.
FoldsFrom(from, line, starts, dst, start) ==
    /\ from \in [1..Len(line) + 1 -> Result] /\ from[Len(line) + 1] = start
    /\ \A i \in 1..Len(line) :
          from[i] = IF i \in starts
                    THEN Splice(from[i + 1], i, EndOf(line, i), Cells(Relink(line[i].piece, dst)))
                    ELSE from[i + 1]

LEMMA SpliceAllIs ==
    ASSUME NEW line \in Line, NEW dst \in Path, NEW start \in Result,
           NEW starts, starts \subseteq {i \in DOMAIN line : LinkAt(line, i)}
    PROVE  \E from : /\ FoldsFrom(from, line, starts, dst, start)
                     /\ SpliceAll(line, starts, dst, start) = from[1]
<1> DEFINE n == Len(line)
           At(i, r) == IF i \in starts
                       THEN Splice(r, i, EndOf(line, i), Cells(Relink(line[i].piece, dst))) ELSE r
<1>1. n \in Nat
  BY LineCells
<1>2. ASSUME NEW i \in Int, NEW r \in Result PROVE At(i, r) \in Result
  <2>1. CASE i \in starts
    <3>1. i \in DOMAIN line /\ LinkAt(line, i)
      BY <2>1
    <3>2. /\ i \in Nat /\ i >= 1 /\ EndOf(line, i) \in Nat /\ i <= EndOf(line, i)
          /\ line[i].piece \in Piece
      BY <1>1, <3>1, Span
    <3>3. Cells(Relink(line[i].piece, dst)) \in Line
      BY <3>2, RelinkIs, Pieces
    <3> QED
      BY <2>1, <3>2, <3>3, SpliceType
  <2> QED
    BY <2>1
<1> HIDE DEF At
<1> DEFINE g == [p \in Nat \X Result |-> At(n - p[1], p[2])]
<1>3. g \in [Nat \X Result -> Result]
  BY <1>1, <1>2
<1>4. \A k \in Nat, r \in Result : g[<<k, r>>] = At(n - k, r)
  OBVIOUS
<1> HIDE DEF g, n
<1>5. PICK f : Iterates(f, Result, start, g)
  BY <1>3, Recursion, Zenon
<1> USE <1>5 DEF Iterates
<1> DEFINE h == [i \in 1..n + 1 |-> f[n + 1 - i]]
<1>6. \A i \in 1..n + 1 : n + 1 - i \in Nat /\ h[i] = f[n + 1 - i]
  BY <1>1
<1>7. h \in [1..n + 1 -> Result] /\ h[n + 1] = start
  BY <1>1, <1>5, <1>6
<1>8. ASSUME NEW i \in 1..n PROVE h[i] = At(i, h[i + 1])
  <2>1. n - i \in Nat /\ n + 1 - i = (n - i) + 1 /\ n + 1 - (i + 1) = n - i /\ n - (n - i) = i
    BY <1>1
  <2>2. h[i] = f[(n - i) + 1] /\ h[i + 1] = f[n - i]
    BY <1>1, <2>1
  <2>3. f[(n - i) + 1] = g[<<n - i, f[n - i]>>] /\ f[n - i] \in Result
    BY <1>5, <2>1
  <2> QED
    BY <1>4, <2>1, <2>2, <2>3
<1> DEFINE E(e) == e = [i \in 1..n + 1 |-> IF i > n THEN start ELSE At(i, e[i + 1])]
<1>9. E(h)
  <2> DEFINE e == [i \in 1..n + 1 |-> IF i > n THEN start ELSE At(i, h[i + 1])]
  <2>1. ASSUME NEW i \in 1..n + 1 PROVE h[i] = e[i]
    <3>1. CASE i > n
      <4>1. i = n + 1
        BY <1>1, <3>1
      <4> QED
        BY <1>7, <3>1, <4>1
    <3>2. CASE ~ (i > n)
      <4>1. i \in 1..n
        BY <1>1, <3>2
      <4> QED
        BY <1>8, <3>2, <4>1
    <3> QED
      BY <3>1, <3>2
  <2>2. e = [i \in 1..n + 1 |-> e[i]] /\ h = [i \in 1..n + 1 |-> h[i]]
    BY <1>7
  <2> HIDE DEF e, h
  <2>3. h = e
    BY <2>1, <2>2
  <2> QED
    BY <2>3 DEF e
<1> DEFINE from == CHOOSE e : E(e)
<1>10. E(from)
  <2> HIDE DEF E, h
  <2> QED
    BY <1>9, Zenon
<1>11. SpliceAll(line, starts, dst, start) = from[1]
  BY DEF SpliceAll, At, n
<1> HIDE DEF from
<1>12. from[n + 1] = start /\ \A i \in 1..n : from[i] = At(i, from[i + 1])
  <2>1. \A i \in 1..n + 1 : from[i] = IF i > n THEN start ELSE At(i, from[i + 1])
    BY <1>10
  <2> QED
    BY <1>1, <2>1
<1>13. \A i \in 1..n + 1 : from[i] \in Result
  <2> DEFINE T == {i \in 1..n + 1 : from[i] \in Result}
  <2>1. n + 1 \in T
    BY <1>1, <1>12
  <2>2. ASSUME NEW i \in 1..(n + 1) - 1, i + 1 \in T PROVE i \in T
    BY <1>1, <1>2, <1>12, <2>2
  <2> HIDE DEF T
  <2>3. \A i \in 1..n + 1 : i \in T
    <3>1. 1 \in Nat /\ n + 1 \in Nat /\ 1 <= n + 1
      BY <1>1
    <3> QED
      BY <2>1, <2>2, <3>1, Downward
  <2> QED
    BY <2>3 DEF T
<1>14. from \in [1..n + 1 -> Result]
  <2>1. DOMAIN from = 1..n + 1 /\ from = [i \in 1..n + 1 |-> from[i]]
    BY <1>10
  <2> QED
    BY <1>13, <2>1
<1>15. FoldsFrom(from, line, starts, dst, start)
  BY <1>12, <1>14 DEF n, At, FoldsFrom
<1> QED
  BY <1>11, <1>15

LEMMA SpliceAllType ==
    ASSUME NEW line \in Line, NEW dst \in Path, NEW start \in Result,
           NEW starts, starts \subseteq {i \in DOMAIN line : LinkAt(line, i)}
    PROVE  SpliceAll(line, starts, dst, start) \in Result
<1>1. PICK from : FoldsFrom(from, line, starts, dst, start)
                    /\ SpliceAll(line, starts, dst, start) = from[1]
  BY SpliceAllIs
<1>2. 1 \in 1..Len(line) + 1
  BY LineCells
<1> QED
  BY <1>1, <1>2 DEF FoldsFrom

LEMMA Links ==
    ASSUME NEW line \in Line, NEW kind, NEW src, NEW notes
    PROVE  Replaceable(line, kind, src, notes) \subseteq {i \in DOMAIN line : LinkAt(line, i)}
BY DEF Replaceable, MatchesOf, MatchAt

\* A line that is rewritten is a line, or the call panics.
LEMMA RewriteType ==
    ASSUME NEW line \in Line, NEW src \in Path, NEW dst \in Path, NEW notes
    PROVE  RewriteLine(line, src, dst, notes) \in Result
<1>1. ASSUME NEW kind, NEW start \in Result
      PROVE  SpliceAll(line, Replaceable(line, kind, src, notes), dst, start) \in Result
  <2> DEFINE starts == Replaceable(line, kind, src, notes)
  <2>1. starts \subseteq {i \in DOMAIN line : LinkAt(line, i)}
    BY Links
  <2> HIDE DEF starts
  <2> QED
    BY <2>1, SpliceAllType DEF starts
<1>2. line \in Result
  BY DEF Result
<1> QED
  BY <1>1, <1>2 DEF RewriteLine

------------------------------------------------------------------------------
\* Types

Typed(v) == v \in [Path -> Line \cup {Absent}]

LEMMA NotesAre ==
    ASSUME NEW v, Typed(v)
    PROVE  Notes(v) \subseteq Path /\ \A p \in Path : p \in Notes(v) <=> v[p] \in Line
BY LinkConstants DEF Notes, Typed, Line

LEMMA RenamedIs ==
    ASSUME Typed(vault), NEW src \in Path, NEW dst \in Path, CanMove(src, dst)
    PROVE  /\ Typed(Renamed(src, dst)) /\ src # dst
           /\ Renamed(src, dst)[dst] = vault[src] /\ Renamed(src, dst)[src] = Absent
           /\ \A p \in Path \ {src, dst} : Renamed(src, dst)[p] = vault[p]
           /\ Notes(Renamed(src, dst)) = (Notes(vault) \ {src}) \cup {dst}
           /\ src \in Notes(vault) /\ dst \notin Notes(vault)
           /\ Visited(Renamed(src, dst), dst) = Notes(vault) \ {src}
BY DEF CanMove, Renamed, Typed, Notes, Visited

\* A note is a line of cells or is not there, also after any number of splices, in and out
\* of order (rewriteLine, MoveNote).
THEOREM TypeCorrect == Spec => []TypeOK
<1>1. Init => TypeOK
  <2> SUFFICES ASSUME Init PROVE TypeOK
    OBVIOUS
  <2>1. vault \in [Path -> Seq(Cell) \cup {Absent}]
    BY LinkConstants DEF Init
  <2>2. moves \in 0..MaxMoves
    BY LinkConstants DEF Init
  <2> QED
    BY <2>1, <2>2 DEF Init, Nothing, TypeOK
<1>2. TypeOK /\ [Next]_vars => TypeOK'
  <2> SUFFICES ASSUME TypeOK, [Next]_vars PROVE TypeOK'
    OBVIOUS
  <2>1. Typed(vault) /\ moves \in 0..MaxMoves /\ MaxMoves \in Nat
    BY LinkConstants DEF TypeOK, Typed, Line
  <2>2. CASE UNCHANGED vars
    BY <2>2 DEF vars, TypeOK
  <2>3. ASSUME NEW src \in Path, NEW dst \in Path, Preview(src, dst) PROVE TypeOK'
    BY <2>3 DEF Preview, TypeOK
  <2>4. ASSUME NEW src \in Path, NEW dst \in Path, MoveOnly(src, dst) PROVE TypeOK'
    <3>1. Typed(Renamed(src, dst)) /\ vault' = Renamed(src, dst) /\ moves' = moves + 1 /\ moves < MaxMoves
      BY <2>1, <2>4, RenamedIs DEF MoveOnly
    <3>2. moves' \in 0..MaxMoves
      BY <2>1, <3>1
    <3>3. last'.call = "none"
      BY <2>4 DEF MoveOnly, Nothing
    <3> QED
      BY <3>1, <3>2, <3>3 DEF TypeOK, Typed, Line
  <2>5. ASSUME NEW src \in Path, NEW dst \in Path, MoveNote(src, dst) PROVE TypeOK'
    <3> DEFINE moved   == Renamed(src, dst)
               visited == Visited(moved, dst)
               line    == [p \in visited |-> RewriteLine(moved[p], src, dst, Notes(moved))]
    <3>1. CanMove(src, dst) /\ moves < MaxMoves /\ moves' = moves + 1
      BY <2>5 DEF MoveNote
    <3>2. Typed(moved) /\ visited \subseteq Notes(moved)
      BY <2>1, <3>1, RenamedIs DEF Visited
    <3>3. ASSUME NEW p \in visited PROVE p \in Path /\ line[p] \in Result
      BY <3>2, NotesAre, RewriteType
    <3>4. \E done \in SUBSET visited :
             /\ \A p \in done : line[p] # Panicked
             /\ vault' = [p \in Path |-> IF p \in done THEN line[p] ELSE moved[p]]
      BY <2>5 DEF MoveNote
    <3>5. last'.call \in {"move", "panic"}
      BY <2>5 DEF MoveNote
    <3> HIDE DEF moved, visited, line
    <3>6. Typed(vault')
      <4>1. PICK done \in SUBSET visited :
             /\ \A p \in done : line[p] # Panicked
             /\ vault' = [p \in Path |-> IF p \in done THEN line[p] ELSE moved[p]]
        BY <3>4
      <4>2. \A p \in done : line[p] \in Line
        BY <3>3, <4>1 DEF Result
      <4> QED
        BY <3>2, <4>1, <4>2 DEF Typed
    <3>7. moves' \in 0..MaxMoves
      BY <2>1, <3>1
    <3> QED
      BY <3>5, <3>6, <3>7 DEF TypeOK, Typed, Line
  <2> QED
    BY <2>2, <2>3, <2>4, <2>5 DEF Next
<1> QED
  BY <1>1, <1>2, PTL DEF Spec

------------------------------------------------------------------------------
\* Splicing from the right

\* The texts put together up to each place of a line.
Flattens(flat, n, q) ==
    /\ flat \in [0..n -> Line] /\ flat[0] = <<>>
    /\ \A i \in 1..n : flat[i] = flat[i - 1] \o q[i]

LEMMA FlattenIs ==
    ASSUME NEW n \in Nat, NEW q \in [1..n -> Line]
    PROVE  \E flat : Flattens(flat, n, q) /\ FlattenSeq(q) = flat[n]
<1>1. q \in Seq(Line) /\ Len(q) = n
  OBVIOUS
<1>2. <<>> \in Line
  BY EmptySeq DEF Line
<1>3. CASE n = 0
  <2>1. q = <<>>
    BY <1>1, <1>3, EmptySeq
  <2>2. FlattenSeq(q) = q
    BY <1>1, <1>3 DEF FlattenSeq
  <2> DEFINE flat == [i \in 0..n |-> <<>>]
  <2>3. Flattens(flat, n, q) /\ FlattenSeq(q) = flat[n]
    BY <1>2, <1>3, <2>1, <2>2 DEF Flattens
  <2> HIDE DEF flat
  <2> QED
    BY <2>3
<1>4. CASE n # 0
  <2> DEFINE At(k, r) == IF k + 1 \in 1..n THEN r \o q[k + 1] ELSE r
  <2>1. ASSUME NEW k \in Nat, NEW r \in Line PROVE At(k, r) \in Line
    <3>1. CASE k + 1 \in 1..n
      BY <3>1, ConcatProperties DEF Line
    <3> QED
      BY <3>1
  <2>2. \A k \in Nat : \A r : k + 1 \in 1..n => At(k, r) = r \o q[k + 1]
    OBVIOUS
  <2> HIDE DEF At
  <2> DEFINE g == [p \in Nat \X Line |-> At(p[1], p[2])]
  <2>3. g \in [Nat \X Line -> Line]
    BY <2>1
  <2>4. \A k \in Nat, r \in Line : g[<<k, r>>] = At(k, r)
    OBVIOUS
  <2> HIDE DEF g
  <2>5. PICK f : Iterates(f, Line, <<>>, g)
    BY <1>2, <2>3, Recursion, Zenon
  <2>6. f \in [Nat -> Line] /\ f[0] = <<>>
    BY <2>5 DEF Iterates
  <2>7. ASSUME NEW i \in 1..n PROVE f[i] = f[i - 1] \o q[i]
    <3>1. i - 1 \in Nat /\ (i - 1) + 1 = i
      OBVIOUS
    <3>2. f[i - 1] \in Line /\ f[(i - 1) + 1] = g[<<i - 1, f[i - 1]>>]
      BY <2>5, <3>1 DEF Iterates
    <3>3. g[<<i - 1, f[i - 1]>>] = f[i - 1] \o q[(i - 1) + 1]
      BY <2>2, <2>4, <3>1, <3>2
    <3> QED
      BY <3>1, <3>2, <3>3
  <2>8. f[1] = q[1]
    <3>1. 1 \in 1..n /\ q[1] \in Line
      BY <1>4
    <3>2. f[1] = f[1 - 1] \o q[1] /\ 1 - 1 = 0
      BY <2>7, <3>1
    <3> QED
      BY <2>6, <3>1, <3>2, ConcatEmptySeq DEF Line
  <2> DEFINE E(e) == e = [i \in 1..n |-> IF i = 1 THEN q[i] ELSE e[i - 1] \o q[i]]
             h == [i \in 1..n |-> f[i]]
  <2>9. E(h)
    <3> DEFINE e == [i \in 1..n |-> IF i = 1 THEN q[i] ELSE h[i - 1] \o q[i]]
    <3>1. ASSUME NEW i \in 1..n PROVE h[i] = e[i]
      <4>1. CASE i = 1
        BY <2>8, <4>1
      <4>2. CASE i # 1
        <5>1. i - 1 \in 1..n
          BY <4>2
        <5> QED
          BY <2>7, <4>2, <5>1
      <4> QED
        BY <4>1, <4>2
    <3>2. e = [i \in 1..n |-> e[i]] /\ h = [i \in 1..n |-> h[i]]
      OBVIOUS
    <3> HIDE DEF e, h
    <3>3. h = e
      BY <3>1, <3>2
    <3> QED
      BY <3>3 DEF e
  <2> DEFINE flatten == CHOOSE e : E(e)
  <2>10. E(flatten)
    <3> HIDE DEF E, h
    <3> QED
      BY <2>9, Zenon
  <2>11. FlattenSeq(q) = flatten[n]
    BY <1>1, <1>4 DEF FlattenSeq
  <2> HIDE DEF flatten, h
  <2>12. \A i \in 1..n : flatten[i] = IF i = 1 THEN q[i] ELSE flatten[i - 1] \o q[i]
    BY <2>10
  <2> DEFINE T == {k \in 0..n : k = 0 \/ flatten[k] = f[k]}
  <2>13. 0 \in T
    OBVIOUS
  <2>14. ASSUME NEW k \in 0..n - 1, k \in T PROVE k + 1 \in T
    <3>1. k + 1 \in 1..n /\ (k + 1) - 1 = k
      OBVIOUS
    <3>2. CASE k = 0
      BY <2>8, <2>12, <3>1, <3>2
    <3>3. CASE k # 0
      <4>1. flatten[k + 1] = flatten[(k + 1) - 1] \o q[k + 1]
        <5>1. k + 1 # 1
          BY <3>3
        <5> QED
          BY <2>12, <3>1, <5>1
      <4>2. f[k + 1] = f[(k + 1) - 1] \o q[k + 1]
        BY <2>7, <3>1
      <4>3. flatten[k] = f[k]
        BY <2>14, <3>3
      <4>4. flatten[k + 1] = f[k + 1]
        BY <3>1, <4>1, <4>2, <4>3
      <4> QED
        BY <3>1, <4>4
    <3> QED
      BY <3>2, <3>3
  <2> HIDE DEF T
  <2>15. n \in T
    <3>1. \A k \in 0..n : k \in T
      BY <2>13, <2>14, Upward
    <3> QED
      BY <3>1
  <2> DEFINE flat == [i \in 0..n |-> f[i]]
  <2>16. Flattens(flat, n, q)
    <3>1. flat \in [0..n -> Line] /\ flat[0] = <<>>
      BY <2>6
    <3>2. ASSUME NEW i \in 1..n PROVE flat[i] = flat[i - 1] \o q[i]
      <4>1. i \in 0..n /\ i - 1 \in 0..n
        OBVIOUS
      <4> QED
        BY <2>7, <4>1
    <3> QED
      BY <3>1, <3>2 DEF Flattens
  <2>17. FlattenSeq(q) = flat[n]
    BY <1>4, <2>11, <2>15 DEF T
  <2> HIDE DEF flat
  <2> QED
    BY <2>16, <2>17
<1> QED
  BY <1>3, <1>4

LEMMA JoinAssociates ==
    ASSUME NEW x \in Line, NEW y \in Line, NEW z \in Line
    PROVE  (x \o y) \o z = x \o (y \o z)
BY ConcatAssociative DEF Line

LEMMA JoinType ==
    ASSUME NEW x \in Line, NEW y \in Line
    PROVE  x \o y \in Line
BY ConcatProperties DEF Line

LEMMA JoinNothing ==
    /\ <<>> \in Line
    /\ \A x \in Line : x \o <<>> = x /\ <<>> \o x = x
BY ConcatEmptySeq, EmptySeq DEF Line

LEMMA Prefix ==
    ASSUME NEW line \in Line, NEW k \in 0..Len(line)
    PROVE  /\ SubSeq(line, 1, k) \in Line /\ Len(SubSeq(line, 1, k)) = k
           /\ \A j \in 1..k : SubSeq(line, 1, k)[j] = line[j]
<1>1. Len(line) \in Nat /\ k \in Int
  BY LineCells
<1>2. ASSUME NEW j \in 1..k PROVE line[j] \in Cell
  <2>1. j \in 1..Len(line)
    BY <1>1
  <2> QED
    BY <2>1, LineCells
<1>3. /\ SubSeq(line, 1, k) \in Seq(Cell)
      /\ Len(SubSeq(line, 1, k)) = IF 1 <= k THEN k - 1 + 1 ELSE 0
      /\ \A j \in 1..k - 1 + 1 : SubSeq(line, 1, k)[j] = line[1 + j - 1]
  BY <1>1, <1>2, SubSeqProperties
<1>4. Len(SubSeq(line, 1, k)) = k
  BY <1>3
<1>5. ASSUME NEW j \in 1..k PROVE SubSeq(line, 1, k)[j] = line[j]
  <2>1. j \in 1..k - 1 + 1 /\ 1 + j - 1 = j
    BY <1>1
  <2> QED
    BY <1>3, <2>1
<1> QED
  BY <1>3, <1>4, <1>5 DEF Line

\* One text replaced in a line whose beginning has not changed yet.
LEMMA Cut ==
    ASSUME NEW line \in Line, NEW i \in 1..Len(line), NEW e \in i..Len(line),
           NEW text \in Line, NEW t \in Line
    PROVE  Splice(SubSeq(line, 1, e) \o t, i, e, text) = SubSeq(line, 1, i - 1) \o (text \o t)
<1> DEFINE a == SubSeq(line, 1, e)
           r == a \o t
<1>1. Len(line) \in Nat /\ i \in Nat /\ i >= 1 /\ e \in Nat /\ i <= e /\ e <= Len(line)
  BY LineCells
<1>2. a \in Line /\ Len(a) = e /\ \A j \in 1..e : a[j] = line[j]
  BY <1>1, Prefix
<1>3. Len(t) \in Nat
  BY LineCells
<1> HIDE DEF a
<1>4. /\ r \in Line /\ Len(r) = e + Len(t)
      /\ \A j \in 1..e + Len(t) : r[j] = IF j <= e THEN a[j] ELSE t[j - e]
  BY <1>2, ConcatProperties DEF Line
<1> HIDE DEF r
<1>5. Splice(r, i, e, text) = SubSeq(r, 1, i - 1) \o text \o SubSeq(r, e + 1, Len(r))
  <2>1. e <= Len(r) /\ r \in Result
    BY <1>1, <1>3, <1>4 DEF Result
  <2> QED
    BY <1>1, <1>4, <2>1, SpliceType
<1>6. SubSeq(r, 1, i - 1) = SubSeq(line, 1, i - 1)
  <2>1. i - 1 \in 0..Len(r) /\ i - 1 \in 0..Len(line)
    BY <1>1, <1>3, <1>4
  <2>2. /\ SubSeq(r, 1, i - 1) \in Line /\ Len(SubSeq(r, 1, i - 1)) = i - 1
        /\ \A j \in 1..i - 1 : SubSeq(r, 1, i - 1)[j] = r[j]
    BY <1>4, <2>1, Prefix
  <2>3. /\ SubSeq(line, 1, i - 1) \in Line /\ Len(SubSeq(line, 1, i - 1)) = i - 1
        /\ \A j \in 1..i - 1 : SubSeq(line, 1, i - 1)[j] = line[j]
    BY <2>1, Prefix
  <2>4. ASSUME NEW j \in 1..i - 1 PROVE r[j] = line[j]
    <3>1. j \in 1..e /\ j \in 1..e + Len(t) /\ j <= e
      BY <1>1, <1>3
    <3> QED
      BY <1>2, <1>4, <3>1
  <2> QED
    BY <2>2, <2>3, <2>4, SeqEqual DEF Line
<1>7. SubSeq(r, e + 1, Len(r)) = t
  <2>1. ASSUME NEW j \in e + 1..Len(r) PROVE r[j] \in Cell
    <3>1. j \in 1..Len(r)
      BY <1>1
    <3> QED
      BY <1>4, <3>1, LineCells
  <2>2. e + 1 \in Int /\ Len(r) \in Int /\ Len(r) - (e + 1) + 1 = Len(t)
    BY <1>1, <1>3, <1>4
  <2>3. /\ SubSeq(r, e + 1, Len(r)) \in Seq(Cell)
        /\ Len(SubSeq(r, e + 1, Len(r))) = IF e + 1 <= Len(r) THEN Len(r) - (e + 1) + 1 ELSE 0
        /\ \A j \in 1..Len(r) - (e + 1) + 1 : SubSeq(r, e + 1, Len(r))[j] = r[(e + 1) + j - 1]
    BY <2>1, <2>2, SubSeqProperties
  <2>4. Len(SubSeq(r, e + 1, Len(r))) = Len(t)
    BY <1>1, <1>3, <1>4, <2>3
  <2>5. ASSUME NEW j \in 1..Len(t) PROVE SubSeq(r, e + 1, Len(r))[j] = t[j]
    <3>1. /\ (e + 1) + j - 1 = e + j /\ e + j \in 1..e + Len(t) /\ ~ (e + j <= e)
          /\ (e + j) - e = j
      BY <1>1, <1>3
    <3>2. SubSeq(r, e + 1, Len(r))[j] = r[e + j]
      BY <2>2, <2>3, <3>1
    <3>3. r[e + j] = t[(e + j) - e]
      BY <1>4, <3>1
    <3> QED
      BY <3>1, <3>2, <3>3
  <2> QED
    BY <2>3, <2>4, <2>5, SeqEqual DEF Line
<1>8. SubSeq(line, 1, i - 1) \in Line
  <2>1. i - 1 \in 0..Len(line)
    BY <1>1
  <2> QED
    BY <2>1, Prefix
<1>9. (SubSeq(line, 1, i - 1) \o text) \o t = SubSeq(line, 1, i - 1) \o (text \o t)
  BY <1>8, JoinAssociates
<1>10. Splice(r, i, e, text) = (SubSeq(line, 1, i - 1) \o text) \o t
  BY <1>5, <1>6, <1>7
<1> QED
  BY <1>9, <1>10 DEF r, a

\* The places within a link that is replaced, behind the first.
Inside(line, R, i) == \E j \in R : j < i /\ i <= EndOf(line, j)

\* What stands in place of each cell.
Texts(line, R, dst) ==
    [i \in DOMAIN line |->
        IF i \in R THEN Cells(Relink(line[i].piece, dst))
        ELSE IF Inside(line, R, i) THEN <<>> ELSE <<line[i]>>]

LinkStarts(line) == {i \in DOMAIN line : LinkAt(line, i)}

LEMMA TextsType ==
    ASSUME NEW line \in Line, NEW dst \in Path, NEW R, R \subseteq LinkStarts(line)
    PROVE  /\ Texts(line, R, dst) \in [1..Len(line) -> Line]
           /\ \A i \in 1..Len(line) : ~ (i \in R /\ Inside(line, R, i))
<1>1. ASSUME NEW i \in 1..Len(line) PROVE Texts(line, R, dst)[i] \in Line
  <2>1. line[i] \in Cell /\ line[i].piece \in Piece
    BY LineCells
  <2>2. Cells(Relink(line[i].piece, dst)) \in Line
    BY <2>1, RelinkIs, Pieces
  <2>3. <<>> \in Line /\ <<line[i]>> \in Line
    BY <2>1 DEF Line
  <2> QED
    BY <2>2, <2>3, LineCells DEF Texts
<1>2. ASSUME NEW i \in R, NEW j \in R, j < i, i <= EndOf(line, j) PROVE FALSE
  <2>1. i \in DOMAIN line /\ j \in DOMAIN line /\ LinkAt(line, i) /\ LinkAt(line, j)
    BY DEF LinkStarts
  <2>2. EndOf(line, j) < i /\ EndOf(line, j) \in Nat /\ i \in Nat
    BY <1>2, <2>1, Disjoint, Span, LineCells
  <2> QED
    BY <1>2, <2>2
<1> QED
  BY <1>1, <1>2, LineCells DEF Texts, Inside

\* Where the next cell that is not inside a replaced link begins, from i on.
Edge(line, R, i, e) ==
    \/ e = i /\ ~ Inside(line, R, i)
    \/ \E j \in R : j < i /\ i <= EndOf(line, j) /\ e = EndOf(line, j) + 1

\* A line whose end, from e on, has been rewritten, and whose beginning is the old one.
Good(line, flat, r, e) ==
    \E t \in Line : /\ r = SubSeq(line, 1, e - 1) \o t
                    /\ flat[e - 1] \o t = flat[Len(line)]

Done(line, R, flat, r, i) ==
    \A e \in 1..Len(line) + 1 : Edge(line, R, i, e) => Good(line, flat, r, e)

LEMMA Spans ==
    ASSUME NEW line \in Line, NEW R, R \subseteq LinkStarts(line), NEW j \in R
    PROVE  /\ j \in 1..Len(line) /\ EndOf(line, j) \in j..Len(line) /\ line[j].piece \in Piece
           /\ \A i \in R : j < i => EndOf(line, j) < i
<1>1. j \in DOMAIN line /\ LinkAt(line, j)
  BY DEF LinkStarts
<1>2. \A i \in R : j < i => EndOf(line, j) < i
  BY <1>1, Disjoint DEF LinkStarts
<1> QED
  BY <1>1, <1>2, Span

Assembles(flat, line, R, dst) == Flattens(flat, Len(line), Texts(line, R, dst))

\* Link l stands where the link at place i stood.
Becomes(flat, line, i, l) == flat[EndOf(line, i)] = flat[i - 1] \o Cells(l)

\* Nothing stands in place of the cells inside a replaced link.
LEMMA SpanFlat ==
    ASSUME NEW line \in Line, NEW dst \in Path, NEW R, R \subseteq LinkStarts(line),
           NEW flat, Assembles(flat, line, R, dst), NEW i \in R
    PROVE  Becomes(flat, line, i, Relink(line[i].piece, dst))
<1> DEFINE n == Len(line)
           e == EndOf(line, i)
           q == Texts(line, R, dst)
<1>1. n \in Nat /\ i \in 1..n /\ e \in i..n /\ i \in DOMAIN line
  BY LineCells, Spans
<1>2. flat[i] = flat[i - 1] \o q[i] /\ q[i] = Cells(Relink(line[i].piece, dst))
  BY <1>1 DEF Assembles, Flattens, Texts
<1>3. \A k \in 0..n : flat[k] \in Line
  BY DEF Assembles, Flattens
<1> HIDE DEF e
<1> DEFINE T == {k \in 0..e - i : flat[i + k] = flat[i]}
<1>4. 0 \in T
  BY <1>1
<1>5. ASSUME NEW k \in 0..(e - i) - 1, k \in T PROVE k + 1 \in T
  <2> DEFINE m == i + (k + 1)
  <2>1. /\ m \in 1..n /\ m - 1 = i + k /\ i < m /\ m <= e /\ k + 1 \in 0..e - i
        /\ m - 1 \in 0..n
    BY <1>1
  <2>2. Inside(line, R, m)
    BY <2>1 DEF Inside, e
  <2>3. m \notin R /\ m \in DOMAIN line
    BY <2>1, <2>2, TextsType, LineCells
  <2>4. q[m] = <<>>
    BY <2>2, <2>3 DEF Texts
  <2> HIDE DEF m, q
  <2>5. flat[m] = flat[m - 1] \o <<>>
    BY <2>1, <2>4 DEF Assembles, Flattens, q
  <2>6. flat[m] = flat[m - 1]
    BY <1>3, <2>1, <2>5, ConcatEmptySeq DEF Line
  <2>7. flat[i + k] = flat[i]
    BY <1>5
  <2> QED
    BY <2>1, <2>6, <2>7 DEF m
<1> HIDE DEF T
<1>6. e - i \in T
  <2>1. e - i \in Nat /\ e - i \in 0..e - i
    BY <1>1
  <2>2. \A k \in 0..e - i : k \in T
    BY <1>4, <1>5, <2>1, Upward
  <2> QED
    BY <2>1, <2>2
<1>7. i + (e - i) = e
  BY <1>1
<1> QED
  BY <1>2, <1>6, <1>7 DEF T, e, Becomes

\* What is done at one place of a line keeps its end rewritten, one place further.
LEMMA OnePlace ==
    ASSUME NEW line \in Line, NEW dst \in Path, NEW R, R \subseteq LinkStarts(line),
           NEW flat, Assembles(flat, line, R, dst),
           NEW i \in 1..Len(line), NEW r, Done(line, R, flat, r, i + 1)
    PROVE  Done(line, R, flat,
                IF i \in R THEN Splice(r, i, EndOf(line, i), Cells(Relink(line[i].piece, dst)))
                ELSE r, i)
<1> DEFINE n == Len(line)
           q == Texts(line, R, dst)
           new == IF i \in R THEN Splice(r, i, EndOf(line, i), Cells(Relink(line[i].piece, dst)))
                  ELSE r
<1>1. n \in Nat /\ i \in Nat /\ i >= 1 /\ i <= n /\ i \in DOMAIN line
  BY LineCells
<1>2. \A k \in 0..n : flat[k] \in Line
  BY DEF Assembles, Flattens
<1>3. \A j \in R : /\ j \in 1..n /\ EndOf(line, j) \in j..n /\ line[j].piece \in Piece
                   /\ \A k \in R : j < k => EndOf(line, j) < k
  BY Spans
<1>4. CASE i \in R
  <2> DEFINE e == EndOf(line, i)
             text == Cells(Relink(line[i].piece, dst))
  <2>1. e \in i..n /\ e \in Nat /\ line[i].piece \in Piece /\ text \in Line
    BY <1>1, <1>3, <1>4, RelinkIs, Pieces
  <2>2. ~ Inside(line, R, i)
    BY <1>4, TextsType
  <2>3. Edge(line, R, i + 1, e + 1)
    <3>1. CASE e = i
      <4>1. ASSUME Inside(line, R, i + 1) PROVE FALSE
        <5>1. PICK j \in R : j < i + 1 /\ i + 1 <= EndOf(line, j)
          BY <4>1 DEF Inside
        <5>2. j \in Nat /\ EndOf(line, j) \in Nat
          BY <1>1, <1>3
        <5>3. CASE j = i
          BY <1>1, <3>1, <5>1, <5>3
        <5>4. CASE j # i
          <6>1. j < i /\ i <= EndOf(line, j)
            BY <1>1, <5>1, <5>2, <5>4
          <6> QED
            BY <2>2, <6>1 DEF Inside
        <5> QED
          BY <5>3, <5>4
      <4> QED
        BY <3>1, <4>1 DEF Edge
    <3>2. CASE e # i
      <4>1. i < i + 1 /\ i + 1 <= e
        BY <1>1, <2>1, <3>2
      <4> QED
        BY <1>4, <4>1 DEF Edge
    <3> QED
      BY <3>1, <3>2
  <2> HIDE DEF e, text
  <2>4. Good(line, flat, r, e + 1)
    <3>1. e + 1 \in 1..n + 1
      BY <1>1, <2>1
    <3> QED
      BY <2>3, <3>1 DEF Done
  <2>5. PICK t \in Line : r = SubSeq(line, 1, (e + 1) - 1) \o t /\ flat[(e + 1) - 1] \o t = flat[n]
    BY <2>4 DEF Good
  <2>6. r = SubSeq(line, 1, e) \o t /\ flat[e] \o t = flat[n]
    <3>1. (e + 1) - 1 = e
      BY <2>1
    <3> QED
      BY <2>5, <3>1
  <2>7. new = SubSeq(line, 1, i - 1) \o (text \o t)
    BY <1>4, <2>1, <2>6, Cut DEF e, text
  <2>8. flat[i - 1] \o (text \o t) = flat[n]
    <3>1. flat[EndOf(line, i)] = flat[i - 1] \o Cells(Relink(line[i].piece, dst))
      <4>1. Becomes(flat, line, i, Relink(line[i].piece, dst))
        BY <1>4, SpanFlat
      <4> QED
        BY <4>1 DEF Becomes
    <3>2. i - 1 \in 0..n
      BY <1>1
    <3>3. flat[i - 1] \in Line
      BY <1>2, <3>2
    <3>4. (flat[i - 1] \o text) \o t = flat[i - 1] \o (text \o t)
      BY <2>1, <3>3, JoinAssociates
    <3> QED
      BY <2>6, <3>1, <3>4 DEF e, text
  <2>9. text \o t \in Line
    BY <2>1, JoinType
  <2>10. Good(line, flat, new, i)
    <3> HIDE DEF new
    <3> QED
      BY <2>7, <2>8, <2>9 DEF Good
  <2>11. ASSUME NEW e1 \in 1..n + 1, Edge(line, R, i, e1) PROVE e1 = i
    BY <2>2, <2>11 DEF Edge, Inside
  <2> HIDE DEF new
  <2>12. Done(line, R, flat, new, i)
    BY <2>10, <2>11 DEF Done
  <2> QED
    BY <2>12 DEF new
<1>5. CASE i \notin R
  <2>1. new = r
    BY <1>5
  <2>2. ASSUME NEW e \in 1..n + 1, Edge(line, R, i, e) PROVE Good(line, flat, r, e)
    <3>1. CASE e = i /\ ~ Inside(line, R, i)
      <4>1. ~ Inside(line, R, i + 1)
        <5>1. SUFFICES ASSUME NEW j \in R, j < i + 1, i + 1 <= EndOf(line, j) PROVE FALSE
          BY DEF Inside
        <5>2. j \in Nat /\ EndOf(line, j) \in Nat /\ j # i
          BY <1>1, <1>3, <1>5
        <5>3. j < i /\ i <= EndOf(line, j)
          BY <1>1, <5>1, <5>2
        <5> QED
          BY <3>1, <5>3 DEF Inside
      <4>2. Edge(line, R, i + 1, i + 1) /\ i + 1 \in 1..n + 1
        BY <1>1, <4>1 DEF Edge
      <4>3. PICK t \in Line : r = SubSeq(line, 1, (i + 1) - 1) \o t /\ flat[(i + 1) - 1] \o t = flat[n]
        BY <4>2 DEF Done, Good
      <4>4. r = SubSeq(line, 1, i) \o t /\ flat[i] \o t = flat[n]
        <5>1. (i + 1) - 1 = i
          BY <1>1
        <5> QED
          BY <4>3, <5>1
      <4> DEFINE c == <<line[i]>>
      <4>5. q[i] = c
        BY <1>1, <1>5, <3>1 DEF Texts
      <4>6. flat[i] = flat[i - 1] \o c
        BY <4>5 DEF Assembles, Flattens
      <4>7. SubSeq(line, 1, i) = SubSeq(line, 1, i - 1) \o c
        <5>1. 1 \in 1..n /\ i \in 1..n /\ 1 <= i
          BY <1>1
        <5> QED
          BY <5>1, SubSeqRecursiveSecond DEF Line
      <4>8. c \in Line
        BY LineCells DEF Line
      <4>9. i - 1 \in 0..n
        BY <1>1
      <4>10. flat[i - 1] \in Line /\ SubSeq(line, 1, i - 1) \in Line
        BY <1>2, <4>9, Prefix
      <4> HIDE DEF c
      <4>11. c \o t \in Line
        BY <4>8, JoinType
      <4>12. ASSUME NEW b \in Line PROVE (b \o c) \o t = b \o (c \o t)
        BY <4>3, <4>8, JoinAssociates
      <4>13. r = SubSeq(line, 1, i - 1) \o (c \o t)
        BY <4>4, <4>7, <4>10, <4>12
      <4>14. flat[i - 1] \o (c \o t) = flat[n]
        BY <4>4, <4>6, <4>10, <4>12
      <4> QED
        BY <3>1, <4>11, <4>13, <4>14 DEF Good
    <3>2. ASSUME NEW j \in R, j < i, i <= EndOf(line, j), e = EndOf(line, j) + 1
          PROVE  Edge(line, R, i + 1, e)
      <4>1. j \in Nat /\ EndOf(line, j) \in Nat
        BY <1>1, <1>3
      <4>2. CASE i = EndOf(line, j)
        <5>1. ~ Inside(line, R, i + 1)
          <6>1. SUFFICES ASSUME NEW k \in R, k < i + 1, i + 1 <= EndOf(line, k) PROVE FALSE
            BY DEF Inside
          <6>2. k \in Nat /\ EndOf(line, k) \in Nat /\ k # i /\ k # j
            BY <1>1, <1>3, <1>5, <4>1, <4>2, <6>1
          <6>3. k < i
            BY <1>1, <6>1, <6>2
          <6>4. CASE k < j
            <7>1. EndOf(line, k) < j
              BY <1>3, <6>4
            <7> QED
              BY <1>1, <3>2, <4>1, <6>1, <6>2, <7>1
          <6>5. CASE j < k
            <7>1. EndOf(line, j) < k
              BY <1>3, <6>5
            <7> QED
              BY <1>1, <4>1, <4>2, <6>2, <6>3, <7>1
          <6> QED
            BY <4>1, <6>2, <6>4, <6>5
        <5>2. e = i + 1
          BY <3>2, <4>2
        <5> QED
          BY <5>1, <5>2 DEF Edge
      <4>3. CASE i # EndOf(line, j)
        <5>1. j < i + 1 /\ i + 1 <= EndOf(line, j)
          BY <1>1, <3>2, <4>1, <4>3
        <5> QED
          BY <3>2, <5>1 DEF Edge
      <4> QED
        BY <4>2, <4>3
    <3>3. CASE Edge(line, R, i + 1, e)
      BY <3>3 DEF Done
    <3> QED
      BY <2>2, <3>1, <3>2, <3>3 DEF Edge
  <2> HIDE DEF new
  <2>3. Done(line, R, flat, new, i)
    BY <2>1, <2>2 DEF Done
  <2> QED
    BY <2>3 DEF new
<1> QED
  BY <1>4, <1>5

\* A pass over the links between two places rewrites the line between them.
LEMMA OnePass ==
    ASSUME NEW line \in Line, NEW dst \in Path, NEW R, R \subseteq LinkStarts(line),
           NEW flat, Assembles(flat, line, R, dst),
           NEW start \in Result, NEW starts, starts \subseteq R,
           NEW lo \in 1..Len(line) + 1, NEW hi \in lo..Len(line) + 1,
           \A i \in R : i \in starts <=> lo <= i /\ i < hi,
           Done(line, R, flat, start, hi)
    PROVE  Done(line, R, flat, SpliceAll(line, starts, dst, start), lo)
<1> DEFINE n == Len(line)
<1>1. n \in Nat /\ lo \in Nat /\ hi \in Nat /\ 1 <= lo /\ lo <= hi /\ hi <= n + 1
  BY LineCells
<1>2. PICK from : FoldsFrom(from, line, starts, dst, start)
                    /\ SpliceAll(line, starts, dst, start) = from[1]
  <2>1. starts \subseteq {i \in DOMAIN line : LinkAt(line, i)}
    BY DEF LinkStarts
  <2> QED
    BY <2>1, SpliceAllIs
<1> DEFINE new(i) == IF i \in R THEN Splice(from[i + 1], i, EndOf(line, i), Cells(Relink(line[i].piece, dst)))
                     ELSE from[i + 1]
<1>3. from[n + 1] = start /\ \A i \in 1..n : i \notin starts => from[i] = from[i + 1]
  BY <1>2 DEF FoldsFrom
<1>4. \A i \in 1..n : (i \in R => i \in starts) => from[i] = new(i)
  BY <1>2 DEF FoldsFrom
<1> HIDE DEF n
<1>5. from[hi] = start
  <2> DEFINE T == {i \in hi..n + 1 : from[i] = start}
  <2>1. n + 1 \in T
    BY <1>1, <1>3
  <2>2. ASSUME NEW i \in hi..(n + 1) - 1, i + 1 \in T PROVE i \in T
    <3>1. i \in 1..n /\ ~ (i < hi) /\ i \in hi..n + 1
      BY <1>1
    <3>2. i \notin starts
      BY <3>1
    <3>3. from[i] = from[i + 1] /\ from[i + 1] = start
      BY <1>3, <2>2, <3>1, <3>2
    <3> QED
      BY <3>1, <3>3
  <2> HIDE DEF T
  <2>3. \A i \in hi..n + 1 : i \in T
    <3>1. hi \in Nat /\ n + 1 \in Nat /\ hi <= n + 1
      BY <1>1
    <3> QED
      BY <2>1, <2>2, <3>1, Downward
  <2> QED
    BY <1>1, <2>3 DEF T
<1>6. Done(line, R, flat, from[lo], lo)
  <2> DEFINE T == {i \in lo..hi : Done(line, R, flat, from[i], i)}
  <2>1. hi \in T
    BY <1>1, <1>5
  <2>2. ASSUME NEW i \in lo..hi - 1, i + 1 \in T PROVE i \in T
    <3>1. i \in 1..n /\ lo <= i /\ i < hi /\ i \in lo..hi
      BY <1>1
    <3>2. i \in R => i \in starts
      BY <3>1
    <3>3. from[i] = new(i)
      BY <1>4, <3>1, <3>2
    <3>4. Done(line, R, flat, from[i + 1], i + 1)
      BY <2>2
    <3> DEFINE r == from[i + 1]
    <3> HIDE DEF r
    <3>5. Done(line, R, flat, r, i + 1)
      BY <3>4 DEF r
    <3>6. i \in 1..Len(line)
      BY <3>1 DEF n
    <3>7. Done(line, R, flat,
               IF i \in R THEN Splice(r, i, EndOf(line, i), Cells(Relink(line[i].piece, dst)))
               ELSE r, i)
      BY <3>5, <3>6, OnePlace
    <3>8. Done(line, R, flat, new(i), i)
      BY <3>7 DEF r
    <3> HIDE DEF new
    <3> QED
      BY <3>1, <3>3, <3>8
  <2> HIDE DEF T
  <2>3. \A i \in lo..hi : i \in T
    BY <1>1, <2>1, <2>2, Downward
  <2> QED
    BY <1>1, <2>3 DEF T
<1>7. from[1] = from[lo]
  <2> DEFINE T == {i \in 1..lo : from[i] = from[lo]}
  <2>1. lo \in T
    BY <1>1
  <2>2. ASSUME NEW i \in 1..lo - 1, i + 1 \in T PROVE i \in T
    <3>1. i \in 1..n /\ ~ (lo <= i) /\ i \in 1..lo
      BY <1>1
    <3>2. i \notin starts
      BY <3>1
    <3>3. from[i] = from[i + 1] /\ from[i + 1] = from[lo]
      BY <1>3, <2>2, <3>1, <3>2
    <3> QED
      BY <3>1, <3>3
  <2> HIDE DEF T
  <2>3. \A i \in 1..lo : i \in T
    <3>1. 1 \in Nat /\ lo \in Nat /\ 1 <= lo
      BY <1>1
    <3> QED
      BY <2>1, <2>2, <3>1, Downward
  <2> QED
    BY <1>1, <2>3 DEF T
<1> QED
  BY <1>2, <1>6, <1>7

\* The links of a line that are replaced.
Replaced(line, src, notes) ==
    {i \in AllMatches(line, src) : ~ IsAmbiguous(Target(line[i].piece), notes)}

LEMMA ReplacedAre ==
    ASSUME NEW line \in Line, NEW src, NEW notes
    PROVE  /\ Replaced(line, src, notes) \subseteq LinkStarts(line)
           /\ Replaced(line, src, notes) =
                 Replaceable(line, "wiki", src, notes) \cup Replaceable(line, "markdown", src, notes)
           /\ \A i \in LinkStarts(line) :
                 /\ i \in AllMatches(line, src) <=> Matches(line[i].piece, src)
                 /\ i \in Replaced(line, src, notes) <=>
                       /\ Matches(line[i].piece, src)
                       /\ ~ IsAmbiguous(Target(line[i].piece), notes)
<1>1. \A i \in DOMAIN line : line[i].piece.kind \in {"wiki", "markdown"}
  <2>1. \A i \in DOMAIN line : line[i].piece \in Piece
    BY LineCells
  <2> QED
    BY <2>1, Pieces
<1> QED
  BY <1>1 DEF Replaced, Replaceable, AllMatches, MatchesOf, MatchAt, LinkStarts

\* The last place of a set of places of a line, or none.
LEMMA LastPlace ==
    ASSUME NEW n \in Nat, NEW S, S \subseteq 1..n
    PROVE  \E m \in 0..n : S \subseteq 1..m /\ (m # 0 => m \in S)
<1> DEFINE T == {k \in 0..n : ~ S \subseteq 1..k}
<1>1. CASE S = {}
  BY <1>1
<1>2. CASE S # {}
  <2> SUFFICES ASSUME \A m \in 1..n : S \subseteq 1..m => m \notin S PROVE FALSE
    <3>1. ASSUME NEW m \in 1..n, S \subseteq 1..m, m \in S
          PROVE  m \in 0..n /\ S \subseteq 1..m /\ (m # 0 => m \in S)
      BY <3>1
    <3> QED
      BY <3>1
  <2> DEFINE U == {k \in 0..n : S \subseteq 1..k}
  <2>1. n \in U
    OBVIOUS
  <2>2. ASSUME NEW i \in 0..n - 1, i + 1 \in U PROVE i \in U
    <3>1. i + 1 \notin S /\ S \subseteq 1..i + 1 /\ i + 1 \in 1..n
      BY <2>2
    <3>2. ASSUME NEW s \in S PROVE s \in 1..i
      <4>1. s \in 1..i + 1 /\ s # i + 1
        BY <3>1
      <4> QED
        BY <4>1
    <3> QED
      BY <3>2
  <2> HIDE DEF U
  <2>3. \A i \in 0..n : i \in U
    <3>1. 0 \in Nat /\ 0 <= n
      OBVIOUS
    <3> QED
      BY <2>1, <2>2, <3>1, Downward
  <2>4. S \subseteq 1..0
    BY <2>3 DEF U
  <2>5. 1..0 = {}
    OBVIOUS
  <2> QED
    BY <1>2, <2>4, <2>5
<1> QED
  BY <1>1, <1>2

\* A line in whose order the wikilinks come first is rewritten as it is meant to be.
LEMMA SplicesAre ==
    ASSUME NEW line \in Line, NEW src \in Path, NEW dst \in Path, NEW notes, InOrder(line, src)
    PROVE  RewriteLine(line, src, dst, notes) =
              FlattenSeq(Texts(line, Replaced(line, src, notes), dst))
<1> DEFINE n  == Len(line)
           R  == Replaced(line, src, notes)
           R1 == Replaceable(line, "wiki", src, notes)
           R2 == Replaceable(line, "markdown", src, notes)
           q  == Texts(line, R, dst)
<1>1. n \in Nat
  BY LineCells
<1>2. R \subseteq LinkStarts(line) /\ R = R1 \cup R2 /\ R \subseteq 1..n
  BY ReplacedAre, LineCells DEF LinkStarts
<1>3. \A i \in R2, j \in R1 : j < i
  BY DEF InOrder, Replaceable, AllMatches, MatchesOf
<1> HIDE DEF R, R1, R2, n
<1>4. PICK m \in 0..n : R1 \subseteq 1..m /\ (m # 0 => m \in R1)
  <2>1. R1 \subseteq 1..n
    BY <1>2
  <2> QED
    BY <1>1, <2>1, LastPlace
<1>5. \A i \in R2 : i \in 1..n /\ m + 1 <= i
  <2>1. ASSUME NEW i \in R2 PROVE i \in 1..n /\ m + 1 <= i
    <3>1. i \in 1..n
      BY <1>2
    <3>2. CASE m = 0
      BY <3>1, <3>2
    <3>3. CASE m # 0
      BY <1>1, <1>3, <1>4, <3>1, <3>3
    <3> QED
      BY <3>2, <3>3
  <2> QED
    BY <2>1
<1>6. q \in [1..n -> Line]
  BY <1>2, TextsType DEF n
<1> HIDE DEF q
<1>7. PICK flat : Flattens(flat, n, q) /\ FlattenSeq(q) = flat[n]
  BY <1>1, <1>6, FlattenIs
<1>8. Assembles(flat, line, R, dst)
  BY <1>7 DEF n, q, Assembles
<1>9. line \in Result
  BY DEF Result
<1>10. Done(line, R, flat, line, n + 1)
  <2>1. ASSUME NEW e \in 1..n + 1, Edge(line, R, n + 1, e) PROVE Good(line, flat, line, e)
    <3>1. \A j \in R : EndOf(line, j) \in Nat /\ EndOf(line, j) <= n
      BY <1>1, <1>2, Spans DEF n
    <3>2. \A j \in R : ~ (n + 1 <= EndOf(line, j))
      BY <1>1, <3>1
    <3>3. e = n + 1
      BY <2>1, <3>2 DEF Edge
    <3>4. e - 1 = n
      BY <1>1, <3>3
    <3>5. line = SubSeq(line, 1, n) \o <<>>
      <4>1. SubSeq(line, 1, n) = line
        BY SubSeqFull DEF Line, n
      <4>2. line \o <<>> = line
        BY JoinNothing
      <4> QED
        BY <4>1, <4>2
    <3>6. flat[n] \o <<>> = flat[n]
      <4>1. flat[n] \in Line
        BY <1>1, <1>7 DEF Flattens
      <4> QED
        BY <4>1, JoinNothing
    <3>7. <<>> \in Line
      BY JoinNothing
    <3> DEFINE t == <<>>
    <3>8. t \in Line /\ line = SubSeq(line, 1, e - 1) \o t /\ flat[e - 1] \o t = flat[n]
      BY <3>4, <3>5, <3>6, <3>7
    <3> HIDE DEF t
    <3> QED
      BY <3>8 DEF Good, n
  <2> QED
    BY <2>1 DEF Done, n
<1> DEFINE half == SpliceAll(line, R2, dst, line)
           whole == SpliceAll(line, R1, dst, half)
<1>11. RewriteLine(line, src, dst, notes) = whole
  BY DEF RewriteLine, R1, R2
<1>12. Done(line, R, flat, half, m + 1)
  <2> DEFINE lo == m + 1
             hi == n + 1
  <2>1. lo \in 1..n + 1 /\ hi \in lo..n + 1
    BY <1>1
  <2>2. ASSUME NEW i \in R PROVE i \in R2 <=> lo <= i /\ i < hi
    <3>1. i \in 1..n
      BY <1>2
    <3>2. i < hi
      BY <1>1, <3>1
    <3>3. i \in R2 => lo <= i
      BY <1>5
    <3>4. ASSUME lo <= i, i \notin R2 PROVE FALSE
      <4>1. i \in 1..m
        BY <1>2, <1>4, <3>4
      <4> QED
        BY <1>1, <3>4, <4>1
    <3> QED
      BY <3>2, <3>3, <3>4
  <2>3. R2 \subseteq R /\ Done(line, R, flat, line, hi)
    BY <1>2, <1>10
  <2> HIDE DEF lo, hi
  <2>4. Done(line, R, flat, half, lo)
    BY <1>2, <1>8, <1>9, <2>1, <2>2, <2>3, OnePass DEF n
  <2> QED
    BY <2>4 DEF lo
<1>13. half \in Result
  <2>1. R2 \subseteq {i \in DOMAIN line : LinkAt(line, i)}
    BY <1>2 DEF LinkStarts
  <2> QED
    BY <1>9, <2>1, SpliceAllType
<1> HIDE DEF half
<1>14. Done(line, R, flat, whole, 1)
  <2> DEFINE lo == 1
             hi == m + 1
  <2>1. lo \in 1..n + 1 /\ hi \in lo..n + 1
    BY <1>1
  <2>2. ASSUME NEW i \in R PROVE i \in R1 <=> lo <= i /\ i < hi
    <3>1. i \in 1..n
      BY <1>2
    <3>2. lo <= i
      BY <3>1
    <3>3. i \in R1 => i < hi
      <4>1. i \in R1 => i \in 1..m
        BY <1>4
      <4> QED
        BY <3>1, <4>1
    <3>4. ASSUME i < hi, i \notin R1 PROVE FALSE
      <4>1. i \in R2
        BY <1>2, <3>4
      <4>2. m + 1 <= i
        BY <1>5, <4>1
      <4> QED
        BY <1>1, <3>1, <3>4, <4>2
    <3> QED
      BY <3>2, <3>3, <3>4
  <2>3. R1 \subseteq R /\ Done(line, R, flat, half, hi)
    BY <1>2, <1>12
  <2> HIDE DEF lo, hi
  <2>4. Done(line, R, flat, whole, lo)
    BY <1>2, <1>8, <1>13, <2>1, <2>2, <2>3, OnePass DEF n
  <2> QED
    BY <2>4 DEF lo
<1> HIDE DEF whole
<1>15. Edge(line, R, 1, 1) /\ 1 \in 1..n + 1
  <2>1. \A j \in R : ~ (j < 1)
    BY <1>2
  <2> QED
    BY <1>1, <2>1 DEF Edge, Inside
<1>16. Good(line, flat, whole, 1)
  BY <1>14, <1>15 DEF Done, n
<1>17. PICK t \in Line : whole = SubSeq(line, 1, 1 - 1) \o t /\ flat[1 - 1] \o t = flat[n]
  BY <1>16 DEF Good, n
<1>18. SubSeq(line, 1, 1 - 1) = <<>> /\ flat[1 - 1] = <<>>
  <2>1. 1 - 1 = 0 /\ 1 \in Int /\ 1 - 1 \in Int /\ 1 - 1 < 1
    OBVIOUS
  <2>2. SubSeq(line, 1, 1 - 1) = <<>>
    BY <2>1, SubSeqEmpty
  <2> QED
    BY <1>7, <2>1, <2>2 DEF Flattens
<1>19. whole = t /\ flat[n] = t
  BY <1>17, <1>18, JoinNothing
<1> QED
  BY <1>7, <1>11, <1>19 DEF q, R

------------------------------------------------------------------------------
\* Which links a rewritten line has

LEMMA FlatSplit ==
    ASSUME NEW n \in Nat, NEW q \in [1..n -> Line], NEW flat, Flattens(flat, n, q), NEW k \in 0..n
    PROVE  \E post \in Line : flat[n] = flat[k] \o post
<1> DEFINE T == {m \in 0..n - k : \E post \in Line : flat[k + m] = flat[k] \o post}
<1>1. \A m \in 0..n : flat[m] \in Line
  BY DEF Flattens
<1>2. 0 \in T
  <2>1. k + 0 = k /\ flat[k] \in Line /\ 0 \in 0..n - k
    BY <1>1
  <2>2. <<>> \in Line /\ flat[k] = flat[k] \o <<>>
    BY <2>1, JoinNothing
  <2> QED
    BY <2>1, <2>2
<1>3. ASSUME NEW m \in 0..(n - k) - 1, m \in T PROVE m + 1 \in T
  <2> DEFINE j == k + (m + 1)
  <2>1. j \in 1..n /\ j - 1 = k + m /\ m + 1 \in 0..n - k /\ j - 1 \in 0..n
    OBVIOUS
  <2>2. PICK post \in Line : flat[k + m] = flat[k] \o post
    BY <1>3
  <2> HIDE DEF j
  <2>3. flat[j] = flat[j - 1] \o q[j] /\ q[j] \in Line
    BY <2>1 DEF Flattens
  <2>4. flat[k] \in Line
    BY <1>1
  <2>5. ASSUME NEW a \in Line, NEW c \in Line PROVE (a \o post) \o c = a \o (post \o c) /\ post \o c \in Line
    BY <2>2, JoinAssociates, JoinType
  <2>6. (flat[k] \o post) \o q[j] = flat[k] \o (post \o q[j]) /\ post \o q[j] \in Line
    BY <2>3, <2>4, <2>5
  <2>7. flat[j - 1] = flat[k] \o post
    BY <2>1, <2>2
  <2>8. flat[j] = flat[k] \o (post \o q[j])
    BY <2>3, <2>6, <2>7
  <2>9. \E x \in Line : flat[j] = flat[k] \o x
    BY <2>6, <2>8
  <2> QED
    BY <2>1, <2>9 DEF j
<1> HIDE DEF T
<1>4. n - k \in T
  <2>1. n - k \in Nat /\ n - k \in 0..n - k
    OBVIOUS
  <2>2. \A m \in 0..n - k : m \in T
    BY <1>2, <1>3, <2>1, Upward
  <2> QED
    BY <2>1, <2>2
<1>5. k + (n - k) = n
  OBVIOUS
<1> QED
  BY <1>4, <1>5 DEF T

\* A whole link that is not replaced stays whole.
LEMMA SpanKept ==
    ASSUME NEW line \in Line, NEW dst \in Path, NEW R, R \subseteq LinkStarts(line),
           NEW flat, Assembles(flat, line, R, dst),
           NEW i \in LinkStarts(line), i \notin R
    PROVE  Becomes(flat, line, i, line[i].piece)
<1> DEFINE n == Len(line)
           e == EndOf(line, i)
           q == Texts(line, R, dst)
           part(k) == SubSeq(line, i, k)
<1>1. n \in Nat /\ i \in Nat /\ i >= 1 /\ i <= n /\ e \in i..n /\ LinkAt(line, i) /\ i \in DOMAIN line
  BY LineCells, Span DEF LinkStarts
<1>2. \A k \in 0..n : flat[k] \in Line
  BY DEF Assembles, Flattens
<1>3. ASSUME NEW k \in i..e PROVE q[k] = <<line[k]>> /\ k \in 1..n
  <2>1. k \in 1..n /\ k \in DOMAIN line
    BY <1>1, LineCells
  <2>2. ASSUME k \in R, k # i PROVE FALSE
    <3>1. LinkAt(line, k) /\ i < k
      BY <1>1, <2>2 DEF LinkStarts
    <3>2. EndOf(line, i) < k
      BY <1>1, <2>1, <3>1, Disjoint
    <3> QED
      BY <1>1, <3>2
  <2>3. ASSUME NEW j \in R, j < k, k <= EndOf(line, j) PROVE FALSE
    <3>1. j \in 1..n /\ j \in DOMAIN line /\ LinkAt(line, j) /\ j # i /\ EndOf(line, j) \in Nat
      BY LineCells, Spans DEF LinkStarts
    <3>2. CASE j < i
      <4>1. EndOf(line, j) < i
        BY <1>1, <3>1, <3>2, Disjoint
      <4> QED
        BY <1>1, <2>3, <3>1, <4>1
    <3>3. CASE i < j
      <4>1. EndOf(line, i) < j
        BY <1>1, <3>1, <3>3, Disjoint
      <4> QED
        BY <1>1, <2>3, <3>1, <4>1
    <3> QED
      BY <1>1, <3>1, <3>2, <3>3
  <2>4. k \notin R /\ ~ Inside(line, R, k)
    BY <2>2, <2>3 DEF Inside
  <2> QED
    BY <2>1, <2>4 DEF Texts
<1> HIDE DEF q, e
<1>4. ASSUME NEW k \in i..e PROVE part(k) \in Line
  <2>1. ASSUME NEW j \in i..k PROVE line[j] \in Cell
    <3>1. j \in 1..n
      BY <1>1
    <3> QED
      BY <3>1, LineCells
  <2>2. i \in Int /\ k \in Int
    BY <1>1
  <2> QED
    BY <2>1, <2>2, SubSeqProperties DEF Line
<1> DEFINE T == {k \in 0..e - i : flat[i + k] = flat[i - 1] \o part(i + k)}
<1>5. 0 \in T
  <2>1. i + 0 = i /\ i \in i..e /\ 0 \in 0..e - i
    BY <1>1
  <2>2. flat[i] = flat[i - 1] \o q[i] /\ q[i] = <<line[i]>>
    BY <1>1, <1>3, <2>1 DEF Assembles, Flattens, q
  <2>3. part(i) = <<line[i]>>
    <3>1. i \in 1..n /\ i \in i..n
      BY <1>1
    <3>2. SubSeq(line, i, i) = SubSeq(line, i, i - 1) \o <<line[i]>>
      BY <3>1, SubSeqRecursiveSecond DEF Line
    <3>3. SubSeq(line, i, i - 1) = <<>>
      <4>1. i \in Int /\ i - 1 \in Int /\ i - 1 < i
        BY <1>1
      <4> QED
        BY <4>1, SubSeqEmpty
    <3>4. <<line[i]>> \in Line
      BY <3>1, LineCells DEF Line
    <3> QED
      BY <3>2, <3>3, <3>4, JoinNothing
  <2> HIDE DEF part
  <2> QED
    BY <2>1, <2>2, <2>3
<1>6. ASSUME NEW k \in 0..(e - i) - 1, k \in T PROVE k + 1 \in T
  <2> DEFINE m == i + (k + 1)
             c == <<line[m]>>
  <2>1. m \in i..e /\ m \in 1..n /\ m - 1 = i + k /\ m - 1 \in i..e /\ k + 1 \in 0..e - i /\ i - 1 \in 0..n
    BY <1>1
  <2>2. q[m] = c
    BY <1>3, <2>1
  <2>3. c \in Line
    BY <2>1, LineCells DEF Line
  <2> HIDE DEF m
  <2>4. part(m) = part(m - 1) \o c
    <3>1. i \in 1..n /\ m \in i..n
      BY <1>1, <2>1
    <3> QED
      BY <3>1, SubSeqRecursiveSecond DEF Line
  <2> HIDE DEF c
  <2>5. flat[m] = flat[m - 1] \o c
    BY <2>1, <2>2 DEF Assembles, Flattens, q
  <2>6. flat[i + k] = flat[i - 1] \o part(i + k)
    BY <1>6
  <2>7. part(m - 1) \in Line
    BY <1>4, <2>1
  <2>8. flat[i - 1] \in Line
    BY <1>2, <2>1
  <2> HIDE DEF part
  <2>9. \A x \in Line, y \in Line : (x \o y) \o c = x \o (y \o c)
    BY ONLY <2>3, JoinAssociates
  <2>10. flat[m - 1] = flat[i - 1] \o part(m - 1)
    BY <2>1, <2>6
  <2>11. flat[m] = flat[i - 1] \o part(m)
    BY <2>4, <2>5, <2>7, <2>8, <2>9, <2>10
  <2> QED
    BY <2>1, <2>11 DEF m
<1> HIDE DEF T
<1>7. e - i \in T
  <2>1. e - i \in Nat /\ e - i \in 0..e - i
    BY <1>1
  <2>2. \A k \in 0..e - i : k \in T
    BY <1>5, <1>6, <2>1, Upward
  <2> QED
    BY <2>1, <2>2
<1>8. i + (e - i) = e
  BY <1>1
<1>9. part(e) = Cells(line[i].piece)
  BY <1>1 DEF LinkAt, PieceAt, e
<1> HIDE DEF part
<1> QED
  BY <1>7, <1>8, <1>9 DEF T, e, Becomes

\* The cells of a link among others are that link.
LEMMA Embedded ==
    ASSUME NEW pre \in Line, NEW l \in Piece, IsLink(l), NEW post \in Line
    PROVE  l \in LinksIn((pre \o Cells(l)) \o post)
<1> DEFINE c == Cells(l)
           ab == pre \o c
           r == ab \o post
           i == Len(pre) + 1
<1>1. /\ c \in Line /\ Len(c) = Size(l) /\ Size(l) \in Nat /\ Size(l) >= 1
      /\ \A k \in 1..Size(l) : c[k] = [piece |-> l, k |-> k]
  BY Pieces
<1>2. Len(pre) \in Nat /\ Len(post) \in Nat
  BY LineCells
<1> HIDE DEF c
<1>3. /\ ab \in Line /\ Len(ab) = Len(pre) + Size(l)
      /\ \A k \in 1..Len(pre) + Size(l) : ab[k] = IF k <= Len(pre) THEN pre[k] ELSE c[k - Len(pre)]
  <2>1. /\ ab \in Line /\ Len(ab) = Len(pre) + Len(c)
        /\ \A k \in 1..Len(pre) + Len(c) : ab[k] = IF k <= Len(pre) THEN pre[k] ELSE c[k - Len(pre)]
    BY <1>1, ConcatProperties DEF Line
  <2> HIDE DEF ab
  <2> QED
    BY <1>1, <2>1
<1> HIDE DEF ab
<1>4. /\ r \in Line /\ Len(r) = Len(ab) + Len(post)
      /\ \A k \in 1..Len(ab) + Len(post) : r[k] = IF k <= Len(ab) THEN ab[k] ELSE post[k - Len(ab)]
  BY <1>3, ConcatProperties DEF Line
<1> HIDE DEF r
<1>5. ASSUME NEW k \in 1..Size(l) PROVE r[Len(pre) + k] = c[k]
  <2> DEFINE j == Len(pre) + k
  <2>1. /\ j \in 1..Len(pre) + Size(l) /\ ~ (j <= Len(pre)) /\ j - Len(pre) = k
        /\ j \in 1..Len(ab) + Len(post) /\ j <= Len(ab)
    BY <1>1, <1>2, <1>3
  <2> HIDE DEF j
  <2>2. r[j] = ab[j]
    BY <1>4, <2>1
  <2>3. ab[j] = c[j - Len(pre)]
    BY <1>3, <2>1
  <2> QED
    BY <2>1, <2>2, <2>3 DEF j
<1>6. r[i] = [piece |-> l, k |-> 1]
  <2>1. 1 \in 1..Size(l)
    BY <1>1
  <2> QED
    BY <1>1, <1>5, <2>1
<1>7. i \in DOMAIN r /\ i \in Nat /\ EndOf(r, i) = Len(pre) + Size(l) /\ EndOf(r, i) <= Len(r)
  <2>1. Len(r) = Len(pre) + Size(l) + Len(post)
    BY <1>1, <1>2, <1>3, <1>4
  <2>2. EndOf(r, i) = i + Size(l) - 1
    BY <1>6 DEF EndOf
  <2>3. DOMAIN r = 1..Len(r)
    BY <1>4, LineCells
  <2> QED
    BY <1>1, <1>2, <2>1, <2>2, <2>3
<1>8. SubSeq(r, i, EndOf(r, i)) = c
  <2> DEFINE e == EndOf(r, i)
  <2>1. e = Len(pre) + Size(l) /\ e \in Nat /\ i \in Nat /\ i >= 1 /\ i <= e /\ e <= Len(r) /\ e - i + 1 = Size(l)
    BY <1>1, <1>2, <1>7
  <2> HIDE DEF e
  <2>2. ASSUME NEW j \in i..e PROVE r[j] \in Cell
    <3>1. j \in 1..Len(r)
      BY <1>4, <2>1, LineCells
    <3> QED
      BY <1>4, <3>1, LineCells
  <2>3. i \in Int /\ e \in Int
    BY <2>1
  <2>4. /\ SubSeq(r, i, e) \in Seq(Cell)
        /\ Len(SubSeq(r, i, e)) = IF i <= e THEN e - i + 1 ELSE 0
        /\ \A j \in 1..e - i + 1 : SubSeq(r, i, e)[j] = r[i + j - 1]
    BY <2>2, <2>3, SubSeqProperties
  <2>5. Len(SubSeq(r, i, e)) = Size(l)
    BY <2>1, <2>4
  <2>6. ASSUME NEW j \in 1..Size(l) PROVE SubSeq(r, i, e)[j] = c[j]
    <3>1. i + j - 1 = Len(pre) + j /\ j \in 1..e - i + 1
      BY <1>2, <2>1
    <3> QED
      BY <1>5, <2>4, <3>1
  <2>7. SubSeq(r, i, e) = c
    BY <1>1, <2>4, <2>5, <2>6, SeqEqual DEF Line
  <2> QED
    BY <2>7 DEF e
<1>9. LinkAt(r, i) /\ r[i].piece = l
  BY <1>6, <1>7, <1>8 DEF LinkAt, PieceAt, c
<1>10. l \in LinksIn(r)
  <2> HIDE DEF i
  <2> QED
    BY <1>7, <1>9 DEF LinksIn
<1> QED
  BY <1>10 DEF r, ab, c

\* What becomes of the link at i.
NewPiece(line, i, R, dst) == IF i \in R THEN Relink(line[i].piece, dst) ELSE line[i].piece

\* A rewritten line has the new link of each that is replaced, if it is one, and each
\* that is not.
LEMMA LinksOfRewritten ==
    ASSUME NEW line \in Line, NEW dst \in Path, NEW R, R \subseteq LinkStarts(line),
           NEW i \in LinkStarts(line)
    PROVE  IsLink(NewPiece(line, i, R, dst)) =>
              NewPiece(line, i, R, dst) \in LinksIn(FlattenSeq(Texts(line, R, dst)))
<1> DEFINE n == Len(line)
           e == EndOf(line, i)
           q == Texts(line, R, dst)
           l == NewPiece(line, i, R, dst)
<1>1. n \in Nat /\ i \in 1..n /\ e \in i..n /\ line[i].piece \in Piece
  BY LineCells, Span DEF LinkStarts
<1>2. q \in [1..n -> Line]
  BY TextsType
<1>3. l \in Piece
  BY <1>1, RelinkIs DEF NewPiece
<1>4. PICK flat : Flattens(flat, n, q) /\ FlattenSeq(q) = flat[n]
  <2> HIDE DEF q, n
  <2> QED
    BY <1>1, <1>2, FlattenIs
<1>5. flat[e] = flat[i - 1] \o Cells(l)
  <2>1. Assembles(flat, line, R, dst)
    BY <1>4 DEF Assembles
  <2>3. CASE i \in R
    <3>1. Becomes(flat, line, i, Relink(line[i].piece, dst))
      BY <2>1, <2>3, SpanFlat
    <3> QED
      BY <2>3, <3>1 DEF Becomes, NewPiece
  <2>4. CASE i \notin R
    <3>1. Becomes(flat, line, i, line[i].piece)
      BY <2>1, <2>4, SpanKept
    <3> QED
      BY <2>4, <3>1 DEF Becomes, NewPiece
  <2> QED
    BY <2>3, <2>4
<1> HIDE DEF q, n, e, l
<1>6. PICK post \in Line : flat[n] = flat[e] \o post
  <2>1. e \in 0..n
    BY <1>1
  <2> QED
    BY <1>1, <1>2, <1>4, <2>1, FlatSplit
<1>7. flat[i - 1] \in Line
  <2>1. i - 1 \in 0..n
    BY <1>1
  <2> QED
    BY <1>4, <2>1 DEF Flattens
<1> DEFINE pre == flat[i - 1]
<1>8. pre \in Line /\ FlattenSeq(q) = (pre \o Cells(l)) \o post
  BY <1>4, <1>5, <1>6, <1>7
<1> HIDE DEF pre
<1>9. IsLink(l) => l \in LinksIn(FlattenSeq(q))
  BY <1>3, <1>6, <1>8, Embedded
<1> QED
  BY <1>9 DEF q, l

------------------------------------------------------------------------------
\* What is reported

\* What becomes of a link, in an answer.
NewText(l, dst, notes) == IF IsAmbiguous(Target(l), notes) THEN Ambiguous ELSE Relink(l, dst)

LEMMA LinksOfAre ==
    ASSUME NEW v, NEW p, NEW src, NEW dst, NEW notes, NEW r
    PROVE  r \in LinksOf(v, p, src, dst, notes) <=>
              \E i \in AllMatches(v[p], src) :
                 r = [path |-> p, old |-> v[p][i].piece, new |-> NewText(v[p][i].piece, dst, notes)]
BY DEF LinksOf, NewText

LEMMA ReportIs ==
    ASSUME NEW v, NEW src, NEW dst, NEW r
    PROVE  /\ r \in Report(v, src, dst) <=>
                 \E p \in Visited(v, dst) : r \in LinksOf(v, p, src, dst, Notes(v))
           /\ \A p \in Visited(v, dst) :
                 r \in Report(v, src, dst) /\ r.path = p <=> r \in LinksOf(v, p, src, dst, Notes(v))
<1>1. r \in Report(v, src, dst) <=>
         \E p \in Visited(v, dst) : r \in LinksOf(v, p, src, dst, Notes(v))
  BY DEF Report
<1>2. ASSUME NEW p, r \in LinksOf(v, p, src, dst, Notes(v)) PROVE r.path = p
  BY <1>2, LinksOfAre
<1> QED
  BY <1>1, <1>2

\* The new texts listed for a link.
Listed(p, l, links) == {r.new : r \in {x \in links : x.path = p /\ x.old = l}} \ {Ambiguous}

LEMMA ListedAre ==
    ASSUME NEW v, NEW p, v[p] \in Line, NEW src \in Path, NEW dst \in Path, NEW notes, NEW links,
           \A r : r \in links /\ r.path = p <=> r \in LinksOf(v, p, src, dst, notes),
           NEW i \in LinkStarts(v[p])
    PROVE  Listed(p, v[p][i].piece, links) =
              IF i \in Replaced(v[p], src, notes) THEN {Relink(v[p][i].piece, dst)} ELSE {}
<1> DEFINE line == v[p]
           l == line[i].piece
           M == AllMatches(line, src)
<1>1. l \in Piece /\ i \in DOMAIN line
  BY LineCells DEF LinkStarts
<1>2. Relink(l, dst) # Ambiguous
  BY <1>1, RelinkIs, LinkConstants
<1>3. /\ \A j \in M : j \in LinkStarts(line)
      /\ i \in M <=> Matches(l, src)
      /\ \A j \in M : Matches(line[j].piece, src)
      /\ i \in Replaced(line, src, notes) <=>
            Matches(l, src) /\ ~ IsAmbiguous(Target(l), notes)
  <2>1. M \subseteq LinkStarts(line)
    BY DEF AllMatches, MatchesOf, MatchAt, LinkStarts
  <2> QED
    BY <2>1, ReplacedAre
<1>4. \A r : r \in links /\ r.path = p /\ r.old = l <=>
               i \in M /\ r = [path |-> p, old |-> l, new |-> NewText(l, dst, notes)]
  <2>1. ASSUME NEW r, r \in links, r.path = p, r.old = l
        PROVE  i \in M /\ r = [path |-> p, old |-> l, new |-> NewText(l, dst, notes)]
    <3>1. r \in LinksOf(v, p, src, dst, notes)
      BY <2>1
    <3>2. PICK j \in M : r = [path |-> p, old |-> line[j].piece, new |-> NewText(line[j].piece, dst, notes)]
      BY <3>1, LinksOfAre
    <3>3. line[j].piece = l
      BY <2>1, <3>2
    <3>4. i \in M
      BY <1>3, <3>3
    <3> QED
      BY <3>2, <3>3, <3>4
  <2>2. ASSUME NEW r, i \in M, r = [path |-> p, old |-> l, new |-> NewText(l, dst, notes)]
        PROVE  r \in links /\ r.path = p /\ r.old = l
    <3>1. r \in LinksOf(v, p, src, dst, notes)
      BY <2>2, LinksOfAre
    <3> QED
      BY <2>2, <3>1
  <2> QED
    BY <2>1, <2>2
<1> HIDE DEF line, l, M
<1>5. CASE i \in M
  <2> DEFINE x0 == [path |-> p, old |-> l, new |-> NewText(l, dst, notes)]
             X == {x \in links : x.path = p /\ x.old = l}
  <2>1. x0.new = NewText(l, dst, notes)
    OBVIOUS
  <2>2. X = {x0}
    BY <1>4, <1>5
  <2> HIDE DEF x0, X
  <2>3. {r.new : r \in X} = {NewText(l, dst, notes)}
    BY <2>1, <2>2
  <2>4. Listed(p, l, links) = {NewText(l, dst, notes)} \ {Ambiguous}
    BY <2>3 DEF Listed, X
  <2> QED
    BY <1>2, <1>3, <1>5, <2>4 DEF NewText, line, l
<1>6. CASE i \notin M
  <2>1. {x \in links : x.path = p /\ x.old = l} = {}
    BY <1>4, <1>6
  <2>2. Listed(p, l, links) = {}
    BY <2>1 DEF Listed
  <2> QED
    BY <1>3, <1>6, <2>2 DEF line, l
<1> QED
  BY <1>5, <1>6

\* What an answer says of a line is the replacement of the links that are replaced.
LEMMA ReportedIs ==
    ASSUME NEW v, NEW p, v[p] \in Line, NEW src \in Path, NEW dst \in Path, NEW notes, NEW links,
           \A r : r \in links /\ r.path = p <=> r \in LinksOf(v, p, src, dst, notes)
    PROVE  AsReported(p, v[p], links) =
              FlattenSeq(Texts(v[p], Replaced(v[p], src, notes), dst))
<1> DEFINE line == v[p]
           R == Replaced(line, src, notes)
           Stays(i)  == \A j \in 1..i : LinkAt(line, j) /\ i <= EndOf(line, j)
                                           => Listed(p, line[j].piece, links) = {}
           Starts(i) == LinkAt(line, i) /\ ~ Stays(i)
           f == [i \in DOMAIN line |->
                   IF Starts(i) THEN Cells(CHOOSE n \in Listed(p, line[i].piece, links) : TRUE)
                   ELSE IF Stays(i) THEN <<line[i]>> ELSE <<>>]
<1>1. AsReported(p, line, links) = FlattenSeq(f)
  BY DEF AsReported, Listed
<1>2. R \subseteq LinkStarts(line)
  BY ReplacedAre
<1>3. \A i \in LinkStarts(line) :
         Listed(p, line[i].piece, links) = IF i \in R THEN {Relink(line[i].piece, dst)} ELSE {}
  BY ListedAre
<1>4. line \in Line /\ Len(line) \in Nat /\ DOMAIN line = 1..Len(line)
  BY LineCells
<1> HIDE DEF line, R
<1>5. ASSUME NEW i \in 1..Len(line)
      PROVE  Stays(i) <=> i \notin R /\ ~ Inside(line, R, i)
  <2>1. ASSUME NEW j \in R, j <= i, i <= EndOf(line, j) PROVE ~ Stays(i)
    <3>1. j \in 1..Len(line) /\ LinkAt(line, j)
      BY <1>2, <1>4 DEF LinkStarts
    <3>2. j \in 1..i
      BY <1>4, <2>1, <3>1
    <3>3. j \in LinkStarts(line)
      BY <1>2
    <3>4. Listed(p, line[j].piece, links) = {Relink(line[j].piece, dst)}
      BY <1>3, <3>3
    <3>5. Listed(p, line[j].piece, links) # {}
      BY <3>4
    <3> QED
      BY <2>1, <3>1, <3>2, <3>5
  <2>2. ASSUME ~ Stays(i) PROVE \E j \in R : j <= i /\ i <= EndOf(line, j)
    <3>1. PICK j \in 1..i : LinkAt(line, j) /\ i <= EndOf(line, j) /\ Listed(p, line[j].piece, links) # {}
      BY <2>2
    <3>2. j \in 1..Len(line) /\ j <= i
      BY <1>4
    <3>3. j \in LinkStarts(line)
      BY <1>4, <3>1, <3>2 DEF LinkStarts
    <3>4. j \in R
      BY <1>3, <3>1, <3>3
    <3> QED
      BY <3>1, <3>2, <3>4
  <2>3. ASSUME i \in R PROVE i <= i /\ i <= EndOf(line, i)
    BY <1>2, <1>4, <2>3, Spans
  <2>4. \A j \in R : j \in Nat
    BY <1>2, <1>4 DEF LinkStarts
  <2> HIDE DEF Stays
  <2>5. (\E j \in R : j <= i /\ i <= EndOf(line, j)) <=> i \in R \/ Inside(line, R, i)
    <3>1. ASSUME NEW j \in R, j <= i, i <= EndOf(line, j) PROVE i \in R \/ Inside(line, R, i)
      <4>1. j = i \/ j < i
        BY <2>4, <3>1
      <4> QED
        BY <3>1, <4>1 DEF Inside
    <3>2. ASSUME i \in R \/ Inside(line, R, i) PROVE \E j \in R : j <= i /\ i <= EndOf(line, j)
      <4>1. CASE i \in R
        BY <2>3, <4>1
      <4>2. CASE Inside(line, R, i)
        <5>1. PICK j \in R : j < i /\ i <= EndOf(line, j)
          BY <4>2 DEF Inside
        <5>2. j <= i
          BY <2>4, <5>1
        <5> QED
          BY <5>1, <5>2
      <4> QED
        BY <3>2, <4>1, <4>2
    <3> QED
      BY <3>1, <3>2
  <2> QED
    BY <2>1, <2>2, <2>5
<1>6. ASSUME NEW i \in 1..Len(line) PROVE Starts(i) <=> i \in R
  <2>1. ASSUME i \in R PROVE Starts(i)
    BY <1>2, <1>5, <2>1 DEF LinkStarts
  <2>2. ASSUME Starts(i), i \notin R PROVE FALSE
    <3>1. Inside(line, R, i)
      BY <1>5, <2>2
    <3>2. PICK j \in R : j < i /\ i <= EndOf(line, j)
      BY <3>1 DEF Inside
    <3>3. j \in DOMAIN line /\ LinkAt(line, j) /\ i \in DOMAIN line /\ j \in Nat /\ EndOf(line, j) \in Nat
      BY <1>2, <1>4, Span DEF LinkStarts
    <3>4. EndOf(line, j) < i
      BY <1>4, <2>2, <3>2, <3>3, Disjoint
    <3> QED
      BY <3>2, <3>3, <3>4
  <2> QED
    BY <2>1, <2>2
<1> HIDE DEF Stays, Starts
<1>7. ASSUME NEW i \in 1..Len(line) PROVE f[i] = Texts(line, R, dst)[i]
  <2>1. CASE i \in R
    <3>1. Listed(p, line[i].piece, links) = {Relink(line[i].piece, dst)}
      BY <1>2, <1>3, <2>1
    <3>2. (CHOOSE n \in Listed(p, line[i].piece, links) : TRUE) = Relink(line[i].piece, dst)
      BY <3>1
    <3>3. f[i] = Cells(CHOOSE n \in Listed(p, line[i].piece, links) : TRUE)
      BY <1>4, <1>6, <2>1
    <3>4. Texts(line, R, dst)[i] = Cells(Relink(line[i].piece, dst))
      BY <1>4, <2>1 DEF Texts
    <3> QED
      BY <3>2, <3>3, <3>4
  <2>2. CASE i \notin R
    <3>1. f[i] = IF Stays(i) THEN <<line[i]>> ELSE <<>>
      BY <1>4, <1>6, <2>2
    <3>2. Texts(line, R, dst)[i] = IF Inside(line, R, i) THEN <<>> ELSE <<line[i]>>
      BY <1>4, <2>2 DEF Texts
    <3> QED
      BY <1>5, <2>2, <3>1, <3>2
  <2> QED
    BY <2>1, <2>2
<1>8. f = [i \in 1..Len(line) |-> f[i]]
  BY <1>4
<1>9. Texts(line, R, dst) = [i \in 1..Len(line) |-> Texts(line, R, dst)[i]]
  BY <1>4 DEF Texts
<1> HIDE DEF f
<1>10. f = Texts(line, R, dst)
  BY <1>7, <1>8, <1>9
<1> QED
  BY <1>1, <1>10 DEF line, R

------------------------------------------------------------------------------
\* Moves

\* A move with its links, in the terms of the lemmas above.
LEMMA MoveIs ==
    ASSUME Typed(vault), NEW src \in Path, NEW dst \in Path, MoveNote(src, dst)
    PROVE  /\ CanMove(src, dst) /\ last'.src = src /\ last'.dst = dst
           /\ \A p \in Notes(vault) \ {src} :
                 /\ p \in Path /\ p # dst /\ p \in Visited(Renamed(src, dst), dst)
                 /\ vault[p] \in Line /\ Renamed(src, dst)[p] = vault[p]
           /\ last'.call = "move" =>
                 /\ last'.links = Report(Renamed(src, dst), src, dst)
                 /\ \A p \in Notes(vault) \ {src} :
                       vault'[p] = RewriteLine(vault[p], src, dst, Notes(Renamed(src, dst)))
           /\ last'.call = "panic" =>
                 \E p \in Notes(vault) \ {src} :
                    RewriteLine(vault[p], src, dst, Notes(Renamed(src, dst))) = Panicked
<1> DEFINE moved   == Renamed(src, dst)
           visited == Visited(moved, dst)
           line    == [p \in visited |-> RewriteLine(moved[p], src, dst, Notes(moved))]
           panics  == {p \in visited : line[p] = Panicked}
<1>1. CanMove(src, dst) /\ last'.src = src /\ last'.dst = dst
  BY DEF MoveNote
<1>2. /\ visited = Notes(vault) \ {src} /\ dst \notin Notes(vault)
      /\ \A p \in Path \ {src, dst} : moved[p] = vault[p]
  BY <1>1, RenamedIs
<1>3. ASSUME NEW p \in Notes(vault) \ {src}
      PROVE  p \in Path /\ p # dst /\ p \in visited /\ vault[p] \in Line /\ moved[p] = vault[p]
  <2>1. p \in Path /\ p # dst /\ p \in visited /\ vault[p] \in Line
    BY <1>2, NotesAre
  <2> QED
    BY <1>2, <2>1
<1>4. last'.call = "move" =>
         /\ last'.links = Report(moved, src, dst)
         /\ vault' = [p \in Path |-> IF p \in visited THEN line[p] ELSE moved[p]]
  BY DEF MoveNote
<1>5. last'.call = "panic" => panics # {}
  BY DEF MoveNote
<1> HIDE DEF visited, moved
<1>6. \A p \in visited : line[p] = RewriteLine(moved[p], src, dst, Notes(moved))
  OBVIOUS
<1> HIDE DEF line
<1>7. ASSUME last'.call = "move", NEW p \in Notes(vault) \ {src}
      PROVE  vault'[p] = RewriteLine(vault[p], src, dst, Notes(moved))
  BY <1>3, <1>4, <1>6, <1>7
<1>8. ASSUME last'.call = "panic"
      PROVE  \E p \in Notes(vault) \ {src} : RewriteLine(vault[p], src, dst, Notes(moved)) = Panicked
  <2>1. PICK p \in visited : line[p] = Panicked
    BY <1>5, <1>8
  <2>2. p \in Notes(vault) \ {src}
    BY <1>2, <2>1
  <2> QED
    BY <1>3, <1>6, <2>1, <2>2
<1> QED
  BY <1>1, <1>3, <1>4, <1>7, <1>8 DEF visited, moved

\* A line of another note, after a move.
LEMMA MovedLine ==
    ASSUME Typed(vault), NEW src \in Path, NEW dst \in Path, MoveNote(src, dst),
           last'.call = "move", NEW p \in Notes(vault) \ {src}, InOrder(vault[p], src)
    PROVE  /\ p \in Path /\ p # dst /\ vault[p] \in Line /\ vault'[p] \in Line
           /\ vault'[p] = AsReported(p, vault[p], last'.links)
           /\ Replaced(vault[p], src, Notes(Renamed(src, dst))) \subseteq LinkStarts(vault[p])
           /\ \A i \in LinkStarts(vault[p]) :
                 LET l == NewPiece(vault[p], i, Replaced(vault[p], src, Notes(Renamed(src, dst))), dst)
                 IN  IsLink(l) => l \in LinksIn(vault'[p])
           /\ \A r : r \in last'.links /\ r.path = p <=>
                        r \in LinksOf(Renamed(src, dst), p, src, dst, Notes(Renamed(src, dst)))
<1> DEFINE moved == Renamed(src, dst)
           notes == Notes(moved)
           R     == Replaced(vault[p], src, notes)
<1>1. /\ p \in Visited(moved, dst) /\ vault[p] \in Line /\ moved[p] = vault[p]
      /\ last'.links = Report(moved, src, dst)
      /\ vault'[p] = RewriteLine(vault[p], src, dst, notes)
  BY MoveIs
<1> HIDE DEF moved, notes
<1>2. vault'[p] = FlattenSeq(Texts(vault[p], R, dst))
  BY <1>1, SplicesAre
<1>3. R \subseteq LinkStarts(vault[p])
  BY <1>1, ReplacedAre
<1>4. \A r : r \in last'.links /\ r.path = p <=> r \in LinksOf(moved, p, src, dst, notes)
  BY <1>1, ReportIs DEF notes
<1>5. AsReported(p, moved[p], last'.links) = FlattenSeq(Texts(moved[p], Replaced(moved[p], src, notes), dst))
  BY <1>1, <1>4, ReportedIs
<1>6. ASSUME NEW i \in LinkStarts(vault[p])
      PROVE  IsLink(NewPiece(vault[p], i, R, dst)) => NewPiece(vault[p], i, R, dst) \in LinksIn(vault'[p])
  <2> HIDE DEF R
  <2>1. IsLink(NewPiece(vault[p], i, R, dst)) =>
           NewPiece(vault[p], i, R, dst) \in LinksIn(FlattenSeq(Texts(vault[p], R, dst)))
    BY <1>1, <1>3, LinksOfRewritten
  <2> QED
    BY <1>2, <2>1
<1>7. vault'[p] \in Line
  <2> DEFINE n == Len(vault[p])
             q == Texts(vault[p], R, dst)
  <2>1. n \in Nat /\ q \in [1..n -> Line]
    BY <1>1, <1>3, LineCells, TextsType
  <2> HIDE DEF n, q
  <2>2. PICK flat : Flattens(flat, n, q) /\ FlattenSeq(q) = flat[n]
    BY <2>1, FlattenIs
  <2> QED
    BY <1>2, <2>1, <2>2 DEF Flattens, q
<1>8. p \in Path /\ p # dst
  BY MoveIs
<1>9. vault'[p] = AsReported(p, vault[p], last'.links)
  BY <1>1, <1>2, <1>5
<1> QED
  BY <1>1, <1>3, <1>4, <1>6, <1>7, <1>8, <1>9 DEF moved, notes

LEMMA LinkPlaces ==
    ASSUME NEW line \in Line
    PROVE  \A l \in LinksIn(line) :
              \E i \in LinkStarts(line) : line[i].piece = l /\ l \in Piece /\ IsLink(l)
<1>1. \A l \in LinksIn(line) : \E i \in LinkStarts(line) : line[i].piece = l
  BY DEF LinksIn, LinkStarts
<1>2. \A i \in LinkStarts(line) : line[i].piece \in Piece /\ IsLink(line[i].piece)
  BY LineCells DEF LinkStarts, LinkAt
<1> QED
  BY <1>1, <1>2

LEMMA WhatNextIs ==
    ASSUME Next
    PROVE  /\ last'.call \in {"move", "panic"} =>
                \E src, dst \in Path : MoveNote(src, dst) /\ last'.src = src /\ last'.dst = dst
           /\ last'.call = "preview" =>
                \E src, dst \in Path : Preview(src, dst) /\ last'.src = src /\ last'.dst = dst
<1>1. PICK src \in Path, dst \in Path : Preview(src, dst) \/ MoveNote(src, dst) \/ MoveOnly(src, dst)
  BY DEF Next
<1>2. CASE Preview(src, dst)
  <2>1. last'.call = "preview" /\ last'.src = src /\ last'.dst = dst
    BY <1>2 DEF Preview
  <2> QED
    BY <1>2, <2>1
<1>3. CASE MoveNote(src, dst)
  <2>1. last'.call \in {"move", "panic"} /\ last'.src = src /\ last'.dst = dst
    BY <1>3 DEF MoveNote
  <2> QED
    BY <1>3, <2>1
<1>4. CASE MoveOnly(src, dst)
  <2>1. last'.call = "none"
    BY <1>4 DEF MoveOnly, Nothing
  <2> QED
    BY <2>1
<1> QED
  BY <1>1, <1>2, <1>3, <1>4

\* A move leaves every other note as its answer says, however many links share a line and
\* however long the names are; and it does return (rewriteLine, RewriteLinksOnMove).  It is
\* so where no matching Markdown link stands before a matching wikilink.
THEOREM AnswerIsTrue == Spec => AnswerIsWhatHappened
<1> DEFINE A == /\ Moved => \A p \in Notes(vault) \ {last'.src} :
                      InOrder(vault[p], last'.src) => vault'[p] = AsReported(p, vault[p], last'.links)
                /\ last'.call = "panic" =>
                      \E p \in Notes(vault) : ~ InOrder(vault[p], last'.src)
<1>1. TypeOK /\ [Next]_vars => [A]_vars
  <2> SUFFICES ASSUME TypeOK, Next PROVE A
    OBVIOUS
  <2>1. Typed(vault)
    BY DEF TypeOK, Typed, Line
  <2>2. ASSUME Moved, NEW p \in Notes(vault) \ {last'.src}, InOrder(vault[p], last'.src)
        PROVE  vault'[p] = AsReported(p, vault[p], last'.links)
    <3>1. PICK src \in Path, dst \in Path : MoveNote(src, dst) /\ last'.src = src /\ last'.dst = dst
      BY <2>2, WhatNextIs DEF Moved
    <3>2. last'.call = "move" /\ p \in Notes(vault) \ {src} /\ InOrder(vault[p], src)
      BY <2>2, <3>1 DEF Moved
    <3> QED
      BY <2>1, <3>1, <3>2, MovedLine
  <2>3. ASSUME last'.call = "panic" PROVE \E p \in Notes(vault) : ~ InOrder(vault[p], last'.src)
    <3>1. PICK src \in Path, dst \in Path : MoveNote(src, dst) /\ last'.src = src /\ last'.dst = dst
      BY <2>3, WhatNextIs
    <3> DEFINE notes == Notes(Renamed(src, dst))
    <3>2. PICK p \in Notes(vault) \ {src} : RewriteLine(vault[p], src, dst, notes) = Panicked
      BY <2>1, <2>3, <3>1, MoveIs
    <3>3. vault[p] \in Line
      BY <2>1, NotesAre
    <3> HIDE DEF notes
    <3>4. ASSUME InOrder(vault[p], src) PROVE FALSE
      <4> DEFINE R == Replaced(vault[p], src, notes)
                 n == Len(vault[p])
                 q == Texts(vault[p], R, dst)
      <4>1. RewriteLine(vault[p], src, dst, notes) = FlattenSeq(q)
        BY <3>3, <3>4, SplicesAre
      <4>2. n \in Nat /\ q \in [1..n -> Line]
        BY <3>3, ReplacedAre, LineCells, TextsType
      <4> HIDE DEF n, q
      <4>3. PICK flat : Flattens(flat, n, q) /\ FlattenSeq(q) = flat[n]
        BY <4>2, FlattenIs
      <4>4. FlattenSeq(q) \in Line
        BY <4>2, <4>3 DEF Flattens
      <4> QED
        BY <3>2, <4>1, <4>4, LinkConstants DEF Line
    <3> QED
      BY <3>1, <3>4
  <2> QED
    BY <2>2, <2>3
<1> QED
  BY <1>1, TypeCorrect, PTL DEF Spec, AnswerIsWhatHappened

LEMMA BacklinkIs ==
    ASSUME NEW v, Typed(v), NEW path, NEW p \in Path, p # path, v[p] \in Line,
           NEW l \in LinksIn(v[p]), LeadsTo(Target(l), path)
    PROVE  p \in Backlinks(v, path)
BY NotesAre DEF Backlinks

\* A link that leads to a path, if it is bare, leads to every path of that name.
LEMMA SameName ==
    ASSUME NEW l, Bare(Target(l)), NEW src, NEW dst, src.name = dst.name, LeadsTo(Target(l), src)
    PROVE  LeadsTo(Target(l), dst)
<1>1. Target(l) = [folder |-> Root, name |-> l.name]
  BY DEF Target, Bare
<1>2. Trimmed(Target(l)) = [folder |-> Root, name |-> TrimExt(l.name)]
  BY <1>1 DEF Trimmed
<1>3. Stem(src) = Stem(dst)
  BY DEF Stem
<1>4. \A nm : [folder |-> Root, name |-> nm] \in MatchTargets(src)
                 => [folder |-> Root, name |-> nm] \in MatchTargets(dst)
  BY <1>3 DEF MatchTargets
<1> QED
  BY <1>1, <1>2, <1>4 DEF LeadsTo

\* What a move does to a link of another note, in a line whose wikilinks come first.
LEMMA LinkAfterMove ==
    ASSUME Typed(vault), NEW src \in Path, NEW dst \in Path, MoveNote(src, dst),
           last'.call = "move", NEW p \in Notes(vault) \ {src}, InOrder(vault[p], src),
           NEW l \in LinksIn(vault[p])
    PROVE  /\ p \in Path /\ p # dst /\ vault'[p] \in Line /\ l \in Piece
           /\ IF Matches(l, src) /\ ~ IsAmbiguous(Target(l), Notes(Renamed(src, dst)))
              THEN IsLink(Relink(l, dst)) => Relink(l, dst) \in LinksIn(vault'[p])
              ELSE l \in LinksIn(vault'[p])
           /\ Matches(l, src) /\ IsAmbiguous(Target(l), Notes(Renamed(src, dst))) =>
                 [path |-> p, old |-> l, new |-> Ambiguous] \in last'.links
<1> DEFINE line == vault[p]
           moved == Renamed(src, dst)
           notes == Notes(moved)
           R == Replaced(line, src, notes)
<1>1. /\ p \in Path /\ p # dst /\ line \in Line /\ vault'[p] \in Line
      /\ R \subseteq LinkStarts(line)
      /\ \A i \in LinkStarts(line) :
            IsLink(NewPiece(line, i, R, dst)) => NewPiece(line, i, R, dst) \in LinksIn(vault'[p])
      /\ \A r : r \in last'.links /\ r.path = p <=> r \in LinksOf(moved, p, src, dst, notes)
  BY MovedLine
<1>2. PICK i \in LinkStarts(line) : line[i].piece = l /\ l \in Piece /\ IsLink(l)
  BY <1>1, LinkPlaces
<1>3. moved[p] = line
  BY MoveIs
<1> HIDE DEF moved, notes
<1>4. /\ i \in AllMatches(line, src) <=> Matches(l, src)
      /\ i \in R <=> Matches(l, src) /\ ~ IsAmbiguous(Target(l), notes)
  BY <1>1, <1>2, ReplacedAre
<1>5. NewPiece(line, i, R, dst) = IF i \in R THEN Relink(l, dst) ELSE l
  BY <1>2 DEF NewPiece
<1> HIDE DEF R
<1>6. IF Matches(l, src) /\ ~ IsAmbiguous(Target(l), notes)
      THEN IsLink(Relink(l, dst)) => Relink(l, dst) \in LinksIn(vault'[p])
      ELSE l \in LinksIn(vault'[p])
  BY <1>1, <1>2, <1>4, <1>5
<1>7. ASSUME Matches(l, src), IsAmbiguous(Target(l), notes)
      PROVE  [path |-> p, old |-> l, new |-> Ambiguous] \in last'.links
  <2> DEFINE r == [path |-> p, old |-> l, new |-> NewText(l, dst, notes)]
  <2>1. r \in LinksOf(moved, p, src, dst, notes)
    BY <1>2, <1>3, <1>4, <1>7, LinksOfAre
  <2>2. r = [path |-> p, old |-> l, new |-> Ambiguous]
    BY <1>7 DEF NewText
  <2> HIDE DEF r
  <2> QED
    BY <1>1, <2>1, <2>2
<1> QED
  BY <1>1, <1>2, <1>6, <1>7 DEF notes, moved

\* A link that get_backlinks takes for one to the moved note and that rewriteLine sees
\* leads to it after the move; one that rewriteLine does not see, for its white space, is
\* left as it was (GetBacklinks, rewriteLine, rewriteTarget, buildMatchTargets).  This
\* holds in lines in which no matching Markdown link stands before a matching wikilink,
\* up to ambiguous links of a note whose name changes and Markdown links to a note that
\* is moved to a name without ".md".
THEOREM LinksFollow == Spec => BacklinksFollow
<1>1. TypeOK /\ TypeOK' /\ [Next]_vars =>
      [Moved => \A p \in Notes(vault) \ {last'.src} : \A l \in LinksIn(vault[p]) :
        LET src == last'.src
            dst == last'.dst
        IN  LeadsTo(Target(l), src) /\ InOrder(vault[p], src) =>
            IF Matches(l, src)
            THEN /\ \/ src.name = dst.name
                    \/ [path |-> p, old |-> l, new |-> Ambiguous] \notin last'.links
                 /\ l.kind = "markdown" => EndsInMd(dst.name)
                 => p \in Backlinks(vault', dst)
            ELSE l \in LinksIn(vault'[p])]_vars
  <2> SUFFICES ASSUME TypeOK, TypeOK', Next, Moved,
                      NEW p \in Notes(vault) \ {last'.src}, NEW l \in LinksIn(vault[p]),
                      LeadsTo(Target(l), last'.src), InOrder(vault[p], last'.src)
               PROVE  IF Matches(l, last'.src)
                      THEN /\ \/ last'.src.name = last'.dst.name
                              \/ [path |-> p, old |-> l, new |-> Ambiguous] \notin last'.links
                           /\ l.kind = "markdown" => EndsInMd(last'.dst.name)
                           => p \in Backlinks(vault', last'.dst)
                      ELSE l \in LinksIn(vault'[p])
    OBVIOUS
  <2>1. Typed(vault) /\ Typed(vault')
    BY DEF TypeOK, Typed, Line
  <2>2. PICK src \in Path, dst \in Path : MoveNote(src, dst) /\ last'.src = src /\ last'.dst = dst
    BY WhatNextIs DEF Moved
  <2> DEFINE ambiguous == IsAmbiguous(Target(l), Notes(Renamed(src, dst)))
  <2>3. /\ p \in Path /\ p # dst /\ vault'[p] \in Line /\ l \in Piece
        /\ IF Matches(l, src) /\ ~ ambiguous
           THEN IsLink(Relink(l, dst)) => Relink(l, dst) \in LinksIn(vault'[p])
           ELSE l \in LinksIn(vault'[p])
        /\ Matches(l, src) /\ ambiguous =>
              [path |-> p, old |-> l, new |-> Ambiguous] \in last'.links
    <3>1. p \in Notes(vault) \ {src} /\ InOrder(vault[p], src) /\ last'.call = "move"
      BY <2>2 DEF Moved
    <3> QED
      BY <2>1, <2>2, <3>1, LinkAfterMove
  <2>4. ambiguous => Bare(Target(l))
    BY DEF IsAmbiguous
  <2> HIDE DEF ambiguous
  <2>5. CASE ~ Matches(l, src)
    BY <2>2, <2>3, <2>5
  <2>6. CASE Matches(l, src) /\ ambiguous
    <3>1. ASSUME src.name = dst.name PROVE p \in Backlinks(vault', dst)
      <4>1. LeadsTo(Target(l), dst)
        BY <2>2, <2>4, <2>6, <3>1, SameName
      <4>2. l \in LinksIn(vault'[p])
        BY <2>3, <2>6
      <4> QED
        BY <2>1, <2>3, <4>1, <4>2, BacklinkIs
    <3> QED
      BY <2>2, <2>3, <2>6, <3>1
  <2>7. CASE Matches(l, src) /\ ~ ambiguous
    <3>1. ASSUME l.kind = "markdown" => EndsInMd(dst.name) PROVE p \in Backlinks(vault', dst)
      <4>1. LeadsTo(Target(Relink(l, dst)), dst) /\ IsLink(Relink(l, dst))
        BY <2>3, <3>1, RelinkIs
      <4>2. Relink(l, dst) \in LinksIn(vault'[p])
        BY <2>3, <2>7, <4>1
      <4> QED
        BY <2>1, <2>3, <4>1, <4>2, BacklinkIs
    <3> QED
      BY <2>2, <2>7, <3>1
  <2> QED
    BY <2>5, <2>6, <2>7
<1> QED
  BY <1>1, TypeCorrect, PTL DEF Spec, BacklinksFollow

\* The notes with a stem after a move: one more than the others that have it if the moved
\* note has it, and otherwise as many.
NamesakesAdd(src, dst, stem) ==
    LET others == Cardinality({q \in Notes(vault) \ {src} : Stem(q) = stem})
        all    == Cardinality({q \in Notes(Renamed(src, dst)) : Stem(q) = stem})
    IN  others \in Nat /\ all = others + (IF Stem(dst) = stem THEN 1 ELSE 0)

LEMMA NamesakesAfter ==
    ASSUME Typed(vault), NEW src \in Path, NEW dst \in Path, CanMove(src, dst), NEW stem
    PROVE  NamesakesAdd(src, dst, stem)
<1> DEFINE notes == Notes(Renamed(src, dst))
           others == {q \in Notes(vault) \ {src} : Stem(q) = stem}
           all == {q \in notes : Stem(q) = stem}
<1>1. notes = (Notes(vault) \ {src}) \cup {dst} /\ dst \notin Notes(vault)
  BY RenamedIs
<1>2. IsFiniteSet(Notes(vault))
  BY NotesAre, LinkConstants, FS_Subset
<1> HIDE DEF notes
<1>3. IsFiniteSet(others) /\ Cardinality(others) \in Nat
  <2>1. others \subseteq Notes(vault)
    OBVIOUS
  <2> HIDE DEF others
  <2> QED
    BY <1>2, <2>1, FS_Subset, FS_CardinalityType
<1>4. CASE Stem(dst) = stem
  <2>1. all = others \cup {dst} /\ dst \notin others
    BY <1>1, <1>4
  <2> HIDE DEF all, others
  <2>2. Cardinality(all) = Cardinality(others) + 1
    BY <1>3, <2>1, FS_AddElement
  <2> QED
    BY <1>3, <1>4, <2>2 DEF all, others, notes, NamesakesAdd
<1>5. CASE Stem(dst) # stem
  <2>1. all = others
    BY <1>1, <1>5
  <2> HIDE DEF all, others
  <2> QED
    BY <1>3, <1>5, <2>1 DEF all, others, notes, NamesakesAdd
<1> QED
  BY <1>4, <1>5

\* Whether a bare link to the moved note is rewritten is decided by how many notes have,
\* after the move, the stem it is looked up by (basenameIndex, rewriteLine): with two or
\* more it stays, and otherwise it is rewritten, whichever note it led to.  This holds in
\* lines in which no matching Markdown link stands before a matching wikilink.
THEOREM NamesakesAreCounted == Spec => NamesakesDecide
<1>1. TypeOK /\ [Next]_vars =>
      [Moved => \A p \in Notes(vault) \ {last'.src} : \A l \in LinksIn(vault[p]) :
        LET src    == last'.src
            dst    == last'.dst
            stem   == TrimExt(l.name)
            Others == {q \in Notes(vault) \ {src} : Stem(q) = stem}
        IN  /\ Bare(Target(l)) /\ Matches(l, src) /\ InOrder(vault[p], src)
            => IF Cardinality(Others) >= (IF Stem(dst) = stem THEN 1 ELSE 2)
               THEN l \in LinksIn(vault'[p])
               ELSE IsLink(Relink(l, dst)) => Relink(l, dst) \in LinksIn(vault'[p])]_vars
  <2> SUFFICES ASSUME TypeOK, Next, Moved, NEW p \in Notes(vault) \ {last'.src},
                      NEW l \in LinksIn(vault[p]), Bare(Target(l)), Matches(l, last'.src),
                      InOrder(vault[p], last'.src)
               PROVE  LET src    == last'.src
                          dst    == last'.dst
                          stem   == TrimExt(l.name)
                          Others == {q \in Notes(vault) \ {src} : Stem(q) = stem}
                      IN  IF Cardinality(Others) >= (IF Stem(dst) = stem THEN 1 ELSE 2)
                          THEN l \in LinksIn(vault'[p])
                          ELSE IsLink(Relink(l, dst)) => Relink(l, dst) \in LinksIn(vault'[p])
    OBVIOUS
  <2>1. Typed(vault)
    BY DEF TypeOK, Typed, Line
  <2>2. PICK src \in Path, dst \in Path : MoveNote(src, dst) /\ last'.src = src /\ last'.dst = dst
    BY WhatNextIs DEF Moved
  <2> DEFINE notes  == Notes(Renamed(src, dst))
             stem   == TrimExt(l.name)
             others == Cardinality({q \in Notes(vault) \ {src} : Stem(q) = stem})
             all    == Cardinality({q \in notes : Stem(q) = stem})
  <2>3. IF ~ IsAmbiguous(Target(l), notes)
        THEN IsLink(Relink(l, dst)) => Relink(l, dst) \in LinksIn(vault'[p])
        ELSE l \in LinksIn(vault'[p])
    <3>1. /\ p \in Notes(vault) \ {src} /\ InOrder(vault[p], src) /\ last'.call = "move"
          /\ Matches(l, src)
      BY <2>2 DEF Moved
    <3> QED
      BY <2>1, <2>2, <3>1, LinkAfterMove
  <2>4. others \in Nat /\ all = others + (IF Stem(dst) = stem THEN 1 ELSE 0)
    <3>1. CanMove(src, dst)
      BY <2>1, <2>2, MoveIs
    <3>2. NamesakesAdd(src, dst, stem)
      BY <2>1, <3>1, NamesakesAfter
    <3> QED
      BY <3>2 DEF NamesakesAdd
  <2>5. IsAmbiguous(Target(l), notes) <=> all > 1
    <3>1. TrimExt(Target(l).name) = stem /\ Bare(Target(l))
      BY DEF Target
    <3> HIDE DEF stem, notes
    <3>2. IsAmbiguous(Target(l), notes) <=> Cardinality({q \in notes : Stem(q) = stem}) > 1
      BY <3>1 DEF IsAmbiguous
    <3> QED
      BY <3>2 DEF stem
  <2> HIDE DEF all, notes
  <2>6. IsAmbiguous(Target(l), notes) <=> others >= (IF Stem(dst) = stem THEN 1 ELSE 2)
    <3> HIDE DEF others, stem
    <3> QED
      BY <2>4, <2>5
  <2> QED
    BY <2>2, <2>3, <2>6
<1> QED
  BY <1>1, TypeCorrect, PTL DEF Spec, NamesakesDecide

------------------------------------------------------------------------------
\* A dry run and the move that follows it

\* A preview stays true until the next call.
Remembered ==
    last.call = "preview" =>
        /\ last.src \in Path /\ last.dst \in Path /\ CanMove(last.src, last.dst)
        /\ last.links = Report(vault, last.src, last.dst)

LEMMA PreviewRemembered == Spec => []Remembered
<1>1. Init => Remembered
  BY DEF Init, Nothing, Remembered
<1>2. TypeOK /\ Remembered /\ [Next]_vars => Remembered'
  <2> SUFFICES ASSUME Remembered, [Next]_vars PROVE Remembered'
    OBVIOUS
  <2>1. CASE UNCHANGED vars
    BY <2>1 DEF vars, Remembered, CanMove
  <2>2. CASE Next
    <3>1. SUFFICES ASSUME last'.call = "preview" PROVE Remembered'
      BY DEF Remembered
    <3>2. PICK src \in Path, dst \in Path : Preview(src, dst) /\ last'.src = src /\ last'.dst = dst
      BY <2>2, <3>1, WhatNextIs
    <3>3. CanMove(src, dst) /\ vault' = vault /\ last'.links = Report(vault, src, dst)
      BY <3>2 DEF Preview
    <3>4. CanMove(src, dst)' /\ Report(vault, src, dst) = Report(vault', src, dst)
      BY <3>3 DEF CanMove
    <3> QED
      BY <3>2, <3>3, <3>4 DEF Remembered, CanMove
  <2> QED
    BY <2>1, <2>2
<1> QED
  BY <1>1, <1>2, TypeCorrect, PTL DEF Spec

\* A note that moves and keeps its stem leaves the index of stems as it is.
LEMMA SameIndex ==
    ASSUME Typed(vault), NEW src \in Path, NEW dst \in Path, CanMove(src, dst), Stem(src) = Stem(dst)
    PROVE  \A target : IsAmbiguous(target, Notes(Renamed(src, dst))) <=> IsAmbiguous(target, Notes(vault))
<1> DEFINE old == Notes(vault)
           new == Notes(Renamed(src, dst))
<1>1. new = (old \ {src}) \cup {dst} /\ src \in old /\ dst \notin old
  BY RenamedIs
<1>2. IsFiniteSet(old)
  BY NotesAre, LinkConstants, FS_Subset
<1> HIDE DEF old, new
<1>3. ASSUME NEW s
      PROVE  Cardinality({p \in new : Stem(p) = s}) = Cardinality({p \in old : Stem(p) = s})
  <2> DEFINE O == {p \in old : Stem(p) = s}
             N == {p \in new : Stem(p) = s}
             B == O \ {src}
  <2>1. IsFiniteSet(O) /\ IsFiniteSet(B) /\ src \notin B /\ dst \notin B
    <3>1. O \subseteq old /\ B \subseteq old
      OBVIOUS
    <3> QED
      BY <1>1, <1>2, <3>1, FS_Subset
  <2>2. CASE s = Stem(src)
    <3>1. O = B \cup {src} /\ N = B \cup {dst}
      BY <1>1, <2>2
    <3> HIDE DEF O, N, B
    <3>2. Cardinality(O) = Cardinality(B) + 1 /\ Cardinality(N) = Cardinality(B) + 1
      BY <2>1, <3>1, FS_AddElement
    <3>3. Cardinality(N) = Cardinality(O)
      BY <3>2
    <3> QED
      BY <3>3 DEF N, O
  <2>3. CASE s # Stem(src)
    <3>1. O = N
      BY <1>1, <2>3
    <3> QED
      BY <3>1
  <2> QED
    BY <2>2, <2>3
<1> QED
  BY <1>3 DEF IsAmbiguous, old, new

\* A dry run lists what the move that follows it does, up to the links of the note to
\* itself, if the name stays (RewriteLinksOnMove before and after the rename).
THEOREM PreviewIsTrue == Spec => PreviewIsExact
<1> DEFINE A == /\ last.call = "preview" /\ Moved
                /\ last.src = last'.src /\ last.dst = last'.dst
                /\ Stem(last.src) = Stem(last.dst)
                => last'.links = {r \in last.links : r.path # last.src}
<1>1. TypeOK /\ Remembered /\ [Next]_vars => [A]_vars
  <2> SUFFICES ASSUME TypeOK, Remembered, Next, last.call = "preview", Moved,
                      last.src = last'.src, last.dst = last'.dst, Stem(last.src) = Stem(last.dst)
               PROVE  last'.links = {r \in last.links : r.path # last.src}
    OBVIOUS
  <2>1. Typed(vault)
    BY DEF TypeOK, Typed, Line
  <2>2. PICK src \in Path, dst \in Path : MoveNote(src, dst) /\ last'.src = src /\ last'.dst = dst
    BY WhatNextIs DEF Moved
  <2> DEFINE moved == Renamed(src, dst)
             old == Notes(vault)
             new == Notes(moved)
  <2>3. /\ CanMove(src, dst) /\ last'.links = Report(moved, src, dst)
        /\ last.links = Report(vault, src, dst)
    BY <2>1, <2>2, MoveIs DEF Remembered, Moved
  <2>4. \A target : IsAmbiguous(target, new) <=> IsAmbiguous(target, old)
    BY <2>1, <2>2, <2>3, SameIndex
  <2>5. /\ Visited(moved, dst) = old \ {src} /\ Visited(vault, dst) = old
        /\ \A p \in old \ {src} : moved[p] = vault[p]
    <3>1. \A p \in old \ {src} : moved[p] = vault[p]
      BY <2>1, <2>2, MoveIs
    <3> QED
      BY <2>1, <2>3, <3>1, RenamedIs DEF Visited
  <2> HIDE DEF moved, new, old
  <2>6. \A l : NewText(l, dst, new) = NewText(l, dst, old)
    BY <2>4 DEF NewText
  <2>7. ASSUME NEW p \in old \ {src}, NEW r
        PROVE  r \in LinksOf(moved, p, src, dst, new) <=> r \in LinksOf(vault, p, src, dst, old)
    <3>1. r \in LinksOf(moved, p, src, dst, new) <=>
             \E i \in AllMatches(vault[p], src) :
                 r = [path |-> p, old |-> vault[p][i].piece, new |-> NewText(vault[p][i].piece, dst, new)]
      BY <2>5, LinksOfAre
    <3>2. r \in LinksOf(vault, p, src, dst, old) <=>
             \E i \in AllMatches(vault[p], src) :
                 r = [path |-> p, old |-> vault[p][i].piece, new |-> NewText(vault[p][i].piece, dst, old)]
      BY LinksOfAre
    <3> QED
      BY <2>6, <3>1, <3>2
  <2>8. ASSUME NEW r PROVE r \in last'.links <=> r \in last.links /\ r.path # src
    <3>1. r \in last'.links <=> \E p \in old \ {src} : r \in LinksOf(vault, p, src, dst, old)
      BY <2>3, <2>5, <2>7, ReportIs DEF new
    <3>2. r \in last.links <=> \E p \in old : r \in LinksOf(vault, p, src, dst, old)
      BY <2>3, <2>5, ReportIs DEF old
    <3>3. \A p : r \in LinksOf(vault, p, src, dst, old) => r.path = p
      BY LinksOfAre
    <3> QED
      BY <3>1, <3>2, <3>3
  <2>9. last'.links = {r \in last.links : r.path # src}
    BY <2>8
  <2> QED
    BY <2>2, <2>9
<1> QED
  BY <1>1, TypeCorrect, PreviewRemembered, PTL DEF Spec, PreviewIsExact

===============================================================================
