---------------------------- MODULE NoteTextProofs ----------------------------
(***************************************************************************)
(* The text of a note, for any tags, notes of any length and any number of *)
(* calls: which lines are code before and after an edit, which characters  *)
(* of a line are, and from both that the list of tags and the sections     *)
(* change as the edit says.                                                *)
(***************************************************************************)
EXTENDS NoteText, SequenceTheorems, NaturalsInduction, FiniteSetTheorems, TLAPS

------------------------------------------------------------------------------
\* Induction on sets of numbers, and recursion

LEMMA Upward ==
    ASSUME NEW n \in Nat, NEW T, 0 \in T, \A k \in 0..n - 1 : k \in T => k + 1 \in T
    PROVE  \A k \in 0..n : k \in T
<1> DEFINE U == {k \in 0..n : k \notin T}
<1> SUFFICES ASSUME U # {} PROVE FALSE
  OBVIOUS
<1>1. U \subseteq Nat /\ U # {} /\ U \subseteq 0..n /\ \A k \in U : k \notin T
  OBVIOUS
<1>2. \A k \in 0..n : k \notin U => k \in T
  OBVIOUS
<1> HIDE DEF U
<1>3. PICK u \in U : \A y \in U : ~ (<<y, u>> \in OpToRel(<, Nat))
  BY <1>1, WFMin, NatLessThanWellFounded
<1>4. u \in Nat /\ u <= n /\ u \notin T /\ u # 0
  <2>1. u \in U /\ u \in 0..n /\ u \notin T
    BY <1>1, <1>3
  <2>2. u # 0
    BY <2>1
  <2> QED
    BY <2>1, <2>2
<1>5. u - 1 \in Nat /\ u - 1 \in 0..n - 1 /\ u - 1 \in 0..n /\ (u - 1) + 1 = u
  BY <1>4
<1>6. u - 1 \notin U
  <2>1. u - 1 < u
    BY <1>4
  <2>2. <<u - 1, u>> \in OpToRel(<, Nat)
    BY <1>4, <1>5, <2>1 DEF OpToRel
  <2> QED
    BY <1>3, <2>2
<1> QED
  BY <1>2, <1>4, <1>5, <1>6

\* f takes each of its values but the first from the one before.
Recurs(f, n, S, b, g) ==
    f \in [0..n -> S] /\ f = [k \in 0..n |-> IF k = 0 THEN b ELSE g[<<k, f[k - 1]>>]]

\* A function that takes each of its values from the one before exists.
LEMMA Recursion ==
    ASSUME NEW n \in Nat, NEW S, NEW b \in S, NEW g \in [(1..n) \X S -> S]
    PROVE  \E f : Recurs(f, n, S, b, g)
<1> DEFINE R(m, f) == /\ f \in [0..m -> S] /\ f[0] = b
                      /\ \A k \in 1..m : f[k] = g[<<k, f[k - 1]>>]
           T == {m \in 0..n : \E f : R(m, f)}
<1>1. 0 \in T
  <2> DEFINE f == [k \in 0..0 |-> b]
  <2>0. f \in [0..0 -> S] /\ f[0] = b /\ 1..0 = {}
    OBVIOUS
  <2>1. R(0, f)
    BY <2>0
  <2> HIDE DEF R, f
  <2> QED
    BY <2>1
<1>2. ASSUME NEW m \in 0..n - 1, m \in T PROVE m + 1 \in T
  <2>1. PICK f : R(m, f)
    BY <1>2
  <2> DEFINE e == [j \in 0..m + 1 |-> IF j = m + 1 THEN g[<<m + 1, f[m]>>] ELSE f[j]]
  <2>2. m + 1 \in 1..n /\ f[m] \in S /\ g[<<m + 1, f[m]>>] \in S
    BY <2>1
  <2>3. e \in [0..m + 1 -> S] /\ e[0] = b
    BY <2>1, <2>2
  <2>4. ASSUME NEW k \in 1..m + 1 PROVE e[k] = g[<<k, e[k - 1]>>]
    <3>1. k - 1 \in 0..m /\ e[k - 1] = f[k - 1]
      OBVIOUS
    <3>2. CASE k = m + 1
      <4>1. e[m + 1] = g[<<m + 1, f[m]>>] /\ k - 1 = m
        BY <3>2
      <4> QED
        BY <3>1, <3>2, <4>1
    <3>3. CASE k # m + 1
      <4>1. k \in 1..m /\ e[k] = f[k]
        BY <3>3
      <4> QED
        BY <2>1, <3>1, <4>1
    <3> QED
      BY <3>2, <3>3
  <2>5. R(m + 1, e)
    BY <2>3, <2>4
  <2> HIDE DEF R, e
  <2> QED
    BY <2>5
<1> HIDE DEF T
<1>3. n \in T
  <2>1. \A m \in 0..n : m \in T
    BY <1>1, <1>2, Upward
  <2> QED
    BY <2>1
<1>4. PICK f : R(n, f)
  BY <1>3 DEF T
<1> DEFINE e == [k \in 0..n |-> IF k = 0 THEN b ELSE g[<<k, f[k - 1]>>]]
<1>5. \A k \in 0..n : f[k] = e[k]
  <2> TAKE k \in 0..n
  <2>1. CASE k = 0
    BY <1>4, <2>1
  <2>2. CASE k # 0
    BY <1>4, <2>2
  <2> QED
    BY <2>1, <2>2
<1>6. f = e
  <2>1. f = [k \in 0..n |-> f[k]] /\ e = [k \in 0..n |-> e[k]]
    BY <1>4
  <2> HIDE DEF e
  <2> QED
    BY <1>5, <2>1
<1> QED
  BY <1>4, <1>6 DEF e, Recurs

LEMMA LeastIs ==
    ASSUME NEW S, S \subseteq Nat, S # {}
    PROVE  Min(S) \in S /\ \A k \in S : Min(S) <= k
<1>1. PICK m \in S : \A y \in S : ~ (<<y, m>> \in OpToRel(<, Nat))
  BY WFMin, NatLessThanWellFounded
<1>2. \A k \in S : m <= k
  <2> TAKE k \in S
  <2>1. ~ (<<k, m>> \in OpToRel(<, Nat)) /\ k \in Nat /\ m \in Nat
    BY <1>1
  <2> QED
    BY <2>1 DEF OpToRel
<1>3. \E x \in S : \A y \in S : x <= y
  BY <1>2
<1> QED
  BY <1>3, Zenon DEF Min

------------------------------------------------------------------------------
\* Lines

\* A line is prose exactly if one of its first three characters is no backtick, or
\* missing; any other line is a fence of three backticks or more.
LEMMA LineIs ==
    ASSUME NEW chars \in Seq(Char)
    PROVE  /\ (\E i \in 1..3 : i > Len(chars) \/ chars[i] # Tick) <=> Line(chars).kind = "prose"
           /\ Line(chars).kind = "prose" => Line(chars) = [kind |-> "prose", chars |-> chars]
           /\ Line(chars).kind # "prose" => Line(chars) \in {l \in Fence : l.run >= 3}
<1> DEFINE other == {i \in DOMAIN chars : chars[i] # Tick}
           run   == IF other = {} THEN Len(chars) ELSE Min(other) - 1
           info  == \E i \in other : chars[i] # Space
           fence == [kind |-> "fence", char |-> "backtick", run |-> run, info |-> info]
<1>1. DOMAIN chars = 1..Len(chars) /\ Len(chars) \in Nat
  OBVIOUS
<1>2. run \in Nat /\ run <= Len(chars) /\ (\A i \in 1..run : chars[i] = Tick)
      /\ (run < Len(chars) => chars[run + 1] # Tick)
  <2>1. CASE other = {}
    <3>1. run = Len(chars)
      BY <2>1
    <3>2. \A i \in 1..Len(chars) : chars[i] = Tick
      BY <1>1, <2>1
    <3> HIDE DEF run, other
    <3> QED
      BY <1>1, <3>1, <3>2
  <2>2. CASE other # {}
    <3>0. other \subseteq Nat /\ \A i \in other : i \in 1..Len(chars) /\ chars[i] # Tick
      BY <1>1
    <3>1. Min(other) \in other /\ \A k \in other : Min(other) <= k
      <4> HIDE DEF other
      <4> QED
        BY <2>2, <3>0, LeastIs
    <3> DEFINE m == Min(other)
    <3>2. run = m - 1 /\ m \in 1..Len(chars) /\ chars[m] # Tick /\ \A k \in other : m <= k
      <4> HIDE DEF other
      <4> QED
        BY <2>2, <3>0, <3>1
    <3> HIDE DEF m, run
    <3>3. ASSUME NEW i \in 1..run PROVE chars[i] = Tick
      <4>1. i \in DOMAIN chars /\ i < m
        BY <1>1, <3>2
      <4>2. i \notin other
        BY <3>2, <4>1
      <4> QED
        BY <4>1, <4>2
    <3> QED
      BY <1>1, <3>2, <3>3
  <2> QED
    BY <2>1, <2>2
<1>3. Line(chars) = IF run < 3 THEN [kind |-> "prose", chars |-> chars] ELSE fence
  BY DEF Line
<1>4. info \in BOOLEAN
  OBVIOUS
<1> HIDE DEF run, info
<1>5. (\E i \in 1..3 : i > Len(chars) \/ chars[i] # Tick) <=> run < 3
  <2>1. CASE run < 3
    <3>1. run + 1 \in 1..3 /\ (run + 1 > Len(chars) \/ chars[run + 1] # Tick)
      BY <1>1, <1>2, <2>1
    <3> QED
      BY <2>1, <3>1
  <2>2. CASE ~ (run < 3)
    <3>1. \A i \in 1..3 : i <= Len(chars) /\ chars[i] = Tick
      BY <1>1, <1>2, <2>2
    <3> QED
      BY <1>1, <2>2, <3>1
  <2> QED
    BY <2>1, <2>2
<1>6. fence.kind = "fence" /\ "fence" # "prose"
  OBVIOUS
<1>7. ~ (run < 3) => fence \in {l \in Fence : l.run >= 3}
  BY <1>2, <1>4 DEF Fence
<1> QED
  BY <1>3, <1>5, <1>6, <1>7

------------------------------------------------------------------------------
\* Fences

LEMMA Kinds ==
    \A l \in NoteLine :
        /\ l.kind \in {"fence", "heading", "prose"}
        /\ l.kind = "fence" => l \in Fence
        /\ l.kind = "prose" => l \in Prose
BY DEF NoteLine, Fence, Heading, Prose

\* The fence that is open after a line comes from the one before it and the line.
LEMMA OpenIs ==
    ASSUME NEW text \in Seq(NoteLine)
    PROVE  /\ OpenAfter(text, 0) = None
           /\ \A i \in 1..Len(text) : OpenAfter(text, i) = FenceStep(OpenAfter(text, i - 1), text[i])
           /\ \A i \in 0..Len(text) : OpenAfter(text, i) \in {None} \cup Fence
<1> DEFINE n == Len(text)
           S == {None} \cup Fence
           g == [p \in (1..n) \X S |-> FenceStep(p[2], text[p[1]])]
           E(e) == e = [i \in 0..n |-> IF i = 0 THEN None ELSE FenceStep(e[i - 1], text[i])]
<1>1. n \in Nat
  OBVIOUS
<1>2. \A i \in 1..n, s \in S : FenceStep(s, text[i]) \in S
  <2> TAKE i \in 1..n, s \in S
  <2>1. text[i] \in NoteLine
    OBVIOUS
  <2>2. text[i].kind = "fence" => text[i] \in Fence
    BY <2>1, Kinds
  <2> QED
    BY <2>2 DEF FenceStep
<1>3. g \in [(1..n) \X S -> S] /\ \A i \in 1..n, s \in S : g[<<i, s>>] = FenceStep(s, text[i])
  BY <1>2
<1>4. PICK f : Recurs(f, n, S, None, g)
  <2> HIDE DEF g, n, S
  <2>1. None \in S
    BY DEF S
  <2> QED
    BY <1>1, <1>3, <2>1, Recursion
<1>0. f \in [0..n -> S] /\ f[0] = None /\ \A i \in 1..n : f[i] = g[<<i, f[i - 1]>>]
  <2> HIDE DEF g, S
  <2> QED
    BY <1>1, <1>4 DEF Recurs
<1> HIDE DEF g
<1>5. E(f)
  <2> DEFINE e == [i \in 0..n |-> IF i = 0 THEN None ELSE FenceStep(f[i - 1], text[i])]
  <2>1. \A i \in 0..n : f[i] = e[i]
    <3> TAKE i \in 0..n
    <3>1. CASE i = 0
      BY <1>0, <3>1
    <3>2. CASE i # 0
      <4>1. f[i] = g[<<i, f[i - 1]>>] /\ i \in 1..n /\ f[i - 1] \in S
        BY <1>0, <3>2
      <4> QED
        BY <1>3, <3>2, <4>1
    <3> QED
      BY <3>1, <3>2
  <2>2. f = [i \in 0..n |-> f[i]] /\ e = [i \in 0..n |-> e[i]]
    BY <1>0
  <2> HIDE DEF e
  <2> QED
    BY <2>1, <2>2 DEF e
<1> DEFINE open == CHOOSE e : E(e)
<1>6. E(open)
  <2> HIDE DEF E
  <2> QED
    BY <1>5, Zenon
<1>7. \A i : OpenAfter(text, i) = open[i]
  BY DEF OpenAfter
<1> HIDE DEF open
<1>8. open[0] = None /\ \A i \in 1..n : open[i] = FenceStep(open[i - 1], text[i])
  BY <1>1, <1>6
<1> DEFINE T == {i \in 0..n : open[i] \in S}
<1>9. \A i \in 0..n : i \in T
  <2>1. 0 \in T
    BY <1>1, <1>8
  <2>2. ASSUME NEW i \in 0..n - 1, i \in T PROVE i + 1 \in T
    <3>1. i + 1 \in 1..n /\ (i + 1) - 1 = i /\ i + 1 \in 0..n /\ open[i] \in S
      BY <2>2
    <3> QED
      BY <1>2, <1>8, <3>1
  <2> HIDE DEF T, n
  <2> QED
    BY <1>1, <2>1, <2>2, Upward
<1> QED
  BY <1>7, <1>8, <1>9

\* The n lines of x after a and those of y after b have the same fence delimiters.
Alike(x, a, y, b, n) ==
    \A i \in 1..n : \/ x[a + i] = y[b + i]
                    \/ x[a + i].kind # "fence" /\ y[b + i].kind # "fence"

\* After each of them, and before the first, the same fence is open.
OpenAlike(x, a, y, b, n) == \A i \in 0..n : OpenAfter(x, a + i) = OpenAfter(y, b + i)

\* Two texts that have the same fence open at one place have the same fences open as
\* long as they differ in prose and headings only.
LEMMA SameFences ==
    ASSUME NEW x \in Seq(NoteLine), NEW y \in Seq(NoteLine), NEW a \in Nat, NEW b \in Nat,
           NEW n \in Nat, a + n <= Len(x), b + n <= Len(y),
           OpenAfter(x, a) = OpenAfter(y, b), Alike(x, a, y, b, n)
    PROVE  OpenAlike(x, a, y, b, n)
<1> DEFINE T == {i \in 0..n : OpenAfter(x, a + i) = OpenAfter(y, b + i)}
<1>1. 0 \in T
  OBVIOUS
<1>2. ASSUME NEW i \in 0..n - 1, i \in T PROVE i + 1 \in T
  <2>1. /\ i + 1 \in 1..n /\ i + 1 \in 0..n
        /\ a + (i + 1) \in 1..Len(x) /\ (a + (i + 1)) - 1 = a + i
        /\ b + (i + 1) \in 1..Len(y) /\ (b + (i + 1)) - 1 = b + i
    OBVIOUS
  <2>2. /\ OpenAfter(x, a + (i + 1)) = FenceStep(OpenAfter(x, a + i), x[a + (i + 1)])
        /\ OpenAfter(y, b + (i + 1)) = FenceStep(OpenAfter(y, b + i), y[b + (i + 1)])
    BY <2>1, OpenIs
  <2>3. OpenAfter(x, a + i) = OpenAfter(y, b + i)
    BY <1>2
  <2>4. FenceStep(OpenAfter(x, a + i), x[a + (i + 1)]) = FenceStep(OpenAfter(y, b + i), y[b + (i + 1)])
    BY <2>1, <2>3 DEF FenceStep, Closes, Alike
  <2> QED
    BY <2>1, <2>2, <2>4
<1> HIDE DEF T
<1>3. \A i \in 0..n : i \in T
  BY <1>1, <1>2, Upward
<1> QED
  BY <1>3 DEF T, OpenAlike

LEMMA SameBeginning ==
    ASSUME NEW x \in Seq(NoteLine), NEW y \in Seq(NoteLine), NEW n \in Nat, n <= Len(x), n <= Len(y),
           \A i \in 1..n : x[i] = y[i]
    PROVE  \A i \in 0..n : OpenAfter(x, i) = OpenAfter(y, i)
<1> DEFINE a == 0
<1>1. a \in Nat /\ a + n <= Len(x) /\ a + n <= Len(y) /\ \A i \in 0..n : a + i = i
  OBVIOUS
<1>2. OpenAfter(x, a) = OpenAfter(y, a)
  BY OpenIs
<1> HIDE DEF a
<1>3. \A i \in 1..n : x[a + i] = y[a + i]
  <2> TAKE i \in 1..n
  <2>1. a + i = i
    BY <1>1
  <2> QED
    BY <2>1
<1>4. OpenAlike(x, a, y, a, n)
  <2>1. Alike(x, a, y, a, n)
    BY <1>3 DEF Alike
  <2>2. a + n <= Len(x) /\ a + n <= Len(y) /\ a \in Nat
    BY <1>1
  <2> QED
    BY <1>2, <2>1, <2>2, SameFences
<1> QED
  BY <1>1, <1>4 DEF OpenAlike

------------------------------------------------------------------------------
\* What Dropping leaves

\* rank[i] is how many of the first i places are left.
Ranks(rank, n, gone) ==
    /\ rank \in [0..n -> Nat] /\ rank[0] = 0
    /\ \A i \in 1..n : rank[i] = IF i \in gone THEN rank[i - 1] ELSE rank[i - 1] + 1

LEMMA RanksOrder ==
    ASSUME NEW n \in Nat, NEW gone, NEW rank, Ranks(rank, n, gone)
    PROVE  /\ \A i, j \in 0..n : i <= j => rank[i] <= rank[j]
           /\ \A i, j \in 0..n : i < j /\ j \notin gone => rank[i] < rank[j]
           /\ \A r \in 1..rank[n] : \E i \in 1..n : i \notin gone /\ rank[i] = r
<1>0. /\ rank \in [0..n -> Nat] /\ rank[0] = 0
      /\ \A i \in 1..n : rank[i] = IF i \in gone THEN rank[i - 1] ELSE rank[i - 1] + 1
  BY DEF Ranks
<1> DEFINE T == {j \in 0..n : /\ \A i \in 0..j : rank[i] <= rank[j]
                              /\ \A r \in 1..rank[j] : \E i \in 1..j : i \notin gone /\ rank[i] = r}
<1>1. 0 \in T
  BY <1>0
<1>2. ASSUME NEW j \in 0..n - 1, j \in T PROVE j + 1 \in T
  <2>1. /\ j + 1 \in 1..n /\ j + 1 \in 0..n /\ (j + 1) - 1 = j /\ rank[j] \in Nat /\ rank[j + 1] \in Nat
        /\ rank[j + 1] = IF j + 1 \in gone THEN rank[j] ELSE rank[j] + 1
    BY <1>0
  <2>2. ASSUME NEW i \in 0..j + 1 PROVE rank[i] <= rank[j + 1]
    <3>1. CASE i = j + 1
      BY <2>1, <3>1
    <3>2. CASE i # j + 1
      <4>1. i \in 0..j /\ i \in 0..n /\ rank[i] \in Nat
        BY <1>0, <3>2
      <4>2. rank[i] <= rank[j]
        BY <1>2, <4>1
      <4> QED
        BY <2>1, <4>1, <4>2
    <3> QED
      BY <3>1, <3>2
  <2>3. ASSUME NEW r \in 1..rank[j + 1] PROVE \E i \in 1..j + 1 : i \notin gone /\ rank[i] = r
    <3>1. CASE r <= rank[j]
      <4>1. PICK i \in 1..j : i \notin gone /\ rank[i] = r
        BY <1>2, <2>1, <3>1
      <4> QED
        BY <4>1
    <3>2. CASE ~ (r <= rank[j])
      <4>1. j + 1 \notin gone /\ r = rank[j + 1]
        BY <2>1, <3>2
      <4> QED
        BY <4>1
    <3> QED
      BY <3>1, <3>2
  <2> QED
    BY <2>1, <2>2, <2>3
<1> HIDE DEF T
<1>3. \A j \in 0..n : j \in T
  BY <1>1, <1>2, Upward
<1>4. ASSUME NEW i \in 0..n, NEW j \in 0..n, i < j, j \notin gone PROVE rank[i] < rank[j]
  <2>1. j \in 1..n /\ j - 1 \in 0..n /\ i \in 0..j - 1
    BY <1>4
  <2>2. rank[j] = rank[j - 1] + 1 /\ rank[j - 1] \in Nat /\ rank[i] \in Nat
    BY <1>0, <1>4, <2>1
  <2>3. rank[i] <= rank[j - 1]
    BY <1>3, <2>1 DEF T
  <2> QED
    BY <2>2, <2>3
<1>5. \A i, j \in 0..n : i <= j => rank[i] <= rank[j]
  <2> SUFFICES ASSUME NEW i \in 0..n, NEW j \in 0..n, i <= j PROVE rank[i] <= rank[j]
    OBVIOUS
  <2>1. i \in 0..j
    OBVIOUS
  <2> QED
    BY <1>3, <2>1 DEF T
<1>6. \A r \in 1..rank[n] : \E i \in 1..n : i \notin gone /\ rank[i] = r
  <2>1. n \in T
    BY <1>3
  <2> QED
    BY <2>1 DEF T
<1> QED
  BY <1>4, <1>5, <1>6

LEMMA DroppingIs ==
    ASSUME NEW S, NEW seq \in Seq(S), NEW gone
    PROVE  \E rank : /\ Ranks(rank, Len(seq), gone)
                     /\ Dropping(seq, gone) \in Seq(S) /\ Len(Dropping(seq, gone)) = rank[Len(seq)]
                     /\ \A i \in 1..Len(seq) : i \notin gone => Dropping(seq, gone)[rank[i]] = seq[i]
<1> DEFINE n == Len(seq)
           V == Seq(S)
           Step(k, i) == IF i \in gone THEN k ELSE Append(k, seq[i])
           g == [p \in (1..n) \X V |-> Step(p[2], p[1])]
           E(e) == e = [i \in 0..n |-> IF i = 0 THEN <<>> ELSE Step(e[i - 1], i)]
<1>1. n \in Nat
  OBVIOUS
<1>2. \A i \in 1..n, k \in V : Step(k, i) \in V
  <2> TAKE i \in 1..n, k \in V
  <2>1. seq[i] \in S
    OBVIOUS
  <2> QED
    BY <2>1, AppendProperties
<1>3. g \in [(1..n) \X V -> V] /\ \A i \in 1..n, k \in V : g[<<i, k>>] = Step(k, i)
  <2> HIDE DEF Step
  <2> QED
    BY <1>2
<1>4. PICK f : Recurs(f, n, V, <<>>, g)
  <2> HIDE DEF g, n
  <2>1. <<>> \in V
    BY EmptySeq
  <2> HIDE DEF V
  <2> QED
    BY <1>1, <1>3, <2>1, Recursion
<1>5. f \in [0..n -> V] /\ f[0] = <<>> /\ \A i \in 1..n : f[i] = g[<<i, f[i - 1]>>]
  <2> HIDE DEF g, V
  <2> QED
    BY <1>1, <1>4 DEF Recurs
<1> HIDE DEF g
<1>6. E(f)
  <2> DEFINE e == [i \in 0..n |-> IF i = 0 THEN <<>> ELSE Step(f[i - 1], i)]
  <2>1. \A i \in 0..n : f[i] = e[i]
    <3> TAKE i \in 0..n
    <3>1. CASE i = 0
      BY <1>5, <3>1
    <3>2. CASE i # 0
      <4>1. f[i] = g[<<i, f[i - 1]>>] /\ i \in 1..n /\ f[i - 1] \in V
        BY <1>5, <3>2
      <4>2. f[i] = Step(f[i - 1], i)
        <5> HIDE DEF Step, V
        <5> QED
          BY <1>3, <4>1
      <4>3. e[i] = Step(f[i - 1], i)
        <5> HIDE DEF Step
        <5> QED
          BY <3>2
      <4> QED
        BY ONLY <4>2, <4>3
    <3> QED
      BY <3>1, <3>2
  <2>2. f = [i \in 0..n |-> f[i]] /\ e = [i \in 0..n |-> e[i]]
    BY <1>5
  <2> HIDE DEF e
  <2> QED
    BY <2>1, <2>2 DEF e
<1> DEFINE kept == CHOOSE e : E(e)
<1>7. E(kept)
  <2> HIDE DEF E
  <2> QED
    BY <1>6, Zenon
<1>8. Dropping(seq, gone) = kept[n]
  BY DEF Dropping
<1> HIDE DEF kept, Step
<1>9. kept[0] = <<>> /\ \A i \in 1..n : kept[i] = Step(kept[i - 1], i)
  BY <1>1, <1>7
<1> DEFINE T == {i \in 0..n : kept[i] \in V}
<1>10. \A i \in 0..n : i \in T
  <2>1. 0 \in T
    <3>1. <<>> \in V /\ 0 \in 0..n
      BY <1>1, EmptySeq
    <3> HIDE DEF V
    <3> QED
      BY <1>9, <3>1
  <2>2. ASSUME NEW i \in 0..n - 1, i \in T PROVE i + 1 \in T
    <3>1. i + 1 \in 1..n /\ (i + 1) - 1 = i /\ i + 1 \in 0..n /\ kept[i] \in V
      BY <2>2
    <3> HIDE DEF V
    <3> QED
      BY <1>2, <1>9, <3>1
  <2> HIDE DEF T, n
  <2> QED
    BY <1>1, <2>1, <2>2, Upward
<1> DEFINE rank == [i \in 0..n |-> Len(kept[i])]
<1>11. \A i \in 0..n : kept[i] \in Seq(S) /\ rank[i] = Len(kept[i]) /\ rank[i] \in Nat
  BY <1>10
<1>12. ASSUME NEW i \in 1..n
       PROVE  /\ i \in gone => kept[i] = kept[i - 1]
              /\ i \notin gone => kept[i] = Append(kept[i - 1], seq[i])
              /\ i - 1 \in 0..n /\ i \in 0..n /\ seq[i] \in S
  <2>1. kept[i] = Step(kept[i - 1], i)
    BY <1>9
  <2>2. Step(kept[i - 1], i) = IF i \in gone THEN kept[i - 1] ELSE Append(kept[i - 1], seq[i])
    BY DEF Step
  <2>3. i - 1 \in 0..n /\ i \in 0..n /\ seq[i] \in S
    OBVIOUS
  <2> QED
    BY <2>1, <2>2, <2>3
<1>13. ASSUME NEW i \in 1..n
       PROVE  /\ rank[i] = IF i \in gone THEN rank[i - 1] ELSE rank[i - 1] + 1
              /\ i \notin gone => kept[i][rank[i]] = seq[i]
              /\ \A r \in 1..rank[i - 1] : kept[i][r] = kept[i - 1][r]
  <2> HIDE DEF rank
  <2>1. CASE i \in gone
    BY <1>11, <1>12, <2>1
  <2>2. CASE i \notin gone
    <3>1. Len(kept[i]) = Len(kept[i - 1]) + 1
      BY <1>11, <1>12, <2>2
    <3>2. kept[i][Len(kept[i - 1]) + 1] = seq[i] /\ \A r \in 1..Len(kept[i - 1]) : kept[i][r] = kept[i - 1][r]
      <4>1. kept[i] = Append(kept[i - 1], seq[i]) /\ kept[i - 1] \in Seq(S) /\ seq[i] \in S
        BY <1>11, <1>12, <2>2
      <4> QED
        BY ONLY <4>1, AppendProperties
    <3> QED
      BY <1>11, <1>12, <2>2, <3>1, <3>2
  <2> QED
    BY <2>1, <2>2
<1>14. rank \in [0..n -> Nat] /\ rank[0] = 0
  BY <1>9, <1>11
<1> HIDE DEF rank
<1>15. Ranks(rank, n, gone)
  BY <1>13, <1>14 DEF Ranks
<1> DEFINE U == {i \in 0..n : \A j \in 1..i : j \notin gone => kept[i][rank[j]] = seq[j]}
<1>16. \A i \in 0..n : i \in U
  <2>1. 0 \in U
    BY <1>1
  <2>2. ASSUME NEW i \in 0..n - 1, i \in U PROVE i + 1 \in U
    <3>1. i + 1 \in 1..n /\ (i + 1) - 1 = i /\ i + 1 \in 0..n
      OBVIOUS
    <3>2. ASSUME NEW j \in 1..i + 1, j \notin gone PROVE kept[i + 1][rank[j]] = seq[j]
      <4>1. CASE j = i + 1
        BY <1>13, <3>1, <3>2, <4>1
      <4>2. CASE j # i + 1
        <5>1. j \in 1..i /\ j \in 0..n /\ i \in 0..n /\ j <= i /\ 0 \in 0..n /\ 0 < j
          BY <4>2
        <5>2. rank[j] <= rank[i] /\ rank[0] < rank[j]
          BY <1>1, <1>15, <3>2, <5>1, RanksOrder
        <5>3. rank[j] \in 1..rank[i]
          BY <1>14, <5>1, <5>2
        <5>4. kept[i + 1][rank[j]] = kept[i][rank[j]]
          BY <1>13, <3>1, <5>3
        <5> QED
          BY <2>2, <3>2, <5>1, <5>4
      <4> QED
        BY <4>1, <4>2
    <3> QED
      BY <3>1, <3>2
  <2> HIDE DEF U, n
  <2> QED
    BY <1>1, <2>1, <2>2, Upward
<1>17. n \in 0..n /\ n \in U
  BY <1>1, <1>16
<1>18. Dropping(seq, gone) \in Seq(S) /\ Len(Dropping(seq, gone)) = rank[n]
  BY <1>8, <1>11, <1>17
<1>19. \A i \in 1..n : i \notin gone => Dropping(seq, gone)[rank[i]] = seq[i]
  BY <1>8, <1>17
<1> QED
  BY <1>15, <1>18, <1>19

------------------------------------------------------------------------------
\* What the edits of a tag find

Findable(chars, j, tag) ==
    /\ j \in 1..Len(chars) /\ chars[j] = tag /\ ~ BeforeLetter(chars, j)
    /\ j > 1 => chars[j - 1] \notin Tag \cup {Broken}

\* Where the match of the tag at j begins.
Start(j) == IF j = 1 THEN 1 ELSE j - 1

\* A match begins exactly where a tag that can be found says, and finds that tag.
LEMMA Matches ==
    ASSUME NEW chars \in Seq(Char), NEW tag \in Tag, NEW k \in 1..Len(chars)
    PROVE  /\ MatchAt(chars, k, tag) =>
                 Findable(chars, TagOf(chars, k, tag), tag) /\ Start(TagOf(chars, k, tag)) = k
           /\ \A j \in 1..Len(chars) : Findable(chars, j, tag) /\ Start(j) = k =>
                 MatchAt(chars, k, tag) /\ TagOf(chars, k, tag) = j
<1>1. ASSUME MatchAt(chars, k, tag)
      PROVE  Findable(chars, TagOf(chars, k, tag), tag) /\ Start(TagOf(chars, k, tag)) = k
  <2>1. CASE k = 1 /\ chars[1] = tag /\ ~ BeforeLetter(chars, 1)
    BY <2>1 DEF Findable, Start, TagOf
  <2>2. CASE /\ k < Len(chars) /\ chars[k + 1] = tag
             /\ chars[k] \notin Tag \cup {Broken} /\ ~ BeforeLetter(chars, k + 1)
    <3>1. TagOf(chars, k, tag) = k + 1
      BY <2>2 DEF TagOf
    <3>2. k + 1 \in 1..Len(chars) /\ (k + 1) - 1 = k /\ k + 1 # 1 /\ k + 1 > 1
      BY <2>2
    <3> QED
      BY <2>2, <3>1, <3>2 DEF Findable, Start
  <2> QED
    BY <1>1, <2>1, <2>2 DEF MatchAt
<1>2. ASSUME NEW j \in 1..Len(chars), Findable(chars, j, tag), Start(j) = k
      PROVE  MatchAt(chars, k, tag) /\ TagOf(chars, k, tag) = j
  <2>1. CASE j = 1
    BY <1>2, <2>1 DEF Findable, Start, MatchAt, TagOf
  <2>2. CASE j # 1
    <3>1. j = k + 1 /\ j - 1 = k /\ k < Len(chars) /\ j > 1
      BY <1>2, <2>2 DEF Start
    <3>2. chars[k + 1] = tag /\ chars[k] \notin Tag \cup {Broken} /\ ~ BeforeLetter(chars, k + 1)
      BY <1>2, <3>1 DEF Findable
    <3> QED
      BY <3>1, <3>2 DEF MatchAt, TagOf
  <2> QED
    BY <2>1, <2>2
<1> QED
  BY <1>1, <1>2

\* What an edit finds can be found, and it finds all of it if no two occurrences are
\* one character apart.
LEMMA HitsAre ==
    ASSUME NEW chars \in Seq(Char), NEW tag \in Tag
    PROVE  /\ \A h \in Hits(chars, tag) : Findable(chars, h, tag)
           /\ Apart(chars, tag) => \A j : Findable(chars, j, tag) => j \in Hits(chars, tag)
<1> DEFINE n == Len(chars)
           V == [next : Nat, hits : SUBSET (1..n)]
           b == [next |-> 1, hits |-> {}]
           Step(s, k) == HitStep(chars, tag, s, k)
           g == [p \in (1..n) \X V |-> Step(p[2], p[1])]
           E(e) == e = [k \in 0..n |-> IF k = 0 THEN b ELSE Step(e[k - 1], k)]
<1>1. n \in Nat
  OBVIOUS
<1>2. ASSUME NEW k \in 1..n, NEW s \in V PROVE Step(s, k) \in V
  <2>1. CASE k < s.next \/ ~ MatchAt(chars, k, tag)
    BY <2>1 DEF HitStep
  <2>2. CASE ~ (k < s.next \/ ~ MatchAt(chars, k, tag))
    <3> DEFINE j == TagOf(chars, k, tag)
    <3>1. j \in 1..n
      BY <2>2, Matches DEF Findable
    <3>2. Step(s, k) = [next |-> j + 2, hits |-> s.hits \cup {j}]
      BY <2>2 DEF HitStep
    <3> HIDE DEF j, Step
    <3>3. j + 2 \in Nat /\ s.hits \cup {j} \in SUBSET (1..n)
      BY <3>1
    <3> QED
      BY <3>2, <3>3
  <2> QED
    BY <2>1, <2>2
<1>3. g \in [(1..n) \X V -> V] /\ \A k \in 1..n, s \in V : g[<<k, s>>] = Step(s, k)
  <2> HIDE DEF Step, V
  <2> QED
    BY <1>2
<1>4. PICK f : Recurs(f, n, V, b, g)
  <2>1. b \in V
    OBVIOUS
  <2> HIDE DEF g, n, V, b
  <2> QED
    BY <1>1, <1>3, <2>1, Recursion
<1>5. f \in [0..n -> V] /\ f[0] = b /\ \A k \in 1..n : f[k] = g[<<k, f[k - 1]>>]
  <2> HIDE DEF g, V, b
  <2> QED
    BY <1>1, <1>4 DEF Recurs
<1>6. \A k \in 1..n : f[k] = Step(f[k - 1], k)
  <2> TAKE k \in 1..n
  <2>1. k - 1 \in 0..n
    OBVIOUS
  <2> HIDE DEF Step, V, g
  <2> QED
    BY <1>3, <1>5, <2>1
<1> HIDE DEF g
<1>7. E(f)
  <2> DEFINE e == [k \in 0..n |-> IF k = 0 THEN b ELSE Step(f[k - 1], k)]
  <2>1. \A k \in 0..n : f[k] = e[k]
    <3> HIDE DEF b, Step
    <3> TAKE k \in 0..n
    <3>1. CASE k = 0
      BY <1>5, <3>1
    <3>2. CASE k # 0
      BY <1>6, <3>2
    <3> QED
      BY <3>1, <3>2
  <2>2. f = [k \in 0..n |-> f[k]] /\ e = [k \in 0..n |-> e[k]]
    BY <1>5
  <2>3. f = e
    <3> HIDE DEF e
    <3> QED
      BY <2>1, <2>2
  <2> QED
    BY <2>3, Zenon
<1> DEFINE scan == CHOOSE e : E(e)
<1>8. E(scan)
  <2> HIDE DEF E
  <2> QED
    BY <1>7, Zenon
<1>9. Hits(chars, tag) = scan[n].hits
  BY DEF Hits
<1> HIDE DEF scan
<1>10. scan[0] = b /\ \A k \in 1..n : scan[k] = Step(scan[k - 1], k)
  <2> HIDE DEF b, Step
  <2> QED
    BY <1>1, <1>8
<1> DEFINE T == {k \in 0..n : scan[k] \in V /\ \A h \in scan[k].hits : Findable(chars, h, tag) /\ Start(h) <= k}
<1>11. \A k \in 0..n : k \in T
  <2>1. 0 \in T
    <3>1. b \in V /\ b.hits = {}
      OBVIOUS
    <3> HIDE DEF b, V
    <3> QED
      BY <1>1, <1>10, <3>1
  <2>2. ASSUME NEW k \in 0..n - 1, k \in T PROVE k + 1 \in T
    <3>1. k + 1 \in 1..n /\ (k + 1) - 1 = k /\ k + 1 \in 0..n /\ scan[k] \in V
      BY <2>2
    <3> DEFINE s == scan[k]
               j == TagOf(chars, k + 1, tag)
    <3>2. scan[k + 1] = Step(s, k + 1) /\ scan[k + 1] \in V
      <4> HIDE DEF V, Step
      <4> QED
        BY <1>2, <1>10, <3>1
    <3>3. CASE k + 1 < s.next \/ ~ MatchAt(chars, k + 1, tag)
      <4>1. scan[k + 1] = s
        BY <3>2, <3>3 DEF HitStep
      <4>2. \A h \in s.hits : Findable(chars, h, tag) /\ Start(h) <= k /\ h \in 1..n
        BY <2>2, <3>1
      <4>3. \A h \in s.hits : Start(h) <= k + 1
        BY <4>2 DEF Start
      <4> QED
        BY <3>1, <3>2, <4>1, <4>2, <4>3
    <3>4. CASE ~ (k + 1 < s.next \/ ~ MatchAt(chars, k + 1, tag))
      <4>1. scan[k + 1].hits = s.hits \cup {j}
        BY <3>2, <3>4 DEF HitStep
      <4>2. Findable(chars, j, tag) /\ Start(j) = k + 1
        BY <3>1, <3>4, Matches
      <4>3. \A h \in s.hits : Findable(chars, h, tag) /\ Start(h) <= k /\ h \in 1..n
        BY <2>2, <3>1
      <4>4. \A h \in s.hits : Start(h) <= k + 1
        BY <4>3 DEF Start
      <4> HIDE DEF j, s, V
      <4>5. \A h \in scan[k + 1].hits : Findable(chars, h, tag) /\ Start(h) <= k + 1
        BY <4>1, <4>2, <4>3, <4>4
      <4> QED
        BY <3>1, <3>2, <4>5
    <3> QED
      BY <3>3, <3>4
  <2> HIDE DEF T, n
  <2> QED
    BY <1>1, <2>1, <2>2, Upward
<1>12. ASSUME Apart(chars, tag), NEW i, Findable(chars, i, tag) PROVE i \in Hits(chars, tag)
  <2> DEFINE U == {k \in 0..n : /\ \A j \in 1..n : Findable(chars, j, tag) /\ Start(j) <= k => j \in scan[k].hits
                                /\ scan[k].next = 1 \/ \E h \in scan[k].hits : scan[k].next = h + 2}
  <2>1. 0 \in U
    <3>1. \A j \in 1..n : ~ (Start(j) <= 0)
      BY DEF Start
    <3>2. scan[0].next = 1
      BY <1>10
    <3> QED
      BY <1>1, <3>1, <3>2
  <2>2. ASSUME NEW k \in 0..n - 1, k \in U PROVE k + 1 \in U
    <3>1. k + 1 \in 1..n /\ (k + 1) - 1 = k /\ k + 1 \in 0..n /\ k \in 0..n
      OBVIOUS
    <3> DEFINE s == scan[k]
               j == TagOf(chars, k + 1, tag)
    <3>2. s \in V /\ \A h \in s.hits : Findable(chars, h, tag) /\ Start(h) <= k /\ h \in 1..n
      BY <1>11, <3>1
    <3>3. scan[k + 1] = Step(s, k + 1)
      <4> HIDE DEF Step
      <4> QED
        BY <1>10, <3>1
    <3>4. \A h \in 1..n : Findable(chars, h, tag) /\ Start(h) <= k + 1 =>
             h \in s.hits \/ (MatchAt(chars, k + 1, tag) /\ h = j /\ Start(h) = k + 1)
      <4> TAKE h \in 1..n
      <4> HAVE Findable(chars, h, tag) /\ Start(h) <= k + 1
      <4>1. CASE Start(h) <= k
        BY <2>2, <4>1
      <4>2. CASE ~ (Start(h) <= k)
        <5>1. Start(h) = k + 1
          BY <4>2 DEF Start
        <5> QED
          BY <3>1, <5>1, Matches
      <4> QED
        BY <4>1, <4>2
    <3>5. CASE ~ MatchAt(chars, k + 1, tag)
      <4>1. scan[k + 1] = s
        BY <3>3, <3>5 DEF HitStep
      <4> QED
        BY <2>2, <3>1, <3>4, <3>5, <4>1
    <3>6. CASE MatchAt(chars, k + 1, tag)
      <4>1. Findable(chars, j, tag) /\ Start(j) = k + 1 /\ j \in 1..n
        BY <3>1, <3>6, Matches DEF Findable
      <4>2. ~ (k + 1 < s.next)
        <5> SUFFICES ASSUME k + 1 < s.next PROVE FALSE
          OBVIOUS
        <5>1. PICK h \in s.hits : s.next = h + 2
          BY <2>2
        <5>2. h \in 1..n /\ Start(h) <= k /\ chars[h] = tag
          BY <3>2, <5>1 DEF Findable
        <5>3. j = k + 2 /\ j > 1 /\ j < h + 3 /\ h < j
          <6> HIDE DEF j, s, V
          <6> QED
            BY <4>1, <5>1, <5>2 DEF Start
        <5>4. chars[j] = tag /\ chars[j - 1] \notin Tag
          BY <4>1, <5>3 DEF Findable
        <5>5. CASE j = h + 1
          BY <5>2, <5>4, <5>5
        <5>6. CASE j = h + 2
          <6>1. j \in 3..Len(chars) /\ j - 2 = h
            BY <4>1, <5>2, <5>6
          <6> QED
            BY <1>12, <5>2, <5>4, <6>1 DEF Apart
        <5> HIDE DEF j
        <5> QED
          BY <4>1, <5>2, <5>3, <5>5, <5>6
      <4>3. scan[k + 1] = [next |-> j + 2, hits |-> s.hits \cup {j}]
        BY <3>3, <3>6, <4>2 DEF HitStep
      <4> HIDE DEF j, s
      <4>4. scan[k + 1].next = j + 2 /\ scan[k + 1].hits = s.hits \cup {j}
        BY <4>3
      <4> QED
        BY <3>1, <3>4, <4>4
    <3> QED
      BY <3>5, <3>6
  <2> HIDE DEF U
  <2>3. n \in U
    <3>1. \A k \in 0..n : k \in U
      BY <1>1, <2>1, <2>2, Upward
    <3> QED
      BY <1>1, <3>1
  <2>4. i \in 1..n /\ Start(i) <= n
    BY <1>12 DEF Findable, Start
  <2> QED
    BY <1>9, <1>12, <2>3, <2>4 DEF U
<1>13. \A h \in Hits(chars, tag) : Findable(chars, h, tag)
  <2>1. n \in T
    BY <1>1, <1>11
  <2> QED
    BY <1>9, <2>1
<1> QED
  BY <1>12, <1>13

------------------------------------------------------------------------------
\* Code spans

\* A run of backticks ends before the first place after it that has none.
LEMMA TickRunIs ==
    ASSUME NEW chars \in Seq(Char), NEW i \in 1..Len(chars)
    PROVE  /\ TickRunEnd(chars, i) \in i..Len(chars)
           /\ TickRunEnd(chars, i) = Len(chars) \/ chars[TickRunEnd(chars, i) + 1] # Tick
           /\ \A k \in i..TickRunEnd(chars, i) - 1 : chars[k + 1] = Tick
<1> DEFINE ends == {j \in i..Len(chars) : j = Len(chars) \/ chars[j + 1] # Tick}
<1>1. Len(chars) \in Nat /\ i \in Nat
  OBVIOUS
<1>2. Len(chars) \in ends /\ ends \subseteq Nat
  BY <1>1
<1>3. Min(ends) \in ends /\ \A k \in ends : Min(ends) <= k
  <2> HIDE DEF ends
  <2> QED
    BY <1>2, LeastIs
<1>4. TickRunEnd(chars, i) = Min(ends)
  BY DEF TickRunEnd
<1> DEFINE e == Min(ends)
<1>5. e \in i..Len(chars) /\ (e = Len(chars) \/ chars[e + 1] # Tick)
  BY <1>3
<1>6. ASSUME NEW k \in i..e - 1 PROVE chars[k + 1] = Tick
  <2>1. k \in i..Len(chars) /\ ~ (e <= k)
    <3> HIDE DEF e
    <3> QED
      BY <1>1, <1>5
  <2>2. k \notin ends
    BY <1>3, <2>1
  <2> QED
    BY <2>1, <2>2
<1> QED
  BY <1>4, <1>5, <1>6

Later(chars, i) == {j \in (i + 1)..Len(chars) : chars[j] = Tick}

LEMMA LaterIs ==
    ASSUME NEW chars \in Seq(Char), NEW i \in 1..Len(chars), Later(chars, i) # {}
    PROVE  /\ Min(Later(chars, i)) \in (i + 1)..Len(chars) /\ chars[Min(Later(chars, i))] = Tick
           /\ \A j \in (i + 1)..Len(chars) : chars[j] = Tick => Min(Later(chars, i)) <= j
<1>1. Later(chars, i) \subseteq Nat /\ Later(chars, i) = {j \in (i + 1)..Len(chars) : chars[j] = Tick}
  BY DEF Later
<1>2. Min(Later(chars, i)) \in Later(chars, i) /\ \A j \in Later(chars, i) : Min(Later(chars, i)) <= j
  BY <1>1, LeastIs
<1> QED
  BY <1>1, <1>2

\* The cases of a step.
LEMMA CodeSteps ==
    ASSUME NEW chars, NEW s, NEW i
    PROVE  /\ i < s.next \/ chars[i] # Tick => CodeStep(chars, s, i) = s
           /\ ~ (i < s.next) /\ chars[i] = Tick =>
                 CodeStep(chars, s, i) =
                    IF TickRunEnd(chars, i) = i /\ Later(chars, i) = {} THEN s
                    ELSE IF TickRunEnd(chars, i) > i THEN [s EXCEPT !.next = TickRunEnd(chars, i) + 1]
                    ELSE [next |-> Min(Later(chars, i)) + 1, hidden |-> s.hidden \cup i..Min(Later(chars, i))]
<1>1. Later(chars, i) = {j \in (i + 1)..Len(chars) : chars[j] = Tick}
  BY DEF Later
<1> QED
  BY <1>1, Zenon DEF CodeStep

LEMMA CodeMoves ==
    ASSUME NEW chars, NEW s, NEW i, ~ (i < s.next), chars[i] = Tick
    PROVE  CodeStep(chars, s, i) =
              IF TickRunEnd(chars, i) = i /\ Later(chars, i) = {} THEN s
              ELSE IF TickRunEnd(chars, i) > i THEN [s EXCEPT !.next = TickRunEnd(chars, i) + 1]
              ELSE [next |-> Min(Later(chars, i)) + 1, hidden |-> s.hidden \cup i..Min(Later(chars, i))]
BY CodeSteps

State(n) == [next : Nat, hidden : SUBSET (1..n)]

Scans(scan, chars) ==
    /\ scan \in [0..Len(chars) -> State(Len(chars))]
    /\ scan[0] = [next |-> 1, hidden |-> {}]
    /\ \A k \in 1..Len(chars) : scan[k] = CodeStep(chars, scan[k - 1], k)

\* The scan of a line is a function, and what it has hidden at the end is hidden.
LEMMA HiddenIs ==
    ASSUME NEW chars \in Seq(Char)
    PROVE  \E scan : Scans(scan, chars) /\ Hidden(chars) = scan[Len(chars)].hidden
<1> DEFINE n == Len(chars)
           V == State(n)
           b == [next |-> 1, hidden |-> {}]
           Step(s, k) == CodeStep(chars, s, k)
           g == [p \in (1..n) \X V |-> Step(p[2], p[1])]
           E(e) == e = [k \in 0..n |-> IF k = 0 THEN b ELSE Step(e[k - 1], k)]
<1>1. n \in Nat
  OBVIOUS
<1>2. ASSUME NEW k \in 1..n, NEW s \in V PROVE Step(s, k) \in V
  <2> DEFINE end == TickRunEnd(chars, k)
             min == Min(Later(chars, k))
  <2>1. end \in k..n
    BY TickRunIs
  <2>2. Later(chars, k) # {} => min \in k + 1..n
    BY LaterIs
  <2>3. s.next \in Nat /\ s.hidden \subseteq 1..n /\ s = [next |-> s.next, hidden |-> s.hidden]
    BY DEF State
  <2>4. CASE k < s.next \/ chars[k] # Tick
    BY <2>4, CodeSteps
  <2>5. CASE ~ (k < s.next \/ chars[k] # Tick)
    <3>1. Step(s, k) = IF end = k /\ Later(chars, k) = {} THEN s
                       ELSE IF end > k THEN [s EXCEPT !.next = end + 1]
                       ELSE [next |-> min + 1, hidden |-> s.hidden \cup k..min]
      BY <2>5, CodeSteps
    <3> HIDE DEF end, min, Step
    <3>2. CASE end = k /\ Later(chars, k) = {}
      BY <3>1, <3>2
    <3>3. CASE end > k
      <4>1. end + 1 \in Nat
        BY <2>1
      <4>2. Step(s, k) = [s EXCEPT !.next = end + 1]
        BY <3>1, <3>3
      <4> QED
        BY <4>1, <4>2 DEF State
    <3>4. CASE ~ (end > k) /\ Later(chars, k) # {}
      <4>1. min + 1 \in Nat /\ s.hidden \cup k..min \in SUBSET (1..n)
        BY <2>2, <2>3, <3>4
      <4>2. Step(s, k) = [next |-> min + 1, hidden |-> s.hidden \cup k..min]
        BY <3>1, <3>4
      <4> QED
        BY <4>1, <4>2 DEF State
    <3> QED
      BY <2>1, <3>2, <3>3, <3>4
  <2> QED
    BY <2>4, <2>5
<1>3. g \in [(1..n) \X V -> V] /\ \A k \in 1..n, s \in V : g[<<k, s>>] = Step(s, k)
  <2> HIDE DEF Step, V
  <2> QED
    BY <1>2
<1>4. PICK f : Recurs(f, n, V, b, g)
  <2>1. b \in V
    BY DEF State
  <2> HIDE DEF g, n, V, b
  <2> QED
    BY <1>1, <1>3, <2>1, Recursion
<1>5. f \in [0..n -> V] /\ f[0] = b /\ \A k \in 1..n : f[k] = g[<<k, f[k - 1]>>]
  <2> HIDE DEF g, V, b
  <2> QED
    BY <1>1, <1>4 DEF Recurs
<1>6. \A k \in 1..n : f[k] = Step(f[k - 1], k)
  <2> TAKE k \in 1..n
  <2>1. k - 1 \in 0..n
    OBVIOUS
  <2> HIDE DEF Step, V, g
  <2> QED
    BY <1>3, <1>5, <2>1
<1> HIDE DEF g
<1>7. E(f)
  <2> DEFINE e == [k \in 0..n |-> IF k = 0 THEN b ELSE Step(f[k - 1], k)]
  <2>1. \A k \in 0..n : f[k] = e[k]
    <3> HIDE DEF b, Step
    <3> TAKE k \in 0..n
    <3>1. CASE k = 0
      BY <1>5, <3>1
    <3>2. CASE k # 0
      BY <1>6, <3>2
    <3> QED
      BY <3>1, <3>2
  <2>2. f = [k \in 0..n |-> f[k]] /\ e = [k \in 0..n |-> e[k]]
    BY <1>5
  <2>3. f = e
    <3> HIDE DEF e
    <3> QED
      BY <2>1, <2>2
  <2> QED
    BY <2>3, Zenon
<1> DEFINE scan == CHOOSE e : E(e)
<1>8. E(scan)
  <2> HIDE DEF E
  <2> QED
    BY <1>7, Zenon
<1>9. Hidden(chars) = scan[n].hidden
  BY DEF Hidden
<1> HIDE DEF scan
<1>10. scan[0] = b /\ \A k \in 1..n : scan[k] = Step(scan[k - 1], k)
  <2> HIDE DEF b, Step
  <2> QED
    BY <1>1, <1>8
<1>11. scan = [k \in 0..n |-> scan[k]]
  <2> DEFINE body(k) == IF k = 0 THEN b ELSE Step(scan[k - 1], k)
  <2>1. scan = [k \in 0..n |-> body(k)]
    BY <1>8
  <2> HIDE DEF body
  <2> QED
    BY <2>1
<1> DEFINE T == {k \in 0..n : scan[k] \in V}
<1>12. \A k \in 0..n : k \in T
  <2>1. 0 \in T
    BY <1>1, <1>10 DEF State
  <2>2. ASSUME NEW k \in 0..n - 1, k \in T PROVE k + 1 \in T
    <3>1. k + 1 \in 1..n /\ (k + 1) - 1 = k /\ k + 1 \in 0..n /\ scan[k] \in V
      BY <2>2
    <3> HIDE DEF V, Step
    <3> QED
      BY <1>2, <1>10, <3>1
  <2> HIDE DEF T, n
  <2> QED
    BY <1>1, <2>1, <2>2, Upward
<1>13. scan \in [0..n -> V]
  <2>1. \A k \in 0..n : scan[k] \in V
    BY <1>12
  <2> HIDE DEF V
  <2> QED
    BY <1>11, <2>1
<1> QED
  BY <1>9, <1>10, <1>13 DEF Scans

\* The line y is what is left of the line x, with the same backticks: none is gone, and
\* nothing is gone that stands behind one.
Embeds(x, y, gone, rank) ==
    /\ Ranks(rank, Len(x), gone) /\ Len(y) = rank[Len(x)]
    /\ \A i \in 1..Len(x) : i \notin gone => (x[i] = Tick <=> y[rank[i]] = Tick)
    /\ \A i \in 1..Len(x) : i \in gone => x[i] # Tick
    /\ \A i \in 1..Len(x) : i < Len(x) /\ x[i] = Tick => i + 1 \notin gone

LEMMA EmbedsOrder ==
    ASSUME NEW x \in Seq(Char), NEW y \in Seq(Char), NEW gone, NEW rank, Embeds(x, y, gone, rank)
    PROVE  /\ \A i \in 1..Len(x) : i \notin gone => rank[i] \in 1..Len(y)
           /\ \A i, j \in 1..Len(x) : i \notin gone /\ j \notin gone => (i <= j <=> rank[i] <= rank[j])
           /\ \A r \in 1..Len(y) : \E i \in 1..Len(x) : i \notin gone /\ rank[i] = r
           /\ \A i \in 1..Len(x) : i < Len(x) /\ i + 1 \notin gone => rank[i + 1] = rank[i] + 1
<1> DEFINE n == Len(x)
<1>1. n \in Nat /\ Ranks(rank, n, gone) /\ Len(y) = rank[n] /\ rank \in [0..n -> Nat] /\ rank[0] = 0
  BY DEF Embeds, Ranks
<1>2. /\ \A i, j \in 0..n : i <= j => rank[i] <= rank[j]
      /\ \A i, j \in 0..n : i < j /\ j \notin gone => rank[i] < rank[j]
      /\ \A r \in 1..rank[n] : \E i \in 1..n : i \notin gone /\ rank[i] = r
  <2>1. n \in Nat /\ Ranks(rank, n, gone)
    BY <1>1
  <2> HIDE DEF n
  <2> QED
    BY <2>1, RanksOrder
<1>3. ASSUME NEW i \in 1..n, i \notin gone PROVE rank[i] \in 1..Len(y)
  <2>1. 0 \in 0..n /\ i \in 0..n /\ n \in 0..n /\ 0 < i /\ i <= n
    BY <1>1
  <2>2. rank[0] < rank[i] /\ rank[i] <= rank[n] /\ rank[i] \in Nat
    BY <1>1, <1>2, <1>3, <2>1
  <2> QED
    BY <1>1, <2>2
<1>4. ASSUME NEW i \in 1..n, NEW j \in 1..n, i \notin gone, j \notin gone PROVE i <= j <=> rank[i] <= rank[j]
  <2>1. i \in 0..n /\ j \in 0..n /\ rank[i] \in Nat /\ rank[j] \in Nat
    BY <1>1
  <2>2. i <= j => rank[i] <= rank[j]
    BY <1>2, <2>1
  <2>3. j < i => rank[j] < rank[i]
    BY <1>2, <1>4, <2>1
  <2> QED
    BY <2>1, <2>2, <2>3
<1>5. ASSUME NEW i \in 1..n, i < n, i + 1 \notin gone PROVE rank[i + 1] = rank[i] + 1
  <2>1. i + 1 \in 1..n /\ (i + 1) - 1 = i
    BY <1>5
  <2> QED
    BY <1>1, <1>5, <2>1 DEF Ranks
<1> QED
  BY <1>1, <1>2, <1>3, <1>4, <1>5

LEMMA SameRunEnd ==
    ASSUME NEW x \in Seq(Char), NEW y \in Seq(Char), NEW gone, NEW rank, Embeds(x, y, gone, rank),
           NEW j \in 1..Len(x), x[j] = Tick
    PROVE  /\ TickRunEnd(x, j) \in j..Len(x) /\ TickRunEnd(x, j) \notin gone
           /\ rank[TickRunEnd(x, j)] = TickRunEnd(y, rank[j])
<1> DEFINE n == Len(x)
           m == Len(y)
           e == TickRunEnd(x, j)
           f == TickRunEnd(y, rank[j])
<1>1. e \in j..n /\ (e = n \/ x[e + 1] # Tick) /\ \A k \in j..e - 1 : x[k + 1] = Tick
  BY TickRunIs
<1>2. /\ n \in Nat /\ m \in Nat
      /\ \A i \in 1..n : i \notin gone => (x[i] = Tick <=> y[rank[i]] = Tick)
      /\ \A i \in 1..n : x[i] = Tick => i \notin gone
      /\ \A i \in 1..n : i < n /\ x[i] = Tick => i + 1 \notin gone
      /\ rank \in [0..n -> Nat] /\ m = rank[n]
  <2>1. Ranks(rank, n, gone)
    BY DEF Embeds
  <2>2. rank \in [0..n -> Nat]
    BY <2>1 DEF Ranks
  <2> QED
    BY <2>2 DEF Embeds
<1>3. /\ \A i \in 1..n : i \notin gone => rank[i] \in 1..m
      /\ \A i, k \in 1..n : i \notin gone /\ k \notin gone => (i <= k <=> rank[i] <= rank[k])
      /\ \A r \in 1..m : \E i \in 1..n : i \notin gone /\ rank[i] = r
      /\ \A i \in 1..n : i < n /\ i + 1 \notin gone => rank[i + 1] = rank[i] + 1
  BY EmbedsOrder
<1>4. j \notin gone /\ rank[j] \in 1..m
  BY <1>2, <1>3
<1>5. f \in rank[j]..m /\ (f = m \/ y[f + 1] # Tick) /\ \A k \in rank[j]..f - 1 : y[k + 1] = Tick
  BY <1>4, TickRunIs
<1> HIDE DEF e, f, n, m
<1>6. \A k \in j..e : k \in 1..n /\ x[k] = Tick
  <2> TAKE k \in j..e
  <2>0. j \in 1..n
    BY DEF n
  <2>1. k \in 1..n
    BY <1>1, <1>2, <2>0
  <2>2. CASE k = j
    BY <2>1, <2>2
  <2>3. CASE k # j
    <3>1. k - 1 \in j..e - 1 /\ (k - 1) + 1 = k
      BY <1>1, <2>0, <2>3
    <3> QED
      BY <1>1, <2>1, <3>1
  <2> QED
    BY <2>2, <2>3
<1>7. e \in j..n /\ e \in 1..n /\ x[e] = Tick /\ e \notin gone /\ j \in 1..n /\ e \in Nat /\ j \in Nat
  BY <1>1, <1>2, <1>6 DEF n
<1>8. rank[j] <= rank[e] /\ rank[e] \in 1..m
  BY <1>3, <1>4, <1>7
<1>9. ~ (f < rank[e])
  <2> SUFFICES ASSUME f < rank[e] PROVE FALSE
    OBVIOUS
  <2>1. f \in 1..m /\ f # m /\ y[f + 1] # Tick
    BY <1>2, <1>4, <1>5, <1>8
  <2>2. PICK q \in 1..n : q \notin gone /\ rank[q] = f
    BY <1>3, <2>1
  <2>3. j <= q /\ ~ (e <= q)
    BY <1>3, <1>4, <1>5, <1>7, <1>8, <2>1, <2>2
  <2>4. q \in j..e - 1 /\ q \in j..e /\ q < n /\ q + 1 \in 1..n
    BY <1>1, <1>2, <1>7, <2>2, <2>3
  <2>5. x[q + 1] = Tick /\ q + 1 \notin gone
    BY <1>1, <1>2, <2>4
  <2>6. rank[q + 1] = f + 1
    BY <1>3, <2>2, <2>4, <2>5
  <2> QED
    BY <1>2, <2>1, <2>4, <2>5, <2>6
<1>10. ~ (rank[e] < f)
  <2> SUFFICES ASSUME rank[e] < f PROVE FALSE
    OBVIOUS
  <2>1. e # n
    BY <1>2, <1>5, <1>7, <1>8
  <2>2. e < n /\ e + 1 \in 1..n /\ x[e + 1] # Tick
    <3>1. n \in Nat /\ e \in 1..n
      BY <1>2, <1>7
    <3>2. e < n /\ e + 1 \in 1..n
      BY ONLY <2>1, <3>1
    <3> QED
      BY <1>1, <2>1, <3>2
  <2>3. e + 1 \notin gone /\ rank[e + 1] = rank[e] + 1
    BY <1>2, <1>3, <1>7, <2>2
  <2>4. rank[e] \in rank[j]..f - 1
    BY <1>4, <1>5, <1>8
  <2>5. y[rank[e] + 1] = Tick
    BY <1>5, <2>4
  <2> QED
    BY <1>2, <2>2, <2>3, <2>5
<1>11. rank[e] = f
  BY <1>4, <1>5, <1>8, <1>9, <1>10
<1> QED
  BY <1>7, <1>11 DEF e, f, n

LEMMA SameLater ==
    ASSUME NEW x \in Seq(Char), NEW y \in Seq(Char), NEW gone, NEW rank, Embeds(x, y, gone, rank),
           NEW j \in 1..Len(x), j \notin gone
    PROVE  /\ Later(x, j) = {} <=> Later(y, rank[j]) = {}
           /\ Later(x, j) # {} => /\ Min(Later(x, j)) \in j + 1..Len(x) /\ Min(Later(x, j)) \notin gone
                                  /\ rank[Min(Later(x, j))] = Min(Later(y, rank[j]))
<1> DEFINE n == Len(x)
           m == Len(y)
<1>1. /\ n \in Nat /\ m \in Nat
      /\ \A i \in 1..n : i \notin gone => (x[i] = Tick <=> y[rank[i]] = Tick)
      /\ \A i \in 1..n : x[i] = Tick => i \notin gone
      /\ rank \in [0..n -> Nat]
  BY DEF Embeds, Ranks
<1>2. /\ \A i \in 1..n : i \notin gone => rank[i] \in 1..m
      /\ \A i, k \in 1..n : i \notin gone /\ k \notin gone => (i <= k <=> rank[i] <= rank[k])
      /\ \A r \in 1..m : \E i \in 1..n : i \notin gone /\ rank[i] = r
  BY EmbedsOrder
<1>3. rank[j] \in 1..m /\ j \in 1..n
  BY <1>2
<1>4. /\ \A i : i \in Later(x, j) <=> i \in j + 1..n /\ x[i] = Tick
      /\ \A r : r \in Later(y, rank[j]) <=> r \in rank[j] + 1..m /\ y[r] = Tick
  BY DEF Later
<1> HIDE DEF n, m
<1>5. ASSUME NEW i \in Later(x, j) PROVE i \in 1..n /\ i \notin gone /\ rank[i] \in Later(y, rank[j])
  <2>1. i \in 1..n /\ x[i] = Tick /\ i \notin gone /\ ~ (i <= j)
    BY <1>1, <1>3, <1>4
  <2>2. rank[i] \in 1..m /\ ~ (rank[i] <= rank[j]) /\ y[rank[i]] = Tick
    BY <1>1, <1>2, <1>3, <2>1
  <2>3. rank[i] \in rank[j] + 1..m
    BY <1>1, <1>3, <2>2
  <2> QED
    BY <1>4, <2>1, <2>2, <2>3
<1>6. ASSUME NEW r \in Later(y, rank[j]) PROVE \E i \in Later(x, j) : rank[i] = r
  <2>1. r \in 1..m /\ y[r] = Tick /\ ~ (r <= rank[j])
    BY <1>1, <1>3, <1>4
  <2>2. PICK i \in 1..n : i \notin gone /\ rank[i] = r
    BY <1>2, <2>1
  <2>3. x[i] = Tick /\ ~ (i <= j)
    BY <1>1, <1>2, <1>3, <2>1, <2>2
  <2>4. i \in j + 1..n
    BY <1>1, <1>3, <2>2, <2>3
  <2> QED
    BY <1>4, <2>2, <2>3, <2>4
<1>7. Later(x, j) = {} <=> Later(y, rank[j]) = {}
  BY <1>5, <1>6
<1>8. ASSUME Later(x, j) # {}
      PROVE  /\ Min(Later(x, j)) \in j + 1..n /\ Min(Later(x, j)) \notin gone
             /\ rank[Min(Later(x, j))] = Min(Later(y, rank[j]))
  <2> DEFINE a == Min(Later(x, j))
             b == Min(Later(y, rank[j]))
  <2>1. Later(x, j) \subseteq Nat /\ Later(y, rank[j]) \subseteq Nat /\ Later(y, rank[j]) # {}
    <3>1. j + 1..n \subseteq Nat /\ rank[j] + 1..m \subseteq Nat
      BY <1>1, <1>3
    <3>2. Later(x, j) \subseteq j + 1..n /\ Later(y, rank[j]) \subseteq rank[j] + 1..m
      BY ONLY <1>4
    <3> QED
      BY <1>7, <1>8, <3>1, <3>2
  <2>2. a \in Later(x, j) /\ \A i \in Later(x, j) : a <= i
    BY <1>8, <2>1, LeastIs
  <2>3. b \in Later(y, rank[j]) /\ \A r \in Later(y, rank[j]) : b <= r
    BY <2>1, LeastIs
  <2> HIDE DEF a, b
  <2>4. PICK i \in Later(x, j) : rank[i] = b
    BY <1>6, <2>3
  <2>5. rank[a] \in Later(y, rank[j]) /\ a \in 1..n /\ a \notin gone /\ i \in 1..n /\ i \notin gone /\ a <= i
    BY <1>5, <2>2, <2>4
  <2>6. rank[a] <= rank[i] /\ b <= rank[a] /\ rank[a] \in Nat /\ b \in Nat
    BY <1>2, <2>1, <2>3, <2>5
  <2>7. rank[a] = b
    BY <2>4, <2>6
  <2> QED
    BY <1>4, <2>2, <2>5, <2>7 DEF a, b
<1> QED
  BY <1>7, <1>8 DEF n

\* The states s and u of two scans say the same of the n places of a line and of what
\* is left of them.
Agree(s, u, n, gone, rank) ==
    \A k \in 1..n : k \notin gone =>
        /\ k < s.next <=> rank[k] < u.next
        /\ k \in s.hidden <=> rank[k] \in u.hidden

LEMMA SameStep ==
    ASSUME NEW x \in Seq(Char), NEW y \in Seq(Char), NEW gone, NEW rank, Embeds(x, y, gone, rank),
           NEW s \in State(Len(x)), NEW u \in State(Len(y)), Agree(s, u, Len(x), gone, rank),
           NEW j \in 1..Len(x), j \notin gone
    PROVE  Agree(CodeStep(x, s, j), CodeStep(y, u, rank[j]), Len(x), gone, rank)
<1> DEFINE n == Len(x)
           m == Len(y)
           e == TickRunEnd(x, j)
           f == TickRunEnd(y, rank[j])
           a == Min(Later(x, j))
           b == Min(Later(y, rank[j]))
<1>1. /\ n \in Nat /\ m \in Nat /\ j \in 1..n /\ rank[j] \in 1..m
      /\ \A k \in 1..n : k \notin gone => rank[k] \in 1..m
      /\ \A i, k \in 1..n : i \notin gone /\ k \notin gone => (i <= k <=> rank[i] <= rank[k])
  BY EmbedsOrder
<1>2. x[j] = Tick <=> y[rank[j]] = Tick
  BY DEF Embeds
<1>3. j < s.next <=> rank[j] < u.next
  BY <1>1 DEF Agree
<1>4. CASE j < s.next \/ x[j] # Tick
  BY <1>2, <1>3, <1>4, CodeSteps
<1>5. CASE ~ (j < s.next \/ x[j] # Tick)
  <2>1. e \in j..n /\ e \notin gone /\ rank[e] = f
    BY <1>5, SameRunEnd
  <2>2. /\ Later(x, j) = {} <=> Later(y, rank[j]) = {}
        /\ Later(x, j) # {} => a \in j + 1..n /\ a \notin gone /\ rank[a] = b
    <3>1. Later(x, j) = {} <=> Later(y, rank[j]) = {}
      BY SameLater, ZenonT(60)
    <3>2. ASSUME Later(x, j) # {} PROVE a \in j + 1..n /\ a \notin gone /\ rank[a] = b
      BY <3>2, SameLater
    <3> QED
      BY <3>1, <3>2
  <2>3. CodeStep(x, s, j) = IF e = j /\ Later(x, j) = {} THEN s
                            ELSE IF e > j THEN [s EXCEPT !.next = e + 1]
                            ELSE [next |-> a + 1, hidden |-> s.hidden \cup j..a]
    BY <1>5, CodeSteps
  <2>4. CodeStep(y, u, rank[j]) = IF f = rank[j] /\ Later(y, rank[j]) = {} THEN u
                                  ELSE IF f > rank[j] THEN [u EXCEPT !.next = f + 1]
                                  ELSE [next |-> b + 1, hidden |-> u.hidden \cup rank[j]..b]
    <3>1. ~ (rank[j] < u.next) /\ y[rank[j]] = Tick
      BY <1>2, <1>3, <1>5
    <3> QED
      BY <3>1, CodeMoves
  <2>5. /\ s = [next |-> s.next, hidden |-> s.hidden] /\ s.next \in Nat
        /\ u = [next |-> u.next, hidden |-> u.hidden] /\ u.next \in Nat
    BY DEF State
  <2>6. \A k \in 1..n : k \notin gone => /\ k < s.next <=> rank[k] < u.next
                                         /\ k \in s.hidden <=> rank[k] \in u.hidden
    BY DEF Agree
  <2> HIDE DEF e, f, a, b, n, m
  <2>7. e \in 1..n /\ (e = j <=> f = rank[j]) /\ (e > j <=> f > rank[j])
    <3>1. e \in 1..n
      BY <1>1, <2>1
    <3>2. (e <= j <=> rank[e] <= rank[j]) /\ (j <= e <=> rank[j] <= rank[e]) /\ rank[e] \in 1..m
      BY <1>1, <2>1, <3>1
    <3> QED
      BY <1>1, <2>1, <3>1, <3>2
  <2>8. CASE e = j /\ Later(x, j) = {}
    BY <2>2, <2>3, <2>4, <2>7, <2>8 DEF n
  <2>9. CASE e > j
    <3>1. CodeStep(x, s, j) = [s EXCEPT !.next = e + 1] /\ CodeStep(y, u, rank[j]) = [u EXCEPT !.next = f + 1]
      BY <1>1, <2>3, <2>4, <2>7, <2>9
    <3>2. /\ CodeStep(x, s, j).next = e + 1 /\ CodeStep(y, u, rank[j]).next = f + 1
          /\ CodeStep(x, s, j).hidden = s.hidden /\ CodeStep(y, u, rank[j]).hidden = u.hidden
      BY <2>5, <3>1
    <3>3. ASSUME NEW k \in 1..n, k \notin gone PROVE k < e + 1 <=> rank[k] < f + 1
      <4>1. k <= e <=> rank[k] <= rank[e]
        BY <1>1, <2>1, <2>7, <3>3
      <4>2. rank[k] \in Nat /\ f \in Nat
        BY <1>1, <2>1, <2>7, <3>3
      <4> QED
        BY <1>1, <2>1, <2>7, <4>1, <4>2
    <3> QED
      BY <2>6, <3>2, <3>3 DEF Agree, n
  <2>10. CASE ~ (e = j /\ Later(x, j) = {}) /\ ~ (e > j)
    <3>1. e = j /\ Later(x, j) # {} /\ Later(y, rank[j]) # {}
      BY <1>1, <2>1, <2>2, <2>10
    <3>2. /\ CodeStep(x, s, j) = [next |-> a + 1, hidden |-> s.hidden \cup j..a]
          /\ CodeStep(y, u, rank[j]) = [next |-> b + 1, hidden |-> u.hidden \cup rank[j]..b]
      BY <2>3, <2>4, <2>7, <2>10, <3>1
    <3>3. /\ CodeStep(x, s, j).next = a + 1 /\ CodeStep(y, u, rank[j]).next = b + 1
          /\ CodeStep(x, s, j).hidden = s.hidden \cup j..a
          /\ CodeStep(y, u, rank[j]).hidden = u.hidden \cup rank[j]..b
      BY <3>2
    <3>4. a \in 1..n /\ a \notin gone /\ rank[a] = b
      BY <1>1, <2>2, <3>1
    <3>5. ASSUME NEW k \in 1..n, k \notin gone
          PROVE  /\ k < a + 1 <=> rank[k] < b + 1
                 /\ k \in j..a <=> rank[k] \in rank[j]..b
      <4>1. (k <= a <=> rank[k] <= rank[a]) /\ (j <= k <=> rank[j] <= rank[k])
        BY <1>1, <3>4, <3>5
      <4>2. rank[k] \in 1..m /\ b \in 1..m
        BY <1>1, <3>4, <3>5
      <4> QED
        BY <1>1, <3>4, <4>1, <4>2
    <3>6. ASSUME NEW k \in 1..n, k \notin gone
          PROVE  k \in s.hidden \cup j..a <=> rank[k] \in u.hidden \cup rank[j]..b
      <4>1. k \in j..a <=> rank[k] \in rank[j]..b
        BY <3>5, <3>6
      <4>2. k \in s.hidden <=> rank[k] \in u.hidden
        BY <2>6, <3>6
      <4> QED
        BY <4>1, <4>2, Zenon
    <3> QED
      BY <3>3, <3>5, <3>6 DEF Agree, n
  <2> QED
    BY <2>8, <2>9, <2>10
<1> QED
  BY <1>4, <1>5

\* What is left of a line is code there exactly if it is code in the line.
LEMMA SameCode ==
    ASSUME NEW x \in Seq(Char), NEW y \in Seq(Char), NEW gone, NEW rank, Embeds(x, y, gone, rank)
    PROVE  \A k \in 1..Len(x) : k \notin gone => (k \in Hidden(x) <=> rank[k] \in Hidden(y))
<1> DEFINE n == Len(x)
           m == Len(y)
<1>1. PICK scan : Scans(scan, x) /\ Hidden(x) = scan[n].hidden
  BY HiddenIs
<1>2. PICK other : Scans(other, y) /\ Hidden(y) = other[m].hidden
  BY HiddenIs
<1>3. /\ n \in Nat /\ m \in Nat /\ m = rank[n] /\ rank \in [0..n -> Nat] /\ rank[0] = 0
      /\ \A i \in 1..n : rank[i] = IF i \in gone THEN rank[i - 1] ELSE rank[i - 1] + 1
  <2>1. Ranks(rank, n, gone)
    BY DEF Embeds
  <2>2. rank \in [0..n -> Nat] /\ rank[0] = 0
        /\ \A i \in 1..n : rank[i] = IF i \in gone THEN rank[i - 1] ELSE rank[i - 1] + 1
    BY <2>1 DEF Ranks
  <2> QED
    BY <2>2 DEF Embeds
<1>4. \A i \in 1..n : i \notin gone => rank[i] \in 1..m
  BY EmbedsOrder
<1>5. \A i \in 1..n : i \in gone => x[i] # Tick
  BY DEF Embeds
<1>6. /\ scan \in [0..n -> State(n)] /\ scan[0] = [next |-> 1, hidden |-> {}]
      /\ \A k \in 1..n : scan[k] = CodeStep(x, scan[k - 1], k)
  BY <1>1 DEF Scans
<1>7. /\ other \in [0..m -> State(m)] /\ other[0] = [next |-> 1, hidden |-> {}]
      /\ \A k \in 1..m : other[k] = CodeStep(y, other[k - 1], k)
  BY <1>2 DEF Scans
<1> DEFINE T == {i \in 0..n : Agree(scan[i], other[rank[i]], n, gone, rank)}
<1>8. 0 \in T
  <2>1. /\ scan[0].next = 1 /\ scan[0].hidden = {}
        /\ other[rank[0]].next = 1 /\ other[rank[0]].hidden = {}
    BY <1>3, <1>6, <1>7
  <2>2. \A k \in 1..n : k \notin gone => ~ (k < 1) /\ ~ (rank[k] < 1)
    BY <1>4
  <2> QED
    BY <1>3, <2>1, <2>2 DEF Agree
<1>9. ASSUME NEW i \in 0..n - 1, i \in T PROVE i + 1 \in T
  <2> DEFINE j == i + 1
  <2>1. j \in 1..n /\ j - 1 = i /\ j \in 0..n /\ i \in 0..n
    BY <1>3
  <2>2. scan[j] = CodeStep(x, scan[i], j) /\ Agree(scan[i], other[rank[i]], n, gone, rank)
    BY <1>6, <1>9, <2>1
  <2> HIDE DEF j
  <2>3. CASE j \in gone
    <3>1. rank[j] = rank[i] /\ x[j] # Tick
      BY <1>3, <1>5, <2>1, <2>3
    <3>2. scan[j] = scan[i]
      BY <2>2, <3>1, CodeSteps
    <3>3. j \in T
      BY <2>1, <2>2, <3>1, <3>2
    <3> QED
      BY <3>3 DEF j
  <2>4. CASE j \notin gone
    <3>1. rank[j] = rank[i] + 1 /\ rank[j] \in 1..m /\ rank[j] - 1 = rank[i] /\ rank[i] \in 0..m
      <4>1. rank[j] = rank[i] + 1 /\ rank[i] \in Nat /\ rank[j] \in 1..m
        BY <1>3, <1>4, <2>1, <2>4
      <4>2. m \in Nat
        BY <1>3
      <4> QED
        BY <4>1, <4>2
    <3>2. other[rank[j]] = CodeStep(y, other[rank[i]], rank[j])
      BY <1>7, <3>1
    <3>3. scan[i] \in State(n) /\ other[rank[i]] \in State(m)
      BY <1>6, <1>7, <2>1, <3>1
    <3>4. Agree(CodeStep(x, scan[i], j), CodeStep(y, other[rank[i]], rank[j]), n, gone, rank)
      BY <2>1, <2>2, <2>4, <3>3, SameStep
    <3>5. j \in T
      BY <2>1, <2>2, <3>2, <3>4
    <3> QED
      BY <3>5 DEF j
  <2> QED
    BY <2>3, <2>4
<1> HIDE DEF T
<1>10. n \in T
  <2>1. \A i \in 0..n : i \in T
    <3> HIDE DEF n
    <3> QED
      BY <1>3, <1>8, <1>9, Upward
  <2> QED
    BY <1>3, <2>1
<1>11. Agree(scan[n], other[m], n, gone, rank)
  BY <1>3, <1>10 DEF T
<1> QED
  BY <1>1, <1>2, <1>11 DEF Agree

------------------------------------------------------------------------------
\* The tags of a line after an edit

LEMMA Characters ==
    /\ Tick \notin Tag /\ Space \notin Tag /\ Wide \notin Tag /\ Broken \notin Tag
    /\ Tick # Broken /\ Wide # Tick /\ Wide # Broken /\ Space # Tick /\ Space # Broken
    /\ Tag \subseteq Char /\ Broken \in Char
BY TextConstants DEF Char

LEMMA Names ==
    /\ \A t, u : <<t>> = <<u>> => t = u
    /\ \A t, u, c : <<t>> # <<u, c>>
OBVIOUS

Name(chars, k) == IF BeforeLetter(chars, k) THEN <<chars[k], Broken>> ELSE <<chars[k]>>

Shown(chars) == {j \in DOMAIN chars \ Hidden(chars) : chars[j] \in Tag /\ ~ FollowsLetter(chars, j)}

LEMMA TagsOfIs ==
    ASSUME NEW chars
    PROVE  TagsOf(chars) = {Name(chars, k) : k \in Shown(chars)}
BY DEF TagsOf, Name, Shown

\* No two tags without a character between them.
Spaced(chars) == \A k \in 2..Len(chars) : ~ {chars[k - 1], chars[k]} \subseteq Tag

LEMMA ProseIs ==
    ASSUME NEW l \in NoteLine, l.kind = "prose"
    PROVE  /\ l.chars \in Seq(Char) /\ Line(l.chars) = l /\ Spaced(l.chars)
           /\ l = [kind |-> "prose", chars |-> l.chars]
BY DEF NoteLine, Fence, Heading, Prose, Spaced

\* What an edit makes of a line of prose is a line of the note.
LEMMA LineTypeOK ==
    ASSUME NEW chars \in Seq(Char), Spaced(chars)
    PROVE  Line(chars) \in NoteLine
<1>1. CASE Line(chars).kind = "prose"
  <2>1. Line(chars) = [kind |-> "prose", chars |-> chars]
    BY <1>1, LineIs
  <2>2. Line(chars) \in Prose /\ Line(chars).chars = chars
    BY <2>1 DEF Prose
  <2> QED
    BY <2>2 DEF NoteLine, Spaced
<1>2. CASE Line(chars).kind # "prose"
  <2>1. Line(chars) \in {l \in Fence : l.run >= 3}
    BY <1>2, LineIs
  <2> QED
    BY <2>1 DEF NoteLine
<1> QED
  BY <1>1, <1>2

\* A tag that follows no letter, runs into none and stands behind no tag can be found.
LEMMA ShownTagIsFindable ==
    ASSUME NEW chars \in Seq(Char), Spaced(chars), NEW tag \in Tag, NEW k \in 1..Len(chars),
           chars[k] = tag, ~ FollowsLetter(chars, k), ~ BeforeLetter(chars, k)
    PROVE  Findable(chars, k, tag)
<1>1. ASSUME k > 1 PROVE chars[k - 1] \notin Tag \cup {Broken}
  <2>1. k \in 2..Len(chars)
    BY <1>1
  <2>2. chars[k - 1] \notin Tag
    BY <2>1 DEF Spaced
  <2>3. chars[k - 1] # Broken
    BY <1>1 DEF FollowsLetter
  <2> QED
    BY <2>2, <2>3
<1> QED
  BY <1>1 DEF Findable

\* The line y has the tag new at the places where the edit finds tag in the line x.
RenamesTo(x, y, tag, new) ==
    /\ y \in Seq(Char) /\ Len(y) = Len(x)
    /\ \A k \in 1..Len(x) :
          /\ y[k] = IF k \in Hits(x, tag) THEN new ELSE x[k]
          /\ y[k] \in Tag <=> x[k] \in Tag
          /\ \A c \in Char \ Tag : y[k] = c <=> x[k] = c
    /\ Hidden(y) \cap 1..Len(x) = Hidden(x) \cap 1..Len(x)
    /\ Spaced(x) => Spaced(y)
    /\ Line(y).kind = "prose" <=> Line(x).kind = "prose"

\* A renaming changes tags into tags, and nothing else.
LEMMA RenamedIs ==
    ASSUME NEW chars \in Seq(Char), NEW tag \in Tag, NEW new \in Tag
    PROVE  RenamesTo(chars, Renamed(chars, tag, new), tag, new)
<1> DEFINE y == Renamed(chars, tag, new)
           n == Len(chars)
           rank == [i \in 0..n |-> i]
<1>1. n \in Nat /\ \A k \in 1..n : chars[k] \in Char
  OBVIOUS
<1>2. y = [k \in 1..n |-> IF k \in Hits(chars, tag) THEN new ELSE chars[k]]
  BY DEF Renamed
<1>3. y \in Seq(Char) /\ Len(y) = n
  BY <1>1, <1>2, Characters
<1>4. \A k \in 1..n : y[k] = IF k \in Hits(chars, tag) THEN new ELSE chars[k]
  BY <1>2
<1>5. \A k \in 1..n : k \in Hits(chars, tag) => chars[k] = tag
  BY HitsAre DEF Findable
<1> HIDE DEF y, n
<1>6. \A k \in 1..n : /\ y[k] \in Tag <=> chars[k] \in Tag
                      /\ \A c \in Char \ Tag : y[k] = c <=> chars[k] = c
  BY <1>4, <1>5
<1>7. \A k \in 1..n : y[k] = Tick <=> chars[k] = Tick
  BY <1>4, <1>5, Characters
<1>8. /\ rank \in [0..n -> Nat] /\ \A i \in 0..n : rank[i] = i
  BY <1>1
<1> HIDE DEF rank
<1>9. Embeds(chars, y, {}, rank)
  <2>1. Ranks(rank, n, {})
    <3>1. \A i \in 1..n : rank[i] = rank[i - 1] + 1
      BY <1>1, <1>8
    <3> QED
      BY <1>1, <1>8, <3>1 DEF Ranks
  <2>2. Len(y) = rank[n]
    BY <1>1, <1>3, <1>8
  <2>3. \A i \in 1..n : chars[i] = Tick <=> y[rank[i]] = Tick
    BY <1>7, <1>8
  <2> QED
    BY <2>1, <2>2, <2>3 DEF Embeds, n
<1>10. \A k \in 1..n : k \in Hidden(chars) <=> k \in Hidden(y)
  <2>1. \A k \in 1..n : k \in Hidden(chars) <=> rank[k] \in Hidden(y)
    BY <1>3, <1>9, SameCode DEF n
  <2> QED
    BY <1>8, <2>1
<1>11. Spaced(chars) => Spaced(y)
  <2>1. \A k \in 2..n : k \in 1..n /\ k - 1 \in 1..n
    BY <1>1
  <2> QED
    BY <1>3, <1>6, <2>1 DEF Spaced, n
<1>12. Line(y).kind = "prose" <=> Line(chars).kind = "prose"
  <2>1. \A i \in 1..3 : (i > Len(y) \/ y[i] # Tick) <=> (i > n \/ chars[i] # Tick)
    BY <1>1, <1>3, <1>7
  <2>2. (\E i \in 1..3 : i > n \/ chars[i] # Tick) <=> Line(chars).kind = "prose"
    BY LineIs DEF n
  <2>3. (\E i \in 1..3 : i > Len(y) \/ y[i] # Tick) <=> Line(y).kind = "prose"
    BY <1>3, LineIs
  <2> QED
    BY <2>1, <2>2, <2>3
<1> QED
  BY <1>3, <1>4, <1>6, <1>10, <1>11, <1>12 DEF RenamesTo, y, n

Renaming(x, tag, new) == IF x = <<tag>> THEN <<new>> ELSE x

\* Renaming a tag in a line renames it in the tags that the line shows.
LEMMA TagsRenamed ==
    ASSUME NEW chars \in Seq(Char), Spaced(chars), NEW tag \in Tag, NEW new \in Tag, Apart(chars, tag)
    PROVE  TagsOf(Renamed(chars, tag, new)) = {Renaming(x, tag, new) : x \in TagsOf(chars)}
<1> DEFINE y == Renamed(chars, tag, new)
           n == Len(chars)
<1>1. n \in Nat /\ DOMAIN chars = 1..n /\ \A k \in 1..n : chars[k] \in Char
  OBVIOUS
<1>2. /\ y \in Seq(Char) /\ Len(y) = n
      /\ \A k \in 1..n : /\ y[k] = IF k \in Hits(chars, tag) THEN new ELSE chars[k]
                         /\ y[k] \in Tag <=> chars[k] \in Tag
                         /\ \A c \in Char \ Tag : y[k] = c <=> chars[k] = c
      /\ Hidden(y) \cap 1..n = Hidden(chars) \cap 1..n
  <2>1. RenamesTo(chars, y, tag, new)
    BY RenamedIs
  <2> QED
    BY <2>1 DEF RenamesTo
<1> HIDE DEF y, n
<1>3. DOMAIN y = 1..n /\ \A k \in 1..n : y[k] = Broken <=> chars[k] = Broken
  BY <1>2, Characters
<1>4. \A k \in 1..n : /\ BeforeLetter(y, k) <=> BeforeLetter(chars, k)
                      /\ FollowsLetter(y, k) <=> FollowsLetter(chars, k)
  <2> TAKE k \in 1..n
  <2>1. k < n => k + 1 \in 1..n
    BY <1>1
  <2>2. k > 1 => k - 1 \in 1..n
    BY <1>1
  <2> QED
    BY <1>2, <1>3, <2>1, <2>2 DEF BeforeLetter, FollowsLetter, n
<1>5. Shown(y) = Shown(chars) /\ Shown(chars) \subseteq 1..n
  BY <1>1, <1>2, <1>3, <1>4 DEF Shown
<1>6. ASSUME NEW k \in Shown(chars) PROVE Name(y, k) = Renaming(Name(chars, k), tag, new)
  <2>1. k \in 1..n /\ ~ FollowsLetter(chars, k) /\ chars[k] \in Tag
    BY <1>5 DEF Shown
  <2>2. CASE k \in Hits(chars, tag)
    <3>1. Findable(chars, k, tag)
      BY <2>2, HitsAre
    <3>2. chars[k] = tag /\ ~ BeforeLetter(chars, k) /\ y[k] = new /\ ~ BeforeLetter(y, k)
      BY <1>2, <1>4, <2>1, <2>2, <3>1 DEF Findable
    <3>3. Name(chars, k) = <<tag>> /\ Name(y, k) = <<new>>
      BY <3>2 DEF Name
    <3> QED
      BY <3>3 DEF Renaming
  <2>3. CASE k \notin Hits(chars, tag)
    <3>1. y[k] = chars[k]
      BY <1>2, <2>1, <2>3
    <3>2. Name(y, k) = Name(chars, k)
      BY <1>4, <2>1, <3>1 DEF Name
    <3>3. Name(chars, k) # <<tag>>
      <4>1. CASE BeforeLetter(chars, k)
        BY <4>1, Names DEF Name
      <4>2. CASE ~ BeforeLetter(chars, k)
        <5>1. Name(chars, k) = <<chars[k]>>
          BY <4>2 DEF Name
        <5>2. ASSUME chars[k] = tag PROVE FALSE
          <6>1. Findable(chars, k, tag)
            BY <2>1, <4>2, <5>2, ShownTagIsFindable DEF n
          <6> QED
            BY <2>3, <6>1, HitsAre
        <5> QED
          BY <5>1, <5>2, Names
      <4> QED
        BY <4>1, <4>2
    <3> QED
      BY <3>2, <3>3 DEF Renaming
  <2> QED
    BY <2>2, <2>3
<1>7. /\ TagsOf(y) = {Name(y, k) : k \in Shown(chars)}
      /\ TagsOf(chars) = {Name(chars, k) : k \in Shown(chars)}
  BY <1>5, TagsOfIs
<1>8. {Renaming(x, tag, new) : x \in TagsOf(chars)} = {Renaming(Name(chars, k), tag, new) : k \in Shown(chars)}
  BY <1>7
<1>9. {Name(y, k) : k \in Shown(chars)} = {Renaming(Name(chars, k), tag, new) : k \in Shown(chars)}
  BY <1>6
<1> QED
  BY <1>7, <1>8, <1>9 DEF y

Gone(chars, tag) == Hits(chars, tag) \cup {k + 1 : k \in Hits(chars, tag)}

Bytes(chars, tag) ==
    [k \in DOMAIN chars |-> IF chars[k] = Wide /\ k + 1 \in Hits(chars, tag) THEN Broken ELSE chars[k]]

\* What a removal leaves of a line.
LEMMA WithoutIs ==
    ASSUME NEW chars \in Seq(Char), NEW tag \in Tag
    PROVE  /\ Bytes(chars, tag) \in Seq(Char) /\ Len(Bytes(chars, tag)) = Len(chars)
           /\ \A k \in 1..Len(chars) : Bytes(chars, tag)[k] \in {chars[k], Broken}
           /\ Without(chars, tag) = Dropping(Bytes(chars, tag), Gone(chars, tag))
           /\ Without(chars, tag) \in Seq(Char)
<1>1. Len(chars) \in Nat /\ DOMAIN chars = 1..Len(chars) /\ \A k \in 1..Len(chars) : chars[k] \in Char
  OBVIOUS
<1>2. Bytes(chars, tag) \in Seq(Char) /\ Len(Bytes(chars, tag)) = Len(chars)
  BY <1>1, Characters DEF Bytes
<1>3. \A k \in 1..Len(chars) : Bytes(chars, tag)[k] \in {chars[k], Broken}
  BY <1>1 DEF Bytes
<1>4. Without(chars, tag) = Dropping(Bytes(chars, tag), Gone(chars, tag))
  BY DEF Without, Bytes, Gone
<1>5. Without(chars, tag) \in Seq(Char)
  BY <1>2, <1>4, DroppingIs
<1> QED
  BY <1>2, <1>3, <1>4, <1>5

\* A removal runs no two tags into one another: before the tag it takes there is none.
LEMMA WithoutSpaced ==
    ASSUME NEW chars \in Seq(Char), Spaced(chars), NEW tag \in Tag
    PROVE  Spaced(Without(chars, tag))
<1> DEFINE n == Len(chars)
           z == Without(chars, tag)
           gone == Gone(chars, tag)
           bytes == Bytes(chars, tag)
<1>1. /\ bytes \in Seq(Char) /\ Len(bytes) = n /\ z = Dropping(bytes, gone) /\ n \in Nat
      /\ \A k \in 1..n : bytes[k] \in {chars[k], Broken}
  BY WithoutIs
<1>2. \A k \in 1..n : bytes[k] \in Tag => chars[k] \in Tag
  BY <1>1, Characters
<1>3. PICK rank : /\ Ranks(rank, n, gone) /\ z \in Seq(Char) /\ Len(z) = rank[n]
                  /\ \A i \in 1..n : i \notin gone => z[rank[i]] = bytes[i]
  <2> HIDE DEF z, gone, bytes, n
  <2>1. bytes \in Seq(Char) /\ Len(bytes) = n /\ z = Dropping(bytes, gone)
    BY <1>1
  <2> QED
    BY ONLY <2>1, DroppingIs
<1> HIDE DEF z, bytes, n
<1>4. /\ \A i, j \in 0..n : i <= j => rank[i] <= rank[j]
      /\ \A i, j \in 0..n : i < j /\ j \notin gone => rank[i] < rank[j]
      /\ \A r \in 1..rank[n] : \E i \in 1..n : i \notin gone /\ rank[i] = r
  <2> HIDE DEF gone
  <2>1. n \in Nat /\ Ranks(rank, n, gone)
    BY <1>1, <1>3
  <2> QED
    BY <2>1, RanksOrder
<1>5. rank \in [0..n -> Nat]
  BY <1>3 DEF Ranks
<1>6. \A k \in 1..n : k < n /\ k + 1 \in gone /\ k \notin gone => chars[k] \notin Tag
  <2> SUFFICES ASSUME NEW k \in 1..n, k < n, k + 1 \in gone, k \notin gone PROVE chars[k] \notin Tag
    OBVIOUS
  <2>1. k + 1 \in Hits(chars, tag)
    <3>1. CASE k + 1 \in Hits(chars, tag)
      BY <3>1
    <3>2. CASE \E h \in Hits(chars, tag) : k + 1 = h + 1
      <4>1. PICK h \in Hits(chars, tag) : k + 1 = h + 1
        BY <3>2
      <4>2. h \in 1..Len(chars)
        BY HitsAre DEF Findable
      <4>3. h = k
        BY <1>1, <4>1, <4>2
      <4> QED
        BY <4>1, <4>3 DEF Gone
    <3> QED
      BY <3>1, <3>2 DEF Gone
  <2>2. Findable(chars, k + 1, tag) /\ k + 1 > 1 /\ (k + 1) - 1 = k
    BY <1>1, <2>1, HitsAre
  <2> QED
    BY <2>2 DEF Findable
<1> HIDE DEF gone
<1> SUFFICES ASSUME NEW r \in 2..Len(z), z[r - 1] \in Tag, z[r] \in Tag PROVE FALSE
  BY DEF Spaced, z
<1>7. rank[n] \in Nat /\ r \in 1..rank[n] /\ r - 1 \in 1..rank[n]
  BY <1>1, <1>3, <1>5
<1>8. PICK i \in 1..n : i \notin gone /\ rank[i] = r
  BY <1>4, <1>7
<1>9. PICK j \in 1..n : j \notin gone /\ rank[j] = r - 1
  BY <1>4, <1>7
<1>10. chars[i] \in Tag /\ chars[j] \in Tag
  BY <1>2, <1>3, <1>8, <1>9
<1>11. j < i
  <2>1. i <= j => rank[i] <= rank[j]
    BY <1>1, <1>4
  <2> QED
    BY <1>1, <1>7, <1>8, <1>9, <2>1
<1>12. CASE j + 1 = i
  <2>1. i \in 2..n /\ i - 1 = j
    BY <1>1, <1>12
  <2> QED
    BY <1>10, <2>1 DEF Spaced, n
<1>13. CASE j + 1 < i
  <2>1. j < n /\ j + 1 \in 0..n /\ i \in 0..n /\ j \in 0..n
    BY <1>1, <1>13
  <2>2. j + 1 \in gone
    <3> SUFFICES ASSUME j + 1 \notin gone PROVE FALSE
      OBVIOUS
    <3>1. rank[j] < rank[j + 1]
      BY <1>4, <2>1
    <3>2. rank[j + 1] < rank[i]
      BY <1>4, <1>8, <1>13, <2>1
    <3>3. rank[j + 1] \in Nat /\ r \in Nat
      BY <1>5, <1>7, <2>1
    <3> QED
      BY <1>8, <1>9, <3>1, <3>2, <3>3
  <2> QED
    BY <1>6, <1>9, <1>10, <2>1, <2>2
<1> QED
  BY <1>1, <1>11, <1>12, <1>13

\* Removing a tag takes it off the tags that the line shows, and no other, where the
\* occurrences are apart and clear.
LEMMA TagsWithout ==
    ASSUME NEW chars \in Seq(Char), Spaced(chars), NEW tag \in Tag, Apart(chars, tag), Clear(chars, tag)
    PROVE  TagsOf(Without(chars, tag)) = TagsOf(chars) \ {<<tag>>}
<1> DEFINE n == Len(chars)
           z == Without(chars, tag)
           gone == Gone(chars, tag)
           bytes == Bytes(chars, tag)
           hits == Hits(chars, tag)
<1>1. n \in Nat /\ DOMAIN chars = 1..n /\ \A k \in 1..n : chars[k] \in Char
  OBVIOUS
<1>2. /\ \A h \in hits : /\ h \in 1..n /\ chars[h] = tag /\ ~ BeforeLetter(chars, h)
                         /\ h > 1 => chars[h - 1] \notin Tag \cup {Broken}
      /\ \A k \in 1..n : Findable(chars, k, tag) => k \in hits
  BY HitsAre DEF Findable
<1>3. /\ \A k \in 2..n : {chars[k - 1], chars[k]} # {tag, Tick}
      /\ \A k \in 2..n : <<chars[k - 1], chars[k]>> # <<Wide, tag>>
      /\ \A k \in 2..n : ~ {chars[k - 1], chars[k]} \subseteq Tag
      /\ \A k \in 3..n : ~ (chars[k - 2] = tag /\ chars[k] = tag)
  BY DEF Clear, Spaced, Apart
<1>4. \A k : k \in gone <=> k \in hits \/ \E h \in hits : k = h + 1
  BY DEF Gone
<1>5. bytes = chars
  <2>1. bytes = [k \in 1..n |-> IF chars[k] = Wide /\ k + 1 \in hits THEN Broken ELSE chars[k]]
    BY DEF Bytes
  <2>2. ASSUME NEW k \in 1..n PROVE ~ (chars[k] = Wide /\ k + 1 \in hits)
    <3> SUFFICES ASSUME chars[k] = Wide, k + 1 \in hits PROVE FALSE
      OBVIOUS
    <3>1. k + 1 \in 2..n /\ (k + 1) - 1 = k /\ chars[k + 1] = tag
      BY <1>1, <1>2
    <3> QED
      BY <1>3, <3>1
  <2>3. bytes = [k \in 1..n |-> chars[k]]
    BY <2>1, <2>2
  <2> QED
    BY <2>3
<1>6. PICK rank : /\ Ranks(rank, n, gone) /\ z \in Seq(Char) /\ Len(z) = rank[n]
                  /\ \A i \in 1..n : i \notin gone => z[rank[i]] = chars[i]
  <2>1. z = Dropping(chars, gone)
    BY <1>5, WithoutIs
  <2> HIDE DEF z, gone, n
  <2> QED
    BY <2>1, DroppingIs DEF n
<1> HIDE DEF z, gone, bytes, hits, n
<1>7. /\ rank \in [0..n -> Nat] /\ rank[0] = 0
      /\ \A i \in 1..n : rank[i] = IF i \in gone THEN rank[i - 1] ELSE rank[i - 1] + 1
  BY <1>6 DEF Ranks
<1>8. \A i \in 1..n : i \in gone => chars[i] # Tick
  <2> SUFFICES ASSUME NEW i \in 1..n, i \in gone PROVE chars[i] # Tick
    OBVIOUS
  <2>1. CASE i \in hits
    BY <1>2, <2>1, Characters
  <2>2. CASE \E h \in hits : i = h + 1
    <3>1. PICK h \in hits : i = h + 1
      BY <2>2
    <3>2. i \in 2..n /\ i - 1 = h /\ chars[h] = tag
      BY <1>1, <1>2, <3>1
    <3>3. {chars[i - 1], chars[i]} # {tag, Tick}
      BY <1>3, <3>2
    <3> QED
      BY <3>2, <3>3
  <2> QED
    BY <1>4, <2>1, <2>2
<1>9. ASSUME NEW i \in 1..n, i < n, chars[i] = Tick PROVE i + 1 \notin gone
  <2>1. i + 1 \in 2..n /\ (i + 1) - 1 = i
    BY <1>1, <1>9
  <2>2. i + 1 \notin hits
    <3>1. {chars[(i + 1) - 1], chars[i + 1]} # {tag, Tick}
      BY <1>3, <2>1
    <3> QED
      BY <1>2, <1>9, <2>1, <3>1
  <2>3. ASSUME NEW h \in hits, i + 1 = h + 1 PROVE FALSE
    <3>1. h = i
      BY <1>1, <1>2, <2>3
    <3> QED
      BY <1>2, <1>9, <3>1, Characters
  <2> QED
    BY <1>4, <2>2, <2>3
<1>10. Embeds(chars, z, gone, rank)
  BY <1>6, <1>8, <1>9 DEF Embeds, n
<1>11. /\ \A i \in 1..n : i \notin gone => rank[i] \in 1..Len(z)
       /\ \A r \in 1..Len(z) : \E i \in 1..n : i \notin gone /\ rank[i] = r
  BY <1>6, <1>10, EmbedsOrder DEF n
<1>12. \A k \in 1..n : k \notin gone => (k \in Hidden(chars) <=> rank[k] \in Hidden(z))
  BY <1>6, <1>10, SameCode DEF n
\* What stands next to a tag that is left.
<1>13. ASSUME NEW k \in 1..n, k \notin gone, chars[k] \in Tag
       PROVE  FollowsLetter(z, rank[k]) <=> FollowsLetter(chars, k)
  <2>1. rank[k] = rank[k - 1] + 1 /\ rank[k - 1] \in Nat
    <3>1. k - 1 \in 0..n
      BY <1>1
    <3> QED
      BY <1>7, <1>13, <3>1
  <2>2. CASE k = 1
    <3>1. rank[k] = 1
      BY <1>7, <2>1, <2>2
    <3> QED
      BY <2>2, <3>1 DEF FollowsLetter
  <2>3. CASE k > 1 /\ k - 1 \notin gone
    <3>1. k - 1 \in 1..n
      BY <1>1, <2>3
    <3>2. z[rank[k - 1]] = chars[k - 1] /\ rank[k - 1] \in 1..Len(z)
      BY <1>6, <1>11, <2>3, <3>1
    <3>3. rank[k] > 1 /\ rank[k] - 1 = rank[k - 1]
      BY <2>1, <3>2
    <3> QED
      BY <2>3, <3>2, <3>3 DEF FollowsLetter
  <2>4. CASE k > 1 /\ k - 1 \in gone
    <3>1. k \in 2..n
      BY <1>1, <2>4
    <3>2. k - 1 \notin hits
      BY <1>2, <1>3, <1>13, <3>1
    <3>3. PICK h \in hits : k - 1 = h + 1
      BY <1>4, <2>4, <3>2
    <3>4. h \in 1..n /\ h = k - 2 /\ k \in 3..n /\ h < n /\ h + 1 = k - 1
      BY <1>1, <1>2, <3>1, <3>3
    <3>5. ~ FollowsLetter(chars, k)
      BY <1>2, <3>4 DEF BeforeLetter, FollowsLetter, n
    <3>6. rank[k - 1] = rank[h] /\ rank[h] = rank[h - 1]
      <4>1. h + 1 \in gone /\ h \in gone /\ h + 1 \in 1..n /\ (h + 1) - 1 = h
        BY <1>1, <1>4, <3>4
      <4> QED
        BY <1>7, <3>4, <4>1
    <3>7. ~ FollowsLetter(z, rank[k])
      <4>1. CASE h = 1
        <5>1. rank[k] = 1
          BY <1>7, <2>1, <3>6, <4>1
        <5> QED
          BY <5>1 DEF FollowsLetter
      <4>2. CASE h # 1
        <5>1. h > 1 /\ h - 1 \in 1..n /\ h \in 2..n
          BY <1>1, <3>4, <4>2
        <5>2. chars[h - 1] \notin Tag /\ chars[h - 1] # Broken /\ chars[h] = tag
          BY <1>2, <5>1
        <5>3. h - 1 \notin hits
          BY <1>2, <5>2
        <5>4. ASSUME NEW g \in hits, h - 1 = g + 1 PROVE FALSE
          <6>1. g \in 1..n /\ g = h - 2 /\ h \in 3..n /\ chars[g] = tag
            BY <1>1, <1>2, <5>1, <5>4
          <6> QED
            BY <1>3, <5>2, <6>1
        <5>5. h - 1 \notin gone
          BY <1>4, <5>3, <5>4
        <5>6. z[rank[h - 1]] = chars[h - 1]
          BY <1>6, <5>1, <5>5
        <5>7. rank[k] - 1 = rank[h - 1]
          BY <2>1, <3>6
        <5> QED
          BY <5>2, <5>6, <5>7 DEF FollowsLetter
      <4> QED
        BY <4>1, <4>2
    <3> QED
      BY <3>5, <3>7
  <2> QED
    BY <1>1, <2>2, <2>3, <2>4
<1>14. ASSUME NEW k \in 1..n, k \notin gone, chars[k] \in Tag
       PROVE  BeforeLetter(z, rank[k]) <=> BeforeLetter(chars, k)
  <2>1. CASE k = n
    <3>1. rank[k] = Len(z)
      BY <1>6, <2>1
    <3>2. Len(z) \in Nat
      BY <1>6
    <3> QED
      BY <1>1, <2>1, <3>1, <3>2 DEF BeforeLetter, n
  <2>2. CASE k < n
    <3>1. k + 1 \in 2..n /\ k + 1 \in 1..n /\ (k + 1) - 1 = k
      BY <1>1, <2>2
    <3>2. k + 1 \notin hits
      BY <1>2, <1>3, <1>14, <3>1
    <3>3. ASSUME NEW h \in hits, k + 1 = h + 1 PROVE FALSE
      <4>1. h = k
        BY <1>1, <1>2, <3>3
      <4> QED
        BY <1>4, <1>14, <4>1
    <3>4. k + 1 \notin gone
      BY <1>4, <3>2, <3>3
    <3>5. rank[k + 1] = rank[k] + 1 /\ rank[k + 1] \in 1..Len(z) /\ z[rank[k + 1]] = chars[k + 1]
      BY <1>6, <1>7, <1>11, <3>1, <3>4
    <3>6. rank[k] < Len(z)
      <4>1. rank[k] \in 1..Len(z) /\ Len(z) \in Nat
        BY <1>6, <1>11, <1>14
      <4> QED
        BY <3>5, <4>1
    <3> QED
      BY <2>2, <3>5, <3>6 DEF BeforeLetter, n
  <2> QED
    BY <1>1, <2>1, <2>2
<1>15. DOMAIN z = 1..Len(z)
  BY <1>6
<1>16. /\ \A k \in Shown(chars) : k \notin gone => rank[k] \in Shown(z) /\ Name(z, rank[k]) = Name(chars, k)
       /\ \A r \in Shown(z) : \E k \in Shown(chars) : k \notin gone /\ rank[k] = r
  <2>1. ASSUME NEW k \in 1..n, k \notin gone
        PROVE  /\ k \in Shown(chars) <=> rank[k] \in Shown(z)
               /\ k \in Shown(chars) => Name(z, rank[k]) = Name(chars, k)
    <3>1. z[rank[k]] = chars[k] /\ rank[k] \in 1..Len(z) /\ (k \in Hidden(chars) <=> rank[k] \in Hidden(z))
      BY <1>6, <1>11, <1>12, <2>1
    <3>2. chars[k] \in Tag => /\ FollowsLetter(z, rank[k]) <=> FollowsLetter(chars, k)
                              /\ BeforeLetter(z, rank[k]) <=> BeforeLetter(chars, k)
      BY <1>13, <1>14, <2>1
    <3>3. k \in Shown(chars) <=> rank[k] \in Shown(z)
      BY <1>1, <1>15, <3>1, <3>2 DEF Shown
    <3>4. k \in Shown(chars) => Name(z, rank[k]) = Name(chars, k)
      BY <3>1, <3>2 DEF Shown, Name
    <3> QED
      BY <3>3, <3>4
  <2>2. Shown(chars) \subseteq 1..n /\ Shown(z) \subseteq 1..Len(z)
    BY <1>1, <1>15 DEF Shown
  <2>3. ASSUME NEW r \in Shown(z) PROVE \E k \in Shown(chars) : k \notin gone /\ rank[k] = r
    <3>1. PICK k \in 1..n : k \notin gone /\ rank[k] = r
      BY <1>11, <2>2
    <3> QED
      BY <2>1, <3>1
  <2> QED
    BY <2>1, <2>2, <2>3
<1>17. \A k \in Shown(chars) : k \in gone <=> Name(chars, k) = <<tag>>
  <2> SUFFICES ASSUME NEW k \in Shown(chars) PROVE k \in gone <=> Name(chars, k) = <<tag>>
    OBVIOUS
  <2>1. k \in 1..n /\ chars[k] \in Tag /\ ~ FollowsLetter(chars, k)
    BY <1>1 DEF Shown
  <2>2. ASSUME k \in gone PROVE Name(chars, k) = <<tag>>
    <3>1. ASSUME NEW h \in hits, k = h + 1 PROVE FALSE
      <4>1. k \in 2..n /\ k - 1 = h /\ chars[h] = tag
        BY <1>1, <1>2, <2>1, <3>1
      <4> QED
        BY <1>3, <2>1, <4>1
    <3>2. k \in hits
      BY <1>4, <2>2, <3>1
    <3> QED
      BY <1>2, <3>2 DEF Name
  <2>3. ASSUME Name(chars, k) = <<tag>> PROVE k \in gone
    <3>1. ~ BeforeLetter(chars, k) /\ <<chars[k]>> = <<tag>>
      BY <2>3, Names DEF Name
    <3>2. chars[k] = tag
      BY <3>1, Names
    <3>3. Findable(chars, k, tag)
      BY <2>1, <3>1, <3>2, ShownTagIsFindable DEF n
    <3> QED
      BY <1>2, <1>4, <2>1, <3>3
  <2> QED
    BY <2>2, <2>3
<1>18. \A x : x \in TagsOf(z) <=> x \in TagsOf(chars) /\ x # <<tag>>
  <2> TAKE x
  <2>1. x \in TagsOf(z) <=> \E r \in Shown(z) : x = Name(z, r)
    BY TagsOfIs
  <2>2. x \in TagsOf(chars) <=> \E k \in Shown(chars) : x = Name(chars, k)
    BY TagsOfIs
  <2>3. ASSUME x \in TagsOf(z) PROVE x \in TagsOf(chars) /\ x # <<tag>>
    <3>1. PICK r \in Shown(z) : x = Name(z, r)
      BY <2>1, <2>3
    <3>2. PICK k \in Shown(chars) : k \notin gone /\ rank[k] = r
      BY <1>16
    <3>3. x = Name(chars, k)
      BY <1>16, <3>1, <3>2
    <3> QED
      BY <1>17, <2>2, <3>2, <3>3
  <2>4. ASSUME x \in TagsOf(chars), x # <<tag>> PROVE x \in TagsOf(z)
    <3>1. PICK k \in Shown(chars) : x = Name(chars, k)
      BY <2>2, <2>4
    <3>2. k \notin gone
      BY <1>17, <2>4, <3>1
    <3> QED
      BY <1>16, <2>1, <3>1, <3>2
  <2> QED
    BY <2>3, <2>4
<1>19. TagsOf(z) = TagsOf(chars) \ {<<tag>>}
  BY <1>18
<1> QED
  BY <1>19 DEF z

------------------------------------------------------------------------------
\* Patches

\* The sequence s with c in the place of what stands behind the first a elements, up to
\* the b-th.
Spliced(s, a, c, b) == SubSeq(s, 1, a) \o c \o SubSeq(s, b + 1, Len(s))

IsSplice(z, S, s, a, c, b) ==
    /\ z \in Seq(S) /\ Len(z) = a + Len(c) + (Len(s) - b)
    /\ \A i \in 1..a : z[i] = s[i]
    /\ \A i \in 1..Len(c) : z[a + i] = c[i]
    /\ \A i \in 1..Len(s) - b : z[(a + Len(c)) + i] = s[b + i]

LEMMA SpliceIs ==
    ASSUME NEW S, NEW s \in Seq(S), NEW c \in Seq(S), NEW a \in 0..Len(s), NEW b \in a..Len(s)
    PROVE  IsSplice(Spliced(s, a, c, b), S, s, a, c, b)
<1> DEFINE x == SubSeq(s, 1, a)
           y == SubSeq(s, b + 1, Len(s))
           n == Len(s)
           m == Len(c)
<1>1. n \in Nat /\ m \in Nat /\ a \in Nat /\ b \in Nat /\ a <= b /\ b <= n
  OBVIOUS
<1>2. x \in Seq(S) /\ Len(x) = a /\ \A i \in 1..a : x[i] = s[i]
  <2>1. \A i \in 1..a : s[i] \in S
    BY <1>1
  <2>2. 1 \in Int /\ a \in Int
    BY <1>1
  <2>3. /\ x \in Seq(S) /\ Len(x) = IF 1 <= a THEN a - 1 + 1 ELSE 0
        /\ \A i \in 1..a - 1 + 1 : x[i] = s[1 + i - 1]
    BY <2>1, <2>2, SubSeqProperties
  <2> HIDE DEF x
  <2> QED
    BY <1>1, <2>3
<1>3. y \in Seq(S) /\ Len(y) = n - b /\ \A i \in 1..n - b : y[i] = s[b + i]
  <2>1. \A i \in b + 1..n : s[i] \in S
    BY <1>1
  <2>2. b + 1 \in Int /\ n \in Int
    BY <1>1
  <2>3. /\ y \in Seq(S) /\ Len(y) = IF b + 1 <= n THEN n - (b + 1) + 1 ELSE 0
        /\ \A i \in 1..n - (b + 1) + 1 : y[i] = s[b + 1 + i - 1]
    BY <2>1, <2>2, SubSeqProperties
  <2>4. \A i \in 1..n - b : i \in 1..n - (b + 1) + 1 /\ b + 1 + i - 1 = b + i
    BY <1>1
  <2> HIDE DEF y, n
  <2> QED
    BY <1>1, <2>3, <2>4
<1> HIDE DEF x, y, n
<1> DEFINE u == x \o c
<1>4. /\ u \in Seq(S) /\ Len(u) = a + m
      /\ \A i \in 1..a + m : u[i] = IF i <= a THEN x[i] ELSE c[i - a]
  BY <1>2, ConcatProperties
<1> HIDE DEF u
<1> DEFINE z == u \o y
<1>5. /\ z \in Seq(S) /\ Len(z) = (a + m) + (n - b)
      /\ \A i \in 1..(a + m) + (n - b) : z[i] = IF i <= a + m THEN u[i] ELSE y[i - (a + m)]
  <2>1. /\ z \in Seq(S) /\ Len(z) = Len(u) + Len(y)
        /\ \A i \in 1..Len(u) + Len(y) : z[i] = IF i <= Len(u) THEN u[i] ELSE y[i - Len(u)]
    BY <1>3, <1>4, ConcatProperties
  <2>2. Len(u) = a + m /\ Len(y) = n - b
    BY <1>3, <1>4
  <2> HIDE DEF z
  <2> QED
    BY <2>1, <2>2
<1>6. Spliced(s, a, c, b) = z
  BY DEF Spliced, x, y, n, u
<1> HIDE DEF z, m
<1>7. \A i \in 1..a : z[i] = s[i]
  <2> TAKE i \in 1..a
  <2>1. i \in 1..(a + m) + (n - b) /\ i \in 1..a + m /\ i <= a /\ i <= a + m
    BY <1>1
  <2> QED
    BY <1>2, <1>4, <1>5, <2>1
<1>8. \A i \in 1..m : z[a + i] = c[i]
  <2> TAKE i \in 1..m
  <2>1. /\ a + i \in 1..(a + m) + (n - b) /\ a + i \in 1..a + m /\ ~ (a + i <= a) /\ a + i <= a + m
        /\ (a + i) - a = i
    BY <1>1
  <2> QED
    BY <1>4, <1>5, <2>1
<1>9. \A i \in 1..n - b : z[(a + m) + i] = s[b + i]
  <2> TAKE i \in 1..n - b
  <2>1. /\ (a + m) + i \in 1..(a + m) + (n - b) /\ ~ ((a + m) + i <= a + m)
        /\ ((a + m) + i) - (a + m) = i
    BY <1>1
  <2> QED
    BY <1>3, <1>5, <2>1
<1> QED
  BY <1>5, <1>6, <1>7, <1>8, <1>9 DEF IsSplice, n, m

\* A section ends with the text or before a heading, and what stands under a heading is
\* the rest of its section.
LEMMA SectionIs ==
    ASSUME NEW text \in Seq(NoteLine), NEW i \in 1..Len(text), IsHeading(text, i)
    PROVE  /\ SectionEnd(text, i) \in i..Len(text)
           /\ SectionEnd(text, i) < Len(text) => IsHeading(text, SectionEnd(text, i) + 1)
           /\ Cardinality(Under(text, i)) = SectionEnd(text, i) - i
<1> DEFINE n == Len(text)
           next == {j \in (i + 1)..n : IsHeading(text, j) /\ text[j].level <= text[i].level}
           e == SectionEnd(text, i)
<1>1. n \in Nat /\ i \in 1..n /\ next \subseteq Nat
  OBVIOUS
<1>2. \A j \in 1..n : IsHeading(text, j) => text[j].level \in Nat
  <2> TAKE j \in 1..n
  <2>1. text[j] \in NoteLine
    BY <1>1
  <2> QED
    BY <2>1 DEF IsHeading, NoteLine, Fence, Heading, Prose
<1>3. e = IF next = {} THEN n ELSE Min(next) - 1
  BY DEF SectionEnd
<1>4. e \in i..n /\ (e < n => e + 1 \in next) /\ \A j \in next : e < j
  <2>1. CASE next = {}
    <3>1. e = n
      BY <1>3, <2>1
    <3> HIDE DEF e
    <3> QED
      BY <1>1, <2>1, <3>1
  <2>2. CASE next # {}
    <3>1. Min(next) \in next /\ \A j \in next : Min(next) <= j
      <4> HIDE DEF next
      <4> QED
        BY <1>1, <2>2, LeastIs
    <3> DEFINE q == Min(next)
    <3>2. q \in i + 1..n /\ q \in next /\ \A j \in next : q <= j /\ j \in Nat
      BY <3>1
    <3>3. e = q - 1
      BY <1>3, <2>2
    <3> HIDE DEF e, q, next
    <3> QED
      BY <1>1, <3>2, <3>3
  <2> QED
    BY <2>1, <2>2
<1>5. e < n => IsHeading(text, e + 1)
  BY <1>4
<1> HIDE DEF e
<1>6. Under(text, i) = (i + 1)..e
  <2>1. ASSUME NEW j \in (i + 1)..n, j <= e, NEW k \in (i + 1)..j, IsHeading(text, k)
        PROVE  text[k].level > text[i].level
    <3>1. k \in (i + 1)..n /\ k \in 1..n /\ ~ (e < k)
      BY <1>1, <1>4, <2>1
    <3>2. k \notin next
      BY <1>4, <3>1
    <3>3. ~ (text[k].level <= text[i].level)
      BY <2>1, <3>1, <3>2
    <3> QED
      BY <1>1, <1>2, <2>1, <3>1, <3>3
  <2>2. ASSUME NEW j \in Under(text, i), ~ (j <= e) PROVE FALSE
    <3>1. j \in (i + 1)..n /\ \A k \in (i + 1)..j : IsHeading(text, k) => text[k].level > text[i].level
      BY DEF Under
    <3>2. e < n /\ e + 1 \in (i + 1)..j
      BY <1>1, <1>4, <2>2, <3>1
    <3>3. e + 1 \in next
      BY <1>4, <3>2
    <3>4. IsHeading(text, e + 1) /\ text[e + 1].level <= text[i].level /\ text[e + 1].level > text[i].level
      BY <3>1, <3>2, <3>3
    <3>5. text[e + 1].level \in Nat /\ text[i].level \in Nat
      BY <1>1, <1>2, <3>3, <3>4
    <3> QED
      BY <3>4, <3>5
  <2>3. \A j : j \in Under(text, i) => j \in (i + 1)..e
    <3> SUFFICES ASSUME NEW j \in Under(text, i) PROVE j \in (i + 1)..e
      OBVIOUS
    <3>1. j \in (i + 1)..n /\ j <= e
      BY <2>2 DEF Under
    <3> QED
      BY <1>1, <1>4, <3>1
  <2>4. \A j : j \in (i + 1)..e => j \in Under(text, i)
    <3> SUFFICES ASSUME NEW j \in (i + 1)..e PROVE j \in Under(text, i)
      OBVIOUS
    <3>1. j \in (i + 1)..n /\ j <= e
      BY <1>1, <1>4
    <3> QED
      BY <2>1, <3>1 DEF Under
  <2> QED
    BY <2>3, <2>4
<1>7. Cardinality((i + 1)..e) = e - i
  <2>1. i + 1 \in Int /\ e \in Int /\ i <= e
    BY <1>1, <1>4
  <2>2. Cardinality((i + 1)..e) = IF i + 1 > e THEN 0 ELSE e - (i + 1) + 1
    BY <2>1, FS_Interval
  <2> QED
    BY <1>1, <2>1, <2>2
<1> QED
  BY <1>4, <1>5, <1>6, <1>7 DEF e

Position == {"before", "after", "replace_body"}

Cut(position, at, end) ==
    CASE position = "before" -> at - 1 [] position = "after" -> end [] position = "replace_body" -> at

Stop(position, at, end) == IF position = "before" THEN at - 1 ELSE end

\* A patch splices its content into the note, between the lines it cuts at.
LEMMA PatchIs ==
    ASSUME lines \in Seq(NoteLine), NEW h, NEW p \in Position, NEW c \in Contents, PatchNote(h, p, c)
    PROVE  \E at \in 1..Len(lines) :
              /\ IsHeading(lines, at)
              /\ last' = [call |-> "patch", at |-> at, end |-> SectionEnd(lines, at), position |-> p, content |-> c]
              /\ lines' = Spliced(lines, Cut(p, at, SectionEnd(lines, at)), c, Stop(p, at, SectionEnd(lines, at)))
              /\ calls' = calls + 1 /\ calls < MaxCalls /\ tags' = tags
<1> DEFINE found == {i \in DOMAIN lines : IsHeading(lines, i) /\ lines[i].text = h}
           at == Min(found)
           end == SectionEnd(lines, at)
           from(i) == SubSeq(lines, i, Len(lines))
<1>1. /\ found # {}
      /\ Call([call |-> "patch", at |-> at, end |-> end, position |-> p, content |-> c])
      /\ lines' = CASE p = "before"       -> SubSeq(lines, 1, at - 1) \o c \o from(at)
                    [] p = "after"        -> SubSeq(lines, 1, end) \o c \o from(end + 1)
                    [] p = "replace_body" -> SubSeq(lines, 1, at) \o c \o from(end + 1)
      /\ tags' = tags
  BY Zenon DEF PatchNote
<1>2. found \subseteq Nat /\ \A i \in found : i \in 1..Len(lines) /\ IsHeading(lines, i)
  OBVIOUS
<1>3. at \in found
  <2> HIDE DEF found
  <2> QED
    BY <1>1, <1>2, LeastIs
<1>4. at \in 1..Len(lines) /\ IsHeading(lines, at)
  BY <1>2, <1>3
<1> HIDE DEF at
<1>5. (at - 1) + 1 = at
  BY <1>4
<1>6. lines' = Spliced(lines, Cut(p, at, end), c, Stop(p, at, end))
  <2>1. CASE p = "before"
    BY <1>1, <1>5, <2>1 DEF Spliced, Cut, Stop
  <2>2. CASE p = "after"
    BY <1>1, <2>2 DEF Spliced, Cut, Stop
  <2>3. CASE p = "replace_body"
    BY <1>1, <2>3 DEF Spliced, Cut, Stop
  <2> QED
    BY <2>1, <2>2, <2>3 DEF Position
<1> QED
  BY <1>1, <1>4, <1>6 DEF Call

------------------------------------------------------------------------------
\* The calls, one by one

LEMMA FrontmatterIs ==
    \A fm \in Frontmatter \cup {None} :
        \/ fm = None
        \/ /\ fm # None /\ fm \in Frontmatter /\ fm.style \in {"sequence", "scalar"}
           /\ fm.entries \in Seq(Seq(Tag) \ {<<>>})
           /\ fm = [style |-> fm.style, entries |-> fm.entries]
           /\ fm.style = "scalar" => Len(fm.entries) = 1
BY TextConstants DEF Frontmatter

LEMMA FrontmatterTypeOK ==
    ASSUME NEW s \in {"sequence", "scalar"}, NEW e \in Seq(Seq(Tag) \ {<<>>}), s = "scalar" => Len(e) = 1
    PROVE  [style |-> s, entries |-> e] \in Frontmatter
BY DEF Frontmatter

LEMMA SingleEntry ==
    ASSUME NEW t \in Tag
    PROVE  <<t>> \in Seq(Tag) \ {<<>>} /\ Len(<<t>>) = 1 /\ <<t>>[1] = t
OBVIOUS

LEMMA AddedTags ==
    ASSUME NEW t \in Tag, tags \in Frontmatter \cup {None}
    PROVE  AddToFrontmatter(tags, t) \in Frontmatter
<1> DEFINE entries == IF tags = None THEN <<>> ELSE tags.entries
           new == IF <<t>> \in ToSet(entries) THEN entries ELSE Append(entries, <<t>>)
<1>1. entries \in Seq(Seq(Tag) \ {<<>>})
  BY FrontmatterIs, EmptySeq
<1> HIDE DEF entries
<1>2. new \in Seq(Seq(Tag) \ {<<>>})
  BY <1>1, SingleEntry, AppendProperties
<1>3. AddToFrontmatter(tags, t) = [style |-> "sequence", entries |-> new]
  BY DEF AddToFrontmatter, entries
<1> HIDE DEF new
<1> QED
  BY <1>2, <1>3, FrontmatterTypeOK

LEMMA RemovedTags ==
    ASSUME NEW t \in Tag, tags \in Frontmatter \cup {None}, RemoveTag(t)
    PROVE  /\ tags' \in Frontmatter \cup {None}
           /\ tags # None /\ tags.style = "sequence" =>
                 tags' = [style   |-> "sequence",
                          entries |-> Dropping(tags.entries, {i \in DOMAIN tags.entries : tags.entries[i] = <<t>>})]
           /\ ~ (tags # None /\ tags.style = "sequence") => tags' = tags
<1> DEFINE gone == {i \in DOMAIN tags.entries : tags.entries[i] = <<t>>}
           left == Dropping(tags.entries, gone)
<1>1. tags' = IF tags # None /\ tags.style = "sequence" THEN [tags EXCEPT !.entries = left] ELSE tags
  BY DEF RemoveTag
<1>2. CASE tags # None /\ tags.style = "sequence"
  <2>1. tags.entries \in Seq(Seq(Tag) \ {<<>>}) /\ tags = [style |-> "sequence", entries |-> tags.entries]
    BY <1>2, FrontmatterIs
  <2>2. left \in Seq(Seq(Tag) \ {<<>>})
    <3> HIDE DEF gone
    <3> QED
      BY <2>1, DroppingIs
  <2>3. tags' = [style |-> "sequence", entries |-> left]
    <3> HIDE DEF left
    <3> QED
      BY <1>1, <1>2, <2>1
  <2>4. tags' \in Frontmatter
    <3> HIDE DEF left
    <3> QED
      BY <2>2, <2>3, FrontmatterTypeOK
  <2> QED
    BY <1>2, <2>3, <2>4
<1>3. CASE ~ (tags # None /\ tags.style = "sequence")
  BY <1>1, <1>3
<1> QED
  BY <1>2, <1>3

LEMMA RenamedTags ==
    ASSUME NEW t \in Tag, NEW u \in Tag, tags \in Frontmatter \cup {None}, RenameTag(t, u)
    PROVE  /\ tags' \in Frontmatter \cup {None}
           /\ tags = None => tags' = None
           /\ tags # None => /\ tags' # None /\ tags'.style = tags.style
                             /\ tags'.entries = [i \in DOMAIN tags.entries |-> Renaming(tags.entries[i], t, u)]
<1> DEFINE new == [i \in DOMAIN tags.entries |-> IF tags.entries[i] = <<t>> THEN <<u>> ELSE tags.entries[i]]
<1>1. tags' = IF tags = None THEN None ELSE [tags EXCEPT !.entries = new]
  BY DEF RenameTag
<1>2. CASE tags # None
  <2>1. /\ tags.entries \in Seq(Seq(Tag) \ {<<>>}) /\ tags.style \in {"sequence", "scalar"}
        /\ tags = [style |-> tags.style, entries |-> tags.entries]
        /\ tags.style = "scalar" => Len(tags.entries) = 1
    BY <1>2, FrontmatterIs
  <2>2. new \in Seq(Seq(Tag) \ {<<>>}) /\ Len(new) = Len(tags.entries)
    <3>1. \A i \in 1..Len(tags.entries) : new[i] \in Seq(Tag) \ {<<>>}
      BY <2>1, SingleEntry
    <3>2. DOMAIN tags.entries = 1..Len(tags.entries) /\ Len(tags.entries) \in Nat
      BY <2>1
    <3>3. new = [i \in 1..Len(tags.entries) |-> new[i]]
      BY <3>2
    <3> HIDE DEF new
    <3> QED
      BY ONLY <3>1, <3>2, <3>3
  <2>3. new = [i \in DOMAIN tags.entries |-> Renaming(tags.entries[i], t, u)]
    BY DEF Renaming
  <2> HIDE DEF new
  <2>4. tags' = [style |-> tags.style, entries |-> new]
    BY <1>1, <1>2, <2>1
  <2>5. tags' \in Frontmatter
    BY <2>1, <2>2, <2>4, FrontmatterTypeOK
  <2>6. tags' # None
    BY <2>5, TextConstants
  <2> QED
    BY <1>2, <2>3, <2>4, <2>5, <2>6
<1>3. CASE tags = None
  BY <1>1, <1>3
<1> QED
  BY <1>2, <1>3

LEMMA RemovedLines ==
    ASSUME NEW t \in Tag, lines \in Seq(NoteLine), RemoveTag(t)
    PROVE  /\ lines' \in Seq(NoteLine) /\ Len(lines') = Len(lines)
           /\ \A i \in 1..Len(lines) :
                 lines'[i] = IF IsProse(lines, i) THEN Line(Without(lines[i].chars, t)) ELSE lines[i]
<1>1. lines' = [i \in DOMAIN lines |-> IF IsProse(lines, i) THEN Line(Without(lines[i].chars, t)) ELSE lines[i]]
  BY DEF RemoveTag, EditProse
<1>2. DOMAIN lines = 1..Len(lines) /\ Len(lines) \in Nat /\ \A i \in 1..Len(lines) : lines[i] \in NoteLine
  OBVIOUS
<1>3. ASSUME NEW i \in 1..Len(lines), IsProse(lines, i) PROVE Line(Without(lines[i].chars, t)) \in NoteLine
  <2>1. lines[i] \in NoteLine /\ lines[i].kind = "prose"
    BY <1>2, <1>3 DEF IsProse
  <2>2. lines[i].chars \in Seq(Char) /\ Spaced(lines[i].chars)
    BY <2>1, ProseIs
  <2>3. Without(lines[i].chars, t) \in Seq(Char) /\ Spaced(Without(lines[i].chars, t))
    BY <2>2, WithoutIs, WithoutSpaced
  <2> QED
    BY <2>3, LineTypeOK
<1>4. \A i \in 1..Len(lines) : lines'[i] \in NoteLine
  BY <1>1, <1>2, <1>3
<1>5. lines' = [i \in 1..Len(lines) |-> lines'[i]]
  BY <1>1, <1>2
<1> QED
  BY <1>1, <1>2, <1>4, <1>5

LEMMA RenamedLines ==
    ASSUME NEW t \in Tag, NEW u \in Tag, lines \in Seq(NoteLine), RenameTag(t, u)
    PROVE  /\ lines' \in Seq(NoteLine) /\ Len(lines') = Len(lines)
           /\ \A i \in 1..Len(lines) :
                 lines'[i] = IF IsProse(lines, i) THEN Line(Renamed(lines[i].chars, t, u)) ELSE lines[i]
<1>1. lines' = [i \in DOMAIN lines |-> IF IsProse(lines, i) THEN Line(Renamed(lines[i].chars, t, u)) ELSE lines[i]]
  BY DEF RenameTag, EditProse
<1>2. DOMAIN lines = 1..Len(lines) /\ Len(lines) \in Nat /\ \A i \in 1..Len(lines) : lines[i] \in NoteLine
  OBVIOUS
<1>3. ASSUME NEW i \in 1..Len(lines), IsProse(lines, i) PROVE Line(Renamed(lines[i].chars, t, u)) \in NoteLine
  <2>1. lines[i] \in NoteLine /\ lines[i].kind = "prose"
    BY <1>2, <1>3 DEF IsProse
  <2>2. lines[i].chars \in Seq(Char) /\ Spaced(lines[i].chars)
    BY <2>1, ProseIs
  <2>3. Renamed(lines[i].chars, t, u) \in Seq(Char) /\ Spaced(Renamed(lines[i].chars, t, u))
    <3>1. RenamesTo(lines[i].chars, Renamed(lines[i].chars, t, u), t, u)
      BY <2>2, RenamedIs
    <3> QED
      BY <2>2, <3>1 DEF RenamesTo
  <2> QED
    BY <2>3, LineTypeOK
<1>4. \A i \in 1..Len(lines) : lines'[i] \in NoteLine
  BY <1>1, <1>2, <1>3
<1>5. lines' = [i \in 1..Len(lines) |-> lines'[i]]
  BY <1>1, <1>2
<1> QED
  BY <1>1, <1>2, <1>4, <1>5

LEMMA TagLine ==
    ASSUME NEW t \in Tag
    PROVE  [kind |-> "prose", chars |-> <<t>>] \in NoteLine
<1> DEFINE c == <<t>>
<1>1. c \in Seq(Char) /\ Len(c) = 1 /\ c[1] = t
  BY Characters
<1> HIDE DEF c
<1>2. Spaced(c)
  BY <1>1 DEF Spaced
<1>3. Line(c).kind = "prose"
  <2>1. 1 \in 1..3 /\ (1 > Len(c) \/ c[1] # Tick)
    BY <1>1, Characters
  <2> QED
    BY <1>1, <2>1, LineIs
<1>4. Line(c) = [kind |-> "prose", chars |-> c]
  BY <1>1, <1>3, LineIs
<1> QED
  BY <1>1, <1>2, <1>4, LineTypeOK DEF c

LEMMA CutsAre ==
    ASSUME NEW p \in Position, NEW n \in Nat, NEW at \in 1..n, NEW end \in at..n
    PROVE  Cut(p, at, end) \in 0..n /\ Stop(p, at, end) \in Cut(p, at, end)..n
BY DEF Cut, Stop, Position

------------------------------------------------------------------------------
\* Types

LEMMA InitTypeOK == Init => TypeOK
<1> SUFFICES ASSUME Init PROVE TypeOK
  OBVIOUS
<1>1. PICK n \in Notes : tags = n.tags /\ lines = n.lines
  BY DEF Init
<1>2. tags \in Frontmatter \cup {None} /\ lines \in Seq(NoteLine)
  BY <1>1, TextConstants
<1>3. last.call = "none" /\ calls = 0 /\ 0 \in 0..MaxCalls
  BY TextConstants DEF Init
<1> QED
  BY <1>2, <1>3 DEF TypeOK

LEMMA CallTypeOK ==
    ASSUME NEW r, Call(r), TypeOK
    PROVE  calls' \in 0..MaxCalls /\ last' = r
BY TextConstants DEF Call, TypeOK

LEMMA NextTypeOK == TypeOK /\ [Next]_vars => TypeOK'
<1> SUFFICES ASSUME TypeOK, [Next]_vars PROVE TypeOK'
  OBVIOUS
<1>1. tags \in Frontmatter \cup {None} /\ lines \in Seq(NoteLine)
  BY DEF TypeOK
<1>2. ASSUME NEW t \in Tag, AddTag(t) PROVE TypeOK'
  <2>1. calls' \in 0..MaxCalls /\ last' = [call |-> "add", tag |-> t]
    BY <1>2, CallTypeOK DEF AddTag
  <2>2. last'.call = "add"
    BY <2>1
  <2>3. CASE tags' = AddToFrontmatter(tags, t) /\ UNCHANGED lines
    BY <1>1, <2>1, <2>2, <2>3, AddedTags DEF TypeOK
  <2>4. CASE lines' = Append(lines, [kind |-> "prose", chars |-> <<t>>]) /\ UNCHANGED tags
    <3>1. lines' \in Seq(NoteLine)
      BY <1>1, <2>4, TagLine, AppendProperties
    <3> QED
      BY <1>1, <2>1, <2>2, <2>4, <3>1 DEF TypeOK
  <2> QED
    BY <1>2, <2>3, <2>4 DEF AddTag
<1>3. ASSUME NEW t \in Tag, RemoveTag(t) PROVE TypeOK'
  <2>1. calls' \in 0..MaxCalls /\ last' = [call |-> "remove", tag |-> t]
    BY <1>3, CallTypeOK DEF RemoveTag
  <2>2. last'.call = "remove"
    BY <2>1
  <2> QED
    BY <1>1, <1>3, <2>1, <2>2, RemovedTags, RemovedLines DEF TypeOK
<1>4. ASSUME NEW t \in Tag, NEW u \in Tag, RenameTag(t, u) PROVE TypeOK'
  <2>1. calls' \in 0..MaxCalls /\ last' = [call |-> "rename", tag |-> t, new |-> u]
    BY <1>4, CallTypeOK DEF RenameTag
  <2>2. last'.call = "rename"
    BY <2>1
  <2>3. tags' \in Frontmatter \cup {None} /\ lines' \in Seq(NoteLine)
    BY <1>1, <1>4, RenamedTags, RenamedLines
  <2> QED
    BY <2>1, <2>2, <2>3 DEF TypeOK
<1>5. ASSUME NEW h, NEW p \in Position, NEW c \in Contents, PatchNote(h, p, c) PROVE TypeOK'
  <2>1. PICK at \in 1..Len(lines) :
           /\ IsHeading(lines, at)
           /\ last' = [call |-> "patch", at |-> at, end |-> SectionEnd(lines, at), position |-> p, content |-> c]
           /\ lines' = Spliced(lines, Cut(p, at, SectionEnd(lines, at)), c, Stop(p, at, SectionEnd(lines, at)))
           /\ calls' = calls + 1 /\ calls < MaxCalls /\ tags' = tags
    BY <1>1, <1>5, PatchIs
  <2> DEFINE end == SectionEnd(lines, at)
             a == Cut(p, at, end)
             b == Stop(p, at, end)
  <2>2. end \in at..Len(lines) /\ Len(lines) \in Nat
    BY <1>1, <2>1, SectionIs
  <2> HIDE DEF end
  <2>3. a \in 0..Len(lines) /\ b \in a..Len(lines)
    BY <2>2, CutsAre
  <2>4. c \in Seq(NoteLine)
    BY TextConstants
  <2>5. lines' = Spliced(lines, a, c, b)
    BY <2>1 DEF end
  <2> HIDE DEF a, b
  <2>6. lines' \in Seq(NoteLine)
    <3>1. IsSplice(lines', NoteLine, lines, a, c, b)
      BY <1>1, <2>3, <2>4, <2>5, SpliceIs
    <3> QED
      BY <3>1 DEF IsSplice
  <2>7. last'.call = "patch"
    BY <2>1
  <2>8. calls' \in 0..MaxCalls
    BY <2>1, TextConstants DEF TypeOK
  <2> QED
    BY <1>1, <2>1, <2>6, <2>7, <2>8 DEF TypeOK
<1>6. CASE UNCHANGED vars
  BY <1>6 DEF TypeOK, vars
<1> QED
  BY <1>2, <1>3, <1>4, <1>5, <1>6 DEF Next, Position

\* A note is frontmatter and lines after any number of edits: no tag of the frontmatter
\* becomes empty, no line of prose becomes what it is not, and no two tags of a line run
\* into one another when the text between them goes.
THEOREM TypeCorrect == Spec => []TypeOK
<1> QED
  BY InitTypeOK, NextTypeOK, PTL DEF Spec

------------------------------------------------------------------------------
\* Which call a step is

LEMMA CallIs ==
    ASSUME TypeOK, [Next]_vars, calls' # calls
    PROVE  /\ last'.call = "add" => \E t \in Tag : AddTag(t) /\ last'.tag = t
           /\ last'.call = "remove" => \E t \in Tag : RemoveTag(t) /\ last'.tag = t
           /\ last'.call = "rename" => \E t, u \in Tag : RenameTag(t, u) /\ last'.tag = t /\ last'.new = u
           /\ last'.call = "patch" => \E h, p, c : p \in Position /\ c \in Contents /\ PatchNote(h, p, c)
<1>1. Next
  BY DEF vars
<1>2. ASSUME NEW t \in Tag, AddTag(t) PROVE last'.call = "add" /\ last'.tag = t
  <2>1. last' = [call |-> "add", tag |-> t]
    BY <1>2 DEF AddTag, Call
  <2> QED
    BY <2>1
<1>3. ASSUME NEW t \in Tag, RemoveTag(t) PROVE last'.call = "remove" /\ last'.tag = t
  <2>1. last' = [call |-> "remove", tag |-> t]
    BY <1>3 DEF RemoveTag, Call
  <2> QED
    BY <2>1
<1>4. ASSUME NEW t \in Tag, NEW u \in Tag, RenameTag(t, u)
      PROVE  last'.call = "rename" /\ last'.tag = t /\ last'.new = u
  <2>1. last' = [call |-> "rename", tag |-> t, new |-> u]
    BY <1>4 DEF RenameTag, Call
  <2> QED
    BY <2>1
<1>5. ASSUME NEW h, NEW p \in Position, NEW c \in Contents, PatchNote(h, p, c) PROVE last'.call = "patch"
  <2>1. lines \in Seq(NoteLine)
    BY DEF TypeOK
  <2> QED
    BY <1>5, <2>1, PatchIs
<1>6. CASE \E t \in Tag : AddTag(t)
  BY <1>2, <1>6
<1>7. CASE \E t \in Tag : RemoveTag(t)
  BY <1>3, <1>7
<1>8. CASE \E t, u \in Tag : RenameTag(t, u)
  BY <1>4, <1>8
<1>9. CASE \E h, p, c : p \in Position /\ c \in Contents /\ PatchNote(h, p, c)
  BY <1>5, <1>9
<1>10. \/ \E t \in Tag : AddTag(t)
       \/ \E t \in Tag : RemoveTag(t)
       \/ \E t, u \in Tag : RenameTag(t, u)
       \/ \E h, p, c : p \in Position /\ c \in Contents /\ PatchNote(h, p, c)
  BY <1>1, Zenon DEF Next, Position
<1> QED
  BY <1>6, <1>7, <1>8, <1>9, <1>10

------------------------------------------------------------------------------
\* The tags of the frontmatter after an edit

LEMMA DroppingSet ==
    ASSUME NEW S, NEW seq \in Seq(S), NEW gone
    PROVE  \A x : x \in ToSet(Dropping(seq, gone)) <=> \E i \in 1..Len(seq) : i \notin gone /\ seq[i] = x
<1> DEFINE n == Len(seq)
           z == Dropping(seq, gone)
<1>1. PICK rank : /\ Ranks(rank, n, gone) /\ z \in Seq(S) /\ Len(z) = rank[n]
                  /\ \A i \in 1..n : i \notin gone => z[rank[i]] = seq[i]
  BY DroppingIs
<1>2. n \in Nat
  OBVIOUS
<1> HIDE DEF z, n
<1>3. /\ \A i, j \in 0..n : i <= j => rank[i] <= rank[j]
      /\ \A i, j \in 0..n : i < j /\ j \notin gone => rank[i] < rank[j]
      /\ \A r \in 1..rank[n] : \E i \in 1..n : i \notin gone /\ rank[i] = r
  <2>1. n \in Nat /\ Ranks(rank, n, gone)
    BY <1>1, <1>2
  <2> QED
    BY <2>1, RanksOrder
<1>4. rank \in [0..n -> Nat] /\ rank[0] = 0
  BY <1>1 DEF Ranks
<1>5. \A i \in 1..n : i \notin gone => rank[i] \in 1..Len(z)
  <2> SUFFICES ASSUME NEW i \in 1..n, i \notin gone PROVE rank[i] \in 1..Len(z)
    OBVIOUS
  <2>1. 0 \in 0..n /\ i \in 0..n /\ n \in 0..n /\ 0 < i /\ i <= n
    BY <1>2
  <2>2. rank[0] < rank[i] /\ rank[i] <= rank[n] /\ rank[i] \in Nat /\ rank[n] \in Nat
    BY <1>3, <1>4, <2>1
  <2> QED
    BY <1>1, <1>4, <2>2
<1>6. \A x : x \in ToSet(z) <=> \E r \in 1..Len(z) : z[r] = x
  BY <1>1 DEF ToSet
<1>7. \A x : (\E r \in 1..Len(z) : z[r] = x) <=> \E i \in 1..n : i \notin gone /\ seq[i] = x
  <2> TAKE x
  <2>1. ASSUME NEW r \in 1..Len(z), z[r] = x PROVE \E i \in 1..n : i \notin gone /\ seq[i] = x
    <3>1. PICK i \in 1..n : i \notin gone /\ rank[i] = r
      BY <1>1, <1>3
    <3> QED
      BY <1>1, <2>1, <3>1
  <2>2. ASSUME NEW i \in 1..n, i \notin gone, seq[i] = x PROVE \E r \in 1..Len(z) : z[r] = x
    BY <1>1, <1>5, <2>2
  <2> QED
    BY <2>1, <2>2
<1> QED
  BY <1>6, <1>7 DEF z, n

LEMMA SetOf ==
    ASSUME NEW S, NEW seq \in Seq(S)
    PROVE  \A x : x \in ToSet(seq) <=> \E i \in 1..Len(seq) : seq[i] = x
BY DEF ToSet

LEMMA SetOfOne == \A x : ToSet(<<x>>) = {x}
<1> TAKE x
<1> DEFINE s == <<x>>
<1>1. DOMAIN s = {1} /\ s[1] = x
  OBVIOUS
<1> HIDE DEF s
<1>2. ToSet(s) = {x}
  BY <1>1 DEF ToSet
<1> QED
  BY <1>2 DEF s

LEMMA OneElement ==
    ASSUME NEW S, NEW seq \in Seq(S) \ {<<>>}, ~ (Len(seq) > 1)
    PROVE  Len(seq) = 1 /\ seq = <<seq[1]>>
<1>1. seq \in Seq(S) /\ Len(seq) \in Nat \ {0}
  BY EmptySeq
<1>2. Len(seq) = 1
  <2> DEFINE n == Len(seq)
  <2>1. n \in Nat \ {0} /\ ~ (n > 1)
    BY <1>1
  <2> HIDE DEF n
  <2>2. n = 1
    BY <2>1
  <2> QED
    BY <2>2 DEF n
<1>3. DOMAIN seq = 1..1 /\ seq = [i \in 1..1 |-> seq[i]]
  BY <1>1, <1>2
<1> DEFINE t == <<seq[1]>>
<1>0. t \in Seq(S) /\ Len(t) = 1 /\ t[1] = seq[1]
  BY <1>1, <1>2
<1> HIDE DEF t
<1>4. t = [i \in 1..1 |-> t[i]] /\ \A i \in 1..1 : t[i] = seq[i]
  BY <1>0
<1>5. seq = t
  BY <1>3, <1>4
<1> QED
  BY <1>2, <1>5 DEF t

LEMMA FrontmatterTagsAre ==
    ASSUME NEW fm \in Frontmatter \cup {None}
    PROVE  \/ fm = None /\ FrontmatterTags(fm) = {}
           \/ /\ fm # None /\ fm.style = "scalar" /\ fm.entries[1] \in Seq(Tag) \ {<<>>} /\ Len(fm.entries) = 1
              /\ \A x : x \in FrontmatterTags(fm) <=> \E u \in ToSet(fm.entries[1]) : x = <<u>>
           \/ /\ fm # None /\ fm.style = "sequence"
              /\ \A x : x \in FrontmatterTags(fm) <=> \E i \in 1..Len(fm.entries) : x = fm.entries[i]
<1>1. CASE fm = None
  BY <1>1 DEF FrontmatterTags
<1>2. CASE fm # None
  <2>1. /\ fm.style \in {"sequence", "scalar"} /\ fm.entries \in Seq(Seq(Tag) \ {<<>>})
        /\ fm.style = "scalar" => Len(fm.entries) = 1
    BY <1>2, FrontmatterIs
  <2>2. CASE fm.style = "scalar"
    <3>1. 1 \in 1..Len(fm.entries)
      <4>1. Len(fm.entries) = 1 /\ 1 \in 1..1
        BY <2>1, <2>2
      <4> QED
        BY <4>1, Zenon
    <3>2. fm.entries[1] \in Seq(Tag) \ {<<>>}
      BY <2>1, <3>1
    <3>3. FrontmatterTags(fm) = {<<u>> : u \in ToSet(fm.entries[1])}
      BY <1>2, <2>2 DEF FrontmatterTags
    <3>4. \A x : x \in FrontmatterTags(fm) <=> \E u \in ToSet(fm.entries[1]) : x = <<u>>
      BY <3>3
    <3> QED
      BY <1>2, <2>1, <2>2, <3>2, <3>4
  <2>3. CASE fm.style = "sequence"
    <3>1. FrontmatterTags(fm) = ToSet(fm.entries)
      BY <1>2, <2>3 DEF FrontmatterTags
    <3>2. \A x : x \in FrontmatterTags(fm) <=> \E i \in 1..Len(fm.entries) : fm.entries[i] = x
      BY <2>1, <3>1, SetOf
    <3> QED
      BY <1>2, <2>3, <3>2
  <2> QED
    BY <2>1, <2>2, <2>3
<1> QED
  BY <1>1, <1>2

LEMMA FrontmatterTagsRemoved ==
    ASSUME NEW t \in Tag, tags \in Frontmatter \cup {None}, RemoveTag(t),
           ~ (tags # None /\ tags.style = "scalar" /\ t \in ToSet(tags.entries[1]))
    PROVE  FrontmatterTags(tags') = FrontmatterTags(tags) \ {<<t>>}
<1>1. CASE tags = None
  <2>1. tags' = tags
    BY <1>1, RemovedTags
  <2> QED
    BY <1>1, <2>1 DEF FrontmatterTags
<1>2. CASE tags # None /\ tags.style = "scalar"
  <2>1. tags' = tags
    BY <1>2, RemovedTags
  <2>2. \A x : x \in FrontmatterTags(tags) <=> \E u \in ToSet(tags.entries[1]) : x = <<u>>
    BY <1>2, FrontmatterTagsAre
  <2>3. <<t>> \notin FrontmatterTags(tags)
    BY <1>2, <2>2, Names
  <2> QED
    BY <2>1, <2>3
<1>3. CASE tags # None /\ tags.style = "sequence"
  <2> DEFINE gone == {i \in DOMAIN tags.entries : tags.entries[i] = <<t>>}
             left == Dropping(tags.entries, gone)
  <2>1. tags' = [style |-> "sequence", entries |-> left] /\ tags' \in Frontmatter \cup {None}
    BY <1>3, RemovedTags
  <2>2. tags.entries \in Seq(Seq(Tag) \ {<<>>})
    BY <1>3, FrontmatterIs
  <2>3. \A i \in 1..Len(tags.entries) : i \in gone <=> tags.entries[i] = <<t>>
    BY <2>2
  <2> HIDE DEF gone
  <2>4. \A x : x \in ToSet(left) <=> \E i \in 1..Len(tags.entries) : i \notin gone /\ tags.entries[i] = x
    BY <2>2, DroppingSet
  <2> HIDE DEF left
  <2>5. \A x : x \in FrontmatterTags(tags) <=> \E i \in 1..Len(tags.entries) : x = tags.entries[i]
    BY <1>3, FrontmatterTagsAre
  <2>6. FrontmatterTags(tags') = ToSet(left)
    <3>1. tags'.style = "sequence" /\ tags'.entries = left
      BY <2>1
    <3>2. tags' # None
      <4>1. left \in Seq(Seq(Tag) \ {<<>>})
        BY <2>2, DroppingIs DEF left
      <4>2. tags' \in Frontmatter
        BY <2>1, <4>1, FrontmatterTypeOK
      <4> QED
        BY <4>2, TextConstants
    <3> QED
      BY <3>1, <3>2 DEF FrontmatterTags
  <2>7. \A x : x \in ToSet(left) <=> x \in FrontmatterTags(tags) /\ x # <<t>>
    BY <2>3, <2>4, <2>5
  <2> QED
    BY <2>6, <2>7
<1>4. tags # None => tags.style \in {"sequence", "scalar"}
  BY FrontmatterIs
<1> QED
  BY <1>1, <1>2, <1>3, <1>4

LEMMA FrontmatterTagsRenamed ==
    ASSUME NEW t \in Tag, NEW u \in Tag, tags \in Frontmatter \cup {None}, RenameTag(t, u), ~ Entry(tags, t)
    PROVE  FrontmatterTags(tags') = {Renaming(x, t, u) : x \in FrontmatterTags(tags)}
<1>1. CASE tags = None
  <2>1. tags' = None
    BY <1>1, RenamedTags
  <2> QED
    BY <1>1, <2>1 DEF FrontmatterTags
<1>2. CASE tags # None
  <2>1. /\ tags' \in Frontmatter \cup {None} /\ tags' # None /\ tags'.style = tags.style
        /\ tags'.entries = [i \in DOMAIN tags.entries |-> Renaming(tags.entries[i], t, u)]
    BY <1>2, RenamedTags
  <2>2. /\ tags.entries \in Seq(Seq(Tag) \ {<<>>}) /\ tags.style \in {"sequence", "scalar"}
        /\ tags'.entries \in Seq(Seq(Tag) \ {<<>>})
    BY <1>2, <2>1, FrontmatterIs
  <2>3. DOMAIN tags.entries = 1..Len(tags.entries) /\ Len(tags'.entries) = Len(tags.entries)
    <3>1. DOMAIN tags'.entries = DOMAIN tags.entries
      BY <2>1
    <3> QED
      BY <2>2, <3>1
  <2>4. \A i \in 1..Len(tags.entries) : tags'.entries[i] = Renaming(tags.entries[i], t, u)
    BY <2>1, <2>3
  <2>5. CASE tags.style = "sequence"
    <3>1. \A x : x \in FrontmatterTags(tags) <=> \E i \in 1..Len(tags.entries) : x = tags.entries[i]
      BY <1>2, <2>5, FrontmatterTagsAre
    <3>2. \A x : x \in FrontmatterTags(tags') <=> \E i \in 1..Len(tags.entries) : x = tags'.entries[i]
      BY <2>1, <2>3, <2>5, FrontmatterTagsAre
    <3>3. \A x : x \in FrontmatterTags(tags') <=> \E y \in FrontmatterTags(tags) : x = Renaming(y, t, u)
      BY <2>4, <3>1, <3>2
    <3> QED
      BY <3>3
  <2>6. CASE tags.style = "scalar"
    <3> DEFINE e == tags.entries[1]
               f == tags'.entries[1]
    <3>1. /\ e \in Seq(Tag) \ {<<>>} /\ Len(tags.entries) = 1
          /\ \A x : x \in FrontmatterTags(tags) <=> \E v \in ToSet(e) : x = <<v>>
      BY <1>2, <2>6, FrontmatterTagsAre
    <3>2. \A x : x \in FrontmatterTags(tags') <=> \E v \in ToSet(f) : x = <<v>>
      BY <2>1, <2>6, FrontmatterTagsAre
    <3>3. f = Renaming(e, t, u)
      BY <2>4, <3>1
    <3>4. ~ (Len(e) > 1 /\ t \in ToSet(e))
      BY <1>2, <2>6 DEF Entry
    <3> HIDE DEF e, f
    <3>5. CASE e = <<t>>
      <4>1. f = <<u>>
        BY <3>3, <3>5 DEF Renaming
      <4>2. ToSet(e) = {t} /\ ToSet(f) = {u}
        BY <3>5, <4>1, SetOfOne
      <4>3. FrontmatterTags(tags) = {<<t>>} /\ FrontmatterTags(tags') = {<<u>>}
        BY <3>1, <3>2, <4>2
      <4> QED
        BY <4>3 DEF Renaming
    <3>6. CASE e # <<t>>
      <4>1. t \notin ToSet(e)
        <5> SUFFICES ASSUME t \in ToSet(e) PROVE FALSE
          OBVIOUS
        <5>1. PICK i \in 1..Len(e) : e[i] = t
          BY <3>1, SetOf
        <5>2. Len(e) = 1 /\ e = <<e[1]>>
          <6>1. ~ (Len(e) > 1)
            BY <3>4
          <6> QED
            BY <3>1, <6>1, OneElement
        <5>3. e = <<t>>
          <6>1. i = 1
            BY <5>1, <5>2
          <6> QED
            BY <5>1, <5>2, <6>1, Zenon
        <5> QED
          BY <3>6, <5>3
      <4>2. FrontmatterTags(tags') = FrontmatterTags(tags)
        BY <3>1, <3>2, <3>3, <3>6 DEF Renaming
      <4>3. <<t>> \notin FrontmatterTags(tags)
        BY <3>1, <4>1, Names
      <4>4. \A x \in FrontmatterTags(tags) : Renaming(x, t, u) = x
        BY <4>3 DEF Renaming
      <4> QED
        BY <4>2, <4>4
    <3> QED
      BY <3>5, <3>6
  <2> QED
    BY <2>2, <2>5, <2>6
<1> QED
  BY <1>1, <1>2

LEMMA FrontmatterTagsAdded ==
    ASSUME NEW t \in Tag, tags \in Frontmatter \cup {None}, NEW fm, fm = AddToFrontmatter(tags, t)
    PROVE  \/ fm # tags /\ tags # None /\ Len(tags.entries) = 1 /\ Len(tags.entries[1]) > 1
           \/ FrontmatterTags(fm) = FrontmatterTags(tags) \cup {<<t>>}
<1> DEFINE entries == IF tags = None THEN <<>> ELSE tags.entries
           new == IF <<t>> \in ToSet(entries) THEN entries ELSE Append(entries, <<t>>)
<1>1. entries \in Seq(Seq(Tag) \ {<<>>})
  BY FrontmatterIs, EmptySeq
<1>2. fm = [style |-> "sequence", entries |-> new] /\ fm \in Frontmatter
  BY AddedTags DEF AddToFrontmatter
<1>3. fm # None
  BY <1>2, TextConstants
<1>4. (tags = None => entries = <<>>) /\ (tags # None => entries = tags.entries)
  OBVIOUS
<1> HIDE DEF entries
<1>5. \A x : x \in ToSet(new) <=> x \in ToSet(entries) \/ x = <<t>>
  <2>1. CASE <<t>> \in ToSet(entries)
    BY <2>1
  <2>2. CASE <<t>> \notin ToSet(entries)
    <3>1. new = Append(entries, <<t>>)
      BY <2>2
    <3>2. /\ new \in Seq(Seq(Tag) \ {<<>>}) /\ Len(new) = Len(entries) + 1
          /\ \A i \in 1..Len(entries) : new[i] = entries[i]
          /\ new[Len(entries) + 1] = <<t>> /\ Len(entries) \in Nat
      <4>1. <<t>> \in Seq(Tag) \ {<<>>}
        BY SingleEntry
      <4>2. Len(entries) \in Nat
        BY <1>1
      <4> HIDE DEF new
      <4> QED
        BY <1>1, <3>1, <4>1, <4>2, AppendProperties
    <3> HIDE DEF new
    <3>3. \A x : x \in ToSet(new) <=> \E i \in 1..Len(entries) + 1 : new[i] = x
      BY <3>2, SetOf
    <3>4. \A x : x \in ToSet(entries) <=> \E i \in 1..Len(entries) : entries[i] = x
      BY <1>1, SetOf
    <3>5. \A i : i \in 1..Len(entries) + 1 <=> i \in 1..Len(entries) \/ i = Len(entries) + 1
      BY <3>2
    <3> QED
      BY <3>2, <3>3, <3>4, <3>5
  <2> QED
    BY <2>1, <2>2
<1> HIDE DEF new
<1>6. FrontmatterTags(fm) = ToSet(new)
  BY <1>2, <1>3 DEF FrontmatterTags
<1>7. CASE tags = None
  <2>1. ToSet(entries) = {} /\ FrontmatterTags(tags) = {}
    BY <1>4, <1>7 DEF ToSet, FrontmatterTags
  <2> QED
    BY <1>5, <1>6, <2>1
<1>8. CASE tags # None /\ tags.style = "sequence"
  <2>1. FrontmatterTags(tags) = ToSet(entries)
    BY <1>4, <1>8 DEF FrontmatterTags
  <2> QED
    BY <1>5, <1>6, <2>1
<1>9. CASE tags # None /\ tags.style = "scalar"
  <2> DEFINE e == tags.entries[1]
  <2>1. /\ e \in Seq(Tag) \ {<<>>} /\ Len(tags.entries) = 1
        /\ \A x : x \in FrontmatterTags(tags) <=> \E u \in ToSet(e) : x = <<u>>
    BY <1>9, FrontmatterTagsAre
  <2>2. fm # tags
    BY <1>2, <1>9
  <2>3. ASSUME ~ (Len(e) > 1) PROVE FrontmatterTags(tags) = ToSet(entries)
    <3>1. Len(e) = 1 /\ e = <<e[1]>>
      <4> HIDE DEF e
      <4> QED
        BY <2>1, <2>3, OneElement
    <3>2. ToSet(entries) = {e}
      BY <1>1, <1>4, <1>9, <2>1 DEF ToSet
    <3>3. ToSet(e) = {e[1]}
      <4> HIDE DEF e
      <4>1. \A x : x \in ToSet(e) <=> \E i \in 1..Len(e) : e[i] = x
        BY <2>1, SetOf
      <4> QED
        BY <3>1, <4>1
    <3> HIDE DEF e
    <3> QED
      BY <2>1, <3>1, <3>2, <3>3
  <2> QED
    BY <1>5, <1>6, <1>9, <2>1, <2>2, <2>3
<1>10. tags # None => tags.style \in {"sequence", "scalar"}
  BY FrontmatterIs
<1> QED
  BY <1>7, <1>8, <1>9, <1>10

------------------------------------------------------------------------------
\* The tags of the body after an edit

LEMMA InlineTagsAre ==
    ASSUME NEW text \in Seq(NoteLine)
    PROVE  \A x : x \in InlineTags(text) <=>
                  \E i \in 1..Len(text) : IsProse(text, i) /\ x \in TagsOf(text[i].chars)
<1>1. DOMAIN text = 1..Len(text)
  OBVIOUS
<1> QED
  BY <1>1 DEF InlineTags

\* An edit of prose leaves code what it is.
LEMMA SameProse ==
    ASSUME NEW x \in Seq(NoteLine), NEW y \in Seq(NoteLine), Len(y) = Len(x),
           \A i \in 1..Len(x) : IF IsProse(x, i) THEN y[i].kind = "prose" ELSE y[i] = x[i]
    PROVE  \A i \in 1..Len(x) : IsProse(y, i) <=> IsProse(x, i)
<1> DEFINE n == Len(x)
<1>1. n \in Nat /\ 0 \in Nat /\ 0 + n <= Len(x) /\ 0 + n <= Len(y)
  OBVIOUS
<1>2. OpenAfter(x, 0) = OpenAfter(y, 0)
  BY OpenIs
<1>3. Alike(x, 0, y, 0, n)
  BY DEF IsProse, Alike
<1>4. OpenAlike(x, 0, y, 0, n)
  BY <1>1, <1>2, <1>3, SameFences
<1>5. ASSUME NEW i \in 1..n PROVE IsProse(y, i) <=> IsProse(x, i)
  <2>1. i - 1 \in 0..n /\ 0 + (i - 1) = i - 1
    BY <1>1
  <2>2. OpenAfter(x, i - 1) = OpenAfter(y, i - 1)
    BY <1>4, <2>1 DEF OpenAlike
  <2> QED
    BY <2>2 DEF IsProse, IsCode
<1> QED
  BY <1>5

LEMMA InlineTagsRemoved ==
    ASSUME NEW t \in Tag, lines \in Seq(NoteLine), RemoveTag(t),
           \A chars \in ProseOf(lines) : Apart(chars, t) /\ Clear(chars, t)
    PROVE  InlineTags(lines') = InlineTags(lines) \ {<<t>>}
<1>1. /\ lines' \in Seq(NoteLine) /\ Len(lines') = Len(lines)
      /\ \A i \in 1..Len(lines) :
            lines'[i] = IF IsProse(lines, i) THEN Line(Without(lines[i].chars, t)) ELSE lines[i]
  BY RemovedLines
<1>2. ASSUME NEW i \in 1..Len(lines), IsProse(lines, i)
      PROVE  lines'[i].kind = "prose" /\ TagsOf(lines'[i].chars) = TagsOf(lines[i].chars) \ {<<t>>}
  <2>1. lines[i] \in NoteLine /\ lines[i].kind = "prose" /\ i \in DOMAIN lines
    BY <1>2 DEF IsProse
  <2> DEFINE c == lines[i].chars
  <2>2. c \in Seq(Char) /\ Spaced(c)
    BY <2>1, ProseIs
  <2>3. c \in ProseOf(lines)
    BY <1>2, <2>1 DEF ProseOf
  <2>4. Apart(c, t) /\ Clear(c, t)
    BY <2>3
  <2> HIDE DEF c
  <2>5. Without(c, t) \in Seq(Char) /\ Line(Without(c, t)).kind = "prose"
    BY <2>2, <2>4, WithoutIs DEF Clear
  <2>6. Line(Without(c, t)) = [kind |-> "prose", chars |-> Without(c, t)]
    BY <2>5, LineIs
  <2>7. lines'[i] = Line(Without(c, t))
    BY <1>1, <1>2 DEF c
  <2>8. TagsOf(Without(c, t)) = TagsOf(c) \ {<<t>>}
    BY <2>2, <2>4, TagsWithout
  <2> QED
    BY <2>6, <2>7, <2>8 DEF c
<1>3. \A i \in 1..Len(lines) : IsProse(lines', i) <=> IsProse(lines, i)
  <2>1. \A i \in 1..Len(lines) : IF IsProse(lines, i) THEN lines'[i].kind = "prose" ELSE lines'[i] = lines[i]
    BY <1>1, <1>2
  <2> QED
    BY <1>1, <2>1, SameProse
<1>4. /\ \A x : x \in InlineTags(lines) <=>
                \E i \in 1..Len(lines) : IsProse(lines, i) /\ x \in TagsOf(lines[i].chars)
      /\ \A x : x \in InlineTags(lines') <=>
                \E i \in 1..Len(lines) : IsProse(lines', i) /\ x \in TagsOf(lines'[i].chars)
  BY <1>1, InlineTagsAre
<1>5. \A x : x \in InlineTags(lines') <=> x \in InlineTags(lines) /\ x # <<t>>
  BY <1>2, <1>3, <1>4
<1> QED
  BY <1>5

LEMMA InlineTagsRenamed ==
    ASSUME NEW t \in Tag, NEW u \in Tag, lines \in Seq(NoteLine), RenameTag(t, u),
           \A chars \in ProseOf(lines) : Apart(chars, t)
    PROVE  InlineTags(lines') = {Renaming(x, t, u) : x \in InlineTags(lines)}
<1>1. /\ lines' \in Seq(NoteLine) /\ Len(lines') = Len(lines)
      /\ \A i \in 1..Len(lines) :
            lines'[i] = IF IsProse(lines, i) THEN Line(Renamed(lines[i].chars, t, u)) ELSE lines[i]
  BY RenamedLines
<1>2. ASSUME NEW i \in 1..Len(lines), IsProse(lines, i)
      PROVE  /\ lines'[i].kind = "prose"
             /\ TagsOf(lines'[i].chars) = {Renaming(x, t, u) : x \in TagsOf(lines[i].chars)}
  <2>1. lines[i] \in NoteLine /\ lines[i].kind = "prose" /\ i \in DOMAIN lines
    BY <1>2 DEF IsProse
  <2> DEFINE c == lines[i].chars
  <2>2. c \in Seq(Char) /\ Spaced(c) /\ Line(c) = lines[i]
    BY <2>1, ProseIs
  <2>3. c \in ProseOf(lines)
    BY <1>2, <2>1 DEF ProseOf
  <2>4. Apart(c, t)
    BY <2>3
  <2>5. Line(c).kind = "prose"
    BY <2>1, <2>2
  <2> HIDE DEF c
  <2>6. Renamed(c, t, u) \in Seq(Char) /\ Line(Renamed(c, t, u)).kind = "prose"
    <3>1. RenamesTo(c, Renamed(c, t, u), t, u)
      BY <2>2, RenamedIs
    <3> QED
      BY <2>5, <3>1 DEF RenamesTo
  <2>7. Line(Renamed(c, t, u)) = [kind |-> "prose", chars |-> Renamed(c, t, u)]
    BY <2>6, LineIs
  <2>8. lines'[i] = Line(Renamed(c, t, u))
    BY <1>1, <1>2 DEF c
  <2>9. TagsOf(Renamed(c, t, u)) = {Renaming(x, t, u) : x \in TagsOf(c)}
    BY <2>2, <2>4, TagsRenamed
  <2> QED
    BY <2>7, <2>8, <2>9 DEF c
<1>3. \A i \in 1..Len(lines) : IsProse(lines', i) <=> IsProse(lines, i)
  <2>1. \A i \in 1..Len(lines) : IF IsProse(lines, i) THEN lines'[i].kind = "prose" ELSE lines'[i] = lines[i]
    BY <1>1, <1>2
  <2> QED
    BY <1>1, <2>1, SameProse
<1>4. /\ \A x : x \in InlineTags(lines) <=>
                \E i \in 1..Len(lines) : IsProse(lines, i) /\ x \in TagsOf(lines[i].chars)
      /\ \A x : x \in InlineTags(lines') <=>
                \E i \in 1..Len(lines) : IsProse(lines', i) /\ x \in TagsOf(lines'[i].chars)
  BY <1>1, InlineTagsAre
<1>5. \A x : x \in InlineTags(lines') <=> \E y \in InlineTags(lines) : x = Renaming(y, t, u)
  <2> TAKE x
  <2>1. ASSUME x \in InlineTags(lines') PROVE \E y \in InlineTags(lines) : x = Renaming(y, t, u)
    <3>1. PICK i \in 1..Len(lines) : IsProse(lines, i) /\ x \in TagsOf(lines'[i].chars)
      BY <1>3, <1>4, <2>1
    <3>2. PICK y \in TagsOf(lines[i].chars) : x = Renaming(y, t, u)
      BY <1>2, <3>1
    <3> QED
      BY <1>4, <3>1, <3>2
  <2>2. ASSUME NEW y \in InlineTags(lines), x = Renaming(y, t, u) PROVE x \in InlineTags(lines')
    <3>1. PICK i \in 1..Len(lines) : IsProse(lines, i) /\ y \in TagsOf(lines[i].chars)
      BY <1>4
    <3>2. x \in TagsOf(lines'[i].chars)
      BY <1>2, <2>2, <3>1
    <3> QED
      BY <1>3, <1>4, <3>1, <3>2
  <2> QED
    BY <2>1, <2>2
<1> QED
  BY <1>5

LEMMA InlineTagsAdded ==
    ASSUME NEW t \in Tag, lines \in Seq(NoteLine), OpenAfter(lines, Len(lines)) = None,
           NEW text, text = Append(lines, [kind |-> "prose", chars |-> <<t>>])
    PROVE  InlineTags(text) = InlineTags(lines) \cup {<<t>>}
<1> DEFINE l == [kind |-> "prose", chars |-> <<t>>]
           n == Len(lines)
           c == <<t>>
<1>1. l \in NoteLine /\ l.kind = "prose" /\ l.chars = c /\ n \in Nat
  BY TagLine
<1>2. c \in Seq(Char) /\ Len(c) = 1 /\ c[1] = t /\ DOMAIN c = 1..1
  BY Characters
<1> HIDE DEF l, n, c
<1>3. TagsOf(c) = {c}
  <2>1. PICK scan : Scans(scan, c) /\ Hidden(c) = scan[1].hidden
    BY <1>2, HiddenIs
  <2>2. scan[0] = [next |-> 1, hidden |-> {}] /\ scan[1] = CodeStep(c, scan[0], 1)
    <3>1. 1 \in 1..1 /\ 1 - 1 = 0
      OBVIOUS
    <3> QED
      BY <1>2, <2>1, <3>1 DEF Scans
  <2>3. scan[1] = scan[0]
    BY <1>2, <2>2, CodeSteps, Characters
  <2>4. Hidden(c) = {}
    BY <2>1, <2>2, <2>3
  <2>5. ~ BeforeLetter(c, 1) /\ ~ FollowsLetter(c, 1)
    BY <1>2 DEF BeforeLetter, FollowsLetter
  <2>6. Shown(c) = {1}
    BY <1>2, <2>4, <2>5 DEF Shown
  <2>7. Name(c, 1) = c
    BY <1>2, <2>5 DEF Name, c
  <2> QED
    BY <2>6, <2>7, TagsOfIs
<1>4. /\ text \in Seq(NoteLine) /\ Len(text) = n + 1
      /\ \A i \in 1..n : text[i] = lines[i]
      /\ text[n + 1] = l
  <2>1. text = Append(lines, l)
    BY DEF l
  <2> QED
    BY <1>1, <2>1, AppendProperties DEF n
<1>5. \A i \in 0..n : OpenAfter(text, i) = OpenAfter(lines, i)
  <2>1. n <= Len(text) /\ n <= Len(lines) /\ \A i \in 1..n : text[i] = lines[i]
    BY <1>1, <1>4 DEF n
  <2> QED
    BY <1>1, <1>4, <2>1, SameBeginning
<1>6. \A i \in 1..n : IsProse(text, i) <=> IsProse(lines, i)
  <2> TAKE i \in 1..n
  <2>1. i - 1 \in 0..n
    BY <1>1
  <2> QED
    BY <1>4, <1>5, <2>1 DEF IsProse, IsCode
<1>7. IsProse(text, n + 1)
  <2>1. (n + 1) - 1 = n /\ n \in 0..n
    BY <1>1
  <2>2. OpenAfter(text, n) = None
    BY <1>5, <2>1 DEF n
  <2> QED
    BY <1>1, <1>4, <2>1, <2>2 DEF IsProse, IsCode
<1>8. /\ \A x : x \in InlineTags(lines) <=>
                \E i \in 1..n : IsProse(lines, i) /\ x \in TagsOf(lines[i].chars)
      /\ \A x : x \in InlineTags(text) <=>
                \E i \in 1..n + 1 : IsProse(text, i) /\ x \in TagsOf(text[i].chars)
  BY <1>4, InlineTagsAre DEF n
<1>9. \A i : i \in 1..n + 1 <=> i \in 1..n \/ i = n + 1
  BY <1>1
<1>10. \A x : x \in TagsOf(text[n + 1].chars) <=> x = c
  BY <1>1, <1>3, <1>4
<1>11. \A x : x \in InlineTags(text) <=> x \in InlineTags(lines) \/ x = c
  BY <1>4, <1>6, <1>7, <1>8, <1>9, <1>10
<1>12. InlineTags(text) = InlineTags(lines) \cup {c}
  BY <1>11
<1> QED
  BY <1>12 DEF c

------------------------------------------------------------------------------
\* The edits of tags and the list of tags

LEMMA ListedIs ==
    Listed = FrontmatterTags(tags) \cup InlineTags(lines)
    /\ Listed' = FrontmatterTags(tags') \cup InlineTags(lines')
BY DEF Listed, ListTags

\* A tag that has been added is listed, and the rest of the list is what it was.
LEMMA AddsAreListed ==
    ASSUME TypeOK, [Next]_vars, last'.call = "add", calls' # calls
    PROVE  \/ tags' # tags /\ tags # None /\ Len(tags.entries) = 1 /\ Len(tags.entries[1]) > 1
           \/ lines' # lines /\ OpenAfter(lines, Len(lines)) # None
           \/ Listed' = Listed \cup {<<last'.tag>>}
<1>1. PICK t \in Tag : AddTag(t) /\ last'.tag = t
  BY CallIs
<1>2. tags \in Frontmatter \cup {None} /\ lines \in Seq(NoteLine)
  BY DEF TypeOK
<1>3. CASE tags' = AddToFrontmatter(tags, t) /\ UNCHANGED lines
  <2>1. \/ tags' # tags /\ tags # None /\ Len(tags.entries) = 1 /\ Len(tags.entries[1]) > 1
        \/ FrontmatterTags(tags') = FrontmatterTags(tags) \cup {<<t>>}
    BY <1>2, <1>3, FrontmatterTagsAdded
  <2> QED
    BY <1>1, <1>3, <2>1, ListedIs
<1>4. CASE lines' = Append(lines, [kind |-> "prose", chars |-> <<t>>]) /\ UNCHANGED tags
  <2>1. lines' # lines
    <3>1. [kind |-> "prose", chars |-> <<t>>] \in NoteLine
      BY TagLine
    <3>2. Len(lines') = Len(lines) + 1 /\ Len(lines) \in Nat
      BY <1>2, <1>4, <3>1, AppendProperties
    <3> QED
      BY <3>2
  <2>2. OpenAfter(lines, Len(lines)) = None => InlineTags(lines') = InlineTags(lines) \cup {<<t>>}
    BY <1>2, <1>4, InlineTagsAdded
  <2> QED
    BY <1>1, <1>4, <2>1, <2>2, ListedIs
<1> QED
  BY <1>1, <1>3, <1>4 DEF AddTag

\* A tag that has been removed is not listed, and the rest of the list is what it was.
LEMMA RemovalsAreGone ==
    ASSUME TypeOK, [Next]_vars, last'.call = "remove", calls' # calls
    PROVE  LET t == last'.tag
           IN  \/ \E chars \in ProseOf(lines) : ~ Apart(chars, t) \/ ~ Clear(chars, t)
               \/ tags # None /\ tags.style = "scalar" /\ t \in ToSet(tags.entries[1])
               \/ Listed' = Listed \ {<<t>>}
<1>1. PICK t \in Tag : RemoveTag(t) /\ last'.tag = t
  BY CallIs
<1>2. tags \in Frontmatter \cup {None} /\ lines \in Seq(NoteLine)
  BY DEF TypeOK
<1>3. ASSUME \A chars \in ProseOf(lines) : Apart(chars, t) /\ Clear(chars, t),
             ~ (tags # None /\ tags.style = "scalar" /\ t \in ToSet(tags.entries[1]))
      PROVE  Listed' = Listed \ {<<t>>}
  <2>1. InlineTags(lines') = InlineTags(lines) \ {<<t>>}
    BY <1>1, <1>2, <1>3, InlineTagsRemoved
  <2>2. FrontmatterTags(tags') = FrontmatterTags(tags) \ {<<t>>}
    BY <1>1, <1>2, <1>3, FrontmatterTagsRemoved
  <2> QED
    BY <2>1, <2>2, ListedIs
<1> QED
  BY <1>1, <1>3

\* A tag that has been renamed is listed under its new name, and the rest of the list is
\* what it was.
LEMMA RenamingsAreListed ==
    ASSUME TypeOK, [Next]_vars, last'.call = "rename", calls' # calls
    PROVE  LET t == last'.tag
           IN  \/ \E chars \in ProseOf(lines) : ~ Apart(chars, t)
               \/ Entry(tags, t)
               \/ Listed' = {IF x = <<t>> THEN <<last'.new>> ELSE x : x \in Listed}
<1>1. PICK t \in Tag, u \in Tag : RenameTag(t, u) /\ last'.tag = t /\ last'.new = u
  BY CallIs
<1>2. tags \in Frontmatter \cup {None} /\ lines \in Seq(NoteLine)
  BY DEF TypeOK
<1>3. ASSUME \A chars \in ProseOf(lines) : Apart(chars, t), ~ Entry(tags, t)
      PROVE  Listed' = {IF x = <<t>> THEN <<u>> ELSE x : x \in Listed}
  <2>1. InlineTags(lines') = {Renaming(x, t, u) : x \in InlineTags(lines)}
    BY <1>1, <1>2, <1>3, InlineTagsRenamed
  <2>2. FrontmatterTags(tags') = {Renaming(x, t, u) : x \in FrontmatterTags(tags)}
    BY <1>1, <1>2, <1>3, FrontmatterTagsRenamed
  <2>3. Listed' = {Renaming(x, t, u) : x \in Listed}
    BY <2>1, <2>2, ListedIs
  <2> QED
    BY <2>3 DEF Renaming
<1> QED
  BY <1>1, <1>3

\* Adding, removing and renaming a tag and the list of the tags agree on what a tag is,
\* in notes of any length with any tags, but for the cases that the property names:
\* tags one character apart, tags at backticks and behind wide characters, and scalars.
THEOREM TagEditsAreListedAlways == Spec => TagEditsAreListed
<1> DEFINE Added ==
               last'.call = "add" /\ calls' # calls =>
                 \/ tags' # tags /\ tags # None /\ Len(tags.entries) = 1 /\ Len(tags.entries[1]) > 1
                 \/ lines' # lines /\ OpenAfter(lines, Len(lines)) # None
                 \/ Listed' = Listed \cup {<<last'.tag>>}
           Removed ==
               last'.call = "remove" /\ calls' # calls =>
                 LET t == last'.tag
                 IN  \/ \E chars \in ProseOf(lines) : ~ Apart(chars, t) \/ ~ Clear(chars, t)
                     \/ tags # None /\ tags.style = "scalar" /\ t \in ToSet(tags.entries[1])
                     \/ Listed' = Listed \ {<<t>>}
           Listing ==
               last'.call = "rename" /\ calls' # calls =>
                 LET t == last'.tag
                 IN  \/ \E chars \in ProseOf(lines) : ~ Apart(chars, t)
                     \/ Entry(tags, t)
                     \/ Listed' = {IF x = <<t>> THEN <<last'.new>> ELSE x : x \in Listed}
<1>1. TypeOK /\ [Next]_vars => [Added]_vars /\ [Removed]_vars /\ [Listing]_vars
  <2> SUFFICES ASSUME TypeOK, [Next]_vars PROVE Added /\ Removed /\ Listing
    OBVIOUS
  <2>1. Added
    BY AddsAreListed
  <2>2. Removed
    BY RemovalsAreGone
  <2>3. Listing
    BY RenamingsAreListed
  <2> QED
    BY <2>1, <2>2, <2>3
<1>2. Spec => AddedTagsAreListed
  BY <1>1, TypeCorrect, PTL DEF Spec, AddedTagsAreListed
<1>3. Spec => RemovedTagsAreGone
  BY <1>1, TypeCorrect, PTL DEF Spec, RemovedTagsAreGone
<1>4. Spec => RenamedTagsAreListed
  BY <1>1, TypeCorrect, PTL DEF Spec, RenamedTagsAreListed
<1> QED
  BY <1>2, <1>3, <1>4 DEF TagEditsAreListed

------------------------------------------------------------------------------
\* The lines around a patch

\* Content that closes what it opens, put where no code block is open, leaves code code
\* and prose prose; at the end of a text it may stand in an open block.
LEMMA SpliceIsLocal ==
    ASSUME NEW text \in Seq(NoteLine), NEW c \in Seq(NoteLine), NEW a \in 0..Len(text), NEW b \in a..Len(text),
           OpenAfter(c, Len(c)) = None,
           b < Len(text) => OpenAfter(text, a) = None /\ OpenAfter(text, b) = None
    PROVE  /\ \A i \in 1..a :
                 Spliced(text, a, c, b)[i] = text[i] /\ (IsCode(Spliced(text, a, c, b), i) <=> IsCode(text, i))
           /\ \A i \in b + 1..Len(text) :
                 LET j == i + Len(c) - (b - a)
                 IN  Spliced(text, a, c, b)[j] = text[i] /\ (IsCode(Spliced(text, a, c, b), j) <=> IsCode(text, i))
<1> DEFINE n == Len(text)
           m == Len(c)
           z == Spliced(text, a, c, b)
           k == n - b
           d == a + m
<1>1. n \in Nat /\ m \in Nat /\ a \in Nat /\ b \in Nat /\ a <= b /\ b <= n /\ k \in Nat /\ d \in Nat
  OBVIOUS
<1>2. /\ z \in Seq(NoteLine) /\ Len(z) = d + k
      /\ \A i \in 1..a : z[i] = text[i]
      /\ \A i \in 1..m : z[a + i] = c[i]
      /\ \A i \in 1..k : z[d + i] = text[b + i]
  <2> DEFINE y == Spliced(text, a, c, b)
  <2>1. /\ y \in Seq(NoteLine) /\ Len(y) = a + Len(c) + (Len(text) - b)
        /\ \A i \in 1..a : y[i] = text[i]
        /\ \A i \in 1..Len(c) : y[a + i] = c[i]
        /\ \A i \in 1..Len(text) - b : y[(a + Len(c)) + i] = text[b + i]
    <3>1. IsSplice(y, NoteLine, text, a, c, b)
      BY SpliceIs
    <3> HIDE DEF y
    <3> QED
      BY <3>1 DEF IsSplice
  <2>2. Len(y) = d + k
    BY <1>1, <2>1
  <2> QED
    BY <2>1, <2>2
<1> HIDE DEF n, m, z
<1>3. \A i \in 0..a : OpenAfter(z, i) = OpenAfter(text, i)
  <2>1. a <= Len(z) /\ a <= Len(text)
    BY <1>1, <1>2 DEF n
  <2> QED
    BY <1>1, <1>2, <2>1, SameBeginning
<1>4. ASSUME NEW i \in 1..a PROVE z[i] = text[i] /\ (IsCode(z, i) <=> IsCode(text, i))
  <2>1. i - 1 \in 0..a
    BY <1>1
  <2> QED
    BY <1>2, <1>3, <2>1 DEF IsCode
<1>5. ASSUME b < n PROVE \A i \in 0..k : OpenAfter(z, d + i) = OpenAfter(text, b + i)
  <2>1. OpenAfter(z, a + 0) = None /\ OpenAfter(c, 0) = None
    <3>1. a \in 0..a /\ a + 0 = a
      BY <1>1
    <3> QED
      BY <1>3, <1>5, <3>1, OpenIs DEF n
  <2>2. OpenAfter(z, d) = None
    <3> DEFINE o == 0
    <3>1. o \in Nat /\ o + m = m /\ a + o = a /\ o + m <= Len(c) /\ a + m <= Len(z)
      BY <1>1, <1>2 DEF m
    <3>2. OpenAfter(z, a) = OpenAfter(c, o)
      BY <1>1, <2>1
    <3> HIDE DEF o
    <3>3. Alike(z, a, c, o, m)
      <4>1. \A i \in 1..m : z[a + i] = c[o + i]
        <5> TAKE i \in 1..m
        <5>1. o + i = i
          BY <1>1, <3>1 DEF o
        <5> QED
          BY <1>2, <5>1
      <4> QED
        BY <4>1 DEF Alike
    <3>4. OpenAlike(z, a, c, o, m)
      <4>1. z \in Seq(NoteLine) /\ m \in Nat /\ a \in Nat /\ o \in Nat /\ o + m <= Len(c) /\ a + m <= Len(z)
        BY <1>1, <1>2, <3>1
      <4> QED
        BY ONLY <4>1, c \in Seq(NoteLine), <3>2, <3>3, SameFences
    <3>5. OpenAfter(z, a + m) = OpenAfter(c, o + m)
      <4>1. m \in 0..m
        BY <1>1
      <4> QED
        BY <3>4, <4>1 DEF OpenAlike
    <3> QED
      BY <3>1, <3>5 DEF m
  <2>3. OpenAfter(z, d) = OpenAfter(text, b)
    BY <1>5, <2>2 DEF n
  <2>4. d + k <= Len(z) /\ b + k <= Len(text)
    BY <1>1, <1>2 DEF n
  <2>5. Alike(z, d, text, b, k)
    BY <1>2 DEF Alike
  <2>6. z \in Seq(NoteLine) /\ k \in Nat /\ d \in Nat /\ b \in Nat
    BY <1>1, <1>2
  <2> HIDE DEF k, d
  <2> QED
    <3>1. OpenAlike(z, d, text, b, k)
      BY ONLY <2>3, <2>4, <2>5, <2>6, text \in Seq(NoteLine), SameFences
    <3> QED
      BY <3>1 DEF OpenAlike
<1>6. ASSUME NEW i \in b + 1..n
      PROVE  z[i + m - (b - a)] = text[i] /\ (IsCode(z, i + m - (b - a)) <=> IsCode(text, i))
  <2> DEFINE q == i - b
  <2>1. /\ q \in 1..k /\ q - 1 \in 0..k /\ b < n
        /\ i + m - (b - a) = d + q /\ i = b + q
        /\ (d + q) - 1 = d + (q - 1) /\ (b + q) - 1 = b + (q - 1)
    BY <1>1
  <2>2. z[d + q] = text[b + q] /\ OpenAfter(z, d + (q - 1)) = OpenAfter(text, b + (q - 1))
    BY <1>2, <1>5, <2>1
  <2> HIDE DEF q, k, d
  <2> QED
    BY <2>1, <2>2 DEF IsCode
<1> QED
  BY <1>4, <1>6 DEF n, m, z

\* No code block is open before or after a heading that is not code.
LEMMA HeadingsClose ==
    ASSUME NEW text \in Seq(NoteLine), NEW i \in 1..Len(text), IsHeading(text, i), ~ IsCode(text, i)
    PROVE  OpenAfter(text, i - 1) = None /\ OpenAfter(text, i) = None
<1>1. OpenAfter(text, i - 1) = None
  BY DEF IsCode
<1>2. OpenAfter(text, i) = FenceStep(None, text[i])
  BY <1>1, OpenIs
<1> QED
  BY <1>1, <1>2 DEF FenceStep, IsHeading

\* A patch cuts where no code block is open, unless it cuts at the end.
LEMMA CutsAreOutsideCode ==
    ASSUME NEW text \in Seq(NoteLine), NEW at \in 1..Len(text), IsHeading(text, at),
           \A i \in Outline(text) : ~ IsCode(text, i), NEW p \in Position
    PROVE  LET e == SectionEnd(text, at)
           IN  Stop(p, at, e) < Len(text) =>
                  OpenAfter(text, Cut(p, at, e)) = None /\ OpenAfter(text, Stop(p, at, e)) = None
<1> DEFINE e == SectionEnd(text, at)
           n == Len(text)
<1>1. n \in Nat /\ at \in 1..n
  OBVIOUS
<1>2. e \in at..n /\ (e < n => IsHeading(text, e + 1))
  BY SectionIs
<1>3. \A i \in 1..n : IsHeading(text, i) => OpenAfter(text, i - 1) = None /\ OpenAfter(text, i) = None
  BY HeadingsClose DEF Outline
<1>4. OpenAfter(text, at - 1) = None /\ OpenAfter(text, at) = None
  BY <1>3
<1>5. e < n => OpenAfter(text, e) = None
  <2> SUFFICES ASSUME e < n PROVE OpenAfter(text, e) = None
    OBVIOUS
  <2> HIDE DEF e
  <2>1. e + 1 \in 1..n /\ (e + 1) - 1 = e /\ IsHeading(text, e + 1)
    BY <1>1, <1>2
  <2> QED
    BY <1>3, <2>1
<1> HIDE DEF e, n
<1>6. CASE p = "before"
  BY <1>4, <1>6 DEF Cut, Stop, e, n
<1>7. CASE p = "after"
  BY <1>5, <1>7 DEF Cut, Stop, e, n
<1>8. CASE p = "replace_body"
  BY <1>4, <1>5, <1>8 DEF Cut, Stop, e, n
<1> QED
  BY <1>6, <1>7, <1>8 DEF Position

\* z is the text with the content put in after the cut for the lines that are gone.
Local(text, z, content, cut, gone) ==
    LET new == Len(content)
    IN  /\ Len(z) = Len(text) - gone + new
        /\ SubSeq(z, cut + 1, cut + new) = content
        /\ \A i \in DOMAIN text :
              LET j == IF i <= cut THEN i ELSE i + new - gone
              IN  i \in (cut + 1)..(cut + gone)
                  \/ (z[j] = text[i] /\ (IsCode(z, j) <=> IsCode(text, i)))

LEMMA SpliceLeaves ==
    ASSUME NEW text \in Seq(NoteLine), NEW c \in Seq(NoteLine), NEW a \in 0..Len(text), NEW b \in a..Len(text),
           OpenAfter(c, Len(c)) = None,
           b < Len(text) => OpenAfter(text, a) = None /\ OpenAfter(text, b) = None
    PROVE  Local(text, Spliced(text, a, c, b), c, a, b - a)
<1> DEFINE n == Len(text)
           m == Len(c)
           z == Spliced(text, a, c, b)
<1>1. n \in Nat /\ m \in Nat /\ a \in Nat /\ b \in Nat /\ a <= b /\ b <= n /\ DOMAIN text = 1..n
  OBVIOUS
<1>2. /\ z \in Seq(NoteLine) /\ Len(z) = a + m + (n - b)
      /\ \A i \in 1..m : z[a + i] = c[i]
  <2> DEFINE y == Spliced(text, a, c, b)
  <2>1. /\ y \in Seq(NoteLine) /\ Len(y) = a + Len(c) + (Len(text) - b)
        /\ \A i \in 1..Len(c) : y[a + i] = c[i]
    <3>1. IsSplice(y, NoteLine, text, a, c, b)
      BY SpliceIs
    <3> HIDE DEF y
    <3> QED
      BY <3>1 DEF IsSplice
  <2> QED
    BY <2>1
<1>3. /\ \A i \in 1..a : z[i] = text[i] /\ (IsCode(z, i) <=> IsCode(text, i))
      /\ \A i \in b + 1..n :
            z[i + m - (b - a)] = text[i] /\ (IsCode(z, i + m - (b - a)) <=> IsCode(text, i))
  BY SpliceIsLocal
<1> HIDE DEF n, m, z
<1>4. Len(z) = n - (b - a) + m
  BY <1>1, <1>2
<1>5. SubSeq(z, a + 1, a + m) = c
  <2> DEFINE u == a + 1
             v == a + m
             s == SubSeq(z, u, v)
  <2>1. /\ u \in Int /\ v \in Int /\ v <= Len(z)
        /\ (IF u <= v THEN v - u + 1 ELSE 0) = m /\ v - u + 1 = m
    BY <1>1, <1>2
  <2>2. \A i \in u..v : z[i] \in NoteLine
    BY <1>1, <1>2, <2>1
  <2>3. s \in Seq(NoteLine) /\ Len(s) = m /\ \A i \in 1..m : s[i] = z[u + i - 1]
    <3> HIDE DEF u, v
    <3>1. /\ s \in Seq(NoteLine)
          /\ Len(s) = IF u <= v THEN v - u + 1 ELSE 0
          /\ \A i \in 1..v - u + 1 : s[i] = z[u + i - 1]
      BY ONLY <2>1, <2>2, SubSeqProperties
    <3> HIDE DEF s
    <3> QED
      BY <2>1, <3>1
  <2>4. \A i \in 1..m : u + i - 1 = a + i
    BY <1>1
  <2>5. \A i \in 1..m : s[i] = c[i]
    BY <1>2, <2>3, <2>4
  <2> HIDE DEF s
  <2>6. s = c
    BY <2>3, <2>5, SeqEqual DEF m
  <2> QED
    BY <2>6 DEF s
<1>6. ASSUME NEW i \in 1..n
      PROVE  LET j == IF i <= a THEN i ELSE i + m - (b - a)
             IN  i \in (a + 1)..(a + (b - a)) \/ (z[j] = text[i] /\ (IsCode(z, j) <=> IsCode(text, i)))
  <2>1. CASE i <= a
    <3>1. i \in 1..a
      BY <1>1, <2>1
    <3> QED
      BY <1>3, <2>1, <3>1
  <2>2. CASE b < i
    <3>1. i \in b + 1..n /\ ~ (i <= a)
      BY <1>1, <2>2
    <3> QED
      BY <1>3, <3>1
  <2>3. CASE a < i /\ i <= b
    BY <1>1, <2>3
  <2> QED
    BY <1>1, <2>1, <2>2, <2>3
<1> QED
  BY <1>1, <1>4, <1>5, <1>6 DEF Local, n, m, z

LEMMA PatchesStayLocal ==
    ASSUME TypeOK, [Next]_vars, last'.call = "patch", calls' # calls,
           \A i \in Outline(lines) : ~ IsCode(lines, i),
           OpenAfter(last'.content, Len(last'.content)) = None
    PROVE  LET at   == last'.at
               body == Under(lines, at)
               gone == IF last'.position = "replace_body" THEN Cardinality(body) ELSE 0
               cut  == CASE last'.position = "before" -> at - 1
                         [] last'.position = "after" -> at + Cardinality(body)
                         [] last'.position = "replace_body" -> at
           IN  Local(lines, lines', last'.content, cut, gone)
<1>1. PICK h, p, c : p \in Position /\ c \in Contents /\ PatchNote(h, p, c)
  BY CallIs
<1>2. lines \in Seq(NoteLine) /\ c \in Seq(NoteLine)
  BY <1>1, TextConstants DEF TypeOK
<1>3. PICK at \in 1..Len(lines) :
        /\ IsHeading(lines, at)
        /\ last' = [call |-> "patch", at |-> at, end |-> SectionEnd(lines, at), position |-> p, content |-> c]
        /\ lines' = Spliced(lines, Cut(p, at, SectionEnd(lines, at)), c, Stop(p, at, SectionEnd(lines, at)))
  BY <1>1, <1>2, PatchIs
<1> DEFINE n == Len(lines)
           e == SectionEnd(lines, at)
           k == Cardinality(Under(lines, at))
           a == Cut(p, at, e)
           b == Stop(p, at, e)
<1>4. last'.at = at /\ last'.position = p /\ last'.content = c
  BY <1>3
<1>5. n \in Nat /\ at \in 1..n /\ e \in at..n /\ k = e - at
  BY <1>2, <1>3, SectionIs
<1>6. a \in 0..n /\ b \in a..n
  <2> HIDE DEF n, e
  <2> QED
    BY <1>1, <1>5, CutsAre
<1>7. b < n => OpenAfter(lines, a) = None /\ OpenAfter(lines, b) = None
  BY <1>1, <1>2, <1>3, CutsAreOutsideCode
<1>8. OpenAfter(c, Len(c)) = None
  BY <1>4
<1> HIDE DEF e, k
<1>9. Local(lines, lines', c, a, b - a)
  <2>1. lines' = Spliced(lines, a, c, b)
    BY <1>3 DEF e
  <2> HIDE DEF a, b
  <2>2. Local(lines, Spliced(lines, a, c, b), c, a, b - a)
    BY <1>2, <1>6, <1>7, <1>8, SpliceLeaves
  <2> QED
    BY <2>1, <2>2
<1> HIDE DEF n
<1>10. /\ a = CASE p = "before" -> at - 1 [] p = "after" -> at + k [] p = "replace_body" -> at
       /\ b - a = IF p = "replace_body" THEN k ELSE 0
  <2>1. CASE p = "before"
    BY <1>5, <2>1 DEF Cut, Stop
  <2>2. CASE p = "after"
    BY <1>5, <2>2 DEF Cut, Stop
  <2>3. CASE p = "replace_body"
    BY <1>5, <2>3 DEF Cut, Stop
  <2> QED
    BY <1>1, <2>1, <2>2, <2>3 DEF Position
<1> HIDE DEF a, b
<1> QED
  BY <1>4, <1>9, <1>10 DEF k

\* A patch puts its content where it says, in notes and with contents of any length, and
\* every line it does not replace stays what it was, code or prose, where no line of a
\* code block looks like a heading and the content closes the code blocks it opens.
THEOREM PatchesAreLocalAlways == Spec => PatchesAreLocal
<1>1. TypeOK /\ [Next]_vars =>
        [/\ last'.call = "patch" /\ calls' # calls
         /\ \A i \in Outline(lines) : ~ IsCode(lines, i)
         /\ OpenAfter(last'.content, Len(last'.content)) = None
         => LET at   == last'.at
                body == Under(lines, at)
                gone == IF last'.position = "replace_body" THEN Cardinality(body) ELSE 0
                cut  == CASE last'.position = "before" -> at - 1
                          [] last'.position = "after" -> at + Cardinality(body)
                          [] last'.position = "replace_body" -> at
                new  == Len(last'.content)
            IN  /\ Len(lines') = Len(lines) - gone + new
                /\ SubSeq(lines', cut + 1, cut + new) = last'.content
                /\ \A i \in DOMAIN lines :
                      LET j == IF i <= cut THEN i ELSE i + new - gone
                      IN  i \in (cut + 1)..(cut + gone)
                          \/ (lines'[j] = lines[i] /\ (IsCode(lines', j) <=> IsCode(lines, i)))]_vars
  BY PatchesStayLocal DEF Local
<1> QED
  BY <1>1, TypeCorrect, PTL DEF Spec, PatchesAreLocal
===============================================================================
