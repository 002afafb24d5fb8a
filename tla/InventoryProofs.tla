--------------------------- MODULE InventoryProofs ---------------------------
(***************************************************************************)
(* Proofs about Inventory, for every value of its constants. What the      *)
(* parser makes of a listing is proved by induction over its lines.        *)
(***************************************************************************)
EXTENDS Inventory, FiniteSetTheorems, WellFoundedInduction, SequenceTheorems, TLAPS

-----------------------------------------------------------------------------
(* Numbers and finite sets.                                                *)

\* Induction up to a bound, with a set for the predicate: the set 0..k of a least
\* counterexample is minimal among those of all counterexamples.
LEMMA Induct ==
    ASSUME NEW n \in Nat, NEW S, 0 \in S, \A k \in 0..n - 1 : k \in S => k + 1 \in S
    PROVE  \A k \in 0..n : k \in S
<1> DEFINE W == {0..k : k \in (0..n) \ S}
           R == StrictSubsetOrdering(0..n)
<1> SUFFICES ASSUME W # {} PROVE FALSE
  OBVIOUS
<1>1. IsWellFoundedOn(R, FiniteSubsetsOf(0..n))
  BY FS_StrictSubsetOrderingWellFounded
<1>2. W \subseteq FiniteSubsetsOf(0..n)
  <2> SUFFICES ASSUME NEW k \in 0..n PROVE 0..k \in FiniteSubsetsOf(0..n)
    OBVIOUS
  <2> QED
    BY FS_Interval DEF FiniteSubsetsOf
<1> HIDE DEF W, R
<1>3. PICK w \in W : \A v \in W : <<v, w>> \notin R
  BY <1>1, <1>2, WFMin
<1>4. PICK k \in (0..n) \ S : w = 0..k
  BY DEF W
<1>5. k # 0 /\ k - 1 \in 0..n - 1
  BY <1>4
<1>6. k - 1 \notin S
  BY <1>4, <1>5
<1>7. 0..k - 1 \in W
  BY <1>5, <1>6 DEF W
<1>8. <<0..k - 1, w>> \in R
  BY <1>4, <1>5 DEF R, StrictSubsetOrdering
<1> QED
  BY <1>3, <1>7, <1>8

\* A set of numbers that is not empty has a least member.
LEMMA Least ==
    ASSUME NEW S, S \subseteq Nat, S # {}
    PROVE  \E k \in S : \A j \in S : k <= j
<1> SUFFICES ASSUME \A k \in S : \E j \in S : j < k PROVE FALSE
  OBVIOUS
<1>1. PICK n \in S : TRUE
  OBVIOUS
<1> DEFINE T == {k \in Nat : \A j \in 0..k : j \notin S}
<1>2. 0 \in T
  OBVIOUS
<1>3. \A k \in 0..n - 1 : k \in T => k + 1 \in T
  <2> SUFFICES ASSUME NEW k \in 0..n - 1, k \in T, k + 1 \in S PROVE FALSE
    OBVIOUS
  <2> PICK j \in S : j < k + 1
    OBVIOUS
  <2> QED
    OBVIOUS
<1> HIDE DEF T
<1>4. n \in Nat
  BY <1>1
<1>5. \A k \in 0..n : k \in T
  BY <1>2, <1>3, <1>4, Induct
<1> QED
  BY <1>1, <1>4, <1>5 DEF T

\* One below a bound has a greatest member.
LEMMA Greatest ==
    ASSUME NEW n \in Nat, NEW S, S \subseteq 0..n, S # {}
    PROVE  \E k \in S : \A j \in S : j <= k
<1> DEFINE T == {n - k : k \in S}
<1>1. T \subseteq Nat /\ T # {}
  <2>1. \A k \in S : n - k \in Nat
    OBVIOUS
  <2> QED
    BY <2>1
<1> HIDE DEF T
<1>2. PICK t \in T : \A j \in T : t <= j
  BY <1>1, Least
<1>3. PICK k \in S : t = n - k
  BY DEF T
<1>4. \A j \in S : n - k <= n - j
  BY <1>2, <1>3 DEF T
<1> QED
  BY <1>4

\* A finite set has at most one member exactly if no two of its members differ.
LEMMA AtMostOneMember ==
    ASSUME NEW S, IsFiniteSet(S)
    PROVE  Cardinality(S) \in Nat /\ (Cardinality(S) > 1 <=> \E x, y \in S : x # y)
<1>1. Cardinality(S) \in Nat
  BY FS_CardinalityType
<1>2. ASSUME NEW x \in S, NEW y \in S, x # y PROVE Cardinality(S) > 1
  <2>1. IsFiniteSet({x}) /\ Cardinality({x}) = 1
    BY FS_Singleton
  <2>2. {x} \in SUBSET S /\ {x} # S
    BY <1>2
  <2>3. Cardinality({x}) <= Cardinality(S) /\ Cardinality(S) # Cardinality({x})
    BY <2>2, FS_Subset
  <2> QED
    BY <1>1, <2>1, <2>3
<1>3. ASSUME Cardinality(S) > 1 PROVE \E x, y \in S : x # y
  <2>1. S # {}
    BY <1>3, FS_EmptySet
  <2>2. PICK x \in S : TRUE
    BY <2>1
  <2>3. S # {x}
    BY <1>3, FS_Singleton
  <2> QED
    BY <2>2, <2>3
<1> QED
  BY <1>1, <1>2, <1>3

\* In a strict order, a member of a finite set has a number of members below it, and
\* fewer than those above it have.
Ranks(S, R) == \A x, y \in S : /\ <<x, x>> \notin R
                               /\ x # y => <<x, y>> \in R \/ <<y, x>> \in R
                               /\ \A z \in S : <<x, y>> \in R /\ <<y, z>> \in R => <<x, z>> \in R
Below(S, R, x)  == {y \in S : <<y, x>> \in R}
Height(S, R, x) == Cardinality(Below(S, R, x))
LEMMA Heights ==
    ASSUME NEW S, NEW R, IsFiniteSet(S), Ranks(S, R)
    PROVE  /\ \A x \in S : Height(S, R, x) \in 0..Cardinality(S) - 1
           /\ \A x, y \in S : Height(S, R, y) < Height(S, R, x) => <<y, x>> \in R
           /\ \A x, y \in S : Height(S, R, x) = Height(S, R, y) => x = y
<1>1. \A x \in S : /\ IsFiniteSet(Below(S, R, x)) /\ Height(S, R, x) \in Nat
                  /\ Height(S, R, x) < Cardinality(S)
  <2> SUFFICES ASSUME NEW x \in S
               PROVE  /\ IsFiniteSet(Below(S, R, x)) /\ Height(S, R, x) \in Nat
                      /\ Height(S, R, x) < Cardinality(S)
    OBVIOUS
  <2>1. Below(S, R, x) \in SUBSET S /\ Below(S, R, x) # S
    BY DEF Ranks, Below
  <2>2. /\ IsFiniteSet(Below(S, R, x)) /\ Height(S, R, x) <= Cardinality(S)
        /\ Height(S, R, x) # Cardinality(S)
    BY <2>1, FS_Subset DEF Height
  <2> QED
    BY <2>2, FS_CardinalityType DEF Height
<1>2. \A x, y \in S : <<y, x>> \in R => Height(S, R, y) < Height(S, R, x)
  <2> SUFFICES ASSUME NEW x \in S, NEW y \in S, <<y, x>> \in R
               PROVE Height(S, R, y) < Height(S, R, x)
    OBVIOUS
  <2>1. Below(S, R, y) \in SUBSET Below(S, R, x) /\ Below(S, R, y) # Below(S, R, x)
    BY DEF Ranks, Below
  <2>2. Height(S, R, y) <= Height(S, R, x) /\ Height(S, R, y) # Height(S, R, x)
    BY <1>1, <2>1, FS_Subset DEF Height
  <2> QED
    BY <1>1, <2>2
<1>3. ASSUME NEW x \in S, NEW y \in S, x # y PROVE <<x, y>> \in R \/ <<y, x>> \in R
  BY <1>3 DEF Ranks
<1>4. ASSUME NEW x \in S, NEW y \in S, Height(S, R, y) < Height(S, R, x) PROVE <<y, x>> \in R
  <2>1. Height(S, R, x) \in Nat /\ Height(S, R, y) \in Nat
    BY <1>1
  <2>2. x # y /\ <<x, y>> \notin R
    BY <1>2, <1>4, <2>1
  <2> QED
    BY <1>3, <2>2
<1>5. ASSUME NEW x \in S, NEW y \in S, Height(S, R, x) = Height(S, R, y) PROVE x = y
  <2>1. Height(S, R, x) \in Nat /\ Height(S, R, y) \in Nat
    BY <1>1
  <2>2. <<x, y>> \notin R /\ <<y, x>> \notin R
    BY <1>2, <1>5, <2>1
  <2> QED
    BY <1>3, <2>2
<1> QED
  BY <1>1, <1>4, <1>5, FS_CardinalityType

\* So every height is taken.
LEMMA HeightsTaken ==
    ASSUME NEW S, NEW R, IsFiniteSet(S), Ranks(S, R), NEW n \in 1..Cardinality(S)
    PROVE  \E x \in S : Height(S, R, x) = n - 1
<1> DEFINE rank == [x \in S |-> Height(S, R, x) + 1]
           C == Cardinality(S)
<1>1. C \in Nat
  BY FS_CardinalityType
<1>2. \A x \in S : Height(S, R, x) \in 0..C - 1
  BY Heights
<1> HIDE DEF C
<1>3. rank \in [S -> 1..C]
  BY <1>1, <1>2
<1>4. \A x, y \in S : Height(S, R, x) = Height(S, R, y) => x = y
  BY Heights
<1>5. rank \in Injection(S, 1..C)
  BY <1>2, <1>3, <1>4 DEF Injection, IsInjective
<1>6. IsFiniteSet(1..C) /\ Cardinality(1..C) = C
  BY <1>1, FS_Interval
<1>7. rank \in Surjection(S, 1..C)
  BY <1>5, <1>6, FS_Injection DEF C
<1>8. PICK x \in S : rank[x] = n
  BY <1>7 DEF Surjection, C
<1> QED
  BY <1>2, <1>8

\* InOrder lists each member of a finite set once, in the order R.
LEMMA InOrderLists ==
    ASSUME NEW S, NEW R, IsFiniteSet(S), Ranks(S, R)
    PROVE  /\ DOMAIN InOrder(S, R) = 1..Cardinality(S) /\ Cardinality(S) \in Nat
           /\ \A n \in 1..Cardinality(S) : InOrder(S, R)[n] \in S
           /\ \A x \in S : \E n \in 1..Cardinality(S) : InOrder(S, R)[n] = x
           /\ \A m, n \in 1..Cardinality(S) :
                  m < n => <<InOrder(S, R)[m], InOrder(S, R)[n]>> \in R
<1> DEFINE C == Cardinality(S)
           L == InOrder(S, R)
<1>1. C \in Nat
  BY FS_CardinalityType
<1>2. DOMAIN L = 1..C /\ \A n \in 1..C : L[n] = CHOOSE x \in S : Height(S, R, x) = n - 1
  BY DEF InOrder, Height, Below
<1>3. \A n \in 1..C : \E x \in S : Height(S, R, x) = n - 1
  BY HeightsTaken
<1>4. \A x \in S : Height(S, R, x) \in 0..C - 1
  BY Heights
<1> HIDE DEF C, L
<1>5. \A x, y \in S : Height(S, R, x) < Height(S, R, y) => <<x, y>> \in R
  BY Heights
<1>6. \A x, y \in S : Height(S, R, x) = Height(S, R, y) => x = y
  BY Heights
<1>7. \A n \in 1..C : L[n] \in S /\ Height(S, R, L[n]) = n - 1
  <2> SUFFICES ASSUME NEW n \in 1..C PROVE L[n] \in S /\ Height(S, R, L[n]) = n - 1
    OBVIOUS
  <2>1. \E x \in S : Height(S, R, x) = n - 1
    BY <1>3
  <2>2. L[n] = CHOOSE x \in S : Height(S, R, x) = n - 1
    BY <1>2
  <2> QED
    BY <2>1, <2>2
<1>8. \A x \in S : \E n \in 1..C : L[n] = x
  <2> SUFFICES ASSUME NEW x \in S PROVE \E n \in 1..C : L[n] = x
    OBVIOUS
  <2>1. Height(S, R, x) + 1 \in 1..C
    BY <1>1, <1>4
  <2>2. L[Height(S, R, x) + 1] \in S /\ Height(S, R, L[Height(S, R, x) + 1]) = Height(S, R, x)
    BY <1>4, <1>7, <2>1
  <2> QED
    BY <1>6, <2>1, <2>2
<1>9. \A m, n \in 1..C : m < n => <<L[m], L[n]>> \in R
  BY <1>1, <1>5, <1>7
<1> QED
  BY <1>1, <1>2, <1>7, <1>8, <1>9 DEF C, L

\* A step for each number up to n can be iterated.
Iterated(f, n, P, base, step) ==
    /\ f \in [0..n -> P] /\ f[0] = base
    /\ \A k \in 1..n : f[k] = step[k][f[k - 1]]
LEMMA Iterate ==
    ASSUME NEW n \in Nat, NEW P, NEW base, base \in P, NEW step, step \in [1..n -> [P -> P]]
    PROVE  \E f : Iterated(f, n, P, base, step)
<1> DEFINE T == {m \in 0..n : \E f : Iterated(f, m, P, base, step)}
<1>1. 0 \in T
  <2>1. Iterated([k \in 0..0 |-> base], 0, P, base, step)
    BY DEF Iterated
  <2>2. 0 \in 0..n
    OBVIOUS
  <2> QED
    BY <2>1, <2>2
<1>2. ASSUME NEW m \in 0..n - 1, m \in T PROVE m + 1 \in T
  <2>1. PICK f : Iterated(f, m, P, base, step)
    BY <1>2
  <2> DEFINE g == [k \in 0..m + 1 |-> IF k <= m THEN f[k] ELSE step[m + 1][f[m]]]
  <2>2. f[m] \in P /\ step[m + 1] \in [P -> P]
    BY <2>1 DEF Iterated
  <2>3. step[m + 1][f[m]] \in P
    BY <2>2
  <2>4. \A k \in 0..m : g[k] = f[k]
    OBVIOUS
  <2>5. g[m + 1] = step[m + 1][f[m]]
    OBVIOUS
  <2>6. g \in [0..m + 1 -> P]
    BY <2>1, <2>3 DEF Iterated
  <2> HIDE DEF g
  <2>7. ASSUME NEW k \in 1..m + 1 PROVE g[k] = step[k][g[k - 1]]
    <3>1. CASE k <= m
      <4>1. k \in 0..m /\ k - 1 \in 0..m /\ k \in 1..m
        BY <3>1
      <4> QED
        BY <2>1, <2>4, <4>1 DEF Iterated
    <3>2. CASE k = m + 1
      BY <2>4, <2>5, <3>2
    <3> QED
      BY <3>1, <3>2
  <2>8. g[0] = base
    BY <2>1, <2>4 DEF Iterated
  <2>9. Iterated(g, m + 1, P, base, step)
    BY <2>6, <2>7, <2>8 DEF Iterated
  <2>10. m + 1 \in 0..n
    OBVIOUS
  <2> QED
    BY <2>9, <2>10
<1>3. \A k \in 0..n : k \in T
  <2> HIDE DEF T
  <2> QED
    BY <1>1, <1>2, Induct
<1> QED
  BY <1>3

-----------------------------------------------------------------------------
(* The parser: its recursion, and what it reads at every line.             *)

Parser == [dir : Dirs \cup {None}, expect : BOOLEAN, after : BOOLEAN, entries : Seq(Entry),
           issues : Nat, number : Nat]

\* What each kind of line is read as.
LEMMA ParseLineCases ==
    ASSUME NEW p, NEW l \in Lines
    PROVE  /\ l = Broken => ParseLine(p, l) = BrokenLine(Numbered(p))
           /\ l = Blank => ParseLine(p, l) = BlankLine(Numbered(p))
           /\ l \in Texts => ParseLine(p, l) = IF p.expect THEN HeaderLine(Numbered(p), l)
                                             ELSE EntryLine(Numbered(p), l)
BY TextAssumption DEF ParseLine, IsHeader

\* Each of them leaves a parser on the same line.
LEMMA LineTypes ==
    ASSUME NEW p \in Parser, NEW l
    PROVE  /\ BrokenLine(p) \in Parser /\ BrokenLine(p).number = p.number
           /\ BlankLine(p) \in Parser /\ BlankLine(p).number = p.number
           /\ l \in Texts => HeaderLine(p, l) \in Parser /\ HeaderLine(p, l).number = p.number
           /\ l \in Texts => EntryLine(p, l) \in Parser /\ EntryLine(p, l).number = p.number
<1>0. /\ p.dir \in Dirs \cup {None} /\ p.expect \in BOOLEAN /\ p.after \in BOOLEAN
      /\ p.entries \in Seq(Entry) /\ p.issues \in Nat /\ p.number \in Nat
  BY DEF Parser
<1>1. BrokenLine(p) \in Parser /\ BrokenLine(p).number = p.number
  <2> DEFINE d == IF p.expect THEN None ELSE p.dir
  <2>1. d \in Dirs \cup {None} /\ p.issues + 1 \in Nat
    BY <1>0
  <2>2. BrokenLine(p) = [p EXCEPT !.issues = @ + 1, !.dir = d, !.expect = FALSE]
    BY DEF BrokenLine
  <2> HIDE DEF d
  <2> QED
    BY <1>0, <2>1, <2>2 DEF Parser
<1>2. BlankLine(p) \in Parser /\ BlankLine(p).number = p.number
  BY DEF Parser, BlankLine
<1>3. ASSUME l \in Texts PROVE HeaderLine(p, l) \in Parser /\ HeaderLine(p, l).number = p.number
  <2> DEFINE i == IF HeadOf[l] = None THEN p.issues + 1 ELSE p.issues
             a == HeadOf[l] # None
             h == HeadOf[l]
  <2>1. h \in Dirs \cup {None} /\ i \in Nat /\ a \in BOOLEAN
    BY <1>0, <1>3 DEF Dirs
  <2>2. HeaderLine(p, l) = [p EXCEPT !.dir = h, !.expect = FALSE, !.after = a, !.issues = i]
    BY DEF HeaderLine
  <2> HIDE DEF h, i, a
  <2> QED
    BY <1>0, <2>1, <2>2 DEF Parser
<1>4. ASSUME l \in Texts PROVE EntryLine(p, l) \in Parser /\ EntryLine(p, l).number = p.number
  <2>1. CASE EntryOf[l] # None /\ p.dir # None
    <3> DEFINE e == [line |-> p.number, size |-> EntryOf[l].size, name |-> EntryOf[l].name,
                     path |-> p.dir \o EntryOf[l].name]
               es == IF EntryOf[l].kind = "d" THEN p.entries ELSE Append(p.entries, e)
    <3>1. p.dir \in Dirs /\ EntryOf[l].name \in Names
      BY <1>0, <1>4, <2>1 DEF Names
    <3>2. e \in Entry
      <4>1. p.dir \o EntryOf[l].name \in DOMAIN Form
        BY <3>1, TextAssumption
      <4> QED
        BY <1>0, <1>4, <2>1, <3>1, <4>1 DEF Entry
    <3>3. EntryLine(p, l) = [p EXCEPT !.after = FALSE, !.entries = es]
      BY <2>1 DEF EntryLine
    <3> HIDE DEF e
    <3>4. es \in Seq(Entry)
      BY <1>0, <3>2
    <3> HIDE DEF es
    <3> QED
      BY <1>0, <3>3, <3>4 DEF Parser
  <2>2. CASE EntryOf[l] = None \/ p.dir = None
    <3>1. EntryLine(p, l) = [p EXCEPT !.after = FALSE, !.issues = @ + 1]
      BY <2>2 DEF EntryLine
    <3>2. p.issues + 1 \in Nat
      BY <1>0
    <3> QED
      BY <1>0, <3>1, <3>2 DEF Parser
  <2> QED
    BY <2>1, <2>2
<1> QED
  BY <1>1, <1>2, <1>3, <1>4

\* A line changes the parser into a parser, one line on.
LEMMA ParseLineType ==
    ASSUME NEW p \in Parser, NEW l \in Lines
    PROVE  /\ Numbered(p) \in Parser
           /\ ParseLine(p, l) \in Parser /\ ParseLine(p, l).number = p.number + 1
<1>1. Numbered(p) \in Parser /\ Numbered(p).number = p.number + 1
  BY DEF Parser, Numbered
<1> QED
  BY <1>1, LineTypes, ParseLineCases DEF Lines

\* The parser takes a step at every line.
LEMMA StatesStep ==
    ASSUME NEW text \in Seq(Lines)
    PROVE  /\ States(text) \in [0..Len(text) -> Parser]
           /\ States(text)[0] = Start
           /\ \A n \in 1..Len(text) : States(text)[n] = ParseLine(States(text)[n - 1], text[n])
<1> DEFINE L == Len(text)
           step == [n \in 1..L |-> [p \in Parser |-> ParseLine(p, text[n])]]
           F(f, n) == IF n = 0 THEN Start ELSE ParseLine(f[n - 1], text[n])
<1>1. L \in Nat /\ \A n \in 1..L : text[n] \in Lines
  OBVIOUS
<1>2. Start \in Parser
  BY DEF Start, Parser
<1>3. step \in [1..L -> [Parser -> Parser]]
  BY <1>1, ParseLineType
<1>4. \A n \in 1..L, p \in Parser : step[n][p] = ParseLine(p, text[n])
  OBVIOUS
<1> HIDE DEF L, step
<1>5. PICK f : Iterated(f, L, Parser, Start, step)
  BY <1>1, <1>2, <1>3, Iterate
<1>6. \A n \in 0..L : f[n] = F(f, n)
  <2> TAKE n \in 0..L
  <2>1. CASE n = 0
    BY <1>5, <2>1 DEF Iterated
  <2>2. CASE n # 0
    <3>1. n \in 1..L /\ n - 1 \in 0..L
      BY <1>1, <2>2
    <3>2. f[n - 1] \in Parser
      BY <1>5, <3>1 DEF Iterated
    <3> QED
      BY <1>4, <1>5, <2>2, <3>1, <3>2 DEF Iterated
  <2> QED
    BY <2>1, <2>2
<1>7. f = [n \in 0..L |-> F(f, n)]
  <2> HIDE DEF F
  <2> QED
    BY <1>5, <1>6 DEF Iterated
<1>8. States(text) = CHOOSE g : g = [n \in 0..L |-> F(g, n)]
  BY DEF States, L
<1>9. States(text) = [n \in 0..L |-> F(States(text), n)]
  <2> HIDE DEF F
  <2> QED
    BY <1>7, <1>8
<1>10. States(text)[0] = Start
  BY <1>1, <1>9
<1>11. ASSUME NEW n \in 1..L PROVE States(text)[n] = ParseLine(States(text)[n - 1], text[n])
  <2>1. n \in 0..L /\ n # 0
    BY <1>1
  <2>2. States(text)[n] = F(States(text), n)
    <3> HIDE DEF F
    <3> QED
      BY <1>9, <2>1
  <2> QED
    BY <2>1, <2>2
<1> DEFINE T == {n \in 0..L : States(text)[n] \in Parser}
<1>12. \A n \in 0..L : n \in T
  <2>1. 0 \in T
    BY <1>1, <1>2, <1>10
  <2>2. ASSUME NEW n \in 0..L - 1, n \in T PROVE n + 1 \in T
    <3>1. n + 1 \in 1..L /\ n + 1 \in 0..L /\ (n + 1) - 1 = n
      BY <1>1
    <3>2. States(text)[n + 1] = ParseLine(States(text)[n], text[n + 1])
      BY <1>11, <3>1
    <3> QED
      BY <1>1, <2>2, <3>1, <3>2, ParseLineType
  <2> HIDE DEF T
  <2> QED
    BY <1>1, <2>1, <2>2, Induct
<1>13. States(text) \in [0..L -> Parser]
  BY <1>9, <1>12
<1> QED
  BY <1>10, <1>11, <1>13 DEF L

-----------------------------------------------------------------------------
(* Where headers stand.                                                    *)

\* The last line up to n that is not empty, if there is one.
Above(text, n) == {j \in 1..n : text[j] # Blank}
LastOf(S) == CHOOSE j \in S : \A i \in S : i <= j
LEMMA LastIs ==
    ASSUME NEW n \in Nat, NEW S, S \subseteq 0..n, S # {}
    PROVE  /\ LastOf(S) \in S /\ \A j \in S : j <= LastOf(S)
           /\ \A k \in S : (\A j \in S : j <= k) => LastOf(S) = k
<1>1. \E k \in S : \A j \in S : j <= k
  BY Greatest
<1>2. LastOf(S) \in S /\ \A j \in S : j <= LastOf(S)
  BY <1>1 DEF LastOf
<1>3. ASSUME NEW k \in S, \A j \in S : j <= k PROVE LastOf(S) = k
  <2>1. LastOf(S) <= k /\ k <= LastOf(S)
    BY <1>2, <1>3
  <2>2. LastOf(S) \in 0..n /\ k \in 0..n
    BY <1>2
  <2> QED
    BY <2>1, <2>2
<1> QED
  BY <1>2, <1>3

LEMMA OpensIs ==
    ASSUME NEW text, NEW n, NEW H
    PROVE  Opens(text, n, H) <=>
               \/ Above(text, n) = {}
               \/ /\ LastOf(Above(text, n)) < n
                  /\ ~(/\ LastOf(Above(text, n)) = n - 1 /\ LastOf(Above(text, n)) \in H
                       /\ Named(text[LastOf(Above(text, n))]))
BY DEF Opens, Above, LastOf

\* Whether a header may follow depends on the headers above only.
LEMMA OpensLocal ==
    ASSUME NEW text, NEW n \in Nat, NEW H, NEW K, \A j \in 1..n : j \in H <=> j \in K
    PROVE  Opens(text, n, H) <=> Opens(text, n, K)
<1>1. CASE Above(text, n) = {}
  BY <1>1, OpensIs
<1>2. CASE Above(text, n) # {}
  <2>1. LastOf(Above(text, n)) \in 1..n
    <3>1. Above(text, n) \subseteq 0..n
      BY DEF Above
    <3>2. LastOf(Above(text, n)) \in Above(text, n)
      BY <1>2, <3>1, LastIs
    <3> QED
      BY <3>2 DEF Above
  <2> QED
    BY <2>1, OpensIs
<1> QED
  BY <1>1, <1>2

\* The next line is a header or it is not.
Headed(text, n, H) == H \cup {k \in {n} : text[k] # Blank /\ Opens(text, k - 1, H)}
LEMMA HeadersStep ==
    ASSUME NEW text \in Seq(Lines)
    PROVE  /\ HeadersUpTo(text)[0] = {}
           /\ \A n \in 1..Len(text) :
                  HeadersUpTo(text)[n] = Headed(text, n, HeadersUpTo(text)[n - 1])
<1> DEFINE L == Len(text)
           step == [n \in 1..L |-> [H \in SUBSET Nat |-> Headed(text, n, H)]]
           F(f, n) == IF n = 0 THEN {} ELSE Headed(text, n, f[n - 1])
<1>1. L \in Nat
  OBVIOUS
<1>2. {} \in SUBSET Nat
  OBVIOUS
<1>3. step \in [1..L -> [SUBSET Nat -> SUBSET Nat]]
  <2>1. \A n \in 1..L, H \in SUBSET Nat : Headed(text, n, H) \in SUBSET Nat
    <3> TAKE n \in 1..L, H \in SUBSET Nat
    <3>1. {n} \subseteq Nat
      BY <1>1
    <3> QED
      BY <3>1 DEF Headed
  <2> HIDE DEF L
  <2> QED
    BY <2>1
<1>4. \A n \in 1..L, H \in SUBSET Nat : step[n][H] = Headed(text, n, H)
  OBVIOUS
<1> HIDE DEF L, step
<1>5. PICK f : Iterated(f, L, SUBSET Nat, {}, step)
  BY <1>1, <1>2, <1>3, Iterate
<1>6. \A n \in 0..L : f[n] = F(f, n)
  <2> TAKE n \in 0..L
  <2>1. CASE n = 0
    BY <1>5, <2>1 DEF Iterated
  <2>2. CASE n # 0
    <3>1. n \in 1..L /\ n - 1 \in 0..L
      BY <1>1, <2>2
    <3>2. f[n - 1] \in SUBSET Nat
      BY <1>5, <3>1 DEF Iterated
    <3> QED
      BY <1>4, <1>5, <2>2, <3>1, <3>2 DEF Iterated
  <2> QED
    BY <2>1, <2>2
<1>7. f = [n \in 0..L |-> F(f, n)]
  <2> HIDE DEF F
  <2> QED
    BY <1>5, <1>6 DEF Iterated
<1>8. HeadersUpTo(text) = CHOOSE g : g = [n \in 0..L |-> F(g, n)]
  BY DEF HeadersUpTo, L, Headed
<1>9. HeadersUpTo(text) = [n \in 0..L |-> F(HeadersUpTo(text), n)]
  <2> HIDE DEF F
  <2> QED
    BY <1>7, <1>8
<1>10. ASSUME NEW n \in 0..L PROVE HeadersUpTo(text)[n] = F(HeadersUpTo(text), n)
  <2> HIDE DEF F
  <2> QED
    BY <1>9
<1>11. HeadersUpTo(text)[0] = {}
  BY <1>1, <1>10
<1>12. ASSUME NEW n \in 1..L
       PROVE  HeadersUpTo(text)[n] = Headed(text, n, HeadersUpTo(text)[n - 1])
  <2>1. n \in 0..L /\ n # 0
    BY <1>1
  <2> QED
    BY <1>10, <2>1
<1> QED
  BY <1>11, <1>12 DEF L

\* So a line is a header exactly if it is not empty and a header may stand there.
LEMMA HeadersAre ==
    ASSUME NEW text \in Seq(Lines)
    PROVE  /\ Headers(text) \subseteq 1..Len(text)
           /\ \A k \in 1..Len(text) :
                  k \in Headers(text) <=> text[k] # Blank /\ Opens(text, k - 1, Headers(text))
<1> DEFINE L == Len(text)
           H == HeadersUpTo(text)
           Right(n) == /\ H[n] \subseteq 1..n
                       /\ \A k \in 1..n : k \in H[n] <=> text[k] # Blank /\ Opens(text, k - 1, H[n])
           T == {n \in 0..L : Right(n)}
<1>1. L \in Nat /\ H[0] = {} /\ \A n \in 1..L : H[n] = Headed(text, n, H[n - 1])
  BY HeadersStep
<1> HIDE DEF L, H
<1>2. 0 \in T
  BY <1>1
<1>3. ASSUME NEW n \in 0..L - 1, n \in T PROVE n + 1 \in T
  <2>1. n \in Nat /\ n + 1 \in 1..L /\ n + 1 \in 0..L /\ (n + 1) - 1 = n
    BY <1>1
  <2>2. H[n + 1] = Headed(text, n + 1, H[n])
    BY <1>1, <2>1
  <2>3. Right(n)
    BY <1>3
  <2>4. \A k : k \in H[n + 1] <=> \/ k \in H[n]
                                  \/ k = n + 1 /\ text[k] # Blank /\ Opens(text, k - 1, H[n])
    BY <2>2 DEF Headed
  <2>5. \A k \in 1..n : k \in H[n + 1] <=> k \in H[n]
    BY <2>1, <2>4
  <2>6. H[n + 1] \subseteq 1..n + 1
    BY <2>1, <2>3, <2>4
  <2>7. ASSUME NEW k \in 1..n + 1
        PROVE  k \in H[n + 1] <=> text[k] # Blank /\ Opens(text, k - 1, H[n + 1])
    <3>1. k - 1 \in Nat /\ \A j \in 1..k - 1 : j \in H[n] <=> j \in H[n + 1]
      BY <2>1, <2>5
    <3>2. Opens(text, k - 1, H[n]) <=> Opens(text, k - 1, H[n + 1])
      BY <3>1, OpensLocal
    <3>3. CASE k \in 1..n
      BY <2>3, <2>5, <3>2, <3>3
    <3>4. CASE k = n + 1
      <4>1. k \notin H[n]
        BY <2>1, <2>3, <3>4
      <4> QED
        BY <2>4, <3>2, <3>4, <4>1
    <3> QED
      BY <2>1, <3>3, <3>4
  <2> QED
    BY <2>1, <2>6, <2>7
<1>4. \A n \in 0..L : n \in T
  <2> HIDE DEF T
  <2> QED
    BY <1>1, <1>2, <1>3, Induct
<1>5. Right(L)
  BY <1>1, <1>4
<1> QED
  BY <1>5 DEF Headers, L, H

\* The first line that is not empty is a header.
LEMMA HeaderAbove ==
    ASSUME NEW text \in Seq(Lines), NEW k \in 1..Len(text), text[k] # Blank
    PROVE  \E h \in Headers(text) : h <= k
<1> DEFINE S == Above(text, k)
<1>1. S \subseteq Nat /\ k \in S
  BY DEF Above
<1>2. PICK h \in S : \A j \in S : h <= j
  <2> HIDE DEF S
  <2> QED
    BY <1>1, Least
<1>3. h \in 1..k /\ h \in 1..Len(text) /\ text[h] # Blank
  BY DEF Above
<1>4. Above(text, h - 1) = {}
  <2> SUFFICES ASSUME NEW j \in 1..h - 1, text[j] # Blank PROVE FALSE
    BY DEF Above
  <2>1. j \in S
    BY <1>3 DEF Above
  <2> QED
    BY <1>2, <1>3, <2>1
<1>5. Opens(text, h - 1, Headers(text))
  BY <1>4, OpensIs
<1>6. h \in Headers(text)
  BY <1>3, <1>5, HeadersAre
<1> QED
  BY <1>3, <1>6

\* The header an entry belongs to.
LEMMA HeaderOfIs ==
    ASSUME NEW text \in Seq(Lines), NEW k \in 1..Len(text), text[k] # Blank, k \notin Headers(text)
    PROVE  /\ HeaderOf(text, k) \in Headers(text) /\ HeaderOf(text, k) < k
           /\ \A j \in Headers(text) : j < k => j <= HeaderOf(text, k)
<1> DEFINE S == {h \in Headers(text) : h < k}
<1>1. Headers(text) \subseteq 1..Len(text) /\ Len(text) \in Nat
  BY HeadersAre
<1>2. S \subseteq 0..k /\ k \in Nat
  BY <1>1
<1>3. S # {}
  <2>1. PICK h \in Headers(text) : h <= k
    BY HeaderAbove
  <2>2. h # k
    OBVIOUS
  <2> QED
    BY <1>1, <2>1, <2>2
<1>4. PICK h \in S : \A j \in S : j <= h
  <2> HIDE DEF S
  <2> QED
    BY <1>2, <1>3, Greatest
<1>5. \E g \in Headers(text) : g < k /\ \A j \in Headers(text) : j < k => j <= g
  BY <1>4
<1> QED
  BY <1>5 DEF HeaderOf

\* A line that is not empty closes the place for a header; an empty one opens it
\* unless it only separates a header from its entries.
LEMMA OpensStep ==
    ASSUME NEW text \in Seq(Lines), NEW n \in 0..Len(text) - 1
    PROVE  LET H == Headers(text) IN
           /\ text[n + 1] # Blank => ~Opens(text, n + 1, H)
           /\ text[n + 1] = Blank => (Opens(text, n + 1, H) <=> ~(n \in H /\ Named(text[n])))
           /\ n \in H => ~Opens(text, n, H)
<1> DEFINE H == Headers(text)
           A(m) == Above(text, m)
<1>1. H \subseteq 1..Len(text) /\ Len(text) \in Nat /\ \A k \in H : text[k] # Blank
  BY HeadersAre
<1>2. \A m \in Nat : A(m) # {} => /\ LastOf(A(m)) \in A(m) /\ \A j \in A(m) : j <= LastOf(A(m))
                                  /\ \A k \in A(m) : (\A j \in A(m) : j <= k) => LastOf(A(m)) = k
  <2> TAKE m \in Nat
  <2>1. A(m) \subseteq 0..m
    BY DEF Above
  <2> QED
    BY <2>1, LastIs
<1>3. \A m \in Nat : m \in A(m) => A(m) # {} /\ LastOf(A(m)) = m
  <2> TAKE m \in Nat
  <2>1. \A j \in A(m) : j <= m
    BY DEF Above
  <2> HIDE DEF A
  <2> QED
    BY <1>2, <2>1
<1>4. \A m \in Nat : m \in A(m) => ~Opens(text, m, H)
  BY <1>3, OpensIs
<1>5. text[n + 1] # Blank => n + 1 \in A(n + 1)
  BY DEF Above
<1>6. n \in H => n \in A(n)
  BY <1>1 DEF Above
<1>7. ASSUME text[n + 1] = Blank PROVE Opens(text, n + 1, H) <=> ~(n \in H /\ Named(text[n]))
  <2>1. A(n + 1) = A(n)
    BY <1>7 DEF Above
  <2>2. CASE A(n) = {}
    BY <1>6, <2>1, <2>2, OpensIs
  <2>3. CASE A(n) # {}
    <3> DEFINE last == LastOf(A(n))
    <3>1. last \in A(n) /\ n \in Nat
      BY <1>2, <2>3
    <3>2. last \in 1..n
      BY <3>1 DEF Above
    <3>3. n \in H => last = n
      BY <1>3, <1>6, <3>1
    <3>4. Opens(text, n + 1, H) <=>
              last < n + 1 /\ ~(last = (n + 1) - 1 /\ last \in H /\ Named(text[last]))
      BY <2>1, <2>3, OpensIs
    <3>5. last < n + 1 /\ (n + 1) - 1 = n
      BY <3>2
    <3> HIDE DEF last, H
    <3> QED
      BY <3>3, <3>4, <3>5
  <2> QED
    BY <2>2, <2>3
<1> QED
  <2>1. n \in Nat /\ n + 1 \in Nat
    OBVIOUS
  <2> HIDE DEF A
  <2> QED
    BY <1>4, <1>5, <1>6, <1>7, <2>1

-----------------------------------------------------------------------------
(* What the parser knows after n lines of a listing that is not skewed.    *)

FilesTo(text, n) ==
    {FileAt(text, k) : k \in {j \in 1..n : IsEntry(text, j) /\ EntryOf[text[j]].kind = "-"}}
PlaceKnown(text, n) ==
    LET p == States(text)[n]
        H == Headers(text) IN
    /\ p.number = n
    /\ p.expect <=> Opens(text, n, H)
    /\ p.after <=> n \in H /\ Named(text[n])
SectionKnown(text, n) ==
    LET H == Headers(text) IN
    \A h \in H : h <= n /\ (\A j \in H : j <= n => j <= h) =>
        States(text)[n].dir = IF Named(text[h]) THEN HeadOf[text[h]] ELSE None
FilesKnown(text, n)  == ToSet(States(text)[n].entries) = FilesTo(text, n)
FaultsKnown(text, n) ==
    /\ IsFiniteSet(Faults(text) \cap (1..n))
    /\ States(text)[n].issues = Cardinality(Faults(text) \cap (1..n))
Known(text, n) == /\ PlaceKnown(text, n) /\ SectionKnown(text, n)
                  /\ FilesKnown(text, n) /\ FaultsKnown(text, n)

\* The facts about the next line that the steps below rest on.
LEMMA NextLine ==
    ASSUME NEW text \in Seq(Lines), NEW n \in 0..Len(text) - 1
    PROVE  /\ n \in Nat /\ n + 1 \in 1..Len(text) /\ n \in 0..Len(text) /\ (n + 1) - 1 = n
           /\ text[n + 1] \in Lines /\ Headers(text) \subseteq 1..Len(text)
           /\ States(text)[n] \in Parser /\ States(text)[n + 1] \in Parser
           /\ States(text)[n + 1] = ParseLine(States(text)[n], text[n + 1])
           /\ n + 1 \in Headers(text) <=> text[n + 1] # Blank /\ Opens(text, n, Headers(text))
<1>1. n \in Nat /\ n + 1 \in 1..Len(text) /\ n \in 0..Len(text)
     /\ (n + 1) - 1 = n /\ n + 1 \in 0..Len(text)
  OBVIOUS
<1>2. text[n + 1] \in Lines
  BY <1>1
<1>3. States(text)[n] \in Parser /\ States(text)[n + 1] \in Parser
  BY <1>1, StatesStep
<1>4. States(text)[n + 1] = ParseLine(States(text)[n], text[n + 1])
  BY <1>1, StatesStep
<1> QED
  BY <1>1, <1>2, <1>3, <1>4, HeadersAre
\* What a line changes, field by field.
LEMMA NumberedFields ==
    ASSUME NEW p \in Parser
    PROVE  LET r == Numbered(p) IN
           /\ r \in Parser /\ r.number = p.number + 1 /\ r.dir = p.dir /\ r.expect = p.expect
           /\ r.after = p.after /\ r.entries = p.entries /\ r.issues = p.issues
BY DEF Numbered, Parser

LEMMA BrokenFields ==
    ASSUME NEW p \in Parser, NEW q, q = ParseLine(p, Broken)
    PROVE  /\ ~q.expect /\ q.after = p.after /\ q.entries = p.entries /\ q.issues = p.issues + 1
           /\ p.expect => q.dir = None
           /\ ~p.expect => q.dir = p.dir
<1> DEFINE r == Numbered(p)
           d == IF r.expect THEN None ELSE r.dir
<1>1. /\ r \in Parser /\ r.dir = p.dir /\ r.expect = p.expect
      /\ r.after = p.after /\ r.entries = p.entries /\ r.issues = p.issues
  BY NumberedFields
<1>2. q = BrokenLine(r)
  BY ParseLineCases DEF Lines
<1> HIDE DEF r
<1>3. BrokenLine(r) = [r EXCEPT !.issues = @ + 1, !.dir = d, !.expect = FALSE]
  BY DEF BrokenLine
<1>4. (p.expect => d = None) /\ (~p.expect => d = p.dir)
  BY <1>1
<1> HIDE DEF d
<1>5. /\ ~q.expect /\ q.after = p.after /\ q.entries = p.entries
      /\ q.issues = p.issues + 1 /\ q.dir = d
  BY <1>1, <1>2, <1>3 DEF Parser
<1> QED
  BY <1>4, <1>5

LEMMA BlankFields ==
    ASSUME NEW p \in Parser, NEW q, q = ParseLine(p, Blank)
    PROVE  /\ q.expect <=> p.expect \/ ~p.after
           /\ ~q.after /\ q.entries = p.entries /\ q.issues = p.issues /\ q.dir = p.dir
<1> DEFINE r == Numbered(p)
<1>1. /\ r \in Parser /\ r.dir = p.dir /\ r.expect = p.expect
      /\ r.after = p.after /\ r.entries = p.entries /\ r.issues = p.issues
  BY NumberedFields
<1>2. q = BlankLine(r)
  BY ParseLineCases DEF Lines
<1> HIDE DEF r
<1>3. CASE r.after
  BY <1>1, <1>2, <1>3 DEF BlankLine, Parser
<1>4. CASE ~r.after
  BY <1>1, <1>2, <1>4 DEF BlankLine, Parser
<1> QED
  BY <1>3, <1>4

LEMMA HeaderFields ==
    ASSUME NEW p \in Parser, NEW l \in Texts, NEW q, q = ParseLine(p, l), p.expect
    PROVE  /\ ~q.expect /\ q.entries = p.entries /\ q.dir = HeadOf[l]
           /\ q.after <=> HeadOf[l] # None
           /\ HeadOf[l] = None => q.issues = p.issues + 1
           /\ HeadOf[l] # None => q.issues = p.issues
<1> DEFINE r == Numbered(p)
           i == IF HeadOf[l] = None THEN r.issues + 1 ELSE r.issues
           a == HeadOf[l] # None
           h == HeadOf[l]
<1>1. /\ r \in Parser /\ r.dir = p.dir /\ r.expect = p.expect
      /\ r.after = p.after /\ r.entries = p.entries /\ r.issues = p.issues
  BY NumberedFields
<1>2. q = HeaderLine(r, l)
  BY ParseLineCases DEF Lines
<1> HIDE DEF r
<1>3. HeaderLine(r, l) = [r EXCEPT !.dir = h, !.expect = FALSE, !.after = a, !.issues = i]
  BY DEF HeaderLine
<1>4. /\ HeadOf[l] = None => i = p.issues + 1
      /\ HeadOf[l] # None => i = p.issues
  BY <1>1
<1> HIDE DEF i, a, h
<1>5. ~q.expect /\ q.after = a /\ q.entries = p.entries /\ q.issues = i /\ q.dir = h
  BY <1>1, <1>2, <1>3 DEF Parser
<1> QED
  BY <1>4, <1>5 DEF a, h

LEMMA IssueFields ==
    ASSUME NEW p \in Parser, NEW l \in Texts, NEW q, q = ParseLine(p, l), ~p.expect,
           EntryOf[l] = None \/ p.dir = None
    PROVE  /\ ~q.expect /\ ~q.after /\ q.dir = p.dir
           /\ q.issues = p.issues + 1 /\ q.entries = p.entries
<1> DEFINE r == Numbered(p)
<1>1. /\ r \in Parser /\ r.number = p.number + 1 /\ r.dir = p.dir /\ r.expect = p.expect
      /\ r.after = p.after /\ r.entries = p.entries /\ r.issues = p.issues
  BY NumberedFields
<1>2. q = EntryLine(r, l)
  BY ParseLineCases DEF Lines
<1> HIDE DEF r
<1>3. q = [r EXCEPT !.after = FALSE, !.issues = @ + 1]
  BY <1>1, <1>2 DEF EntryLine
<1> QED
  BY <1>1, <1>3 DEF Parser

NewEntry(p, l) == [line |-> p.number + 1, size |-> EntryOf[l].size, name |-> EntryOf[l].name,
                   path |-> p.dir \o EntryOf[l].name]
LEMMA EntryFields ==
    ASSUME NEW p \in Parser, NEW l \in Texts, NEW q, q = ParseLine(p, l), ~p.expect,
           EntryOf[l] # None, p.dir # None
    PROVE  /\ ~q.expect /\ ~q.after /\ q.dir = p.dir /\ q.issues = p.issues
           /\ EntryOf[l].kind = "d" => q.entries = p.entries
           /\ EntryOf[l].kind # "d" => q.entries = Append(p.entries, NewEntry(p, l))
<1> DEFINE r == Numbered(p)
           es == IF EntryOf[l].kind = "d" THEN p.entries ELSE Append(p.entries, NewEntry(p, l))
<1>1. /\ r \in Parser /\ r.number = p.number + 1 /\ r.dir = p.dir /\ r.expect = p.expect
      /\ r.after = p.after /\ r.entries = p.entries /\ r.issues = p.issues
  BY NumberedFields
<1>2. q = EntryLine(r, l)
  BY ParseLineCases DEF Lines
<1> HIDE DEF r
<1>3. q = [r EXCEPT !.after = FALSE, !.entries = es]
  BY <1>1, <1>2 DEF EntryLine, NewEntry
<1>4. EntryOf[l].kind = "d" => es = p.entries
  OBVIOUS
<1>5. EntryOf[l].kind # "d" => es = Append(p.entries, NewEntry(p, l))
  OBVIOUS
<1> HIDE DEF es
<1>6. ~q.expect /\ ~q.after /\ q.dir = p.dir /\ q.issues = p.issues /\ q.entries = es
  BY <1>1, <1>3 DEF Parser
<1> QED
  BY <1>4, <1>5, <1>6

\* The place of the next header.
LEMMA PlaceStep ==
    ASSUME NEW text \in Seq(Lines), NEW n \in 0..Len(text) - 1, ~Skewed(text),
           PlaceKnown(text, n)
    PROVE  PlaceKnown(text, n + 1)
<1> DEFINE p == States(text)[n]
           q == States(text)[n + 1]
           l == text[n + 1]
           H == Headers(text)
<1>1. /\ n \in Nat /\ n + 1 \in 1..Len(text) /\ l \in Lines /\ H \subseteq 1..Len(text)
      /\ p \in Parser /\ q = ParseLine(p, l)
      /\ n + 1 \in H <=> l # Blank /\ Opens(text, n, H)
  BY NextLine
<1>2. /\ p.number = n
      /\ p.expect <=> Opens(text, n, H)
      /\ p.after <=> n \in H /\ Named(text[n])
  BY DEF PlaceKnown
<1>3. /\ l # Blank => ~Opens(text, n + 1, H)
      /\ l = Blank => (Opens(text, n + 1, H) <=> ~(n \in H /\ Named(text[n])))
      /\ n \in H => ~Opens(text, n, H)
  BY OpensStep
<1>4. l = Broken => ~p.after
  <2> SUFFICES ASSUME l = Broken, p.after PROVE FALSE
    OBVIOUS
  <2>1. n \in H /\ Named(text[n]) /\ n < Len(text)
    BY <1>1, <1>2
  <2> QED
    BY <2>1 DEF Skewed
<1>5. p.expect \in BOOLEAN /\ p.after \in BOOLEAN
  BY <1>1 DEF Parser
<1>6. l = Broken \/ l = Blank \/ l \in Texts
  BY <1>1 DEF Lines
<1>7. Named(text[n + 1]) <=> l \in Texts /\ HeadOf[l] # None
  BY DEF Named
<1>8. Broken \notin Texts /\ Blank \notin Texts /\ Blank # Broken
  BY TextAssumption
<1> HIDE DEF p, q, l, H
<1>12. q.number = n + 1
  BY <1>1, <1>2, ParseLineType
<1>9. CASE l = Broken
  <2>1. ~q.expect /\ ~q.after
    BY <1>1, <1>4, <1>9, BrokenFields
  <2> QED
    BY <1>3, <1>7, <1>8, <1>9, <1>12, <2>1 DEF PlaceKnown, q, H
<1>10. CASE l = Blank
  <2>1. (q.expect <=> p.expect \/ ~p.after) /\ ~q.after
    BY <1>1, <1>10, BlankFields
  <2>2. n + 1 \notin H
    BY <1>1, <1>10
  <2> QED
    BY <1>2, <1>3, <1>5, <1>10, <1>12, <2>1, <2>2 DEF PlaceKnown, q, H
<1>11. CASE l \in Texts
  <2>1. ~q.expect /\ l # Blank
    BY <1>1, <1>8, <1>11, HeaderFields, IssueFields, EntryFields
  <2>2. p.expect => (q.after <=> HeadOf[l] # None)
    BY <1>1, <1>11, HeaderFields
  <2>3. ~p.expect => ~q.after
    BY <1>1, <1>11, IssueFields, EntryFields
  <2>4. p.expect <=> n + 1 \in H
    BY <1>1, <1>2, <2>1
  <2>5. q.after <=> n + 1 \in H /\ Named(text[n + 1])
    BY <1>7, <1>11, <2>2, <2>3, <2>4
  <2> QED
    BY <1>3, <1>12, <2>1, <2>5 DEF PlaceKnown, q, H, l
<1> QED
  BY <1>6, <1>9, <1>10, <1>11

\* The directory of the section that the next line stands in.
LEMMA SectionStep ==
    ASSUME NEW text \in Seq(Lines), NEW n \in 0..Len(text) - 1,
           PlaceKnown(text, n), SectionKnown(text, n)
    PROVE  SectionKnown(text, n + 1)
<1> DEFINE p == States(text)[n]
           q == States(text)[n + 1]
           l == text[n + 1]
           H == Headers(text)
           In(h) == IF Named(text[h]) THEN HeadOf[text[h]] ELSE None
<1>1. /\ n \in Nat /\ n + 1 \in 1..Len(text) /\ l \in Lines /\ H \subseteq 1..Len(text)
      /\ p \in Parser /\ q = ParseLine(p, l)
      /\ n + 1 \in H <=> l # Blank /\ Opens(text, n, H)
  BY NextLine
<1>2. p.expect <=> Opens(text, n, H)
  BY DEF PlaceKnown
<1>3. l = Broken \/ l = Blank \/ l \in Texts
  BY <1>1 DEF Lines
<1> SUFFICES ASSUME NEW h \in H, h <= n + 1, \A j \in H : j <= n + 1 => j <= h
             PROVE  q.dir = In(h)
  BY DEF SectionKnown
<1> HIDE DEF p, q, H, l
<1>6. /\ l = Broken => (p.expect => q.dir = None) /\ (~p.expect => q.dir = p.dir)
      /\ l = Blank => q.dir = p.dir
      /\ l \in Texts => (p.expect => q.dir = HeadOf[l]) /\ (~p.expect => q.dir = p.dir)
  <2>1. l = Broken => (p.expect => q.dir = None) /\ (~p.expect => q.dir = p.dir)
    BY <1>1, BrokenFields
  <2>2. l = Blank => q.dir = p.dir
    BY <1>1, BlankFields
  <2>3. l \in Texts /\ p.expect => q.dir = HeadOf[l]
    BY <1>1, HeaderFields
  <2>4. l \in Texts /\ ~p.expect => q.dir = p.dir
    BY <1>1, IssueFields, EntryFields
  <2> QED
    BY <2>1, <2>2, <2>3, <2>4
<1>4. CASE h = n + 1
  <2>1. p.expect /\ l # Blank
    BY <1>1, <1>2, <1>4
  <2>2. CASE l = Broken
    <3>1. q.dir = None
      BY <1>6, <2>1, <2>2
    <3>2. ~Named(text[h])
      BY <1>4, <2>2, TextAssumption DEF Named, l
    <3> QED
      BY <3>1, <3>2
  <2>3. CASE l \in Texts
    <3>1. q.dir = HeadOf[l]
      BY <1>6, <2>1, <2>3
    <3>2. Named(text[h]) <=> HeadOf[l] # None
      BY <1>4, <2>3 DEF Named, l
    <3>3. In(h) = HeadOf[l]
      BY <1>4, <3>2 DEF l
    <3> QED
      BY <3>1, <3>3
  <2> QED
    BY <1>3, <2>1, <2>2, <2>3
<1>5. CASE h # n + 1
  <2>1. h <= n /\ n + 1 \notin H /\ \A j \in H : j <= n => j <= h
    BY <1>1, <1>5
  <2>2. p.dir = In(h)
    <3> HIDE DEF In
    <3>1. \A j \in H : j <= n /\ (\A i \in H : i <= n => i <= j) => p.dir = In(j)
      BY DEF SectionKnown, p, In, H
    <3> QED
      BY <2>1, <3>1
  <2>3. q.dir = p.dir
    <3>1. CASE l = Blank
      BY <1>6, <3>1
    <3>2. CASE l # Blank
      <4>1. ~p.expect
        BY <1>1, <1>2, <2>1, <3>2
      <4>2. CASE l = Broken
        BY <1>6, <4>1, <4>2
      <4>3. CASE l \in Texts
        BY <1>6, <4>1, <4>3
      <4> QED
        BY <1>3, <3>2, <4>2, <4>3
    <3> QED
      BY <3>1, <3>2
  <2> QED
    BY <2>2, <2>3
<1> QED
  BY <1>4, <1>5

\* Whether the next line is an entry, and of which directory.
LEMMA EntryStep ==
    ASSUME NEW text \in Seq(Lines), NEW n \in 0..Len(text) - 1, SectionKnown(text, n),
           text[n + 1] \in Texts, n + 1 \notin Headers(text)
    PROVE  /\ IsEntry(text, n + 1) <=> /\ EntryOf[text[n + 1]] # None
                                       /\ States(text)[n].dir # None
           /\ IsEntry(text, n + 1) => HeadOf[text[HeaderOf(text, n + 1)]] = States(text)[n].dir
<1> DEFINE d == States(text)[n].dir
           h == HeaderOf(text, n + 1)
           H == Headers(text)
<1>1. n \in Nat /\ n + 1 \in 1..Len(text) /\ H \subseteq 1..Len(text)
  BY NextLine
<1>2. text[n + 1] # Blank
  BY TextAssumption
<1>3. h \in H /\ h < n + 1 /\ \A j \in H : j < n + 1 => j <= h
  BY <1>1, <1>2, HeaderOfIs
<1> HIDE DEF h
<1>4. h <= n /\ \A j \in H : j <= n => j <= h
  BY <1>1, <1>3
<1>5. d = IF Named(text[h]) THEN HeadOf[text[h]] ELSE None
  <2> HIDE DEF d
  <2>1. \A g \in H : g <= n /\ (\A j \in H : j <= n => j <= g) =>
            d = IF Named(text[g]) THEN HeadOf[text[g]] ELSE None
    BY DEF SectionKnown, d
  <2> QED
    BY <1>3, <1>4, <2>1
<1>6. Named(text[h]) => HeadOf[text[h]] # None
  BY DEF Named
<1> HIDE DEF d
<1>7. d # None <=> Named(text[h])
  BY <1>5, <1>6
<1>8. Named(text[h]) => HeadOf[text[h]] = d
  BY <1>5
<1> QED
  BY <1>7, <1>8 DEF IsEntry, h, d

LEMMA ToSetAppend ==
    ASSUME NEW S, NEW s \in Seq(S), NEW e \in S
    PROVE  ToSet(Append(s, e)) = ToSet(s) \cup {e}
<1> DEFINE a == Append(s, e)
<1>1. /\ a \in Seq(S) /\ Len(a) = Len(s) + 1 /\ Len(s) \in Nat
      /\ a[Len(s) + 1] = e /\ \A i \in 1..Len(s) : a[i] = s[i]
  OBVIOUS
<1>2. DOMAIN a = 1..Len(s) + 1 /\ DOMAIN s = 1..Len(s)
  BY <1>1
<1>3. ToSet(a) = {a[i] : i \in DOMAIN a} /\ ToSet(s) = {s[i] : i \in DOMAIN s}
  BY DEF ToSet
<1> HIDE DEF a
<1>4. ASSUME NEW x \in ToSet(a) PROVE x \in ToSet(s) \cup {e}
  <2> PICK i \in 1..Len(s) + 1 : x = a[i]
    BY <1>2, <1>3
  <2>1. CASE i = Len(s) + 1
    BY <1>1, <2>1
  <2>2. CASE i # Len(s) + 1
    <3>1. i \in 1..Len(s)
      BY <1>1, <2>2
    <3> QED
      BY <1>1, <1>2, <1>3, <3>1
  <2> QED
    BY <2>1, <2>2
<1>5. e \in ToSet(a)
  <2>1. Len(s) + 1 \in DOMAIN a
    BY <1>1, <1>2
  <2> QED
    BY <1>1, <1>3, <2>1
<1>6. ASSUME NEW x \in ToSet(s) PROVE x \in ToSet(a)
  <2> PICK i \in 1..Len(s) : x = s[i]
    BY <1>2, <1>3
  <2>1. i \in 1..Len(s) + 1
    BY <1>1
  <2> QED
    BY <1>1, <1>2, <1>3, <2>1
<1> QED
  BY <1>4, <1>5, <1>6 DEF a

\* The next line adds the file it is an entry of, and nothing else.
LEMMA FilesToStep ==
    ASSUME NEW text, NEW n \in Nat
    PROVE  FilesTo(text, n + 1) =
               FilesTo(text, n) \cup IF IsEntry(text, n + 1) /\ EntryOf[text[n + 1]].kind = "-"
                                     THEN {FileAt(text, n + 1)} ELSE {}
<1> DEFINE Is(k) == IsEntry(text, k) /\ EntryOf[text[k]].kind = "-"
           F(k)  == FileAt(text, k)
<1>1. \A m : FilesTo(text, m) = {F(k) : k \in {j \in 1..m : Is(j)}}
  BY DEF FilesTo
<1> HIDE DEF Is, F
<1>2. {j \in 1..n + 1 : Is(j)} = {j \in 1..n : Is(j)} \cup {j \in {n + 1} : Is(j)}
  OBVIOUS
<1>3. {F(k) : k \in {j \in 1..n + 1 : Is(j)}} =
          {F(k) : k \in {j \in 1..n : Is(j)}} \cup IF Is(n + 1) THEN {F(n + 1)} ELSE {}
  BY <1>2
<1> QED
  BY <1>1, <1>3 DEF Is, F

LEMMA FilesStep ==
    ASSUME NEW text \in Seq(Lines), NEW n \in 0..Len(text) - 1,
           PlaceKnown(text, n), SectionKnown(text, n), FilesKnown(text, n)
    PROVE  FilesKnown(text, n + 1)
<1> DEFINE p == States(text)[n]
           q == States(text)[n + 1]
           l == text[n + 1]
           H == Headers(text)
           Is == IsEntry(text, n + 1)
           Kind == EntryOf[l].kind
           File == FileAt(text, n + 1)
<1>1. /\ n \in Nat /\ n + 1 \in 1..Len(text) /\ l \in Lines /\ H \subseteq 1..Len(text)
      /\ p \in Parser /\ q \in Parser /\ q = ParseLine(p, l)
      /\ n + 1 \in H <=> l # Blank /\ Opens(text, n, H)
  BY NextLine
<1>2. (p.expect <=> Opens(text, n, H)) /\ p.number = n
  BY DEF PlaceKnown
<1>3. l = Broken \/ l = Blank \/ l \in Texts
  BY <1>1 DEF Lines
<1>4. ToSet(p.entries) = FilesTo(text, n)
  BY DEF FilesKnown
<1>5. FilesTo(text, n + 1) = FilesTo(text, n) \cup IF Is /\ Kind = "-" THEN {File} ELSE {}
  BY <1>1, FilesToStep
<1>6. Is => l \in Texts /\ n + 1 \notin H
  BY DEF IsEntry
<1>7. l \in Texts /\ n + 1 \notin H => /\ Is <=> EntryOf[l] # None /\ p.dir # None
                                       /\ Is => HeadOf[text[HeaderOf(text, n + 1)]] = p.dir
  BY EntryStep
<1>8. Broken \notin Texts /\ Blank \notin Texts /\ Blank # Broken
  BY TextAssumption
<1>9. l \in Texts /\ EntryOf[l] # None => (Kind = "-" <=> Kind # "d")
  BY TextAssumption
<1>10. HeadOf[text[HeaderOf(text, n + 1)]] = p.dir =>
           File = NewEntry(p, l)
  BY <1>2 DEF FileAt, NewEntry
<1>11. p.entries \in Seq(Entry) /\ q.entries \in Seq(Entry)
  BY <1>1 DEF Parser
<1> SUFFICES ToSet(q.entries) = FilesTo(text, n) \cup IF Is /\ Kind = "-" THEN {File} ELSE {}
  BY <1>5 DEF FilesKnown
<1> HIDE DEF p, q, l, H, Is, Kind, File
<1>12. CASE l = Broken
  BY <1>1, <1>4, <1>6, <1>8, <1>12, BrokenFields
<1>13. CASE l = Blank
  BY <1>1, <1>4, <1>6, <1>8, <1>13, BlankFields
<1>14. CASE l \in Texts /\ p.expect
  <2>1. ~Is
    BY <1>1, <1>2, <1>6, <1>8, <1>14
  <2>2. q.entries = p.entries
    BY <1>1, <1>14, HeaderFields
  <2> QED
    BY <1>4, <2>1, <2>2
<1>15. CASE l \in Texts /\ ~p.expect
  <2>1. n + 1 \notin H
    BY <1>1, <1>2, <1>15
  <2>2. CASE ~Is \/ Kind # "-"
    <3>1. q.entries = p.entries
      <4>1. CASE EntryOf[l] = None \/ p.dir = None
        BY <1>1, <1>15, <4>1, IssueFields
      <4>2. CASE EntryOf[l] # None /\ p.dir # None
        <5>1. EntryOf[l].kind = "d"
          BY <1>7, <1>9, <1>15, <2>1, <2>2, <4>2 DEF Kind
        <5> QED
          BY <1>1, <1>15, <4>2, <5>1, EntryFields
      <4> QED
        BY <4>1, <4>2
    <3> QED
      BY <1>4, <2>2, <3>1
  <2>3. CASE Is /\ Kind = "-"
    <3>1. EntryOf[l] # None /\ p.dir # None /\ EntryOf[l].kind # "d"
      BY <1>7, <1>9, <1>15, <2>1, <2>3 DEF Kind
    <3>2. File = NewEntry(p, l)
      BY <1>7, <1>10, <1>15, <2>1, <2>3
    <3>3. q.entries = Append(p.entries, File)
      BY <1>1, <1>15, <3>2, <3>1, EntryFields
    <3>4. File \in Entry
      <4>1. p.dir \in Dirs /\ EntryOf[l].name \in Names
        BY <1>1, <1>15, <3>1 DEF Parser, Names
      <4>2. p.dir \o EntryOf[l].name \in DOMAIN Form
        BY <4>1, TextAssumption
      <4> QED
        BY <1>1, <1>2, <1>15, <3>2, <3>1, <4>1, <4>2 DEF Entry, NewEntry
    <3>5. ToSet(q.entries) = ToSet(p.entries) \cup {File}
      BY <1>11, <3>3, <3>4, ToSetAppend
    <3> QED
      BY <1>4, <2>3, <3>5
  <2> QED
    BY <2>2, <2>3
<1> QED
  BY <1>3, <1>12, <1>13, <1>14, <1>15

\* The next line is an issue or it is not.
LEMMA FaultsStep ==
    ASSUME NEW text \in Seq(Lines), NEW n \in 0..Len(text) - 1,
           PlaceKnown(text, n), SectionKnown(text, n), FaultsKnown(text, n)
    PROVE  FaultsKnown(text, n + 1)
<1> DEFINE p == States(text)[n]
           q == States(text)[n + 1]
           l == text[n + 1]
           H == Headers(text)
           F == Faults(text)
           Is == IsEntry(text, n + 1)
           C(m) == F \cap (1..m)
<1>1. /\ n \in Nat /\ n + 1 \in 1..Len(text) /\ l \in Lines /\ H \subseteq 1..Len(text)
      /\ p \in Parser /\ q \in Parser /\ q = ParseLine(p, l)
      /\ n + 1 \in H <=> l # Blank /\ Opens(text, n, H)
  BY NextLine
<1>2. p.expect <=> Opens(text, n, H)
  BY DEF PlaceKnown
<1>3. l = Broken \/ l = Blank \/ l \in Texts
  BY <1>1 DEF Lines
<1>4. IsFiniteSet(C(n)) /\ p.issues = Cardinality(C(n))
  BY DEF FaultsKnown
<1>5. n + 1 \in F <=> l # Blank /\ ~Is /\ ~(n + 1 \in H /\ Named(l))
  BY <1>1 DEF Faults
<1>6. Is => l \in Texts /\ n + 1 \notin H
  BY DEF IsEntry
<1>7. l \in Texts /\ n + 1 \notin H => (Is <=> EntryOf[l] # None /\ p.dir # None)
  BY EntryStep
<1>8. Broken \notin Texts /\ Blank \notin Texts /\ Blank # Broken
  BY TextAssumption
<1>9. Named(l) <=> l \in Texts /\ HeadOf[l] # None
  BY DEF Named
<1>10. p.issues \in Nat
  BY <1>1 DEF Parser
<1>11. n + 1 \in F => C(n + 1) = C(n) \cup {n + 1} /\ n + 1 \notin C(n)
  BY <1>1
<1>12. n + 1 \notin F => C(n + 1) = C(n)
  <2> HIDE DEF F
  <2> QED
    BY <1>1
<1> HIDE DEF p, q, l, H, F, Is
<1>13. IF n + 1 \in F THEN q.issues = p.issues + 1 ELSE q.issues = p.issues
  <2>1. CASE l = Broken
    BY <1>1, <1>5, <1>6, <1>8, <1>9, <2>1, BrokenFields
  <2>2. CASE l = Blank
    BY <1>1, <1>5, <2>2, BlankFields
  <2>3. CASE l \in Texts /\ p.expect
    <3>1. n + 1 \in H
      BY <1>1, <1>2, <1>8, <2>3
    <3>2. n + 1 \in F <=> HeadOf[l] = None
      BY <1>5, <1>6, <1>8, <1>9, <2>3, <3>1
    <3> QED
      BY <1>1, <2>3, <3>2, HeaderFields
  <2>4. CASE l \in Texts /\ ~p.expect
    <3>1. n + 1 \notin H
      BY <1>1, <1>2, <2>4
    <3>2. n + 1 \in F <=> ~(EntryOf[l] # None /\ p.dir # None)
      BY <1>5, <1>7, <1>8, <2>4, <3>1
    <3>3. CASE EntryOf[l] = None \/ p.dir = None
      BY <1>1, <2>4, <3>2, <3>3, IssueFields
    <3>4. CASE EntryOf[l] # None /\ p.dir # None
      BY <1>1, <2>4, <3>2, <3>4, EntryFields
    <3> QED
      BY <3>3, <3>4
  <2> QED
    BY <1>3, <2>1, <2>2, <2>3, <2>4
<1> HIDE DEF C
<1>14. IsFiniteSet(C(n + 1)) /\ q.issues = Cardinality(C(n + 1))
  <2>1. CASE n + 1 \in F
    <3>1. IsFiniteSet(C(n) \cup {n + 1}) /\ Cardinality(C(n) \cup {n + 1}) = Cardinality(C(n)) + 1
      BY <1>4, <1>11, <2>1, FS_AddElement
    <3> QED
      BY <1>4, <1>11, <1>13, <2>1, <3>1
  <2>2. CASE n + 1 \notin F
    BY <1>4, <1>12, <1>13, <2>2
  <2> QED
    BY <2>1, <2>2
<1> QED
  BY <1>14 DEF FaultsKnown, C, F, q

LEMMA KnownLines ==
    ASSUME NEW text \in Seq(Lines), ~Skewed(text)
    PROVE  \A n \in 0..Len(text) : Known(text, n)
<1> DEFINE T == {n \in 0..Len(text) : Known(text, n)}
<1>1. Len(text) \in Nat
  OBVIOUS
<1>2. States(text)[0] = Start /\ Headers(text) \subseteq 1..Len(text)
  BY StatesStep, HeadersAre
<1>3. Known(text, 0)
  <2>1. PlaceKnown(text, 0)
    <3>1. Above(text, 0) = {}
      BY DEF Above
    <3>2. Opens(text, 0, Headers(text))
      BY <3>1, OpensIs
    <3>3. 0 \notin Headers(text)
      BY <1>2
    <3> QED
      BY <1>2, <3>2, <3>3 DEF PlaceKnown, Start
  <2>2. SectionKnown(text, 0)
    BY <1>2 DEF SectionKnown
  <2>3. FilesKnown(text, 0)
    <3>1. FilesTo(text, 0) = {}
      BY DEF FilesTo
    <3>2. ToSet(<<>>) = {}
      BY DEF ToSet
    <3>3. States(text)[0].entries = <<>>
      BY <1>2 DEF Start
    <3> QED
      BY <3>1, <3>2, <3>3 DEF FilesKnown
  <2>4. FaultsKnown(text, 0)
    <3>1. Faults(text) \cap (1..0) = {}
      OBVIOUS
    <3> QED
      BY <1>2, <3>1, FS_EmptySet DEF FaultsKnown, Start
  <2> QED
    BY <2>1, <2>2, <2>3, <2>4 DEF Known
<1>4. ASSUME NEW n \in 0..Len(text) - 1, n \in T PROVE n + 1 \in T
  <2>1. n + 1 \in 0..Len(text)
    BY <1>1
  <2>2. Known(text, n + 1)
    BY <1>4, PlaceStep, SectionStep, FilesStep, FaultsStep DEF Known
  <2> QED
    BY <2>1, <2>2
<1>5. 0 \in T
  BY <1>1, <1>3
<1>6. \A n \in 0..Len(text) : n \in T
  <2> HIDE DEF T
  <2> QED
    BY <1>1, <1>4, <1>5, Induct
<1> QED
  BY <1>6

\* So a listing that is not skewed is read by the position of its lines.
LEMMA ReadByPosition ==
    ASSUME NEW text \in Seq(Lines), ~Skewed(text)
    PROVE  /\ ToSet(Parse(text).entries) = FilesOf(text)
           /\ Parse(text).issues = Cardinality(Faults(text))
<1>1. Len(text) \in 0..Len(text)
  OBVIOUS
<1>2. Known(text, Len(text))
  BY <1>1, KnownLines
<1>3. FilesTo(text, Len(text)) = FilesOf(text)
  BY DEF FilesTo, FilesOf
<1>4. Faults(text) \cap (1..Len(text)) = Faults(text)
  BY DEF Faults
<1> QED
  BY <1>2, <1>3, <1>4 DEF Known, FilesKnown, FaultsKnown, Parse

\* The entries of any listing are in the order of its lines.
LineOrder(entries) == \A j, k \in DOMAIN entries : j < k => entries[j].line < entries[k].line
LEMMA EntriesInOrder ==
    ASSUME NEW text \in Seq(Lines)
    PROVE  Parse(text).entries \in Seq(Entry) /\ LineOrder(Parse(text).entries)
<1> DEFINE L == Len(text)
           S(n) == States(text)[n]
           Right(n) == /\ S(n).number = n /\ LineOrder(S(n).entries)
                       /\ \A k \in DOMAIN S(n).entries : S(n).entries[k].line <= n
           T == {n \in 0..L : Right(n)}
<1>1. /\ L \in Nat /\ S(0) = Start /\ \A n \in 0..L : S(n) \in Parser
      /\ \A n \in 1..L : S(n) = ParseLine(S(n - 1), text[n])
  BY StatesStep
<1>2. \A n \in 1..L : text[n] \in Lines
  OBVIOUS
<1>3. 0 \in T
  BY <1>1 DEF Start, LineOrder
<1>4. ASSUME NEW n \in 0..L - 1, n \in T PROVE n + 1 \in T
  <2> DEFINE p == S(n)
             q == S(n + 1)
             l == text[n + 1]
  <2>1. n + 1 \in 1..L /\ n + 1 \in 0..L /\ (n + 1) - 1 = n /\ n \in 0..L /\ n \in Nat
    BY <1>1
  <2>2. p \in Parser /\ q \in Parser /\ q = ParseLine(p, l) /\ l \in Lines
    BY <1>1, <1>2, <2>1
  <2>3. Right(n)
    BY <1>4
  <2> HIDE DEF p, q, l, S
  <2>4. q.number = n + 1
    BY <2>2, <2>3, ParseLineType DEF p
  <2>5. q.entries = p.entries \/ q.entries = Append(p.entries, NewEntry(p, l))
    <3>1. CASE l = Broken
      BY <2>2, <3>1, BrokenFields
    <3>2. CASE l = Blank
      BY <2>2, <3>2, BlankFields
    <3>3. CASE l \in Texts /\ p.expect
      BY <2>2, <3>3, HeaderFields
    <3>4. CASE l \in Texts /\ ~p.expect
      <4>1. CASE EntryOf[l] = None \/ p.dir = None
        BY <2>2, <3>4, <4>1, IssueFields
      <4>2. CASE EntryOf[l] # None /\ p.dir # None
        BY <2>2, <3>4, <4>2, EntryFields
      <4> QED
        BY <4>1, <4>2
    <3> QED
      BY <2>2, <3>1, <3>2, <3>3, <3>4 DEF Lines
  <2> DEFINE es == p.entries
             fs == q.entries
             e == NewEntry(p, l)
  <2>6. es \in Seq(Entry) /\ fs \in Seq(Entry) /\ Len(es) \in Nat
    BY <2>2 DEF Parser
  <2>7. \A k \in DOMAIN es : es[k].line \in Nat
    <3> HIDE DEF es
    <3>1. \A k \in DOMAIN es : es[k] \in Entry
      BY <2>6
    <3> QED
      BY <3>1 DEF Entry
  <2>8. LineOrder(es) /\ \A k \in DOMAIN es : es[k].line <= n
    BY <2>3 DEF p
  <2>9. e.line = n + 1
    BY <2>3 DEF NewEntry, p
  <2>10. fs = es \/ fs = Append(es, e)
    BY <2>5
  <2> HIDE DEF es, fs, e
  <2>11. LineOrder(fs) /\ \A k \in DOMAIN fs : fs[k].line <= n + 1
    <3>1. CASE fs = es
      <4>1. \A k \in DOMAIN es : es[k].line <= n + 1
        BY <2>1, <2>7, <2>8
      <4> QED
        BY <2>8, <3>1, <4>1
    <3>2. CASE fs = Append(es, e)
      <4>1. /\ DOMAIN fs = 1..Len(es) + 1 /\ DOMAIN es = 1..Len(es)
            /\ fs[Len(es) + 1] = e /\ \A k \in 1..Len(es) : fs[k] = es[k]
        BY <2>6, <3>2
      <4>2. \A k \in 1..Len(es) : fs[k].line <= n /\ fs[k].line \in Nat
        BY <2>7, <2>8, <4>1
      <4>3. ASSUME NEW k \in 1..Len(es) + 1 PROVE fs[k].line <= n + 1
        BY <2>1, <2>6, <2>9, <4>1, <4>2
      <4>4. ASSUME NEW j \in 1..Len(es) + 1, NEW k \in 1..Len(es) + 1, j < k
            PROVE  fs[j].line < fs[k].line
        <5>1. j \in 1..Len(es)
          BY <2>6, <4>4
        <5>2. CASE k = Len(es) + 1
          <6>1. fs[j].line <= n /\ fs[j].line \in Nat /\ fs[k].line = n + 1
            BY <2>9, <4>1, <4>2, <5>1, <5>2
          <6> QED
            BY <2>1, <6>1
        <5>3. CASE k # Len(es) + 1
          <6>1. k \in 1..Len(es)
            BY <2>6, <5>3
          <6> QED
            BY <2>8, <4>1, <4>4, <5>1, <6>1 DEF LineOrder
        <5> QED
          BY <5>2, <5>3
      <4> QED
        BY <4>1, <4>3, <4>4 DEF LineOrder
    <3> QED
      BY <2>10, <3>1, <3>2
  <2> QED
    BY <2>1, <2>4, <2>11 DEF fs, q
<1>5. \A n \in 0..L : n \in T
  <2> HIDE DEF T, L
  <2> QED
    BY <1>1, <1>3, <1>4, Induct
<1>6. L \in 0..L
  BY <1>1
<1>7. S(L) \in Parser /\ Right(L)
  BY <1>1, <1>5, <1>6
<1> QED
  BY <1>7 DEF Parse, Parser

-----------------------------------------------------------------------------
(* The policy, and the order of a manifest and of a queue.                 *)

LEMMA DispositionsAre == ToSet(Dispositions) = {"priority", "deferred", "rejected"}
<1>1. /\ DOMAIN Dispositions = 1..3 /\ Dispositions[1] = "priority"
      /\ Dispositions[2] = "deferred" /\ Dispositions[3] = "rejected"
  BY DEF Dispositions
<1>2. ToSet(Dispositions) = {Dispositions[n] : n \in 1..3}
  BY <1>1 DEF ToSet
<1>3. 1..3 = {1, 2, 3}
  OBVIOUS
<1> QED
  BY <1>1, <1>2, <1>3

\* Every disposition has a turn of its own.
LEMMA Turns ==
    \A d \in ToSet(Dispositions) : Turn(d) \in 1..3 /\ Dispositions[Turn(d)] = d
<1> TAKE d \in ToSet(Dispositions)
<1>1. DOMAIN Dispositions = 1..3
  BY DEF Dispositions
<1>2. \E n \in DOMAIN Dispositions : Dispositions[n] = d
  BY DEF ToSet
<1> QED
  BY <1>1, <1>2 DEF Turn

\* The rank of a rule that matches is a rule's, that of the default is the next.
LEMMA RankIs ==
    ASSUME NEW path
    PROVE  /\ Len(Rules) \in Nat /\ RankOf(path) \in 1..Len(Rules) + 1
           /\ Classify(path) \in ToSet(Dispositions)
<1> DEFINE I == {i \in 1..Len(Rules) : path \in Rules[i].covers}
           k == SelectInSeq(Rules, LAMBDA r : path \in r.covers)
<1>1. Len(Rules) \in Nat /\ DOMAIN Rules = 1..Len(Rules)
  BY PolicyAssumption
<1>2. k = IF I # {} THEN Min(I) ELSE 0
  BY DEF SelectInSeq
<1>3. I # {} => Min(I) \in I
  <2> SUFFICES ASSUME I # {} PROVE Min(I) \in I
    OBVIOUS
  <2>1. I \subseteq Nat
    BY <1>1
  <2> HIDE DEF I
  <2>2. \E i \in I : \A j \in I : i <= j
    BY <2>1, Least
  <2> QED
    BY <2>2 DEF Min
<1>4. k \in 0..Len(Rules)
  <2>1. I \subseteq 1..Len(Rules)
    OBVIOUS
  <2> HIDE DEF I, k
  <2>2. CASE I = {}
    BY <1>1, <1>2, <2>2
  <2>3. CASE I # {}
    <3>1. k \in 1..Len(Rules)
      BY <1>2, <1>3, <2>1, <2>3
    <3> QED
      BY <1>1, <3>1
  <2> QED
    BY <2>2, <2>3
<1>5. RankOf(path) = IF k = 0 THEN Len(Rules) + 1 ELSE k
  BY DEF RankOf
<1> HIDE DEF k, I
<1>6. RankOf(path) \in 1..Len(Rules) + 1
  BY <1>1, <1>4, <1>5
<1>7. Classify(path) \in ToSet(Dispositions)
  <2>1. CASE RankOf(path) > Len(Rules)
    BY <2>1, PolicyAssumption DEF Classify
  <2>2. CASE ~(RankOf(path) > Len(Rules))
    <3>1. RankOf(path) \in 1..Len(Rules)
      BY <1>1, <1>6, <2>2
    <3>2. Rules[RankOf(path)] \in [covers : SUBSET DOMAIN Form, disposition : ToSet(Dispositions)]
      <4> DEFINE Rule == [covers : SUBSET DOMAIN Form, disposition : ToSet(Dispositions)]
      <4>1. Rules \in Seq(Rule)
        BY PolicyAssumption
      <4> HIDE DEF Rule
      <4>2. Rules[RankOf(path)] \in Rule
        BY <3>1, <4>1
      <4> QED
        BY <4>2 DEF Rule
    <3> QED
      BY <2>2, <3>2 DEF Classify
  <2> QED
    BY <2>1, <2>2
<1> QED
  BY <1>1, <1>6, <1>7

\* The items of a manifest.
LEMMA ItemsAre ==
    ASSUME NEW entries \in Seq(Entry)
    PROVE  /\ Items(entries) \in Seq(Filed) /\ DOMAIN Items(entries) = DOMAIN entries
           /\ \A k \in DOMAIN entries :
                  /\ Items(entries)[k].path = entries[k].path
                  /\ Items(entries)[k].size = entries[k].size
                  /\ BuiltIn(entries, k) => Items(entries)[k].disposition = "rejected"
                  /\ ~BuiltIn(entries, k) =>
                         /\ Items(entries)[k].disposition = Classify(entries[k].path)
                         /\ Items(entries)[k].rank = RankOf(entries[k].path)
<1> DEFINE items == Items(entries)
           disposition(k) == IF BuiltIn(entries, k) THEN "rejected" ELSE Classify(entries[k].path)
           rank(k) == IF BuiltIn(entries, k) THEN Len(Rules) + 2 ELSE RankOf(entries[k].path)
<1>1. DOMAIN entries = 1..Len(entries) /\ Len(entries) \in Nat
  OBVIOUS
<1>2. items = [k \in DOMAIN entries |->
                 [line |-> entries[k].line, path |-> entries[k].path, size |-> entries[k].size,
                  disposition |-> disposition(k), rank |-> rank(k)]]
  BY DEF Items
<1>3. \A k \in DOMAIN entries : entries[k].line \in Nat /\ entries[k].size \in Nat
                                 /\ entries[k].path \in DOMAIN Form
  <2> TAKE k \in DOMAIN entries
  <2>1. entries[k] \in Entry
    OBVIOUS
  <2>2. {EntryOf[t].size : t \in {u \in Texts : EntryOf[u] # None}} \subseteq Nat
    BY TextAssumption
  <2> QED
    BY <2>1, <2>2 DEF Entry
<1>4. \A k \in DOMAIN entries : disposition(k) \in ToSet(Dispositions)
                                 /\ rank(k) \in 1..Len(Rules) + 2
  <2> TAKE k \in DOMAIN entries
  <2>1. CASE BuiltIn(entries, k)
    BY <2>1, RankIs, DispositionsAre
  <2>2. CASE ~BuiltIn(entries, k)
    BY <2>2, RankIs
  <2> QED
    BY <2>1, <2>2
<1>5. \A k \in DOMAIN entries : /\ BuiltIn(entries, k) => disposition(k) = "rejected"
                                /\ ~BuiltIn(entries, k) =>
                                      /\ disposition(k) = Classify(entries[k].path)
                                      /\ rank(k) = RankOf(entries[k].path)
  OBVIOUS
<1> HIDE DEF items, disposition, rank
<1>6. \A k \in DOMAIN entries : items[k] \in Filed
  BY <1>2, <1>3, <1>4 DEF Filed
<1>7. items \in Seq(Filed)
  <2>1. items \in [1..Len(entries) -> Filed]
    BY <1>1, <1>2, <1>6
  <2> QED
    BY <1>1, <2>1, IsASeq
<1> QED
  BY <1>2, <1>5, <1>7 DEF items

\* The order of the buckets is a strict order of the items.
After(items, j, k) ==
    \/ Turn(items[j].disposition) < Turn(items[k].disposition)
    \/ /\ Turn(items[j].disposition) = Turn(items[k].disposition)
       /\ \/ items[j].rank < items[k].rank
          \/ items[j].rank = items[k].rank /\ j < k
LEMMA BucketOrderIs ==
    ASSUME NEW items
    PROVE  \A j, k \in DOMAIN items : <<j, k>> \in BucketOrder(items) <=> After(items, j, k)
BY DEF BucketOrder, After

LEMMA BucketsRank ==
    ASSUME NEW items \in Seq(Filed)
    PROVE  IsFiniteSet(DOMAIN items) /\ Ranks(DOMAIN items, BucketOrder(items))
<1>1. DOMAIN items = 1..Len(items) /\ Len(items) \in Nat
  OBVIOUS
<1>2. IsFiniteSet(DOMAIN items)
  BY <1>1, FS_Interval
<1> DEFINE t(k) == Turn(items[k].disposition)
           r(k) == items[k].rank
<1>3. \A k \in DOMAIN items : t(k) \in Nat /\ r(k) \in Nat /\ k \in Nat
  <2> TAKE k \in DOMAIN items
  <2>1. items[k] \in Filed
    OBVIOUS
  <2>2. items[k].disposition \in ToSet(Dispositions) /\ items[k].rank \in 1..Len(Rules) + 2
    BY <2>1 DEF Filed
  <2> QED
    BY <1>1, <2>2, RankIs, Turns
<1>4. \A j, k \in DOMAIN items :
          <<j, k>> \in BucketOrder(items) <=>
              \/ t(j) < t(k)
              \/ t(j) = t(k) /\ (r(j) < r(k) \/ (r(j) = r(k) /\ j < k))
  BY BucketOrderIs DEF After
<1> HIDE DEF t, r
<1>5. Ranks(DOMAIN items, BucketOrder(items))
  <2>1. \A j \in DOMAIN items : <<j, j>> \notin BucketOrder(items)
    BY <1>3, <1>4
  <2>2. \A j, k \in DOMAIN items :
            j # k => <<j, k>> \in BucketOrder(items) \/ <<k, j>> \in BucketOrder(items)
    <3> TAKE j, k \in DOMAIN items
    <3>1. t(j) \in Nat /\ t(k) \in Nat /\ r(j) \in Nat /\ r(k) \in Nat /\ j \in Nat /\ k \in Nat
      BY <1>3
    <3>2. \/ t(j) < t(k) \/ t(k) < t(j)
          \/ t(j) = t(k) /\ (r(j) < r(k) \/ r(k) < r(j) \/ (r(j) = r(k) /\ (j < k \/ k < j \/ j = k)))
      BY <3>1
    <3> QED
      BY <1>4, <3>2
  <2>3. \A i, j, k \in DOMAIN items :
            <<i, j>> \in BucketOrder(items) /\ <<j, k>> \in BucketOrder(items) =>
                <<i, k>> \in BucketOrder(items)
    <3> TAKE i, j, k \in DOMAIN items
    <3> HAVE <<i, j>> \in BucketOrder(items) /\ <<j, k>> \in BucketOrder(items)
    <3>1. /\ t(i) \in Nat /\ t(j) \in Nat /\ t(k) \in Nat
          /\ r(i) \in Nat /\ r(j) \in Nat /\ r(k) \in Nat
          /\ i \in Nat /\ j \in Nat /\ k \in Nat
      BY <1>3
    <3>2. t(i) < t(j) \/ (t(i) = t(j) /\ (r(i) < r(j) \/ (r(i) = r(j) /\ i < j)))
      BY <1>4
    <3>3. t(j) < t(k) \/ (t(j) = t(k) /\ (r(j) < r(k) \/ (r(j) = r(k) /\ j < k)))
      BY <1>4
    <3>4. t(i) < t(k) \/ (t(i) = t(k) /\ (r(i) < r(k) \/ (r(i) = r(k) /\ i < k)))
      BY <3>1, <3>2, <3>3
    <3> QED
      BY <1>4, <3>4
  <2> QED
    BY <2>1, <2>2, <2>3 DEF Ranks
<1> QED
  BY <1>2, <1>5

\* A manifest holds each item once, in the order of the buckets.
Place(items, n) == InOrder(DOMAIN items, BucketOrder(items))[n]
LEMMA OrderedIs ==
    ASSUME NEW items \in Seq(Filed)
    PROVE  /\ Ordered(items) \in Seq(Filed) /\ DOMAIN Ordered(items) = DOMAIN items
           /\ \A n \in DOMAIN items : /\ Place(items, n) \in DOMAIN items
                                      /\ Ordered(items)[n] = items[Place(items, n)]
           /\ \A k \in DOMAIN items : \E n \in DOMAIN items : Place(items, n) = k
           /\ \A m, n \in DOMAIN items : m < n => After(items, Place(items, m), Place(items, n))
<1> DEFINE D == DOMAIN items
           R == BucketOrder(items)
           L == InOrder(D, R)
<1>1. D = 1..Len(items) /\ Len(items) \in Nat
  OBVIOUS
<1>2. IsFiniteSet(D) /\ Ranks(D, R)
  BY BucketsRank
<1>3. Cardinality(D) = Len(items)
  BY <1>1, FS_Interval
<1>4. \A j, k \in D : <<j, k>> \in R <=> After(items, j, k)
  BY BucketOrderIs
<1>5. \A n : Place(items, n) = L[n]
  BY DEF Place
<1>6. Ordered(items) = [n \in D |-> items[L[n]]]
  BY DEF Ordered
<1> HIDE DEF D, R, L
<1>7. /\ \A n \in D : L[n] \in D
      /\ \A k \in D : \E n \in D : L[n] = k
      /\ \A m, n \in D : m < n => <<L[m], L[n]>> \in R
  <2>1. /\ \A n \in 1..Cardinality(D) : L[n] \in D
        /\ \A x \in D : \E n \in 1..Cardinality(D) : L[n] = x
        /\ \A m, n \in 1..Cardinality(D) : m < n => <<L[m], L[n]>> \in R
    BY <1>2, InOrderLists DEF L
  <2>2. 1..Cardinality(D) = D
    BY <1>1, <1>3
  <2> QED
    BY <2>1, <2>2
<1>8. \A k \in D : items[k] \in Filed
  BY <1>1
<1>9. Ordered(items) \in Seq(Filed)
  <2>1. Ordered(items) \in [1..Len(items) -> Filed]
    BY <1>1, <1>6, <1>7, <1>8
  <2> QED
    BY <1>1, <2>1, IsASeq
<1>10. DOMAIN Ordered(items) = D /\ \A n \in D : Ordered(items)[n] = items[L[n]]
  BY <1>6
<1>11. \A m, n \in D : m < n => After(items, L[m], L[n])
  BY <1>4, <1>7
<1> HIDE DEF Place
<1> QED
  BY <1>5, <1>7, <1>9, <1>10, <1>11 DEF D

\* A queue holds the chosen items of a manifest in its order.
Chosen(items, d) == {k \in DOMAIN items : items[k].disposition = d}
Pick(items, d, n) ==
    InOrder(Chosen(items, d), {p \in Chosen(items, d) \X Chosen(items, d) : p[1] < p[2]})[n]
LEMMA RowsAre ==
    ASSUME NEW items \in Seq(Filed), NEW d
    PROVE  LET rows == Rows(items, d) IN
           /\ DOMAIN rows \subseteq Nat
           /\ \A n \in DOMAIN rows :
                  /\ Pick(items, d, n) \in Chosen(items, d)
                  /\ rows[n].path = items[Pick(items, d, n)].path
                  /\ rows[n].size = items[Pick(items, d, n)].size
           /\ \A k \in Chosen(items, d) : \E n \in DOMAIN rows : Pick(items, d, n) = k
           /\ \A m, n \in DOMAIN rows : m < n => Pick(items, d, m) < Pick(items, d, n)
<1> DEFINE S == Chosen(items, d)
           R == {p \in S \X S : p[1] < p[2]}
           L == InOrder(S, R)
           rows == Rows(items, d)
<1>1. DOMAIN items = 1..Len(items) /\ Len(items) \in Nat
  OBVIOUS
<1>2. S \subseteq 1..Len(items)
  BY <1>1 DEF Chosen
<1>3. IsFiniteSet(S)
  <2>1. IsFiniteSet(1..Len(items))
    BY <1>1, FS_Interval
  <2>2. S \in SUBSET (1..Len(items))
    BY <1>2
  <2> HIDE DEF S
  <2> QED
    BY <2>1, <2>2, FS_Subset
<1>4. \A n : Pick(items, d, n) = L[n]
  BY DEF Pick
<1>5. rows = [n \in DOMAIN L |-> [path |-> items[L[n]].path, size |-> items[L[n]].size]]
  BY DEF Rows, Chosen
<1> HIDE DEF S, L, rows
<1>6. \A j, k \in S : <<j, k>> \in R <=> j < k
  OBVIOUS
<1> HIDE DEF R
<1>7. Ranks(S, R)
  <2>1. S \subseteq Nat
    BY <1>1, <1>2
  <2>2. \A j \in S : <<j, j>> \notin R
    BY <1>6, <2>1
  <2>3. \A j, k \in S : j # k => <<j, k>> \in R \/ <<k, j>> \in R
    BY <1>6, <2>1
  <2>4. \A i, j, k \in S : <<i, j>> \in R /\ <<j, k>> \in R => <<i, k>> \in R
    BY <1>6, <2>1
  <2> QED
    BY <2>2, <2>3, <2>4 DEF Ranks
<1>8. /\ DOMAIN L \subseteq Nat
      /\ \A n \in DOMAIN L : L[n] \in S
      /\ \A k \in S : \E n \in DOMAIN L : L[n] = k
      /\ \A m, n \in DOMAIN L : m < n => L[m] < L[n]
  <2>1. /\ DOMAIN L = 1..Cardinality(S) /\ Cardinality(S) \in Nat
        /\ \A n \in 1..Cardinality(S) : L[n] \in S
        /\ \A x \in S : \E n \in 1..Cardinality(S) : L[n] = x
        /\ \A m, n \in 1..Cardinality(S) : m < n => <<L[m], L[n]>> \in R
    BY <1>3, <1>7, InOrderLists DEF L
  <2>2. DOMAIN L \subseteq Nat
    BY <2>1
  <2>3. \A m, n \in DOMAIN L : m < n => L[m] < L[n]
    <3> TAKE m, n \in DOMAIN L
    <3>1. L[m] \in S /\ L[n] \in S
      BY <2>1
    <3> QED
      BY <1>6, <2>1, <3>1
  <2> QED
    BY <2>1, <2>2, <2>3
<1>9. /\ DOMAIN rows = DOMAIN L
      /\ \A n \in DOMAIN L : rows[n].path = items[L[n]].path /\ rows[n].size = items[L[n]].size
  BY <1>5
<1> HIDE DEF Pick
<1> QED
  BY <1>4, <1>8, <1>9 DEF rows, S

\* The first entry of a path has the least place.
LEMMA FirstAt ==
    ASSUME NEW entries \in Seq(Entry), NEW path \in PathsOf(entries)
    PROVE  \E k \in At(entries, path) : /\ FirstOf(entries, path) = entries[k]
                                        /\ \A j \in At(entries, path) : k <= j
<1> DEFINE A == At(entries, path)
           least == CHOOSE k \in A : \A j \in A : k <= j
<1>1. A # {} /\ A \subseteq Nat
  BY DEF PathsOf, At
<1>2. FirstOf(entries, path) = entries[least]
  BY DEF FirstOf
<1> HIDE DEF A
<1>3. \E k \in A : \A j \in A : k <= j
  BY <1>1, Least
<1> QED
  BY <1>2, <1>3 DEF A

\* The item of an entry that the policy may queue is the first of its path.
LEMMA FirstIs ==
    ASSUME NEW entries \in Seq(Entry)
    PROVE  /\ \A k \in DOMAIN entries :
                  ~BuiltIn(entries, k) => FirstOf(entries, entries[k].path) = entries[k]
           /\ \A path \in PathsOf(entries) :
                  ~Unsafe(FirstOf(entries, path)) =>
                      \E k \in DOMAIN entries : entries[k].path = path /\ ~BuiltIn(entries, k)
<1>1. DOMAIN entries = 1..Len(entries) /\ Len(entries) \in Nat
  OBVIOUS
<1>2. \A path : At(entries, path) \subseteq Nat
  BY <1>1 DEF At
<1>3. ASSUME NEW k \in DOMAIN entries, ~BuiltIn(entries, k)
      PROVE  FirstOf(entries, entries[k].path) = entries[k]
  <2> DEFINE A == At(entries, entries[k].path)
             least == CHOOSE i \in A : \A j \in A : i <= j
  <2>1. k \in A
    BY DEF At
  <2>2. \A j \in A : k <= j
    <3> SUFFICES ASSUME NEW j \in A, ~(k <= j) PROVE FALSE
      OBVIOUS
    <3>1. j \in 1..k - 1 /\ entries[j].path = entries[k].path
      BY <1>1 DEF At
    <3> QED
      BY <1>3, <3>1 DEF BuiltIn, Seen
  <2>3. A \subseteq Nat
    BY <1>2
  <2> HIDE DEF A
  <2>4. least \in A /\ \A j \in A : least <= j
    BY <2>1, <2>2
  <2>5. least <= k /\ k <= least
    BY <2>1, <2>2, <2>4
  <2>6. least = k
    BY <2>1, <2>3, <2>4, <2>5
  <2> QED
    BY <2>6 DEF FirstOf, A
<1>4. ASSUME NEW path \in PathsOf(entries), ~Unsafe(FirstOf(entries, path))
      PROVE  \E k \in DOMAIN entries : entries[k].path = path /\ ~BuiltIn(entries, k)
  <2>1. PICK k \in At(entries, path) : /\ FirstOf(entries, path) = entries[k]
                                       /\ \A j \in At(entries, path) : k <= j
    BY FirstAt
  <2>2. k \in DOMAIN entries /\ entries[k].path = path /\ path # Listing
    BY <2>1 DEF At, PathsOf
  <2>3. ~Seen(entries, k)
    <3> SUFFICES ASSUME NEW j \in 1..k - 1, entries[j].path = path PROVE FALSE
      BY <2>2 DEF Seen
    <3>1. j \in At(entries, path) /\ j < k
      BY <1>1, <2>2 DEF At
    <3> QED
      BY <1>1, <2>1, <2>2, <3>1
  <2> QED
    BY <1>4, <2>1, <2>2, <2>3 DEF BuiltIn
<1> QED
  BY <1>3, <1>4

\* The queue of a disposition that is not the rejected one.
LEMMA QueueIs ==
    ASSUME NEW entries \in Seq(Entry), LineOrder(entries), NEW d \in {"priority", "deferred"}
    PROVE  LET rows == Rows(Ordered(Items(entries)), d) IN
           /\ {rows[k].path : k \in DOMAIN rows} =
                  {p \in PathsOf(entries) : ~Unsafe(FirstOf(entries, p)) /\ Classify(p) = d}
           /\ \A k \in DOMAIN rows : rows[k].size = FirstOf(entries, rows[k].path).size
           /\ \A j, k \in DOMAIN rows : j < k =>
                  \/ RankOf(rows[j].path) < RankOf(rows[k].path)
                  \/ /\ RankOf(rows[j].path) = RankOf(rows[k].path)
                     /\ FirstOf(entries, rows[j].path).line < FirstOf(entries, rows[k].path).line
<1> DEFINE items == Items(entries)
           sorted == Ordered(items)
           rows == Rows(sorted, d)
           of(n) == Place(items, Pick(sorted, d, n))
<1>1. d # "rejected"
  OBVIOUS
<1>2. /\ items \in Seq(Filed) /\ DOMAIN items = DOMAIN entries
      /\ \A k \in DOMAIN entries :
             /\ items[k].path = entries[k].path /\ items[k].size = entries[k].size
             /\ BuiltIn(entries, k) => items[k].disposition = "rejected"
             /\ ~BuiltIn(entries, k) =>
                    /\ items[k].disposition = Classify(entries[k].path)
                    /\ items[k].rank = RankOf(entries[k].path)
  BY ItemsAre
<1> HIDE DEF items
<1>3. /\ sorted \in Seq(Filed) /\ DOMAIN sorted = DOMAIN entries
      /\ \A n \in DOMAIN entries : /\ Place(items, n) \in DOMAIN entries
                                   /\ sorted[n] = items[Place(items, n)]
      /\ \A k \in DOMAIN entries : \E n \in DOMAIN entries : Place(items, n) = k
      /\ \A m, n \in DOMAIN entries : m < n => After(items, Place(items, m), Place(items, n))
  BY <1>2, OrderedIs
<1> HIDE DEF sorted
<1>4. /\ DOMAIN rows \subseteq Nat
      /\ \A n \in DOMAIN rows :
             /\ Pick(sorted, d, n) \in Chosen(sorted, d)
             /\ rows[n].path = sorted[Pick(sorted, d, n)].path
             /\ rows[n].size = sorted[Pick(sorted, d, n)].size
      /\ \A k \in Chosen(sorted, d) : \E n \in DOMAIN rows : Pick(sorted, d, n) = k
      /\ \A m, n \in DOMAIN rows : m < n => Pick(sorted, d, m) < Pick(sorted, d, n)
  BY <1>3, RowsAre
<1> HIDE DEF rows
<1>5. \A n \in DOMAIN rows : Pick(sorted, d, n) \in DOMAIN entries
                             /\ sorted[Pick(sorted, d, n)].disposition = d
  BY <1>3, <1>4 DEF Chosen
<1>6. ASSUME NEW n \in DOMAIN rows
      PROVE  /\ of(n) \in DOMAIN entries /\ ~BuiltIn(entries, of(n))
             /\ rows[n].path = entries[of(n)].path /\ rows[n].size = entries[of(n)].size
             /\ Classify(rows[n].path) = d /\ items[of(n)].disposition = d
             /\ items[of(n)].rank = RankOf(rows[n].path)
             /\ FirstOf(entries, rows[n].path) = entries[of(n)]
  <2>1. of(n) \in DOMAIN entries /\ items[of(n)].disposition = d
    BY <1>3, <1>5
  <2>2. rows[n].path = entries[of(n)].path /\ rows[n].size = entries[of(n)].size
    <3>1. sorted[Pick(sorted, d, n)] = items[of(n)]
      BY <1>3, <1>5
    <3> HIDE DEF of
    <3>2. rows[n].path = items[of(n)].path /\ rows[n].size = items[of(n)].size
      BY <1>4, <3>1
    <3> QED
      BY <1>2, <2>1, <3>2
  <2> HIDE DEF of
  <2>3. ~BuiltIn(entries, of(n))
    BY <1>1, <1>2, <2>1
  <2>4. FirstOf(entries, rows[n].path) = entries[of(n)]
    BY <2>1, <2>2, <2>3, FirstIs
  <2> QED
    BY <1>2, <2>1, <2>2, <2>3, <2>4
<1>7. {rows[k].path : k \in DOMAIN rows} =
          {p \in PathsOf(entries) : ~Unsafe(FirstOf(entries, p)) /\ Classify(p) = d}
  <2>1. ASSUME NEW n \in DOMAIN rows
        PROVE  /\ rows[n].path \in PathsOf(entries) /\ Classify(rows[n].path) = d
               /\ ~Unsafe(FirstOf(entries, rows[n].path))
    <3> HIDE DEF of
    <3> QED
      BY <1>6 DEF BuiltIn, PathsOf
  <2>2. ASSUME NEW p \in PathsOf(entries), ~Unsafe(FirstOf(entries, p)), Classify(p) = d
        PROVE  \E n \in DOMAIN rows : rows[n].path = p
    <3>1. PICK k \in DOMAIN entries : entries[k].path = p /\ ~BuiltIn(entries, k)
      BY <2>2, FirstIs
    <3>2. items[k].disposition = d /\ items[k].path = p
      BY <1>2, <2>2, <3>1
    <3>3. PICK m \in DOMAIN entries : Place(items, m) = k
      BY <1>3
    <3>4. sorted[m] = items[k] /\ m \in Chosen(sorted, d)
      BY <1>3, <3>2, <3>3 DEF Chosen
    <3>5. PICK n \in DOMAIN rows : Pick(sorted, d, n) = m
      BY <1>4, <3>4
    <3> QED
      BY <1>4, <3>2, <3>4, <3>5
  <2> QED
    BY <2>1, <2>2
<1>8. ASSUME NEW j \in DOMAIN rows, NEW k \in DOMAIN rows, j < k
      PROVE  \/ RankOf(rows[j].path) < RankOf(rows[k].path)
             \/ /\ RankOf(rows[j].path) = RankOf(rows[k].path)
                /\ FirstOf(entries, rows[j].path).line < FirstOf(entries, rows[k].path).line
  <2>1. After(items, of(j), of(k))
    BY <1>3, <1>4, <1>5, <1>8
  <2> HIDE DEF of
  <2>2. \/ items[of(j)].rank < items[of(k)].rank
        \/ items[of(j)].rank = items[of(k)].rank /\ of(j) < of(k)
    <3>1. items[of(j)].disposition = d /\ items[of(k)].disposition = d
      BY <1>6
    <3>2. Turn(d) \in Nat
      BY DispositionsAre, Turns
    <3> QED
      BY <2>1, <3>1, <3>2 DEF After
  <2>3. of(j) < of(k) => entries[of(j)].line < entries[of(k)].line
    BY <1>6 DEF LineOrder
  <2> QED
    BY <1>6, <2>2, <2>3
<1>9. \A k \in DOMAIN rows : rows[k].size = FirstOf(entries, rows[k].path).size
  <2> HIDE DEF of
  <2> QED
    BY <1>6
<1> QED
  BY <1>7, <1>8, <1>9 DEF rows, sorted, items

-----------------------------------------------------------------------------
(* The diff of two listings.                                               *)

\* The entries of one path.
LEMMA AtIs ==
    ASSUME NEW entries \in Seq(Entry), NEW path
    PROVE  /\ Cardinality(At(entries, path)) \in Nat
           /\ Cardinality(At(entries, path)) > 1 <=>
                  \E j, k \in At(entries, path) : j # k
           /\ path # Listing => (path \in PathsOf(entries) <=> At(entries, path) # {})
           /\ path \in DOMAIN Form \/ path \notin PathsOf(entries)
           /\ path # Listing => (path \in Dups(entries) <=> Cardinality(At(entries, path)) > 1)
           /\ path \notin PathsOf(entries) => SizeIn(entries, path) = None
           /\ path \in PathsOf(entries) =>
                  /\ SizeIn(entries, path) # None
                  /\ \E k \in At(entries, path) : SizeIn(entries, path) = entries[k].size
<1> DEFINE A == At(entries, path)
<1>1. DOMAIN entries = 1..Len(entries) /\ Len(entries) \in Nat
  OBVIOUS
<1>2. A \subseteq 1..Len(entries)
  BY <1>1 DEF At
<1>3. IsFiniteSet(A)
  <2>1. IsFiniteSet(1..Len(entries))
    BY <1>1, FS_Interval
  <2>2. A \in SUBSET (1..Len(entries))
    BY <1>2
  <2> HIDE DEF A
  <2> QED
    BY <2>1, <2>2, FS_Subset
<1>4. Cardinality(A) \in Nat /\ (Cardinality(A) > 1 <=> \E j, k \in A : j # k)
  <2> HIDE DEF A
  <2> QED
    BY <1>3, AtMostOneMember
<1>5. path # Listing => (path \in PathsOf(entries) <=> A # {})
  BY DEF PathsOf, At
<1>6. \A k \in DOMAIN entries : entries[k].size \in Nat /\ entries[k].path \in DOMAIN Form
  <2> TAKE k \in DOMAIN entries
  <2>1. entries[k] \in Entry
    OBVIOUS
  <2>2. {EntryOf[t].size : t \in {u \in Texts : EntryOf[u] # None}} \subseteq Nat
    BY TextAssumption
  <2> QED
    BY <2>1, <2>2 DEF Entry
<1>7. path \in DOMAIN Form \/ path \notin PathsOf(entries)
  BY <1>6 DEF PathsOf
<1>8. path # Listing => (path \in Dups(entries) <=> Cardinality(A) > 1)
  <2> HIDE DEF A
  <2>1. Cardinality(A) > 1 => A # {}
    BY <1>4
  <2> QED
    BY <1>5, <2>1 DEF Dups, A
<1>9. path \notin PathsOf(entries) => SizeIn(entries, path) = None
  BY DEF SizeIn
<1>10. ASSUME path \in PathsOf(entries)
       PROVE  /\ SizeIn(entries, path) # None
              /\ \E k \in A : SizeIn(entries, path) = entries[k].size
  <2>1. PICK k \in A : FirstOf(entries, path) = entries[k]
    BY <1>10, FirstAt
  <2>2. SizeIn(entries, path) = entries[k].size
    BY <1>10, <2>1 DEF SizeIn
  <2>3. entries[k].size \in Nat
    BY <1>1, <1>2, <1>6
  <2> QED
    BY <2>2, <2>3, NoneAssumption
<1> QED
  BY <1>4, <1>5, <1>7, <1>8, <1>9, <1>10

\* The first entry of a path tells whether the only one of it is unsafe.
LEMMA DoubtIs ==
    ASSUME NEW entries \in Seq(Entry), NEW path, path # Listing
    PROVE  path \in Dups(entries) \/ UnsafeIn(entries, path) <=>
               \/ \E k \in At(entries, path) : Unsafe(entries[k])
               \/ Cardinality(At(entries, path)) > 1
<1>1. path \in Dups(entries) <=> Cardinality(At(entries, path)) > 1
  BY AtIs
<1>2. ASSUME UnsafeIn(entries, path) PROVE \E k \in At(entries, path) : Unsafe(entries[k])
  <2>1. PICK k \in At(entries, path) : FirstOf(entries, path) = entries[k]
    BY <1>2, FirstAt DEF UnsafeIn
  <2> QED
    BY <1>2, <2>1 DEF UnsafeIn
<1>3. ASSUME NEW k \in At(entries, path), Unsafe(entries[k]),
             ~(Cardinality(At(entries, path)) > 1)
      PROVE  UnsafeIn(entries, path)
  <2>1. path \in PathsOf(entries)
    BY AtIs
  <2>2. PICK j \in At(entries, path) : FirstOf(entries, path) = entries[j]
    BY <2>1, FirstAt
  <2>3. j = k
    BY <1>3, AtIs
  <2> QED
    BY <1>3, <2>1, <2>2, <2>3 DEF UnsafeIn
<1> QED
  BY <1>1, <1>2, <1>3

\* The category of a path by itself.
LEMMA CategoryIs ==
    ASSUME NEW old \in Seq(Entry), NEW new \in Seq(Entry),
           NEW path \in PathsOf(old) \cup PathsOf(new)
    PROVE  LET c == Category(old, new, path) IN
           /\ c \in {"added", "removed", "metadata_changed", "ambiguous", "unchanged"}
           /\ c = "ambiguous" <=> Doubtful(old, new, path)
           /\ ~Doubtful(old, new, path) =>
                  /\ c = "added" <=> OnlyIn(new, old, path)
                  /\ c = "removed" <=> OnlyIn(old, new, path)
                  /\ c = "unchanged" <=> SameSize(old, new, path)
<1> DEFINE c == Category(old, new, path)
           b == SizeIn(old, path)
           a == SizeIn(new, path)
           D == \E side \in {old, new} : path \in Dups(side) \/ UnsafeIn(side, path)
           C == IF b = None THEN "added" ELSE IF a = None THEN "removed"
                ELSE IF b # a THEN "metadata_changed" ELSE "unchanged"
<1>1. path # Listing
  BY DEF PathsOf
<1>2. D <=> Doubtful(old, new, path)
  <2>1. path \in Dups(old) \/ UnsafeIn(old, path) <=>
            (\E k \in At(old, path) : Unsafe(old[k])) \/ Cardinality(At(old, path)) > 1
    BY <1>1, DoubtIs
  <2>2. path \in Dups(new) \/ UnsafeIn(new, path) <=>
            (\E k \in At(new, path) : Unsafe(new[k])) \/ Cardinality(At(new, path)) > 1
    BY <1>1, DoubtIs
  <2> QED
    BY <2>1, <2>2 DEF Doubtful
<1>3. (b = None <=> path \notin PathsOf(old)) /\ (a = None <=> path \notin PathsOf(new))
  <2>1. b = None <=> path \notin PathsOf(old)
    BY AtIs
  <2>2. a = None <=> path \notin PathsOf(new)
    BY AtIs
  <2> QED
    BY <2>1, <2>2
<1>4. (D => c = "ambiguous") /\ (~D => c = C)
  <2>1. c = CASE D -> "ambiguous" [] OTHER -> C
    BY DEF Category
  <2> HIDE DEF c, D, C
  <2> QED
    BY <2>1
<1>5. ASSUME ~D, path \in PathsOf(old), path \in PathsOf(new)
      PROVE  b = a <=> SameSize(old, new, path)
  <2>1. PICK j \in At(old, path) : b = old[j].size
    BY <1>5, AtIs
  <2>2. PICK k \in At(new, path) : a = new[k].size
    BY <1>5, AtIs
  <2>3. /\ \A i \in At(old, path) : i = j
        /\ \A i \in At(new, path) : i = k
    <3>1. /\ ~(Cardinality(At(old, path)) > 1)
          /\ ~(Cardinality(At(new, path)) > 1)
      BY <1>2, <1>5 DEF Doubtful
    <3>2. \A i \in At(old, path) : i = j
      BY <3>1, AtIs
    <3>3. \A i \in At(new, path) : i = k
      BY <3>1, AtIs
    <3> QED
      BY <3>2, <3>3
  <2>4. old[j] \in ToSet(old) /\ old[j].path = path /\ new[k] \in ToSet(new) /\ new[k].path = path
    BY DEF At, ToSet
  <2>5. ASSUME NEW e \in ToSet(old), e.path = path PROVE e = old[j]
    <3> PICK i \in DOMAIN old : e = old[i]
      BY DEF ToSet
    <3> QED
      BY <2>3, <2>5 DEF At
  <2>6. ASSUME NEW e \in ToSet(new), e.path = path PROVE e = new[k]
    <3> PICK i \in DOMAIN new : e = new[i]
      BY DEF ToSet
    <3> QED
      BY <2>3, <2>6 DEF At
  <2> HIDE DEF a, b
  <2> QED
    BY <2>1, <2>2, <2>4, <2>5, <2>6 DEF SameSize
<1>6. SameSize(old, new, path) => path \in PathsOf(old) /\ path \in PathsOf(new)
  BY <1>1 DEF SameSize, ToSet, PathsOf
<1>7. c \in {"added", "removed", "metadata_changed", "ambiguous", "unchanged"}
  <2> HIDE DEF a, b, c, D
  <2> QED
    BY <1>4
<1>8. c = "ambiguous" <=> D
  <2> HIDE DEF a, b, c, D
  <2> QED
    BY <1>4
<1> HIDE DEF a, b, c, D
<1>9. ASSUME ~D
      PROVE  /\ c = "added" <=> OnlyIn(new, old, path)
             /\ c = "removed" <=> OnlyIn(old, new, path)
             /\ c = "unchanged" <=> SameSize(old, new, path)
  <2>1. CASE b = None
    BY <1>3, <1>4, <1>6, <1>9, <2>1 DEF OnlyIn
  <2>2. CASE b # None /\ a = None
    BY <1>3, <1>4, <1>6, <1>9, <2>2 DEF OnlyIn
  <2>3. CASE b # None /\ a # None
    BY <1>3, <1>4, <1>5, <1>9, <2>3 DEF OnlyIn
  <2> QED
    BY <2>1, <2>2, <2>3
<1> QED
  BY <1>2, <1>7, <1>8, <1>9 DEF c

\* A path is ambiguous by itself or because its name changed its form.
LEMMA DiffIs ==
    ASSUME NEW old \in Seq(Entry), NEW new \in Seq(Entry)
    PROVE  LET diff == Diff(old, new) IN
           /\ DOMAIN diff = PathsOf(old) \cup PathsOf(new)
           /\ \A p \in DOMAIN diff :
                  /\ diff[p] \in {"added", "removed", "metadata_changed", "ambiguous", "unchanged"}
                  /\ diff[p] = "ambiguous" <=> Ambiguous(old, new, p)
                  /\ diff[p] # "ambiguous" =>
                         /\ diff[p] = "added" <=> OnlyIn(new, old, p)
                         /\ diff[p] = "removed" <=> OnlyIn(old, new, p)
                         /\ diff[p] = "unchanged" <=> SameSize(old, new, p)
<1> DEFINE P == PathsOf(old) \cup PathsOf(new)
           first == [p \in P |-> Category(old, new, p)]
           diff == Diff(old, new)
<1>1. /\ DOMAIN diff = P
      /\ \A p \in P : diff[p] = IF Twin(first, p) THEN "ambiguous" ELSE first[p]
  BY DEF Diff
<1>2. DOMAIN first = P /\ \A p \in P : first[p] = Category(old, new, p)
  OBVIOUS
<1> HIDE DEF first, diff
<1>3. \A p \in P :
          /\ first[p] \in {"added", "removed", "metadata_changed", "ambiguous", "unchanged"}
          /\ first[p] = "ambiguous" <=> Doubtful(old, new, p)
          /\ ~Doubtful(old, new, p) => /\ first[p] = "added" <=> OnlyIn(new, old, p)
                                       /\ first[p] = "removed" <=> OnlyIn(old, new, p)
                                       /\ first[p] = "unchanged" <=> SameSize(old, new, p)
  BY <1>2, CategoryIs
<1>4. P \subseteq DOMAIN Form
  <2>1. \A p : p \in PathsOf(old) => p \in DOMAIN Form
    BY AtIs
  <2>2. \A p : p \in PathsOf(new) => p \in DOMAIN Form
    BY AtIs
  <2> QED
    BY <2>1, <2>2
<1>5. \A p : OnlyIn(old, new, p) \/ OnlyIn(new, old, p) => p \in P
  BY DEF OnlyIn
<1>6. \A p : Ambiguous(old, new, p) <=>
                 \/ Doubtful(old, new, p)
                 \/ \E q \in DOMAIN Form :
                        /\ Form[q] = Form[p]
                        /\ \/ OnlyIn(old, new, p) /\ OnlyIn(new, old, q)
                           \/ OnlyIn(new, old, p) /\ OnlyIn(old, new, q)
                        /\ ~Doubtful(old, new, q)
  BY DEF Ambiguous, Variants
<1> HIDE DEF P
<1>7. ASSUME NEW p \in P PROVE diff[p] = "ambiguous" <=> Ambiguous(old, new, p)
  <2>1. CASE Doubtful(old, new, p)
    BY <1>1, <1>3, <1>6, <2>1
  <2>2. CASE ~Doubtful(old, new, p)
    <3>1. first[p] # "ambiguous"
      BY <1>3, <2>2
    <3>2. diff[p] = "ambiguous" <=> Twin(first, p)
      BY <1>1, <3>1
    <3>3. ASSUME Twin(first, p) PROVE Ambiguous(old, new, p)
      <4>1. PICK q \in P : {first[q], first[p]} = {"added", "removed"} /\ Form[q] = Form[p]
        BY <1>2, <3>3 DEF Twin
      <4>2. ~Doubtful(old, new, q)
        <5>1. first[q] # "ambiguous"
          BY <4>1
        <5> QED
          BY <1>3, <5>1
      <4>3. \/ OnlyIn(old, new, p) /\ OnlyIn(new, old, q)
            \/ OnlyIn(new, old, p) /\ OnlyIn(old, new, q)
        <5>1. \/ first[p] = "removed" /\ first[q] = "added"
              \/ first[p] = "added" /\ first[q] = "removed"
          BY <4>1
        <5> QED
          BY <1>3, <2>2, <4>2, <5>1
      <4> QED
        BY <1>4, <1>6, <4>1, <4>2, <4>3
    <3>4. ASSUME Ambiguous(old, new, p) PROVE Twin(first, p)
      <4>1. PICK q \in DOMAIN Form :
                /\ Form[q] = Form[p]
                /\ \/ OnlyIn(old, new, p) /\ OnlyIn(new, old, q)
                   \/ OnlyIn(new, old, p) /\ OnlyIn(old, new, q)
                /\ ~Doubtful(old, new, q)
        BY <1>6, <2>2, <3>4
      <4>2. q \in P /\ ~Doubtful(old, new, q)
        BY <1>5, <4>1
      <4>3. \/ first[p] = "removed" /\ first[q] = "added"
            \/ first[p] = "added" /\ first[q] = "removed"
        BY <1>3, <2>2, <4>1, <4>2
      <4>4. {first[q], first[p]} = {"added", "removed"}
        BY <4>3
      <4> QED
        BY <1>2, <4>1, <4>2, <4>4 DEF Twin
    <3> QED
      BY <3>2, <3>3, <3>4
  <2> QED
    BY <2>1, <2>2
<1>8. ASSUME NEW p \in P, diff[p] # "ambiguous" PROVE diff[p] = first[p] /\ ~Doubtful(old, new, p)
  BY <1>1, <1>3, <1>8
<1>9. ASSUME NEW p \in P
       PROVE  /\ diff[p] \in {"added", "removed", "metadata_changed", "ambiguous", "unchanged"}
              /\ diff[p] # "ambiguous" =>
                     /\ diff[p] = "added" <=> OnlyIn(new, old, p)
                     /\ diff[p] = "removed" <=> OnlyIn(old, new, p)
                     /\ diff[p] = "unchanged" <=> SameSize(old, new, p)
  BY <1>3, <1>8
<1> QED
  BY <1>1, <1>7, <1>9 DEF diff, P

-----------------------------------------------------------------------------
(* The inductive invariant.                                                *)

Stored == [raw : Seq(Lines), sha : Seq(Lines), accepted : BOOLEAN]
StoreInv ==
    /\ store \in Seq(Stored)
    /\ log \in Seq([snapshot : Nat, previous : Nat \cup {None}])
    /\ \A k \in DOMAIN log : log[k].snapshot \in DOMAIN store /\ store[log[k].snapshot].accepted
    /\ commands \in 0..MaxCommands /\ damages \in 0..MaxDamages
\* The recorded digest of a manifest stays that of the items of its snapshot.
ManifestInv ==
    manifest # None =>
        /\ manifest \in [snapshot : Seq(Lines), items : Seq(Filed), sha : Seq(Filed)]
        /\ manifest.sha = Ordered(Items(Parse(manifest.snapshot).entries))
        /\ \E k \in DOMAIN store : store[k].sha = manifest.snapshot /\ store[k].accepted
QueueInv ==
    /\ queue # None => /\ manifest # None /\ queue.disposition \in {"priority", "deferred"}
                       /\ queue.rows = Rows(manifest.sha, queue.disposition)
    /\ sidecar \in {None, <<>>, <<queue>>} /\ exporting \in {None, queue}
ReportInv ==
    report # None =>
        /\ report.old \in Seq(Lines) /\ report.new \in Seq(Lines)
        /\ report.categories = Diff(Parse(report.old).entries, Parse(report.new).entries)
Inv == StoreInv /\ ManifestInv /\ QueueInv /\ ReportInv

\* Snapshots stay, whatever a step does to their files.
Kept == \A k \in DOMAIN store : /\ k \in DOMAIN store' /\ store'[k].sha = store[k].sha
                                /\ store'[k].accepted = store[k].accepted
LEMMA StoreStep ==
    ASSUME StoreInv, Next
    PROVE  store' \in Seq(Stored) /\ Kept
<1>1. store \in Seq(Stored) /\ DOMAIN store = 1..Len(store) /\ Len(store) \in Nat
  BY DEF StoreInv
<1>2. \A k \in DOMAIN store : store[k] \in Stored
  BY <1>1
<1>3. CASE store' = store
  BY <1>1, <1>3 DEF Kept
<1>4. CASE Snapshot
  <2> PICK text \in Listings :
          store' = Append(store, [raw |-> text, sha |-> text, accepted |-> Accepted(text)])
    BY <1>4 DEF Snapshot, ListingsUpTo
  <2> DEFINE s == [raw |-> text, sha |-> text, accepted |-> Accepted(text)]
  <2>1. s \in Stored
    <3>1. text \in Seq(Lines) /\ Accepted(text) \in BOOLEAN
      BY TextAssumption DEF Accepted
    <3> QED
      BY <3>1 DEF Stored
  <2> HIDE DEF s
  <2>2. store' = Append(store, s)
    BY DEF s
  <2>3. /\ store' \in Seq(Stored) /\ DOMAIN store' = 1..Len(store) + 1
        /\ \A k \in 1..Len(store) : store'[k] = store[k]
    BY <1>1, <2>1, <2>2
  <2> QED
    BY <1>1, <2>3 DEF Kept
<1>5. ASSUME NEW i \in DOMAIN store, DamageSnapshot(i) PROVE store' \in Seq(Stored) /\ Kept
  <2> DEFINE r == Tail(store[i].raw)
  <2>1. store' = [store EXCEPT ![i] = [store[i] EXCEPT !.raw = r]]
    BY <1>5 DEF DamageSnapshot
  <2>2. r \in Seq(Lines)
    <3>1. store[i].raw \in Seq(Lines) /\ store[i].raw # <<>>
      BY <1>2, <1>5 DEF DamageSnapshot, Stored
    <3> QED
      BY <3>1
  <2> HIDE DEF r
  <2> DEFINE s == [store[i] EXCEPT !.raw = r]
  <2>3. s \in Stored /\ s.sha = store[i].sha /\ s.accepted = store[i].accepted
    BY <1>2, <2>2 DEF Stored
  <2>4. store' = [store EXCEPT ![i] = s]
    BY <2>1
  <2> HIDE DEF s
  <2>5. store' \in Seq(Stored) /\ DOMAIN store' = DOMAIN store
    BY <1>1, <2>3, <2>4
  <2>6. \A k \in DOMAIN store : store'[k] = IF k = i THEN s ELSE store[k]
    BY <1>1, <2>4
  <2> QED
    BY <2>3, <2>5, <2>6 DEF Kept
<1>6. Snapshot \/ (\E k \in DOMAIN store : DamageSnapshot(k)) \/ store' = store
  BY DEF Next, Activate, WriteManifest, WriteDiff, LinkQueue, CreateSidecar, WriteSidecar, Kill,
         DamageManifest
<1> QED
  BY <1>3, <1>4, <1>5, <1>6

LEMMA LogStep ==
    ASSUME StoreInv, Next
    PROVE  StoreInv'
<1> DEFINE R == [snapshot : Nat, previous : Nat \cup {None}]
<1>1. /\ store \in Seq(Stored) /\ DOMAIN store = 1..Len(store) /\ Len(store) \in Nat
      /\ log \in Seq(R) /\ DOMAIN log = 1..Len(log) /\ Len(log) \in Nat
      /\ \A k \in DOMAIN log : log[k].snapshot \in DOMAIN store /\ store[log[k].snapshot].accepted
      /\ commands \in 0..MaxCommands /\ damages \in 0..MaxDamages
  BY DEF StoreInv
<1>2. store' \in Seq(Stored) /\ Kept
  BY StoreStep
<1>3. commands' \in 0..MaxCommands /\ damages' \in 0..MaxDamages
  <2>1. /\ commands' = commands \/ (commands < MaxCommands /\ commands' = commands + 1)
        /\ damages' = damages \/ (damages < MaxDamages /\ damages' = damages + 1)
    BY DEF Next, Command, Snapshot, Activate, WriteManifest, WriteDiff, LinkQueue,
           CreateSidecar, WriteSidecar, Kill, DamageManifest, DamageSnapshot
  <2> QED
    BY <1>1, <2>1, BoundsAssumption
<1>4. CASE log' = log
  BY <1>1, <1>2, <1>3, <1>4 DEF StoreInv, Kept
<1>5. ASSUME NEW i \in DOMAIN store, Activate(i) PROVE StoreInv'
  <2> DEFINE previous == IF log = <<>> THEN None ELSE Last(log).snapshot
             r == [snapshot |-> i, previous |-> previous]
  <2>1. log' = Append(log, r) /\ store[i].accepted /\ store' = store
    BY <1>5 DEF Activate, Loads
  <2>2. previous \in Nat \cup {None}
    <3>1. CASE log = <<>>
      BY <3>1
    <3>2. CASE log # <<>>
      <4>1. log[Len(log)] \in R
        <5> HIDE DEF R
        <5>1. Len(log) \in DOMAIN log
          BY <1>1, <3>2
        <5> QED
          BY <1>1, <5>1
      <4> QED
        BY <3>2, <4>1 DEF Last
    <3> QED
      BY <3>1, <3>2
  <2> HIDE DEF previous
  <2>3. r \in R /\ r.snapshot = i
    BY <1>1, <2>2
  <2> HIDE DEF r, R
  <2>4. /\ log' \in Seq(R) /\ DOMAIN log' = 1..Len(log) + 1
        /\ log'[Len(log) + 1] = r /\ \A k \in 1..Len(log) : log'[k] = log[k]
    BY <1>1, <2>1, <2>3
  <2>5. ASSUME NEW k \in 1..Len(log) + 1
        PROVE  log'[k].snapshot \in DOMAIN store /\ store[log'[k].snapshot].accepted
    <3>1. CASE k = Len(log) + 1
      BY <2>1, <2>3, <2>4, <3>1
    <3>2. CASE k # Len(log) + 1
      <4>1. k \in 1..Len(log)
        BY <1>1, <3>2
      <4> QED
        BY <1>1, <2>4, <4>1
    <3> QED
      BY <3>1, <3>2
  <2> QED
    BY <1>2, <1>3, <2>1, <2>4, <2>5 DEF StoreInv, R
<1>6. (\E k \in DOMAIN store : Activate(k)) \/ log' = log
  BY DEF Next, Snapshot, WriteManifest, WriteDiff, LinkQueue, CreateSidecar, WriteSidecar, Kill,
         DamageManifest, DamageSnapshot
<1> QED
  BY <1>4, <1>5, <1>6

\* What a snapshot that loads holds.
LEMMA LoadsIs ==
    ASSUME StoreInv, NEW k \in DOMAIN store, Loads(k)
    PROVE  /\ store[k].sha \in Seq(Lines) /\ store[k].accepted
           /\ EntriesOf(k) = Parse(store[k].sha).entries
<1>1. store[k] \in Stored
  BY DEF StoreInv
<1> QED
  BY <1>1 DEF Stored, Loads, EntriesOf

LEMMA ManifestStep ==
    ASSUME StoreInv, ManifestInv, Next
    PROVE  ManifestInv' /\ (manifest # None => manifest' # None /\ manifest'.sha = manifest.sha)
<1> DEFINE M == [snapshot : Seq(Lines), items : Seq(Filed), sha : Seq(Filed)]
<1>1. Kept
  BY StoreStep
<1>2. CASE manifest' = manifest
  BY <1>1, <1>2 DEF ManifestInv, Kept
<1>3. ASSUME NEW k \in DOMAIN store, WriteManifest(k) PROVE ManifestInv' /\ manifest = None
  <2> DEFINE items == Ordered(Items(EntriesOf(k)))
  <2>1. /\ manifest = None /\ Loads(k) /\ store' = store
        /\ manifest' = [snapshot |-> store[k].sha, items |-> items, sha |-> items]
    BY <1>3 DEF WriteManifest
  <2>2. /\ store[k].sha \in Seq(Lines) /\ store[k].accepted
        /\ EntriesOf(k) = Parse(store[k].sha).entries
    BY <2>1, LoadsIs
  <2>3. items \in Seq(Filed)
    BY <2>2, EntriesInOrder, ItemsAre, OrderedIs
  <2>4. items = Ordered(Items(Parse(store[k].sha).entries))
    BY <2>2
  <2> HIDE DEF items
  <2>5. /\ manifest' \in M /\ manifest'.snapshot = store[k].sha /\ manifest'.sha = items
    BY <2>1, <2>2, <2>3
  <2> QED
    BY <2>1, <2>2, <2>4, <2>5 DEF ManifestInv
<1>4. ASSUME DamageManifest
      PROVE  ManifestInv' /\ manifest' # None /\ manifest'.sha = manifest.sha
  <2>1. /\ manifest # None /\ manifest.items # <<>> /\ store' = store
        /\ manifest' = [manifest EXCEPT !.items = Tail(@)]
    BY <1>4 DEF DamageManifest
  <2>2. manifest \in M
    BY <2>1 DEF ManifestInv
  <2>3. Tail(manifest.items) \in Seq(Filed)
    <3>1. manifest.items \in Seq(Filed)
      BY <2>2
    <3> QED
      BY <2>1, <3>1
  <2>4. manifest' \in M /\ manifest'.snapshot = manifest.snapshot /\ manifest'.sha = manifest.sha
    BY <2>1, <2>2, <2>3
  <2>5. manifest' # None
    BY <2>4, NoneAssumption
  <2> QED
    BY <2>1, <2>4, <2>5 DEF ManifestInv
<1>5. (\E k \in DOMAIN store : WriteManifest(k)) \/ DamageManifest \/ manifest' = manifest
  BY DEF Next, Snapshot, Activate, WriteDiff, LinkQueue, CreateSidecar, WriteSidecar, Kill,
         DamageSnapshot
<1> QED
  BY <1>2, <1>3, <1>4, <1>5

LEMMA QueueStep ==
    ASSUME StoreInv, ManifestInv, QueueInv, Next
    PROVE  QueueInv'
<1>1. manifest # None => manifest' # None /\ manifest'.sha = manifest.sha
  BY ManifestStep
<1>2. CASE queue' = queue /\ sidecar' = sidecar /\ exporting' = exporting
  BY <1>1, <1>2 DEF QueueInv
<1>3. ASSUME NEW d \in ToSet(Dispositions), LinkQueue(d) PROVE QueueInv'
  <2>1. /\ manifest # None /\ manifest' = manifest /\ sidecar = None /\ sidecar' = sidecar
        /\ d \in {"priority", "deferred"} /\ manifest.items = manifest.sha
        /\ queue' = [manifest |-> manifest.sha, disposition |-> d,
                     rows |-> Rows(manifest.items, d)]
        /\ exporting' = queue'
    BY <1>3 DEF LinkQueue, Verified
  <2>2. queue'.disposition = d /\ queue'.rows = Rows(manifest.sha, d)
    BY <2>1
  <2> QED
    BY <2>1, <2>2 DEF QueueInv
<1>4. CASE CreateSidecar \/ WriteSidecar \/ Kill
  BY <1>1, <1>4 DEF CreateSidecar, WriteSidecar, Kill, QueueInv
<1>5. \/ \E d \in ToSet(Dispositions) : LinkQueue(d)
      \/ CreateSidecar \/ WriteSidecar \/ Kill
      \/ queue' = queue /\ sidecar' = sidecar /\ exporting' = exporting
  BY DEF Next, Snapshot, Activate, WriteManifest, WriteDiff, DamageManifest, DamageSnapshot
<1> QED
  BY <1>2, <1>3, <1>4, <1>5

LEMMA ReportStep ==
    ASSUME StoreInv, ReportInv, Next
    PROVE  ReportInv'
<1>1. CASE report' = report
  BY <1>1 DEF ReportInv
<1>2. ASSUME NEW j \in DOMAIN store, NEW k \in DOMAIN store, WriteDiff(j, k) PROVE ReportInv'
  <2>1. /\ Loads(j) /\ Loads(k)
        /\ report' = [old |-> store[j].sha, new |-> store[k].sha,
                      categories |-> Diff(EntriesOf(j), EntriesOf(k))]
    BY <1>2 DEF WriteDiff
  <2>2. /\ store[j].sha \in Seq(Lines) /\ EntriesOf(j) = Parse(store[j].sha).entries
        /\ store[k].sha \in Seq(Lines) /\ EntriesOf(k) = Parse(store[k].sha).entries
    BY <2>1, LoadsIs
  <2>3. /\ report'.old = store[j].sha /\ report'.new = store[k].sha
        /\ report'.categories = Diff(EntriesOf(j), EntriesOf(k))
    BY <2>1
  <2> QED
    BY <2>2, <2>3 DEF ReportInv
<1>3. (\E j, k \in DOMAIN store : WriteDiff(j, k)) \/ report' = report
  BY DEF Next, Snapshot, Activate, WriteManifest, LinkQueue, CreateSidecar, WriteSidecar, Kill,
         DamageManifest, DamageSnapshot
<1> QED
  BY <1>1, <1>2, <1>3

-----------------------------------------------------------------------------
(* The theorems.                                                           *)

LEMMA InitInv == Init => Inv
<1> SUFFICES ASSUME Init PROVE Inv
  OBVIOUS
<1>1. StoreInv
  BY BoundsAssumption DEF Init, StoreInv
<1> QED
  BY <1>1 DEF Init, Inv, ManifestInv, QueueInv, ReportInv

LEMMA NextInv == Inv /\ [Next]_vars => Inv'
<1> SUFFICES ASSUME Inv, [Next]_vars PROVE Inv'
  OBVIOUS
<1>1. CASE Next
  BY <1>1, LogStep, ManifestStep, QueueStep, ReportStep DEF Inv
<1>2. CASE UNCHANGED vars
  BY <1>2 DEF vars, Inv, StoreInv, ManifestInv, QueueInv, ReportInv
<1> QED
  BY <1>1, <1>2

\* The invariant of the inventory: what the store, the log, the manifest, the queue and
\* the diff hold was computed from listings as they were imported.
THEOREM InvHolds == Spec => []Inv
BY InitInv, NextInv, PTL DEF Spec

LEMMA InvTyped == Inv => TypeOK
<1> SUFFICES ASSUME Inv PROVE TypeOK
  OBVIOUS
<1>1. StoreInv /\ ManifestInv /\ QueueInv /\ ReportInv
  BY DEF Inv
<1>2. store \in Seq([raw : Seq(Lines), sha : Seq(Lines), accepted : BOOLEAN])
  BY <1>1 DEF StoreInv, Stored
<1>3. \A k \in DOMAIN store : EntriesOf(k) \in Seq(Entry)
  <2> TAKE k \in DOMAIN store
  <2>1. store[k] \in Stored
    BY <1>1 DEF StoreInv
  <2>2. store[k].raw \in Seq(Lines)
    BY <2>1 DEF Stored
  <2> QED
    BY <2>2, EntriesInOrder DEF EntriesOf
<1>4. ASSUME report # None, NEW p \in DOMAIN report.categories
      PROVE  report.categories[p] \in {"added", "removed", "metadata_changed", "ambiguous",
                                       "unchanged"}
  <2>1. /\ Parse(report.old).entries \in Seq(Entry) /\ Parse(report.new).entries \in Seq(Entry)
        /\ report.categories = Diff(Parse(report.old).entries, Parse(report.new).entries)
    BY <1>1, <1>4, EntriesInOrder DEF ReportInv
  <2> QED
    BY <1>4, <2>1, DiffIs
<1> QED
  BY <1>1, <1>2, <1>3, <1>4 DEF TypeOK, StoreInv, QueueInv

\* The inventory's state has its type: among others, the log names accepted snapshots
\* only (command_activate()).
THEOREM Typed == Spec => []TypeOK
BY InvHolds, InvTyped, PTL

LEMMA InvParsed == Inv => ParsedByPosition
<1> SUFFICES ASSUME Inv, NEW k \in DOMAIN store, ~Skewed(store[k].sha)
             PROVE  LET p == Parse(store[k].sha) IN
                    /\ ToSet(p.entries) = FilesOf(store[k].sha)
                    /\ p.issues = Cardinality(Faults(store[k].sha))
  BY DEF ParsedByPosition
<1>1. store \in Seq(Stored)
  BY DEF Inv, StoreInv
<1>2. store[k] \in Stored
  BY <1>1
<1>3. store[k].sha \in Seq(Lines)
  BY <1>2 DEF Stored
<1> QED
  BY <1>3, ReadByPosition

\* Every line of an imported listing is read by its position, whatever it looks like
\* (ListingParser.parse()).
THEOREM ParsedRight == Spec => []ParsedByPosition
BY InvHolds, InvParsed, PTL

LEMMA InvQueue == Inv => QueueFaithful
<1> SUFFICES ASSUME Inv, queue # None PROVE QueueFaithful
  BY DEF QueueFaithful
<1> DEFINE entries == Parse(manifest.snapshot).entries
<1>1. /\ manifest # None /\ queue.disposition \in {"priority", "deferred"}
      /\ queue.rows = Rows(manifest.sha, queue.disposition) /\ sidecar \in {None, <<>>, <<queue>>}
  BY DEF Inv, QueueInv
<1>2. /\ manifest \in [snapshot : Seq(Lines), items : Seq(Filed), sha : Seq(Filed)]
      /\ manifest.sha = Ordered(Items(entries))
      /\ \E k \in DOMAIN store : store[k].sha = manifest.snapshot /\ store[k].accepted
  BY <1>1 DEF Inv, ManifestInv
<1>3. entries \in Seq(Entry) /\ LineOrder(entries)
  <2>1. manifest.snapshot \in Seq(Lines)
    BY <1>2
  <2> QED
    BY <2>1, EntriesInOrder
<1> HIDE DEF entries
<1> DEFINE rows == Rows(Ordered(Items(entries)), queue.disposition)
<1>4. queue.rows = rows
  BY <1>1, <1>2
<1>5. /\ {rows[k].path : k \in DOMAIN rows} =
             {p \in PathsOf(entries) :
                  ~Unsafe(FirstOf(entries, p)) /\ Classify(p) = queue.disposition}
      /\ \A k \in DOMAIN rows : rows[k].size = FirstOf(entries, rows[k].path).size
      /\ \A j, k \in DOMAIN rows : j < k =>
             \/ RankOf(rows[j].path) < RankOf(rows[k].path)
             \/ /\ RankOf(rows[j].path) = RankOf(rows[k].path)
                /\ FirstOf(entries, rows[j].path).line < FirstOf(entries, rows[k].path).line
  BY <1>1, <1>3, QueueIs
<1> HIDE DEF rows
<1> QED
  BY <1>1, <1>2, <1>4, <1>5 DEF QueueFaithful, entries

\* A queue is what the policy makes of an accepted snapshot as it was imported, and its
\* sidecar, if a kill let it be finished, is about this queue (command_manifest(),
\* command_queue()).
THEOREM QueueRight == Spec => []QueueFaithful
BY InvHolds, InvQueue, PTL

LEMMA InvDiff == Inv => DiffRight
<1> SUFFICES ASSUME Inv, report # None PROVE DiffRight
  BY DEF DiffRight
<1> DEFINE old == Parse(report.old).entries
           new == Parse(report.new).entries
           diff == Diff(old, new)
<1>1. old \in Seq(Entry) /\ new \in Seq(Entry) /\ report.categories = diff
  BY EntriesInOrder DEF Inv, ReportInv
<1> HIDE DEF old, new
<1>2. /\ DOMAIN diff = PathsOf(old) \cup PathsOf(new)
      /\ \A p \in DOMAIN diff :
             /\ diff[p] = "ambiguous" <=> Ambiguous(old, new, p)
             /\ diff[p] # "ambiguous" =>
                    /\ diff[p] = "added" <=> OnlyIn(new, old, p)
                    /\ diff[p] = "removed" <=> OnlyIn(old, new, p)
                    /\ diff[p] = "unchanged" <=> SameSize(old, new, p)
  BY <1>1, DiffIs
<1>3. ASSUME NEW p \in DOMAIN diff
      PROVE  /\ Ambiguous(old, new, p) => diff[p] = "ambiguous"
             /\ diff[p] = "ambiguous" => Ambiguous(old, new, p) \/ Variants(old, new, p) # {}
  BY <1>2
<1> HIDE DEF diff
<1> QED
  BY <1>1, <1>2, <1>3 DEF DiffRight, old, new

\* A diff puts every path into the category that the entries of both listings call for;
\* open is only whether a path is ambiguous whose variants are all unsafe or listed twice
\* (diff_snapshots()).
THEOREM DiffIsRight == Spec => []DiffRight
BY InvHolds, InvDiff, PTL
==============================================================================
