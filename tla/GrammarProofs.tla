--------------------------- MODULE GrammarProofs ---------------------------
(***************************************************************************)
(* What the grammar derives: one tree for every text in which operands and *)
(* operators alternate and none for any other (ParsesOnce), the loosest    *)
(* operator at its root (LoosestAtTheRoot), well built and no larger than  *)
(* the text (UsableTrees).                                                 *)
(*                                                                         *)
(* What is derived for a range of tokens at a level comes from shorter     *)
(* ranges, and from tighter levels of the same range.  Every induction is  *)
(* over this order (PlaceInduction); the first shows that the recursive    *)
(* function Expression exists and satisfies its equation.                  *)
(*                                                                         *)
(* The reader goes over a text without precedence, Spans says that it      *)
(* reads a range as one operand with no operator looser than a level       *)
(* outside brackets, IsRoot which of these operators is the loosest.       *)
(*   Sound     what is derived is spanned;                                 *)
(*   RootOf    an operation derived for a range is made at its root;       *)
(*   Unique    so any two derived trees have the same root, and by         *)
(*             induction the same operands;                                *)
(*   Complete  a spanned range has a root, or is a term, and both sides of *)
(*             the root are spanned at the levels the rules ask for.       *)
(* Forests say that a sequence of nodes is a sequence of trees, each node  *)
(* with as many children as its kind takes; KidsPreorder that AstGen       *)
(* numbers their children as the walk and the evaluator reach them.        *)
(***************************************************************************)
EXTENDS Grammar, SequenceTheorems, FiniteSetTheorems, WellFoundedInduction, TLAPS

-----------------------------------------------------------------------------
(* Numbers.                                                                *)

\* A set of natural numbers that is not empty has a least element.
LEMMA LeastNumber ==
  ASSUME NEW S \in SUBSET Nat, S # {}
  PROVE  \E m \in S : \A k \in S : m =< k
<1>1. PICK m \in S : \A k \in S : <<k, m>> \notin OpToRel(<, Nat)
  BY NatLessThanWellFounded, WFMin, Zenon
<1>2. \A k \in S : ~(k < m)
  BY <1>1, Zenon DEF OpToRel
<1>3. QED
  BY <1>2

\* A set with 0 and with the successor of each element has every number.
LEMMA SetInduction ==
  ASSUME NEW S \in SUBSET Nat, 0 \in S, \A k \in S : k + 1 \in S
  PROVE  S = Nat
<1> SUFFICES ASSUME Nat \ S # {}
             PROVE  FALSE
  OBVIOUS
<1>1. PICK m \in Nat \ S : \A k \in Nat \ S : m =< k
  BY LeastNumber
<1>2. m - 1 \in S /\ m - 1 + 1 = m
  BY <1>1
<1>3. QED
  BY <1>1, <1>2

-----------------------------------------------------------------------------
(* Places: what is derived at one depends on lighter ones only.            *)

Weight(place) ==
    IF place[2] > place[3] THEN 0 ELSE 15 * (place[3] - place[2] + 1) + place[1]

\* Every place weighs something, by its length first and its level second; an empty one nothing.
LEMMA WeightFacts ==
  ASSUME NEW s \in Seq(Tokens)
  PROVE  /\ \A p \in Places(s) : Weight(p) \in Nat /\ Weight(p) < 15 * Len(s) + 15
         /\ \A level \in 1 .. 14, i \in 1 .. Len(s) + 1, j \in 0 .. Len(s) :
              /\ Place(level, i, j) \in Places(s)
              /\ Weight(Place(level, i, j)) = IF i > j THEN 0 ELSE 15 * (j - i + 1) + level
         /\ \A p \in Places(s) : \E level \in 1 .. 14, i \in 1 .. Len(s) + 1, j \in 0 .. Len(s) :
              p = Place(level, i, j)
<1>1. Len(s) \in Nat
  OBVIOUS
<1>2. Places(s) = (1 .. 14) \X (1 .. Len(s) + 1) \X (0 .. Len(s))
  BY DEF Places, Arguments, Loosest
<1>3. \A p \in Places(s) : \E level \in 1 .. 14, i \in 1 .. Len(s) + 1, j \in 0 .. Len(s) :
              p = Place(level, i, j)
  BY <1>2 DEF Place
<1>4. \A level \in 1 .. 14, i \in 1 .. Len(s) + 1, j \in 0 .. Len(s) :
              /\ Place(level, i, j) \in Places(s)
              /\ Weight(Place(level, i, j)) = IF i > j THEN 0 ELSE 15 * (j - i + 1) + level
  BY <1>2 DEF Weight, Place
<1>5. ASSUME NEW p \in Places(s)
      PROVE  Weight(p) \in Nat /\ Weight(p) < 15 * Len(s) + 15
  <2>1. PICK level \in 1 .. 14, i \in 1 .. Len(s) + 1, j \in 0 .. Len(s) : p = Place(level, i, j)
    BY <1>3
  <2>2. Weight(p) = IF i > j THEN 0 ELSE 15 * (j - i + 1) + level
    BY <2>1, <1>4
  <2> QED
    BY <2>2, <1>1
<1> QED
  BY <1>3, <1>4, <1>5

\* To show something of every place it is enough to show it of each place of
\* which it holds at every lighter one.
LEMMA PlaceInduction ==
  ASSUME NEW s \in Seq(Tokens), NEW G,
         \A p \in Places(s) : (\A q \in Places(s) : Weight(q) < Weight(p) => q \in G) => p \in G
  PROVE  \A p \in Places(s) : p \in G
<1> DEFINE Bad == {p \in Places(s) : p \notin G}
           Weights == {Weight(p) : p \in Bad}
<1> SUFFICES ASSUME Bad # {}
             PROVE  FALSE
  OBVIOUS
<1>1. \A p \in Places(s) : Weight(p) \in Nat
  BY WeightFacts
<1>2. Weights \in SUBSET Nat /\ Weights # {}
  BY <1>1
<1>3. PICK w \in Weights : \A v \in Weights : w =< v
  BY <1>2, LeastNumber
<1>4. PICK p \in Bad : w = Weight(p)
  BY <1>3
<1>5. ASSUME NEW q \in Places(s), Weight(q) < Weight(p)
      PROVE  q \in G
  <2>1. q \in Bad => Weight(q) \in Weights
    OBVIOUS
  <2>2. ~(Weight(p) =< Weight(q))
    BY <1>1, <1>5
  <2> QED
    BY <2>1, <2>2, <1>3, <1>4
<1> QED
  BY <1>4, <1>5

\* Fewer tokens are lighter, and so is a tighter level of as many.
LEMMA Lighter ==
  ASSUME NEW s \in Seq(Tokens),
         NEW level \in 1 .. 14, NEW i \in 1 .. Len(s) + 1, NEW j \in 0 .. Len(s), i =< j,
         NEW level2 \in 1 .. 14, NEW i2 \in 1 .. Len(s) + 1, NEW j2 \in 0 .. Len(s),
         j2 - i2 < j - i \/ (j2 - i2 = j - i /\ level2 < level)
  PROVE  Place(level2, i2, j2) \in Places(s) /\ Weight(Place(level2, i2, j2)) < Weight(Place(level, i, j))
<1>1. Len(s) \in Nat
  OBVIOUS
<1>2. /\ Place(level2, i2, j2) \in Places(s)
      /\ Weight(Place(level2, i2, j2)) = IF i2 > j2 THEN 0 ELSE 15 * (j2 - i2 + 1) + level2
      /\ Weight(Place(level, i, j)) = 15 * (j - i + 1) + level
  BY <1>1 DEF Places, Weight, Arguments, Loosest, Place
<1>3. i \in Int /\ j \in Int /\ i2 \in Int /\ j2 \in Int /\ level \in 1 .. 14 /\ level2 \in 1 .. 14
  BY <1>1
<1>4. CASE i2 > j2
  BY <1>2, <1>3, <1>4
<1>5. CASE ~(i2 > j2) /\ j2 - i2 < j - i
  <2>1. j2 - i2 + 1 =< j - i
    BY <1>3, <1>5
  <2>2. 15 * (j2 - i2 + 1) + level2 < 15 * (j - i + 1) + level
    BY <1>3, <2>1
  <2> QED
    BY <1>2, <1>5, <2>2
<1>6. CASE ~(i2 > j2) /\ j2 - i2 = j - i /\ level2 < level
  BY <1>2, <1>3, <1>6
<1> QED
  BY <1>3, <1>4, <1>5, <1>6

-----------------------------------------------------------------------------
(* What the members of the rules' sets are.                                *)

\* No tokens make the empty list of arguments, and nothing else.
LEMMA EmptyList ==
  ASSUME NEW d, NEW s, NEW i, NEW j, i > j
  PROVE  ExpressionList(d, s, i, j) = {<<>>}
BY DEF ExpressionList

\* A list is split at one of its commas.
SplitAt(d, i, k, j, f) ==
    \E e \in d[Place(13, i, k - 1)], rest \in d[Place(14, k + 1, j)] : f = e \o rest

\* A list is one argument, or an argument, a comma and a list.
LEMMA ListMembers ==
  ASSUME NEW d, NEW s, NEW i, NEW j, NEW f, ~(i > j)
  PROVE  f \in ExpressionList(d, s, i, j) <=>
           f \in d[Place(13, i, j)] \/ \E k \in i + 1 .. j : s[k] = "comma" /\ SplitAt(d, i, k, j, f)
<1> DEFINE Split(k) == {e \o rest : e \in d[Place(13, i, k - 1)], rest \in d[Place(14, k + 1, j)]}
           Commas == {p \in i + 1 .. j : s[p] = "comma"}
<1>1. f \in ExpressionList(d, s, i, j) <=>
        f \in d[Place(13, i, j)] \/ \E k \in i + 1 .. j : s[k] = "comma" /\ f \in Split(k)
  <2>1. ExpressionList(d, s, i, j) = d[Place(13, i, j)] \cup UNION {Split(k) : k \in Commas}
    BY DEF ExpressionList, Loosest, Arguments
  <2> HIDE DEF Split
  <2> QED
    BY <2>1
<1>2. ASSUME NEW k
      PROVE  f \in Split(k) <=> SplitAt(d, i, k, j, f)
  BY DEF SplitAt
<1> HIDE DEF Split
<1> QED
  BY <1>1, <1>2

\* A call is a name, an opening parenthesis, a list and a closing one.
LEMMA CallMembers ==
  ASSUME NEW d, NEW s, NEW i, NEW j, NEW t
  PROVE  t \in FunctionCall(d, s, i, j) <=>
           /\ ~(j < i + 2) /\ s[i + 1] = "(" /\ s[j] = ")"
           /\ \E func \in Under(FunctionRules, s[i]), args \in d[Place(14, i + 2, j - 1)] :
                 t = Tree("function", func, i, args)
  BY DEF FunctionCall, Loosest, Arguments

\* A term is a leaf, an expression in parentheses or a call.
LEMMA TermMembers ==
  ASSUME NEW d, NEW s, NEW i, NEW j, NEW t
  PROVE  t \in Term(d, s, i, j) <=>
           \/ i = j /\ \E kind \in Under(LeafRules, s[i]) : t = Tree(kind, "none", i, <<>>)
           \/ s[i] = "(" /\ s[j] = ")" /\ t \in d[Place(13, i + 1, j - 1)]
           \/ t \in FunctionCall(d, s, i, j)
  BY DEF Term, Loosest, InsideParentheses

\* A postfix operation is an expression of its level and a degree sign.
LEMMA PostfixMembers ==
  ASSUME NEW d, NEW s, NEW i, NEW j, NEW t
  PROVE  t \in Postfix(d, s, i, j) <=>
           s[j] = "deg" /\ \E e \in d[Place(2, i, j - 1)] : t = Tree("unary", "Degrees", j, e)
  BY DEF Postfix, PostfixLevel

\* A prefix operation is a prefix operator and an expression of its level.
LEMMA PrefixMembers ==
  ASSUME NEW d, NEW s, NEW i, NEW j, NEW t
  PROVE  t \in Prefix(d, s, i, j) <=>
           \E opcode \in Under(PrefixRules, s[i]), e \in d[Place(3, i + 1, j)] :
              t = Tree("unary", opcode, i, e)
  BY DEF Prefix, PrefixOperandLevel, PrefixLevel, PrefixTree

Lhs(level) == IF level = 3 THEN 2 ELSE level
Rhs(level) == IF level = 3 THEN 3 ELSE level - 1

\* An infix operation has a side of the level on the side it repeats on, and a tighter one on the other.
LEMMA BinaryAtMembers ==
  ASSUME NEW d, NEW rule, NEW i, NEW k, NEW j, NEW t
  PROVE  t \in BinaryAt(d, rule, i, k, j) <=>
           \E lhs \in d[Place(Lhs(rule.level), i, k - 1)], rhs \in d[Place(Rhs(rule.level), k + 1, j)] :
              t = Tree("binary", rule.opcode, k, lhs \o rhs)
<1>1. LhsLevel(rule.level) = Lhs(rule.level) /\ RhsLevel(rule.level) = Rhs(rule.level)
  BY DEF Lhs, Rhs, LhsLevel, RhsLevel, RightAssociative
<1> QED
  BY <1>1 DEF BinaryAt

\* An infix operation of a level has one of the level's operators somewhere inside.
LEMMA BinaryMembers ==
  ASSUME NEW d, NEW s, NEW level, NEW i, NEW j, NEW t
  PROVE  t \in Binary(d, s, level, i, j) <=>
           \E k \in i + 1 .. j - 1, rule \in InfixRules :
              rule.level = level /\ rule.token = s[k] /\ t \in BinaryAt(d, rule, i, k, j)
  BY DEF Binary

\* What a level derives, by rule.
LEMMA LevelMembers ==
  ASSUME NEW d, NEW s, NEW level \in 1 .. 13, NEW i, NEW j, NEW t
  PROVE  t \in Derives(d, s, level, i, j) <=>
           /\ ~(i > j)
           /\ \/ level = 1 /\ t \in Term(d, s, i, j)
              \/ level # 1 /\ t \in d[Place(level - 1, i, j)]
              \/ level # 1 /\ t \in Binary(d, s, level, i, j)
              \/ level = 2 /\ t \in Postfix(d, s, i, j)
              \/ level = 3 /\ t \in Prefix(d, s, i, j)
  BY DEF Derives, Arguments, Loosest, PostfixLevel, PrefixLevel

-----------------------------------------------------------------------------
(* The recursive function Expression.                                      *)

\* What is derived at a place depends on what is derived at lighter ones.
LEMMA DerivesWithin ==
  ASSUME NEW s \in Seq(Tokens),
         NEW level \in 1 .. 14, NEW i \in 1 .. Len(s) + 1, NEW j \in 0 .. Len(s), NEW f, NEW g,
         \A q \in Places(s) : Weight(q) < Weight(Place(level, i, j)) => f[q] = g[q],
         NEW t \in Derives(f, s, level, i, j)
  PROVE  t \in Derives(g, s, level, i, j)
<1>0. Len(s) \in Nat
  OBVIOUS
<1>1. ASSUME NEW level2 \in 1 .. 14, NEW i2 \in 1 .. Len(s) + 1, NEW j2 \in 0 .. Len(s), i =< j,
             j2 - i2 < j - i \/ (j2 - i2 = j - i /\ level2 < level)
      PROVE  f[Place(level2, i2, j2)] = g[Place(level2, i2, j2)]
  <2>1. Place(level2, i2, j2) \in Places(s) /\ Weight(Place(level2, i2, j2)) < Weight(Place(level, i, j))
    BY <1>1, Lighter
  <2> QED
    BY <2>1
<1>2. CASE level = 14
  <2>1. t \in ExpressionList(f, s, i, j)
    BY <1>2 DEF Derives, Arguments, Loosest
  <2>2. t \in ExpressionList(g, s, i, j)
    <3>1. CASE i > j
      BY <2>1, <3>1, EmptyList
    <3>2. CASE ~(i > j)
      <4>0. i =< j
        BY <1>0, <3>2
      <4>1. f[Place(13, i, j)] = g[Place(13, i, j)]
        BY <1>0, <1>1, <1>2, <4>0
      <4>2. ASSUME NEW k \in i + 1 .. j
            PROVE  SplitAt(f, i, k, j, t) => SplitAt(g, i, k, j, t)
        <5>1. /\ k - 1 \in 0 .. Len(s) /\ k + 1 \in 1 .. Len(s) + 1
              /\ (k - 1) - i < j - i /\ j - (k + 1) < j - i
          BY <1>0
        <5>2. 13 \in 1 .. 14 /\ 14 \in 1 .. 14
          OBVIOUS
        <5>3. f[Place(13, i, k - 1)] = g[Place(13, i, k - 1)]
          BY <5>1, <5>2, <1>1, <4>0
        <5>4. f[Place(14, k + 1, j)] = g[Place(14, k + 1, j)]
          BY <5>1, <5>2, <1>1, <4>0
        <5> QED
          BY <5>3, <5>4 DEF SplitAt
      <4> QED
        BY <2>1, <3>2, <4>1, <4>2, ListMembers
    <3> QED
      BY <3>1, <3>2
  <2> QED
    BY <1>2, <2>2 DEF Derives, Arguments, Loosest
<1>3. CASE level # 14
  <2>0. level \in 1 .. 13
    BY <1>3
  <2>1. i =< j
    <3>1. ~(i > j)
      BY <2>0, LevelMembers
    <3> QED
      BY <1>0, <3>1
  <2>2. CASE level = 1 /\ t \in Term(f, s, i, j)
    <3>1. CASE s[i] = "(" /\ s[j] = ")" /\ t \in f[Place(13, i + 1, j - 1)]
      <4>0. i # j
        BY <3>1
      <4>1. j - 1 \in 0 .. Len(s) /\ i + 1 \in 1 .. Len(s) + 1 /\ (j - 1) - (i + 1) < j - i
        BY <1>0, <2>1, <4>0
      <4>3. 13 \in 1 .. 14
        OBVIOUS
      <4>2. f[Place(13, i + 1, j - 1)] = g[Place(13, i + 1, j - 1)]
        BY <4>1, <4>3, <1>1, <2>1
      <4> QED
        BY <2>0, <2>1, <2>2, <3>1, <4>2, TermMembers, LevelMembers
    <3>2. CASE t \in FunctionCall(f, s, i, j)
      <4>0. ~(j < i + 2)
        BY <3>2, CallMembers
      <4>1. j - 1 \in 0 .. Len(s) /\ i + 2 \in 1 .. Len(s) + 1 /\ (j - 1) - (i + 2) < j - i
        BY <1>0, <2>1, <4>0
      <4>2. f[Place(14, i + 2, j - 1)] = g[Place(14, i + 2, j - 1)]
        <5>1. 14 \in 1 .. 14
          OBVIOUS
        <5> QED
          BY <4>1, <5>1, <1>1, <2>1
      <4>3. t \in FunctionCall(g, s, i, j)
        BY <3>2, <4>2, CallMembers
      <4> QED
        BY <2>0, <2>1, <2>2, <4>3, TermMembers, LevelMembers
    <3>3. CASE i = j /\ \E kind \in Under(LeafRules, s[i]) : t = Tree(kind, "none", i, <<>>)
      BY <2>0, <2>1, <2>2, <3>3, TermMembers, LevelMembers
    <3> QED
      BY <2>2, <3>1, <3>2, <3>3, TermMembers
  <2>3. CASE level # 1 /\ t \in f[Place(level - 1, i, j)]
    <3>1. level - 1 \in 1 .. 14 /\ level - 1 < level
      BY <2>0, <2>3
    <3>2. f[Place(level - 1, i, j)] = g[Place(level - 1, i, j)]
      BY <3>1, <1>0, <1>1, <2>1
    <3> QED
      BY <2>0, <2>1, <2>3, <3>2, LevelMembers
  <2>4. CASE level # 1 /\ t \in Binary(f, s, level, i, j)
    <3>1. PICK k \in i + 1 .. j - 1, rule \in InfixRules :
            rule.level = level /\ rule.token = s[k] /\ t \in BinaryAt(f, rule, i, k, j)
      BY <2>4, BinaryMembers
    <3>2. /\ k - 1 \in 0 .. Len(s) /\ k + 1 \in 1 .. Len(s) + 1
          /\ (k - 1) - i < j - i /\ j - (k + 1) < j - i
      BY <1>0
    <3>3. Lhs(rule.level) \in 1 .. 14 /\ Rhs(rule.level) \in 1 .. 14
      BY <2>0, <2>4, <3>1 DEF Lhs, Rhs
    <3>4. /\ f[Place(Lhs(rule.level), i, k - 1)] = g[Place(Lhs(rule.level), i, k - 1)]
          /\ f[Place(Rhs(rule.level), k + 1, j)] = g[Place(Rhs(rule.level), k + 1, j)]
      BY <3>2, <3>3, <1>1, <2>1
    <3>5. t \in BinaryAt(g, rule, i, k, j)
      BY <3>1, <3>4, BinaryAtMembers
    <3>6. t \in Binary(g, s, level, i, j)
      BY <3>1, <3>5, BinaryMembers
    <3> QED
      BY <2>0, <2>1, <2>4, <3>6, LevelMembers
  <2>5. CASE level = 2 /\ t \in Postfix(f, s, i, j)
    <3>1. j - 1 \in 0 .. Len(s) /\ (j - 1) - i < j - i /\ 2 \in 1 .. 14
      BY <1>0, <2>1
    <3>2. f[Place(2, i, j - 1)] = g[Place(2, i, j - 1)]
      BY <3>1, <1>1, <2>1
    <3>3. t \in Postfix(g, s, i, j)
      BY <2>5, <3>2, PostfixMembers
    <3> QED
      BY <2>0, <2>1, <2>5, <3>3, LevelMembers
  <2>6. CASE level = 3 /\ t \in Prefix(f, s, i, j)
    <3>1. i + 1 \in 1 .. Len(s) + 1 /\ j - (i + 1) < j - i /\ 3 \in 1 .. 14
      BY <1>0, <2>1
    <3>2. f[Place(3, i + 1, j)] = g[Place(3, i + 1, j)]
      BY <3>1, <1>1, <2>1
    <3>3. t \in Prefix(g, s, i, j)
      BY <2>6, <3>2, PrefixMembers
    <3> QED
      BY <2>0, <2>1, <2>6, <3>3, LevelMembers
  <2> QED
    BY <2>0, <2>2, <2>3, <2>4, <2>5, <2>6, LevelMembers
<1> QED
  BY <1>2, <1>3

\* What is derived at a place depends on lighter places only.
LEMMA DerivesLocal ==
  ASSUME NEW s \in Seq(Tokens),
         NEW level \in 1 .. 14, NEW i \in 1 .. Len(s) + 1, NEW j \in 0 .. Len(s), NEW f, NEW g,
         \A q \in Places(s) : Weight(q) < Weight(Place(level, i, j)) => f[q] = g[q]
  PROVE  Derives(f, s, level, i, j) = Derives(g, s, level, i, j)
<1>1. \A t \in Derives(f, s, level, i, j) : t \in Derives(g, s, level, i, j)
  BY DerivesWithin
<1>2. \A t \in Derives(g, s, level, i, j) : t \in Derives(f, s, level, i, j)
  BY DerivesWithin
<1> QED
  BY <1>1, <1>2

\* What is derived at a place.
At(d, s, p) == Derives(d, s, p[1], p[2], p[3])

\* At is Derives with the place's parts.
LEMMA AtPlace ==
  ASSUME NEW d, NEW s, NEW level, NEW i, NEW j
  PROVE  At(d, s, Place(level, i, j)) = Derives(d, s, level, i, j)
BY DEF At, Place

\* DerivesLocal, of a place.
LEMMA AtLocal ==
  ASSUME NEW s \in Seq(Tokens), NEW p \in Places(s), NEW f, NEW g,
         \A q \in Places(s) : Weight(q) < Weight(p) => f[q] = g[q]
  PROVE  At(f, s, p) = At(g, s, p)
<1>1. PICK level \in 1 .. 14, i \in 1 .. Len(s) + 1, j \in 0 .. Len(s) : p = Place(level, i, j)
  BY WeightFacts
<1>2. Derives(f, s, level, i, j) = Derives(g, s, level, i, j)
  BY <1>1, DerivesLocal
<1> QED
  BY <1>1, <1>2, AtPlace

\* There is a function that derives at every place what the rules say.
LEMMA DerivationsExist ==
  ASSUME NEW s \in Seq(Tokens)
  PROVE  \E d : d = [p \in Places(s) |-> At(d, s, p)]
<1> DEFINE Up(d, n) == /\ d = [p \in Places(s) |-> d[p]]
                       /\ \A p \in Places(s) : Weight(p) < n => d[p] = At(d, s, p)
           S == {n \in Nat : \E d : Up(d, n)}
<1>0. \A p \in Places(s) : Weight(p) \in Nat /\ Weight(p) < 15 * Len(s) + 15
  BY WeightFacts
<1>1. 0 \in S
  <2> DEFINE d == [p \in Places(s) |-> {}]
  <2>1. d = [p \in Places(s) |-> d[p]]
    OBVIOUS
  <2>2. \A p \in Places(s) : ~(Weight(p) < 0)
    BY <1>0
  <2>3. Up(d, 0)
    BY <2>1, <2>2
  <2> QED
    BY <2>3
<1>2. ASSUME NEW n \in S
      PROVE  n + 1 \in S
  <2>1. PICK f : Up(f, n)
    BY <1>2
  <2> DEFINE g == [p \in Places(s) |-> At(f, s, p)]
  <2>2. g = [p \in Places(s) |-> g[p]] /\ \A p \in Places(s) : g[p] = At(f, s, p)
    OBVIOUS
  <2> HIDE DEF g
  <2>3. ASSUME NEW p \in Places(s), Weight(p) < n + 1
        PROVE  g[p] = At(g, s, p)
    <3>1. ASSUME NEW q \in Places(s), Weight(q) < Weight(p)
          PROVE  f[q] = g[q]
      <4>1. Weight(q) < n
        BY <1>0, <2>3, <3>1
      <4> QED
        BY <4>1, <2>1, <2>2
    <3>2. At(f, s, p) = At(g, s, p)
      BY <3>1, AtLocal
    <3> QED
      BY <2>2, <3>2
  <2>4. Up(g, n + 1)
    BY <2>2, <2>3
  <2> QED
    BY <2>4
<1>3. S = Nat
  <2>1. S \in SUBSET Nat
    OBVIOUS
  <2> HIDE DEF S
  <2> QED
    BY <1>1, <1>2, <2>1, SetInduction
<1>4. Len(s) \in Nat /\ 15 * Len(s) + 15 \in Nat
  OBVIOUS
<1>5. PICK d : Up(d, 15 * Len(s) + 15)
  BY <1>3, <1>4
<1>6. \A p \in Places(s) : d[p] = At(d, s, p)
  BY <1>0, <1>5
<1>7. d = [p \in Places(s) |-> At(d, s, p)]
  BY <1>5, <1>6
<1> QED
  BY <1>7

\* So the recursive function Expression is the one it describes.
LEMMA ExpressionFacts ==
  ASSUME NEW s \in Seq(Tokens),
         NEW level \in 1 .. 14, NEW i \in 1 .. Len(s) + 1, NEW j \in 0 .. Len(s)
  PROVE  Expression(s)[Place(level, i, j)] = Derives(Expression(s), s, level, i, j)
<1> DEFINE P(d) == d = [p \in Places(s) |-> At(d, s, p)]
<1>1. \E d : P(d)
  BY DerivationsExist
<1>2. Expression(s) = CHOOSE d : P(d)
  BY DEF Expression, At
<1> HIDE DEF P
<1>3. P(Expression(s))
  BY <1>1, <1>2
<1>4. Place(level, i, j) \in Places(s)
  BY WeightFacts
<1>5. Expression(s)[Place(level, i, j)] = At(Expression(s), s, Place(level, i, j))
  BY <1>3, <1>4 DEF P
<1> QED
  BY <1>5, AtPlace

-----------------------------------------------------------------------------
(* The tables of terminals.                                                *)

\* The level of an infix operator.
LevelOf(token) ==
    CASE token = "**" -> 3
      [] token \in {"*", "/", "%"} -> 4
      [] token \in {"+", "-"} -> 5
      [] token \in {"<<", ">>"} -> 6
      [] token \in {"<", ">", "<=", ">="} -> 7
      [] token \in {"==", "!=", "~="} -> 8
      [] token = "&" -> 9
      [] token = "^" -> 10
      [] token = "|" -> 11
      [] token = "&&" -> 12
      [] token = "||" -> 13

\* Each infix token has one level and one opcode, which is a binary operator.
LEMMA RuleFacts ==
  /\ \A r \in InfixRules : r.level \in 3 .. 13 /\ r.token \in InfixTokens /\ r.opcode \in BinaryOps
  /\ \A r \in InfixRules : r.level = LevelOf(r.token)
  /\ \A r1, r2 \in InfixRules : r1.token = r2.token => r1.opcode = r2.opcode
  /\ \A token \in InfixTokens : \E r \in InfixRules : r.token = token
<1>1. \A r \in InfixRules : r.level \in 3 .. 13 /\ r.opcode \in BinaryOps
  BY DEF InfixRules, Infix, BinaryOps, ComparisonOps, MathOps, BitwiseOps, ShiftOps, LogicalOps
<1>2. \A r \in InfixRules : r.level = LevelOf(r.token)
  BY DEF InfixRules, Infix, LevelOf
<1>3. \A r1, r2 \in InfixRules : r1.token = r2.token => r1.opcode = r2.opcode
  BY SMTT(60) DEF InfixRules, Infix
<1> QED
  BY <1>1, <1>2, <1>3 DEF InfixTokens

\* A leaf token makes one kind of leaf, and none makes an error.
LEMMA LeafFacts ==
  /\ \A r \in LeafRules : r[2] \in LeafKinds /\ r[2] # "error"
  /\ \A r1, r2 \in LeafRules : r1[1] = r2[1] => r1[2] = r2[2]
  BY DEF LeafRules, LeafKinds

\* A prefix token makes one opcode, a unary operator.
LEMMA PrefixFacts ==
  /\ \A r \in PrefixRules : r[2] \in UnaryOps
  /\ \A r1, r2 \in PrefixRules : r1[1] = r2[1] => r1[2] = r2[2]
  BY DEF PrefixRules, UnaryOps

\* A name makes one function.
LEMMA FunctionFacts ==
  /\ \A r \in FunctionRules : r[2] \in Funcs
  /\ \A r1, r2 \in FunctionRules : r1[1] = r2[1] => r1[2] = r2[2]
<1>1. \A r \in FunctionRules : r[2] \in Funcs
  BY DEF FunctionRules, Funcs, NaryFuncs, RoundingFuncs, BinaryFuncs, UnaryFuncs
<1>2. \A r1, r2 \in FunctionRules : r1[1] = r2[1] => r1[2] = r2[2]
  BY SMTT(60) DEF FunctionRules
<1> QED
  BY <1>1, <1>2

\* A terminal stands for one thing at most in each kind of rule.
LEMMA UnderFacts ==
  ASSUME NEW token
  PROVE  /\ \A k \in Under(LeafRules, token) : k \in LeafKinds /\ k # "error"
         /\ \A k, l \in Under(LeafRules, token) : k = l
         /\ Under(LeafRules, token) # {} <=> token \in LeafTokens
         /\ \A o \in Under(PrefixRules, token) : o \in UnaryOps
         /\ \A o, q \in Under(PrefixRules, token) : o = q
         /\ Under(PrefixRules, token) # {} <=> token \in PrefixTokens
         /\ \A f \in Under(FunctionRules, token) : f \in Funcs
         /\ \A f, g \in Under(FunctionRules, token) : f = g
         /\ Under(FunctionRules, token) # {} <=> token \in NameTokens
<1>1. /\ \A k \in Under(LeafRules, token) : k \in LeafKinds /\ k # "error"
      /\ \A k, l \in Under(LeafRules, token) : k = l
      /\ Under(LeafRules, token) # {} <=> token \in LeafTokens
  BY LeafFacts DEF Under, LeafTokens
<1>2. /\ \A o \in Under(PrefixRules, token) : o \in UnaryOps
      /\ \A o, q \in Under(PrefixRules, token) : o = q
      /\ Under(PrefixRules, token) # {} <=> token \in PrefixTokens
  BY PrefixFacts DEF Under, PrefixTokens
<1>3. /\ \A f \in Under(FunctionRules, token) : f \in Funcs
      /\ \A f, g \in Under(FunctionRules, token) : f = g
      /\ Under(FunctionRules, token) # {} <=> token \in NameTokens
  BY FunctionFacts DEF Under, NameTokens
<1> QED
  BY <1>1, <1>2, <1>3

Brackets == {"(", ")", "comma"}

\* No token is of two kinds, but + and -, which are both infix and prefix.
LEMMA TokensApart ==
  /\ \A token \in LeafTokens : token \notin UNION {NameTokens, PrefixTokens, InfixTokens, {"deg"}, Brackets}
  /\ \A token \in NameTokens : token \notin UNION {PrefixTokens, InfixTokens, {"deg"}, Brackets}
  /\ \A token \in PrefixTokens : token \notin {"deg"} \cup Brackets
  /\ \A token \in InfixTokens : token \notin {"deg"} \cup Brackets
<1>1. LeafTokens \subseteq {"boolean", "integer_literal", "hex_literal", "float_literal", "variable", "error"}
  <2>1. \A rule \in LeafRules :
           rule[1] \in {"boolean", "integer_literal", "hex_literal", "float_literal", "variable", "error"}
    BY DEF LeafRules
  <2> QED
    BY <2>1 DEF LeafTokens
<1>2. NameTokens = {"min", "max", "pow", "mod", "rem", "round", "cos", "sin", "tan", "acos", "asin", "atan",
                    "abs", "ln", "log", "exp", "floor", "ceiling"}
  <2>1. \A rule \in FunctionRules : rule[1] \in
           {"min", "max", "pow", "mod", "rem", "round", "cos", "sin", "tan", "acos", "asin", "atan",
            "abs", "ln", "log", "exp", "floor", "ceiling"}
    BY DEF FunctionRules
  <2> QED
    BY <2>1 DEF NameTokens, FunctionRules
<1>3. PrefixTokens = {"!", "+", "-", "~"}
  BY DEF PrefixTokens, PrefixRules
<1>4. InfixTokens = {"**", "*", "/", "%", "+", "-", "<<", ">>", "<", ">", "<=", ">=", "==", "!=", "~=",
                     "&", "^", "|", "&&", "||"}
  BY DEF InfixTokens, InfixRules, Infix
<1>5. \A token \in LeafTokens :
        token \notin NameTokens /\ token \notin PrefixTokens /\ token \notin InfixTokens
  BY <1>1, <1>2, <1>3, <1>4
<1>6. \A token \in NameTokens : token \notin PrefixTokens /\ token \notin InfixTokens
  BY <1>2, <1>3, <1>4
<1>7. /\ \A token \in LeafTokens : token \notin {"deg", "(", ")", "comma"}
      /\ \A token \in NameTokens : token \notin {"deg", "(", ")", "comma"}
      /\ \A token \in PrefixTokens : token \notin {"deg", "(", ")", "comma"}
      /\ \A token \in InfixTokens : token \notin {"deg", "(", ")", "comma"}
  BY <1>1, <1>2, <1>3, <1>4
<1>8. /\ \A token \in LeafTokens : token \notin {"deg"} \cup Brackets
      /\ \A token \in NameTokens : token \notin {"deg"} \cup Brackets
      /\ \A token \in PrefixTokens : token \notin {"deg"} \cup Brackets
      /\ \A token \in InfixTokens : token \notin {"deg"} \cup Brackets
  BY <1>7 DEF Brackets
<1> HIDE DEF Brackets
<1> QED
  BY <1>5, <1>6, <1>8

-----------------------------------------------------------------------------
(* Reading a text from left to right.                                      *)

States == [want : {"operand", "operator", "call", "nothing"}, open : Seq({"group", "call"}),
           closable : BOOLEAN]

\* A bracket that may be closed for want of an operand is a call's.
Closable(q) == q.closable => q.want = "operand" /\ InCall(q)

ReadingStates == {q \in States : Closable(q)}

\* How many brackets are open.
Height(q) == Len(q.open)

\* The parts of a state of the reader.
LEMMA StateFacts ==
  ASSUME NEW q \in ReadingStates
  PROVE  /\ q \in States /\ Closable(q) /\ Height(q) \in Nat
         /\ q.want \in {"operand", "operator", "call", "nothing"}
         /\ q.open \in Seq({"group", "call"})
         /\ q.closable \in BOOLEAN
         /\ InCall(q) <=> Height(q) > 0 /\ q.open[Height(q)] = "call"
<1>1. q \in States /\ Closable(q)
  BY DEF ReadingStates
<1>2. q.open \in Seq({"group", "call"}) /\ Len(q.open) \in Nat
  BY <1>1 DEF States
<1>3. q.open # <<>> <=> Len(q.open) > 0
  BY <1>2
<1>4. InCall(q) <=> Height(q) > 0 /\ q.open[Height(q)] = "call"
  BY <1>2, <1>3 DEF InCall, Last, Height
<1> QED
  BY <1>1, <1>2, <1>4 DEF States, Height

\* Want changes what is wanted and no bracket.
LEMMA WantFacts ==
  ASSUME NEW q \in ReadingStates, NEW what \in {"operand", "operator", "call", "nothing"}
  PROVE  /\ Want(q, what) \in ReadingStates
         /\ Want(q, what).want = what /\ Want(q, what).open = q.open /\ Want(q, what).closable = FALSE
<1>1. q \in States
  BY StateFacts
<1>2. /\ Want(q, what) \in States
      /\ Want(q, what).want = what /\ Want(q, what).open = q.open /\ Want(q, what).closable = FALSE
  BY <1>1 DEF Want, States
<1> QED
  BY <1>2 DEF ReadingStates, Closable

\* Opened adds one bracket on top.
LEMMA OpenedFacts ==
  ASSUME NEW q \in ReadingStates, NEW b \in {"group", "call"}
  PROVE  /\ Opened(q, b) \in ReadingStates
         /\ Opened(q, b).want = "operand"
         /\ Opened(q, b).open = Append(q.open, b)
         /\ Height(Opened(q, b)) = Height(q) + 1
         /\ Opened(q, b).open[Height(q) + 1] = b
         /\ \A m \in 1 .. Height(q) : Opened(q, b).open[m] = q.open[m]
         /\ Opened(q, b).closable = (b = "call")
<1>1. q.open \in Seq({"group", "call"}) /\ Height(q) \in Nat /\ Height(q) = Len(q.open)
  BY StateFacts DEF Height
<1>2. /\ Opened(q, b).want = "operand" /\ Opened(q, b).open = Append(q.open, b)
      /\ Opened(q, b).closable = (b = "call")
      /\ Opened(q, b) \in States
  BY <1>1 DEF Opened, States
<1>3. /\ Height(Opened(q, b)) = Height(q) + 1
      /\ Opened(q, b).open[Height(q) + 1] = b
      /\ \A m \in 1 .. Height(q) : Opened(q, b).open[m] = q.open[m]
  BY <1>1, <1>2 DEF Height
<1>4. InCall(Opened(q, b)) <=> b = "call"
  <2>1. Opened(q, b).open # <<>> /\ Last(Opened(q, b).open) = b
    BY <1>1, <1>2, <1>3 DEF Last, Height
  <2> QED
    BY <2>1 DEF InCall
<1>5. Closable(Opened(q, b))
  BY <1>2, <1>4 DEF Closable
<1> QED
  BY <1>2, <1>3, <1>5 DEF ReadingStates

\* Closed takes the top bracket away.
LEMMA ClosedFacts ==
  ASSUME NEW q \in ReadingStates, Height(q) > 0
  PROVE  /\ Closed(q) \in ReadingStates
         /\ Closed(q).want = "operator" /\ Closed(q).closable = FALSE
         /\ Height(Closed(q)) = Height(q) - 1
         /\ \A m \in 1 .. Height(q) - 1 : Closed(q).open[m] = q.open[m]
<1>1. q.open \in Seq({"group", "call"}) /\ Height(q) \in Nat /\ Height(q) = Len(q.open)
  BY StateFacts DEF Height
<1>2. /\ Closed(q).want = "operator" /\ Closed(q).closable = FALSE
      /\ Closed(q).open = SubSeq(q.open, 1, Len(q.open) - 1)
      /\ Closed(q) = [want |-> "operator", open |-> SubSeq(q.open, 1, Len(q.open) - 1), closable |-> FALSE]
  BY DEF Closed, Front
<1>3. /\ Closed(q).open \in Seq({"group", "call"})
      /\ Len(Closed(q).open) = Height(q) - 1
      /\ \A m \in 1 .. Height(q) - 1 : Closed(q).open[m] = q.open[m]
  BY <1>1, <1>2
<1> QED
  BY <1>2, <1>3 DEF ReadingStates, States, Closable, Height

\* After a comma.
Separated(q) == [q EXCEPT !.want = "operand", !.closable = TRUE]

\* A comma leaves the brackets as they are, and the list may then end.
LEMMA SeparatedFacts ==
  ASSUME NEW q \in ReadingStates, InCall(q)
  PROVE  /\ Separated(q) \in ReadingStates
         /\ Separated(q).want = "operand" /\ Separated(q).closable = TRUE /\ Separated(q).open = q.open
<1>1. q \in States
  BY StateFacts
<1>2. /\ Separated(q) \in States
      /\ Separated(q).want = "operand" /\ Separated(q).closable = TRUE /\ Separated(q).open = q.open
  BY <1>1 DEF Separated, States
<1>3. InCall(Separated(q))
  BY <1>2 DEF InCall
<1> QED
  BY <1>2, <1>3 DEF ReadingStates, Closable

\* The two constant states are states.
LEMMA StuckFacts ==
  Stuck \in ReadingStates /\ Stuck.want = "nothing" /\ Start \in ReadingStates
<1>1. Stuck \in States /\ Start \in States
  BY DEF Stuck, Start, States
<1> QED
  BY <1>1 DEF Stuck, Start, ReadingStates, Closable

\* What reading a token does, case by case.
Reads(q, token, r) ==
    \/ q.want = "operand" /\ token \in LeafTokens /\ r = Want(q, "operator")
    \/ q.want = "operand" /\ token \in NameTokens /\ r = Want(q, "call")
    \/ q.want = "operand" /\ token \in PrefixTokens /\ r = Want(q, "operand")
    \/ q.want = "operand" /\ token = "(" /\ r = Opened(q, "group")
    \/ q.want = "call" /\ token = "(" /\ r = Opened(q, "call")
    \/ q.want = "operator" /\ token \in InfixTokens /\ r = Want(q, "operand")
    \/ q.want = "operator" /\ token = "deg" /\ r = q
    \/ q.want = "operator" /\ token = ")" /\ Height(q) > 0 /\ r = Closed(q)
    \/ q.want = "operand" /\ q.closable /\ token = ")" /\ r = Closed(q)
    \/ q.want = "operator" /\ token = "comma" /\ InCall(q) /\ r = Separated(q)

\* A step of the reader is one of those Reads lists, or it is stuck.
LEMMA ReadIs ==
  ASSUME NEW q \in ReadingStates, NEW token
  PROVE  Reads(q, token, Read(q, token)) \/ Read(q, token) = Stuck
<1>1. /\ Closable(q) /\ q.want \in {"operand", "operator", "call", "nothing"}
      /\ q.closable \in BOOLEAN
      /\ q.open # <<>> => Height(q) > 0
  BY StateFacts DEF Height
<1>2. CASE q.want = "operand"
  BY <1>1, <1>2, TokensApart DEF Read, Reads, Brackets, Separated
<1>3. CASE q.want = "operator"
  BY <1>1, <1>3, TokensApart DEF Read, Reads, Brackets, Closable, Separated
<1>4. CASE q.want = "call"
  BY <1>1, <1>4 DEF Read, Reads, Closable
<1>5. CASE q.want = "nothing"
  BY <1>1, <1>5 DEF Read, Closable
<1> QED
  BY <1>1, <1>2, <1>3, <1>4, <1>5

\* The steps Reads lists are what Read does: its cases do not overlap.
LEMMA ReadDoes ==
  ASSUME NEW q \in ReadingStates, NEW token, NEW r, Reads(q, token, r)
  PROVE  Read(q, token) = r
<1>1. /\ Closable(q) /\ q.want \in {"operand", "operator", "call", "nothing"}
      /\ q.closable \in BOOLEAN
      /\ q.open # <<>> <=> Height(q) > 0
  BY StateFacts DEF Height
<1>2. CASE q.want = "operand"
  BY <1>1, <1>2, TokensApart DEF Read, Reads, Brackets, Separated
<1>3. CASE q.want = "operator"
  BY <1>1, <1>3, TokensApart DEF Read, Reads, Brackets, Closable, Separated
<1>4. CASE q.want = "call"
  BY <1>1, <1>4 DEF Read, Reads, Closable
<1>5. CASE q.want = "nothing"
  BY <1>1, <1>5 DEF Reads
<1> QED
  BY <1>1, <1>2, <1>3, <1>4, <1>5

\* Reading leads from state to state.
LEMMA ReadKeeps ==
  ASSUME NEW q \in ReadingStates, NEW token
  PROVE  Read(q, token) \in ReadingStates
<1>1. CASE Read(q, token) = Stuck
  BY <1>1, StuckFacts
<1>2. CASE Reads(q, token, Read(q, token))
  <2>1. /\ Want(q, "operator") \in ReadingStates /\ Want(q, "operand") \in ReadingStates
        /\ Want(q, "call") \in ReadingStates
    BY WantFacts
  <2>2. Opened(q, "group") \in ReadingStates /\ Opened(q, "call") \in ReadingStates
    BY OpenedFacts
  <2>3. Height(q) > 0 => Closed(q) \in ReadingStates
    BY ClosedFacts
  <2>4. InCall(q) => Separated(q) \in ReadingStates
    BY SeparatedFacts
  <2>5. q.closable => Height(q) > 0
    BY StateFacts DEF Closable
  <2> QED
    BY <1>2, <2>1, <2>2, <2>3, <2>4, <2>5 DEF Reads
<1> QED
  BY <1>1, <1>2, ReadIs

\* f is the states of a reader up to the n-th token.
ReadsTo(f, s, n) ==
    f \in [0 .. n -> ReadingStates] /\ f[0] = Start /\ \A k \in 1 .. n : f[k] = Read(f[k - 1], s[k])

\* There is a function that reads the first n tokens, for every n.
LEMMA ReadingsExist ==
  ASSUME NEW s
  PROVE  \A n \in Nat : \E f : ReadsTo(f, s, n)
<1> DEFINE S == {n \in Nat : \E f : ReadsTo(f, s, n)}
<1>1. 0 \in S
  <2>1. ReadsTo([k \in 0 .. 0 |-> Start], s, 0)
    BY StuckFacts DEF ReadsTo
  <2> QED
    BY <2>1
<1>2. ASSUME NEW m \in S
      PROVE  m + 1 \in S
  <2>1. PICK f : ReadsTo(f, s, m)
    BY <1>2
  <2> DEFINE last == Read(f[m], s[m + 1])
             g == [k \in 0 .. m + 1 |-> IF k = m + 1 THEN last ELSE f[k]]
  <2>2. m \in Nat /\ f[m] \in ReadingStates /\ last \in ReadingStates
    BY <2>1, ReadKeeps DEF ReadsTo
  <2>3. g \in [0 .. m + 1 -> ReadingStates]
    BY <2>1, <2>2 DEF ReadsTo
  <2>4. ASSUME NEW k \in 1 .. m + 1
        PROVE  g[k] = Read(g[k - 1], s[k])
    <3>1. k - 1 \in 0 .. m + 1 /\ k - 1 # m + 1 /\ k \in 0 .. m + 1 /\ k - 1 \in 0 .. m
      BY <2>2
    <3>2. g[k - 1] = f[k - 1] /\ g[k] = IF k = m + 1 THEN last ELSE f[k]
      BY <3>1
    <3>3. CASE k = m + 1
      <4>1. k - 1 = m
        BY <3>3, <2>2
      <4> QED
        BY <4>1, <3>2, <3>3
    <3>4. CASE k # m + 1
      <4>1. k \in 1 .. m
        BY <3>4, <2>2
      <4>2. f[k] = Read(f[k - 1], s[k])
        BY <4>1, <2>1 DEF ReadsTo
      <4> QED
        BY <4>2, <3>2, <3>4
    <3> QED
      BY <3>3, <3>4
  <2>5. g[0] = Start
    BY <2>1, <2>2 DEF ReadsTo
  <2> HIDE DEF g
  <2>6. ReadsTo(g, s, m + 1)
    BY <2>3, <2>4, <2>5 DEF ReadsTo
  <2> QED
    BY <2>2, <2>6
<1>3. S = Nat
  <2>1. S \in SUBSET Nat
    OBVIOUS
  <2> HIDE DEF S
  <2> QED
    BY <1>1, <1>2, <2>1, SetInduction
<1> QED
  BY <1>3

\* So the recursive function Reading is the one it describes.
LEMMA ReadingFacts ==
  ASSUME NEW s \in Seq(Tokens)
  PROVE  ReadsTo(Reading(s), s, Len(s))
<1> DEFINE P(f) == f = [n \in 0 .. Len(s) |-> IF n = 0 THEN Start ELSE Read(f[n - 1], s[n])]
<1>1. Len(s) \in Nat
  OBVIOUS
<1>2. PICK f : ReadsTo(f, s, Len(s))
  BY <1>1, ReadingsExist
<1>3. P(f)
  BY <1>1, <1>2 DEF ReadsTo
<1>4. Reading(s) = CHOOSE g : P(g)
  BY DEF Reading
<1> HIDE DEF P
<1>5. P(Reading(s))
  BY <1>3, <1>4
<1>6. Reading(s)[0] = Start /\ \A k \in 1 .. Len(s) : Reading(s)[k] = Read(Reading(s)[k - 1], s[k])
  BY <1>1, <1>5 DEF P
<1>7. Reading(s) = [n \in 0 .. Len(s) |-> Reading(s)[n]]
  BY <1>5 DEF P
<1> DEFINE S == {n \in Nat : n =< Len(s) => Reading(s)[n] \in ReadingStates}
<1>8. S = Nat
  <2>1. 0 \in S
    BY <1>6, StuckFacts
  <2>2. ASSUME NEW n \in S
        PROVE  n + 1 \in S
    <3>1. CASE n + 1 =< Len(s)
      <4>1. n + 1 \in 1 .. Len(s) /\ n + 1 - 1 = n /\ n =< Len(s)
        BY <1>1, <3>1
      <4>2. Reading(s)[n + 1] = Read(Reading(s)[n], s[n + 1])
        BY <4>1, <1>6
      <4> QED
        BY <4>1, <4>2, <2>2, ReadKeeps
    <3> QED
      BY <3>1
  <2>3. S \in SUBSET Nat
    OBVIOUS
  <2> HIDE DEF S
  <2> QED
    BY <2>1, <2>2, <2>3, SetInduction
<1>9. Reading(s) \in [0 .. Len(s) -> ReadingStates]
  <2>1. \A n \in 0 .. Len(s) : Reading(s)[n] \in ReadingStates
    BY <1>1, <1>8
  <2> QED
    BY <2>1, <1>7
<1> QED
  BY <1>6, <1>9 DEF ReadsTo

\* Every reading starts at Start and is in a state at every token.
LEMMA StepFacts ==
  ASSUME NEW s \in Seq(Tokens), NEW R, ReadsTo(R, s, Len(s))
  PROVE  /\ Len(s) \in Nat /\ R[0] = Start
         /\ \A n \in 0 .. Len(s) : R[n] \in ReadingStates /\ Height(R[n]) \in Nat
         /\ \A n \in 1 .. Len(s) : R[n - 1] \in ReadingStates /\ R[n] = Read(R[n - 1], s[n])
<1>1. Len(s) \in Nat
  OBVIOUS
<1>2. \A n \in 0 .. Len(s) : R[n] \in ReadingStates
  BY DEF ReadsTo
<1>3. \A n \in 1 .. Len(s) : n - 1 \in 0 .. Len(s)
  BY <1>1
<1> QED
  BY <1>1, <1>2, <1>3, StateFacts DEF ReadsTo

\* How one token is read.
LEMMA StepAt ==
  ASSUME NEW s \in Seq(Tokens), NEW R, ReadsTo(R, s, Len(s)), NEW n \in 1 .. Len(s)
  PROVE  /\ R[n - 1] \in ReadingStates /\ R[n] \in ReadingStates /\ R[n] = Read(R[n - 1], s[n])
         /\ Height(R[n - 1]) \in Nat /\ Height(R[n]) \in Nat
<1>1. Len(s) \in Nat /\ n \in 0 .. Len(s) /\ n - 1 \in 0 .. Len(s)
  BY StepFacts
<1> QED
  BY <1>1, StepFacts

\* A leaf where an operand is wanted.
LEMMA LeafStep ==
  ASSUME NEW s \in Seq(Tokens), NEW R, ReadsTo(R, s, Len(s)), NEW n \in 1 .. Len(s),
         R[n - 1].want = "operand", s[n] \in LeafTokens
  PROVE  R[n].want = "operator" /\ R[n].open = R[n - 1].open /\ Height(R[n]) = Height(R[n - 1])
<1>1. R[n - 1] \in ReadingStates /\ R[n] = Read(R[n - 1], s[n])
  BY StepAt
<1>2. Reads(R[n - 1], s[n], Want(R[n - 1], "operator"))
  BY DEF Reads
<1>3. R[n] = Want(R[n - 1], "operator")
  BY <1>1, <1>2, ReadDoes
<1>4. Want(R[n - 1], "operator").want = "operator" /\ Want(R[n - 1], "operator").open = R[n - 1].open
  BY <1>1, WantFacts
<1> QED
  BY <1>3, <1>4 DEF Height

\* A name where an operand is wanted.
LEMMA NameStep ==
  ASSUME NEW s \in Seq(Tokens), NEW R, ReadsTo(R, s, Len(s)), NEW n \in 1 .. Len(s),
         R[n - 1].want = "operand", s[n] \in NameTokens
  PROVE  R[n].want = "call" /\ R[n].open = R[n - 1].open /\ Height(R[n]) = Height(R[n - 1])
<1>1. R[n - 1] \in ReadingStates /\ R[n] = Read(R[n - 1], s[n])
  BY StepAt
<1>2. Reads(R[n - 1], s[n], Want(R[n - 1], "call"))
  BY DEF Reads
<1>3. R[n] = Want(R[n - 1], "call")
  BY <1>1, <1>2, ReadDoes
<1>4. Want(R[n - 1], "call").want = "call" /\ Want(R[n - 1], "call").open = R[n - 1].open
  BY <1>1, WantFacts
<1> QED
  BY <1>3, <1>4 DEF Height

\* A prefix operator where an operand is wanted.
LEMMA PrefixStep ==
  ASSUME NEW s \in Seq(Tokens), NEW R, ReadsTo(R, s, Len(s)), NEW n \in 1 .. Len(s),
         R[n - 1].want = "operand", s[n] \in PrefixTokens
  PROVE  R[n].want = "operand" /\ R[n].open = R[n - 1].open /\ Height(R[n]) = Height(R[n - 1])
<1>1. R[n - 1] \in ReadingStates /\ R[n] = Read(R[n - 1], s[n])
  BY StepAt
<1>2. Reads(R[n - 1], s[n], Want(R[n - 1], "operand"))
  BY DEF Reads
<1>3. R[n] = Want(R[n - 1], "operand")
  BY <1>1, <1>2, ReadDoes
<1>4. Want(R[n - 1], "operand").want = "operand" /\ Want(R[n - 1], "operand").open = R[n - 1].open
  BY <1>1, WantFacts
<1> QED
  BY <1>3, <1>4 DEF Height

\* An infix operator after an operand.
LEMMA InfixStep ==
  ASSUME NEW s \in Seq(Tokens), NEW R, ReadsTo(R, s, Len(s)), NEW n \in 1 .. Len(s),
         R[n - 1].want = "operator", s[n] \in InfixTokens
  PROVE  R[n].want = "operand" /\ R[n].open = R[n - 1].open /\ Height(R[n]) = Height(R[n - 1])
<1>1. R[n - 1] \in ReadingStates /\ R[n] = Read(R[n - 1], s[n])
  BY StepAt
<1>2. Reads(R[n - 1], s[n], Want(R[n - 1], "operand"))
  BY DEF Reads
<1>3. R[n] = Want(R[n - 1], "operand")
  BY <1>1, <1>2, ReadDoes
<1>4. Want(R[n - 1], "operand").want = "operand" /\ Want(R[n - 1], "operand").open = R[n - 1].open
  BY <1>1, WantFacts
<1> QED
  BY <1>3, <1>4 DEF Height

\* A degree sign after an operand.
LEMMA DegreesStep ==
  ASSUME NEW s \in Seq(Tokens), NEW R, ReadsTo(R, s, Len(s)), NEW n \in 1 .. Len(s),
         R[n - 1].want = "operator", s[n] = "deg"
  PROVE  R[n] = R[n - 1]
<1>1. R[n - 1] \in ReadingStates /\ R[n] = Read(R[n - 1], s[n])
  BY StepAt
<1>2. Reads(R[n - 1], s[n], R[n - 1])
  BY DEF Reads
<1> QED
  BY <1>1, <1>2, ReadDoes

\* An opening parenthesis, of a group or of a call.
LEMMA OpenStep ==
  ASSUME NEW s \in Seq(Tokens), NEW R, ReadsTo(R, s, Len(s)), NEW n \in 1 .. Len(s), s[n] = "(",
         NEW b \in {"group", "call"}, R[n - 1].want = (IF b = "call" THEN "call" ELSE "operand")
  PROVE  R[n] = Opened(R[n - 1], b)
<1>1. R[n - 1] \in ReadingStates /\ R[n] = Read(R[n - 1], s[n])
  BY StepAt
<1>2. Reads(R[n - 1], s[n], Opened(R[n - 1], b))
  BY DEF Reads
<1> QED
  BY <1>1, <1>2, ReadDoes

\* A closing parenthesis.
LEMMA CloseStep ==
  ASSUME NEW s \in Seq(Tokens), NEW R, ReadsTo(R, s, Len(s)), NEW n \in 1 .. Len(s), s[n] = ")",
         R[n - 1].closable = TRUE \/ R[n - 1].want = "operator", Height(R[n - 1]) > 0
  PROVE  R[n] = Closed(R[n - 1])
<1>1. R[n - 1] \in ReadingStates /\ R[n] = Read(R[n - 1], s[n])
  BY StepAt
<1>2. R[n - 1].closable = TRUE => R[n - 1].want = "operand"
  BY <1>1, StateFacts DEF Closable
<1>3. Reads(R[n - 1], s[n], Closed(R[n - 1]))
  BY <1>2 DEF Reads
<1> QED
  BY <1>1, <1>3, ReadDoes

\* A comma in a call.
LEMMA CommaStep ==
  ASSUME NEW s \in Seq(Tokens), NEW R, ReadsTo(R, s, Len(s)), NEW n \in 1 .. Len(s), s[n] = "comma",
         R[n - 1].want = "operator", InCall(R[n - 1])
  PROVE  /\ R[n].want = "operand" /\ R[n].closable = TRUE /\ R[n].open = R[n - 1].open
         /\ Height(R[n]) = Height(R[n - 1])
<1>1. R[n - 1] \in ReadingStates /\ R[n] = Read(R[n - 1], s[n])
  BY StepAt
<1>2. Reads(R[n - 1], s[n], Separated(R[n - 1]))
  BY DEF Reads
<1>3. R[n] = Separated(R[n - 1])
  BY <1>1, <1>2, ReadDoes
<1> QED
  BY <1>1, <1>3, SeparatedFacts DEF Height

-----------------------------------------------------------------------------
(* What is derived reads as one operand.                                   *)

\* The operator tokens, and how loosely one binds where it stands.
OperatorTokens == InfixTokens \cup PrefixTokens \cup {"deg"}

OperatorLevel(s, R, n) ==
    IF R[n - 1].want = "operand" THEN 3 ELSE IF s[n] = "deg" THEN 2 ELSE LevelOf(s[n])

\* The n-th token is not in brackets opened after the i-th one.
AtBase(R, i, n) == Height(R[n - 1]) = Height(R[i - 1])

\* A token that has a place at the base of an expression of this level.
Fits(s, R, level, n) == s[n] # "comma" /\ (s[n] \in OperatorTokens => OperatorLevel(s, R, n) \in 2 .. level)

\* The tokens i..j are read as an operand, no bracket that was open before is
\* closed, and no operator outside the brackets is looser than the level.
Spans(s, R, level, i, j) ==
    /\ R[j].want = "operator" /\ R[j].open = R[i - 1].open
    /\ \A n \in i .. j : Height(R[n]) >= Height(R[i - 1])
    /\ \A n \in i .. j : AtBase(R, i, n) => Fits(s, R, level, n)

OneOperand(s, R, level, i, j) == R[i - 1].want = "operand" => Spans(s, R, level, i, j)

\* The tokens i..j are read as what a call's brackets hold.
SpansList(R, i, j) ==
    /\ R[j].open = R[i - 1].open
    /\ R[j].closable = TRUE \/ R[j].want = "operator"
    /\ \A n \in i .. j : Height(R[n]) >= Height(R[i - 1])

OneList(R, i, j) == R[i - 1].closable = TRUE => SpansList(R, i, j)

\* A token that fits a level fits a looser one.
LEMMA FitsLooser ==
  ASSUME NEW s, NEW R, NEW level \in 1 .. 13, NEW looser \in 1 .. 13, level =< looser, NEW n,
         Fits(s, R, level, n)
  PROVE  Fits(s, R, looser, n)
<1>1. \A l \in 2 .. level : l \in 2 .. looser
  OBVIOUS
<1> QED
  BY <1>1 DEF Fits

\* What reads as an operand of a level reads as one of a looser level.
LEMMA LooserReads ==
  ASSUME NEW s, NEW R, NEW level \in 1 .. 13, NEW looser \in 1 .. 13, level =< looser,
         NEW i, NEW j, OneOperand(s, R, level, i, j)
  PROVE  OneOperand(s, R, looser, i, j)
<1>1. \A n : Fits(s, R, level, n) => Fits(s, R, looser, n)
  BY FitsLooser
<1> QED
  BY <1>1 DEF OneOperand, Spans

\* A leaf reads as one operand of any level.
LEMMA LeafReads ==
  ASSUME NEW s \in Seq(Tokens), NEW R, ReadsTo(R, s, Len(s)),
         NEW i \in 1 .. Len(s), s[i] \in LeafTokens, NEW level
  PROVE  OneOperand(s, R, level, i, i)
<1> SUFFICES ASSUME R[i - 1].want = "operand"
             PROVE  OneOperand(s, R, level, i, i)
  BY DEF OneOperand, Spans
<1>1. R[i].want = "operator" /\ R[i].open = R[i - 1].open /\ Height(R[i]) = Height(R[i - 1])
  BY LeafStep
<1>2. Height(R[i - 1]) \in Nat
  BY StepAt
<1>3. s[i] # "comma" /\ s[i] \notin OperatorTokens
  BY TokensApart DEF OperatorTokens, Brackets
<1>4. \A n \in i .. i : n = i
  OBVIOUS
<1>5. Height(R[i]) >= Height(R[i - 1])
  BY <1>1, <1>2
<1> QED
  BY <1>1, <1>3, <1>4, <1>5 DEF OneOperand, Spans, Fits

\* An infix operation reads as one operand if its sides do.
LEMMA BinaryReads ==
  ASSUME NEW s \in Seq(Tokens), NEW R, ReadsTo(R, s, Len(s)),
         NEW i \in 1 .. Len(s), NEW j \in 1 .. Len(s), NEW k \in 1 .. Len(s), i < k, k < j,
         NEW rule \in InfixRules, s[k] = rule.token,
         OneOperand(s, R, Lhs(rule.level), i, k - 1),
         OneOperand(s, R, Rhs(rule.level), k + 1, j)
  PROVE  OneOperand(s, R, rule.level, i, j)
<1> SUFFICES ASSUME R[i - 1].want = "operand"
             PROVE  OneOperand(s, R, rule.level, i, j)
  BY DEF OneOperand, Spans
<1>0. Len(s) \in Nat /\ k + 1 - 1 = k
  BY StepFacts
<1>1. R[k - 1].want = "operator" /\ R[k - 1].open = R[i - 1].open
  BY DEF OneOperand, Spans
<1>2. /\ s[k] \in InfixTokens /\ OperatorLevel(s, R, k) = rule.level /\ s[k] # "comma" /\ s[k] # "deg"
      /\ rule.level \in 3 .. 13
  <2>1. R[k - 1].want = "operator"
    BY <1>1
  <2>2. s[k] \in InfixTokens /\ rule.level = LevelOf(s[k]) /\ rule.level \in 3 .. 13
    BY RuleFacts
  <2>3. s[k] # "deg" /\ s[k] # "comma"
    BY <2>2, TokensApart DEF Brackets
  <2> QED
    BY <2>1, <2>2, <2>3 DEF OperatorLevel
<1>3. R[k].want = "operand" /\ R[k].open = R[k - 1].open
  BY <1>1, <1>2, InfixStep
<1>4. Height(R[k - 1]) = Height(R[i - 1]) /\ Height(R[k]) = Height(R[i - 1]) /\ Height(R[i - 1]) \in Nat
  <2>1. Height(R[i - 1]) \in Nat
    BY StepAt
  <2> QED
    BY <1>1, <1>3, <2>1 DEF Height
<1>5. OneOperand(s, R, Rhs(rule.level), k + 1, j) /\ R[k + 1 - 1] = R[k]
  BY <1>0
<1>6. /\ R[j].want = "operator" /\ R[j].open = R[k].open
      /\ \A n \in k + 1 .. j : Height(R[n]) >= Height(R[k])
      /\ \A n \in k + 1 .. j : AtBase(R, k + 1, n) => Fits(s, R, Rhs(rule.level), n)
  BY <1>3, <1>5 DEF OneOperand, Spans
<1>7. /\ \A n \in i .. k - 1 : Height(R[n]) >= Height(R[i - 1])
      /\ \A n \in i .. k - 1 : AtBase(R, i, n) => Fits(s, R, Lhs(rule.level), n)
  BY DEF OneOperand, Spans
<1>8. \A n \in i .. j : n \in i .. k - 1 \/ n = k \/ n \in k + 1 .. j
  BY <1>0
<1>9. ASSUME NEW n \in i .. j
      PROVE  Height(R[n]) >= Height(R[i - 1])
  <2>1. n = k => Height(R[n]) >= Height(R[i - 1])
    BY <1>4
  <2> QED
    BY <1>4, <1>6, <1>7, <1>8, <2>1
<1>10. ASSUME NEW n \in i .. j, AtBase(R, i, n)
       PROVE  Fits(s, R, rule.level, n)
  <2>0. /\ Lhs(rule.level) \in 1 .. 13 /\ Lhs(rule.level) =< rule.level
        /\ Rhs(rule.level) \in 1 .. 13 /\ Rhs(rule.level) =< rule.level
        /\ rule.level \in 1 .. 13
    <3>1. rule.level \in 3 .. 13
      BY <1>2
    <3>2. CASE rule.level = 3
      BY <3>2 DEF Lhs, Rhs
    <3>3. CASE rule.level # 3
      BY <3>1, <3>3 DEF Lhs, Rhs
    <3> QED
      BY <3>2, <3>3
  <2>1. CASE n \in i .. k - 1
    <3>1. Fits(s, R, Lhs(rule.level), n)
      BY <2>1, <1>7, <1>10
    <3> QED
      BY <2>0, <3>1, FitsLooser
  <2>2. CASE n = k
    <3>1. rule.level \in 3 .. 13
      BY <1>2
    <3>2. rule.level \in 2 .. rule.level
      BY <3>1
    <3> QED
      BY <2>2, <1>2, <3>2 DEF Fits
  <2>3. CASE n \in k + 1 .. j
    <3>1. AtBase(R, k + 1, n)
      BY <1>0, <1>4, <1>10 DEF AtBase
    <3>2. Fits(s, R, Rhs(rule.level), n)
      BY <1>6, <2>3, <3>1
    <3> QED
      BY <2>0, <3>2, FitsLooser
  <2> QED
    BY <1>8, <2>1, <2>2, <2>3
<1> QED
  BY <1>1, <1>3, <1>6, <1>9, <1>10 DEF OneOperand, Spans

\* A prefix operation reads as one operand if what it is applied to does.
LEMMA PrefixReads ==
  ASSUME NEW s \in Seq(Tokens), NEW R, ReadsTo(R, s, Len(s)),
         NEW i \in 1 .. Len(s), NEW j \in 1 .. Len(s), i < j, s[i] \in PrefixTokens,
         OneOperand(s, R, 3, i + 1, j)
  PROVE  OneOperand(s, R, 3, i, j)
<1> SUFFICES ASSUME R[i - 1].want = "operand"
             PROVE  Spans(s, R, 3, i, j)
  BY DEF OneOperand
<1>0. Len(s) \in Nat /\ i + 1 - 1 = i
  BY StepFacts
<1>1. R[i].want = "operand" /\ R[i].open = R[i - 1].open /\ Height(R[i]) = Height(R[i - 1])
  BY PrefixStep
<1>2. Height(R[i - 1]) \in Nat
  BY StepAt
<1>3. Spans(s, R, 3, i + 1, j) /\ R[i + 1 - 1] = R[i]
  BY <1>0, <1>1 DEF OneOperand
<1>4. /\ R[j].want = "operator" /\ R[j].open = R[i].open
      /\ \A n \in i + 1 .. j : Height(R[n]) >= Height(R[i])
      /\ \A n \in i + 1 .. j : AtBase(R, i + 1, n) => Fits(s, R, 3, n)
  BY <1>3 DEF Spans
<1>5. \A n \in i .. j : n = i \/ n \in i + 1 .. j
  BY <1>0
<1>6. Fits(s, R, 3, i)
  <2>1. s[i] # "comma"
    BY TokensApart DEF Brackets
  <2>2. OperatorLevel(s, R, i) = 3 /\ 3 \in 2 .. 3
    BY DEF OperatorLevel
  <2> QED
    BY <2>1, <2>2 DEF Fits
<1>7. \A n \in i .. j : AtBase(R, i, n) => Fits(s, R, 3, n)
  BY <1>1, <1>3, <1>4, <1>5, <1>6 DEF AtBase
<1>8. \A n \in i .. j : Height(R[n]) >= Height(R[i - 1])
  BY <1>1, <1>2, <1>4, <1>5
<1> QED
  BY <1>1, <1>4, <1>7, <1>8 DEF Spans

\* A postfix operation reads as one operand if what it is applied to does.
LEMMA PostfixReads ==
  ASSUME NEW s \in Seq(Tokens), NEW R, ReadsTo(R, s, Len(s)),
         NEW i \in 1 .. Len(s), NEW j \in 1 .. Len(s), i < j, s[j] = "deg",
         OneOperand(s, R, 2, i, j - 1)
  PROVE  OneOperand(s, R, 2, i, j)
<1> SUFFICES ASSUME R[i - 1].want = "operand"
             PROVE  Spans(s, R, 2, i, j)
  BY DEF OneOperand
<1>0. Len(s) \in Nat
  BY StepFacts
<1>1. Spans(s, R, 2, i, j - 1)
  BY DEF OneOperand
<1>2. /\ R[j - 1].want = "operator" /\ R[j - 1].open = R[i - 1].open
      /\ \A n \in i .. j - 1 : Height(R[n]) >= Height(R[i - 1])
      /\ \A n \in i .. j - 1 : AtBase(R, i, n) => Fits(s, R, 2, n)
  BY <1>1 DEF Spans
<1>3. R[j] = R[j - 1]
  BY <1>2, DegreesStep
<1>4. Height(R[i - 1]) \in Nat /\ Height(R[j]) = Height(R[i - 1])
  BY <1>2, <1>3, StepAt DEF Height
<1>5. \A n \in i .. j : n \in i .. j - 1 \/ n = j
  BY <1>0
<1>6. Fits(s, R, 2, j)
  <2>1. OperatorLevel(s, R, j) = 2 /\ 2 \in 2 .. 2
    BY <1>2 DEF OperatorLevel
  <2> QED
    BY <2>1 DEF Fits
<1>7. \A n \in i .. j : AtBase(R, i, n) => Fits(s, R, 2, n)
  BY <1>2, <1>5, <1>6
<1>8. \A n \in i .. j : Height(R[n]) >= Height(R[i - 1])
  BY <1>2, <1>4, <1>5
<1> QED
  BY <1>2, <1>3, <1>7, <1>8 DEF Spans

\* States with the same brackets open.
LEMMA SameOpen ==
  ASSUME NEW q \in ReadingStates, NEW r \in ReadingStates, Height(q) = Height(r),
         \A m \in 1 .. Height(q) : q.open[m] = r.open[m]
  PROVE  q.open = r.open
BY StateFacts DEF Height

\* What is read between a bracket opened at o and closed at j is above both.
LEMMA BracketReads ==
  ASSUME NEW s \in Seq(Tokens), NEW R, ReadsTo(R, s, Len(s)),
         NEW o \in 1 .. Len(s), NEW j \in 1 .. Len(s), o < j, s[j] = ")",
         NEW b \in {"group", "call"}, R[o] = Opened(R[o - 1], b),
         R[j - 1].closable = TRUE \/ R[j - 1].want = "operator", R[j - 1].open = R[o].open,
         \A n \in o + 1 .. j - 1 : Height(R[n]) >= Height(R[o])
  PROVE  /\ R[j].want = "operator" /\ R[j].open = R[o - 1].open
         /\ \A n \in o .. j : Height(R[n]) >= Height(R[o - 1])
         /\ \A n \in o + 1 .. j : Height(R[n - 1]) # Height(R[o - 1])
<1>0. Len(s) \in Nat
  BY StepFacts
<1>1. /\ R[o - 1] \in ReadingStates /\ R[o] \in ReadingStates /\ Height(R[o - 1]) \in Nat
      /\ R[j - 1] \in ReadingStates /\ R[j] \in ReadingStates
  BY StepAt
<1>2. /\ Height(R[o]) = Height(R[o - 1]) + 1
      /\ \A m \in 1 .. Height(R[o - 1]) : R[o].open[m] = R[o - 1].open[m]
  <2> DEFINE q == R[o - 1]
  <2>1. /\ Height(Opened(q, b)) = Height(q) + 1
        /\ \A m \in 1 .. Height(q) : Opened(q, b).open[m] = q.open[m]
    <3>1. q \in ReadingStates
      BY <1>1
    <3> HIDE DEF q
    <3> QED
      BY <3>1, OpenedFacts
  <2> QED
    BY <2>1
<1>3. Height(R[j - 1]) = Height(R[o - 1]) + 1
  BY <1>2 DEF Height
<1>4. Height(R[j - 1]) > 0
  BY <1>1, <1>3
<1>5. R[j] = Closed(R[j - 1])
  BY <1>4, CloseStep
<1>6. /\ R[j].want = "operator" /\ Height(R[j]) = Height(R[j - 1]) - 1
      /\ \A m \in 1 .. Height(R[j - 1]) - 1 : R[j].open[m] = R[j - 1].open[m]
  BY <1>1, <1>4, <1>5, ClosedFacts
<1>7. Height(R[j]) = Height(R[o - 1])
  BY <1>1, <1>3, <1>6
<1>8. \A m \in 1 .. Height(R[j]) : R[j].open[m] = R[o - 1].open[m]
  <2>1. Height(R[j - 1]) - 1 = Height(R[o - 1])
    BY <1>1, <1>3
  <2> QED
    BY <1>2, <1>6, <1>7, <2>1
<1>9. R[j].open = R[o - 1].open
  BY <1>1, <1>7, <1>8, SameOpen
<1>10. \A n \in o .. j - 1 : n = o \/ n \in o + 1 .. j - 1
  BY <1>0
<1>11. \A n \in o .. j - 1 : Height(R[n]) >= Height(R[o - 1]) + 1
  BY <1>1, <1>2, <1>10
<1>12. ASSUME NEW n \in o .. j
       PROVE  Height(R[n]) >= Height(R[o - 1])
  <2>1. n = j \/ n \in o .. j - 1
    BY <1>0
  <2>2. Height(R[n]) \in Nat
    <3>1. n \in 0 .. Len(s)
      BY <1>0
    <3> QED
      BY <3>1, StepFacts
  <2>3. CASE n = j
    BY <1>1, <1>7, <2>3
  <2>4. CASE n \in o .. j - 1
    <3>1. Height(R[n]) >= Height(R[o - 1]) + 1
      BY <1>11, <2>4
    <3> QED
      BY <3>1, <1>1, <2>2
  <2> QED
    BY <2>1, <2>3, <2>4
<1>13. ASSUME NEW n \in o + 1 .. j
       PROVE  Height(R[n - 1]) # Height(R[o - 1])
  <2>1. n - 1 \in o .. j - 1
    BY <1>0
  <2>2. Height(R[n - 1]) >= Height(R[o - 1]) + 1
    BY <2>1, <1>11
  <2> QED
    BY <1>1, <2>2
<1> QED
  BY <1>6, <1>9, <1>12, <1>13

\* An expression in parentheses reads as one operand of any level.
LEMMA GroupReads ==
  ASSUME NEW s \in Seq(Tokens), NEW R, ReadsTo(R, s, Len(s)),
         NEW i \in 1 .. Len(s), NEW j \in 1 .. Len(s), i < j, s[i] = "(", s[j] = ")",
         OneOperand(s, R, 13, i + 1, j - 1), NEW level
  PROVE  OneOperand(s, R, level, i, j)
<1> SUFFICES ASSUME R[i - 1].want = "operand"
             PROVE  Spans(s, R, level, i, j)
  BY DEF OneOperand
<1>0. Len(s) \in Nat /\ i + 1 - 1 = i
  BY StepFacts
<1>1. R[i] = Opened(R[i - 1], "group")
  BY OpenStep
<1>2. R[i].want = "operand"
  BY <1>1 DEF Opened
<1>3. Spans(s, R, 13, i + 1, j - 1) /\ R[i + 1 - 1] = R[i]
  BY <1>0, <1>2 DEF OneOperand
<1>4. /\ R[j - 1].want = "operator" /\ R[j - 1].open = R[i].open
      /\ \A n \in i + 1 .. j - 1 : Height(R[n]) >= Height(R[i])
  BY <1>3 DEF Spans
<1>5. /\ R[j].want = "operator" /\ R[j].open = R[i - 1].open
      /\ \A n \in i .. j : Height(R[n]) >= Height(R[i - 1])
      /\ \A n \in i + 1 .. j : Height(R[n - 1]) # Height(R[i - 1])
  BY <1>1, <1>4, BracketReads
<1>6. \A n \in i .. j : n = i \/ n \in i + 1 .. j
  BY <1>0
<1>7. s[i] # "comma" /\ s[i] \notin OperatorTokens
  BY TokensApart DEF OperatorTokens, Brackets
<1>8. \A n \in i .. j : AtBase(R, i, n) => Fits(s, R, level, n)
  BY <1>5, <1>6, <1>7 DEF AtBase, Fits
<1> QED
  BY <1>5, <1>8 DEF Spans

\* A call reads as one operand of any level if its arguments read as a list.
LEMMA CallReads ==
  ASSUME NEW s \in Seq(Tokens), NEW R, ReadsTo(R, s, Len(s)),
         NEW i \in 1 .. Len(s), NEW j \in 1 .. Len(s), i + 2 =< j,
         s[i] \in NameTokens, s[i + 1] = "(", s[j] = ")",
         OneList(R, i + 2, j - 1), NEW level
  PROVE  OneOperand(s, R, level, i, j)
<1> SUFFICES ASSUME R[i - 1].want = "operand"
             PROVE  Spans(s, R, level, i, j)
  BY DEF OneOperand
<1>0. Len(s) \in Nat /\ i + 1 - 1 = i /\ i + 2 - 1 = i + 1 /\ i + 1 \in 1 .. Len(s) /\ i + 1 < j /\ i + 1 + 1 = i + 2
  BY StepFacts
<1>1. R[i].want = "call" /\ R[i].open = R[i - 1].open /\ Height(R[i]) = Height(R[i - 1])
  BY NameStep
<1>2. R[i + 1] = Opened(R[i], "call") /\ R[i] \in ReadingStates /\ Height(R[i]) \in Nat
  <2>1. R[i + 1 - 1].want = "call"
    BY <1>0, <1>1
  <2>2. R[i + 1] = Opened(R[i + 1 - 1], "call")
    BY <1>0, <2>1, OpenStep
  <2> QED
    BY <1>0, <2>2, StepAt
<1>3. R[i + 1].closable = TRUE
  BY <1>2, OpenedFacts
<1>4. SpansList(R, i + 2, j - 1)
  BY <1>0, <1>3 DEF OneList
<1>5. /\ R[j - 1].closable = TRUE \/ R[j - 1].want = "operator"
      /\ R[j - 1].open = R[i + 1].open
      /\ \A n \in i + 2 .. j - 1 : Height(R[n]) >= Height(R[i + 1])
  BY <1>0, <1>4 DEF SpansList
<1>6. /\ R[j].want = "operator" /\ R[j].open = R[i].open
      /\ \A n \in i + 1 .. j : Height(R[n]) >= Height(R[i])
      /\ \A n \in i + 2 .. j : Height(R[n - 1]) # Height(R[i])
  <2>1. R[i + 1] = Opened(R[i + 1 - 1], "call")
    BY <1>0, <1>2
  <2>2. \A n \in i + 1 + 1 .. j - 1 : Height(R[n]) >= Height(R[i + 1])
    BY <1>0, <1>5
  <2>3. /\ R[j].want = "operator" /\ R[j].open = R[i + 1 - 1].open
        /\ \A n \in i + 1 .. j : Height(R[n]) >= Height(R[i + 1 - 1])
        /\ \A n \in i + 1 + 1 .. j : Height(R[n - 1]) # Height(R[i + 1 - 1])
    <3> DEFINE o == i + 1
    <3>1. /\ o \in 1 .. Len(s) /\ o < j /\ R[o] = Opened(R[o - 1], "call") /\ R[j - 1].open = R[o].open
          /\ \A n \in o + 1 .. j - 1 : Height(R[n]) >= Height(R[o])
      BY <1>0, <1>5, <2>1, <2>2
    <3>2. R[j - 1].closable = TRUE \/ R[j - 1].want = "operator"
      BY <1>5
    <3> HIDE DEF o
    <3>3. /\ R[j].want = "operator" /\ R[j].open = R[o - 1].open
          /\ \A n \in o .. j : Height(R[n]) >= Height(R[o - 1])
          /\ \A n \in o + 1 .. j : Height(R[n - 1]) # Height(R[o - 1])
      BY <3>1, <3>2, BracketReads
    <3> QED
      BY <3>3 DEF o
  <2> QED
    BY <1>0, <2>3
<1>7. \A n \in i .. j : n = i \/ n = i + 1 \/ n \in i + 2 .. j
  BY <1>0
<1>8. \A n \in i .. j : n = i \/ n \in i + 1 .. j
  BY <1>0
<1>9. s[i] # "comma" /\ s[i] \notin OperatorTokens /\ s[i + 1] # "comma" /\ s[i + 1] \notin OperatorTokens
  BY TokensApart DEF OperatorTokens, Brackets
<1>10. \A n \in i .. j : AtBase(R, i, n) => Fits(s, R, level, n)
  BY <1>1, <1>6, <1>7, <1>9 DEF AtBase, Fits
<1>11. \A n \in i .. j : Height(R[n]) >= Height(R[i - 1])
  BY <1>1, <1>2, <1>6, <1>8
<1> QED
  BY <1>1, <1>6, <1>10, <1>11 DEF Spans

\* Fewer tokens, or as many at a tighter level.
Within(level2, i2, j2, level, i, j) == j2 - i2 < j - i \/ (j2 - i2 = j - i /\ level2 < level)

\* Induction on places, by their levels and ends.
LEMMA SpanInduction ==
  ASSUME NEW s \in Seq(Tokens), NEW G,
         \A level \in 1 .. 14, i \in 1 .. Len(s) + 1, j \in 0 .. Len(s) :
            (i =< j => \A level2 \in 1 .. 14, i2 \in 1 .. Len(s) + 1, j2 \in 0 .. Len(s) :
                          Within(level2, i2, j2, level, i, j) => Place(level2, i2, j2) \in G)
            => Place(level, i, j) \in G
  PROVE  \A level \in 1 .. 14, i \in 1 .. Len(s) + 1, j \in 0 .. Len(s) : Place(level, i, j) \in G
<1>1. ASSUME NEW p \in Places(s), \A q \in Places(s) : Weight(q) < Weight(p) => q \in G
      PROVE  p \in G
  <2>1. PICK level \in 1 .. 14, i \in 1 .. Len(s) + 1, j \in 0 .. Len(s) : p = Place(level, i, j)
    BY WeightFacts
  <2>2. ASSUME i =< j, NEW level2 \in 1 .. 14, NEW i2 \in 1 .. Len(s) + 1, NEW j2 \in 0 .. Len(s),
               Within(level2, i2, j2, level, i, j)
        PROVE  Place(level2, i2, j2) \in G
    <3>1. Place(level2, i2, j2) \in Places(s) /\ Weight(Place(level2, i2, j2)) < Weight(Place(level, i, j))
      BY <2>2, Lighter DEF Within
    <3> QED
      BY <1>1, <2>1, <3>1
  <2> QED
    BY <2>1, <2>2
<1>2. \A p \in Places(s) : p \in G
  BY <1>1, PlaceInduction
<1>3. \A level \in 1 .. 14, i \in 1 .. Len(s) + 1, j \in 0 .. Len(s) : Place(level, i, j) \in Places(s)
  BY WeightFacts
<1> QED
  BY <1>2, <1>3

\* What is derived at a place of an expression is read as an operand, and what
\* is derived for the arguments of a call is read as such.
SoundAt(s, level, i, j) ==
    \A t \in Expression(s)[Place(level, i, j)] :
       IF level = 14 THEN i =< j + 1 => OneList(Reading(s), i, j)
       ELSE i =< j /\ OneOperand(s, Reading(s), level, i, j)

\* An argument, a comma and a list read as a list.
LEMMA ListSound ==
  ASSUME NEW s \in Seq(Tokens), NEW R, ReadsTo(R, s, Len(s)),
         NEW i \in 1 .. Len(s), NEW j \in 1 .. Len(s), NEW k \in 1 .. Len(s), i < k, k =< j, s[k] = "comma",
         OneOperand(s, R, 13, i, k - 1), OneList(R, k + 1, j)
  PROVE  OneList(R, i, j)
<1> SUFFICES ASSUME R[i - 1].closable = TRUE
             PROVE  SpansList(R, i, j)
  BY DEF OneList
<1>0. Len(s) \in Nat /\ k + 1 - 1 = k
  BY StepFacts
<1>1. R[i - 1] \in ReadingStates /\ Height(R[i - 1]) \in Nat /\ R[k - 1] \in ReadingStates
  BY <1>0, StepAt
<1>2. R[i - 1].want = "operand" /\ InCall(R[i - 1])
  BY <1>1, StateFacts DEF Closable
<1>3. Spans(s, R, 13, i, k - 1)
  BY <1>2 DEF OneOperand
<1>4. /\ R[k - 1].want = "operator" /\ R[k - 1].open = R[i - 1].open
      /\ \A n \in i .. k - 1 : Height(R[n]) >= Height(R[i - 1])
  BY <1>3 DEF Spans
<1>5. InCall(R[k - 1])
  BY <1>2, <1>4 DEF InCall
<1>6. R[k].closable = TRUE /\ R[k].open = R[k - 1].open /\ Height(R[k]) = Height(R[i - 1])
  BY <1>0, <1>4, <1>5, CommaStep DEF Height
<1>7. SpansList(R, k + 1, j) /\ R[k + 1 - 1] = R[k]
  <2>1. R[k + 1 - 1] = R[k]
    BY <1>0
  <2> QED
    BY <2>1, <1>6 DEF OneList
<1>8. /\ R[j].open = R[k].open
      /\ R[j].closable = TRUE \/ R[j].want = "operator"
      /\ \A n \in k + 1 .. j : Height(R[n]) >= Height(R[k])
  BY <1>0, <1>7 DEF SpansList
<1>9. \A n \in i .. j : n \in i .. k - 1 \/ n = k \/ n \in k + 1 .. j
  BY <1>0
<1>10. ASSUME NEW n \in i .. j
       PROVE  Height(R[n]) >= Height(R[i - 1])
  <2>1. n = k => Height(R[n]) >= Height(R[i - 1])
    BY <1>1, <1>6
  <2> QED
    BY <1>4, <1>6, <1>8, <1>9, <2>1
<1> QED
  BY <1>4, <1>6, <1>8, <1>10 DEF SpansList

\* What a place derives reads as one operand, or list, if what lighter places derive does.
LEMMA SoundStep ==
  ASSUME NEW s \in Seq(Tokens),
         NEW level \in 1 .. 14, NEW i \in 1 .. Len(s) + 1, NEW j \in 0 .. Len(s),
         i =< j => \A level2 \in 1 .. 14, i2 \in 1 .. Len(s) + 1, j2 \in 0 .. Len(s) :
                      Within(level2, i2, j2, level, i, j) => SoundAt(s, level2, i2, j2)
  PROVE  SoundAt(s, level, i, j)
<1> DEFINE R == Reading(s)
           d == Expression(s)
<1> SUFFICES ASSUME NEW t \in d[Place(level, i, j)]
             PROVE  IF level = 14 THEN i =< j + 1 => OneList(R, i, j)
                    ELSE i =< j /\ OneOperand(s, R, level, i, j)
  BY DEF SoundAt
<1>0. Len(s) \in Nat /\ ReadsTo(R, s, Len(s)) /\ 1 \in 1 .. 13 /\ 2 \in 1 .. 14 /\ 3 \in 1 .. 14 /\ 13 \in 1 .. 14 /\ 14 \in 1 .. 14
  BY ReadingFacts
<1>1. t \in Derives(d, s, level, i, j)
  BY ExpressionFacts
<1>2. ASSUME i =< j,
             NEW level2 \in 1 .. 13, NEW i2 \in 1 .. Len(s) + 1, NEW j2 \in 0 .. Len(s),
             Within(level2, i2, j2, level, i, j), NEW u \in d[Place(level2, i2, j2)]
      PROVE  i2 =< j2 /\ OneOperand(s, R, level2, i2, j2)
  <2>1. level2 \in 1 .. 14 /\ level2 # 14
    OBVIOUS
  <2>2. SoundAt(s, level2, i2, j2)
    BY <1>2, <2>1
  <2> QED
    BY <1>2, <2>1, <2>2 DEF SoundAt
<1>3. ASSUME i =< j, NEW i2 \in 1 .. Len(s) + 1, NEW j2 \in 0 .. Len(s), i2 =< j2 + 1,
             Within(14, i2, j2, level, i, j), NEW u \in d[Place(14, i2, j2)]
      PROVE  OneList(R, i2, j2)
  <2>1. SoundAt(s, 14, i2, j2)
    BY <1>0, <1>3
  <2> QED
    BY <1>3, <2>1 DEF SoundAt
<1> HIDE DEF R, d
<1>4. CASE level = 14
  <2> SUFFICES ASSUME i =< j + 1
               PROVE  OneList(R, i, j)
    BY <1>4
  <2>1. CASE i > j
    <3>1. i - 1 = j /\ \A n : ~(n \in i .. j)
      BY <1>0, <2>1
    <3> QED
      BY <3>1 DEF OneList, SpansList
  <2>2. CASE ~(i > j)
    <3>0. i =< j
      BY <1>0, <2>2
    <3>1. t \in ExpressionList(d, s, i, j)
      BY <1>1, <1>4 DEF Derives, Arguments, Loosest
    <3>2. CASE t \in d[Place(13, i, j)]
      <4>1. Within(13, i, j, level, i, j) /\ 13 \in 1 .. 13
        BY <1>0, <1>4 DEF Within
      <4>2. OneOperand(s, R, 13, i, j)
        BY <1>2, <3>0, <3>2, <4>1
      <4>3. R[i - 1] \in ReadingStates
        BY <1>0, <3>0, StepAt
      <4>4. R[i - 1].closable = TRUE => R[i - 1].want = "operand"
        BY <4>3, StateFacts DEF Closable
      <4> QED
        BY <4>2, <4>4 DEF OneOperand, Spans, OneList, SpansList
    <3>3. ASSUME NEW k \in i + 1 .. j, s[k] = "comma", SplitAt(d, i, k, j, t)
          PROVE  OneList(R, i, j)
      <4>1. /\ k - 1 \in 0 .. Len(s) /\ k + 1 \in 1 .. Len(s) + 1 /\ k + 1 =< j + 1
            /\ i \in 1 .. Len(s) /\ j \in 1 .. Len(s) /\ k \in 1 .. Len(s) /\ i < k /\ k =< j
            /\ Within(13, i, k - 1, level, i, j) /\ Within(14, k + 1, j, level, i, j) /\ 13 \in 1 .. 13
        BY <1>0 DEF Within
      <4>2. PICK e \in d[Place(13, i, k - 1)], rest \in d[Place(14, k + 1, j)] : t = e \o rest
        BY <3>3 DEF SplitAt
      <4>3. OneOperand(s, R, 13, i, k - 1)
        BY <1>2, <3>0, <4>1, <4>2
      <4>4. OneList(R, k + 1, j)
        BY <1>3, <3>0, <4>1, <4>2
      <4> QED
        BY <1>0, <3>3, <4>1, <4>3, <4>4, ListSound
    <3> QED
      BY <2>2, <3>1, <3>2, <3>3, ListMembers
  <2> QED
    BY <2>1, <2>2
<1>5. CASE level # 14
  <2>0. level \in 1 .. 13
    BY <1>5
  <2>1. i =< j
    <3>1. ~(i > j)
      BY <1>1, <2>0, LevelMembers
    <3> QED
      BY <1>0, <3>1
  <2>2. i \in 1 .. Len(s) /\ j \in 1 .. Len(s)
    BY <1>0, <2>1
  <2>3. CASE level = 1 /\ t \in Term(d, s, i, j)
    <3>1. CASE s[i] = "(" /\ s[j] = ")" /\ t \in d[Place(13, i + 1, j - 1)]
      <4>0. i # j
        BY <3>1
      <4>1. /\ j - 1 \in 0 .. Len(s) /\ i + 1 \in 1 .. Len(s) + 1 /\ i < j
            /\ Within(13, i + 1, j - 1, level, i, j) /\ 13 \in 1 .. 13
        BY <1>0, <2>1, <4>0 DEF Within
      <4>2. OneOperand(s, R, 13, i + 1, j - 1)
        BY <1>2, <2>1, <3>1, <4>1
      <4> QED
        BY <1>0, <2>1, <2>2, <2>3, <3>1, <4>1, <4>2, GroupReads
    <3>2. CASE t \in FunctionCall(d, s, i, j)
      <4>1. /\ ~(j < i + 2) /\ s[i + 1] = "(" /\ s[j] = ")"
            /\ \E func \in Under(FunctionRules, s[i]), args \in d[Place(14, i + 2, j - 1)] :
                 t = Tree("function", func, i, args)
        BY <3>2, CallMembers
      <4>2. /\ j - 1 \in 0 .. Len(s) /\ i + 2 \in 1 .. Len(s) + 1 /\ i + 2 =< j /\ i + 2 =< (j - 1) + 1
            /\ Within(14, i + 2, j - 1, level, i, j)
        BY <1>0, <2>1, <4>1 DEF Within
      <4>3. PICK args \in d[Place(14, i + 2, j - 1)] : TRUE
        BY <4>1
      <4>4. OneList(R, i + 2, j - 1)
        BY <1>3, <2>1, <4>2, <4>3
      <4>5. s[i] \in NameTokens
        BY <4>1, UnderFacts
      <4> QED
        BY <1>0, <2>1, <2>2, <2>3, <4>1, <4>2, <4>4, <4>5, CallReads
    <3>3. CASE i = j /\ \E kind \in Under(LeafRules, s[i]) : t = Tree(kind, "none", i, <<>>)
      <4>1. s[i] \in LeafTokens
        BY <3>3, UnderFacts
      <4> QED
        BY <1>0, <2>1, <2>2, <2>3, <3>3, <4>1, LeafReads
    <3> QED
      BY <2>3, <3>1, <3>2, <3>3, TermMembers
  <2>4. CASE level # 1 /\ t \in d[Place(level - 1, i, j)]
    <3>1. level - 1 \in 1 .. 13 /\ Within(level - 1, i, j, level, i, j) /\ level - 1 =< level
      BY <2>0, <2>4, <1>0 DEF Within
    <3>2. OneOperand(s, R, level - 1, i, j)
      BY <1>2, <2>1, <2>4, <3>1
    <3> QED
      BY <1>5, <2>0, <2>1, <3>1, <3>2, LooserReads
  <2>5. CASE level # 1 /\ t \in Binary(d, s, level, i, j)
    <3>1. PICK k \in i + 1 .. j - 1, rule \in InfixRules :
            rule.level = level /\ rule.token = s[k] /\ t \in BinaryAt(d, rule, i, k, j)
      BY <2>5, BinaryMembers
    <3>2. PICK lhs \in d[Place(Lhs(rule.level), i, k - 1)], rhs \in d[Place(Rhs(rule.level), k + 1, j)] : TRUE
      BY <3>1, BinaryAtMembers
    <3>3. Lhs(rule.level) \in 1 .. 13 /\ Rhs(rule.level) \in 1 .. 13
      BY <2>0, <2>5, <3>1 DEF Lhs, Rhs
    <3>4. /\ k - 1 \in 0 .. Len(s) /\ k + 1 \in 1 .. Len(s) + 1 /\ k \in 1 .. Len(s) /\ i < k /\ k < j
          /\ Within(Lhs(rule.level), i, k - 1, level, i, j)
          /\ Within(Rhs(rule.level), k + 1, j, level, i, j)
      BY <1>0 DEF Within
    <3>5. OneOperand(s, R, Lhs(rule.level), i, k - 1)
      BY <1>2, <2>1, <3>2, <3>3, <3>4
    <3>6. OneOperand(s, R, Rhs(rule.level), k + 1, j)
      BY <1>2, <2>1, <3>2, <3>3, <3>4
    <3>7. OneOperand(s, R, rule.level, i, j)
      BY <1>0, <2>2, <3>1, <3>4, <3>5, <3>6, BinaryReads
    <3> QED
      BY <1>5, <2>1, <3>1, <3>7
  <2>6. CASE level = 2 /\ t \in Postfix(d, s, i, j)
    <3>1. s[j] = "deg" /\ \E e \in d[Place(2, i, j - 1)] : TRUE
      BY <2>6, PostfixMembers
    <3>2. PICK e \in d[Place(2, i, j - 1)] : TRUE
      BY <3>1
    <3>3. j - 1 \in 0 .. Len(s) /\ Within(2, i, j - 1, level, i, j) /\ 2 \in 1 .. 13
      BY <1>0, <2>1, <2>2 DEF Within
    <3>4. i =< j - 1 /\ OneOperand(s, R, 2, i, j - 1)
      BY <1>2, <2>1, <3>2, <3>3
    <3>5. i < j
      BY <1>0, <3>4
    <3> QED
      BY <1>0, <2>1, <2>2, <2>6, <3>1, <3>4, <3>5, PostfixReads
  <2>7. CASE level = 3 /\ t \in Prefix(d, s, i, j)
    <3>1. PICK opcode \in Under(PrefixRules, s[i]), e \in d[Place(3, i + 1, j)] : TRUE
      BY <2>7, PrefixMembers
    <3>2. i + 1 \in 1 .. Len(s) + 1 /\ Within(3, i + 1, j, level, i, j) /\ 3 \in 1 .. 13
      BY <1>0, <2>1, <2>2 DEF Within
    <3>3. i + 1 =< j /\ OneOperand(s, R, 3, i + 1, j)
      BY <1>2, <2>1, <3>1, <3>2
    <3>4. i < j /\ s[i] \in PrefixTokens
      BY <1>0, <3>1, <3>3, UnderFacts
    <3> QED
      BY <1>0, <2>1, <2>2, <2>7, <3>3, <3>4, PrefixReads
  <2> QED
    BY <1>1, <2>0, <2>3, <2>4, <2>5, <2>6, <2>7, LevelMembers
<1> QED
  BY <1>4, <1>5

\* Whatever the grammar derives, where it is wanted, reads as one operand, or list.
LEMMA Sound ==
  ASSUME NEW s \in Seq(Tokens)
  PROVE  \A level \in 1 .. 14, i \in 1 .. Len(s) + 1, j \in 0 .. Len(s) : SoundAt(s, level, i, j)
<1> DEFINE G == {p \in Places(s) : SoundAt(s, p[1], p[2], p[3])}
<1>1. \A level \in 1 .. 14, i \in 1 .. Len(s) + 1, j \in 0 .. Len(s) :
         Place(level, i, j) \in G <=> SoundAt(s, level, i, j)
  <2>1. \A level \in 1 .. 14, i \in 1 .. Len(s) + 1, j \in 0 .. Len(s) : Place(level, i, j) \in Places(s)
    BY WeightFacts
  <2> QED
    BY <2>1 DEF Place
<1> HIDE DEF G
<1>2. \A level \in 1 .. 14, i \in 1 .. Len(s) + 1, j \in 0 .. Len(s) :
         (i =< j => \A level2 \in 1 .. 14, i2 \in 1 .. Len(s) + 1, j2 \in 0 .. Len(s) :
                       Within(level2, i2, j2, level, i, j) => Place(level2, i2, j2) \in G)
         => Place(level, i, j) \in G
  BY <1>1, SoundStep
<1>3. \A level \in 1 .. 14, i \in 1 .. Len(s) + 1, j \in 0 .. Len(s) : Place(level, i, j) \in G
  BY <1>2, SpanInduction
<1> QED
  BY <1>1, <1>3

-----------------------------------------------------------------------------
(* The root of a tree.                                                     *)

\* What is derived for tokens that are to be read as an operand spans them.
LEMMA ExpressionSpans ==
  ASSUME NEW s \in Seq(Tokens),
         NEW level \in 1 .. 13, NEW i \in 1 .. Len(s) + 1, NEW j \in 0 .. Len(s),
         NEW t \in Expression(s)[Place(level, i, j)], Reading(s)[i - 1].want = "operand"
  PROVE  i =< j /\ i \in 1 .. Len(s) /\ j \in 1 .. Len(s) /\ Spans(s, Reading(s), level, i, j)
<1>1. Len(s) \in Nat /\ level \in 1 .. 14 /\ level # 14
  OBVIOUS
<1>2. SoundAt(s, level, i, j)
  BY <1>1, Sound
<1>3. i =< j /\ Spans(s, Reading(s), level, i, j)
  BY <1>1, <1>2 DEF SoundAt, OneOperand
<1> QED
  BY <1>1, <1>3

\* An operator of the level at the base of i..j.
BaseOperator(s, R, level, i, n) ==
    AtBase(R, i, n) /\ s[n] \in OperatorTokens /\ OperatorLevel(s, R, n) = level

\* m is the operator that i..j are grouped by at this level.
IsRoot(s, R, level, i, j, m) ==
    /\ m \in i .. j /\ BaseOperator(s, R, level, i, m)
    /\ \A n \in i .. j : BaseOperator(s, R, level, i, n) => IF level = 3 THEN m =< n ELSE n =< m

\* A range has one root at most for a level.
LEMMA RootUnique ==
  ASSUME NEW s, NEW R, NEW level, NEW i \in Int, NEW j \in Int, NEW m, NEW n,
         IsRoot(s, R, level, i, j, m), IsRoot(s, R, level, i, j, n)
  PROVE  m = n
<1>1. m \in Int /\ n \in Int
  BY DEF IsRoot
<1> QED
  BY <1>1 DEF IsRoot

\* No operator looser than the level is at the base.
LEMMA NoLooser ==
  ASSUME NEW s, NEW R, NEW level \in 1 .. 13, NEW i, NEW j, Spans(s, R, level, i, j), NEW n \in i .. j,
         NEW looser \in 1 .. 13, level < looser, BaseOperator(s, R, looser, i, n)
  PROVE  FALSE
<1>1. Fits(s, R, level, n)
  BY DEF Spans, BaseOperator
<1>2. looser \in 2 .. level
  BY <1>1 DEF Fits, BaseOperator
<1> QED
  BY <1>2

\* The operator of an infix operation is the root of its range.
LEMMA BinaryRoot ==
  ASSUME NEW s \in Seq(Tokens), NEW R, ReadsTo(R, s, Len(s)),
         NEW i \in 1 .. Len(s), NEW j \in 1 .. Len(s), NEW k \in 1 .. Len(s), i < k, k < j,
         NEW rule \in InfixRules, s[k] = rule.token,
         R[i - 1].want = "operand",
         OneOperand(s, R, Lhs(rule.level), i, k - 1),
         OneOperand(s, R, Rhs(rule.level), k + 1, j)
  PROVE  R[k - 1].want = "operator" /\ R[k].want = "operand" /\ IsRoot(s, R, rule.level, i, j, k)
<1>0. Len(s) \in Nat /\ k + 1 - 1 = k
  BY StepFacts
<1>1. R[k - 1].want = "operator" /\ R[k - 1].open = R[i - 1].open
  BY DEF OneOperand, Spans
<1>2. s[k] \in InfixTokens /\ OperatorLevel(s, R, k) = rule.level /\ rule.level \in 3 .. 13
  <2>1. R[k - 1].want = "operator"
    BY <1>1
  <2>2. s[k] \in InfixTokens /\ rule.level = LevelOf(s[k]) /\ rule.level \in 3 .. 13
    BY RuleFacts
  <2>3. s[k] # "deg"
    BY <2>2, TokensApart
  <2> QED
    BY <2>1, <2>2, <2>3 DEF OperatorLevel
<1>3. R[k].want = "operand" /\ R[k].open = R[k - 1].open
  BY <1>1, <1>2, InfixStep
<1>4. Height(R[k - 1]) = Height(R[i - 1]) /\ Height(R[k]) = Height(R[i - 1])
  BY <1>1, <1>3 DEF Height
<1>5. BaseOperator(s, R, rule.level, i, k)
  BY <1>2, <1>4 DEF BaseOperator, AtBase, OperatorTokens
<1>6. Spans(s, R, Lhs(rule.level), i, k - 1)
  BY DEF OneOperand
<1>7. Spans(s, R, Rhs(rule.level), k + 1, j)
  <2>1. R[k + 1 - 1] = R[k]
    BY <1>0
  <2> QED
    BY <1>3, <2>1 DEF OneOperand
<1>8. \A n \in i .. j : n \in i .. k - 1 \/ n = k \/ n \in k + 1 .. j
  BY <1>0
<1>9. ASSUME NEW n \in i .. j, BaseOperator(s, R, rule.level, i, n)
      PROVE  IF rule.level = 3 THEN k =< n ELSE n =< k
  <2>0. rule.level \in 1 .. 13 /\ 2 \in 1 .. 13 /\ n \in Int
    <3>1. rule.level \in 3 .. 13
      BY <1>2
    <3> QED
      BY <3>1
  <2>1. CASE rule.level = 3
    <3>1. ASSUME n \in i .. k - 1
          PROVE  FALSE
      <4>1. Spans(s, R, 2, i, k - 1) /\ 2 < rule.level
        BY <1>6, <2>1 DEF Lhs
      <4> QED
        BY <1>9, <2>0, <3>1, <4>1, NoLooser
    <3> QED
      BY <1>0, <1>8, <2>0, <2>1, <3>1
  <2>2. CASE rule.level # 3
    <3>1. ASSUME n \in k + 1 .. j
          PROVE  FALSE
      <4>1. rule.level \in 3 .. 13
        BY <1>2
      <4>2. rule.level - 1 \in 1 .. 13 /\ rule.level - 1 < rule.level
        BY <4>1
      <4>3. Spans(s, R, rule.level - 1, k + 1, j)
        BY <1>7, <2>2 DEF Rhs
      <4>4. BaseOperator(s, R, rule.level, k + 1, n)
        BY <1>0, <1>4, <1>9 DEF BaseOperator, AtBase
      <4> QED
        BY <2>0, <3>1, <4>2, <4>3, <4>4, NoLooser
    <3> QED
      BY <1>0, <1>8, <2>0, <2>2, <3>1
  <2> QED
    BY <2>1, <2>2
<1>10. k \in i .. j
  BY <1>0
<1> QED
  BY <1>1, <1>3, <1>5, <1>9, <1>10 DEF IsRoot

\* The degree sign of a postfix operation is the root of its range.
LEMMA PostfixRoot ==
  ASSUME NEW s \in Seq(Tokens), NEW R,
         NEW i \in 1 .. Len(s), NEW j \in 1 .. Len(s), i < j, s[j] = "deg",
         R[i - 1].want = "operand", OneOperand(s, R, 2, i, j - 1)
  PROVE  IsRoot(s, R, 2, i, j, j)
<1>1. R[j - 1].want = "operator" /\ R[j - 1].open = R[i - 1].open
  BY DEF OneOperand, Spans
<1>2. BaseOperator(s, R, 2, i, j)
  BY <1>1 DEF BaseOperator, AtBase, Height, OperatorTokens, OperatorLevel
<1>3. j \in i .. j /\ \A n \in i .. j : n =< j
  <2>1. Len(s) \in Nat
    OBVIOUS
  <2> QED
    BY <2>1
<1> QED
  BY <1>2, <1>3 DEF IsRoot

\* The operator of a prefix operation is the root of its range.
LEMMA PrefixRoot ==
  ASSUME NEW s \in Seq(Tokens), NEW R,
         NEW i \in 1 .. Len(s), NEW j \in 1 .. Len(s), i =< j, s[i] \in PrefixTokens,
         R[i - 1].want = "operand"
  PROVE  IsRoot(s, R, 3, i, j, i)
<1>1. BaseOperator(s, R, 3, i, i)
  BY DEF BaseOperator, AtBase, OperatorTokens, OperatorLevel
<1>2. i \in i .. j /\ \A n \in i .. j : i =< n
  <2>1. Len(s) \in Nat
    OBVIOUS
  <2> QED
    BY <2>1
<1> QED
  BY <1>1, <1>2 DEF IsRoot

\* t is an operation of the infix operator m.
InfixMade(s, level, i, j, m, t) ==
    \E rule \in InfixRules :
       rule.level = level /\ rule.token = s[m] /\ t \in BinaryAt(Expression(s), rule, i, m, j)

\* t is made of what is derived on the sides of the operator m.
MadeAt(s, level, i, j, m, t) ==
    LET d == Expression(s)
    IN  \/ /\ i < m /\ m < j /\ Reading(s)[m].want = "operand"
           /\ InfixMade(s, level, i, j, m, t)
        \/ /\ level = 2 /\ m = j /\ i < j
           /\ \E e \in d[Place(2, i, j - 1)] : t = Tree("unary", "Degrees", m, e)
        \/ /\ level = 3 /\ m = i /\ i < j /\ Reading(s)[m].want = "operand"
           /\ \E opcode \in Under(PrefixRules, s[m]), e \in d[Place(3, m + 1, j)] :
                 t = Tree("unary", opcode, m, e)

\* What a level derives is what the one below it does, or is made at the
\* operator that the tokens are grouped by.
LEMMA RootOf ==
  ASSUME NEW s \in Seq(Tokens),
         NEW level \in 2 .. 13, NEW i \in 1 .. Len(s) + 1, NEW j \in 0 .. Len(s),
         NEW t \in Expression(s)[Place(level, i, j)], Reading(s)[i - 1].want = "operand",
         t \notin Expression(s)[Place(level - 1, i, j)]
  PROVE  \E m \in 1 .. Len(s) : IsRoot(s, Reading(s), level, i, j, m) /\ MadeAt(s, level, i, j, m, t)
<1> DEFINE R == Reading(s)
           d == Expression(s)
<1>0. Len(s) \in Nat /\ ReadsTo(R, s, Len(s)) /\ level \in 1 .. 13 /\ level \in 1 .. 14 /\ level # 1
  BY ReadingFacts
<1>1. i =< j /\ i \in 1 .. Len(s) /\ j \in 1 .. Len(s)
  BY <1>0, ExpressionSpans
<1>2. t \in Derives(d, s, level, i, j)
  BY <1>0, ExpressionFacts
<1>3. ASSUME NEW level2 \in 1 .. 13, NEW i2 \in 1 .. Len(s) + 1, NEW j2 \in 0 .. Len(s),
             NEW u \in d[Place(level2, i2, j2)]
      PROVE  i2 =< j2 /\ OneOperand(s, R, level2, i2, j2)
  <2>1. level2 \in 1 .. 14 /\ level2 # 14
    OBVIOUS
  <2>2. SoundAt(s, level2, i2, j2)
    BY <2>1, Sound
  <2> QED
    BY <2>1, <2>2 DEF SoundAt
<1> HIDE DEF R, d
<1>4. CASE t \in Binary(d, s, level, i, j)
  <2>1. PICK k \in i + 1 .. j - 1, rule \in InfixRules :
          rule.level = level /\ rule.token = s[k] /\ t \in BinaryAt(d, rule, i, k, j)
    BY <1>4, BinaryMembers
  <2>2. PICK lhs \in d[Place(Lhs(rule.level), i, k - 1)], rhs \in d[Place(Rhs(rule.level), k + 1, j)] : TRUE
    BY <2>1, BinaryAtMembers
  <2>3. Lhs(rule.level) \in 1 .. 13 /\ Rhs(rule.level) \in 1 .. 13
    BY <1>0, <2>1 DEF Lhs, Rhs
  <2>4. k - 1 \in 0 .. Len(s) /\ k + 1 \in 1 .. Len(s) + 1 /\ k \in 1 .. Len(s) /\ i < k /\ k < j
    BY <1>0, <1>1
  <2>5. OneOperand(s, R, Lhs(rule.level), i, k - 1)
    BY <1>3, <2>2, <2>3, <2>4
  <2>6. OneOperand(s, R, Rhs(rule.level), k + 1, j)
    BY <1>3, <2>2, <2>3, <2>4
  <2>7. R[i - 1].want = "operand"
    BY DEF R
  <2>8. R[k].want = "operand" /\ IsRoot(s, R, rule.level, i, j, k)
    BY <1>0, <1>1, <2>1, <2>4, <2>5, <2>6, <2>7, BinaryRoot
  <2>9. MadeAt(s, level, i, j, k, t)
    BY <2>1, <2>4, <2>8 DEF MadeAt, InfixMade, R, d
  <2> QED
    BY <2>1, <2>4, <2>8, <2>9 DEF R
<1>5. CASE level = 2 /\ t \in Postfix(d, s, i, j)
  <2>1. s[j] = "deg" /\ \E e \in d[Place(2, i, j - 1)] : t = Tree("unary", "Degrees", j, e)
    BY <1>5, PostfixMembers
  <2>2. PICK e \in d[Place(2, i, j - 1)] : TRUE
    BY <2>1
  <2>3. j - 1 \in 0 .. Len(s) /\ 2 \in 1 .. 13
    BY <1>0, <1>1
  <2>4. i =< j - 1 /\ OneOperand(s, R, 2, i, j - 1)
    BY <1>3, <2>2, <2>3
  <2>5. i < j
    BY <1>0, <1>1, <2>4
  <2>6. R[i - 1].want = "operand"
    BY DEF R
  <2>7. IsRoot(s, R, 2, i, j, j)
    BY <1>1, <2>1, <2>4, <2>5, <2>6, PostfixRoot
  <2>8. MadeAt(s, level, i, j, j, t)
    BY <1>5, <2>1, <2>5 DEF MadeAt, R, d
  <2> QED
    BY <1>1, <1>5, <2>7, <2>8 DEF R
<1>6. CASE level = 3 /\ t \in Prefix(d, s, i, j)
  <2>1. \E opcode \in Under(PrefixRules, s[i]), e \in d[Place(3, i + 1, j)] : t = Tree("unary", opcode, i, e)
    BY <1>6, PrefixMembers
  <2>2. PICK opcode \in Under(PrefixRules, s[i]), e \in d[Place(3, i + 1, j)] : TRUE
    BY <2>1
  <2>3. i + 1 \in 1 .. Len(s) + 1 /\ 3 \in 1 .. 13
    BY <1>0, <1>1
  <2>4. i + 1 =< j
    BY <1>3, <2>2, <2>3
  <2>5. i < j /\ s[i] \in PrefixTokens
    BY <1>0, <1>1, <2>2, <2>4, UnderFacts
  <2>6. R[i - 1].want = "operand"
    BY DEF R
  <2>7. IsRoot(s, R, 3, i, j, i)
    BY <1>1, <2>5, <2>6, PrefixRoot
  <2>8. R[i].want = "operand"
    BY <1>0, <1>1, <2>5, <2>6, PrefixStep
  <2>9. MadeAt(s, level, i, j, i, t)
    BY <1>6, <2>1, <2>5, <2>8 DEF MadeAt, R, d
  <2> QED
    BY <1>1, <1>6, <2>7, <2>9 DEF R
<1> QED
  BY <1>0, <1>2, <1>4, <1>5, <1>6, LevelMembers DEF d

-----------------------------------------------------------------------------
(* One tree at most.                                                       *)

\* One thing at most is derived.
OneAt(s, level, i, j) == \A t, u \in Expression(s)[Place(level, i, j)] : t = u

\* For tokens that are to be read as an operand, or as the arguments of a call,
\* one thing at most is derived.
UniqueAt(s, level, i, j) ==
    (IF level = 14 THEN i =< j + 1 /\ Reading(s)[i - 1].closable = TRUE
     ELSE Reading(s)[i - 1].want = "operand")
    => OneAt(s, level, i, j)

\* Every place within this one has one thing at most.
UniqueWithin(s, level, i, j) ==
    \A level2 \in 1 .. 14, i2 \in 1 .. Len(s) + 1, j2 \in 0 .. Len(s) :
       Within(level2, i2, j2, level, i, j) => UniqueAt(s, level2, i2, j2)

\* Below a place where trees are unique so far: expressions.
LEMMA UniqueExpression ==
  ASSUME NEW s \in Seq(Tokens), NEW level, NEW i, NEW j, UniqueWithin(s, level, i, j),
         NEW level2 \in 1 .. 13, NEW i2 \in 1 .. Len(s) + 1, NEW j2 \in 0 .. Len(s),
         Within(level2, i2, j2, level, i, j), Reading(s)[i2 - 1].want = "operand"
  PROVE  OneAt(s, level2, i2, j2)
<1>1. level2 \in 1 .. 14 /\ level2 # 14
  OBVIOUS
<1>2. UniqueAt(s, level2, i2, j2)
  BY <1>1 DEF UniqueWithin
<1> QED
  BY <1>1, <1>2 DEF UniqueAt

\* Below a place where trees are unique so far: lists.
LEMMA UniqueList ==
  ASSUME NEW s \in Seq(Tokens), NEW level, NEW i, NEW j, UniqueWithin(s, level, i, j),
         NEW i2 \in 1 .. Len(s) + 1, NEW j2 \in 0 .. Len(s), i2 =< j2 + 1,
         Within(14, i2, j2, level, i, j), Reading(s)[i2 - 1].closable = TRUE
  PROVE  OneAt(s, 14, i2, j2)
<1>1. 14 \in 1 .. 14
  OBVIOUS
<1>2. UniqueAt(s, 14, i2, j2)
  BY <1>1 DEF UniqueWithin
<1> QED
  BY <1>2 DEF UniqueAt

\* Both sides of an infix operation are unique.
LEMMA SidesUnique ==
  ASSUME NEW s \in Seq(Tokens), NEW level \in 3 .. 13, NEW i \in 1 .. Len(s), NEW j \in 1 .. Len(s),
         NEW m \in 1 .. Len(s), i < m, m < j,
         UniqueWithin(s, level, i, j), Reading(s)[i - 1].want = "operand", Reading(s)[m].want = "operand"
  PROVE  /\ OneAt(s, Lhs(level), i, m - 1)
         /\ OneAt(s, Rhs(level), m + 1, j)
<1>0. Len(s) \in Nat
  OBVIOUS
<1>1. Lhs(level) \in 1 .. 13 /\ Rhs(level) \in 1 .. 13
  BY DEF Lhs, Rhs
<1>2. /\ m - 1 \in 0 .. Len(s) /\ m + 1 \in 1 .. Len(s) + 1 /\ i \in 1 .. Len(s) + 1 /\ j \in 0 .. Len(s)
      /\ Within(Lhs(level), i, m - 1, level, i, j) /\ Within(Rhs(level), m + 1, j, level, i, j)
      /\ m + 1 - 1 = m
  BY <1>0 DEF Within
<1>3. OneAt(s, Lhs(level), i, m - 1)
  <2>1. PICK l \in 1 .. 13 : l = Lhs(level)
    BY <1>1
  <2>2. Within(l, i, m - 1, level, i, j)
    BY <1>2, <2>1
  <2>3. OneAt(s, l, i, m - 1)
    BY <1>2, <2>2, UniqueExpression
  <2> QED
    BY <2>1, <2>3
<1>4. Reading(s)[m + 1 - 1].want = "operand"
  BY <1>2
<1>5. OneAt(s, Rhs(level), m + 1, j)
  <2>1. PICK l \in 1 .. 13 : l = Rhs(level)
    BY <1>1
  <2>2. Within(l, m + 1, j, level, i, j)
    BY <1>2, <2>1
  <2>3. OneAt(s, l, m + 1, j)
    BY <1>2, <1>4, <2>2, UniqueExpression
  <2> QED
    BY <2>1, <2>3
<1> QED
  BY <1>3, <1>5

\* Two infix operations with one operator at one place are the same tree.
LEMMA BinaryUnique ==
  ASSUME NEW s \in Seq(Tokens), NEW level \in 2 .. 13, NEW i \in 1 .. Len(s), NEW j \in 1 .. Len(s),
         NEW m \in 1 .. Len(s), i < m, m < j,
         UniqueWithin(s, level, i, j), Reading(s)[i - 1].want = "operand", Reading(s)[m].want = "operand",
         NEW t, NEW u, InfixMade(s, level, i, j, m, t), InfixMade(s, level, i, j, m, u)
  PROVE  t = u
<1> DEFINE d == Expression(s)
<1>2. PICK rule1 \in InfixRules : rule1.level = level /\ rule1.token = s[m] /\ t \in BinaryAt(d, rule1, i, m, j)
  BY DEF InfixMade
<1>3. PICK rule2 \in InfixRules : rule2.level = level /\ rule2.token = s[m] /\ u \in BinaryAt(d, rule2, i, m, j)
  BY DEF InfixMade
<1>1. rule1.opcode = rule2.opcode /\ level \in 3 .. 13
  BY <1>2, <1>3, RuleFacts
<1> HIDE DEF d
<1>4. PICK lhs1 \in d[Place(Lhs(level), i, m - 1)], rhs1 \in d[Place(Rhs(level), m + 1, j)] :
        t = Tree("binary", rule1.opcode, m, lhs1 \o rhs1)
  BY <1>2, BinaryAtMembers
<1>5. PICK lhs2 \in d[Place(Lhs(level), i, m - 1)], rhs2 \in d[Place(Rhs(level), m + 1, j)] :
        u = Tree("binary", rule2.opcode, m, lhs2 \o rhs2)
  BY <1>3, BinaryAtMembers
<1>6. lhs1 = lhs2 /\ rhs1 = rhs2
  <2>1. /\ OneAt(s, Lhs(level), i, m - 1)
        /\ OneAt(s, Rhs(level), m + 1, j)
    BY <1>1, SidesUnique
  <2> QED
    BY <1>4, <1>5, <2>1 DEF d, OneAt
<1> QED
  BY <1>1, <1>4, <1>5, <1>6

\* Two operations with their operator at one place are the same tree.
LEMMA MadeUnique ==
  ASSUME NEW s \in Seq(Tokens), NEW level \in 2 .. 13, NEW i \in 1 .. Len(s), NEW j \in 1 .. Len(s),
         NEW m \in 1 .. Len(s), UniqueWithin(s, level, i, j), Reading(s)[i - 1].want = "operand",
         NEW t, NEW u, MadeAt(s, level, i, j, m, t), MadeAt(s, level, i, j, m, u)
  PROVE  t = u
<1> DEFINE d == Expression(s)
<1>0. Len(s) \in Nat /\ i \in 1 .. Len(s) + 1 /\ j \in 0 .. Len(s)
  OBVIOUS
<1>1. CASE level = 2
  <2>1. ~InfixMade(s, level, i, j, m, t) /\ ~InfixMade(s, level, i, j, m, u)
    <3>1. \A rule \in InfixRules : rule.level \in 3 .. 13
      BY RuleFacts
    <3> QED
      BY <1>1, <3>1 DEF InfixMade
  <2>2. /\ i < j
        /\ \E e \in d[Place(2, i, j - 1)] : t = Tree("unary", "Degrees", m, e)
        /\ \E e \in d[Place(2, i, j - 1)] : u = Tree("unary", "Degrees", m, e)
    BY <1>1, <2>1 DEF MadeAt
  <2>3. j - 1 \in 0 .. Len(s) /\ Within(2, i, j - 1, level, i, j) /\ 2 \in 1 .. 13
    BY <1>0 DEF Within
  <2>4. PICK e1 \in d[Place(2, i, j - 1)] : t = Tree("unary", "Degrees", m, e1)
    BY <2>2
  <2>5. PICK e2 \in d[Place(2, i, j - 1)] : u = Tree("unary", "Degrees", m, e2)
    BY <2>2
  <2>6. e1 = e2
    BY <1>0, <2>3, <2>4, <2>5, UniqueExpression DEF OneAt
  <2> QED
    BY <2>4, <2>5, <2>6
<1>2. CASE level = 3 /\ m = i
  <2>1. /\ i < j /\ Reading(s)[m].want = "operand"
        /\ \E opcode \in Under(PrefixRules, s[m]), e \in d[Place(3, m + 1, j)] : t = Tree("unary", opcode, m, e)
        /\ \E opcode \in Under(PrefixRules, s[m]), e \in d[Place(3, m + 1, j)] : u = Tree("unary", opcode, m, e)
    BY <1>0, <1>2 DEF MadeAt
  <2>2. m + 1 \in 1 .. Len(s) + 1 /\ Within(3, m + 1, j, level, i, j) /\ 3 \in 1 .. 13 /\ m + 1 - 1 = m
    BY <1>0, <1>2 DEF Within
  <2>3. PICK o1 \in Under(PrefixRules, s[m]), e1 \in d[Place(3, m + 1, j)] : t = Tree("unary", o1, m, e1)
    BY <2>1
  <2>4. PICK o2 \in Under(PrefixRules, s[m]), e2 \in d[Place(3, m + 1, j)] : u = Tree("unary", o2, m, e2)
    BY <2>1
  <2>5. e1 = e2
    BY <1>0, <2>1, <2>2, <2>3, <2>4, UniqueExpression DEF OneAt
  <2>6. o1 = o2
    BY <2>3, <2>4, UnderFacts
  <2> QED
    BY <2>3, <2>4, <2>5, <2>6
<1>3. CASE level # 2 /\ ~(level = 3 /\ m = i)
  <2>1. /\ i < m /\ m < j /\ Reading(s)[m].want = "operand"
        /\ InfixMade(s, level, i, j, m, t) /\ InfixMade(s, level, i, j, m, u)
    BY <1>3 DEF MadeAt
  <2> QED
    BY <2>1, BinaryUnique
<1> QED
  BY <1>1, <1>2, <1>3

\* Two terms of one range are the same tree.
LEMMA TermUnique ==
  ASSUME NEW s \in Seq(Tokens), NEW i \in 1 .. Len(s), NEW j \in 1 .. Len(s), i =< j,
         UniqueWithin(s, 1, i, j), Reading(s)[i - 1].want = "operand",
         NEW t \in Term(Expression(s), s, i, j), NEW u \in Term(Expression(s), s, i, j)
  PROVE  t = u
<1> DEFINE R == Reading(s)
           d == Expression(s)
<1>0. Len(s) \in Nat /\ ReadsTo(R, s, Len(s)) /\ i + 1 - 1 = i
  BY ReadingFacts
<1>1. CASE s[i] \in LeafTokens
  <2>1. s[i] # "(" /\ s[i] \notin NameTokens
    BY <1>1, TokensApart DEF Brackets
  <2>2. ASSUME NEW v \in Term(d, s, i, j)
        PROVE  \E kind \in Under(LeafRules, s[i]) : v = Tree(kind, "none", i, <<>>)
    <3>1. v \notin FunctionCall(d, s, i, j)
      BY <2>1, CallMembers, UnderFacts
    <3> QED
      BY <2>1, <2>2, <3>1, TermMembers
  <2>3. PICK k1 \in Under(LeafRules, s[i]) : t = Tree(k1, "none", i, <<>>)
    BY <2>2
  <2>4. PICK k2 \in Under(LeafRules, s[i]) : u = Tree(k2, "none", i, <<>>)
    BY <2>2
  <2>5. k1 = k2
    BY <2>3, <2>4, UnderFacts
  <2> QED
    BY <2>3, <2>4, <2>5
<1>2. CASE s[i] = "("
  <2>1. s[i] \notin LeafTokens /\ s[i] \notin NameTokens
    BY <1>2, TokensApart DEF Brackets
  <2>2. ASSUME NEW v \in Term(d, s, i, j)
        PROVE  s[j] = ")" /\ v \in d[Place(13, i + 1, j - 1)]
    <3>1. v \notin FunctionCall(d, s, i, j)
      BY <2>1, CallMembers, UnderFacts
    <3>2. Under(LeafRules, s[i]) = {}
      BY <2>1, UnderFacts
    <3> QED
      BY <2>2, <3>1, <3>2, TermMembers
  <2>3. s[j] = ")" /\ t \in d[Place(13, i + 1, j - 1)] /\ u \in d[Place(13, i + 1, j - 1)]
    BY <2>2
  <2>4. i # j
    BY <1>2, <2>3
  <2>5. /\ i + 1 \in 1 .. Len(s) + 1 /\ j - 1 \in 0 .. Len(s) /\ 13 \in 1 .. 13
        /\ Within(13, i + 1, j - 1, 1, i, j)
    BY <1>0, <2>4 DEF Within
  <2>6. R[i] = Opened(R[i - 1], "group")
    BY <1>0, <1>2, OpenStep
  <2>7. R[i + 1 - 1].want = "operand"
    BY <1>0, <2>6 DEF Opened
  <2> QED
    BY <2>3, <2>5, <2>7, UniqueExpression DEF OneAt
<1>3. CASE s[i] \in NameTokens
  <2>1. s[i] \notin LeafTokens /\ s[i] # "("
    BY <1>3, TokensApart DEF Brackets
  <2>2. Under(LeafRules, s[i]) = {}
    BY <2>1, UnderFacts
  <2>3. ASSUME NEW v \in Term(d, s, i, j)
        PROVE  /\ ~(j < i + 2) /\ s[i + 1] = "("
               /\ \E func \in Under(FunctionRules, s[i]), args \in d[Place(14, i + 2, j - 1)] :
                     v = Tree("function", func, i, args)
    <3>1. v \in FunctionCall(d, s, i, j)
      BY <2>1, <2>2, <2>3, TermMembers
    <3> QED
      BY <3>1, CallMembers
  <2>4. PICK f1 \in Under(FunctionRules, s[i]), args1 \in d[Place(14, i + 2, j - 1)] :
          t = Tree("function", f1, i, args1)
    BY <2>3
  <2>5. PICK f2 \in Under(FunctionRules, s[i]), args2 \in d[Place(14, i + 2, j - 1)] :
          u = Tree("function", f2, i, args2)
    BY <2>3
  <2>6. ~(j < i + 2) /\ s[i + 1] = "("
    BY <2>3
  <2>7. /\ i + 2 \in 1 .. Len(s) + 1 /\ j - 1 \in 0 .. Len(s) /\ i + 2 =< (j - 1) + 1
        /\ Within(14, i + 2, j - 1, 1, i, j) /\ i + 1 \in 1 .. Len(s) /\ i + 2 - 1 = i + 1
    BY <1>0, <2>6 DEF Within
  <2>8. R[i].want = "call" /\ R[i] \in ReadingStates
    BY <1>0, <1>3, NameStep, StepAt
  <2>9. R[i + 1] = Opened(R[i], "call")
    <3>1. R[i + 1 - 1].want = "call"
      BY <1>0, <2>8
    <3>2. R[i + 1] = Opened(R[i + 1 - 1], "call")
      BY <1>0, <2>6, <2>7, <3>1, OpenStep
    <3> QED
      BY <1>0, <3>2
  <2>10. R[i + 2 - 1].closable = TRUE
    <3>1. R[i + 1].closable = TRUE
      BY <2>8, <2>9, OpenedFacts
    <3> QED
      BY <2>7, <3>1
  <2>11. args1 = args2
    <3>1. OneAt(s, 14, i + 2, j - 1)
      <4>1. PICK i2 \in 1 .. Len(s) + 1, j2 \in 0 .. Len(s) : i2 = i + 2 /\ j2 = j - 1
        BY <2>7
      <4>2. i2 =< j2 + 1 /\ Within(14, i2, j2, 1, i, j) /\ Reading(s)[i2 - 1].closable = TRUE
        BY <2>7, <2>10, <4>1
      <4>3. OneAt(s, 14, i2, j2)
        BY <4>2, UniqueList
      <4> QED
        BY <4>1, <4>3
    <3> QED
      BY <2>4, <2>5, <3>1 DEF OneAt
  <2>12. f1 = f2
    BY <2>4, <2>5, UnderFacts
  <2> QED
    BY <2>4, <2>5, <2>11, <2>12
<1>4. s[i] \in LeafTokens \/ s[i] = "(" \/ s[i] \in NameTokens
  BY TermMembers, CallMembers, UnderFacts
<1> QED
  BY <1>1, <1>2, <1>3, <1>4

\* A comma after an argument is at the base of the list and another may follow.
LEMMA CommaAt ==
  ASSUME NEW s \in Seq(Tokens), NEW R, ReadsTo(R, s, Len(s)),
         NEW i \in 1 .. Len(s), NEW k \in 1 .. Len(s), s[k] = "comma",
         R[i - 1].closable = TRUE, OneOperand(s, R, 13, i, k - 1)
  PROVE  R[i - 1].want = "operand" /\ AtBase(R, i, k) /\ R[k].closable = TRUE
<1>1. R[i - 1] \in ReadingStates /\ R[k - 1] \in ReadingStates
  BY StepAt
<1>2. R[i - 1].want = "operand" /\ InCall(R[i - 1])
  BY <1>1, StateFacts DEF Closable
<1>3. R[k - 1].want = "operator" /\ R[k - 1].open = R[i - 1].open
  BY <1>2 DEF OneOperand, Spans
<1>4. InCall(R[k - 1])
  BY <1>2, <1>3 DEF InCall
<1>5. R[k].closable = TRUE
  BY <1>3, <1>4, CommaStep
<1>6. AtBase(R, i, k)
  BY <1>3 DEF AtBase, Height
<1> QED
  BY <1>2, <1>5, <1>6

\* f is an argument up to the comma k and the arguments after it.
SplitBy(s, i, j, k, f) == s[k] = "comma" /\ SplitAt(Expression(s), i, k, j, f)

\* Where a list is split at a comma, the reader is between two arguments of it.
LEMMA SplitFacts ==
  ASSUME NEW s \in Seq(Tokens), NEW i \in 1 .. Len(s), NEW j \in 1 .. Len(s), NEW k \in 1 .. Len(s),
         i < k, k =< j, Reading(s)[i - 1].closable = TRUE, NEW f, SplitBy(s, i, j, k, f)
  PROVE  /\ Reading(s)[i - 1].want = "operand" /\ Reading(s)[k].closable = TRUE
         /\ AtBase(Reading(s), i, k) /\ Spans(s, Reading(s), 13, i, k - 1)
<1>0. Len(s) \in Nat /\ ReadsTo(Reading(s), s, Len(s))
  BY ReadingFacts
<1>1. /\ i \in 1 .. Len(s) + 1 /\ k - 1 \in 0 .. Len(s) /\ 13 \in 1 .. 14 /\ 13 # 14
  BY <1>0
<1>2. PICK e \in Expression(s)[Place(13, i, k - 1)] : TRUE
  BY DEF SplitBy, SplitAt
<1>3. SoundAt(s, 13, i, k - 1)
  BY <1>1, Sound
<1>4. OneOperand(s, Reading(s), 13, i, k - 1)
  BY <1>1, <1>2, <1>3 DEF SoundAt
<1>5. Reading(s)[i - 1].want = "operand" /\ AtBase(Reading(s), i, k) /\ Reading(s)[k].closable = TRUE
  BY <1>0, <1>4, CommaAt DEF SplitBy
<1> QED
  BY <1>4, <1>5 DEF OneOperand

\* Only the first comma at the base splits a list.
LEMMA SplitOnce ==
  ASSUME NEW s \in Seq(Tokens), NEW i \in 1 .. Len(s), NEW j \in 1 .. Len(s),
         NEW k \in 1 .. Len(s), NEW l \in 1 .. Len(s), i < k, k < l, l =< j,
         Reading(s)[i - 1].closable = TRUE, NEW f, NEW g, SplitBy(s, i, j, k, f), SplitBy(s, i, j, l, g)
  PROVE  FALSE
<1>0. Len(s) \in Nat /\ k =< j /\ i < l
  <2>1. Len(s) \in Nat
    OBVIOUS
  <2> QED
    BY <2>1
<1>1. AtBase(Reading(s), i, k)
  BY <1>0, SplitFacts
<1>2. Spans(s, Reading(s), 13, i, l - 1)
  BY <1>0, SplitFacts
<1>3. k \in i .. l - 1
  BY <1>0
<1>4. Fits(s, Reading(s), 13, k)
  BY <1>1, <1>2, <1>3 DEF Spans
<1> QED
  BY <1>4 DEF Fits, SplitBy

\* Two lists split at one comma are the same.
LEMMA SplitUnique ==
  ASSUME NEW s \in Seq(Tokens), NEW i \in 1 .. Len(s), NEW j \in 1 .. Len(s), NEW k \in 1 .. Len(s),
         i < k, k =< j, UniqueWithin(s, 14, i, j),
         Reading(s)[i - 1].closable = TRUE, NEW f, NEW g, SplitBy(s, i, j, k, f), SplitBy(s, i, j, k, g)
  PROVE  f = g
<1>0. Len(s) \in Nat
  OBVIOUS
<1>1. Reading(s)[i - 1].want = "operand" /\ Reading(s)[k].closable = TRUE
  BY SplitFacts
<1>2. /\ i \in 1 .. Len(s) + 1 /\ j \in 0 .. Len(s) /\ k - 1 \in 0 .. Len(s) /\ k + 1 \in 1 .. Len(s) + 1
      /\ 13 \in 1 .. 13 /\ Within(13, i, k - 1, 14, i, j) /\ Within(14, k + 1, j, 14, i, j)
      /\ k + 1 =< j + 1 /\ k + 1 - 1 = k
  BY <1>0 DEF Within
<1>3. OneAt(s, 13, i, k - 1)
  BY <1>1, <1>2, UniqueExpression
<1>4. OneAt(s, 14, k + 1, j)
  <2>1. PICK m \in 1 .. Len(s) + 1 : m = k + 1
    BY <1>2
  <2>2. m =< j + 1 /\ Within(14, m, j, 14, i, j) /\ Reading(s)[m - 1].closable = TRUE
    BY <1>1, <1>2, <2>1
  <2>3. OneAt(s, 14, m, j)
    BY <1>2, <2>2, UniqueList
  <2> QED
    BY <2>1, <2>3
<1>5. PICK e1 \in Expression(s)[Place(13, i, k - 1)], rest1 \in Expression(s)[Place(14, k + 1, j)] : f = e1 \o rest1
  BY DEF SplitBy, SplitAt
<1>6. PICK e2 \in Expression(s)[Place(13, i, k - 1)], rest2 \in Expression(s)[Place(14, k + 1, j)] : g = e2 \o rest2
  BY DEF SplitBy, SplitAt
<1>7. e1 = e2 /\ rest1 = rest2
  BY <1>3, <1>4, <1>5, <1>6 DEF OneAt
<1> QED
  BY <1>5, <1>6, <1>7

\* Two lists of one range are the same: the first comma outside inner brackets splits both.
LEMMA ListUnique ==
  ASSUME NEW s \in Seq(Tokens), NEW i \in 1 .. Len(s), NEW j \in 1 .. Len(s), i =< j,
         UniqueWithin(s, 14, i, j), Reading(s)[i - 1].closable = TRUE,
         NEW t \in ExpressionList(Expression(s), s, i, j), NEW u \in ExpressionList(Expression(s), s, i, j)
  PROVE  t = u
<1> DEFINE d == Expression(s)
<1>0. Len(s) \in Nat /\ ReadsTo(Reading(s), s, Len(s)) /\ ~(i > j)
  BY ReadingFacts
<1>1. Reading(s)[i - 1].want = "operand"
  BY <1>0, StepAt, StateFacts DEF Closable
<1>2. /\ i \in 1 .. Len(s) + 1 /\ j \in 0 .. Len(s) /\ 13 \in 1 .. 13 /\ Within(13, i, j, 14, i, j)
  BY <1>0 DEF Within
<1>3. OneAt(s, 13, i, j)
  BY <1>1, <1>2, UniqueExpression
<1>4. ASSUME NEW f \in ExpressionList(d, s, i, j)
      PROVE  f \in d[Place(13, i, j)] \/ \E k \in 1 .. Len(s) : i < k /\ k =< j /\ SplitBy(s, i, j, k, f)
  <2>1. f \in d[Place(13, i, j)] \/ \E k \in i + 1 .. j : s[k] = "comma" /\ SplitAt(d, i, k, j, f)
    BY <1>0, <1>4, ListMembers
  <2>2. \A k \in i + 1 .. j : k \in 1 .. Len(s) /\ i < k /\ k =< j
    BY <1>0
  <2> QED
    BY <2>1, <2>2 DEF SplitBy
<1>5. ASSUME NEW f \in d[Place(13, i, j)], NEW g, NEW k \in 1 .. Len(s), i < k, k =< j, SplitBy(s, i, j, k, g)
      PROVE  FALSE
  <2>1. AtBase(Reading(s), i, k)
    BY <1>5, SplitFacts
  <2>2. Spans(s, Reading(s), 13, i, j)
    BY <1>1, <1>2, <1>5, ExpressionSpans
  <2>3. k \in i .. j
    BY <1>0, <1>5
  <2>4. Fits(s, Reading(s), 13, k)
    BY <2>1, <2>2, <2>3 DEF Spans
  <2> QED
    BY <1>5, <2>4 DEF Fits, SplitBy
<1>6. CASE t \in d[Place(13, i, j)]
  <2>1. u \in d[Place(13, i, j)]
    BY <1>4, <1>5, <1>6
  <2> QED
    BY <1>3, <1>6, <2>1 DEF OneAt
<1>7. CASE t \notin d[Place(13, i, j)]
  <2>1. PICK k \in 1 .. Len(s) : i < k /\ k =< j /\ SplitBy(s, i, j, k, t)
    BY <1>4, <1>7
  <2>2. u \notin d[Place(13, i, j)]
    BY <1>5, <2>1
  <2>3. PICK l \in 1 .. Len(s) : i < l /\ l =< j /\ SplitBy(s, i, j, l, u)
    BY <1>4, <2>2
  <2>4. ~(k < l)
    BY <2>1, <2>3, SplitOnce
  <2>5. ~(l < k)
    BY <2>1, <2>3, SplitOnce
  <2>6. k = l
    BY <1>0, <2>4, <2>5
  <2> QED
    BY <2>1, <2>3, <2>6, SplitUnique
<1> QED
  BY <1>6, <1>7

\* A place derives one tree at most, if lighter places do.
LEMMA UniqueStep ==
  ASSUME NEW s \in Seq(Tokens),
         NEW level \in 1 .. 14, NEW i \in 1 .. Len(s) + 1, NEW j \in 0 .. Len(s),
         i =< j => UniqueWithin(s, level, i, j)
  PROVE  UniqueAt(s, level, i, j)
<1> DEFINE d == Expression(s)
<1>0. Len(s) \in Nat
  OBVIOUS
<1>1. d[Place(level, i, j)] = Derives(d, s, level, i, j)
  BY ExpressionFacts
<1>2. CASE level = 14
  <2> SUFFICES ASSUME Reading(s)[i - 1].closable = TRUE,
                      NEW t \in d[Place(14, i, j)], NEW u \in d[Place(14, i, j)]
               PROVE  t = u
    BY <1>2 DEF UniqueAt, OneAt
  <2>1. t \in ExpressionList(d, s, i, j) /\ u \in ExpressionList(d, s, i, j)
    BY <1>1, <1>2 DEF Derives, Arguments, Loosest
  <2>2. CASE i > j
    BY <2>1, <2>2, EmptyList
  <2>3. CASE ~(i > j)
    <3>1. i =< j /\ i \in 1 .. Len(s) /\ j \in 1 .. Len(s)
      BY <1>0, <2>3
    <3> QED
      BY <1>2, <2>1, <3>1, ListUnique
  <2> QED
    BY <2>2, <2>3
<1>3. CASE level # 14
  <2> SUFFICES ASSUME Reading(s)[i - 1].want = "operand",
                      NEW t \in d[Place(level, i, j)], NEW u \in d[Place(level, i, j)]
               PROVE  t = u
    BY <1>3 DEF UniqueAt, OneAt
  <2>0. level \in 1 .. 13
    BY <1>3
  <2>1. i =< j /\ i \in 1 .. Len(s) /\ j \in 1 .. Len(s) /\ Spans(s, Reading(s), level, i, j)
    BY <2>0, ExpressionSpans
  <2>2. UniqueWithin(s, level, i, j)
    BY <2>1
  <2>3. CASE level = 1
    <3>1. ASSUME NEW x \in d[Place(level, i, j)]
          PROVE  x \in Term(d, s, i, j)
      <4>1. x \in Derives(d, s, level, i, j)
        BY <1>1, <3>1
      <4> HIDE DEF d
      <4> QED
        BY <4>1, <2>1, <2>3 DEF Derives, Arguments, Loosest
    <3> QED
      BY <2>1, <2>2, <2>3, <3>1, TermUnique
  <2>4. CASE level # 1
    <3>0. level \in 2 .. 13 /\ level - 1 \in 1 .. 13 /\ level - 1 < level
      BY <2>0, <2>4
    <3>1. ASSUME NEW x \in d[Place(level, i, j)], x \notin d[Place(level - 1, i, j)]
          PROVE  \E m \in 1 .. Len(s) : IsRoot(s, Reading(s), level, i, j, m) /\ MadeAt(s, level, i, j, m, x)
      BY <3>0, <3>1, RootOf
    <3>2. ASSUME NEW x \in d[Place(level - 1, i, j)], NEW m, IsRoot(s, Reading(s), level, i, j, m)
          PROVE  FALSE
      <4>1. Spans(s, Reading(s), level - 1, i, j)
        <5>1. PICK l \in 1 .. 13 : l = level - 1
          BY <3>0
        <5>2. x \in d[Place(l, i, j)]
          BY <3>2, <5>1
        <5>3. Spans(s, Reading(s), l, i, j)
          BY <5>2, ExpressionSpans
        <5> QED
          BY <5>1, <5>3
      <4>2. m \in i .. j /\ BaseOperator(s, Reading(s), level, i, m)
        BY <3>2 DEF IsRoot
      <4> QED
        BY <2>0, <3>0, <4>1, <4>2, NoLooser
    <3>3. CASE t \in d[Place(level - 1, i, j)]
      <4>1. u \in d[Place(level - 1, i, j)]
        BY <3>1, <3>2, <3>3
      <4>2. Within(level - 1, i, j, level, i, j)
        BY <1>0, <3>0 DEF Within
      <4>3. OneAt(s, level - 1, i, j)
        <5>1. PICK l \in 1 .. 13 : l = level - 1
          BY <3>0
        <5>2. Within(l, i, j, level, i, j)
          BY <4>2, <5>1
        <5>3. OneAt(s, l, i, j)
          BY <2>2, <5>2, UniqueExpression
        <5> QED
          BY <5>1, <5>3
      <4> QED
        BY <3>3, <4>1, <4>3 DEF OneAt
    <3>4. CASE t \notin d[Place(level - 1, i, j)]
      <4>1. PICK m \in 1 .. Len(s) : IsRoot(s, Reading(s), level, i, j, m) /\ MadeAt(s, level, i, j, m, t)
        BY <3>1, <3>4
      <4>2. u \notin d[Place(level - 1, i, j)]
        BY <3>2, <4>1
      <4>3. PICK n \in 1 .. Len(s) : IsRoot(s, Reading(s), level, i, j, n) /\ MadeAt(s, level, i, j, n, u)
        BY <3>1, <4>2
      <4>4. i \in Int /\ j \in Int
        BY <1>0
      <4>5. m = n
        BY <4>1, <4>3, <4>4, RootUnique
      <4> QED
        BY <2>1, <2>2, <3>0, <4>1, <4>3, <4>5, MadeUnique
    <3> QED
      BY <3>3, <3>4
  <2> QED
    BY <2>3, <2>4
<1> QED
  BY <1>2, <1>3

\* The grammar derives one tree, or list, at most, wherever one is wanted.
LEMMA Unique ==
  ASSUME NEW s \in Seq(Tokens)
  PROVE  \A level \in 1 .. 14, i \in 1 .. Len(s) + 1, j \in 0 .. Len(s) : UniqueAt(s, level, i, j)
<1> DEFINE G == {p \in Places(s) : UniqueAt(s, p[1], p[2], p[3])}
<1>1. \A level \in 1 .. 14, i \in 1 .. Len(s) + 1, j \in 0 .. Len(s) :
         Place(level, i, j) \in G <=> UniqueAt(s, level, i, j)
  <2>1. \A level \in 1 .. 14, i \in 1 .. Len(s) + 1, j \in 0 .. Len(s) : Place(level, i, j) \in Places(s)
    BY WeightFacts
  <2> QED
    BY <2>1 DEF Place
<1> HIDE DEF G
<1>2. \A level \in 1 .. 14, i \in 1 .. Len(s) + 1, j \in 0 .. Len(s) :
         (i =< j => \A level2 \in 1 .. 14, i2 \in 1 .. Len(s) + 1, j2 \in 0 .. Len(s) :
                       Within(level2, i2, j2, level, i, j) => Place(level2, i2, j2) \in G)
         => Place(level, i, j) \in G
  BY <1>1, UniqueStep DEF UniqueWithin
<1>3. \A level \in 1 .. 14, i \in 1 .. Len(s) + 1, j \in 0 .. Len(s) : Place(level, i, j) \in G
  BY <1>2, SpanInduction
<1> QED
  BY <1>1, <1>3

-----------------------------------------------------------------------------
(* One tree at least.                                                      *)

\* What a token that does not end the reading does.
Stays(q, token, r) ==
    /\ r.open = q.open /\ Height(r) = Height(q)
    /\ \/ q.want = "operand" /\ token \in LeafTokens /\ r.want = "operator"
       \/ q.want = "operand" /\ token \in NameTokens /\ r.want = "call"
       \/ q.want = "operand" /\ token \in PrefixTokens /\ r.want = "operand" /\ r.closable = FALSE
       \/ q.want = "operator" /\ token \in InfixTokens /\ r.want = "operand" /\ r.closable = FALSE
       \/ q.want = "operator" /\ token = "deg" /\ r.want = "operator"
       \/ q.want = "operator" /\ token = "comma" /\ InCall(q) /\ r.want = "operand" /\ r.closable = TRUE

Opens(q, token, r) ==
    /\ token = "(" /\ r.want = "operand" /\ Height(r) = Height(q) + 1
    /\ \A m \in 1 .. Height(q) : r.open[m] = q.open[m]
    /\ \/ q.want = "operand" /\ r = Opened(q, "group")
       \/ q.want = "call" /\ r = Opened(q, "call")

Closes(q, token, r) ==
    /\ token = ")" /\ r.want = "operator" /\ Height(q) > 0 /\ Height(r) = Height(q) - 1
    /\ \A m \in 1 .. Height(q) - 1 : r.open[m] = q.open[m]
    /\ \/ q.want = "operator"
       \/ q.want = "operand" /\ q.closable = TRUE

\* A step of the reader keeps the brackets, opens one or closes one.
LEMMA TurnFacts ==
  ASSUME NEW q \in ReadingStates, NEW token, NEW r, Reads(q, token, r)
  PROVE  Stays(q, token, r) \/ Opens(q, token, r) \/ Closes(q, token, r)
<1>1. \A what \in {"operator", "operand", "call"} :
         /\ Want(q, what).want = what /\ Want(q, what).open = q.open /\ Want(q, what).closable = FALSE
         /\ Height(Want(q, what)) = Height(q)
  <2>1. \A what \in {"operator", "operand", "call"} : what \in {"operand", "operator", "call", "nothing"}
    OBVIOUS
  <2>2. \A what \in {"operator", "operand", "call"} :
           Want(q, what).want = what /\ Want(q, what).open = q.open /\ Want(q, what).closable = FALSE
    BY <2>1, WantFacts
  <2> QED
    BY <2>2 DEF Height
<1>2. CASE q.want = "operand" /\ token \in LeafTokens /\ r = Want(q, "operator")
  BY <1>1, <1>2 DEF Stays
<1>3. CASE q.want = "operand" /\ token \in NameTokens /\ r = Want(q, "call")
  BY <1>1, <1>3 DEF Stays
<1>4. CASE q.want = "operand" /\ token \in PrefixTokens /\ r = Want(q, "operand")
  BY <1>1, <1>4 DEF Stays
<1>5. CASE q.want = "operator" /\ token \in InfixTokens /\ r = Want(q, "operand")
  BY <1>1, <1>5 DEF Stays
<1>6. CASE q.want = "operator" /\ token = "deg" /\ r = q
  BY <1>6 DEF Stays
<1>7. CASE q.want = "operator" /\ token = "comma" /\ InCall(q) /\ r = Separated(q)
  BY <1>7, SeparatedFacts DEF Stays, Height
<1>8. CASE q.want = "operand" /\ token = "(" /\ r = Opened(q, "group")
  BY <1>8, OpenedFacts DEF Opens
<1>9. CASE q.want = "call" /\ token = "(" /\ r = Opened(q, "call")
  BY <1>9, OpenedFacts DEF Opens
<1>10. CASE q.want = "operator" /\ token = ")" /\ Height(q) > 0 /\ r = Closed(q)
  BY <1>10, ClosedFacts DEF Closes
<1>11. CASE q.want = "operand" /\ q.closable /\ token = ")" /\ r = Closed(q)
  <2>1. q.closable = TRUE /\ Height(q) > 0
    BY <1>11, StateFacts DEF Closable
  <2> QED
    BY <1>11, <2>1, ClosedFacts DEF Closes
<1> QED
  BY <1>2, <1>3, <1>4, <1>5, <1>6, <1>7, <1>8, <1>9, <1>10, <1>11 DEF Reads

\* The same of a step in a reading that is not stuck.
LEMMA TurnAt ==
  ASSUME NEW s \in Seq(Tokens), NEW R, ReadsTo(R, s, Len(s)), NEW n \in 1 .. Len(s), R[n].want # "nothing"
  PROVE  Stays(R[n - 1], s[n], R[n]) \/ Opens(R[n - 1], s[n], R[n]) \/ Closes(R[n - 1], s[n], R[n])
<1>1. R[n - 1] \in ReadingStates /\ R[n] = Read(R[n - 1], s[n])
  BY StepAt
<1>2. R[n] # Stuck
  BY StuckFacts
<1>3. Reads(R[n - 1], s[n], R[n])
  BY <1>1, <1>2, ReadIs
<1> QED
  BY <1>1, <1>3, TurnFacts

\* A reading that has ended stays so.
LEMMA StuckStays ==
  ASSUME NEW s \in Seq(Tokens), NEW R, ReadsTo(R, s, Len(s)), NEW m \in 0 .. Len(s), R[m].want = "nothing"
  PROVE  \A n \in m .. Len(s) : R[n].want = "nothing"
<1> DEFINE S == {k \in Nat : m + k =< Len(s) => R[m + k].want = "nothing"}
<1>0. Len(s) \in Nat
  BY StepFacts
<1>1. 0 \in S
  OBVIOUS
<1>2. ASSUME NEW k \in S
      PROVE  k + 1 \in S
  <2> SUFFICES ASSUME m + (k + 1) =< Len(s)
               PROVE  R[m + (k + 1)].want = "nothing"
    BY <1>2
  <2> DEFINE n == m + (k + 1)
  <2>1. n \in 1 .. Len(s) /\ n - 1 = m + k /\ m + k =< Len(s)
    BY <1>0, <1>2
  <2>2. R[n - 1].want = "nothing"
    BY <1>2, <2>1
  <2> HIDE DEF n
  <2>3. R[n].want = "nothing"
    <3> SUFFICES ASSUME R[n].want # "nothing"
                 PROVE  FALSE
      OBVIOUS
    <3>1. Stays(R[n - 1], s[n], R[n]) \/ Opens(R[n - 1], s[n], R[n]) \/ Closes(R[n - 1], s[n], R[n])
      BY <2>1, TurnAt
    <3> QED
      BY <2>2, <3>1 DEF Stays, Opens, Closes
  <2> QED
    BY <2>3 DEF n
<1>3. S = Nat
  <2>1. S \in SUBSET Nat
    OBVIOUS
  <2> HIDE DEF S
  <2> QED
    BY <1>1, <1>2, <2>1, SetInduction
<1>4. ASSUME NEW n \in m .. Len(s)
      PROVE  R[n].want = "nothing"
  <2>1. n - m \in Nat /\ m + (n - m) = n /\ n =< Len(s)
    BY <1>0
  <2> QED
    BY <1>3, <2>1
<1> QED
  BY <1>4

\* A reading that is not stuck has not been stuck before.
LEMMA Alive ==
  ASSUME NEW s \in Seq(Tokens), NEW R, ReadsTo(R, s, Len(s)), NEW j \in 0 .. Len(s), R[j].want # "nothing",
         NEW n \in 0 .. j
  PROVE  R[n].want # "nothing"
<1>1. Len(s) \in Nat
  BY StepFacts
<1>2. n \in 0 .. Len(s) /\ j \in n .. Len(s)
  BY <1>1
<1> QED
  BY <1>2, StuckStays

\* The brackets open before a token stay open as long as not fewer are.
LEMMA Stable ==
  ASSUME NEW s \in Seq(Tokens), NEW R, ReadsTo(R, s, Len(s)),
         NEW a \in 0 .. Len(s), NEW b \in 0 .. Len(s), a =< b, R[b].want # "nothing",
         \A n \in a .. b : Height(R[n]) >= Height(R[a]), Height(R[b]) = Height(R[a])
  PROVE  R[b].open = R[a].open
<1> DEFINE Same(n) == \A m \in 1 .. Height(R[a]) : R[n].open[m] = R[a].open[m]
           S == {k \in Nat : a + k =< b => Same(a + k)}
<1>0. Len(s) \in Nat /\ R[a] \in ReadingStates /\ R[b] \in ReadingStates /\ Height(R[a]) \in Nat
  BY StepFacts
<1>1. 0 \in S
  OBVIOUS
<1>2. ASSUME NEW k \in S
      PROVE  k + 1 \in S
  <2> SUFFICES ASSUME a + (k + 1) =< b
               PROVE  Same(a + (k + 1))
    BY <1>2
  <2> DEFINE n == a + (k + 1)
  <2>1. /\ n \in 1 .. Len(s) /\ n - 1 = a + k /\ a + k =< b /\ n \in a .. b /\ n - 1 \in a .. b
        /\ n \in 0 .. b
    BY <1>0, <1>2
  <2>2. \A m \in 1 .. Height(R[a]) : R[n - 1].open[m] = R[a].open[m]
    BY <1>2, <2>1
  <2> HIDE DEF n
  <2>3. Stays(R[n - 1], s[n], R[n]) \/ Opens(R[n - 1], s[n], R[n]) \/ Closes(R[n - 1], s[n], R[n])
    BY <2>1, Alive, TurnAt
  <2>4. Height(R[n]) >= Height(R[a]) /\ Height(R[n - 1]) >= Height(R[a]) /\ Height(R[n]) \in Nat /\ Height(R[n - 1]) \in Nat
    BY <2>1, StepAt
  <2>5. \A m \in 1 .. Height(R[a]) : R[n].open[m] = R[n - 1].open[m]
    <3>1. CASE Stays(R[n - 1], s[n], R[n])
      BY <3>1 DEF Stays
    <3>2. CASE Opens(R[n - 1], s[n], R[n])
      <4>1. \A m \in 1 .. Height(R[a]) : m \in 1 .. Height(R[n - 1])
        BY <1>0, <2>4
      <4>2. \A m \in 1 .. Height(R[n - 1]) : R[n].open[m] = R[n - 1].open[m]
        BY <3>2 DEF Opens
      <4> QED
        BY <4>1, <4>2
    <3>3. CASE Closes(R[n - 1], s[n], R[n])
      <4>1. Height(R[n]) = Height(R[n - 1]) - 1
        BY <3>3 DEF Closes
      <4>2. \A m \in 1 .. Height(R[a]) : m \in 1 .. Height(R[n - 1]) - 1
        BY <1>0, <2>4, <4>1
      <4>3. \A m \in 1 .. Height(R[n - 1]) - 1 : R[n].open[m] = R[n - 1].open[m]
        BY <3>3 DEF Closes
      <4> QED
        BY <4>2, <4>3
    <3> QED
      BY <2>3, <3>1, <3>2, <3>3
  <2>6. \A m \in 1 .. Height(R[a]) : R[n].open[m] = R[a].open[m]
    BY <2>2, <2>5
  <2> QED
    BY <2>6 DEF n
<1>3. S = Nat
  <2>1. S \in SUBSET Nat
    OBVIOUS
  <2> HIDE DEF S
  <2> QED
    BY <1>1, <1>2, <2>1, SetInduction
<1>4. Same(b)
  <2>1. PICK k \in Nat : a + k = b
    <3>1. b - a \in Nat /\ a + (b - a) = b
      BY <1>0
    <3> QED
      BY <3>1
  <2> HIDE DEF Same, S
  <2>2. k \in S
    BY <1>3
  <2>3. a + k =< b
    BY <1>0, <2>1
  <2>4. Same(a + k)
    BY <2>2, <2>3 DEF S
  <2> QED
    BY <2>1, <2>4
<1>5. \A m \in 1 .. Height(R[b]) : R[b].open[m] = R[a].open[m]
  BY <1>4
<1> QED
  BY <1>0, <1>5, SameOpen

\* How an operator token is read.
AsOperator(s, R, n) ==
    /\ R[n].open = R[n - 1].open /\ Height(R[n]) = Height(R[n - 1])
    /\ \/ /\ R[n - 1].want = "operand" /\ s[n] \in PrefixTokens /\ OperatorLevel(s, R, n) = 3
          /\ R[n].want = "operand"
       \/ /\ R[n - 1].want = "operator" /\ s[n] \in InfixTokens /\ OperatorLevel(s, R, n) = LevelOf(s[n])
          /\ R[n].want = "operand"
       \/ /\ R[n - 1].want = "operator" /\ s[n] = "deg" /\ OperatorLevel(s, R, n) = 2
          /\ R[n].want = "operator"

\* An operator token that is read is infix, prefix or postfix by what was wanted, and has that kind's level.
LEMMA OperatorKinds ==
  ASSUME NEW s \in Seq(Tokens), NEW R, ReadsTo(R, s, Len(s)), NEW n \in 1 .. Len(s), R[n].want # "nothing",
         s[n] \in OperatorTokens
  PROVE  AsOperator(s, R, n) /\ OperatorLevel(s, R, n) \in 2 .. 13
<1>0. /\ s[n] \notin LeafTokens /\ s[n] \notin NameTokens /\ s[n] # "(" /\ s[n] # ")" /\ s[n] # "comma"
      /\ s[n] \in InfixTokens => s[n] # "deg"
  BY TokensApart DEF OperatorTokens, Brackets
<1>1. Stays(R[n - 1], s[n], R[n]) \/ Opens(R[n - 1], s[n], R[n]) \/ Closes(R[n - 1], s[n], R[n])
  BY TurnAt
<1>2. Stays(R[n - 1], s[n], R[n])
  BY <1>0, <1>1 DEF Opens, Closes
<1>3. AsOperator(s, R, n)
  BY <1>0, <1>2 DEF Stays, AsOperator, OperatorLevel
<1>4. s[n] \in InfixTokens => LevelOf(s[n]) \in 3 .. 13
  BY RuleFacts
<1>5. 2 \in 2 .. 13 /\ 3 \in 2 .. 13 /\ \A l \in 3 .. 13 : l \in 2 .. 13
  OBVIOUS
<1> QED
  BY <1>3, <1>4, <1>5 DEF AsOperator

\* A token after an operand is an operator unless it closes a bracket or
\* separates arguments.
LEMMA AfterOperand ==
  ASSUME NEW s \in Seq(Tokens), NEW R, ReadsTo(R, s, Len(s)), NEW n \in 1 .. Len(s), R[n].want # "nothing",
         R[n - 1].want = "operator", Height(R[n]) >= Height(R[n - 1]), s[n] # "comma"
  PROVE  s[n] \in OperatorTokens
<1>1. Stays(R[n - 1], s[n], R[n]) \/ Opens(R[n - 1], s[n], R[n]) \/ Closes(R[n - 1], s[n], R[n])
  BY TurnAt
<1>2. Height(R[n - 1]) \in Nat
  BY StepAt
<1>3. ~Closes(R[n - 1], s[n], R[n])
  BY <1>2 DEF Closes
<1>4. ~Opens(R[n - 1], s[n], R[n])
  BY DEF Opens
<1> QED
  BY <1>1, <1>3, <1>4 DEF Stays, OperatorTokens

\* Every token of a span is read.
LEMMA SpanAlive ==
  ASSUME NEW s \in Seq(Tokens), NEW R, ReadsTo(R, s, Len(s)), NEW level,
         NEW i \in 1 .. Len(s), NEW j \in 1 .. Len(s), i =< j, Spans(s, R, level, i, j)
  PROVE  \A n \in i - 1 .. j : R[n].want # "nothing"
<1>1. Len(s) \in Nat
  BY StepFacts
<1>2. R[j].want # "nothing" /\ j \in 0 .. Len(s)
  BY <1>1 DEF Spans
<1>3. \A n \in i - 1 .. j : n \in 0 .. j
  BY <1>1
<1> QED
  BY <1>2, <1>3, Alive

\* A part of a span that begins and ends at its base is a span too.
LEMMA PartSpans ==
  ASSUME NEW s \in Seq(Tokens), NEW R, ReadsTo(R, s, Len(s)), NEW level \in 1 .. 13,
         NEW i \in 1 .. Len(s), NEW j \in 1 .. Len(s), i =< j, Spans(s, R, level, i, j),
         NEW a \in 1 .. Len(s), NEW b \in 1 .. Len(s), i =< a, a =< b, b =< j,
         AtBase(R, i, a), R[b].want = "operator", Height(R[b]) = Height(R[i - 1]),
         NEW tight \in 1 .. 13,
         \A n \in a .. b : AtBase(R, i, n) /\ s[n] \in OperatorTokens => OperatorLevel(s, R, n) =< tight
  PROVE  Spans(s, R, tight, a, b)
<1>0. Len(s) \in Nat
  BY StepFacts
<1>1. /\ Height(R[i - 1]) \in Nat
      /\ \A n \in i .. j : Height(R[n]) >= Height(R[i - 1])
      /\ \A n \in i .. j : AtBase(R, i, n) => Fits(s, R, level, n)
  BY StepAt DEF Spans
<1>2. Height(R[a - 1]) = Height(R[i - 1])
  BY DEF AtBase
<1>3. \A n \in a .. b : n \in i .. j
  BY <1>0
<1>4. \A n \in a .. b : Height(R[n]) >= Height(R[a - 1])
  BY <1>1, <1>2, <1>3
<1>5. R[b].open = R[a - 1].open
  <2>1. \A n \in a - 1 .. b : n = a - 1 \/ n \in a .. b
    BY <1>0
  <2>2. \A n \in a - 1 .. b : Height(R[n]) >= Height(R[a - 1])
    BY <1>1, <1>2, <1>4, <2>1
  <2>3. a - 1 \in 0 .. Len(s) /\ b \in 0 .. Len(s) /\ a - 1 =< b /\ Height(R[b]) = Height(R[a - 1])
    BY <1>0, <1>2
  <2> DEFINE c == a - 1
  <2>4. /\ c \in 0 .. Len(s) /\ c =< b /\ Height(R[b]) = Height(R[c])
        /\ \A n \in c .. b : Height(R[n]) >= Height(R[c])
    BY <2>2, <2>3
  <2>5. R[b].want # "nothing"
    OBVIOUS
  <2> HIDE DEF c
  <2>6. R[b].open = R[c].open
    BY <2>3, <2>4, <2>5, Stable
  <2> QED
    BY <2>6 DEF c
<1>6. ASSUME NEW n \in a .. b, AtBase(R, a, n)
      PROVE  Fits(s, R, tight, n)
  <2>1. AtBase(R, i, n) /\ n \in i .. j
    BY <1>2, <1>3, <1>6 DEF AtBase
  <2>2. Fits(s, R, level, n)
    BY <1>1, <2>1
  <2>3. s[n] \in OperatorTokens => OperatorLevel(s, R, n) \in 2 .. level /\ OperatorLevel(s, R, n) =< tight
    BY <1>6, <2>1, <2>2 DEF Fits
  <2>4. \A l \in 2 .. level : l =< tight => l \in 2 .. tight
    OBVIOUS
  <2> QED
    BY <2>2, <2>3, <2>4 DEF Fits
<1> QED
  BY <1>4, <1>5, <1>6 DEF Spans

\* A set of numbers from an interval that is not empty has a greatest element.
LEMMA GreatestNumber ==
  ASSUME NEW i \in Int, NEW j \in Int, NEW S \in SUBSET (i .. j), S # {}
  PROVE  \E m \in S : \A n \in S : n =< m
<1> DEFINE T == {j - n : n \in S}
<1>1. T \in SUBSET Nat /\ T # {}
  OBVIOUS
<1>2. PICK d \in T : \A e \in T : d =< e
  BY <1>1, LeastNumber
<1>3. PICK m \in S : d = j - m
  BY <1>2
<1>4. ASSUME NEW n \in S
      PROVE  n =< m
  <2>1. d =< j - n
    BY <1>2
  <2> QED
    BY <1>3, <2>1
<1> QED
  BY <1>4

\* Where an operator of the level is at the base, one is what the tokens are
\* grouped by.
LEMMA RootExists ==
  ASSUME NEW s, NEW R, NEW level, NEW i \in 1 .. Len(s), Len(s) \in Nat, NEW j \in 1 .. Len(s),
         NEW n \in i .. j, BaseOperator(s, R, level, i, n)
  PROVE  \E m \in 1 .. Len(s) : IsRoot(s, R, level, i, j, m)
<1> DEFINE S == {m \in i .. j : BaseOperator(s, R, level, i, m)}
<1>1. S \in SUBSET (i .. j) /\ S # {} /\ S \in SUBSET Nat /\ i \in Int /\ j \in Int
  OBVIOUS
<1>2. \A m \in S : m \in i .. j /\ m \in 1 .. Len(s) /\ BaseOperator(s, R, level, i, m)
  OBVIOUS
<1>3. \A m \in i .. j : BaseOperator(s, R, level, i, m) => m \in S
  OBVIOUS
<1> HIDE DEF S
<1>4. CASE level = 3
  <2>1. PICK m \in S : \A k \in S : m =< k
    BY <1>1, LeastNumber
  <2>2. IsRoot(s, R, level, i, j, m)
    BY <1>2, <1>3, <1>4, <2>1 DEF IsRoot
  <2> QED
    BY <1>2, <2>2
<1>5. CASE level # 3
  <2>1. PICK m \in S : \A k \in S : k =< m
    BY <1>1, GreatestNumber
  <2>2. IsRoot(s, R, level, i, j, m)
    BY <1>2, <1>3, <1>5, <2>1 DEF IsRoot
  <2> QED
    BY <1>2, <2>2
<1> QED
  BY <1>4, <1>5

\* An operand is wanted at the base after another token only if that is an
\* infix or prefix operator, at the base.
LEMMA OperandBefore ==
  ASSUME NEW s \in Seq(Tokens), NEW R, ReadsTo(R, s, Len(s)), NEW level \in 1 .. 13,
         NEW i \in 1 .. Len(s), NEW j \in 1 .. Len(s), i =< j, Spans(s, R, level, i, j),
         NEW m \in i .. j, R[m].want = "operand", Height(R[m]) = Height(R[i - 1])
  PROVE  /\ AtBase(R, i, m) /\ s[m] \in OperatorTokens /\ OperatorLevel(s, R, m) \in 3 .. level
<1>0. Len(s) \in Nat /\ m \in 1 .. Len(s)
  BY StepFacts
<1>1. /\ Height(R[i - 1]) \in Nat
      /\ \A n \in i .. j : Height(R[n]) >= Height(R[i - 1])
      /\ \A n \in i .. j : AtBase(R, i, n) => Fits(s, R, level, n)
  BY StepAt DEF Spans
<1>2. Height(R[m - 1]) >= Height(R[i - 1]) /\ Height(R[m - 1]) \in Nat
  <2>1. m - 1 = i - 1 \/ m - 1 \in i .. j
    BY <1>0
  <2>2. Height(R[m - 1]) \in Nat
    BY <1>0, StepAt
  <2>3. CASE m - 1 = i - 1
    BY <1>1, <2>3
  <2>4. CASE m - 1 \in i .. j
    BY <1>1, <2>2, <2>4
  <2> QED
    BY <2>1, <2>2, <2>3, <2>4
<1>3. Stays(R[m - 1], s[m], R[m]) \/ Opens(R[m - 1], s[m], R[m]) \/ Closes(R[m - 1], s[m], R[m])
  <2>1. R[m].want # "nothing"
    OBVIOUS
  <2> QED
    BY <1>0, <2>1, TurnAt
<1>4. ~Closes(R[m - 1], s[m], R[m])
  BY DEF Closes
<1>5. ~Opens(R[m - 1], s[m], R[m])
  <2> SUFFICES ASSUME Height(R[m]) = Height(R[m - 1]) + 1
               PROVE  FALSE
    BY DEF Opens
  <2> QED
    BY <1>1, <1>2
<1>6. Stays(R[m - 1], s[m], R[m])
  BY <1>3, <1>4, <1>5
<1>7. AtBase(R, i, m)
  BY <1>6 DEF Stays, AtBase
<1>8. Fits(s, R, level, m)
  BY <1>1, <1>7
<1>9. \/ R[m - 1].want = "operand" /\ s[m] \in PrefixTokens
      \/ R[m - 1].want = "operator" /\ s[m] \in InfixTokens
  BY <1>6, <1>8 DEF Stays, Fits
<1>10. s[m] \in OperatorTokens /\ OperatorLevel(s, R, m) \in 2 .. level
  BY <1>8, <1>9 DEF Fits, OperatorTokens
<1>11. OperatorLevel(s, R, m) \in 3 .. 13
  <2>1. \A r \in InfixTokens : LevelOf(r) \in 3 .. 13 /\ r # "deg"
    BY RuleFacts, TokensApart
  <2>2. 3 \in 3 .. 13
    OBVIOUS
  <2> QED
    BY <1>9, <2>1, <2>2 DEF OperatorLevel
<1>12. \A l \in 2 .. level : l \in 3 .. 13 => l \in 3 .. level
  OBVIOUS
<1> QED
  BY <1>7, <1>10, <1>11, <1>12

Some(s, level, i, j) == Expression(s)[Place(level, i, j)] # {}

\* For tokens that are read as an operand, or as the arguments of a call,
\* something is derived.
CompleteAt(s, level, i, j) ==
    (IF level = 14 THEN i =< j + 1 /\ Reading(s)[i - 1].closable = TRUE /\ SpansList(Reading(s), i, j)
     ELSE i =< j /\ Reading(s)[i - 1].want = "operand" /\ Spans(s, Reading(s), level, i, j))
    => Some(s, level, i, j)

CompleteWithin(s, level, i, j) ==
    \A level2 \in 1 .. 14, i2 \in 1 .. Len(s) + 1, j2 \in 0 .. Len(s) :
       Within(level2, i2, j2, level, i, j) => CompleteAt(s, level2, i2, j2)

\* Below a place where trees exist so far: expressions.
LEMMA CompleteExpression ==
  ASSUME NEW s \in Seq(Tokens), NEW level, NEW i, NEW j, CompleteWithin(s, level, i, j),
         NEW level2 \in 1 .. 13, NEW i2 \in 1 .. Len(s) + 1, NEW j2 \in 0 .. Len(s), i2 =< j2,
         Within(level2, i2, j2, level, i, j), Reading(s)[i2 - 1].want = "operand",
         Spans(s, Reading(s), level2, i2, j2)
  PROVE  Some(s, level2, i2, j2)
<1>1. level2 \in 1 .. 14 /\ level2 # 14
  OBVIOUS
<1>2. CompleteAt(s, level2, i2, j2)
  BY <1>1 DEF CompleteWithin
<1> QED
  BY <1>1, <1>2 DEF CompleteAt

\* Below a place where trees exist so far: lists.
LEMMA CompleteList ==
  ASSUME NEW s \in Seq(Tokens), NEW level, NEW i, NEW j, CompleteWithin(s, level, i, j),
         NEW i2 \in 1 .. Len(s) + 1, NEW j2 \in 0 .. Len(s), i2 =< j2 + 1,
         Within(14, i2, j2, level, i, j), Reading(s)[i2 - 1].closable = TRUE,
         SpansList(Reading(s), i2, j2)
  PROVE  Some(s, 14, i2, j2)
<1>1. 14 \in 1 .. 14
  OBVIOUS
<1>2. CompleteAt(s, 14, i2, j2)
  BY <1>1 DEF CompleteWithin
<1> QED
  BY <1>2 DEF CompleteAt

\* What a level derives from the ones below it.
LEMMA SomeOf ==
  ASSUME NEW s \in Seq(Tokens), NEW level \in 1 .. 13, NEW i \in 1 .. Len(s), NEW j \in 1 .. Len(s), i =< j, NEW t,
         \/ level = 1 /\ t \in Term(Expression(s), s, i, j)
         \/ level # 1 /\ t \in Expression(s)[Place(level - 1, i, j)]
         \/ level # 1 /\ t \in Binary(Expression(s), s, level, i, j)
         \/ level = 2 /\ t \in Postfix(Expression(s), s, i, j)
         \/ level = 3 /\ t \in Prefix(Expression(s), s, i, j)
  PROVE  Some(s, level, i, j)
<1> DEFINE d == Expression(s)
<1>0. /\ Len(s) \in Nat /\ level \in 1 .. 14 /\ i \in 1 .. Len(s) + 1 /\ j \in 0 .. Len(s) /\ ~(i > j)
  <2>1. Len(s) \in Nat
    OBVIOUS
  <2> QED
    BY <2>1
<1>1. d[Place(level, i, j)] = Derives(d, s, level, i, j)
  BY <1>0, ExpressionFacts
<1>2. t \in Derives(d, s, level, i, j)
  BY <1>0, LevelMembers
<1> QED
  BY <1>1, <1>2 DEF Some

\* A range whose root is an infix operator is derived by that operator's rule.
LEMMA InfixComplete ==
  ASSUME NEW s \in Seq(Tokens), NEW level \in 3 .. 13, NEW i \in 1 .. Len(s), NEW j \in 1 .. Len(s), i =< j,
         NEW m \in 1 .. Len(s), CompleteWithin(s, level, i, j),
         Reading(s)[i - 1].want = "operand", Spans(s, Reading(s), level, i, j),
         IsRoot(s, Reading(s), level, i, j, m), Reading(s)[m - 1].want = "operator"
  PROVE  Some(s, level, i, j)
<1> DEFINE R == Reading(s)
           d == Expression(s)
<1>0. Len(s) \in Nat /\ ReadsTo(R, s, Len(s)) /\ m \in i .. j
  BY ReadingFacts DEF IsRoot
<1> HIDE DEF R
<1>1. /\ R[i - 1].want = "operand" /\ Spans(s, R, level, i, j) /\ IsRoot(s, R, level, i, j, m)
      /\ R[m - 1].want = "operator"
  BY DEF R
<1>2. level \in 1 .. 13
  OBVIOUS
<1>3. /\ AtBase(R, i, m) /\ s[m] \in OperatorTokens /\ OperatorLevel(s, R, m) = level
      /\ \A n \in i .. j : AtBase(R, i, n) /\ s[n] \in OperatorTokens /\ OperatorLevel(s, R, n) = level
            => IF level = 3 THEN m =< n ELSE n =< m
  BY <1>1 DEF IsRoot, BaseOperator
<1>4. R[m].want # "nothing" /\ m \in i - 1 .. j
  <2>1. m \in i - 1 .. j
    BY <1>0
  <2> QED
    BY <1>0, <1>1, <1>2, <2>1, SpanAlive
<1>5. AsOperator(s, R, m)
  BY <1>0, <1>3, <1>4, OperatorKinds
<1>6. /\ s[m] \in InfixTokens /\ LevelOf(s[m]) = level /\ R[m].want = "operand"
      /\ Height(R[m]) = Height(R[m - 1])
  <2>1. level # 2
    OBVIOUS
  <2> QED
    BY <1>1, <1>3, <1>5, <2>1 DEF AsOperator
<1>7. Height(R[m - 1]) = Height(R[i - 1]) /\ Height(R[m]) = Height(R[i - 1])
  BY <1>3, <1>6 DEF AtBase
<1>8. i < m
  <2>1. i # m
    BY <1>1
  <2> QED
    BY <1>0, <2>1
<1>9. m < j
  <2>1. R[j].want = "operator"
    BY <1>1 DEF Spans
  <2>2. m # j
    BY <1>6, <2>1
  <2> QED
    BY <1>0, <2>2
<1>10. \A n \in i .. j : AtBase(R, i, n) /\ s[n] \in OperatorTokens => OperatorLevel(s, R, n) \in 2 .. level
  BY <1>1 DEF Spans, Fits
<1>11. PICK l \in 1 .. 13 : l = Lhs(level)
  BY DEF Lhs
<1>12. PICK r \in 1 .. 13 : r = Rhs(level)
  BY DEF Rhs
<1>13. Some(s, l, i, m - 1)
  <2> DEFINE b == m - 1
  <2>1. b \in 1 .. Len(s) /\ i =< b /\ b =< j /\ b \in 0 .. Len(s) /\ i \in 1 .. Len(s) + 1
    BY <1>0, <1>8
  <2>2. R[b].want = "operator" /\ Height(R[b]) = Height(R[i - 1]) /\ AtBase(R, i, i)
    BY <1>1, <1>7 DEF AtBase
  <2>3. ASSUME NEW n \in i .. b, AtBase(R, i, n), s[n] \in OperatorTokens
        PROVE  OperatorLevel(s, R, n) =< l
    <3>1. n \in i .. j /\ n < m
      BY <1>0, <2>1
    <3>2. OperatorLevel(s, R, n) \in 2 .. level
      BY <1>10, <2>3, <3>1
    <3>3. level = 3 => OperatorLevel(s, R, n) # 3
      BY <1>0, <1>3, <2>3, <3>1
    <3>4. l = IF level = 3 THEN 2 ELSE level
      BY <1>11 DEF Lhs
    <3> QED
      BY <3>2, <3>3, <3>4
  <2>4. Within(l, i, b, level, i, j)
    BY <1>0, <1>9 DEF Within
  <2> HIDE DEF b
  <2>5. i =< i
    BY <1>0
  <2>6. Spans(s, R, l, i, b)
    BY <1>0, <1>1, <1>2, <2>1, <2>2, <2>3, <2>5, PartSpans
  <2>7. Some(s, l, i, b)
    BY <1>1, <2>1, <2>4, <2>6, CompleteExpression DEF R
  <2> QED
    BY <2>7 DEF b
<1>14. Some(s, r, m + 1, j)
  <2> DEFINE a == m + 1
  <2>1. /\ a \in 1 .. Len(s) /\ i =< a /\ a =< j /\ j =< j /\ a \in 1 .. Len(s) + 1 /\ j \in 0 .. Len(s)
        /\ a - 1 = m
    BY <1>0, <1>8, <1>9
  <2>2. R[j].want = "operator" /\ Height(R[j]) = Height(R[i - 1])
    BY <1>1 DEF Spans, Height
  <2>3. AtBase(R, i, a) /\ R[a - 1].want = "operand"
    BY <1>6, <1>7, <2>1 DEF AtBase
  <2>4. ASSUME NEW n \in a .. j, AtBase(R, i, n), s[n] \in OperatorTokens
        PROVE  OperatorLevel(s, R, n) =< r
    <3>1. n \in i .. j /\ n > m
      BY <1>0, <2>1
    <3>2. OperatorLevel(s, R, n) \in 2 .. level
      BY <1>10, <2>4, <3>1
    <3>3. level # 3 => OperatorLevel(s, R, n) # level
      BY <1>0, <1>3, <2>4, <3>1
    <3>4. r = IF level = 3 THEN 3 ELSE level - 1
      BY <1>12 DEF Rhs
    <3> QED
      BY <3>2, <3>3, <3>4
  <2>5. Within(r, a, j, level, i, j)
    BY <1>0, <1>8 DEF Within
  <2> HIDE DEF a
  <2>6. Spans(s, R, r, a, j)
    BY <1>0, <1>1, <1>2, <2>1, <2>2, <2>3, <2>4, PartSpans
  <2>7. Some(s, r, a, j)
    BY <2>1, <2>3, <2>5, <2>6, CompleteExpression DEF R
  <2> QED
    BY <2>7 DEF a
<1>15. PICK rule \in InfixRules : rule.token = s[m]
  BY <1>6, RuleFacts
<1>16. rule.level = level
  BY <1>6, <1>15, RuleFacts
<1>17. PICK lhs \in d[Place(l, i, m - 1)] : TRUE
  BY <1>13 DEF Some
<1>18. PICK rhs \in d[Place(r, m + 1, j)] : TRUE
  BY <1>14 DEF Some
<1>19. Tree("binary", rule.opcode, m, lhs \o rhs) \in BinaryAt(d, rule, i, m, j)
  BY <1>11, <1>12, <1>16, <1>17, <1>18, BinaryAtMembers
<1>20. m \in i + 1 .. j - 1
  BY <1>0, <1>8, <1>9
<1>21. Tree("binary", rule.opcode, m, lhs \o rhs) \in Binary(d, s, level, i, j)
  BY <1>15, <1>16, <1>19, <1>20, BinaryMembers
<1> QED
  BY <1>2, <1>21, SomeOf

\* A range whose root is a prefix operator is derived by the prefix rule.
LEMMA PrefixComplete ==
  ASSUME NEW s \in Seq(Tokens), NEW i \in 1 .. Len(s), NEW j \in 1 .. Len(s), i =< j,
         NEW m \in 1 .. Len(s), CompleteWithin(s, 3, i, j),
         Reading(s)[i - 1].want = "operand", Spans(s, Reading(s), 3, i, j),
         IsRoot(s, Reading(s), 3, i, j, m), Reading(s)[m - 1].want = "operand"
  PROVE  Some(s, 3, i, j)
<1> DEFINE R == Reading(s)
           d == Expression(s)
<1>0. Len(s) \in Nat /\ ReadsTo(R, s, Len(s)) /\ m \in i .. j
  BY ReadingFacts DEF IsRoot
<1> HIDE DEF R
<1>1. /\ R[i - 1].want = "operand" /\ Spans(s, R, 3, i, j) /\ IsRoot(s, R, 3, i, j, m)
      /\ R[m - 1].want = "operand"
  BY DEF R
<1>2. 3 \in 1 .. 13
  OBVIOUS
<1>3. /\ AtBase(R, i, m) /\ s[m] \in OperatorTokens /\ OperatorLevel(s, R, m) = 3
      /\ \A n \in i .. j : AtBase(R, i, n) /\ s[n] \in OperatorTokens /\ OperatorLevel(s, R, n) = 3 => m =< n
  BY <1>1 DEF IsRoot, BaseOperator
<1>4. m = i
  <2> SUFFICES ASSUME m # i
               PROVE  FALSE
    OBVIOUS
  <2> DEFINE n == m - 1
  <2>1. n \in i .. j /\ ~(m =< n)
    BY <1>0
  <2>2. R[n].want = "operand" /\ Height(R[n]) = Height(R[i - 1])
    BY <1>1, <1>3 DEF AtBase
  <2> HIDE DEF n
  <2>3. AtBase(R, i, n) /\ s[n] \in OperatorTokens /\ OperatorLevel(s, R, n) \in 3 .. 3
    BY <1>0, <1>1, <1>2, <2>1, <2>2, OperandBefore
  <2>4. OperatorLevel(s, R, n) = 3
    BY <2>3
  <2> QED
    BY <1>3, <2>1, <2>3, <2>4
<1>5. R[m].want # "nothing"
  <2>1. m \in i - 1 .. j
    BY <1>0
  <2> QED
    BY <1>0, <1>1, <2>1, SpanAlive
<1>6. AsOperator(s, R, m)
  BY <1>0, <1>3, <1>5, OperatorKinds
<1>7. s[i] \in PrefixTokens /\ R[i].want = "operand" /\ Height(R[i]) = Height(R[i - 1])
  BY <1>1, <1>4, <1>6 DEF AsOperator
<1>8. i < j
  <2>1. R[j].want = "operator"
    BY <1>1 DEF Spans
  <2>2. i # j
    BY <1>7, <2>1
  <2> QED
    BY <1>0, <2>2
<1>9. Some(s, 3, i + 1, j)
  <2> DEFINE a == i + 1
  <2>1. /\ a \in 1 .. Len(s) /\ i =< a /\ a =< j /\ j =< j /\ a \in 1 .. Len(s) + 1 /\ j \in 0 .. Len(s)
        /\ a - 1 = i
    BY <1>0, <1>8
  <2>2. R[j].want = "operator" /\ Height(R[j]) = Height(R[i - 1])
    BY <1>1 DEF Spans, Height
  <2>3. AtBase(R, i, a) /\ R[a - 1].want = "operand"
    BY <1>7, <2>1 DEF AtBase
  <2>4. ASSUME NEW n \in a .. j, AtBase(R, i, n), s[n] \in OperatorTokens
        PROVE  OperatorLevel(s, R, n) =< 3
    <3>1. n \in i .. j
      BY <1>0, <2>1
    <3>2. OperatorLevel(s, R, n) \in 2 .. 3
      BY <1>1, <2>4, <3>1 DEF Spans, Fits
    <3> QED
      BY <3>2
  <2>5. Within(3, a, j, 3, i, j)
    BY <1>0 DEF Within
  <2> HIDE DEF a
  <2>6. Spans(s, R, 3, a, j)
    BY <1>0, <1>1, <1>2, <2>1, <2>2, <2>3, <2>4, PartSpans
  <2>7. Some(s, 3, a, j)
    BY <1>2, <2>1, <2>3, <2>5, <2>6, CompleteExpression DEF R
  <2> QED
    BY <2>7 DEF a
<1>10. PICK e \in d[Place(3, i + 1, j)] : TRUE
  BY <1>9 DEF Some
<1>11. PICK opcode \in Under(PrefixRules, s[i]) : TRUE
  BY <1>7, UnderFacts
<1>12. Tree("unary", opcode, i, e) \in Prefix(d, s, i, j)
  BY <1>10, <1>11, PrefixMembers
<1> QED
  BY <1>2, <1>12, SomeOf

\* A range whose root is a degree sign is derived by the postfix rule.
LEMMA PostfixComplete ==
  ASSUME NEW s \in Seq(Tokens), NEW i \in 1 .. Len(s), NEW j \in 1 .. Len(s), i =< j,
         NEW m \in 1 .. Len(s), CompleteWithin(s, 2, i, j),
         Reading(s)[i - 1].want = "operand", Spans(s, Reading(s), 2, i, j),
         IsRoot(s, Reading(s), 2, i, j, m)
  PROVE  Some(s, 2, i, j)
<1> DEFINE R == Reading(s)
           d == Expression(s)
<1>0. Len(s) \in Nat /\ ReadsTo(R, s, Len(s)) /\ m \in i .. j
  BY ReadingFacts DEF IsRoot
<1> HIDE DEF R
<1>1. /\ R[i - 1].want = "operand" /\ Spans(s, R, 2, i, j) /\ IsRoot(s, R, 2, i, j, m)
  BY DEF R
<1>2. 2 \in 1 .. 13
  OBVIOUS
<1>3. /\ AtBase(R, i, m) /\ s[m] \in OperatorTokens /\ OperatorLevel(s, R, m) = 2
      /\ \A n \in i .. j : AtBase(R, i, n) /\ s[n] \in OperatorTokens /\ OperatorLevel(s, R, n) = 2 => n =< m
  BY <1>1 DEF IsRoot, BaseOperator
<1>4. \A n \in i - 1 .. j : R[n].want # "nothing"
  BY <1>0, <1>1, SpanAlive
<1>5. AsOperator(s, R, m)
  <2>1. R[m].want # "nothing"
    BY <1>0, <1>4
  <2> QED
    BY <1>0, <1>3, <2>1, OperatorKinds
<1>6. R[m - 1].want = "operator" /\ s[m] = "deg" /\ R[m].want = "operator" /\ Height(R[m]) = Height(R[m - 1])
  <2>1. s[m] \in InfixTokens => LevelOf(s[m]) # 2
    <3>1. \A r \in InfixTokens : LevelOf(r) \in 3 .. 13
      BY RuleFacts
    <3> QED
      BY <3>1
  <2> QED
    BY <1>3, <1>5, <2>1 DEF AsOperator
<1>7. m = j
  <2> SUFFICES ASSUME m # j
               PROVE  FALSE
    OBVIOUS
  <2> DEFINE n == m + 1
  <2>1. n \in i .. j /\ ~(n =< m) /\ n \in 1 .. Len(s) /\ n - 1 = m /\ n \in i - 1 .. j
    BY <1>0
  <2> HIDE DEF n
  <2>2. AtBase(R, i, n)
    BY <1>3, <1>6, <2>1 DEF AtBase
  <2>3. Fits(s, R, 2, n) /\ Height(R[n]) >= Height(R[n - 1])
    BY <1>1, <2>1, <2>2 DEF Spans, AtBase
  <2>4. s[n] \in OperatorTokens
    <3>1. R[n].want # "nothing" /\ R[n - 1].want = "operator"
      BY <1>4, <1>6, <2>1
    <3>2. s[n] # "comma"
      BY <2>3 DEF Fits
    <3> QED
      BY <1>0, <2>1, <2>3, <3>1, <3>2, AfterOperand
  <2>5. OperatorLevel(s, R, n) \in 2 .. 2
    BY <2>3, <2>4 DEF Fits
  <2>6. OperatorLevel(s, R, n) = 2
    BY <2>5
  <2> QED
    BY <1>3, <2>1, <2>2, <2>4, <2>6
<1>8. i < j
  <2>1. i # m
    BY <1>1, <1>6
  <2> QED
    BY <1>0, <1>7, <2>1
<1>9. Some(s, 2, i, j - 1)
  <2> DEFINE b == j - 1
  <2>1. b \in 1 .. Len(s) /\ i =< b /\ b =< j /\ b \in 0 .. Len(s) /\ i \in 1 .. Len(s) + 1 /\ i =< i
    BY <1>0, <1>8
  <2>2. R[b].want = "operator" /\ Height(R[b]) = Height(R[i - 1]) /\ AtBase(R, i, i)
    BY <1>3, <1>6, <1>7 DEF AtBase
  <2>3. ASSUME NEW n \in i .. b, AtBase(R, i, n), s[n] \in OperatorTokens
        PROVE  OperatorLevel(s, R, n) =< 2
    <3>1. n \in i .. j
      BY <1>0, <2>1
    <3>2. OperatorLevel(s, R, n) \in 2 .. 2
      BY <1>1, <2>3, <3>1 DEF Spans, Fits
    <3> QED
      BY <3>2
  <2>4. Within(2, i, b, 2, i, j)
    BY <1>0 DEF Within
  <2> HIDE DEF b
  <2>5. Spans(s, R, 2, i, b)
    BY <1>0, <1>1, <1>2, <2>1, <2>2, <2>3, PartSpans
  <2>6. Some(s, 2, i, b)
    BY <1>1, <1>2, <2>1, <2>4, <2>5, CompleteExpression DEF R
  <2> QED
    BY <2>6 DEF b
<1>10. PICK e \in d[Place(2, i, j - 1)] : TRUE
  BY <1>9 DEF Some
<1>11. Tree("unary", "Degrees", j, e) \in Postfix(d, s, i, j)
  BY <1>6, <1>7, <1>10, PostfixMembers
<1> QED
  BY <1>2, <1>11, SomeOf

\* A level other than the tightest derives something for a span of its own.
LEMMA OperationComplete ==
  ASSUME NEW s \in Seq(Tokens), NEW level \in 2 .. 13, NEW i \in 1 .. Len(s), NEW j \in 1 .. Len(s), i =< j,
         CompleteWithin(s, level, i, j),
         Reading(s)[i - 1].want = "operand", Spans(s, Reading(s), level, i, j)
  PROVE  Some(s, level, i, j)
<1> DEFINE R == Reading(s)
<1>0. Len(s) \in Nat /\ ReadsTo(R, s, Len(s)) /\ level \in 1 .. 13
  BY ReadingFacts
<1> HIDE DEF R
<1>1. R[i - 1].want = "operand" /\ Spans(s, R, level, i, j)
  BY DEF R
<1>2. CASE \E n \in i .. j : BaseOperator(s, R, level, i, n)
  <2>1. PICK m \in 1 .. Len(s) : IsRoot(s, R, level, i, j, m)
    BY <1>0, <1>2, RootExists
  <2>2. m \in i .. j /\ s[m] \in OperatorTokens /\ OperatorLevel(s, R, m) = level
    BY <2>1 DEF IsRoot, BaseOperator
  <2>3. AsOperator(s, R, m)
    <3>1. m \in i - 1 .. j
      BY <1>0, <2>2
    <3>2. R[m].want # "nothing"
      BY <1>0, <1>1, <3>1, SpanAlive
    <3> QED
      BY <1>0, <2>2, <3>2, OperatorKinds
  <2>4. CASE R[m - 1].want = "operand"
    <3>1. level = 3
      BY <2>2, <2>3, <2>4 DEF AsOperator
    <3> QED
      BY <1>1, <2>1, <2>4, <3>1, PrefixComplete DEF R
  <2>5. CASE level = 2
    BY <1>1, <2>1, <2>5, PostfixComplete DEF R
  <2>6. CASE R[m - 1].want = "operator" /\ level # 2
    <3>1. level \in 3 .. 13
      BY <2>6
    <3> QED
      BY <1>1, <2>1, <2>6, <3>1, InfixComplete DEF R
  <2> QED
    BY <2>3, <2>4, <2>5, <2>6 DEF AsOperator
<1>3. CASE ~ \E n \in i .. j : BaseOperator(s, R, level, i, n)
  <2>1. PICK l \in 1 .. 13 : l = level - 1 /\ level # 1
    BY <1>0
  <2>2. ASSUME NEW n \in i .. j, AtBase(R, i, n), s[n] \in OperatorTokens
        PROVE  OperatorLevel(s, R, n) =< l
    <3>1. OperatorLevel(s, R, n) \in 2 .. level
      BY <1>1, <2>2 DEF Spans, Fits
    <3>2. OperatorLevel(s, R, n) # level
      BY <1>3, <2>2 DEF BaseOperator
    <3> QED
      BY <2>1, <3>1, <3>2
  <2>3. /\ R[j].want = "operator" /\ Height(R[j]) = Height(R[i - 1]) /\ AtBase(R, i, i)
    BY <1>1 DEF Spans, Height, AtBase
  <2>4. i =< i /\ j =< j /\ i \in 1 .. Len(s) + 1 /\ j \in 0 .. Len(s)
    BY <1>0
  <2>5. Spans(s, R, l, i, j)
    BY <1>0, <1>1, <2>2, <2>3, <2>4, PartSpans
  <2>6. Within(l, i, j, level, i, j)
    BY <1>0, <2>1 DEF Within
  <2>7. Some(s, l, i, j)
    BY <1>1, <2>4, <2>5, <2>6, CompleteExpression DEF R
  <2>8. PICK t \in Expression(s)[Place(level - 1, i, j)] : TRUE
    BY <2>1, <2>7 DEF Some
  <2> QED
    BY <1>0, <2>1, <2>8, SomeOf
<1> QED
  BY <1>2, <1>3

\* Tokens without a separator at their base that are read up to an operator and
\* close nothing are a span of the loosest level.
LEMMA BaseSpans ==
  ASSUME NEW s \in Seq(Tokens), NEW R, ReadsTo(R, s, Len(s)),
         NEW i \in 1 .. Len(s), NEW j \in 1 .. Len(s), i =< j,
         R[j].want = "operator", Height(R[j]) = Height(R[i - 1]),
         \A n \in i .. j : Height(R[n]) >= Height(R[i - 1]),
         \A n \in i .. j : AtBase(R, i, n) => s[n] # "comma"
  PROVE  Spans(s, R, 13, i, j)
<1>0. Len(s) \in Nat /\ Height(R[i - 1]) \in Nat
  BY StepFacts, StepAt
<1>1. R[j].open = R[i - 1].open
  <2> DEFINE a == i - 1
  <2>1. /\ a \in 0 .. Len(s) /\ j \in 0 .. Len(s) /\ a =< j /\ R[j].want # "nothing"
        /\ \A n \in a .. j : n = a \/ n \in i .. j
    BY <1>0
  <2>2. \A n \in a .. j : Height(R[n]) >= Height(R[a])
    BY <1>0, <2>1
  <2>3. Height(R[j]) = Height(R[a])
    OBVIOUS
  <2> HIDE DEF a
  <2>4. R[j].open = R[a].open
    BY <2>1, <2>2, <2>3, Stable
  <2> QED
    BY <2>4 DEF a
<1>2. ASSUME NEW n \in i .. j, AtBase(R, i, n)
      PROVE  Fits(s, R, 13, n)
  <2>1. n \in 1 .. Len(s) /\ n \in 0 .. j /\ j \in 0 .. Len(s) /\ R[j].want # "nothing"
    BY <1>0
  <2>2. R[n].want # "nothing"
    BY <2>1, Alive
  <2>3. s[n] \in OperatorTokens => OperatorLevel(s, R, n) \in 2 .. 13
    BY <2>1, <2>2, OperatorKinds
  <2> QED
    BY <1>2, <2>3 DEF Fits
<1> QED
  BY <1>1, <1>2 DEF Spans

\* A bracket that is opened in a span is closed in it, by the token with which
\* the height is back for the first time.
LEMMA BracketCloses ==
  ASSUME NEW s \in Seq(Tokens), NEW R, ReadsTo(R, s, Len(s)),
         NEW o \in 1 .. Len(s), NEW j \in 1 .. Len(s), o =< j, R[j].want # "nothing",
         NEW b \in {"group", "call"}, R[o] = Opened(R[o - 1], b),
         \A n \in o .. j : Height(R[n]) >= Height(R[o - 1]), Height(R[j]) = Height(R[o - 1])
  PROVE  \E m \in 1 .. Len(s) :
            /\ o < m /\ m =< j /\ Height(R[m]) = Height(R[o - 1])
            /\ Closes(R[m - 1], s[m], R[m]) /\ R[m - 1].open = R[o].open
            /\ \A n \in o .. m - 1 : Height(R[n]) >= Height(R[o])
<1> DEFINE H == Height(R[o - 1])
           S == {n \in o .. j : Height(R[n]) = H}
<1>0. /\ Len(s) \in Nat /\ H \in Nat /\ R[o - 1] \in ReadingStates
      /\ \A n \in o .. j : n \in 0 .. Len(s) /\ Height(R[n]) \in Nat
  <2>1. Len(s) \in Nat
    BY StepFacts
  <2>2. \A n \in o .. j : n \in 0 .. Len(s)
    BY <2>1
  <2>3. H \in Nat /\ R[o - 1] \in ReadingStates
    BY StepAt
  <2> HIDE DEF H
  <2> QED
    BY <2>1, <2>2, <2>3, StepFacts
<1>1. Height(R[o]) = H + 1
  <2> DEFINE q == R[o - 1]
  <2>1. Height(Opened(q, b)) = Height(q) + 1
    <3>1. q \in ReadingStates
      BY <1>0
    <3> HIDE DEF q
    <3> QED
      BY <3>1, OpenedFacts
  <2> QED
    BY <2>1
<1>2. S \in SUBSET Nat /\ S # {} /\ j \in S
  BY <1>0
<1>3. \A n \in S : n \in o .. j /\ Height(R[n]) = H
  OBVIOUS
<1>4. \A n \in o .. j : n \notin S => Height(R[n]) # H
  OBVIOUS
<1> HIDE DEF S
<1>5. PICK m \in S : \A n \in S : m =< n
  BY <1>2, LeastNumber
<1>6. m \in o .. j /\ Height(R[m]) = H
  BY <1>3
<1>7. o < m /\ m \in 1 .. Len(s)
  <2>1. m # o
    BY <1>0, <1>1, <1>6
  <2> QED
    BY <1>0, <1>6, <2>1
<1>8. ASSUME NEW n \in o .. m - 1
      PROVE  Height(R[n]) >= H + 1
  <2>1. n \in o .. j /\ ~(m =< n)
    BY <1>0, <1>6
  <2>2. n \notin S
    BY <1>5, <2>1
  <2>3. Height(R[n]) # H /\ Height(R[n]) >= H /\ Height(R[n]) \in Nat
    BY <1>0, <1>4, <2>1, <2>2
  <2> HIDE DEF H
  <2> QED
    BY <1>0, <2>3
<1>9. Closes(R[m - 1], s[m], R[m])
  <2>1. R[m].want # "nothing"
    <3>1. m \in 0 .. j /\ j \in 0 .. Len(s)
      BY <1>0, <1>6
    <3> QED
      BY <3>1, Alive
  <2>2. Stays(R[m - 1], s[m], R[m]) \/ Opens(R[m - 1], s[m], R[m]) \/ Closes(R[m - 1], s[m], R[m])
    BY <1>7, <2>1, TurnAt
  <2>3. Height(R[m - 1]) >= H + 1 /\ Height(R[m - 1]) \in Nat
    <3>1. m - 1 \in o .. m - 1 /\ m - 1 \in o .. j
      BY <1>0, <1>6, <1>7
    <3> HIDE DEF H
    <3> QED
      BY <1>0, <1>8, <3>1
  <2> HIDE DEF H
  <2>4. Height(R[m]) # Height(R[m - 1]) /\ Height(R[m]) # Height(R[m - 1]) + 1
    BY <1>0, <1>6, <2>3
  <2> QED
    BY <2>2, <2>4 DEF Stays, Opens
<1>10. R[m - 1].open = R[o].open
  <2> DEFINE c == m - 1
  <2>1. /\ o \in 0 .. Len(s) /\ c \in 0 .. Len(s) /\ o =< c /\ c \in 0 .. j /\ j \in 0 .. Len(s)
    BY <1>0, <1>6, <1>7
  <2>2. \A n \in o .. c : Height(R[n]) >= Height(R[o])
    BY <1>1, <1>8
  <2>3. Height(R[c]) = Height(R[o])
    <3>1. Height(R[m]) = Height(R[c]) - 1
      BY <1>9 DEF Closes
    <3>2. Height(R[c]) \in Nat
      BY <1>7, StepAt
    <3> HIDE DEF c, H
    <3> QED
      BY <1>0, <1>1, <1>6, <3>1, <3>2
  <2> HIDE DEF c
  <2>4. R[c].want # "nothing"
    BY <2>1, Alive
  <2>5. R[c].open = R[o].open
    BY <2>1, <2>2, <2>3, <2>4, Stable
  <2> QED
    BY <2>5 DEF c
<1>11. \A n \in o .. m - 1 : Height(R[n]) >= Height(R[o])
  BY <1>1, <1>8
<1>12. m =< j
  BY <1>0, <1>6
<1> QED
  BY <1>6, <1>7, <1>9, <1>10, <1>11, <1>12

\* An operand of the tightest level ends where it first could.
LEMMA NothingAfter ==
  ASSUME NEW s \in Seq(Tokens), NEW R, ReadsTo(R, s, Len(s)),
         NEW i \in 1 .. Len(s), NEW j \in 1 .. Len(s), i =< j, Spans(s, R, 1, i, j),
         NEW m \in i .. j, R[m].want = "operator", Height(R[m]) = Height(R[i - 1])
  PROVE  m = j
<1> SUFFICES ASSUME m # j
             PROVE  FALSE
  OBVIOUS
<1>0. Len(s) \in Nat
  BY StepFacts
<1> DEFINE n == m + 1
<1>1. n \in i .. j /\ n \in 1 .. Len(s) /\ n - 1 = m /\ n \in i - 1 .. j
  BY <1>0
<1> HIDE DEF n
<1>2. AtBase(R, i, n)
  BY <1>1 DEF AtBase
<1>3. Fits(s, R, 1, n) /\ Height(R[n]) >= Height(R[n - 1])
  BY <1>1, <1>2 DEF Spans
<1>4. R[n].want # "nothing"
  BY <1>1, SpanAlive
<1>5. s[n] \in OperatorTokens
  <2>1. R[n - 1].want = "operator" /\ s[n] # "comma"
    BY <1>1, <1>3 DEF Fits
  <2> QED
    BY <1>1, <1>3, <1>4, <2>1, AfterOperand
<1>6. OperatorLevel(s, R, n) \in 2 .. 1
  BY <1>3, <1>5 DEF Fits
<1> QED
  BY <1>6

\* A range with no operator outside brackets that begins with a parenthesis is a group.
LEMMA GroupComplete ==
  ASSUME NEW s \in Seq(Tokens), NEW i \in 1 .. Len(s), NEW j \in 1 .. Len(s), i =< j,
         CompleteWithin(s, 1, i, j),
         Reading(s)[i - 1].want = "operand", Spans(s, Reading(s), 1, i, j), s[i] = "("
  PROVE  Some(s, 1, i, j)
<1> DEFINE R == Reading(s)
           d == Expression(s)
<1>0. Len(s) \in Nat /\ ReadsTo(R, s, Len(s))
  BY ReadingFacts
<1> HIDE DEF R
<1>1. /\ R[i - 1].want = "operand" /\ Spans(s, R, 1, i, j)
      /\ R[j].want = "operator" /\ R[j].open = R[i - 1].open
      /\ \A n \in i .. j : Height(R[n]) >= Height(R[i - 1])
  BY DEF R, Spans
<1>2. R[i] = Opened(R[i - 1], "group") /\ R[i].want = "operand"
  <2>1. R[i] = Opened(R[i - 1], "group")
    BY <1>0, <1>1, OpenStep
  <2> QED
    BY <2>1 DEF Opened
<1>3. Height(R[j]) = Height(R[i - 1]) /\ R[j].want # "nothing"
  BY <1>1 DEF Height
<1>4. PICK m \in 1 .. Len(s) :
         /\ i < m /\ m =< j /\ Height(R[m]) = Height(R[i - 1])
         /\ Closes(R[m - 1], s[m], R[m]) /\ R[m - 1].open = R[i].open
         /\ \A n \in i .. m - 1 : Height(R[n]) >= Height(R[i])
  BY <1>0, <1>1, <1>2, <1>3, BracketCloses
<1>5. m = j
  <2>1. m \in i .. j /\ R[m].want = "operator"
    BY <1>0, <1>4 DEF Closes
  <2> QED
    BY <1>0, <1>1, <1>4, <2>1, NothingAfter
<1>6. R[i].open[Height(R[i])] = "group" /\ Height(R[i]) > 0
  <2> DEFINE q == R[i - 1]
  <2>1. q \in ReadingStates /\ Height(q) \in Nat
    BY <1>0, StepAt
  <2>2. R[i] = Opened(q, "group")
    BY <1>2
  <2> HIDE DEF q
  <2>3. Height(R[i]) = Height(q) + 1 /\ R[i].open[Height(q) + 1] = "group"
    BY <2>1, <2>2, OpenedFacts
  <2> QED
    BY <2>1, <2>3
<1>7. ASSUME NEW q \in ReadingStates, q.open = R[i].open
      PROVE  ~InCall(q)
  <2>1. Height(q) = Height(R[i])
    BY <1>7 DEF Height
  <2> QED
    BY <1>6, <1>7, <2>1, StateFacts
<1>8. R[j - 1].want = "operator" /\ s[j] = ")"
  <2>1. R[j - 1] \in ReadingStates
    BY <1>0, StepAt
  <2>2. ~InCall(R[j - 1])
    BY <1>4, <1>5, <1>7, <2>1
  <2>3. R[j - 1].closable # TRUE
    BY <2>1, <2>2, StateFacts DEF Closable
  <2> QED
    BY <1>4, <1>5, <2>3 DEF Closes
<1>9. Some(s, 13, i + 1, j - 1)
  <2> DEFINE a == i + 1
             b == j - 1
  <2>1. /\ a \in 1 .. Len(s) + 1 /\ a - 1 = i /\ b \in 0 .. Len(s) /\ a =< b + 1
        /\ b + 1 = j /\ i =< b /\ i \in 0 .. Len(s)
    BY <1>0, <1>4, <1>5
  <2>2. R[b].want = "operator" /\ R[b].open = R[i].open /\ \A n \in i .. b : Height(R[n]) >= Height(R[i])
    BY <1>4, <1>5, <1>8
  <2>3. Within(13, a, b, 1, i, j)
    BY <1>0 DEF Within
  <2> HIDE DEF a, b
  <2>4. i # b
    BY <1>2, <2>2
  <2>5. a =< b /\ a \in 1 .. Len(s) /\ b \in 1 .. Len(s) /\ R[a - 1] = R[i] /\ \A n \in a .. b : n \in i .. b
    BY <1>0, <2>1, <2>4
  <2>6. \A n \in a .. b : Height(R[n]) >= Height(R[a - 1])
    BY <2>2, <2>5
  <2>7. Height(R[b]) = Height(R[a - 1]) /\ R[b].want # "nothing"
    BY <2>2, <2>5 DEF Height
  <2>8. ASSUME NEW n \in a .. b, AtBase(R, a, n), s[n] = "comma"
        PROVE  FALSE
    <3> DEFINE c == n - 1
    <3>1. /\ n \in 1 .. Len(s) /\ n \in 0 .. b /\ c \in 0 .. Len(s) /\ i =< c /\ c \in 0 .. b
          /\ \A k \in i .. c : k \in i .. b
      BY <1>0, <2>1, <2>5
    <3>2. R[n].want # "nothing"
      BY <1>0, <2>1, <2>7, <3>1, Alive
    <3>3. Stays(R[c], s[n], R[n])
      <4>1. Stays(R[n - 1], s[n], R[n]) \/ Opens(R[n - 1], s[n], R[n]) \/ Closes(R[n - 1], s[n], R[n])
        BY <1>0, <3>1, <3>2, TurnAt
      <4> QED
        BY <2>8, <4>1 DEF Opens, Closes
    <3>4. Height(R[c]) = Height(R[i])
      BY <2>5, <2>8 DEF AtBase
    <3> HIDE DEF c
    <3>5. InCall(R[c])
      BY <2>8, <3>3, TokensApart DEF Stays, Brackets
    <3>6. R[c].want # "nothing"
      BY <1>0, <2>1, <2>7, <3>1, Alive
    <3>7. \A k \in i .. c : Height(R[k]) >= Height(R[i])
      BY <2>2, <3>1
    <3>8. R[c].open = R[i].open
      BY <1>0, <2>1, <3>1, <3>4, <3>6, <3>7, Stable
    <3>9. R[c] \in ReadingStates
      BY <1>0, <3>1, StepFacts
    <3> QED
      BY <1>7, <3>5, <3>8, <3>9
  <2>9. Spans(s, R, 13, a, b)
    BY <1>0, <2>2, <2>5, <2>6, <2>7, <2>8, BaseSpans
  <2>10. R[a - 1].want = "operand"
    BY <1>2, <2>5
  <2>11. Some(s, 13, a, b)
    <3>1. 13 \in 1 .. 13
      OBVIOUS
    <3> QED
      BY <2>1, <2>3, <2>5, <2>9, <2>10, <3>1, CompleteExpression DEF R
  <2> QED
    BY <2>11 DEF a, b
<1>10. PICK e \in d[Place(13, i + 1, j - 1)] : TRUE
  BY <1>9 DEF Some
<1>11. e \in Term(d, s, i, j)
  BY <1>8, <1>10, TermMembers
<1> QED
  BY <1>11, SomeOf

\* A range with no operator outside brackets that begins with a name is a call.
LEMMA CallComplete ==
  ASSUME NEW s \in Seq(Tokens), NEW i \in 1 .. Len(s), NEW j \in 1 .. Len(s), i =< j,
         CompleteWithin(s, 1, i, j),
         Reading(s)[i - 1].want = "operand", Spans(s, Reading(s), 1, i, j), s[i] \in NameTokens
  PROVE  Some(s, 1, i, j)
<1> DEFINE R == Reading(s)
           d == Expression(s)
           o == i + 1
<1>0. Len(s) \in Nat /\ ReadsTo(R, s, Len(s))
  BY ReadingFacts
<1> HIDE DEF R
<1>1. /\ R[i - 1].want = "operand" /\ Spans(s, R, 1, i, j)
      /\ R[j].want = "operator" /\ R[j].open = R[i - 1].open
      /\ \A n \in i .. j : Height(R[n]) >= Height(R[i - 1])
  BY DEF R, Spans
<1>2. R[i].want = "call" /\ Height(R[i]) = Height(R[i - 1])
  BY <1>0, <1>1, NameStep
<1>3. i # j
  BY <1>1, <1>2
<1>4. /\ o \in 1 .. Len(s) /\ o =< j /\ o - 1 = i /\ o \in i - 1 .. j
      /\ \A n \in o .. j : n \in i .. j
  BY <1>0, <1>3
<1> HIDE DEF o
<1>5. s[o] = "(" /\ R[o] = Opened(R[o - 1], "call")
  <2>1. R[o].want # "nothing"
    BY <1>0, <1>1, <1>4, SpanAlive
  <2>2. Stays(R[o - 1], s[o], R[o]) \/ Opens(R[o - 1], s[o], R[o]) \/ Closes(R[o - 1], s[o], R[o])
    BY <1>0, <1>4, <2>1, TurnAt
  <2>3. R[o - 1].want = "call"
    BY <1>2, <1>4
  <2> QED
    BY <2>2, <2>3 DEF Stays, Opens, Closes
<1>6. Height(R[j]) = Height(R[o - 1]) /\ R[j].want # "nothing" /\ \A n \in o .. j : Height(R[n]) >= Height(R[o - 1])
  BY <1>1, <1>2, <1>4 DEF Height
<1>7. PICK m \in 1 .. Len(s) :
         /\ o < m /\ m =< j /\ Height(R[m]) = Height(R[o - 1])
         /\ Closes(R[m - 1], s[m], R[m]) /\ R[m - 1].open = R[o].open
         /\ \A n \in o .. m - 1 : Height(R[n]) >= Height(R[o])
  BY <1>0, <1>4, <1>5, <1>6, BracketCloses
<1>8. m = j
  <2>1. m \in i .. j
    BY <1>0, <1>4, <1>7
  <2>2. R[m].want = "operator"
    BY <1>7 DEF Closes
  <2>3. Height(R[m]) = Height(R[i - 1])
    BY <1>2, <1>4, <1>7
  <2> QED
    BY <1>0, <1>1, <2>1, <2>2, <2>3, NothingAfter
<1>9. s[j] = ")" /\ (R[j - 1].closable = TRUE \/ R[j - 1].want = "operator") /\ R[j - 1].open = R[o].open
  BY <1>7, <1>8 DEF Closes
<1>10. R[o].closable = TRUE
  <2> DEFINE q == R[o - 1]
  <2>1. q \in ReadingStates /\ R[o] = Opened(q, "call")
    BY <1>0, <1>4, <1>5, StepAt
  <2> HIDE DEF q
  <2> QED
    BY <2>1, OpenedFacts
<1>11. Some(s, 14, i + 2, j - 1)
  <2> DEFINE a == i + 2
             b == j - 1
  <2>1. /\ a \in 1 .. Len(s) + 1 /\ a - 1 = o /\ b \in 0 .. Len(s) /\ a =< b + 1
        /\ \A n \in a .. b : n \in o .. j - 1
    BY <1>0, <1>7, <1>8 DEF o
  <2>2. Within(14, a, b, 1, i, j)
    BY <1>0 DEF Within
  <2>3. /\ R[b].open = R[o].open
        /\ R[b].closable = TRUE \/ R[b].want = "operator"
    BY <1>9
  <2> HIDE DEF a, b
  <2>4. \A n \in a .. b : Height(R[n]) >= Height(R[o])
    BY <1>7, <1>8, <2>1
  <2>5. SpansList(R, a, b)
    BY <2>1, <2>3, <2>4 DEF SpansList
  <2>6. R[a - 1].closable = TRUE
    BY <1>10, <2>1
  <2>7. Some(s, 14, a, b)
    BY <2>1, <2>2, <2>5, <2>6, CompleteList DEF R
  <2> QED
    BY <2>7 DEF a, b
<1>12. PICK args \in d[Place(14, i + 2, j - 1)] : TRUE
  BY <1>11 DEF Some
<1>13. PICK func \in Under(FunctionRules, s[i]) : TRUE
  BY UnderFacts
<1>14. ~(j < i + 2)
  BY <1>0, <1>7, <1>8 DEF o
<1>15. Tree("function", func, i, args) \in FunctionCall(d, s, i, j)
  BY <1>5, <1>9, <1>12, <1>13, <1>14, CallMembers DEF o
<1>16. Tree("function", func, i, args) \in Term(d, s, i, j)
  BY <1>15, TermMembers
<1> QED
  BY <1>16, SomeOf

\* A range with no operator outside brackets is a term.
LEMMA TermComplete ==
  ASSUME NEW s \in Seq(Tokens), NEW i \in 1 .. Len(s), NEW j \in 1 .. Len(s), i =< j,
         CompleteWithin(s, 1, i, j),
         Reading(s)[i - 1].want = "operand", Spans(s, Reading(s), 1, i, j)
  PROVE  Some(s, 1, i, j)
<1> DEFINE R == Reading(s)
           d == Expression(s)
<1>0. Len(s) \in Nat /\ ReadsTo(R, s, Len(s))
  BY ReadingFacts
<1> HIDE DEF R
<1>1. R[i - 1].want = "operand" /\ Spans(s, R, 1, i, j)
  BY DEF R
<1>2. R[i].want # "nothing"
  <2>1. i \in i - 1 .. j
    BY <1>0
  <2> QED
    BY <1>0, <1>1, <2>1, SpanAlive
<1>3. Stays(R[i - 1], s[i], R[i]) \/ Opens(R[i - 1], s[i], R[i]) \/ Closes(R[i - 1], s[i], R[i])
  BY <1>0, <1>2, TurnAt
<1>4. Height(R[i]) >= Height(R[i - 1]) /\ Height(R[i - 1]) \in Nat
  <2>1. i \in i .. j
    BY <1>0
  <2>2. Height(R[i - 1]) \in Nat
    BY <1>0, StepAt
  <2> QED
    BY <1>1, <2>1, <2>2 DEF Spans
<1>5. ~Closes(R[i - 1], s[i], R[i])
  BY <1>4 DEF Closes
<1>6. s[i] \notin PrefixTokens
  <2> SUFFICES ASSUME s[i] \in PrefixTokens
               PROVE  FALSE
    OBVIOUS
  <2>1. i \in i .. j /\ AtBase(R, i, i)
    BY <1>0 DEF AtBase
  <2>2. s[i] \in OperatorTokens
    BY DEF OperatorTokens
  <2>3. OperatorLevel(s, R, i) \in 2 .. 1
    BY <1>1, <2>1, <2>2 DEF Spans, Fits
  <2> QED
    BY <2>3
<1>7. CASE s[i] \in LeafTokens
  <2>1. R[i].want = "operator" /\ Height(R[i]) = Height(R[i - 1])
    BY <1>0, <1>1, <1>7, LeafStep
  <2>2. i \in i .. j
    BY <1>0
  <2>3. i = j
    BY <1>0, <1>1, <2>1, <2>2, NothingAfter
  <2>4. PICK kind \in Under(LeafRules, s[i]) : TRUE
    BY <1>7, UnderFacts
  <2>5. Tree(kind, "none", i, <<>>) \in Term(d, s, i, j)
    BY <2>3, <2>4, TermMembers
  <2> QED
    BY <2>5, SomeOf
<1>8. CASE s[i] \in NameTokens
  BY <1>1, <1>8, CallComplete DEF R
<1>9. CASE s[i] = "("
  BY <1>1, <1>9, GroupComplete DEF R
<1>10. s[i] \in LeafTokens \/ s[i] \in NameTokens \/ s[i] = "("
  BY <1>1, <1>3, <1>5, <1>6 DEF Stays, Opens
<1> QED
  BY <1>7, <1>8, <1>9, <1>10

\* The arguments of a call end with the last of them or a comma.
LEMMA ListEnds ==
  ASSUME NEW s \in Seq(Tokens), NEW R, ReadsTo(R, s, Len(s)),
         NEW i \in 1 .. Len(s), NEW j \in 1 .. Len(s), i =< j, SpansList(R, i, j), R[j].closable = TRUE
  PROVE  AtBase(R, i, j) /\ s[j] = "comma"
<1>0. Len(s) \in Nat /\ R[j] \in ReadingStates
  BY StepFacts, StepAt
<1>1. R[j].want = "operand"
  BY <1>0, StateFacts DEF Closable
<1>2. Height(R[j]) = Height(R[i - 1]) /\ \A n \in i .. j : Height(R[n]) >= Height(R[i - 1])
  BY DEF SpansList, Height
<1>3. Stays(R[j - 1], s[j], R[j]) \/ Opens(R[j - 1], s[j], R[j]) \/ Closes(R[j - 1], s[j], R[j])
  <2>1. R[j].want # "nothing"
    BY <1>1
  <2> QED
    BY <2>1, TurnAt
<1>4. Height(R[j - 1]) >= Height(R[i - 1]) /\ Height(R[j - 1]) \in Nat /\ Height(R[i - 1]) \in Nat
  <2>1. j - 1 = i - 1 \/ j - 1 \in i .. j
    BY <1>0
  <2>2. Height(R[j - 1]) \in Nat /\ Height(R[i - 1]) \in Nat
    BY StepAt
  <2>3. CASE j - 1 = i - 1
    BY <2>2, <2>3
  <2>4. CASE j - 1 \in i .. j
    BY <1>2, <2>2, <2>4
  <2> QED
    BY <2>1, <2>2, <2>3, <2>4
<1>5. ~Opens(R[j - 1], s[j], R[j])
  <2> SUFFICES ASSUME Height(R[j]) = Height(R[j - 1]) + 1
               PROVE  FALSE
    BY DEF Opens
  <2> QED
    BY <1>2, <1>4
<1>6. ~Closes(R[j - 1], s[j], R[j])
  BY <1>1 DEF Closes
<1>7. Stays(R[j - 1], s[j], R[j])
  BY <1>3, <1>5, <1>6
<1>8. s[j] = "comma"
  BY <1>1, <1>7 DEF Stays
<1>9. AtBase(R, i, j)
  BY <1>2, <1>7 DEF Stays, AtBase
<1> QED
  BY <1>8, <1>9

\* A range that reads as a list is derived as one.
LEMMA ListComplete ==
  ASSUME NEW s \in Seq(Tokens), NEW i \in 1 .. Len(s), NEW j \in 1 .. Len(s), i =< j,
         CompleteWithin(s, 14, i, j),
         Reading(s)[i - 1].closable = TRUE, SpansList(Reading(s), i, j)
  PROVE  Some(s, 14, i, j)
<1> DEFINE R == Reading(s)
           d == Expression(s)
           S == {n \in i .. j : AtBase(R, i, n) /\ s[n] = "comma"}
<1>0. /\ Len(s) \in Nat /\ ReadsTo(R, s, Len(s)) /\ ~(i > j)
      /\ 13 \in 1 .. 13 /\ i \in 1 .. Len(s) + 1 /\ j \in 0 .. Len(s)
  BY ReadingFacts
<1> HIDE DEF R
<1>1. /\ R[i - 1].closable = TRUE /\ SpansList(R, i, j)
      /\ R[j].open = R[i - 1].open /\ Height(R[j]) = Height(R[i - 1])
      /\ R[j].closable = TRUE \/ R[j].want = "operator"
      /\ \A n \in i .. j : Height(R[n]) >= Height(R[i - 1])
  BY DEF R, SpansList, Height
<1>2. /\ R[i - 1] \in ReadingStates /\ R[i - 1].want = "operand" /\ Height(R[i - 1]) \in Nat
      /\ R[j] \in ReadingStates
  BY <1>0, <1>1, StepAt, StateFacts DEF Closable
<1>3. R[j].want # "nothing"
  BY <1>1, <1>2, StateFacts DEF Closable
<1>4. d[Place(14, i, j)] = ExpressionList(d, s, i, j)
  <2>1. 14 \in 1 .. 14
    OBVIOUS
  <2>2. d[Place(14, i, j)] = Derives(d, s, 14, i, j)
    BY <1>0, <2>1, ExpressionFacts
  <2> QED
    BY <2>2 DEF Derives, Arguments, Loosest
<1>5. CASE S = {}
  <2>1. \A n \in i .. j : AtBase(R, i, n) => s[n] # "comma"
    BY <1>5
  <2>2. R[j].want = "operator"
    <3>1. j \in i .. j
      BY <1>0
    <3>2. R[j].closable # TRUE
      BY <1>0, <1>1, <2>1, <3>1, ListEnds
    <3> QED
      BY <1>1, <3>2
  <2>3. Spans(s, R, 13, i, j)
    BY <1>0, <1>1, <2>1, <2>2, BaseSpans
  <2>4. Within(13, i, j, 14, i, j)
    BY <1>0 DEF Within
  <2>5. Some(s, 13, i, j)
    BY <1>0, <1>2, <2>3, <2>4, CompleteExpression DEF R
  <2>6. PICK e \in d[Place(13, i, j)] : TRUE
    BY <2>5 DEF Some
  <2>7. e \in ExpressionList(d, s, i, j)
    BY <1>0, <2>6, ListMembers
  <2> QED
    BY <1>4, <2>7 DEF Some
<1>6. CASE S # {}
  <2>1. S \in SUBSET Nat
    BY <1>0
  <2>2. PICK k \in S : \A n \in S : k =< n
    BY <1>6, <2>1, LeastNumber
  <2>3. /\ k \in i .. j /\ k \in 1 .. Len(s) /\ AtBase(R, i, k) /\ s[k] = "comma" /\ k \in 0 .. j
        /\ \A n \in i .. j : AtBase(R, i, n) /\ s[n] = "comma" => k =< n
    BY <1>0, <2>2
  <2> HIDE DEF S
  <2>4. R[k].want # "nothing"
    BY <1>0, <1>3, <2>3, Alive
  <2>5. Stays(R[k - 1], s[k], R[k]) \/ Opens(R[k - 1], s[k], R[k]) \/ Closes(R[k - 1], s[k], R[k])
    BY <1>0, <2>3, <2>4, TurnAt
  <2>6. Stays(R[k - 1], s[k], R[k])
    BY <2>3, <2>5 DEF Opens, Closes
  <2>7. /\ R[k - 1].want = "operator" /\ InCall(R[k - 1]) /\ R[k].closable = TRUE
        /\ R[k].open = R[k - 1].open /\ Height(R[k]) = Height(R[k - 1])
    BY <2>3, <2>6, TokensApart DEF Stays, Brackets
  <2>8. i < k
    <3>1. i # k
      BY <1>2, <2>7
    <3> QED
      BY <1>0, <2>3, <3>1
  <2>9. Height(R[k - 1]) = Height(R[i - 1])
    BY <2>3 DEF AtBase
  <2>10. Some(s, 13, i, k - 1) /\ R[k - 1].open = R[i - 1].open
    <3> DEFINE b == k - 1
    <3>1. /\ b \in 1 .. Len(s) /\ b \in 0 .. Len(s) /\ i =< b
          /\ \A n \in i .. b : n \in i .. j /\ ~(k =< n)
      BY <1>0, <2>3, <2>8
    <3>2. Within(13, i, b, 14, i, j)
      BY <1>0, <2>3 DEF Within
    <3>3. R[b].want = "operator" /\ Height(R[b]) = Height(R[i - 1])
      BY <2>7, <2>9
    <3> HIDE DEF b
    <3>4. \A n \in i .. b : AtBase(R, i, n) => s[n] # "comma"
      BY <2>3, <3>1
    <3>5. \A n \in i .. b : Height(R[n]) >= Height(R[i - 1])
      BY <1>1, <3>1
    <3>6. Spans(s, R, 13, i, b)
      BY <1>0, <3>1, <3>3, <3>4, <3>5, BaseSpans
    <3>7. Some(s, 13, i, b)
      BY <1>0, <1>2, <3>1, <3>2, <3>6, CompleteExpression DEF R
    <3>8. R[b].open = R[i - 1].open
      BY <3>6 DEF Spans
    <3> QED
      BY <3>7, <3>8 DEF b
  <2>11. Some(s, 14, k + 1, j)
    <3> DEFINE a == k + 1
    <3>1. /\ a \in 1 .. Len(s) + 1 /\ a =< j + 1 /\ a - 1 = k
          /\ \A n \in a .. j : n \in i .. j
      BY <1>0, <2>3
    <3>2. Within(14, a, j, 14, i, j)
      BY <1>0, <2>3 DEF Within
    <3> HIDE DEF a
    <3>3. R[j].open = R[a - 1].open /\ Height(R[a - 1]) = Height(R[i - 1]) /\ R[a - 1].closable = TRUE
      BY <1>1, <2>7, <2>9, <2>10, <3>1
    <3>4. SpansList(R, a, j)
      BY <1>1, <3>1, <3>3 DEF SpansList
    <3>5. Some(s, 14, a, j)
      BY <1>0, <3>1, <3>2, <3>3, <3>4, CompleteList DEF R
    <3> QED
      BY <3>5 DEF a
  <2>12. PICK e \in d[Place(13, i, k - 1)] : TRUE
    BY <2>10 DEF Some
  <2>13. PICK rest \in d[Place(14, k + 1, j)] : TRUE
    BY <2>11 DEF Some
  <2>14. SplitAt(d, i, k, j, e \o rest)
    BY <2>12, <2>13 DEF SplitAt
  <2>15. k \in i + 1 .. j
    BY <1>0, <2>3, <2>8
  <2>16. e \o rest \in ExpressionList(d, s, i, j)
    BY <1>0, <2>3, <2>14, <2>15, ListMembers
  <2> QED
    BY <1>4, <2>16 DEF Some
<1> QED
  BY <1>5, <1>6

\* A place derives a tree of what reads as one operand, or list, if lighter places do.
LEMMA CompleteStep ==
  ASSUME NEW s \in Seq(Tokens),
         NEW level \in 1 .. 14, NEW i \in 1 .. Len(s) + 1, NEW j \in 0 .. Len(s),
         i =< j => CompleteWithin(s, level, i, j)
  PROVE  CompleteAt(s, level, i, j)
<1>0. Len(s) \in Nat
  OBVIOUS
<1>1. CASE i > j
  <2>1. ~(i =< j)
    BY <1>0, <1>1
  <2>2. CASE level = 14
    <3>1. Expression(s)[Place(14, i, j)] = Derives(Expression(s), s, 14, i, j)
      BY <2>2, ExpressionFacts
    <3>2. Derives(Expression(s), s, 14, i, j) = ExpressionList(Expression(s), s, i, j)
      BY DEF Derives, Arguments, Loosest
    <3>3. ExpressionList(Expression(s), s, i, j) = {<<>>}
      BY <1>1, EmptyList
    <3> QED
      BY <2>2, <3>1, <3>2, <3>3 DEF CompleteAt, Some
  <2> QED
    BY <2>1, <2>2 DEF CompleteAt
<1>2. CASE ~(i > j)
  <2>1. i =< j /\ i \in 1 .. Len(s) /\ j \in 1 .. Len(s)
    BY <1>0, <1>2
  <2>2. CASE level = 14
    BY <2>1, <2>2, ListComplete DEF CompleteAt
  <2>3. CASE level = 1
    BY <2>1, <2>3, TermComplete DEF CompleteAt
  <2>4. CASE level # 14 /\ level # 1
    <3>1. level \in 2 .. 13
      BY <2>4
    <3> QED
      BY <2>1, <2>4, <3>1, OperationComplete DEF CompleteAt
  <2> QED
    BY <2>2, <2>3, <2>4
<1> QED
  BY <1>1, <1>2

\* Whatever reads as one operand, or list, is derived.
LEMMA Complete ==
  ASSUME NEW s \in Seq(Tokens)
  PROVE  \A level \in 1 .. 14, i \in 1 .. Len(s) + 1, j \in 0 .. Len(s) : CompleteAt(s, level, i, j)
<1> DEFINE G == {p \in Places(s) : CompleteAt(s, p[1], p[2], p[3])}
<1>1. \A level \in 1 .. 14, i \in 1 .. Len(s) + 1, j \in 0 .. Len(s) :
         Place(level, i, j) \in G <=> CompleteAt(s, level, i, j)
  <2>1. \A level \in 1 .. 14, i \in 1 .. Len(s) + 1, j \in 0 .. Len(s) : Place(level, i, j) \in Places(s)
    BY WeightFacts
  <2> QED
    BY <2>1 DEF Place
<1> HIDE DEF G
<1>2. \A level \in 1 .. 14, i \in 1 .. Len(s) + 1, j \in 0 .. Len(s) :
         (i =< j => \A level2 \in 1 .. 14, i2 \in 1 .. Len(s) + 1, j2 \in 0 .. Len(s) :
                       Within(level2, i2, j2, level, i, j) => Place(level2, i2, j2) \in G)
         => Place(level, i, j) \in G
  BY <1>1, CompleteStep DEF CompleteWithin
<1>3. \A level \in 1 .. 14, i \in 1 .. Len(s) + 1, j \in 0 .. Len(s) : Place(level, i, j) \in G
  BY <1>2, SpanInduction
<1> QED
  BY <1>1, <1>3

-----------------------------------------------------------------------------
(* Whole texts.                                                            *)

\* A text parses exactly if the reading of it ends as one operand does.
LEMMA WholeFacts ==
  ASSUME NEW s \in Seq(Tokens)
  PROVE  /\ Reading(s)[0].want = "operand" /\ Height(Reading(s)[0]) = 0
         /\ \A n \in 1 .. Len(s) : AtBase(Reading(s), 1, n) <=> Reading(s)[n - 1].open = <<>>
         /\ \A t \in Parses(s) : 1 =< Len(s) /\ Spans(s, Reading(s), 13, 1, Len(s))
         /\ ReadsToEnd(s) => 1 =< Len(s) /\ Spans(s, Reading(s), 13, 1, Len(s))
         /\ 1 =< Len(s) /\ Spans(s, Reading(s), 13, 1, Len(s)) => ReadsToEnd(s) /\ Parses(s) # {}
         /\ \A t, u \in Parses(s) : t = u
<1> DEFINE R == Reading(s)
           j == Len(s)
<1>0. j \in Nat /\ ReadsTo(R, s, j) /\ R[0] = Start /\ 1 - 1 = 0
  BY ReadingFacts, StepFacts
<1>1. R[0].want = "operand" /\ R[0].open = <<>> /\ Height(R[0]) = 0
  BY <1>0 DEF Start, Height
<1>2. \A q \in ReadingStates : Height(q) = 0 <=> q.open = <<>>
  BY StateFacts DEF Height
<1>3. \A n \in 1 .. j : R[n - 1] \in ReadingStates
  BY <1>0, StepFacts
<1>4. \A n \in 1 .. j : AtBase(R, 1, n) <=> R[n - 1].open = <<>>
  BY <1>0, <1>1, <1>2, <1>3 DEF AtBase
<1>5. Parses(s) = Expression(s)[Place(13, 1, j)]
  BY DEF Parses, Loosest
<1>6. 1 \in 1 .. j + 1 /\ j \in 0 .. j /\ 13 \in 1 .. 13 /\ 13 \in 1 .. 14 /\ 13 # 14
  BY <1>0
<1>7. ASSUME NEW t \in Parses(s)
      PROVE  1 =< j /\ Spans(s, R, 13, 1, j)
  <2>1. R[1 - 1].want = "operand"
    BY <1>0, <1>1
  <2> QED
    BY <1>5, <1>6, <1>7, <2>1, ExpressionSpans
<1>8. ASSUME ReadsToEnd(s)
      PROVE  1 =< j /\ Spans(s, R, 13, 1, j)
  <2>1. R[j].want = "operator" /\ R[j].open = <<>>
    BY <1>8 DEF ReadsToEnd
  <2>2. j # 0
    BY <1>1, <2>1
  <2>3. 1 =< j /\ 1 \in 1 .. j /\ j \in 1 .. j
    BY <1>0, <2>2
  <2>4. Height(R[j]) = Height(R[1 - 1])
    BY <1>0, <1>1, <2>1 DEF Height
  <2>5. \A n \in 1 .. j : Height(R[n]) >= Height(R[1 - 1])
    <3>1. \A n \in 1 .. j : Height(R[n]) \in Nat
      BY <1>0, StepFacts
    <3> QED
      BY <1>0, <1>1, <3>1
  <2>6. ASSUME NEW n \in 1 .. j, AtBase(R, 1, n), s[n] = "comma"
        PROVE  FALSE
    <3>1. n \in 0 .. j /\ R[j].want # "nothing"
      BY <1>0, <2>1
    <3>2. R[n].want # "nothing"
      BY <1>0, <1>6, <3>1, Alive
    <3>3. Stays(R[n - 1], s[n], R[n]) \/ Opens(R[n - 1], s[n], R[n]) \/ Closes(R[n - 1], s[n], R[n])
      BY <1>0, <3>2, TurnAt
    <3>4. InCall(R[n - 1])
      BY <2>6, <3>3, TokensApart DEF Stays, Opens, Closes, Brackets
    <3>5. R[n - 1].open # <<>>
      BY <3>4 DEF InCall
    <3> QED
      BY <1>4, <2>6, <3>5
  <2> HIDE DEF R, j
  <2>7. Spans(s, R, 13, 1, j)
    BY <1>0, <2>1, <2>3, <2>4, <2>5, <2>6, BaseSpans DEF j
  <2> QED
    BY <2>3, <2>7
<1>9. ASSUME 1 =< j, Spans(s, R, 13, 1, j)
      PROVE  ReadsToEnd(s) /\ Parses(s) # {}
  <2>1. R[j].want = "operator" /\ R[j].open = <<>>
    BY <1>0, <1>1, <1>9 DEF Spans
  <2>2. CompleteAt(s, 13, 1, j)
    BY <1>6, Complete
  <2>3. R[1 - 1].want = "operand"
    BY <1>0, <1>1
  <2>4. Some(s, 13, 1, j)
    BY <1>6, <1>9, <2>2, <2>3 DEF CompleteAt
  <2> QED
    BY <1>5, <2>1, <2>4 DEF Some, ReadsToEnd
<1>10. \A t, u \in Parses(s) : t = u
  <2>1. UniqueAt(s, 13, 1, j)
    BY <1>6, Unique
  <2>2. R[1 - 1].want = "operand"
    BY <1>0, <1>1
  <2> QED
    BY <1>5, <1>6, <2>1, <2>2 DEF UniqueAt, OneAt
<1> HIDE DEF R, j
<1>11. /\ R[0].want = "operand" /\ Height(R[0]) = 0
       /\ \A n \in 1 .. j : AtBase(R, 1, n) <=> R[n - 1].open = <<>>
       /\ \A t \in Parses(s) : 1 =< j /\ Spans(s, R, 13, 1, j)
       /\ ReadsToEnd(s) => 1 =< j /\ Spans(s, R, 13, 1, j)
       /\ 1 =< j /\ Spans(s, R, 13, 1, j) => ReadsToEnd(s) /\ Parses(s) # {}
       /\ \A t, u \in Parses(s) : t = u
  BY <1>1, <1>4, <1>7, <1>8, <1>9, <1>10
<1> QED
  BY <1>11 DEF R, j

\* A text has one tree if operands and operators alternate and brackets match, otherwise none.
LEMMA ParseCount ==
  ASSUME NEW s \in Seq(Tokens)
  PROVE  Cardinality(Parses(s)) = IF ReadsToEnd(s) THEN 1 ELSE 0
<1>1. CASE ReadsToEnd(s)
  <2>1. PICK t \in Parses(s) : TRUE
    BY <1>1, WholeFacts
  <2>2. Parses(s) = {t}
    BY <2>1, WholeFacts
  <2> QED
    BY <1>1, <2>2, FS_Singleton
<1>2. CASE ~ReadsToEnd(s)
  <2>1. Parses(s) = {}
    BY <1>2, WholeFacts
  <2> QED
    BY <1>2, <2>1, FS_EmptySet
<1> QED
  BY <1>1, <1>2

-----------------------------------------------------------------------------
(* Forests.                                                                *)

TreeOps == UNION {{"none"}, UnaryOps, BinaryOps, Funcs}

TreeNodes == [kind : Kinds, op : TreeOps, depth : Nat, at : Nat]

\* A node that the rules make: its operator is of its kind.
Sorted(x) ==
    /\ x.kind # "error"
    /\ x.kind = "unary" => x.op \in UnaryOps
    /\ x.kind = "binary" => x.op \in BinaryOps
    /\ x.kind = "function" => x.op \in Funcs

\* m is a child of n: the nodes between them are below n.
IsChild(f, n, m) ==
    /\ m \in n + 1 .. Len(f) /\ f[m].depth = f[n].depth + 1
    /\ \A k \in n + 1 .. m : f[k].depth > f[n].depth

NoChild(f, n) == \A m \in Int : ~IsChild(f, n, m)
OneChild(f, n) == \E a \in Int : \A m \in Int : IsChild(f, n, m) <=> m = a
TwoChildren(f, n) == \E a, b \in Int : a # b /\ \A m \in Int : IsChild(f, n, m) <=> m = a \/ m = b

\* A node has as many children as its kind owns.
Owns(f, n) ==
    /\ f[n].kind \in LeafKinds => NoChild(f, n)
    /\ f[n].kind = "unary" => OneChild(f, n)
    /\ f[n].kind = "binary" => TwoChildren(f, n)

\* A sequence of trees: a node is at most one level below the one before it.
Forest(f) ==
    /\ f \in Seq(TreeNodes)
    /\ \A n \in 1 .. Len(f) : Sorted(f[n]) /\ f[n].depth < n /\ Owns(f, n)
    /\ \A n \in 2 .. Len(f) : f[n].depth =< f[n - 1].depth + 1

OneTree(f) == Forest(f) /\ Len(f) > 0 /\ \A n \in 2 .. Len(f) : f[n].depth > 0

\* A node that has the children of another one, moved, owns as many.
LEMMA MovedOwns ==
  ASSUME NEW f, NEW n, NEW g, NEW n2, NEW by \in Int, g[n2].kind = f[n].kind,
         \A m \in Int : IsChild(g, n2, m) <=> IsChild(f, n, m - by), Owns(f, n)
  PROVE  Owns(g, n2)
<1>1. \A m \in Int : m - by \in Int /\ m + by \in Int /\ (m - by) + by = m /\ (m + by) - by = m
  OBVIOUS
<1>2. NoChild(f, n) => NoChild(g, n2)
  BY <1>1 DEF NoChild
<1>3. ASSUME OneChild(f, n)
      PROVE  OneChild(g, n2)
  <2>1. PICK a \in Int : \A m \in Int : IsChild(f, n, m) <=> m = a
    BY <1>3 DEF OneChild
  <2>2. \A m \in Int : IsChild(g, n2, m) <=> m = a + by
    <3> TAKE m \in Int
    <3>1. IsChild(g, n2, m) <=> m - by = a
      BY <2>1
    <3> QED
      BY <3>1
  <2> QED
    BY <1>1, <2>2 DEF OneChild
<1>4. ASSUME TwoChildren(f, n)
      PROVE  TwoChildren(g, n2)
  <2>1. PICK a \in Int, b \in Int : a # b /\ \A m \in Int : IsChild(f, n, m) <=> m = a \/ m = b
    BY <1>4 DEF TwoChildren
  <2>2. \A m \in Int : IsChild(g, n2, m) <=> m = a + by \/ m = b + by
    <3> TAKE m \in Int
    <3>1. IsChild(g, n2, m) <=> m - by = a \/ m - by = b
      BY <2>1
    <3> QED
      BY <3>1
  <2> DEFINE c == a + by
             c2 == b + by
  <2>3. c \in Int /\ c2 \in Int /\ c # c2 /\ \A m \in Int : IsChild(g, n2, m) <=> m = c \/ m = c2
    BY <2>1, <2>2
  <2> HIDE DEF c, c2
  <2> QED
    BY <2>3 DEF TwoChildren
<1> QED
  BY <1>2, <1>3, <1>4 DEF Owns

\* The parts of Forest.
LEMMA ForestFacts ==
  ASSUME NEW f, Forest(f)
  PROVE  /\ f \in Seq(TreeNodes) /\ Len(f) \in Nat
         /\ \A n \in 1 .. Len(f) : /\ f[n] \in TreeNodes /\ f[n].depth \in Nat /\ f[n].kind \in Kinds
                                   /\ Sorted(f[n]) /\ f[n].depth < n /\ Owns(f, n)
         /\ \A n \in 2 .. Len(f) : f[n].depth =< f[n - 1].depth + 1
<1>1. f \in Seq(TreeNodes) /\ Len(f) \in Nat
  BY DEF Forest
<1>2. \A n \in 1 .. Len(f) : f[n] \in TreeNodes
  BY <1>1
<1>3. \A x \in TreeNodes : x.depth \in Nat /\ x.kind \in Kinds
  BY DEF TreeNodes
<1> QED
  BY <1>1, <1>2, <1>3 DEF Forest

\* The empty sequence is a forest.
LEMMA NoTrees == Forest(<<>>)
<1>1. <<>> \in Seq(TreeNodes) /\ \A n \in 1 .. Len(<<>>) : FALSE
  OBVIOUS
<1>2. \A n \in 2 .. Len(<<>>) : FALSE
  OBVIOUS
<1> QED
  BY <1>1, <1>2 DEF Forest

\* Two forests, one after the other.
LEMMA JoinFacts ==
  ASSUME NEW e \in Seq(TreeNodes), NEW f \in Seq(TreeNodes)
  PROVE  /\ e \o f \in Seq(TreeNodes) /\ Len(e) \in Nat /\ Len(f) \in Nat
         /\ Len(e \o f) = Len(e) + Len(f)
         /\ \A n \in 1 .. Len(e) : (e \o f)[n] = e[n]
         /\ \A n \in Len(e) + 1 .. Len(e) + Len(f) : (e \o f)[n] = f[n - Len(e)]
OBVIOUS

\* Forests one after the other are a forest: no node's children change.
LEMMA JoinForests ==
  ASSUME NEW e, Forest(e), NEW f, Forest(f)
  PROVE  Forest(e \o f)
<1> DEFINE g == e \o f
           a == Len(e)
           b == Len(f)
<1>1. /\ e \in Seq(TreeNodes) /\ f \in Seq(TreeNodes)
      /\ \A n \in 1 .. a : e[n].depth \in Nat /\ Sorted(e[n]) /\ e[n].depth < n /\ Owns(e, n)
      /\ \A n \in 1 .. b : f[n].depth \in Nat /\ Sorted(f[n]) /\ f[n].depth < n /\ Owns(f, n)
      /\ \A n \in 2 .. a : e[n].depth =< e[n - 1].depth + 1
      /\ \A n \in 2 .. b : f[n].depth =< f[n - 1].depth + 1
  BY ForestFacts
<1>2. /\ g \in Seq(TreeNodes) /\ a \in Nat /\ b \in Nat /\ Len(g) = a + b
      /\ \A n \in 1 .. a : g[n] = e[n]
      /\ \A n \in a + 1 .. a + b : g[n] = f[n - a]
  BY <1>1, JoinFacts
<1> HIDE DEF g
<1>3. \A n \in 1 .. a + b : n \in 1 .. a \/ (n \in a + 1 .. a + b /\ n - a \in 1 .. b)
  BY <1>2
<1>4. ASSUME NEW n \in 1 .. a, NEW m \in Int
      PROVE  IsChild(g, n, m) <=> IsChild(e, n, m - 0)
  <2>0. m - 0 = m /\ g[n] = e[n] /\ e[n].depth \in Nat
    BY <1>1, <1>2
  <2>1. CASE m =< a
    <3>1. m \in n + 1 .. Len(g) <=> m \in n + 1 .. a
      BY <1>2, <2>1
    <3>2. ASSUME m \in n + 1 .. a
          PROVE  m \in 1 .. a /\ \A k \in n + 1 .. m : k \in 1 .. a
      BY <1>2, <3>2
    <3>3. ASSUME m \in n + 1 .. a
          PROVE  g[m] = e[m] /\ \A k \in n + 1 .. m : g[k] = e[k]
      BY <1>2, <3>2, <3>3
    <3> HIDE DEF a
    <3>4. IsChild(g, n, m) <=> m \in n + 1 .. a /\ e[m].depth = e[n].depth + 1
                               /\ \A k \in n + 1 .. m : e[k].depth > e[n].depth
      BY <2>0, <3>1, <3>3 DEF IsChild
    <3> QED
      BY <2>0, <3>4 DEF IsChild, a
  <2>2. CASE m > a
    <3>1. ~IsChild(e, n, m)
      BY <1>2, <2>2 DEF IsChild
    <3>2. ASSUME IsChild(g, n, m)
          PROVE  FALSE
      <4>1. m \in n + 1 .. a + b /\ \A k \in n + 1 .. m : g[k].depth > g[n].depth
        BY <1>2, <3>2 DEF IsChild
      <4>2. a + 1 \in n + 1 .. m /\ a + 1 \in a + 1 .. a + b /\ (a + 1) - a = 1 /\ 1 \in 1 .. b
        BY <1>2, <2>2, <4>1
      <4>3. g[a + 1].depth = f[1].depth
        BY <1>2, <4>2
      <4>4. f[1].depth \in Nat /\ f[1].depth < 1
        BY <1>1, <4>2
      <4>5. g[a + 1].depth > e[n].depth
        BY <2>0, <4>1, <4>2
      <4> HIDE DEF a
      <4> QED
        BY <2>0, <4>3, <4>4, <4>5
    <3> QED
      BY <2>0, <3>1, <3>2
  <2> QED
    BY <1>2, <2>1, <2>2
<1>5. ASSUME NEW n \in a + 1 .. a + b, NEW m \in Int
      PROVE  IsChild(g, n, m) <=> IsChild(f, n - a, m - a)
  <2>1. m \in n + 1 .. Len(g) <=> m - a \in (n - a) + 1 .. b
    BY <1>2
  <2>2. g[n] = f[n - a]
    BY <1>2
  <2>3. ASSUME m \in n + 1 .. Len(g)
        PROVE  g[m] = f[m - a]
    <3>1. m \in a + 1 .. a + b
      BY <1>2, <2>3
    <3> QED
      BY <1>2, <3>1
  <2>4. ASSUME m \in n + 1 .. Len(g)
        PROVE  (\A k \in n + 1 .. m : g[k].depth > g[n].depth)
               <=> (\A k \in (n - a) + 1 .. m - a : f[k].depth > f[n - a].depth)
    <3>1. ASSUME NEW k \in n + 1 .. m
          PROVE  g[k] = f[k - a] /\ k - a \in (n - a) + 1 .. m - a
      <4>1. k \in a + 1 .. a + b
        BY <1>2, <2>4
      <4>2. k - a \in (n - a) + 1 .. m - a
        BY <1>2
      <4> QED
        BY <1>2, <4>1, <4>2
    <3>2. ASSUME NEW k \in (n - a) + 1 .. m - a
          PROVE  k + a \in n + 1 .. m /\ (k + a) - a = k
      BY <1>2
    <3> HIDE DEF a
    <3>3. ASSUME \A k \in n + 1 .. m : g[k].depth > g[n].depth, NEW k \in (n - a) + 1 .. m - a
          PROVE  f[k].depth > f[n - a].depth
      <4>1. k + a \in n + 1 .. m /\ (k + a) - a = k
        BY <3>2
      <4>2. g[k + a] = f[k] /\ g[k + a].depth > g[n].depth
        BY <3>1, <3>3, <4>1
      <4> QED
        BY <2>2, <4>2
    <3>4. ASSUME \A k \in (n - a) + 1 .. m - a : f[k].depth > f[n - a].depth, NEW k \in n + 1 .. m
          PROVE  g[k].depth > g[n].depth
      BY <2>2, <3>1, <3>4
    <3> QED
      BY <3>3, <3>4
  <2> HIDE DEF a
  <2> QED
    BY <2>1, <2>2, <2>3, <2>4 DEF IsChild
<1>6. ASSUME NEW n \in 1 .. Len(g)
      PROVE  Sorted(g[n]) /\ g[n].depth < n /\ Owns(g, n)
  <2>1. CASE n \in 1 .. a
    <3>1. g[n] = e[n] /\ Owns(e, n) /\ Sorted(e[n]) /\ e[n].depth < n
      BY <1>1, <1>2, <2>1
    <3>2. \A m \in Int : IsChild(g, n, m) <=> IsChild(e, n, m - 0)
      BY <1>4, <2>1
    <3>3. Owns(g, n)
      BY <3>1, <3>2, MovedOwns
    <3> QED
      BY <3>1, <3>3
  <2>2. CASE n \in a + 1 .. a + b /\ n - a \in 1 .. b
    <3>1. g[n] = f[n - a] /\ Owns(f, n - a) /\ Sorted(f[n - a]) /\ f[n - a].depth < n - a /\ f[n - a].depth \in Nat
      BY <1>1, <1>2, <2>2
    <3>2. \A m \in Int : IsChild(g, n, m) <=> IsChild(f, n - a, m - a)
      BY <1>5, <2>2
    <3>3. Owns(g, n)
      <4>1. a \in Int
        BY <1>2
      <4> HIDE DEF a
      <4> QED
        BY <3>1, <3>2, <4>1, MovedOwns
    <3>4. f[n - a].depth < n
      BY <1>2, <2>2, <3>1
    <3> QED
      BY <3>1, <3>3, <3>4
  <2> QED
    BY <1>2, <1>3, <2>1, <2>2
<1>7. ASSUME NEW n \in 2 .. Len(g)
      PROVE  g[n].depth =< g[n - 1].depth + 1
  <2>1. CASE n \in 2 .. a
    <3>1. n \in 1 .. a /\ n - 1 \in 1 .. a
      BY <1>2, <2>1
    <3> QED
      BY <1>1, <1>2, <2>1, <3>1
  <2>2. CASE n = a + 1
    <3>1. n \in a + 1 .. a + b /\ n - a = 1 /\ 1 \in 1 .. b /\ n - 1 \in 1 .. a
      BY <1>2, <2>2
    <3>2. g[n].depth = f[1].depth /\ f[1].depth \in Nat /\ f[1].depth < 1
      BY <1>1, <1>2, <3>1
    <3>3. g[n - 1].depth \in Nat
      BY <1>1, <1>2, <3>1
    <3> HIDE DEF a
    <3> QED
      BY <3>2, <3>3
  <2>3. CASE n \in a + 2 .. a + b
    <3>1. /\ n \in a + 1 .. a + b /\ n - 1 \in a + 1 .. a + b /\ n - a \in 2 .. b
          /\ (n - 1) - a = (n - a) - 1
      BY <1>2, <2>3
    <3>2. g[n] = f[n - a] /\ g[n - 1] = f[(n - a) - 1]
      BY <1>2, <3>1
    <3> QED
      BY <1>1, <3>1, <3>2
  <2> QED
    BY <1>2, <2>1, <2>2, <2>3
<1> HIDE DEF a, b
<1>8. Forest(g)
  BY <1>2, <1>6, <1>7 DEF Forest
<1> QED
  BY <1>8 DEF g

\* A forest one level down.
LEMMA DeeperFacts ==
  ASSUME NEW f \in Seq(TreeNodes)
  PROVE  /\ Deeper(f) \in Seq(TreeNodes) /\ Len(Deeper(f)) = Len(f) /\ Len(f) \in Nat
         /\ \A n \in 1 .. Len(f) : /\ Deeper(f)[n].depth = f[n].depth + 1
                                   /\ Deeper(f)[n].kind = f[n].kind /\ Deeper(f)[n].op = f[n].op
<1>1. Len(f) \in Nat /\ DOMAIN f = 1 .. Len(f) /\ \A n \in 1 .. Len(f) : f[n] \in TreeNodes
  OBVIOUS
<1>2. \A x \in TreeNodes : /\ [x EXCEPT !.depth = @ + 1] \in TreeNodes
                           /\ [x EXCEPT !.depth = @ + 1].depth = x.depth + 1
                           /\ [x EXCEPT !.depth = @ + 1].kind = x.kind
                           /\ [x EXCEPT !.depth = @ + 1].op = x.op
  BY DEF TreeNodes
<1>3. Deeper(f) = [n \in 1 .. Len(f) |-> [f[n] EXCEPT !.depth = @ + 1]]
  BY <1>1 DEF Deeper
<1>4. \A n \in 1 .. Len(f) : Deeper(f)[n] = [f[n] EXCEPT !.depth = @ + 1]
  BY <1>3
<1>5. \A n \in 1 .. Len(f) : Deeper(f)[n] \in TreeNodes
  BY <1>1, <1>2, <1>4
<1>6. Deeper(f) \in [1 .. Len(f) -> TreeNodes]
  <2> DEFINE h(n) == [f[n] EXCEPT !.depth = @ + 1]
  <2>1. Deeper(f) = [n \in 1 .. Len(f) |-> h(n)] /\ \A n \in 1 .. Len(f) : h(n) \in TreeNodes
    BY <1>1, <1>2, <1>3
  <2> HIDE DEF h
  <2> QED
    BY <2>1
<1>7. Deeper(f) \in Seq(TreeNodes) /\ Len(Deeper(f)) = Len(f)
  BY <1>1, <1>6
<1> QED
  BY <1>1, <1>2, <1>4, <1>7

\* g is a node above a forest.
IsTree(g, kind, op, at, kids) ==
    /\ g \in Seq(TreeNodes) /\ Len(g) = Len(kids) + 1 /\ Len(kids) \in Nat
    /\ g[1].kind = kind /\ g[1].op = op /\ g[1].depth = 0 /\ g[1].at = at
    /\ \A n \in 2 .. Len(kids) + 1 : /\ g[n].depth = kids[n - 1].depth + 1
                                     /\ g[n].kind = kids[n - 1].kind /\ g[n].op = kids[n - 1].op

\* Where the nodes are in a tree, and how deep.
LEMMA TreeFacts ==
  ASSUME NEW kids \in Seq(TreeNodes), NEW kind \in Kinds,
         NEW op \in TreeOps, NEW at \in Nat
  PROVE  IsTree(Tree(kind, op, at, kids), kind, op, at, kids)
<1> DEFINE root == [kind |-> kind, op |-> op, depth |-> 0, at |-> at]
           under == Deeper(kids)
<1>1. /\ root \in TreeNodes /\ root.kind = kind /\ root.op = op /\ root.depth = 0 /\ root.at = at
  BY DEF TreeNodes
<1>2. /\ under \in Seq(TreeNodes) /\ Len(under) = Len(kids) /\ Len(kids) \in Nat
      /\ \A n \in 1 .. Len(kids) : /\ under[n].depth = kids[n].depth + 1
                                   /\ under[n].kind = kids[n].kind /\ under[n].op = kids[n].op
  BY DeeperFacts
<1>3. Tree(kind, op, at, kids) = <<root>> \o under
  BY DEF Tree
<1> HIDE DEF root, under
<1>4. <<root>> \in Seq(TreeNodes) /\ Len(<<root>>) = 1 /\ <<root>>[1] = root
  BY <1>1
<1> DEFINE r == <<root>>
<1>5. r \in Seq(TreeNodes) /\ Len(r) = 1 /\ r[1] = root /\ Tree(kind, op, at, kids) = r \o under
  BY <1>3, <1>4
<1> HIDE DEF r
<1>6. /\ r \o under \in Seq(TreeNodes) /\ Len(r \o under) = 1 + Len(kids)
      /\ (r \o under)[1] = root
      /\ \A n \in 2 .. 1 + Len(kids) : (r \o under)[n] = under[n - 1]
  <2>1. /\ r \o under \in Seq(TreeNodes)
        /\ Len(r \o under) = Len(r) + Len(under)
        /\ \A n \in 1 .. Len(r) : (r \o under)[n] = r[n]
        /\ \A n \in Len(r) + 1 .. Len(r) + Len(under) : (r \o under)[n] = under[n - Len(r)]
    <3>1. r \in Seq(TreeNodes) /\ under \in Seq(TreeNodes)
      BY <1>2, <1>5
    <3> QED
      BY <3>1, JoinFacts
  <2>2. Len(r) = 1 /\ Len(under) = Len(kids) /\ 1 \in 1 .. 1 /\ 1 + 1 = 2 /\ r[1] = root
    BY <1>2, <1>5
  <2> DEFINE c == r \o under
  <2> HIDE DEF c
  <2>3. c \in Seq(TreeNodes) /\ Len(c) = 1 + Len(kids) /\ c[1] = root
    BY <2>1, <2>2 DEF c
  <2>4. \A n \in 2 .. 1 + Len(kids) : c[n] = under[n - 1]
    BY <2>1, <2>2 DEF c
  <2> QED
    BY <2>3, <2>4 DEF c
<1>7. \A n \in 2 .. Len(kids) + 1 : n - 1 \in 1 .. Len(kids) /\ n \in 2 .. 1 + Len(kids)
  BY <1>2
<1>8. 1 + Len(kids) = Len(kids) + 1
  BY <1>2
<1> DEFINE c == r \o under
<1> HIDE DEF c
<1>9. c \in Seq(TreeNodes) /\ Len(c) = Len(kids) + 1 /\ c[1] = root
  BY <1>6, <1>8 DEF c
<1>10. \A n \in 2 .. Len(kids) + 1 : /\ c[n].depth = kids[n - 1].depth + 1
                                   /\ c[n].kind = kids[n - 1].kind /\ c[n].op = kids[n - 1].op
  BY <1>2, <1>6, <1>7 DEF c
<1>11. IsTree(c, kind, op, at, kids)
  BY <1>1, <1>2, <1>9, <1>10 DEF IsTree
<1> QED
  BY <1>5, <1>11 DEF c

\* The children of the root are the roots of the forest below it.
IsRootOf(f, m) == m \in 1 .. Len(f) /\ f[m].depth = 0

\* A node whose number of children is right.
Arities(kind, f) ==
    /\ kind \in LeafKinds => Len(f) = 0
    /\ kind = "unary" => \E a \in Int : \A m \in Int : IsRootOf(f, m) <=> m = a
    /\ kind = "binary" => \E a, b \in Int : a # b /\ \A m \in Int : IsRootOf(f, m) <=> m = a \/ m = b

\* A node above a forest of as many trees as its kind takes is one tree.
LEMMA TreeForest ==
  ASSUME NEW kids, Forest(kids), NEW kind \in Kinds, Arities(kind, kids),
         NEW op \in TreeOps, NEW at \in Nat,
         NEW g, g = Tree(kind, op, at, kids), Sorted(g[1])
  PROVE  OneTree(g) /\ Len(g) = Len(kids) + 1 /\ g[1].at = at
<1> DEFINE b == Len(kids)
<1>1. /\ kids \in Seq(TreeNodes)
      /\ \A n \in 1 .. b : kids[n].depth \in Nat /\ Sorted(kids[n]) /\ kids[n].depth < n /\ Owns(kids, n)
      /\ \A n \in 2 .. b : kids[n].depth =< kids[n - 1].depth + 1
  BY ForestFacts
<1>2. /\ g \in Seq(TreeNodes) /\ Len(g) = b + 1 /\ b \in Nat
      /\ g[1].kind = kind /\ g[1].depth = 0 /\ g[1].at = at
      /\ \A n \in 2 .. b + 1 : /\ g[n].depth = kids[n - 1].depth + 1
                               /\ g[n].kind = kids[n - 1].kind /\ g[n].op = kids[n - 1].op
  <2>1. kids \in Seq(TreeNodes)
    BY <1>1
  <2>2. IsTree(g, kind, op, at, kids)
    BY <2>1, TreeFacts
  <2> QED
    BY <2>2 DEF IsTree
<1>3. \A n \in 2 .. b + 1 : n - 1 \in 1 .. b
  BY <1>2
<1>4. ASSUME NEW n \in 2 .. b + 1
      PROVE  g[n].depth > 0 /\ g[n].depth \in Nat /\ g[n].depth = kids[n - 1].depth + 1 /\ kids[n - 1].depth \in Nat
  <2>1. kids[n - 1].depth \in Nat
    BY <1>1, <1>3
  <2>2. g[n].depth = kids[n - 1].depth + 1
    BY <1>2
  <2> QED
    BY <2>1, <2>2
<1>5. ASSUME NEW m \in Int
      PROVE  IsChild(g, 1, m) <=> IsRootOf(kids, m - 1)
  <2>1. m \in 1 + 1 .. Len(g) <=> m \in 2 .. b + 1
    BY <1>2
  <2>2. m \in 2 .. b + 1 <=> m - 1 \in 1 .. b
    BY <1>2
  <2>3. ASSUME m \in 2 .. b + 1
        PROVE  /\ g[m].depth = g[1].depth + 1 <=> kids[m - 1].depth = 0
               /\ \A k \in 1 + 1 .. m : g[k].depth > g[1].depth
    <3>1. g[m].depth = kids[m - 1].depth + 1 /\ kids[m - 1].depth \in Nat /\ g[1].depth = 0
      BY <1>1, <1>2, <1>3, <2>3
    <3>2. \A k \in 1 + 1 .. m : k \in 2 .. b + 1
      BY <1>2, <2>3
    <3> HIDE DEF b
    <3> QED
      BY <1>4, <3>1, <3>2
  <2> HIDE DEF b
  <2>4. IsRootOf(kids, m - 1) <=> m - 1 \in 1 .. b /\ kids[m - 1].depth = 0
    BY DEF IsRootOf, b
  <2> QED
    BY <2>1, <2>2, <2>3, <2>4 DEF IsChild
<1>6. ASSUME NEW n \in 2 .. b + 1, NEW m \in Int
      PROVE  IsChild(g, n, m) <=> IsChild(kids, n - 1, m - 1)
  <2>1. m \in n + 1 .. Len(g) <=> m - 1 \in (n - 1) + 1 .. b
    BY <1>2
  <2>5. g[n].depth = kids[n - 1].depth + 1 /\ kids[n - 1].depth \in Nat
    BY <1>4
  <2>2. ASSUME m \in n + 1 .. Len(g), NEW k \in n + 1 .. m
        PROVE  /\ g[k].depth = kids[k - 1].depth + 1 /\ kids[k - 1].depth \in Nat
               /\ k - 1 \in (n - 1) + 1 .. m - 1
    <3>1. k \in 2 .. b + 1 /\ k - 1 \in (n - 1) + 1 .. m - 1
      BY <1>2, <2>2
    <3> QED
      BY <1>4, <3>1
  <2>3. ASSUME m \in n + 1 .. Len(g)
        PROVE  /\ g[m].depth = g[n].depth + 1 <=> kids[m - 1].depth = kids[n - 1].depth + 1
               /\ (\A k \in n + 1 .. m : g[k].depth > g[n].depth)
                  <=> (\A k \in (n - 1) + 1 .. m - 1 : kids[k].depth > kids[n - 1].depth)
    <3>0. m \in n + 1 .. m
      BY <1>2, <2>3
    <3>1. g[m].depth = kids[m - 1].depth + 1 /\ kids[m - 1].depth \in Nat
      BY <2>2, <2>3, <3>0
    <3>2. g[m].depth = g[n].depth + 1 <=> kids[m - 1].depth = kids[n - 1].depth + 1
      <4> DEFINE x == kids[m - 1].depth
                 y == kids[n - 1].depth
      <4>1. x \in Nat /\ y \in Nat /\ g[m].depth = x + 1 /\ g[n].depth = y + 1
        BY <2>5, <3>1
      <4> HIDE DEF x, y
      <4>2. g[m].depth = g[n].depth + 1 <=> x = y + 1
        BY <4>1
      <4> QED
        BY <4>2 DEF x, y
    <3>3. ASSUME \A k \in n + 1 .. m : g[k].depth > g[n].depth, NEW k \in (n - 1) + 1 .. m - 1
          PROVE  kids[k].depth > kids[n - 1].depth
      <4>1. k + 1 \in n + 1 .. m /\ (k + 1) - 1 = k
        BY <1>2
      <4> DEFINE l == k + 1
      <4>2. l \in n + 1 .. m /\ l - 1 = k
        BY <4>1
      <4> HIDE DEF l
      <4>3. g[l].depth = kids[k].depth + 1 /\ kids[k].depth \in Nat /\ g[l].depth > g[n].depth
        BY <2>2, <2>3, <3>3, <4>2
      <4> QED
        BY <2>5, <4>3
    <3>4. ASSUME \A k \in (n - 1) + 1 .. m - 1 : kids[k].depth > kids[n - 1].depth, NEW k \in n + 1 .. m
          PROVE  g[k].depth > g[n].depth
      <4>1. kids[k - 1].depth > kids[n - 1].depth /\ g[k].depth = kids[k - 1].depth + 1 /\ kids[k - 1].depth \in Nat
        BY <2>2, <2>3, <3>4
      <4> QED
        BY <2>5, <4>1
    <3> QED
      BY <3>2, <3>3, <3>4
  <2> HIDE DEF b
  <2>4. IsChild(kids, n - 1, m - 1) <=> /\ m - 1 \in (n - 1) + 1 .. b /\ kids[m - 1].depth = kids[n - 1].depth + 1
                                        /\ \A k \in (n - 1) + 1 .. m - 1 : kids[k].depth > kids[n - 1].depth
    BY DEF IsChild, b
  <2> QED
    BY <2>1, <2>3, <2>4 DEF IsChild
<1>7. Owns(g, 1)
  <2>1. \A m \in Int : m + 1 \in Int /\ (m + 1) - 1 = m /\ m - 1 \in Int
    OBVIOUS
  <2>2. kind \in LeafKinds => NoChild(g, 1)
    BY <1>2, <1>5 DEF Arities, NoChild, IsRootOf
  <2>3. ASSUME kind = "unary"
        PROVE  OneChild(g, 1)
    <3>1. PICK a \in Int : \A m \in Int : IsRootOf(kids, m) <=> m = a
      BY <2>3 DEF Arities
    <3> DEFINE c == a + 1
    <3>2. c \in Int /\ \A m \in Int : m - 1 = a <=> m = c
      OBVIOUS
    <3> HIDE DEF c
    <3>3. \A m \in Int : IsChild(g, 1, m) <=> m = c
      BY <1>5, <2>1, <3>1, <3>2
    <3> QED
      BY <3>2, <3>3 DEF OneChild
  <2>4. ASSUME kind = "binary"
        PROVE  TwoChildren(g, 1)
    <3>1. PICK a \in Int, a2 \in Int : a # a2 /\ \A m \in Int : IsRootOf(kids, m) <=> m = a \/ m = a2
      BY <2>4 DEF Arities
    <3> DEFINE c == a + 1
               c2 == a2 + 1
    <3>2. c \in Int /\ c2 \in Int /\ c # c2 /\ \A m \in Int : (m - 1 = a <=> m = c) /\ (m - 1 = a2 <=> m = c2)
      BY <3>1
    <3> HIDE DEF c, c2
    <3>3. \A m \in Int : IsChild(g, 1, m) <=> m = c \/ m = c2
      BY <1>5, <2>1, <3>1, <3>2
    <3> QED
      BY <3>2, <3>3 DEF TwoChildren
  <2> QED
    BY <1>2, <2>2, <2>3, <2>4 DEF Owns
<1>8. ASSUME NEW n \in 1 .. Len(g)
      PROVE  Sorted(g[n]) /\ g[n].depth < n /\ Owns(g, n)
  <2>1. CASE n = 1
    BY <1>2, <1>7, <2>1
  <2>2. CASE n \in 2 .. b + 1
    <3>1. /\ Owns(kids, n - 1) /\ Sorted(kids[n - 1]) /\ kids[n - 1].depth < n - 1 /\ kids[n - 1].depth \in Nat
          /\ g[n].depth = kids[n - 1].depth + 1
          /\ g[n].kind = kids[n - 1].kind /\ g[n].op = kids[n - 1].op
      BY <1>1, <1>2, <1>3, <2>2
    <3>2. \A m \in Int : IsChild(g, n, m) <=> IsChild(kids, n - 1, m - 1)
      BY <1>6, <2>2
    <3>3. Owns(g, n)
      <4> DEFINE l == n - 1
      <4>1. /\ Owns(kids, l) /\ g[n].kind = kids[l].kind
            /\ \A m \in Int : IsChild(g, n, m) <=> IsChild(kids, l, m - 1)
        BY <3>1, <3>2
      <4> HIDE DEF l
      <4>2. PICK by \in Int : by = 1
        OBVIOUS
      <4>3. \A m \in Int : IsChild(g, n, m) <=> IsChild(kids, l, m - by)
        BY <4>1, <4>2
      <4> QED
        BY <4>1, <4>3, MovedOwns
    <3>4. Sorted(g[n])
      BY <3>1 DEF Sorted
    <3>5. g[n].depth < n
      BY <1>2, <2>2, <3>1
    <3> QED
      BY <3>3, <3>4, <3>5
  <2>3. n = 1 \/ n \in 2 .. b + 1
    BY <1>2
  <2> QED
    BY <2>1, <2>2, <2>3
<1>9. ASSUME NEW n \in 2 .. Len(g)
      PROVE  g[n].depth =< g[n - 1].depth + 1
  <2>1. CASE n = 2
    <3>1. 2 \in 2 .. b + 1 /\ 2 - 1 = 1 /\ 1 \in 1 .. b
      BY <1>2, <2>1
    <3>2. g[2].depth = kids[1].depth + 1 /\ kids[1].depth \in Nat /\ kids[1].depth < 1
      BY <1>1, <1>2, <3>1
    <3> QED
      BY <1>2, <2>1, <3>1, <3>2
  <2>2. CASE n # 2
    <3> DEFINE l == n - 1
    <3>1. n \in 2 .. b + 1 /\ l \in 2 .. b + 1 /\ l \in 2 .. b /\ l \in 1 .. b /\ l - 1 \in 1 .. b
      BY <1>2, <2>2
    <3>2. g[n].depth = kids[l].depth + 1
      BY <1>2, <3>1
    <3> HIDE DEF l
    <3>3. g[l].depth = kids[l - 1].depth + 1 /\ kids[l].depth =< kids[l - 1].depth + 1
      BY <1>1, <1>2, <3>1
    <3>4. kids[l].depth \in Nat /\ kids[l - 1].depth \in Nat
      BY <1>1, <3>1
    <3>5. g[n].depth =< g[l].depth + 1
      BY <3>2, <3>3, <3>4
    <3> QED
      BY <3>5 DEF l
  <2> QED
    BY <2>1, <2>2
<1>10. Forest(g)
  BY <1>2, <1>8, <1>9 DEF Forest
<1>11. OneTree(g)
  BY <1>2, <1>4, <1>10 DEF OneTree
<1> QED
  BY <1>2, <1>11

\* The only root of one tree is its first node.
LEMMA OneRoot ==
  ASSUME NEW e, OneTree(e)
  PROVE  Forest(e) /\ Len(e) \in Nat /\ Len(e) > 0 /\ \A m \in Int : IsRootOf(e, m) <=> m = 1
<1>1. Forest(e) /\ Len(e) > 0 /\ \A n \in 2 .. Len(e) : e[n].depth > 0
  BY DEF OneTree
<1>2. Len(e) \in Nat /\ \A n \in 1 .. Len(e) : e[n].depth \in Nat /\ e[n].depth < n
  BY <1>1, ForestFacts
<1>3. 1 \in 1 .. Len(e) /\ \A m \in 1 .. Len(e) : m = 1 \/ m \in 2 .. Len(e)
  BY <1>1, <1>2
<1>4. e[1].depth = 0
  <2>1. e[1].depth \in Nat /\ e[1].depth < 1
    BY <1>2, <1>3
  <2> QED
    BY <2>1
<1>5. \A m \in 2 .. Len(e) : e[m].depth # 0
  BY <1>1
<1>6. \A m \in Int : IsRootOf(e, m) <=> m = 1
  BY <1>3, <1>4, <1>5 DEF IsRootOf
<1> QED
  BY <1>1, <1>2, <1>6

\* Two trees one after the other are what a binary node takes.
LEMMA TwoRoots ==
  ASSUME NEW e, OneTree(e), NEW f, OneTree(f)
  PROVE  Forest(e \o f) /\ Len(e \o f) = Len(e) + Len(f) /\ Arities("binary", e \o f)
<1> DEFINE g == e \o f
           c == Len(e) + 1
<1>1. /\ Forest(e) /\ Len(e) \in Nat /\ Len(e) > 0 /\ \A m \in Int : IsRootOf(e, m) <=> m = 1
      /\ Forest(f) /\ Len(f) \in Nat /\ Len(f) > 0 /\ \A m \in Int : IsRootOf(f, m) <=> m = 1
  BY OneRoot
<1>2. e \in Seq(TreeNodes) /\ f \in Seq(TreeNodes)
  BY <1>1, ForestFacts
<1>3. /\ Len(g) = Len(e) + Len(f)
      /\ \A n \in 1 .. Len(e) : g[n] = e[n]
      /\ \A n \in Len(e) + 1 .. Len(e) + Len(f) : g[n] = f[n - Len(e)]
  BY <1>2, JoinFacts
<1>4. Forest(g)
  BY <1>1, JoinForests
<1> HIDE DEF g
<1>5. ASSUME NEW m \in Int
      PROVE  IsRootOf(g, m) <=> m = 1 \/ m = c
  <2>1. CASE m \in 1 .. Len(e)
    <3>1. m \in 1 .. Len(g) /\ m # c /\ g[m] = e[m]
      BY <1>1, <1>3, <2>1
    <3>2. IsRootOf(g, m) <=> IsRootOf(e, m)
      BY <2>1, <3>1 DEF IsRootOf
    <3> QED
      BY <1>1, <3>1, <3>2
  <2>2. CASE m \in Len(e) + 1 .. Len(e) + Len(f)
    <3> DEFINE l == m - Len(e)
    <3>1. m \in 1 .. Len(g) /\ g[m] = f[l] /\ l \in 1 .. Len(f) /\ l \in Int /\ (l = 1 <=> m = c) /\ m # 1
      BY <1>1, <1>3, <2>2
    <3> HIDE DEF l
    <3>2. IsRootOf(g, m) <=> IsRootOf(f, l)
      BY <3>1 DEF IsRootOf
    <3> QED
      BY <1>1, <3>1, <3>2
  <2>3. CASE m \notin 1 .. Len(e) /\ m \notin Len(e) + 1 .. Len(e) + Len(f)
    <3>1. m \notin 1 .. Len(g) /\ m # 1 /\ m # c
      BY <1>1, <1>3, <2>3
    <3> QED
      BY <3>1 DEF IsRootOf
  <2> QED
    BY <2>1, <2>2, <2>3
<1>6. c \in Int /\ 1 # c
  BY <1>1
<1> HIDE DEF c
<1>7. Arities("binary", g)
  <2>1. "binary" \notin LeafKinds
    BY DEF LeafKinds
  <2>2. \E a, b \in Int : a # b /\ \A m \in Int : IsRootOf(g, m) <=> m = a \/ m = b
    BY <1>5, <1>6
  <2> QED
    BY <2>1, <2>2 DEF Arities
<1> QED
  BY <1>3, <1>4, <1>7 DEF g

\* What the actions make of trees.
LEMMA LeafTree ==
  ASSUME NEW kind \in LeafKinds, kind # "error", NEW at \in Nat
  PROVE  OneTree(Tree(kind, "none", at, <<>>)) /\ Len(Tree(kind, "none", at, <<>>)) = 1
<1> DEFINE g == Tree(kind, "none", at, <<>>)
<1>1. kind \in Kinds /\ "none" \in TreeOps /\ kind # "unary" /\ kind # "binary" /\ kind # "function"
  BY DEF Kinds, LeafKinds, TreeOps
<1>2. Forest(<<>>) /\ <<>> \in Seq(TreeNodes) /\ Len(<<>>) = 0
  BY NoTrees
<1>3. Arities(kind, <<>>)
  BY <1>1, <1>2 DEF Arities
<1>4. IsTree(g, kind, "none", at, <<>>)
  BY <1>1, <1>2, TreeFacts
<1> HIDE DEF g
<1>5. Sorted(g[1])
  BY <1>1, <1>4 DEF IsTree, Sorted
<1>6. OneTree(g) /\ Len(g) = Len(<<>>) + 1
  <2>1. PICK kids : kids = <<>>
    OBVIOUS
  <2>2. PICK op \in TreeOps : op = "none"
    BY <1>1
  <2>3. Forest(kids) /\ Arities(kind, kids) /\ g = Tree(kind, op, at, kids)
    BY <1>2, <1>3, <2>1, <2>2 DEF g
  <2>4. OneTree(g) /\ Len(g) = Len(kids) + 1
    BY <1>1, <1>5, <2>3, TreeForest
  <2> QED
    BY <2>1, <2>4
<1> QED
  BY <1>2, <1>6 DEF g

\* A unary node above a tree is a tree.
LEMMA UnaryTree ==
  ASSUME NEW op \in UnaryOps, NEW at \in Nat, NEW e, OneTree(e)
  PROVE  /\ OneTree(Tree("unary", op, at, e)) /\ Len(Tree("unary", op, at, e)) = Len(e) + 1
         /\ Tree("unary", op, at, e)[1].at = at
<1> DEFINE g == Tree("unary", op, at, e)
<1>1. "unary" \in Kinds /\ op \in TreeOps /\ "unary" \notin LeafKinds
  BY DEF Kinds, LeafKinds, TreeOps
<1>2. Forest(e) /\ e \in Seq(TreeNodes) /\ \A m \in Int : IsRootOf(e, m) <=> m = 1
  BY OneRoot, ForestFacts
<1>3. Arities("unary", e)
  <2>1. PICK a \in Int : a = 1
    OBVIOUS
  <2>2. \A m \in Int : IsRootOf(e, m) <=> m = a
    BY <1>2, <2>1
  <2> QED
    BY <1>1, <2>2 DEF Arities
<1>4. IsTree(g, "unary", op, at, e)
  BY <1>1, <1>2, TreeFacts
<1> HIDE DEF g
<1>5. Sorted(g[1])
  BY <1>4 DEF IsTree, Sorted
<1>6. OneTree(g) /\ Len(g) = Len(e) + 1 /\ g[1].at = at
  BY <1>1, <1>2, <1>3, <1>5, TreeForest DEF g
<1> QED
  BY <1>6 DEF g

\* A binary node above two trees is a tree.
LEMMA BinaryTree ==
  ASSUME NEW op \in BinaryOps, NEW at \in Nat, NEW e, OneTree(e), NEW f, OneTree(f)
  PROVE  /\ OneTree(Tree("binary", op, at, e \o f)) /\ Len(Tree("binary", op, at, e \o f)) = Len(e) + Len(f) + 1
         /\ Tree("binary", op, at, e \o f)[1].at = at
<1> DEFINE kids == e \o f
           g == Tree("binary", op, at, kids)
<1>1. "binary" \in Kinds /\ op \in TreeOps
  BY DEF Kinds, TreeOps
<1>2. Forest(kids) /\ Len(kids) = Len(e) + Len(f) /\ Arities("binary", kids)
  BY TwoRoots
<1> HIDE DEF kids
<1>3. kids \in Seq(TreeNodes)
  BY <1>2, ForestFacts
<1>4. IsTree(g, "binary", op, at, kids)
  BY <1>1, <1>3, TreeFacts
<1> HIDE DEF g
<1>5. Sorted(g[1])
  BY <1>4 DEF IsTree, Sorted
<1>6. OneTree(g) /\ Len(g) = Len(kids) + 1 /\ g[1].at = at
  BY <1>1, <1>2, <1>5, TreeForest DEF g
<1> QED
  BY <1>2, <1>6 DEF g, kids

\* A function above any forest is a tree.
LEMMA CallTree ==
  ASSUME NEW op \in Funcs, NEW at \in Nat, NEW kids, Forest(kids)
  PROVE  OneTree(Tree("function", op, at, kids)) /\ Len(Tree("function", op, at, kids)) = Len(kids) + 1
<1> DEFINE g == Tree("function", op, at, kids)
<1>1. "function" \in Kinds /\ op \in TreeOps /\ "function" \notin LeafKinds
  BY DEF Kinds, LeafKinds, TreeOps
<1>2. kids \in Seq(TreeNodes) /\ Arities("function", kids)
  BY <1>1, ForestFacts DEF Arities
<1>3. IsTree(g, "function", op, at, kids)
  BY <1>1, <1>2, TreeFacts
<1> HIDE DEF g
<1>4. Sorted(g[1])
  BY <1>3 DEF IsTree, Sorted
<1>5. OneTree(g) /\ Len(g) = Len(kids) + 1
  BY <1>1, <1>2, <1>4, TreeForest DEF g
<1> QED
  BY <1>5 DEF g

\* What is derived are trees, or for the arguments of a call a forest, of no
\* more nodes than there are tokens.
Small(f, i, j) == Len(f) =< (j + 1) - i

MadeWell(s, level, i, j) ==
    \A t \in Expression(s)[Place(level, i, j)] :
       IF level = 14 THEN i =< j + 1 => Forest(t) /\ Small(t, i, j)
       ELSE OneTree(t) /\ Small(t, i, j)

MadeWellWithin(s, level, i, j) ==
    \A level2 \in 1 .. 14, i2 \in 1 .. Len(s) + 1, j2 \in 0 .. Len(s) :
       Within(level2, i2, j2, level, i, j) => MadeWell(s, level2, i2, j2)

\* Below a place where trees are well made so far: expressions.
LEMMA WellExpression ==
  ASSUME NEW s \in Seq(Tokens), NEW level, NEW i, NEW j, MadeWellWithin(s, level, i, j),
         NEW level2 \in 1 .. 13, NEW i2 \in 1 .. Len(s) + 1, NEW j2 \in 0 .. Len(s),
         Within(level2, i2, j2, level, i, j), NEW e \in Expression(s)[Place(level2, i2, j2)]
  PROVE  OneTree(e) /\ Small(e, i2, j2) /\ Len(e) \in Nat
<1>1. level2 \in 1 .. 14 /\ level2 # 14
  OBVIOUS
<1>2. MadeWell(s, level2, i2, j2)
  BY <1>1 DEF MadeWellWithin
<1>3. OneTree(e) /\ Small(e, i2, j2)
  BY <1>1, <1>2 DEF MadeWell
<1> QED
  BY <1>3, OneRoot

\* Below a place where trees are well made so far: lists.
LEMMA WellList ==
  ASSUME NEW s \in Seq(Tokens), NEW level, NEW i, NEW j, MadeWellWithin(s, level, i, j),
         NEW i2 \in 1 .. Len(s) + 1, NEW j2 \in 0 .. Len(s), i2 =< j2 + 1,
         Within(14, i2, j2, level, i, j), NEW f \in Expression(s)[Place(14, i2, j2)]
  PROVE  Forest(f) /\ Small(f, i2, j2) /\ Len(f) \in Nat
<1>1. 14 \in 1 .. 14
  OBVIOUS
<1>2. MadeWell(s, 14, i2, j2)
  BY <1>1 DEF MadeWellWithin
<1>3. Forest(f) /\ Small(f, i2, j2)
  BY <1>2 DEF MadeWell
<1> QED
  BY <1>3, ForestFacts

\* A list is a forest with no more nodes than tokens.
LEMMA ListMadeWell ==
  ASSUME NEW s \in Seq(Tokens), NEW i \in 1 .. Len(s), NEW j \in 1 .. Len(s), i =< j,
         MadeWellWithin(s, 14, i, j), NEW t \in ExpressionList(Expression(s), s, i, j)
  PROVE  Forest(t) /\ Small(t, i, j)
<1> DEFINE d == Expression(s)
<1>0. Len(s) \in Nat /\ ~(i > j) /\ i \in 1 .. Len(s) + 1 /\ j \in 0 .. Len(s) /\ 13 \in 1 .. 13
  <2>1. Len(s) \in Nat
    OBVIOUS
  <2> QED
    BY <2>1
<1>1. CASE t \in d[Place(13, i, j)]
  <2>1. Within(13, i, j, 14, i, j)
    BY <1>0 DEF Within
  <2>2. OneTree(t) /\ Small(t, i, j)
    BY <1>0, <1>1, <2>1, WellExpression
  <2> QED
    BY <2>2 DEF OneTree
<1>2. ASSUME NEW k \in i + 1 .. j, SplitAt(d, i, k, j, t)
      PROVE  Forest(t) /\ Small(t, i, j)
  <2>1. PICK b \in 0 .. Len(s), a \in 1 .. Len(s) + 1 : b = k - 1 /\ a = k + 1
    <3>1. k - 1 \in 0 .. Len(s) /\ k + 1 \in 1 .. Len(s) + 1
      BY <1>0
    <3> QED
      BY <3>1
  <2>2. PICK e \in d[Place(13, i, b)], rest \in d[Place(14, a, j)] : t = e \o rest
    BY <1>2, <2>1 DEF SplitAt
  <2>3. Within(13, i, b, 14, i, j) /\ Within(14, a, j, 14, i, j) /\ a =< j + 1
    BY <1>0, <2>1 DEF Within
  <2>4. OneTree(e) /\ Small(e, i, b) /\ Len(e) \in Nat
    BY <1>0, <2>3, WellExpression
  <2>5. Forest(rest) /\ Small(rest, a, j) /\ Len(rest) \in Nat
    BY <1>0, <2>3, WellList
  <2>6. Forest(e)
    BY <2>4 DEF OneTree
  <2>7. Forest(t)
    BY <2>2, <2>5, <2>6, JoinForests
  <2>8. Len(t) = Len(e) + Len(rest)
    <3>1. e \in Seq(TreeNodes) /\ rest \in Seq(TreeNodes)
      BY <2>5, <2>6, ForestFacts
    <3> QED
      BY <2>2, <3>1, JoinFacts
  <2>9. Small(t, i, j)
    <3> DEFINE x == Len(e)
               y == Len(rest)
               z == Len(t)
    <3>1. x \in Nat /\ y \in Nat /\ x =< (b + 1) - i /\ y =< (j + 1) - a /\ z = x + y
      BY <2>4, <2>5, <2>8 DEF Small
    <3> HIDE DEF x, y, z
    <3>2. z =< (j + 1) - i
      BY <1>0, <2>1, <3>1
    <3> QED
      BY <3>2 DEF Small, z
  <2> QED
    BY <2>7, <2>9
<1> QED
  BY <1>0, <1>1, <1>2, ListMembers

\* A term is one tree with no more nodes than tokens.
LEMMA TermMadeWell ==
  ASSUME NEW s \in Seq(Tokens), NEW i \in 1 .. Len(s), NEW j \in 1 .. Len(s), i =< j,
         MadeWellWithin(s, 1, i, j), NEW t \in Term(Expression(s), s, i, j)
  PROVE  OneTree(t) /\ Small(t, i, j)
<1> DEFINE d == Expression(s)
<1>0. Len(s) \in Nat /\ i \in Nat /\ 13 \in 1 .. 13
  <2>1. Len(s) \in Nat
    OBVIOUS
  <2> QED
    BY <2>1
<1>1. CASE i = j /\ \E kind \in Under(LeafRules, s[i]) : t = Tree(kind, "none", i, <<>>)
  <2>1. PICK kind \in Under(LeafRules, s[i]) : t = Tree(kind, "none", i, <<>>)
    BY <1>1
  <2>2. kind \in LeafKinds /\ kind # "error"
    BY UnderFacts
  <2>3. OneTree(t) /\ Len(t) = 1
    BY <1>0, <2>1, <2>2, LeafTree
  <2>4. 1 =< (j + 1) - i
    BY <1>0, <1>1
  <2> QED
    BY <2>3, <2>4 DEF Small
<1>2. CASE s[i] = "(" /\ s[j] = ")" /\ t \in d[Place(13, i + 1, j - 1)]
  <2>1. i < j
    <3>1. i # j
      BY <1>2
    <3> QED
      BY <1>0, <3>1
  <2>2. PICK a \in 1 .. Len(s) + 1, b \in 0 .. Len(s) : a = i + 1 /\ b = j - 1
    <3>1. i + 1 \in 1 .. Len(s) + 1 /\ j - 1 \in 0 .. Len(s)
      BY <1>0
    <3> QED
      BY <3>1
  <2>3. Within(13, a, b, 1, i, j)
    BY <1>0, <2>2 DEF Within
  <2>4. OneTree(t) /\ Small(t, a, b) /\ Len(t) \in Nat
    BY <1>0, <1>2, <2>2, <2>3, WellExpression
  <2> QED
    BY <1>0, <2>2, <2>4 DEF Small
<1>3. CASE t \in FunctionCall(d, s, i, j)
  <2>1. ~(j < i + 2)
    BY <1>3, CallMembers
  <2>2. PICK a \in 1 .. Len(s) + 1, b \in 0 .. Len(s) : a = i + 2 /\ b = j - 1
    <3>1. i + 2 \in 1 .. Len(s) + 1 /\ j - 1 \in 0 .. Len(s)
      BY <1>0, <2>1
    <3> QED
      BY <3>1
  <2>3. PICK func \in Under(FunctionRules, s[i]), args \in d[Place(14, a, b)] :
          t = Tree("function", func, i, args)
    BY <1>3, <2>2, CallMembers
  <2>4. Within(14, a, b, 1, i, j) /\ a =< b + 1
    BY <1>0, <2>1, <2>2 DEF Within
  <2>5. Forest(args) /\ Small(args, a, b) /\ Len(args) \in Nat
    BY <2>4, WellList
  <2>6. func \in Funcs
    BY UnderFacts
  <2>7. OneTree(t) /\ Len(t) = Len(args) + 1
    BY <1>0, <2>3, <2>5, <2>6, CallTree
  <2> QED
    BY <1>0, <2>2, <2>5, <2>7 DEF Small
<1> QED
  BY <1>1, <1>2, <1>3, TermMembers

\* An operation is one tree with no more nodes than tokens.
LEMMA OperationMadeWell ==
  ASSUME NEW s \in Seq(Tokens), NEW level \in 2 .. 13, NEW i \in 1 .. Len(s), NEW j \in 1 .. Len(s), i =< j,
         MadeWellWithin(s, level, i, j), NEW t,
         \/ t \in Expression(s)[Place(level - 1, i, j)]
         \/ t \in Binary(Expression(s), s, level, i, j)
         \/ level = 2 /\ t \in Postfix(Expression(s), s, i, j)
         \/ level = 3 /\ t \in Prefix(Expression(s), s, i, j)
  PROVE  OneTree(t) /\ Small(t, i, j)
<1> DEFINE d == Expression(s)
<1>0. /\ Len(s) \in Nat /\ i \in 1 .. Len(s) + 1 /\ j \in 0 .. Len(s) /\ 2 \in 1 .. 13 /\ 3 \in 1 .. 13
      /\ i \in Nat /\ j \in Nat
  <2>1. Len(s) \in Nat
    OBVIOUS
  <2> QED
    BY <2>1
<1>1. CASE t \in d[Place(level - 1, i, j)]
  <2>1. PICK l \in 1 .. 13 : l = level - 1
    OBVIOUS
  <2>2. Within(l, i, j, level, i, j) /\ t \in d[Place(l, i, j)]
    BY <1>0, <1>1, <2>1 DEF Within
  <2> QED
    BY <1>0, <2>2, WellExpression
<1>2. CASE t \in Binary(d, s, level, i, j)
  <2>1. PICK k \in i + 1 .. j - 1, rule \in InfixRules :
          rule.level = level /\ rule.token = s[k] /\ t \in BinaryAt(d, rule, i, k, j)
    BY <1>2, BinaryMembers
  <2>2. PICK l \in 1 .. 13, r \in 1 .. 13 : l = Lhs(level) /\ r = Rhs(level)
    <3>1. Lhs(level) \in 1 .. 13 /\ Rhs(level) \in 1 .. 13
      BY DEF Lhs, Rhs
    <3> QED
      BY <3>1
  <2>3. PICK b \in 0 .. Len(s), a \in 1 .. Len(s) + 1 : b = k - 1 /\ a = k + 1
    <3>1. k - 1 \in 0 .. Len(s) /\ k + 1 \in 1 .. Len(s) + 1
      BY <1>0
    <3> QED
      BY <3>1
  <2>4. PICK lhs \in d[Place(l, i, b)], rhs \in d[Place(r, a, j)] : t = Tree("binary", rule.opcode, k, lhs \o rhs)
    <3> HIDE DEF d
    <3>1. PICK lhs \in d[Place(Lhs(rule.level), i, k - 1)], rhs \in d[Place(Rhs(rule.level), k + 1, j)] :
            t = Tree("binary", rule.opcode, k, lhs \o rhs)
      BY <2>1, BinaryAtMembers
    <3>2. Lhs(rule.level) = l /\ Rhs(rule.level) = r
      BY <2>1, <2>2
    <3> QED
      BY <2>3, <3>1, <3>2
  <2>5. Within(l, i, b, level, i, j) /\ Within(r, a, j, level, i, j) /\ k \in Nat
    BY <1>0, <2>3 DEF Within
  <2>6. OneTree(lhs) /\ Small(lhs, i, b) /\ Len(lhs) \in Nat
    BY <1>0, <2>5, WellExpression
  <2>7. OneTree(rhs) /\ Small(rhs, a, j) /\ Len(rhs) \in Nat
    BY <1>0, <2>5, WellExpression
  <2>8. rule.opcode \in BinaryOps
    BY RuleFacts
  <2>9. OneTree(t) /\ Len(t) = Len(lhs) + Len(rhs) + 1
    BY <2>4, <2>5, <2>6, <2>7, <2>8, BinaryTree
  <2>10. Small(t, i, j)
    <3> DEFINE x == Len(lhs)
               y == Len(rhs)
               z == Len(t)
    <3>1. x \in Nat /\ y \in Nat /\ x =< (b + 1) - i /\ y =< (j + 1) - a /\ z = x + y + 1
      BY <2>6, <2>7, <2>9 DEF Small
    <3> HIDE DEF x, y, z
    <3>2. z =< (j + 1) - i
      BY <1>0, <2>3, <2>5, <3>1
    <3> QED
      BY <3>2 DEF Small, z
  <2> QED
    BY <2>9, <2>10
<1>3. CASE level = 2 /\ t \in Postfix(d, s, i, j)
  <2>1. PICK b \in 0 .. Len(s) : b = j - 1
    <3>1. j - 1 \in 0 .. Len(s)
      BY <1>0
    <3> QED
      BY <3>1
  <2>2. PICK e \in d[Place(2, i, b)] : t = Tree("unary", "Degrees", j, e)
    BY <1>3, <2>1, PostfixMembers
  <2>3. Within(2, i, b, level, i, j) /\ "Degrees" \in UnaryOps
    BY <1>0, <2>1 DEF Within, UnaryOps
  <2>4. OneTree(e) /\ Small(e, i, b) /\ Len(e) \in Nat
    BY <1>0, <2>3, WellExpression
  <2>5. OneTree(t) /\ Len(t) = Len(e) + 1
    BY <1>0, <2>2, <2>3, <2>4, UnaryTree
  <2> QED
    BY <1>0, <2>1, <2>4, <2>5 DEF Small
<1>4. CASE level = 3 /\ t \in Prefix(d, s, i, j)
  <2>1. PICK a \in 1 .. Len(s) + 1 : a = i + 1
    <3>1. i + 1 \in 1 .. Len(s) + 1
      BY <1>0
    <3> QED
      BY <3>1
  <2>2. PICK opcode \in Under(PrefixRules, s[i]), e \in d[Place(3, a, j)] : t = Tree("unary", opcode, i, e)
    BY <1>4, <2>1, PrefixMembers
  <2>3. Within(3, a, j, level, i, j) /\ opcode \in UnaryOps
    BY <1>0, <2>1, UnderFacts DEF Within
  <2>4. OneTree(e) /\ Small(e, a, j) /\ Len(e) \in Nat
    BY <1>0, <2>3, WellExpression
  <2>5. OneTree(t) /\ Len(t) = Len(e) + 1
    BY <1>0, <2>2, <2>3, <2>4, UnaryTree
  <2> QED
    BY <1>0, <2>1, <2>4, <2>5 DEF Small
<1> QED
  BY <1>1, <1>2, <1>3, <1>4

\* What a place derives is well made, if what lighter places derive is.
LEMMA MadeWellStep ==
  ASSUME NEW s \in Seq(Tokens),
         NEW level \in 1 .. 14, NEW i \in 1 .. Len(s) + 1, NEW j \in 0 .. Len(s),
         i =< j => MadeWellWithin(s, level, i, j)
  PROVE  MadeWell(s, level, i, j)
<1> DEFINE d == Expression(s)
<1>0. Len(s) \in Nat
  OBVIOUS
<1>1. d[Place(level, i, j)] = Derives(d, s, level, i, j)
  BY ExpressionFacts
<1>2. CASE level = 14
  <2> SUFFICES ASSUME NEW t \in d[Place(14, i, j)], i =< j + 1
               PROVE  Forest(t) /\ Small(t, i, j)
    BY <1>2 DEF MadeWell
  <2>1. t \in ExpressionList(d, s, i, j)
    BY <1>1, <1>2 DEF Derives, Arguments, Loosest
  <2>2. CASE i > j
    <3>1. t = <<>>
      BY <2>1, <2>2, EmptyList
    <3>2. Forest(t) /\ Len(t) = 0
      BY <3>1, NoTrees
    <3>3. 0 =< (j + 1) - i
      BY <1>0
    <3> QED
      BY <3>2, <3>3 DEF Small
  <2>3. CASE ~(i > j)
    <3>1. i =< j /\ i \in 1 .. Len(s) /\ j \in 1 .. Len(s)
      BY <1>0, <2>3
    <3> QED
      BY <1>2, <2>1, <3>1, ListMadeWell
  <2> QED
    BY <2>2, <2>3
<1>3. CASE level # 14
  <2> SUFFICES ASSUME NEW t \in d[Place(level, i, j)]
               PROVE  OneTree(t) /\ Small(t, i, j)
    BY <1>3 DEF MadeWell
  <2>0. level \in 1 .. 13
    BY <1>3
  <2>1. /\ ~(i > j)
        /\ \/ level = 1 /\ t \in Term(d, s, i, j)
           \/ level # 1 /\ t \in d[Place(level - 1, i, j)]
           \/ level # 1 /\ t \in Binary(d, s, level, i, j)
           \/ level = 2 /\ t \in Postfix(d, s, i, j)
           \/ level = 3 /\ t \in Prefix(d, s, i, j)
    BY <1>1, <2>0, LevelMembers
  <2>2. i =< j /\ i \in 1 .. Len(s) /\ j \in 1 .. Len(s)
    BY <1>0, <2>1
  <2>3. CASE level = 1
    BY <2>1, <2>2, <2>3, TermMadeWell
  <2>4. CASE level # 1
    <3>1. level \in 2 .. 13
      BY <2>0, <2>4
    <3> QED
      BY <2>1, <2>2, <2>4, <3>1, OperationMadeWell
  <2> QED
    BY <2>3, <2>4
<1> QED
  BY <1>2, <1>3

\* Whatever the grammar derives is well made: trees, or for lists forests, with no more nodes than tokens.
LEMMA AllMadeWell ==
  ASSUME NEW s \in Seq(Tokens)
  PROVE  \A level \in 1 .. 14, i \in 1 .. Len(s) + 1, j \in 0 .. Len(s) : MadeWell(s, level, i, j)
<1> DEFINE G == {p \in Places(s) : MadeWell(s, p[1], p[2], p[3])}
<1>1. \A level \in 1 .. 14, i \in 1 .. Len(s) + 1, j \in 0 .. Len(s) :
         Place(level, i, j) \in G <=> MadeWell(s, level, i, j)
  <2>1. \A level \in 1 .. 14, i \in 1 .. Len(s) + 1, j \in 0 .. Len(s) : Place(level, i, j) \in Places(s)
    BY WeightFacts
  <2> QED
    BY <2>1 DEF Place
<1> HIDE DEF G
<1>2. \A level \in 1 .. 14, i \in 1 .. Len(s) + 1, j \in 0 .. Len(s) :
         (i =< j => \A level2 \in 1 .. 14, i2 \in 1 .. Len(s) + 1, j2 \in 0 .. Len(s) :
                       Within(level2, i2, j2, level, i, j) => Place(level2, i2, j2) \in G)
         => Place(level, i, j) \in G
  BY <1>1, MadeWellStep DEF MadeWellWithin
<1>3. \A level \in 1 .. 14, i \in 1 .. Len(s) + 1, j \in 0 .. Len(s) : Place(level, i, j) \in G
  BY <1>2, SpanInduction
<1> QED
  BY <1>1, <1>3

-----------------------------------------------------------------------------
(* The root.                                                               *)

\* The ranks are the levels, counted from the loosest.
RankOf(role) == 14 - (IF role = "prefix" THEN 3 ELSE IF role = "deg" THEN 2 ELSE LevelOf(role))

\* The rows of LoosestFirst.
LEMMA LoosestRows ==
  /\ DOMAIN LoosestFirst = 1 .. 12
  /\ LoosestFirst[1] = {"||"} /\ LoosestFirst[2] = {"&&"} /\ LoosestFirst[3] = {"|"}
  /\ LoosestFirst[4] = {"^"} /\ LoosestFirst[5] = {"&"} /\ LoosestFirst[6] = {"==", "!=", "~="}
  /\ LoosestFirst[7] = {"<", ">", "<=", ">="} /\ LoosestFirst[8] = {"<<", ">>"}
  /\ LoosestFirst[9] = {"+", "-"} /\ LoosestFirst[10] = {"*", "/", "%"}
  /\ LoosestFirst[11] = {"**", "prefix"} /\ LoosestFirst[12] = {"deg"}
  BY DEF LoosestFirst

\* The row of each operator; the rows run against the levels of the grammar.
LEMMA RowOf ==
  ASSUME NEW role \in {"||", "&&", "|", "^", "&", "==", "!=", "~=", "<", ">", "<=", ">=", "<<", ">>",
                       "+", "-", "*", "/", "%", "**", "prefix", "deg"}
  PROVE  /\ RankOf(role) \in 1 .. 12
         /\ \A r \in 1 .. 12 : role \in LoosestFirst[r] <=> r = RankOf(role)
         /\ role \in {"**", "prefix"} <=> RankOf(role) = 11
<1>1. RankOf(role) = CASE role = "||" -> 1 [] role = "&&" -> 2 [] role = "|" -> 3 [] role = "^" -> 4
                       [] role = "&" -> 5 [] role \in {"==", "!=", "~="} -> 6
                       [] role \in {"<", ">", "<=", ">="} -> 7 [] role \in {"<<", ">>"} -> 8
                       [] role \in {"+", "-"} -> 9 [] role \in {"*", "/", "%"} -> 10
                       [] role \in {"**", "prefix"} -> 11 [] role = "deg" -> 12
  BY DEF RankOf, LevelOf
<1>2. RankOf(role) \in 1 .. 12
  BY <1>1
<1>3. \A r \in 1 .. 12 : \/ r = 1 \/ r = 2 \/ r = 3 \/ r = 4 \/ r = 5 \/ r = 6
                         \/ r = 7 \/ r = 8 \/ r = 9 \/ r = 10 \/ r = 11 \/ r = 12
  OBVIOUS
<1>4. ASSUME NEW r \in 1 .. 12
      PROVE  role \in LoosestFirst[r] <=> r = RankOf(role)
  BY <1>1, <1>3, LoosestRows
<1>5. role \in {"**", "prefix"} <=> RankOf(role) = 11
  BY <1>1
<1>6. \A r \in 1 .. 12 : role \in LoosestFirst[r] <=> r = RankOf(role)
  BY <1>4
<1> HIDE DEF RankOf
<1> QED
  BY <1>2, <1>5, <1>6

\* What an operator token that is read stands for.
LEMMA RankIs ==
  ASSUME NEW s \in Seq(Tokens), NEW n \in 1 .. Len(s), AsOperator(s, Reading(s), n)
  PROVE  /\ Rank(s, n) = 14 - OperatorLevel(s, Reading(s), n)
         /\ Role(s, n) \in {"**", "prefix"} <=> OperatorLevel(s, Reading(s), n) = 3
<1> DEFINE R == Reading(s)
           l == OperatorLevel(s, R, n)
<1>1. /\ Role(s, n) \in {"||", "&&", "|", "^", "&", "==", "!=", "~=", "<", ">", "<=", ">=", "<<", ">>",
                         "+", "-", "*", "/", "%", "**", "prefix", "deg"}
      /\ RankOf(Role(s, n)) = 14 - l /\ l \in Int
  <2>1. CASE R[n - 1].want = "operand"
    <3>1. Role(s, n) = "prefix" /\ l = 3
      BY <2>1 DEF Role, AsOperator, OperatorLevel
    <3> QED
      BY <3>1 DEF RankOf
  <2>2. CASE R[n - 1].want = "operator" /\ s[n] \in InfixTokens
    <3>1. Role(s, n) = s[n] /\ s[n] # "deg" /\ s[n] # "prefix" /\ l = LevelOf(s[n])
      BY <2>2 DEF Role, OperatorLevel, InfixTokens, InfixRules, Infix
    <3>2. \E rule \in InfixRules : rule.token = s[n] /\ rule.level \in 3 .. 13 /\ rule.level = LevelOf(s[n])
      BY <2>2, RuleFacts
    <3>3. s[n] \in {"||", "&&", "|", "^", "&", "==", "!=", "~=", "<", ">", "<=", ">=", "<<", ">>",
                    "+", "-", "*", "/", "%", "**"}
      BY <2>2 DEF InfixTokens, InfixRules, Infix
    <3> QED
      BY <3>1, <3>2, <3>3 DEF RankOf
  <2>3. CASE R[n - 1].want = "operator" /\ s[n] = "deg"
    <3>1. Role(s, n) = "deg" /\ l = 2
      BY <2>3 DEF Role, OperatorLevel
    <3> QED
      BY <3>1 DEF RankOf
  <2> QED
    BY <2>1, <2>2, <2>3 DEF AsOperator
<1> HIDE DEF R, l
<1>2. /\ RankOf(Role(s, n)) \in 1 .. 12
      /\ \A r \in 1 .. 12 : Role(s, n) \in LoosestFirst[r] <=> r = RankOf(Role(s, n))
      /\ Role(s, n) \in {"**", "prefix"} <=> RankOf(Role(s, n)) = 11
  <2>1. PICK role : role = Role(s, n)
    OBVIOUS
  <2> QED
    BY <1>1, <2>1, RowOf
<1>3. DOMAIN LoosestFirst = 1 .. 12
  BY LoosestRows
<1>4. Rank(s, n) = RankOf(Role(s, n))
  BY <1>2, <1>3 DEF Rank
<1>5. Rank(s, n) = 14 - l
  BY <1>1, <1>4
<1>6. RankOf(Role(s, n)) = 11 <=> l = 3
  BY <1>1
<1> QED
  BY <1>2, <1>5, <1>6 DEF R, l

\* The history of the root of a tree made at m is m.
LEMMA RootMadeAt ==
  ASSUME NEW s \in Seq(Tokens), NEW level \in 2 .. 13, NEW i \in 1 .. Len(s), NEW j \in 1 .. Len(s),
         NEW m \in 1 .. Len(s), NEW t, MadeAt(s, level, i, j, m, t)
  PROVE  t[1].at = m
<1> DEFINE d == Expression(s)
<1>0. Len(s) \in Nat /\ m \in Nat /\ 2 \in 1 .. 14 /\ 3 \in 1 .. 14 /\ 2 # 14 /\ 3 # 14
  <2>1. Len(s) \in Nat
    OBVIOUS
  <2> QED
    BY <2>1
<1>1. ASSUME NEW l \in 1 .. 13, NEW a \in 1 .. Len(s) + 1, NEW b \in 0 .. Len(s), NEW e \in d[Place(l, a, b)]
      PROVE  OneTree(e)
  <2>1. l \in 1 .. 14 /\ l # 14
    OBVIOUS
  <2>2. MadeWell(s, l, a, b)
    BY <2>1, AllMadeWell
  <2> QED
    BY <2>1, <2>2 DEF MadeWell
<1>2. i \in 1 .. Len(s) + 1 /\ j \in 0 .. Len(s) /\ m - 1 \in 0 .. Len(s) /\ m + 1 \in 1 .. Len(s) + 1
      /\ j - 1 \in 0 .. Len(s) /\ 2 \in 1 .. 13 /\ 3 \in 1 .. 13
  BY <1>0
<1> HIDE DEF d
<1>3. CASE InfixMade(s, level, i, j, m, t)
  <2>1. PICK rule \in InfixRules : rule.level = level /\ t \in BinaryAt(d, rule, i, m, j)
    BY <1>3 DEF InfixMade, d
  <2>2. PICK lhs \in d[Place(Lhs(rule.level), i, m - 1)], rhs \in d[Place(Rhs(rule.level), m + 1, j)] :
          t = Tree("binary", rule.opcode, m, lhs \o rhs)
    BY <2>1, BinaryAtMembers
  <2>3. Lhs(rule.level) \in 1 .. 13 /\ Rhs(rule.level) \in 1 .. 13
    BY <2>1 DEF Lhs, Rhs
  <2>4. OneTree(lhs) /\ OneTree(rhs)
    BY <1>1, <1>2, <2>2, <2>3
  <2>5. rule.opcode \in BinaryOps
    BY RuleFacts
  <2>6. PICK op \in BinaryOps : op = rule.opcode
    BY <2>5
  <2>7. Tree("binary", op, m, lhs \o rhs)[1].at = m
    BY <1>0, <2>4, BinaryTree
  <2> QED
    BY <2>2, <2>6, <2>7
<1>4. CASE \E e \in d[Place(2, i, j - 1)] : t = Tree("unary", "Degrees", m, e)
  <2>1. PICK e \in d[Place(2, i, j - 1)] : t = Tree("unary", "Degrees", m, e)
    BY <1>4
  <2>2. OneTree(e) /\ "Degrees" \in UnaryOps
    BY <1>1, <1>2 DEF UnaryOps
  <2> QED
    BY <1>0, <2>1, <2>2, UnaryTree
<1>5. CASE \E opcode \in Under(PrefixRules, s[m]), e \in d[Place(3, m + 1, j)] : t = Tree("unary", opcode, m, e)
  <2>1. PICK opcode \in Under(PrefixRules, s[m]), e \in d[Place(3, m + 1, j)] : t = Tree("unary", opcode, m, e)
    BY <1>5
  <2>2. OneTree(e)
    BY <1>1, <1>2
  <2>3. opcode \in UnaryOps
    BY UnderFacts
  <2> QED
    BY <1>0, <2>1, <2>2, <2>3, UnaryTree
<1> QED
  BY <1>3, <1>4, <1>5 DEF MadeAt, d

\* m is the operator that RootIsLoosest asks for.
LoosestAt(s, m) ==
    LET rank == [n \in Outside(s) |-> Rank(s, n)]
        ties == {n \in Outside(s) : \A k \in Outside(s) : rank[n] =< rank[k]}
    IN  /\ m \in ties
        /\ \A n \in ties : IF Role(s, m) \in {"**", "prefix"} THEN m =< n ELSE n =< m

\* The root of a tree is the loosest operator outside brackets, of ties the one its associativity says.
LEMMA RootLoosest ==
  ASSUME NEW s \in Seq(Tokens), NEW t \in Parses(s), Outside(s) # {}
  PROVE  LoosestAt(s, t[1].at)
<1> DEFINE R == Reading(s)
           j == Len(s)
<1>0. j \in Nat /\ ReadsTo(R, s, j) /\ 1 =< j /\ 1 - 1 = 0 /\ R[1 - 1].want = "operand" /\ Spans(s, R, 13, 1, j)
  BY ReadingFacts, StepFacts, WholeFacts
<1>1. 1 \in 1 .. j /\ j \in 1 .. j /\ 1 \in 1 .. j + 1 /\ j \in 0 .. j
  BY <1>0
<1>2. \A n \in 1 .. j : R[n].want # "nothing"
  <2>1. \A n \in 1 - 1 .. j : R[n].want # "nothing"
    BY <1>0, <1>1, SpanAlive
  <2> QED
    BY <1>0, <2>1
<1>3. \A n : n \in Outside(s) <=> n \in 1 .. j /\ AtBase(R, 1, n) /\ s[n] \in OperatorTokens
  BY WholeFacts DEF Outside, OperatorTokens
<1>4. \A n \in Outside(s) : /\ OperatorLevel(s, R, n) \in 2 .. 13
                            /\ Rank(s, n) = 14 - OperatorLevel(s, R, n)
  BY <1>0, <1>2, <1>3, OperatorKinds, RankIs
<1>5. \A n \in Outside(s) : Role(s, n) \in {"**", "prefix"} <=> OperatorLevel(s, R, n) = 3
  BY <1>0, <1>2, <1>3, OperatorKinds, RankIs
<1>6. PICK l \in 1 .. 13 : /\ t \in Expression(s)[Place(l, 1, j)]
                           /\ \A k \in 1 .. 13 : t \in Expression(s)[Place(k, 1, j)] => l =< k
  <2> DEFINE L == {k \in 1 .. 13 : t \in Expression(s)[Place(k, 1, j)]}
  <2>1. 13 \in L
    BY DEF Parses, Loosest
  <2>2. L # {} /\ L \subseteq Nat
    BY <2>1
  <2>3. PICK l \in L : \A k \in L : l =< k
    <3> HIDE DEF L
    <3> QED
      BY <2>2, LeastNumber
  <2> QED
    BY <2>3
<1>7. Spans(s, R, l, 1, j)
  BY <1>0, <1>1, <1>6, ExpressionSpans
<1>8. \A n \in Outside(s) : OperatorLevel(s, R, n) \in 2 .. l
  BY <1>3, <1>7 DEF Spans, Fits
<1>9. l \in 2 .. 13 /\ l - 1 \in 1 .. 13 /\ ~(l =< l - 1)
  BY <1>8
<1>10. t \notin Expression(s)[Place(l - 1, 1, j)]
  BY <1>6, <1>9
<1>11. PICK m \in 1 .. j : IsRoot(s, R, l, 1, j, m) /\ MadeAt(s, l, 1, j, m, t)
  BY <1>0, <1>1, <1>6, <1>9, <1>10, RootOf
<1>12. t[1].at = m
  BY <1>1, <1>9, <1>11, RootMadeAt
<1> HIDE DEF R, j
<1>13. /\ m \in Outside(s) /\ OperatorLevel(s, R, m) = l
       /\ \A n \in Outside(s) : OperatorLevel(s, R, n) = l => IF l = 3 THEN m =< n ELSE n =< m
  BY <1>3, <1>11 DEF IsRoot, BaseOperator
<1>14. \A n \in Outside(s) : Rank(s, m) =< Rank(s, n)
  BY <1>4, <1>8, <1>13
<1>15. \A n \in Outside(s) : Rank(s, n) =< Rank(s, m) => OperatorLevel(s, R, n) = l
  BY <1>4, <1>8, <1>13
<1> DEFINE rank == [n \in Outside(s) |-> Rank(s, n)]
           ties == {n \in Outside(s) : \A k \in Outside(s) : rank[n] =< rank[k]}
<1>16. m \in ties
  BY <1>13, <1>14
<1>17. \A n \in ties : n \in Outside(s) /\ OperatorLevel(s, R, n) = l
  BY <1>13, <1>15
<1> HIDE DEF ties
<1>18. \A n \in ties : IF Role(s, m) \in {"**", "prefix"} THEN m =< n ELSE n =< m
  BY <1>5, <1>13, <1>17
<1> QED
  BY <1>12, <1>16, <1>18 DEF LoosestAt, ties

-----------------------------------------------------------------------------
(* The numbering in preorder that the limit check and the evaluator walk.  *)

\* How many of a set of numbers are up to m.
UpTo(C, m) == {k \in C : k =< m}
RankIn(C, m) == Cardinality(UpTo(C, m))

\* An element's rank in a set of numbers is between 1 and the set's size; the last one's is the size.
LEMMA RankBounds ==
  ASSUME NEW N \in Nat, NEW C \in SUBSET (1 .. N)
  PROVE  /\ IsFiniteSet(C) /\ Cardinality(C) \in Nat
         /\ \A m \in C : RankIn(C, m) \in 1 .. Cardinality(C)
         /\ \A m \in C : RankIn(C, m) = Cardinality(C) => \A k \in C : k =< m
<1>1. IsFiniteSet(1 .. N)
  BY FS_Interval
<1>2. IsFiniteSet(C) /\ Cardinality(C) \in Nat
  BY <1>1, FS_Subset, FS_CardinalityType
<1>3. ASSUME NEW m \in C
      PROVE  RankIn(C, m) \in 1 .. Cardinality(C) /\ (RankIn(C, m) = Cardinality(C) => \A k \in C : k =< m)
  <2> DEFINE S == UpTo(C, m)
  <2>1. S \in SUBSET C /\ m \in S
    BY DEF UpTo
  <2>2. \A k \in S : k =< m
    BY DEF UpTo
  <2> HIDE DEF S
  <2>3. IsFiniteSet(S) /\ Cardinality(S) =< Cardinality(C) /\ (Cardinality(C) = Cardinality(S) => C = S)
    BY <1>2, <2>1, FS_Subset
  <2>4. Cardinality(S) \in Nat /\ Cardinality(S) # 0
    BY <2>1, <2>3, FS_CardinalityType, FS_EmptySet
  <2>5. RankIn(C, m) = Cardinality(S)
    BY DEF RankIn, S
  <2> QED
    BY <1>2, <2>2, <2>3, <2>4, <2>5
<1> QED
  BY <1>2, <1>3

\* A number of the set that has the others up to it below it ranks one more
\* than these.
LEMMA RankNext ==
  ASSUME NEW N \in Nat, NEW C \in SUBSET (1 .. N), NEW m \in C, NEW p \in C, p < m,
         \A k \in C : k < m => k =< p
  PROVE  RankIn(C, m) = RankIn(C, p) + 1
<1>0. \A k \in C : k \in Int
  OBVIOUS
<1>1. UpTo(C, m) = UpTo(C, p) \cup {m} /\ m \notin UpTo(C, p) /\ UpTo(C, p) \in SUBSET C
  <2>1. \A k \in C : k =< m <=> k =< p \/ k = m
    BY <1>0
  <2>2. ~(m =< p)
    BY <1>0
  <2> QED
    BY <2>1, <2>2 DEF UpTo
<1>2. IsFiniteSet(C)
  BY RankBounds
<1>3. IsFiniteSet(UpTo(C, p))
  BY <1>1, <1>2, FS_Subset
<1> QED
  BY <1>1, <1>3, FS_AddElement DEF RankIn

\* So does a number that has none below it rank first.
LEMMA RankFirst ==
  ASSUME NEW N \in Nat, NEW C \in SUBSET (1 .. N), NEW m \in C, \A k \in C : m =< k
  PROVE  RankIn(C, m) = 1
<1>0. \A k \in C : k \in Int
  OBVIOUS
<1>1. UpTo(C, m) = {m}
  <2>1. \A k \in C : k =< m <=> k = m
    BY <1>0
  <2> QED
    BY <2>1 DEF UpTo
<1> QED
  BY <1>1, FS_Singleton DEF RankIn

\* Ranks are in the order of the elements.
LEMMA RankGrows ==
  ASSUME NEW N \in Nat, NEW C \in SUBSET (1 .. N), NEW m \in C, NEW p \in C, p < m
  PROVE  RankIn(C, p) < RankIn(C, m)
<1> DEFINE S == UpTo(C, p)
           T == UpTo(C, m)
<1>1. S \in SUBSET T /\ T \in SUBSET C /\ m \in T /\ m \notin S
  <2>1. \A k \in C : k \in Int
    OBVIOUS
  <2>2. \A k \in C : k =< p => k =< m
    BY <2>1
  <2>3. m =< m /\ ~(m =< p)
    BY <2>1
  <2> QED
    BY <2>2, <2>3 DEF UpTo
<1> HIDE DEF S, T
<1>2. IsFiniteSet(T)
  BY <1>1, RankBounds, FS_Subset
<1>3. IsFiniteSet(S) /\ Cardinality(S) =< Cardinality(T) /\ Cardinality(T) # Cardinality(S)
  BY <1>1, <1>2, FS_Subset
<1>4. Cardinality(S) \in Nat /\ Cardinality(T) \in Nat
  BY <1>2, <1>3, FS_CardinalityType
<1> QED
  BY <1>3, <1>4 DEF RankIn, S, T

\* Every rank is that of one number.
LEMMA RankTaken ==
  ASSUME NEW N \in Nat, NEW C \in SUBSET (1 .. N), NEW i \in 1 .. Cardinality(C)
  PROVE  /\ \E m \in C : RankIn(C, m) = i
         /\ \A m, p \in C : RankIn(C, m) = i /\ RankIn(C, p) = i => m = p
<1>0. IsFiniteSet(C) /\ Cardinality(C) \in Nat /\ C # {} /\ \A k \in C : k \in Nat
  <2>1. IsFiniteSet(C) /\ Cardinality(C) \in Nat
    BY RankBounds
  <2>2. Cardinality(C) # 0
    BY <2>1
  <2>3. C # {}
    BY <2>2, FS_EmptySet
  <2>4. \A k \in 1 .. N : k \in Nat
    OBVIOUS
  <2> QED
    BY <2>1, <2>3, <2>4
<1>1. PICK top \in C : \A k \in C : k =< top
  <2>1. PICK a \in Int, b \in Int : a = 1 /\ b = N
    OBVIOUS
  <2>2. C \in SUBSET (a .. b)
    BY <2>1
  <2> QED
    BY <1>0, <2>2, GreatestNumber
<1>2. RankIn(C, top) = Cardinality(C)
  <2>1. UpTo(C, top) = C
    BY <1>1 DEF UpTo
  <2> QED
    BY <2>1 DEF RankIn
<1>3. PICK m \in C : RankIn(C, m) >= i /\ \A k \in C : RankIn(C, k) >= i => m =< k
  <2> DEFINE S == {k \in C : RankIn(C, k) >= i}
  <2>1. top \in S
    BY <1>0, <1>2
  <2>2. S \in SUBSET Nat /\ S # {}
    BY <1>0, <2>1
  <2>3. PICK m \in S : \A k \in S : m =< k
    <3> HIDE DEF S
    <3> QED
      BY <2>2, LeastNumber
  <2> QED
    BY <2>3
<1>4. RankIn(C, m) = i
  <2> SUFFICES ASSUME RankIn(C, m) # i
               PROVE  FALSE
    OBVIOUS
  <2>1. RankIn(C, m) \in Nat /\ RankIn(C, m) > i /\ RankIn(C, m) # 1
    <3>1. RankIn(C, m) \in 1 .. Cardinality(C)
      BY RankBounds
    <3> QED
      BY <1>0, <1>3, <3>1
  <2> DEFINE S == {k \in C : k < m}
  <2>2. S # {}
    <3> SUFFICES ASSUME S = {}
                 PROVE  FALSE
      OBVIOUS
    <3>1. \A k \in C : m =< k
      BY <1>0
    <3> QED
      BY <2>1, <3>1, RankFirst
  <2>3. PICK a \in Int, b \in Int : a = 1 /\ b = N
    OBVIOUS
  <2>4. PICK p \in S : \A k \in S : k =< p
    <3>1. S \in SUBSET C
      OBVIOUS
    <3> HIDE DEF S
    <3>2. S \in SUBSET (a .. b)
      BY <2>3, <3>1
    <3> QED
      BY <2>2, <3>2, GreatestNumber
  <2>5. p \in C /\ p < m /\ \A k \in C : k < m => k =< p
    BY <2>4
  <2>6. RankIn(C, m) = RankIn(C, p) + 1 /\ RankIn(C, p) \in Nat
    <3>1. RankIn(C, p) \in 1 .. Cardinality(C)
      BY <2>5, RankBounds
    <3>2. RankIn(C, m) = RankIn(C, p) + 1
      BY <2>5, RankNext
    <3> QED
      BY <1>0, <3>1, <3>2
  <2>7. RankIn(C, p) >= i
    BY <2>1, <2>6
  <2>8. m =< p
    BY <1>3, <2>5, <2>7
  <2> QED
    BY <2>5, <2>8
<1>5. ASSUME NEW q \in C, NEW p \in C, RankIn(C, q) = i, RankIn(C, p) = i
      PROVE  q = p
  <2>1. ~(q < p) /\ ~(p < q)
    <3>1. q < p => RankIn(C, q) < RankIn(C, p)
      BY RankGrows
    <3>2. p < q => RankIn(C, p) < RankIn(C, q)
      BY RankGrows
    <3> QED
      BY <1>5, <3>1, <3>2
  <2> QED
    BY <2>1
<1> QED
  BY <1>4, <1>5

\* The depths of the nodes of a tree in preorder.
Preorder(d) ==
    /\ d \in Seq(Nat) /\ Len(d) > 0 /\ d[1] = 0
    /\ \A n \in 2 .. Len(d) : d[n] > 0 /\ d[n] =< d[n - 1] + 1

End(d, n) == Max(Subtree(d, n))

\* The subtree of n ends where the depth is back at that of n.
Ends(d, n, z) ==
    /\ z \in n .. Len(d) /\ \A k \in n + 1 .. z : d[k] > d[n]
    /\ z # Len(d) => d[z + 1] =< d[n]

\* The depths of a tree are numbers, of at least one node.
LEMMA PreorderFacts ==
  ASSUME NEW d, Preorder(d)
  PROVE  Len(d) \in Nat /\ 1 \in 1 .. Len(d) /\ \A n \in 1 .. Len(d) : d[n] \in Nat
<1>1. Len(d) \in Nat /\ \A n \in 1 .. Len(d) : d[n] \in Nat
  BY DEF Preorder
<1>2. 1 \in 1 .. Len(d)
  BY <1>1 DEF Preorder
<1> QED
  BY <1>1, <1>2

\* Where a subtree ends: the one node up to which everything is deeper, and not the next.
LEMMA EndFacts ==
  ASSUME NEW d, Preorder(d), NEW n \in 1 .. Len(d)
  PROVE  /\ Ends(d, n, End(d, n)) /\ End(d, n) \in 1 .. Len(d) /\ n =< End(d, n)
         /\ \A z \in n .. Len(d) : Ends(d, n, z) => z = End(d, n)
<1> DEFINE N == Len(d)
           S == Subtree(d, n)
<1>0. N \in Nat /\ n \in Int /\ N \in Int /\ \A m \in 1 .. N : d[m] \in Nat
  BY PreorderFacts
<1>1. \A m : m \in S <=> m \in n .. N /\ \A k \in n + 1 .. m : d[k] > d[n]
  BY DEF Subtree
<1>2. n \in S /\ S \in SUBSET (n .. N) /\ S # {}
  <2>1. n \in n .. N /\ \A k \in n + 1 .. n : FALSE
    BY <1>0
  <2> QED
    BY <1>1, <2>1
<1> HIDE DEF N, S
<1>3. PICK e \in S : \A m \in S : m =< e
  BY <1>0, <1>2, GreatestNumber
<1>4. \A m \in S : m \in Int
  BY <1>0, <1>2
<1>5. e \in S /\ \A m \in S : e >= m
  BY <1>3, <1>4
<1>6. End(d, n) \in S /\ \A m \in S : End(d, n) >= m
  <2>1. End(d, n) = CHOOSE x \in S : \A y \in S : x >= y
    BY DEF End, Max, S
  <2> QED
    BY <1>5, <2>1
<1>7. ASSUME NEW z \in n .. N
      PROVE  Ends(d, n, z) <=> z \in S /\ \A m \in S : m =< z
  <2>1. ASSUME Ends(d, n, z)
        PROVE  z \in S /\ \A m \in S : m =< z
    <3>1. z \in S
      BY <1>1, <2>1 DEF Ends, N
    <3>2. ASSUME NEW m \in S, ~(m =< z)
          PROVE  FALSE
      <4>1. z + 1 \in n + 1 .. m /\ z # N /\ z + 1 \in 1 .. N
        BY <1>0, <1>2, <3>2
      <4>2. d[z + 1] > d[n] /\ d[z + 1] =< d[n]
        BY <1>1, <2>1, <4>1 DEF Ends, N
      <4>3. d[z + 1] \in Nat /\ d[n] \in Nat
        BY <1>0, <4>1 DEF N
      <4> QED
        BY <4>2, <4>3
    <3> QED
      BY <3>1, <3>2
  <2>2. ASSUME z \in S, \A m \in S : m =< z
        PROVE  Ends(d, n, z)
    <3>1. \A k \in n + 1 .. z : d[k] > d[n]
      BY <1>1, <2>2
    <3>2. ASSUME z # N, ~(d[z + 1] =< d[n])
          PROVE  FALSE
      <4>1. z + 1 \in n .. N /\ z + 1 \in 1 .. N /\ n \in 1 .. N /\ ~(z + 1 =< z)
        BY <1>0, <3>2 DEF N
      <4>2. d[z + 1] > d[n]
        BY <1>0, <3>2, <4>1
      <4>3. \A k \in n + 1 .. z + 1 : k \in n + 1 .. z \/ k = z + 1
        BY <1>0
      <4>4. z + 1 \in S
        BY <1>1, <3>1, <4>1, <4>2, <4>3
      <4> QED
        BY <2>2, <4>1, <4>4
    <3> QED
      BY <3>1, <3>2 DEF Ends, N
  <2> QED
    BY <2>1, <2>2
<1>8. End(d, n) \in n .. N /\ \A m \in S : m =< End(d, n)
  BY <1>0, <1>2, <1>4, <1>6
<1>9. Ends(d, n, End(d, n))
  BY <1>6, <1>7, <1>8
<1>10. End(d, n) \in 1 .. N /\ n =< End(d, n)
  BY <1>0, <1>8 DEF N
<1>11. \A z \in n .. N : Ends(d, n, z) => z = End(d, n)
  <2> TAKE z \in n .. N
  <2> HAVE Ends(d, n, z)
  <2>1. z \in S /\ \A m \in S : m =< z
    BY <1>7
  <2>2. End(d, n) =< z /\ z =< End(d, n)
    BY <1>6, <1>8, <2>1
  <2>3. z \in Int /\ End(d, n) \in Int
    BY <1>4, <1>6, <2>1
  <2> QED
    BY <2>2, <2>3
<1> QED
  BY <1>9, <1>10, <1>11 DEF N

\* The children of n: one more level down, in n's subtree; the first is n + 1,
\* and each but the last one is followed by the next where its subtree ends.
LEMMA ChildFacts ==
  ASSUME NEW d, Preorder(d), NEW n \in 1 .. Len(d)
  PROVE  /\ Children(d, n) \in SUBSET (1 .. Len(d))
         /\ \A m : m \in Children(d, n) <=> m \in n + 1 .. End(d, n) /\ d[m] = d[n] + 1
<1> DEFINE N == Len(d)
           e == End(d, n)
<1>0. N \in Nat /\ \A m \in 1 .. N : d[m] \in Nat
  BY PreorderFacts
<1>1. e \in n .. N /\ \A k \in n + 1 .. e : d[k] > d[n]
  BY EndFacts DEF Ends
<1>2. \A m \in Subtree(d, n) : m =< e
  <2> TAKE m \in Subtree(d, n)
  <2>1. m \in n .. N /\ \A k \in n + 1 .. m : d[k] > d[n]
    BY DEF Subtree
  <2>2. ASSUME ~(m =< e)
        PROVE  FALSE
    <3>1. e + 1 \in n + 1 .. m /\ e # N /\ e + 1 \in 1 .. N
      BY <1>0, <1>1, <2>1, <2>2
    <3>2. d[e + 1] > d[n] /\ d[e + 1] =< d[n]
      BY <2>1, <3>1, EndFacts DEF Ends
    <3>3. d[e + 1] \in Nat /\ d[n] \in Nat
      BY <1>0, <3>1
    <3> QED
      BY <3>2, <3>3
  <2> QED
    BY <2>2
<1> HIDE DEF N, e
<1>3. ASSUME NEW m, m \in Children(d, n)
      PROVE  m \in n + 1 .. e /\ d[m] = d[n] + 1
  <2>1. m \in Subtree(d, n) /\ d[m] = d[n] + 1
    BY <1>3 DEF Children
  <2>2. m \in n .. N /\ m =< e
    BY <1>2, <2>1 DEF Subtree, N
  <2>3. d[n] \in Nat
    BY <1>0 DEF N
  <2>4. m # n
    BY <2>1, <2>3
  <2> QED
    BY <1>0, <1>1, <2>1, <2>2, <2>4
<1>4. ASSUME NEW m, m \in n + 1 .. e, d[m] = d[n] + 1
      PROVE  m \in Children(d, n)
  <2>1. m \in n .. N /\ \A k \in n + 1 .. m : k \in n + 1 .. e
    BY <1>0, <1>1, <1>4
  <2> QED
    BY <1>1, <1>4, <2>1 DEF Children, Subtree, N
<1>5. \A m \in n + 1 .. e : m \in 1 .. N
  BY <1>0, <1>1 DEF N
<1>6. Children(d, n) \in SUBSET (1 .. N)
  BY <1>3, <1>5
<1> QED
  BY <1>3, <1>4, <1>6 DEF N, e

\* A node whose subtree has more nodes has the next node as its first child.
LEMMA FirstChild ==
  ASSUME NEW d, Preorder(d), NEW n \in 1 .. Len(d), n # End(d, n)
  PROVE  n + 1 \in Children(d, n)
<1> DEFINE e == End(d, n)
<1>0. Len(d) \in Nat /\ e \in 1 .. Len(d) /\ n =< e /\ n # e /\ \A k \in n + 1 .. e : d[k] > d[n]
  BY PreorderFacts, EndFacts DEF Ends
<1>1. n + 1 \in n + 1 .. e /\ n + 1 \in 2 .. Len(d) /\ (n + 1) - 1 = n /\ n + 1 \in 1 .. Len(d)
  <2> HIDE DEF e
  <2> QED
    BY <1>0
<1>2. d[n + 1] > d[n] /\ d[n + 1] =< d[n] + 1
  BY <1>0, <1>1 DEF Preorder
<1>3. d[n] \in Nat /\ d[n + 1] \in Nat
  BY <1>1, PreorderFacts
<1>4. d[n + 1] = d[n] + 1
  <2> DEFINE x == d[n]
             y == d[n + 1]
  <2>1. x \in Nat /\ y \in Nat /\ y > x /\ y =< x + 1
    BY <1>2, <1>3
  <2> HIDE DEF x, y
  <2>2. y = x + 1
    BY <2>1
  <2> QED
    BY <2>2 DEF x, y
<1>5. n + 1 \in n + 1 .. End(d, n)
  BY <1>1
<1> QED
  BY <1>4, <1>5, ChildFacts

\* The end of a child's subtree is the end of its parent's, or before the next
\* child.
LEMMA ChildEnds ==
  ASSUME NEW d, Preorder(d), NEW n \in 1 .. Len(d), NEW m \in Children(d, n)
  PROVE  /\ m \in 1 .. Len(d) /\ m =< End(d, m)
         /\ \A k \in Children(d, n) : k =< m \/ k > End(d, m)
         /\ \/ End(d, m) = End(d, n)
            \/ End(d, m) + 1 \in Children(d, n)
<1> DEFINE N == Len(d)
           e == End(d, n)
           z == End(d, m)
<1>0. N \in Nat /\ \A k \in 1 .. N : d[k] \in Nat
  BY PreorderFacts
<1>1. m \in 1 .. N /\ m \in n + 1 .. e /\ d[m] = d[n] + 1
  BY ChildFacts
<1>2. e \in 1 .. N /\ n =< e /\ \A k \in n + 1 .. e : d[k] > d[n]
  BY EndFacts DEF Ends
<1>3. e # N => d[e + 1] =< d[n]
  BY EndFacts DEF Ends
<1>4. z \in 1 .. N /\ m =< z /\ \A k \in m + 1 .. z : d[k] > d[m]
  BY <1>1, EndFacts DEF Ends
<1>5. z # N => d[z + 1] =< d[m]
  BY <1>1, EndFacts DEF Ends
<1>6. \A k \in Children(d, n) : k \in n + 1 .. e /\ k \in 1 .. N /\ d[k] = d[n] + 1
  BY ChildFacts
<1> HIDE DEF N, e, z
<1>7. d[n] \in Nat /\ d[m] \in Nat /\ n \in Nat /\ m \in Nat /\ e \in Nat /\ z \in Nat
  BY <1>0, <1>1, <1>2, <1>4 DEF N
<1>8. ASSUME NEW k \in Children(d, n), ~(k =< m), ~(k > z)
      PROVE  FALSE
  <2>1. k \in m + 1 .. z
    BY <1>6, <1>7, <1>8
  <2>2. d[k] > d[m] /\ d[k] = d[m]
    BY <1>1, <1>4, <1>6, <2>1
  <2> QED
    BY <1>7, <2>2
<1>9. z =< e
  <2> SUFFICES ASSUME ~(z =< e)
               PROVE  FALSE
    OBVIOUS
  <2>1. e + 1 \in m + 1 .. z /\ e # N /\ e + 1 \in 1 .. N
    BY <1>0, <1>1, <1>4, <1>7
  <2>2. d[e + 1] > d[m] /\ d[e + 1] =< d[n] /\ d[e + 1] \in Nat
    BY <1>0, <1>3, <1>4, <2>1
  <2> DEFINE x == d[e + 1]
             y == d[n]
  <2>3. x \in Nat /\ y \in Nat /\ x > y + 1 /\ x =< y
    BY <1>1, <1>7, <2>2
  <2> HIDE DEF x, y
  <2> QED
    BY <2>3
<1>10. ASSUME z # e
       PROVE  z + 1 \in Children(d, n)
  <2>1. z + 1 \in n + 1 .. e /\ z + 1 \in 1 .. N /\ z # N
    <3>1. m \in n + 1 .. e /\ e =< N /\ z < e
      BY <1>0, <1>1, <1>2, <1>7, <1>9, <1>10
    <3> QED
      BY <1>0, <1>4, <1>7, <3>1
  <2>2. d[z + 1] > d[n] /\ d[z + 1] =< d[m] /\ d[z + 1] \in Nat
    BY <1>0, <1>2, <1>5, <2>1
  <2>3. d[z + 1] = d[n] + 1
    <3> DEFINE x == d[z + 1]
               y == d[n]
    <3>1. x \in Nat /\ y \in Nat /\ x > y /\ x =< y + 1
      BY <1>1, <1>7, <2>2
    <3> HIDE DEF x, y
    <3>2. x = y + 1
      BY <3>1
    <3> QED
      BY <3>2 DEF x, y
  <2> QED
    BY <2>1, <2>3, ChildFacts DEF e
<1> QED
  BY <1>1, <1>4, <1>8, <1>10 DEF N, e, z

\* What KidsOf says of the children.
LEMMA KidsFacts ==
  ASSUME NEW d, Preorder(d), NEW n \in 1 .. Len(d)
  PROVE  /\ KidsOf(d, n) \in Seq(1 .. Len(d)) /\ Len(KidsOf(d, n)) = Cardinality(Children(d, n))
         /\ Cardinality(Children(d, n)) \in Nat
         /\ \A i \in 1 .. Cardinality(Children(d, n)) :
               KidsOf(d, n)[i] \in Children(d, n) /\ RankIn(Children(d, n), KidsOf(d, n)[i]) = i
<1> DEFINE C == Children(d, n)
           c == Cardinality(C)
<1>1. Len(d) \in Nat /\ C \in SUBSET (1 .. Len(d))
  BY PreorderFacts, ChildFacts
<1>2. c \in Nat
  BY <1>1, RankBounds
<1>3. KidsOf(d, n) = [i \in 1 .. c |-> CHOOSE m \in C : RankIn(C, m) = i]
  BY DEF KidsOf, RankIn, UpTo
<1> HIDE DEF C
<1>4. \A i \in 1 .. c : \E m \in C : RankIn(C, m) = i
  BY <1>1, RankTaken
<1>5. \A i \in 1 .. c : KidsOf(d, n)[i] \in C /\ RankIn(C, KidsOf(d, n)[i]) = i
  BY <1>3, <1>4
<1>6. KidsOf(d, n) \in [1 .. c -> 1 .. Len(d)]
  BY <1>1, <1>3, <1>5
<1> HIDE DEF c
<1>7. KidsOf(d, n) \in Seq(1 .. Len(d)) /\ Len(KidsOf(d, n)) = c
  BY <1>2, <1>6
<1> QED
  BY <1>2, <1>5, <1>7 DEF c, C

\* kids are c subtrees one after the other that fill n's.
Fills(d, n, kids, c) ==
    /\ c = 0 => End(d, n) = n
    /\ c > 0 => kids[1] = n + 1 /\ End(d, n) = End(d, kids[c])
    /\ \A i \in 1 .. c - 1 : kids[i + 1] = End(d, kids[i]) + 1
    /\ \A i \in 1 .. c : d[kids[i]] = d[n] + 1

\* KidsOf lists the children in order, each beginning right after the one before it ends.
LEMMA KidsPreorder ==
  ASSUME NEW d, Preorder(d), NEW n \in 1 .. Len(d), NEW kids, kids = KidsOf(d, n), NEW c, c = Len(kids)
  PROVE  Fills(d, n, kids, c)
<1> DEFINE C == Children(d, n)
<1>0. Len(d) \in Nat /\ C \in SUBSET (1 .. Len(d)) /\ \A k \in C : k \in Nat
  <2>1. Len(d) \in Nat /\ C \in SUBSET (1 .. Len(d))
    BY PreorderFacts, ChildFacts
  <2>2. \A k \in 1 .. Len(d) : k \in Nat
    BY <2>1
  <2> QED
    BY <2>1, <2>2
<1>1. c = Cardinality(C) /\ c \in Nat /\ \A i \in 1 .. c : kids[i] \in C /\ RankIn(C, kids[i]) = i
  BY KidsFacts
<1>2. /\ \A m \in C : RankIn(C, m) \in 1 .. c
      /\ \A m \in C : RankIn(C, m) = c => \A k \in C : k =< m
  BY <1>0, <1>1, RankBounds
<1>3. IsFiniteSet(C)
  BY <1>0, RankBounds
<1>4. \A i \in 1 .. c : \A m \in C : RankIn(C, m) = i => m = kids[i]
  BY <1>0, <1>1, RankTaken
<1>5. \A m \in C : /\ m =< End(d, m) /\ End(d, m) \in Nat
                   /\ \A k \in C : k =< m \/ k > End(d, m)
                   /\ End(d, m) = End(d, n) \/ End(d, m) + 1 \in C
  <2>1. \A m \in C : m \in 1 .. Len(d)
    BY <1>0
  <2>2. \A m \in C : End(d, m) \in 1 .. Len(d)
    BY <2>1, EndFacts
  <2>3. \A k \in 1 .. Len(d) : k \in Nat
    BY <1>0
  <2> QED
    BY <2>2, <2>3, ChildEnds
<1>6. \A m \in C : m >= n + 1 /\ d[m] = d[n] + 1
  BY <1>0, ChildFacts
<1>7. End(d, n) # n => n + 1 \in C
  BY FirstChild
<1> HIDE DEF C
<1>8. c = 0 => End(d, n) = n
  BY <1>1, <1>3, <1>7, FS_EmptySet
<1>9. ASSUME c > 0
      PROVE  kids[1] = n + 1
  <2>1. 1 \in 1 .. c
    BY <1>1, <1>9
  <2>2. kids[1] \in C
    BY <1>1, <2>1
  <2>3. End(d, n) # n
    <3>1. kids[1] \in n + 1 .. End(d, n)
      BY <2>2, ChildFacts DEF C
    <3> QED
      BY <3>1
  <2>4. n + 1 \in C /\ \A k \in C : n + 1 =< k
    BY <1>0, <1>6, <1>7, <2>3
  <2>5. PICK a \in C : a = n + 1
    BY <2>4
  <2>6. RankIn(C, a) = 1
    BY <1>0, <2>4, <2>5, RankFirst
  <2> QED
    BY <1>4, <2>1, <2>5, <2>6
<1>10. ASSUME c > 0
       PROVE  End(d, n) = End(d, kids[c])
  <2>1. c \in 1 .. c
    BY <1>1, <1>10
  <2>2. PICK m \in C : m = kids[c] /\ RankIn(C, m) = c
    BY <1>1, <2>1
  <2>3. \A k \in C : k =< m
    BY <1>2, <2>2
  <2>4. End(d, m) + 1 \notin C
    <3>1. m \in Nat /\ End(d, m) \in Nat /\ m =< End(d, m)
      BY <1>0, <1>5
    <3>2. ~(End(d, m) + 1 =< m)
      BY <3>1
    <3> QED
      BY <2>3, <3>2
  <2> QED
    BY <1>5, <2>2, <2>4
<1>11. ASSUME NEW i \in 1 .. c - 1
       PROVE  kids[i + 1] = End(d, kids[i]) + 1
  <2>1. i \in 1 .. c /\ i + 1 \in 1 .. c /\ i # c
    BY <1>1
  <2>2. PICK m \in C : m = kids[i] /\ RankIn(C, m) = i
    BY <1>1, <2>1
  <2>3. PICK q \in C : q = kids[i + 1] /\ RankIn(C, q) = i + 1
    BY <1>1, <2>1
  <2>4. End(d, m) # End(d, n)
    <3> SUFFICES ASSUME End(d, m) = End(d, n)
                 PROVE  FALSE
      OBVIOUS
    <3>1. q =< End(d, m)
      <4>1. q \in n + 1 .. End(d, n)
        BY ChildFacts DEF C
      <4> QED
        BY <4>1
    <3>2. q =< m
      BY <1>0, <1>5, <3>1
    <3>3. q # m
      BY <2>1, <2>2, <2>3
    <3>4. q < m
      BY <1>0, <3>2, <3>3
    <3>5. RankIn(C, q) < RankIn(C, m)
      BY <1>0, <3>4, RankGrows
    <3> QED
      BY <2>1, <2>2, <2>3, <3>5
  <2>5. PICK a \in C : a = End(d, m) + 1
    BY <1>5, <2>4
  <2>6. m < a /\ \A k \in C : k < a => k =< m
    <3>1. m \in Nat /\ End(d, m) \in Nat /\ m =< End(d, m)
      BY <1>0, <1>5
    <3>2. \A k \in C : k \in Nat /\ (k =< m \/ k > End(d, m))
      BY <1>0, <1>5
    <3> QED
      BY <2>5, <3>1, <3>2
  <2>7. RankIn(C, a) = i + 1
    <3>1. RankIn(C, a) = RankIn(C, m) + 1
      BY <1>0, <2>6, RankNext
    <3> QED
      BY <2>2, <3>1
  <2> QED
    BY <1>4, <2>1, <2>2, <2>5, <2>7
<1>12. \A i \in 1 .. c : d[kids[i]] = d[n] + 1
  BY <1>1, <1>6
<1> QED
  BY <1>8, <1>9, <1>10, <1>11, <1>12 DEF Fills

\* A tree of the rules is an Ast of the same number of nodes.
LEMMA AstTree ==
  ASSUME NEW t, OneTree(t)
  PROVE  WellBuilt(AsAst(t))
<1> DEFINE d == [n \in DOMAIN t |-> t[n].depth]
           kind == [n \in DOMAIN t |-> t[n].kind]
           op == [n \in DOMAIN t |-> t[n].op]
           N == Len(t)
           ast == AsAst(t)
<1>1. Forest(t) /\ N > 0
  BY DEF OneTree
<1>2. N \in Nat /\ DOMAIN t = 1 .. N /\ 1 \in 1 .. N
  <2>1. t \in Seq(TreeNodes)
    BY <1>1, ForestFacts
  <2>2. N \in Nat /\ DOMAIN t = 1 .. N
    BY <2>1
  <2> QED
    BY <1>1, <2>2
<1>3. \A n \in 1 .. N : /\ t[n].depth \in Nat /\ t[n].kind \in Kinds /\ t[n].depth < n
                        /\ Sorted(t[n]) /\ Owns(t, n)
  BY <1>1, ForestFacts
<1>4. /\ \A n \in 2 .. N : t[n].depth > 0
      /\ \A n \in 2 .. N : t[n].depth =< t[n - 1].depth + 1
  BY <1>1, ForestFacts DEF OneTree
<1>5. d \in [1 .. N -> Nat] /\ \A n \in 1 .. N : d[n] = t[n].depth
  BY <1>2, <1>3
<1>6. kind \in [1 .. N -> Kinds] /\ \A n \in 1 .. N : kind[n] = t[n].kind
  BY <1>2, <1>3
<1>7. \A n \in 1 .. N : op[n] = t[n].op
  BY <1>2
<1>8. ast = AstOf(d, kind, op)
  BY DEF AsAst
<1> HIDE DEF d, kind, op, N, ast
<1>9. d \in Seq(Nat) /\ Len(d) = N
  BY <1>2, <1>5
<1>10. Preorder(d)
  <2>1. d[1] = 0
    <3>1. d[1] \in Nat /\ d[1] < 1
      BY <1>2, <1>3, <1>5
    <3> QED
      BY <3>1
  <2>2. \A n \in 2 .. N : d[n] > 0 /\ d[n] =< d[n - 1] + 1
    <3>1. \A n \in 2 .. N : n \in 1 .. N /\ n - 1 \in 1 .. N
      BY <1>2
    <3> QED
      BY <1>4, <1>5, <3>1 DEF N
  <2>3. N > 0
    BY <1>2
  <2> QED
    BY <1>9, <2>1, <2>2, <2>3 DEF Preorder
<1>11. /\ ast.size = N /\ ast.kind = kind /\ ast.op = op /\ ast.depth = d
       /\ ast.kids = [n \in 1 .. N |-> KidsOf(d, n)]
       /\ ast.last = [n \in 1 .. N |-> End(d, n)]
  BY <1>8, <1>9 DEF AstOf, End
<1>12. Nodes(ast) = 1 .. N
  BY <1>11 DEF Nodes
<1>13. ASSUME NEW n \in 1 .. N
       PROVE  /\ kind[n] \in LeafKinds => Len(KidsOf(d, n)) = 0
              /\ kind[n] = "unary" => Len(KidsOf(d, n)) = 1
              /\ kind[n] = "binary" => Len(KidsOf(d, n)) = 2
  <2> DEFINE C == Children(d, n)
  <2>1. Len(KidsOf(d, n)) = Cardinality(C)
    BY <1>9, <1>10, KidsFacts
  <2>2. C \in SUBSET (1 .. N) /\ \A m \in C : m \in Int
    <3>1. C \in SUBSET (1 .. N)
      BY <1>9, <1>10, ChildFacts
    <3>2. \A m \in 1 .. N : m \in Int
      BY <1>2
    <3> QED
      BY <3>1, <3>2
  <2>3. ASSUME NEW m \in Int
        PROVE  m \in C <=> IsChild(t, n, m)
    <3>1. m \in C <=> m \in n .. N /\ (\A k \in n + 1 .. m : d[k] > d[n]) /\ d[m] = d[n] + 1
      BY <1>9 DEF Children, Subtree
    <3>2. ASSUME m \in n .. N
          PROVE  (\A k \in n + 1 .. m : d[k] > d[n]) <=> \A k \in n + 1 .. m : t[k].depth > t[n].depth
      <4>1. \A k \in n + 1 .. m : k \in 1 .. N
        BY <1>2, <3>2
      <4> QED
        BY <1>5, <4>1
    <3>3. m \in n .. N => (d[m] = d[n] + 1 <=> t[m].depth = t[n].depth + 1)
      <4>1. m \in n .. N => m \in 1 .. N
        BY <1>2
      <4> QED
        BY <1>5, <4>1
    <3>4. m \in n + 1 .. N <=> m \in n .. N /\ m # n
      BY <1>2
    <3>5. t[n].depth # t[n].depth + 1
      BY <1>3
    <3> QED
      BY <3>1, <3>2, <3>3, <3>4, <3>5 DEF IsChild, N
  <2> HIDE DEF C
  <2>4. ASSUME NoChild(t, n)
        PROVE  Cardinality(C) = 0
    <3>1. C = {}
      BY <2>2, <2>3, <2>4 DEF NoChild
    <3> QED
      BY <3>1, FS_EmptySet
  <2>5. ASSUME OneChild(t, n)
        PROVE  Cardinality(C) = 1
    <3>1. PICK a \in Int : \A m \in Int : IsChild(t, n, m) <=> m = a
      BY <2>5 DEF OneChild
    <3>2. C = {a}
      BY <2>2, <2>3, <3>1
    <3> QED
      BY <3>2, FS_Singleton
  <2>6. ASSUME TwoChildren(t, n)
        PROVE  Cardinality(C) = 2
    <3>1. PICK a \in Int, b \in Int : a # b /\ \A m \in Int : IsChild(t, n, m) <=> m = a \/ m = b
      BY <2>6 DEF TwoChildren
    <3>2. C = {a} \cup {b} /\ b \notin {a}
      BY <2>2, <2>3, <3>1
    <3>3. Cardinality({a} \cup {b}) = Cardinality({a}) + 1 /\ Cardinality({a}) = 1
      BY <3>2, FS_Singleton, FS_AddElement
    <3> QED
      BY <3>2, <3>3
  <2>7. Owns(t, n)
    BY <1>3
  <2> QED
    BY <1>6, <2>1, <2>4, <2>5, <2>6, <2>7 DEF Owns
<1>14. ASSUME NEW n \in 1 .. N
       PROVE  n =< ast.last[n] /\ OwnsChildren(ast, n) /\ KidsInPreorder(ast, n)
  <2>1. Arity(ast, n) = Len(KidsOf(d, n)) /\ ast.kids[n] = KidsOf(d, n)
    BY <1>11 DEF Arity
  <2>2. OwnsChildren(ast, n)
    BY <1>11, <1>13, <2>1 DEF OwnsChildren
  <2>3. n =< ast.last[n]
    BY <1>9, <1>10, <1>11, EndFacts
  <2>4. PICK kids, c : kids = KidsOf(d, n) /\ c = Len(kids)
    OBVIOUS
  <2>5. c \in Nat /\ \A i \in 1 .. c : kids[i] \in 1 .. N
    <3>1. kids \in Seq(1 .. N)
      BY <1>9, <1>10, <2>4, KidsFacts
    <3>2. PICK S : S = 1 .. N
      OBVIOUS
    <3>3. kids \in Seq(S)
      BY <3>1, <3>2
    <3>4. \A i \in 1 .. Len(kids) : kids[i] \in S
      BY <3>3
    <3> QED
      BY <2>4, <3>2, <3>3, <3>4
  <2>6. /\ c = 0 => End(d, n) = n
        /\ c > 0 => kids[1] = n + 1 /\ End(d, n) = End(d, kids[c])
        /\ \A i \in 1 .. c - 1 : kids[i + 1] = End(d, kids[i]) + 1
        /\ \A i \in 1 .. c : d[kids[i]] = d[n] + 1
    <3>1. Fills(d, n, kids, c)
      BY <1>9, <1>10, <2>4, KidsPreorder
    <3> QED
      BY <3>1 DEF Fills
  <2>7. Arity(ast, n) = c /\ ast.kids[n] = kids
    BY <2>1, <2>4
  <2>8. c > 0 => c \in 1 .. c
    BY <2>5
  <2>9. \A i \in 1 .. c - 1 : i \in 1 .. c
    BY <2>5
  <2>10. KidsInPreorder(ast, n)
    BY <1>11, <2>5, <2>6, <2>7, <2>8, <2>9 DEF KidsInPreorder
  <2> QED
    BY <2>2, <2>3, <2>10
<1>15. ast.kids \in [1 .. N -> Seq(1 .. N)]
  <2>1. \A n \in 1 .. N : KidsOf(d, n) \in Seq(1 .. N)
    BY <1>9, <1>10, KidsFacts
  <2> QED
    BY <1>11, <2>1
<1>16. ast.last \in [1 .. N -> 1 .. N]
  <2>1. \A n \in 1 .. N : End(d, n) \in 1 .. N
    BY <1>9, <1>10, EndFacts
  <2> QED
    BY <1>11, <2>1
<1>17. ast.last[1] = N
  <2>1. \A k \in 1 + 1 .. N : d[k] > d[1]
    BY <1>9, <1>10 DEF Preorder
  <2>2. N \in 1 .. N
    BY <1>2
  <2>3. Ends(d, 1, N)
    BY <1>9, <2>1, <2>2 DEF Ends
  <2>4. N = End(d, 1)
    BY <1>2, <1>9, <1>10, <2>2, <2>3, EndFacts
  <2> QED
    BY <1>2, <1>11, <2>4
<1>18. N \in Nat \ {0} /\ d[1] = 0
  BY <1>2, <1>10 DEF Preorder
<1>19. IsAst(ast)
  BY <1>5, <1>6, <1>11, <1>12, <1>14, <1>15, <1>16, <1>17, <1>18 DEF IsAst
<1>20. ASSUME NEW n \in 1 .. N
       PROVE  /\ kind[n] # "error"
              /\ kind[n] = "unary" => op[n] \in UnaryOps
              /\ kind[n] = "binary" => op[n] \in BinaryOps
              /\ kind[n] = "function" => op[n] \in Funcs
  BY <1>3, <1>6, <1>7 DEF Sorted
<1>21. WellBuilt(ast)
  BY <1>11, <1>12, <1>19, <1>20 DEF WellBuilt
<1> QED
  BY <1>21 DEF ast

\* What TreesAreUsable says of a text and one of its trees.
Usable(s, t) ==
    /\ WellBuilt(AsAst(t))
    /\ Len(t) =< Len(s)
    /\ \A n \in DOMAIN t : t[n].depth < Len(s)

\* What the grammar derives of a text is well built and no larger than the text.
LEMMA ParsesUsable ==
  ASSUME NEW s \in Seq(Tokens), NEW t \in Parses(s)
  PROVE  Usable(s, t)
<1> DEFINE j == Len(s)
<1>1. j \in Nat /\ 13 \in 1 .. 14 /\ 13 # 14 /\ 1 \in 1 .. j + 1 /\ j \in 0 .. j /\ t \in Expression(s)[Place(13, 1, j)]
  BY DEF Parses, Loosest
<1>2. MadeWell(s, 13, 1, j)
  BY <1>1, AllMadeWell
<1>3. OneTree(t) /\ Small(t, 1, j)
  BY <1>1, <1>2 DEF MadeWell
<1>4. Len(t) \in Nat /\ DOMAIN t = 1 .. Len(t) /\ \A n \in 1 .. Len(t) : t[n].depth \in Nat /\ t[n].depth < n
  BY <1>3, ForestFacts DEF OneTree
<1>5. Len(t) =< j
  BY <1>1, <1>3, <1>4 DEF Small
<1>6. \A n \in DOMAIN t : t[n].depth < j
  <2> HIDE DEF j
  <2> QED
    BY <1>1, <1>4, <1>5
<1> QED
  BY <1>3, <1>5, <1>6, AstTree DEF Usable

-----------------------------------------------------------------------------
(* The theorems: each state is before the parse or has what it returns.    *)

IInv ==
    /\ text \in Seq(Tokens)
    /\ \/ pc = "parse" /\ trees = {}
       \/ pc = "done" /\ trees = Parses(text)

\* The state of a parse, for any set of texts.
THEOREM Invariance == Spec => []IInv
<1>1. Init => IInv
  BY TextsAssumption DEF Init, IInv
<1>2. IInv /\ [Next]_vars => IInv'
  <2> SUFFICES ASSUME IInv, [Next]_vars
               PROVE  IInv'
    OBVIOUS
  <2>1. CASE Parse
    BY <2>1 DEF Parse, IInv
  <2>2. CASE UNCHANGED vars
    BY <2>2 DEF vars, IInv
  <2> QED
    BY <2>1, <2>2 DEF Next
<1> QED
  BY <1>1, <1>2, PTL DEF Spec

\* A text of any length has a tree, and one only, exactly when operands and
\* operators alternate and brackets match (calc.lalrpop).
THEOREM ParsesOnce == Spec => []ParsesOnceIffAlternating
<1>1. IInv => ParsesOnceIffAlternating
  BY ParseCount DEF IInv, ParsesOnceIffAlternating
<1> QED
  BY <1>1, Invariance, PTL

\* The root of the tree of a text of any length is the loosest operator outside
\* brackets, on the side its level groups to (the precedence and assoc
\* annotations of calc.lalrpop).
THEOREM LoosestAtTheRoot == Spec => []RootIsLoosest
<1>1. IInv => RootIsLoosest
  <2> SUFFICES ASSUME IInv, NEW t \in trees, Outside(text) # {}
               PROVE  LoosestAt(text, t[1].at)
    BY DEF RootIsLoosest, LoosestAt
  <2>1. text \in Seq(Tokens) /\ t \in Parses(text)
    BY DEF IInv
  <2> QED
    BY <2>1, RootLoosest
<1> QED
  BY <1>1, Invariance, PTL

\* Every tree of a text of any length is one the limit check and the evaluator
\* can take, no larger than the text (calc.lalrpop, ast.rs).
THEOREM UsableTrees == Spec => []TreesAreUsable
<1>1. IInv => TreesAreUsable
  <2> SUFFICES ASSUME IInv, NEW t \in trees
               PROVE  Usable(text, t)
    BY DEF TreesAreUsable, Usable
  <2>1. text \in Seq(Tokens) /\ t \in Parses(text)
    BY DEF IInv
  <2> QED
    BY <2>1, ParsesUsable
<1> QED
  BY <1>1, Invariance, PTL
=============================================================================
