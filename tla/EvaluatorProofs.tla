-------------------------- MODULE EvaluatorProofs --------------------------
(***************************************************************************)
(* Proofs about Evaluator, for every set of expressions and every          *)
(* resolver.                                                               *)
(***************************************************************************)
EXTENDS Evaluator, OpLawsProofs

-----------------------------------------------------------------------------
(* What a recursion over a tree relies on, for every tree: the typed view  *)
(* of a node, where the preorder puts an operand, and induction over the   *)
(* nodes.                                                                  *)

\* Dropping the last element keeps the others in place.
LEMMA PopFacts ==
  ASSUME NEW S, NEW s \in Seq(S), s # <<>>
  PROVE  /\ SubSeq(s, 1, Len(s) - 1) \in Seq(S)
         /\ Len(SubSeq(s, 1, Len(s) - 1)) = Len(s) - 1
         /\ \A i \in 1 .. Len(s) - 1 : SubSeq(s, 1, Len(s) - 1)[i] = s[i]
<1>1. Len(s) \in Nat \ {0}
  BY EmptySeq
<1>2. \A i \in 1 .. Len(s) - 1 : s[i] \in S
  BY ElementOfSeq, <1>1
<1> DEFINE m == Len(s) - 1
<1>3. m \in Nat
  BY <1>1
<1>4. \A i \in 1..m : s[i] \in S
  BY <1>2
<1> HIDE DEF m
<1>5. /\ SubSeq(s, 1, m) \in Seq(S)
      /\ Len(SubSeq(s, 1, m)) = m
      /\ \A i \in 1..m : SubSeq(s, 1, m)[i] = s[i]
  BY <1>3, <1>4, SubSeqProperties
<1>6. QED
  BY <1>5 DEF m

\* The typed view of a node: its children are nodes, numbered as the
\* preorder demands, one level down.
LEMMA NodeFacts ==
  ASSUME NEW t, IsAst(t), NEW n \in Nodes(t)
  PROVE  /\ t.size \in Nat \ {0}
         /\ Arity(t, n) \in Nat
         /\ t.last[n] \in Nodes(t)
         /\ n =< t.last[n]
         /\ t.depth[n] \in Nat
         /\ \A i \in 1 .. Arity(t, n) :
              t.kids[n][i] \in Nodes(t) /\ t.depth[t.kids[n][i]] = t.depth[n] + 1
         /\ KidsInPreorder(t, n)
<1>1. t.kids[n] \in Seq(Nodes(t))
  BY DEF IsAst
<1>2. Len(t.kids[n]) \in Nat /\ \A i \in 1 .. Len(t.kids[n]) : t.kids[n][i] \in Nodes(t)
  BY <1>1, LenProperties, ElementOfSeq
<1>3. QED
  BY <1>1, <1>2 DEF IsAst, Arity, KidsInPreorder, Nodes

\* The last node numbered once n's first k operands have been visited.
LastVisited(t, n, k) == IF k = 0 THEN n ELSE t.last[t.kids[n][k]]

\* The operand after the first k starts just behind them; after the last one
\* the whole subtree has been visited.
LEMMA OperandFacts ==
  ASSUME NEW t, IsAst(t), NEW n \in Nodes(t), NEW k \in 0 .. Arity(t, n)
  PROVE  /\ LastVisited(t, n, k) \in Nodes(t)
         /\ k < Arity(t, n) => t.kids[n][k + 1] = LastVisited(t, n, k) + 1
         /\ k = Arity(t, n) => t.last[n] = LastVisited(t, n, k)
<1>1. Arity(t, n) \in Nat /\ KidsInPreorder(t, n)
  BY NodeFacts
<1>2. CASE k = 0
  BY <1>1, <1>2, NodeFacts DEF LastVisited, KidsInPreorder
<1>3. CASE k # 0
  <2>1. k \in 1 .. Arity(t, n)
    BY <1>1, <1>3
  <2>2. t.kids[n][k] \in Nodes(t)
    BY <2>1, NodeFacts
  <2>3. t.last[t.kids[n][k]] \in Nodes(t)
    BY <2>2, NodeFacts
  <2>4. k < Arity(t, n) => k \in 1 .. Arity(t, n) - 1
    BY <1>1, <2>1
  <2>5. QED
    BY <1>1, <1>3, <2>1, <2>3, <2>4 DEF LastVisited, KidsInPreorder
<1>4. QED
  BY <1>2, <1>3

\* A literal, a variable or an error has no operand and is its whole subtree.
LEMMA LeafFacts ==
  ASSUME NEW t, IsAst(t), NEW n \in Nodes(t), t.kind[n] \in LeafKinds
  PROVE  Arity(t, n) = 0 /\ t.last[n] = n
<1>1. Arity(t, n) = 0 /\ KidsInPreorder(t, n)
  BY NodeFacts DEF IsAst, OwnsChildren
<1>2. QED
  BY <1>1 DEF KidsInPreorder

\* The subtree of an operand lies behind its node and within its subtree.
LEMMA KidFacts ==
  ASSUME NEW t, IsAst(t), NEW n \in Nodes(t), NEW i \in 1 .. Arity(t, n)
  PROVE  /\ t.kids[n][i] \in Nodes(t)
         /\ n < t.kids[n][i]
         /\ t.last[t.kids[n][i]] \in Nodes(t)
         /\ t.last[t.kids[n][i]] =< t.last[n]
<1> DEFINE k(j) == t.kids[n][j]
           l(j) == t.last[k(j)]
           a == Arity(t, n)
<1>1. /\ a \in Nat /\ i \in 1 .. a /\ KidsInPreorder(t, n) /\ n \in Int
      /\ \A j \in 1 .. a : k(j) \in Nodes(t) /\ k(j) \in Int
  BY NodeFacts DEF Nodes
<1>2. \A j \in 1 .. a : l(j) \in Nodes(t) /\ l(j) \in Int /\ k(j) =< l(j)
  BY <1>1, NodeFacts DEF Nodes
<1>3. /\ k(1) = n + 1 /\ t.last[n] = l(a)
      /\ \A j \in 1 .. a - 1 : k(j + 1) = l(j) + 1
  BY <1>1 DEF KidsInPreorder
<1> HIDE DEF k, l, a
<1>4. \A j \in 1 .. a - 1 : j + 1 \in 1 .. a /\ k(j) < k(j + 1) /\ l(j) < l(j + 1)
  BY <1>1, <1>2, <1>3
<1>5. n < k(i)
  <2> DEFINE S == {m \in Nat : m + 1 \in 1 .. a => n < k(m + 1)}
  <2>1. 0 \in S
    BY <1>1, <1>3
  <2>2. ASSUME NEW m \in S
        PROVE  m + 1 \in S
    <3> SUFFICES ASSUME (m + 1) + 1 \in 1 .. a
                 PROVE  n < k((m + 1) + 1)
      BY <2>2
    <3>1. m + 1 \in 1 .. a - 1
      BY <1>1, <2>2
    <3>2. n < k(m + 1) /\ k(m + 1) < k((m + 1) + 1)
      BY <3>1, <1>1, <1>4, <2>2
    <3>3. QED
      BY <3>1, <3>2, <1>1
  <2> HIDE DEF S
  <2>3. S = Nat
    <3>1. S \in SUBSET Nat
      BY DEF S
    <3>2. QED
      BY <3>1, <2>1, <2>2, SetInduction
  <2>4. i - 1 \in S /\ (i - 1) + 1 = i
    BY <1>1, <2>3
  <2>5. QED
    BY <1>1, <2>4 DEF S
<1>6. l(i) =< t.last[n]
  <2> DEFINE S == {m \in Nat : a - m \in 1 .. a => l(a - m) =< l(a)}
  <2>1. 0 \in S
    BY <1>1, <1>2
  <2>2. ASSUME NEW m \in S
        PROVE  m + 1 \in S
    <3> SUFFICES ASSUME a - (m + 1) \in 1 .. a
                 PROVE  l(a - (m + 1)) =< l(a)
      BY <2>2
    <3>1. a - (m + 1) \in 1 .. a - 1 /\ (a - (m + 1)) + 1 = a - m /\ a - m \in 1 .. a
          /\ a \in 1 .. a
      BY <1>1, <2>2
    <3>2. l(a - m) =< l(a) /\ l(a - (m + 1)) < l(a - m)
      BY <3>1, <1>4, <2>2
    <3>3. QED
      BY <3>1, <3>2, <1>2
  <2> HIDE DEF S
  <2>3. S = Nat
    <3>1. S \in SUBSET Nat
      BY DEF S
    <3>2. QED
      BY <3>1, <2>1, <2>2, SetInduction
  <2>4. a - i \in S /\ a - (a - i) = i
    BY <1>1, <2>3
  <2>5. QED
    BY <1>1, <1>3, <2>4 DEF S
<1>7. QED
  BY <1>1, <1>2, <1>5, <1>6 DEF k, l, a

\* Induction from the last node to the first: what every node has when all
\* nodes behind it do, all nodes have.
LEMMA NodeInduction ==
  ASSUME NEW t, IsAst(t), NEW S \in SUBSET Nodes(t),
         \A n \in Nodes(t) : (\A m \in Nodes(t) : m > n => m \in S) => n \in S
  PROVE  S = Nodes(t)
<1> DEFINE missing == {k \in Nat : t.size - k \in Nodes(t) \ S}
<1>1. t.size \in Nat
  BY DEF IsAst
<1> SUFFICES ASSUME missing # {}
             PROVE  FALSE
  <2>1. ASSUME NEW n \in Nodes(t), n \notin S
        PROVE  t.size - n \in missing
    <3>1. n \in 1 .. t.size
      BY DEF Nodes
    <3>2. t.size - n \in Nat /\ t.size - (t.size - n) = n
      BY <1>1, <3>1
    <3>3. QED
      BY <2>1, <3>2
  <2>2. QED
    BY <2>1
<1>2. PICK k \in missing : \A j \in missing : k =< j
  <2>1. missing \in SUBSET Nat
    OBVIOUS
  <2> HIDE DEF missing
  <2>2. QED
    BY <2>1, LeastNumber
<1>3. PICK m \in Nodes(t) : m > t.size - k /\ m \notin S
  BY <1>2
<1>4. m \in 1 .. t.size /\ k \in Nat
  BY <1>2, <1>3 DEF Nodes
<1>5. t.size - m \in Nat /\ t.size - (t.size - m) = m
  BY <1>1, <1>4
<1>6. t.size - m \in missing
  BY <1>3, <1>5
<1>7. k =< t.size - m
  BY <1>2, <1>6
<1>8. QED
  BY <1>1, <1>3, <1>4, <1>7

-----------------------------------------------------------------------------

Compound == {"unary", "binary", "function"}

\* A stack of calls that follows the tree e: each call is on the operand its
\* caller is about to have.
IsPath(e, s) ==
    \A h \in 1 .. Len(s) :
        /\ s[h].node \in Nodes(e)
        /\ e.depth[s[h].node] = h - 1
        /\ Len(s[h].vals) =< Arity(e, s[h].node)
        /\ h = 1 => s[h].node = 1
        /\ h > 1 => /\ Len(s[h - 1].vals) < Arity(e, s[h - 1].node)
                    /\ s[h].node = e.kids[s[h - 1].node][Len(s[h - 1].vals) + 1]

\* n is the node the innermost call of s evaluates next.
NextOperand(e, s, n) ==
    /\ s = <<>> => n = 1
    /\ s # <<>> => /\ Len(s[Len(s)].vals) < Arity(e, s[Len(s)].node)
                   /\ n = e.kids[s[Len(s)].node][Len(s[Len(s)].vals) + 1]

AllCompound(e, s) == \A h \in 1 .. Len(s) : e.kind[s[h].node] \in Compound

\* The last node evaluation has visited: all nodes up to it are done with or
\* among the active calls.
Visited == IF stack = <<>> THEN 0 ELSE LastVisited(expr, Top.node, Len(Top.vals))

\* The active calls are a path of compound nodes, with the variable that is
\* being resolved at its end.
Recursion ==
    /\ IsPath(expr, stack)
    /\ pc = "eval" => AllCompound(expr, stack)
    /\ pc = "resolving" => /\ stack # <<>>
                           /\ Top.node = asked
                           /\ asked \in Variables
                           /\ AllCompound(expr, Below)
    /\ pc = "done" => stack = <<>>
    /\ pc # "done" => result = Pending

\* The variables visited so far are those the resolver was asked for.
Progress ==
    /\ asked = 0 \/ asked \in Variables
    /\ pc = "eval" => /\ asked =< Visited
                      /\ \A n \in Variables : n =< Visited => n =< asked
                      /\ asked # 0 => Resolved(answers[asked]).ok

\* The inductive invariant.
IInv == expr \in Expressions /\ TypeOK /\ Recursion /\ Progress /\ AskedInOrder

-----------------------------------------------------------------------------
(* Paths of calls.                                                         *)

\* A stack without its innermost call, with a call of node n on top, and with
\* the value v handed to its innermost call.
CallersOf(s) == SubSeq(s, 1, Len(s) - 1)
Called(s, n) == Append(s, [node |-> n, vals |-> <<>>])
Handed(s, v) ==
    [s EXCEPT ![Len(s)] = [node |-> s[Len(s)].node, vals |-> Append(s[Len(s)].vals, v)]]

\* A path without its last call is a path, to the call that made it.
LEMMA PathBelow ==
  ASSUME NEW e, NEW s \in Seq(Frames), IsPath(e, s), s # <<>>,
         NEW below, below = CallersOf(s)
  PROVE  /\ below \in Seq(Frames)
         /\ IsPath(e, below)
         /\ Len(below) = Len(s) - 1
         /\ \A h \in 1 .. Len(below) : below[h] = s[h]
         /\ NextOperand(e, below, s[Len(s)].node)
<1>1. /\ below \in Seq(Frames)
      /\ Len(below) = Len(s) - 1
      /\ \A h \in 1 .. Len(below) : below[h] = s[h]
  BY PopFacts DEF CallersOf
<1>2. Len(s) \in Nat \ {0}
  BY EmptySeq
<1>3. IsPath(e, below)
  <2> SUFFICES ASSUME NEW h \in 1 .. Len(below)
               PROVE  /\ below[h].node \in Nodes(e)
                      /\ e.depth[below[h].node] = h - 1
                      /\ Len(below[h].vals) =< Arity(e, below[h].node)
                      /\ h = 1 => below[h].node = 1
                      /\ h > 1 => /\ Len(below[h - 1].vals) < Arity(e, below[h - 1].node)
                                  /\ below[h].node =
                                       e.kids[below[h - 1].node][Len(below[h - 1].vals) + 1]
    BY DEF IsPath
  <2>1. h \in 1 .. Len(s) /\ below[h] = s[h]
    BY <1>1, <1>2
  <2>2. h > 1 => h - 1 \in 1 .. Len(below)
    BY <1>1, <1>2
  <2>3. h > 1 => below[h - 1] = s[h - 1]
    BY <2>2, <1>1
  <2>4. QED
    BY <2>1, <2>3 DEF IsPath
<1>4. below = <<>> => s[Len(s)].node = 1
  <2> SUFFICES ASSUME below = <<>>
               PROVE  s[Len(s)].node = 1
    OBVIOUS
  <2>1. Len(below) = 0
    BY EmptySeq
  <2>2. Len(s) = 1
    BY <2>1, <1>1, <1>2
  <2>3. QED
    BY <2>2 DEF IsPath
<1>5. ASSUME below # <<>>
      PROVE  /\ Len(below[Len(below)].vals) < Arity(e, below[Len(below)].node)
             /\ s[Len(s)].node = e.kids[below[Len(below)].node][Len(below[Len(below)].vals) + 1]
  <2>1. Len(below) \in Nat \ {0}
    BY <1>1, <1>5, EmptySeq
  <2>2. Len(s) > 1 /\ Len(s) - 1 = Len(below) /\ Len(s) \in 1 .. Len(s)
    BY <2>1, <1>1, <1>2
  <2>3. below[Len(below)] = s[Len(s) - 1]
    BY <2>1, <2>2, <1>1
  <2>4. QED
    BY <2>2, <2>3 DEF IsPath
<1>6. QED
  BY <1>1, <1>3, <1>4, <1>5 DEF NextOperand

\* A call on the operand its caller is about to have extends the path.
LEMMA PathPush ==
  ASSUME NEW e, IsAst(e), NEW s \in Seq(Frames), IsPath(e, s),
         NEW n \in Nodes(e), e.depth[n] = Len(s),
         NextOperand(e, s, n),
         NEW t, t = Called(s, n)
  PROVE  /\ t \in Seq(Frames)
         /\ Len(t) = Len(s) + 1
         /\ \A h \in 1 .. Len(s) : t[h] = s[h]
         /\ t[Len(t)].node = n /\ Len(t[Len(t)].vals) = 0
         /\ IsPath(e, t)
<1> DEFINE f == [node |-> n, vals |-> <<>>]
<1>1. f \in Frames /\ f.node = n /\ f.vals = <<>> /\ Len(f.vals) = 0
  BY EmptySeq DEF Frames, Nodes
<1> HIDE DEF f
<1>2. t = Append(s, f)
  BY DEF f, Called
<1>3. /\ t \in Seq(Frames)
      /\ Len(t) = Len(s) + 1
      /\ \A h \in 1 .. Len(s) : t[h] = s[h]
      /\ t[Len(s) + 1] = f
  BY <1>1, <1>2, AppendProperties
<1>4. Len(s) \in Nat
  OBVIOUS
<1>5. IsPath(e, t)
  <2> SUFFICES ASSUME NEW h \in 1 .. Len(t)
               PROVE  /\ t[h].node \in Nodes(e)
                      /\ e.depth[t[h].node] = h - 1
                      /\ Len(t[h].vals) =< Arity(e, t[h].node)
                      /\ h = 1 => t[h].node = 1
                      /\ h > 1 => /\ Len(t[h - 1].vals) < Arity(e, t[h - 1].node)
                                  /\ t[h].node = e.kids[t[h - 1].node][Len(t[h - 1].vals) + 1]
    BY DEF IsPath
  <2>1. CASE h =< Len(s)
    <3>1. h \in 1 .. Len(s) /\ t[h] = s[h]
      BY <2>1, <1>3, <1>4
    <3>2. h > 1 => h - 1 \in 1 .. Len(s)
      BY <3>1
    <3>3. h > 1 => t[h - 1] = s[h - 1]
      BY <3>2, <1>3
    <3>4. QED
      BY <3>1, <3>3 DEF IsPath
  <2>2. CASE h = Len(s) + 1
    <3>1. t[h] = f /\ Arity(e, n) \in Nat
      BY <2>2, <1>3, NodeFacts
    <3>2. h = 1 => n = 1
      BY <2>2, <1>4, EmptySeq DEF NextOperand
    <3>3. h > 1 => s # <<>> /\ h - 1 = Len(s) /\ h - 1 \in 1 .. Len(s)
      BY <2>2, <1>4
    <3>4. h > 1 => t[h - 1] = s[Len(s)]
      BY <3>3, <1>3
    <3>5. QED
      BY <3>1, <3>2, <3>3, <3>4, <1>1, <2>2, <1>4 DEF NextOperand
  <2>3. QED
    BY <2>1, <2>2, <1>3, <1>4
<1>6. QED
  BY <1>1, <1>3, <1>5

\* A value delivered to the last call of a path leaves the path as it is.
LEMMA PathDeliver ==
  ASSUME NEW e, IsAst(e), NEW s \in Seq(Frames), IsPath(e, s), s # <<>>,
         NEW c, c = s[Len(s)], Len(c.vals) < Arity(e, c.node),
         NEW v \in ValidValues,
         NEW t, t = Handed(s, v)
  PROVE  /\ t \in Seq(Frames)
         /\ Len(t) = Len(s)
         /\ \A h \in 1 .. Len(s) : t[h].node = s[h].node
         /\ Len(t[Len(t)].vals) = Len(c.vals) + 1
         /\ IsPath(e, t)
<1> DEFINE f == [node |-> c.node, vals |-> Append(c.vals, v)]
<1>1. Len(s) \in Nat \ {0} /\ Len(s) \in 1 .. Len(s)
  BY EmptySeq
<1>2. c \in Frames
  BY <1>1, ElementOfSeq
<1>3. /\ f \in Frames /\ f.node = c.node
      /\ Len(f.vals) = Len(c.vals) + 1 /\ Len(c.vals) \in Nat
  BY <1>2, AppendProperties DEF Frames
<1> HIDE DEF f
<1>4. t = [s EXCEPT ![Len(s)] = f]
  BY DEF f, Handed
<1>5. /\ t \in Seq(Frames)
      /\ Len(t) = Len(s)
      /\ \A h \in 1 .. Len(s) : t[h] = IF h = Len(s) THEN f ELSE s[h]
  <2>1. /\ [s EXCEPT ![Len(s)] = f] \in Seq(Frames)
        /\ Len([s EXCEPT ![Len(s)] = f]) = Len(s)
        /\ \A h \in 1 .. Len(s) : [s EXCEPT ![Len(s)] = f][h] = IF h = Len(s) THEN f ELSE s[h]
    BY <1>1, <1>3, ExceptSeq
  <2>2. QED
    BY <2>1, <1>4
<1>6. \A h \in 1 .. Len(s) : t[h].node = s[h].node
  BY <1>3, <1>5
<1>7. IsPath(e, t)
  <2> SUFFICES ASSUME NEW h \in 1 .. Len(s)
               PROVE  /\ t[h].node \in Nodes(e)
                      /\ e.depth[t[h].node] = h - 1
                      /\ Len(t[h].vals) =< Arity(e, t[h].node)
                      /\ h = 1 => t[h].node = 1
                      /\ h > 1 => /\ Len(t[h - 1].vals) < Arity(e, t[h - 1].node)
                                  /\ t[h].node = e.kids[t[h - 1].node][Len(t[h - 1].vals) + 1]
    BY <1>5 DEF IsPath
  <2>1. t[h].node = s[h].node
    BY <1>6
  <2>2. h > 1 => h - 1 \in 1 .. Len(s) /\ h - 1 # Len(s)
    BY <1>1
  <2>3. h > 1 => t[h - 1] = s[h - 1]
    BY <2>2, <1>5
  <2>4. Len(t[h].vals) =< Arity(e, t[h].node)
    <3>1. CASE h = Len(s)
      <4>1. t[h] = f /\ c.node \in Nodes(e)
        BY <3>1, <1>1, <1>5 DEF IsPath
      <4>2. Arity(e, c.node) \in Nat
        BY <4>1, NodeFacts
      <4>3. QED
        BY <4>1, <4>2, <1>3
    <3>2. CASE h # Len(s)
      BY <3>2, <1>5 DEF IsPath
    <3>3. QED
      BY <3>1, <3>2
  <2>5. QED
    BY <2>1, <2>3, <2>4 DEF IsPath
<1>8. QED
  BY <1>1, <1>3, <1>5, <1>6, <1>7

-----------------------------------------------------------------------------
(* What a step finds.                                                      *)

\* The tree is a tree without error nodes, and its nodes carry what their
\* kind demands.
LEMMA ExprFacts ==
  ASSUME expr \in Expressions
  PROVE  /\ IsAst(expr)
         /\ \A n \in Nodes(expr) :
              /\ HasPayload(expr, n)
              /\ expr.kind[n] \in {"bool", "integer", "float", "variable"} \cup Compound
<1>1. IsCleanAst(expr) /\ \A n \in Nodes(expr) : HasPayload(expr, n)
  BY ExpressionsAssumption
<1>2. QED
  BY <1>1 DEF IsCleanAst, IsAst, Kinds, LeafKinds, Compound

\* The call about to be made is on the node after those visited.
LEMMA CallFacts ==
  ASSUME IInv, AtCall
  PROVE  /\ IsAst(expr)
         /\ stack \in Seq(Frames)
         /\ Callee \in Nodes(expr)
         /\ Callee = Visited + 1
         /\ expr.depth[Callee] = Len(stack)
         /\ Visited \in Nat
         /\ NextOperand(expr, stack, Callee)
<1>1. IsAst(expr) /\ stack \in Seq(Frames) /\ Len(stack) \in Nat
  BY ExprFacts DEF IInv, TypeOK
<1>2. CASE stack = <<>>
  <2>1. Len(stack) = 0
    BY <1>2, EmptySeq
  <2>2. QED
    BY <2>1, <1>1, <1>2 DEF Callee, Visited, IsAst, Nodes, NextOperand
<1>3. CASE stack # <<>>
  <2>1. Len(stack) \in 1 .. Len(stack)
    BY <1>1, <1>3, EmptySeq
  <2>2. /\ Top.node \in Nodes(expr)
        /\ expr.depth[Top.node] = Len(stack) - 1
        /\ Len(Top.vals) < Arity(expr, Top.node)
    BY <2>1, <1>3 DEF IInv, Recursion, IsPath, Top, AtCall
  <2>3. Top \in Frames
    BY <2>1, <1>1, ElementOfSeq DEF Top
  <2> DEFINE k == Len(Top.vals)
  <2>4. k \in Nat /\ Arity(expr, Top.node) \in Nat /\ k < Arity(expr, Top.node)
    BY <2>2, <2>3, <1>1, NodeFacts DEF Frames
  <2>5. Callee = expr.kids[Top.node][k + 1] /\ Visited = LastVisited(expr, Top.node, k)
    BY <1>3 DEF Callee, Visited
  <2> HIDE DEF k
  <2>6. k \in 0 .. Arity(expr, Top.node) /\ k + 1 \in 1 .. Arity(expr, Top.node)
    BY <2>4
  <2>7. LastVisited(expr, Top.node, k) \in Nodes(expr) /\ Callee = Visited + 1
    BY <1>1, <2>2, <2>4, <2>5, <2>6, OperandFacts
  <2>8. Callee \in Nodes(expr) /\ expr.depth[Callee] = Len(stack)
    <3>1. \A i \in 1 .. Arity(expr, Top.node) :
            /\ expr.kids[Top.node][i] \in Nodes(expr)
            /\ expr.depth[expr.kids[Top.node][i]] = expr.depth[Top.node] + 1
      BY <1>1, <2>2, NodeFacts
    <3>2. Callee \in Nodes(expr) /\ expr.depth[Callee] = expr.depth[Top.node] + 1
      BY <2>5, <2>6, <3>1
    <3>3. QED
      BY <1>1, <2>2, <3>2
  <2>9. QED
    BY <1>1, <1>3, <2>2, <2>5, <2>7, <2>8 DEF k, Nodes, NextOperand, Top
<1>4. QED
  BY <1>2, <1>3

Results == Outcomes \cup {Err(e) : e \in ResolverErrors}

\* What delivering the result o of node n to the calls below it does: the
\* evaluation ends with o, or n counts as visited whole.
LEMMA Delivered ==
  ASSUME IsAst(expr),
         NEW below \in Seq(Frames), IsPath(expr, below), AllCompound(expr, below),
         NEW n \in Nodes(expr),
         NextOperand(expr, below, n),
         NEW o \in Results, Deliver(o, below), expr' = expr
  PROVE  \/ /\ pc' = "done" /\ stack' = <<>> /\ result' = o
            /\ ~o.ok \/ below = <<>>
         \/ /\ pc' = "eval" /\ stack' # <<>> /\ result' = result
            /\ o.ok /\ below # <<>>
            /\ stack' \in Seq(Frames)
            /\ IsPath(expr, stack') /\ AllCompound(expr, stack')
            /\ Visited' = expr.last[n]
<1>1. CASE ~(o.ok /\ below # <<>>)
  BY <1>1 DEF Deliver
<1>2. CASE o.ok /\ below # <<>>
  <2> DEFINE c == below[Len(below)]
  <2>1. o.value \in ValidValues
    BY <1>2 DEF Results, Outcomes, Ok, Err, Overflow
  <2>2. stack' = Handed(below, o.value) /\ pc' = "eval" /\ result' = result
    BY <1>2 DEF Deliver, Handed
  <2>3. Len(below) \in Nat \ {0}
    BY <1>2, EmptySeq
  <2>4. c \in Frames
    BY <2>3, ElementOfSeq
  <2>5. Len(c.vals) \in Nat
    BY <2>4 DEF Frames
  <2>6. Len(c.vals) < Arity(expr, c.node) /\ n = expr.kids[c.node][Len(c.vals) + 1]
    BY <1>2 DEF NextOperand
  <2>9. /\ stack' \in Seq(Frames)
        /\ Len(stack') = Len(below)
        /\ \A h \in 1 .. Len(below) : stack'[h].node = below[h].node
        /\ Len(stack'[Len(stack')].vals) = Len(c.vals) + 1
        /\ IsPath(expr, stack')
    <3>1. c = below[Len(below)]
      OBVIOUS
    <3> HIDE DEF c
    <3>2. QED
      BY <1>2, <2>1, <2>2, <2>6, <3>1, PathDeliver
  <2>8. c = below[Len(below)]
    OBVIOUS
  <2> HIDE DEF c
  <2>10. AllCompound(expr, stack')
    BY <2>9 DEF AllCompound
  <2>11. stack' # <<>>
    BY <2>3, <2>9, EmptySeq
  <2>12. Visited' = expr.last[n]
    <3>1. Top'.node = c.node /\ Len(Top'.vals) = Len(c.vals) + 1
      BY <2>3, <2>8, <2>9 DEF Top
    <3>2. Visited' = LastVisited(expr, c.node, Len(c.vals) + 1)
      BY <3>1, <2>11 DEF Visited, LastVisited
    <3>3. Len(c.vals) + 1 # 0
      BY <2>5
    <3>4. QED
      BY <3>2, <3>3, <2>6 DEF LastVisited
  <2>13. QED
    BY <1>2, <2>2, <2>9, <2>10, <2>11, <2>12
<1>3. QED
  BY <1>1, <1>2

\* What the resolver's answer or an operator gives is a result evaluation can
\* have.
LEMMA ResolvedResult ==
  ASSUME NEW answer \in Answers
  PROVE  Resolved(answer) \in Results
<1>1. CASE answer \in {Ok(v) : v \in AnyValues}
  <2>1. PICK v \in AnyValues : answer = Ok(v)
    BY <1>1
  <2>2. Resolved(answer) = ValidateValue(v)
    BY <2>1 DEF Resolved, Ok
  <2>3. v \in ValidValues \/ \E c \in FloatClasses : v = Float(c)
    BY DEF AnyValues
  <2>4. Err("NonFiniteFloat") \in Outcomes /\ Err("SubnormalFloat") \in Outcomes
    BY ErrOutcomes DEF EvalErrors
  <2>5. CASE v.type # "float"
    <3>1. v \in ValidValues
      BY <2>3, <2>5 DEF Float
    <3>2. QED
      BY <3>1, <2>2, <2>5, OkOutcomes DEF ValidateValue, Results
  <2>6. CASE v.type = "float"
    <3>1. v.class \in FloatClasses
      BY <2>3, <2>6 DEF Float, ValidValues, Bools, Integers64, Numbers, Bool, Int64,
                        FloatClasses
    <3>2. v.class \notin {"nan", "inf", "subnormal"} => v.class \in NumberClasses
      BY <3>1 DEF FloatClasses
    <3>3. CheckedFloat(v.class) \in Outcomes
      BY <3>2, <2>4, OkOutcomes DEF CheckedFloat
    <3>4. QED
      BY <2>2, <2>6, <3>3 DEF ValidateValue, Results
  <2>7. QED
    BY <2>5, <2>6
<1>2. CASE answer \in {Err(e) : e \in ResolverErrors}
  BY <1>2 DEF Resolved, Results, Err
<1>3. QED
  BY <1>1, <1>2 DEF Answers

\* A literal of a parsed tree is a valid value.
LEMMA LiteralOk ==
  ASSUME expr \in Expressions, NEW n \in Nodes(expr),
         expr.kind[n] \in {"bool", "integer", "float"}
  PROVE  Literal(expr.literal[n]) \in {Ok(v) : v \in ValidValues}
<1> DEFINE v == expr.literal[n]
<1>1. v \in ValidValues
  BY ExprFacts DEF HasPayload, ValidValues
<1> HIDE DEF v
<1>2. CASE IsFloat(v)
  <2>1. v.class \in NumberClasses
    BY <1>1, <1>2, ValueTypes
  <2>2. Literal(v) = Ok(Float(v.class))
    BY <1>2, <2>1 DEF Literal, CheckedFloat, NumberClasses
  <2>3. Float(v.class) \in ValidValues
    BY <2>1 DEF ValidValues, Numbers
  <2>4. QED
    BY <2>2, <2>3 DEF v
<1>3. CASE ~IsFloat(v)
  BY <1>1, <1>3 DEF Literal, v
<1>4. QED
  BY <1>2, <1>3

\* Operators are given as many operands as they take.
LEMMA AppliedOutcome ==
  ASSUME expr \in Expressions, NEW n \in Nodes(expr), expr.kind[n] \in Compound,
         NEW vals \in Seq(ValidValues), Len(vals) = Arity(expr, n)
  PROVE  Applied(expr, n, vals) \subseteq Outcomes
<1>1. HasPayload(expr, n) /\ OwnsChildren(expr, n)
  BY ExprFacts DEF IsAst
<1>2. \A i \in 1 .. Len(vals) : vals[i] \in ValidValues
  BY ElementOfSeq
<1>3. CASE expr.kind[n] = "unary"
  <2>1. expr.op[n] \in UnaryOps /\ vals[1] \in ValidValues
    BY <1>1, <1>2, <1>3 DEF HasPayload, OwnsChildren
  <2>2. QED
    BY <1>3, <2>1, UnaryClosed DEF Applied
<1>4. CASE expr.kind[n] = "binary"
  <2>1. expr.op[n] \in BinaryOps /\ vals[1] \in ValidValues /\ vals[2] \in ValidValues
    BY <1>1, <1>2, <1>4 DEF HasPayload, OwnsChildren
  <2>2. QED
    BY <1>4, <2>1, BinaryClosed DEF Applied
<1>5. CASE expr.kind[n] = "function"
  <2>1. expr.op[n] \in Funcs
    BY <1>1, <1>5 DEF HasPayload
  <2>2. QED
    BY <1>5, <2>1, FunctionClosed DEF Applied
<1>6. QED
  BY <1>3, <1>4, <1>5 DEF Compound

\* A call that returns has visited its whole subtree, and its caller, if any,
\* is about to have it as its next operand.
LEMMA ReturnFacts ==
  ASSUME IInv, stack # <<>>
  PROVE  /\ Top \in Frames
         /\ Top.node \in Nodes(expr)
         /\ Len(stack) \in 1 .. Len(stack)
         /\ Below \in Seq(Frames)
         /\ IsPath(expr, Below)
         /\ AllCompound(expr, Below)
         /\ NextOperand(expr, Below, Top.node)
<1>1. stack \in Seq(Frames) /\ IsPath(expr, stack)
  BY DEF IInv, TypeOK, Recursion
<1>2. Len(stack) \in Nat \ {0}
  BY <1>1, EmptySeq
<1>3. /\ Below \in Seq(Frames)
      /\ IsPath(expr, Below)
      /\ Len(Below) = Len(stack) - 1
      /\ \A h \in 1 .. Len(Below) : Below[h] = stack[h]
      /\ NextOperand(expr, Below, Top.node)
  <2>1. Below = CallersOf(stack) /\ Top = stack[Len(stack)]
    BY DEF Below, Top, CallersOf
  <2>2. QED
    BY <1>1, <2>1, PathBelow
<1>4. AllCompound(expr, Below)
  <2>1. CASE pc = "eval"
    <3> SUFFICES ASSUME NEW h \in 1 .. Len(Below)
                 PROVE  expr.kind[Below[h].node] \in Compound
      BY DEF AllCompound
    <3>1. h \in 1 .. Len(stack) /\ Below[h] = stack[h]
      BY <1>2, <1>3
    <3>2. QED
      BY <2>1, <3>1 DEF IInv, Recursion, AllCompound
  <2>2. CASE pc = "resolving"
    BY <2>2 DEF IInv, Recursion
  <2>3. QED
    BY <2>1, <2>2 DEF IInv, Recursion, TypeOK
<1>5. Top \in Frames /\ Top.node \in Nodes(expr)
  BY <1>1, <1>2, ElementOfSeq DEF Top, IsPath
<1>6. QED
  BY <1>2, <1>3, <1>4, <1>5

-----------------------------------------------------------------------------
(* The invariant.                                                          *)

\* The invariant holds when eval_with_resolver is called.
LEMMA InitInv ==
  ASSUME Init
  PROVE  IInv
<1>1. stack = <<>> /\ Len(stack) = 0 /\ stack \in Seq(Frames) /\ pc = "eval"
      /\ expr \in Expressions /\ asked = 0 /\ result = Pending
      /\ answers = [n \in Nodes(expr) |-> Pending]
  BY EmptySeq DEF Init
<1>2. IsAst(expr)
  BY <1>1, ExprFacts
<1>3. expr.size \in Nat \ {0} /\ 0 \in 0 .. expr.size
  BY <1>2 DEF IsAst
<1>4. TypeOK
  BY <1>1, <1>3 DEF TypeOK
<1>5. Recursion /\ Progress
  BY <1>1 DEF Recursion, Progress, IsPath, AllCompound, Visited, Variables, Nodes
<1>6. AskedInOrder
  BY <1>1, <1>3 DEF AskedInOrder, Variables, Nodes
<1>7. QED
  BY <1>1, <1>4, <1>5, <1>6 DEF IInv

\* A result o of node n is delivered once every variable of n's subtree has
\* been asked for and answered.
LEMMA DeliveryKeeps ==
  ASSUME IInv, expr' = expr, asked' = asked,
         NEW n \in Nodes(expr), NEW o \in Results,
         NEW below \in Seq(Frames), IsPath(expr, below), AllCompound(expr, below),
         NextOperand(expr, below, n), Deliver(o, below),
         answers' \in [Nodes(expr) -> Answers \cup {Pending}],
         \A m \in Variables :
           /\ m < asked => answers'[m] # Pending /\ Resolved(answers'[m]).ok
           /\ m > asked => answers'[m] = Pending
           /\ m = asked => answers'[m] # Pending,
         o.ok => /\ asked =< expr.last[n]
                 /\ \A m \in Variables : m =< expr.last[n] => m =< asked
                 /\ asked # 0 => Resolved(answers'[asked]).ok,
         result = Pending
  PROVE  IInv'
<1>1. IsAst(expr)
  BY ExprFacts DEF IInv
<1>2. \/ /\ pc' = "done" /\ stack' = <<>> /\ result' = o
         /\ ~o.ok \/ below = <<>>
      \/ /\ pc' = "eval" /\ stack' # <<>> /\ result' = result
         /\ o.ok /\ below # <<>>
         /\ stack' \in Seq(Frames)
         /\ IsPath(expr, stack') /\ AllCompound(expr, stack')
         /\ Visited' = expr.last[n]
  BY <1>1, Delivered
<1>3. Variables' = Variables
  BY DEF Variables
<1>4. stack' \in Seq(Frames) /\ IsPath(expr, stack') /\ result' \in Results \cup {Pending}
  <2>1. <<>> \in Seq(Frames) /\ Len(<<>>) = 0
    BY EmptySeq
  <2>2. IsPath(expr, <<>>)
    BY <2>1 DEF IsPath
  <2>3. CASE stack' = <<>> /\ result' = o
    BY <2>1, <2>2, <2>3
  <2>4. QED
    BY <1>2, <2>3
<1>5. TypeOK'
  BY <1>2, <1>4 DEF IInv, TypeOK, Results
<1>6. Recursion'
  BY <1>2, <1>4 DEF Recursion
<1>7. Progress'
  BY <1>2, <1>3 DEF IInv, Progress
<1>8. AskedInOrder'
  <2>1. pc' # "resolving"
    BY <1>2
  <2>2. QED
    BY <2>1, <1>3 DEF AskedInOrder
<1>9. QED
  BY <1>5, <1>6, <1>7, <1>8 DEF IInv

\* While no call of the resolver is pending, what was asked is answered.
LEMMA AnsweredSoFar ==
  ASSUME IInv, pc = "eval"
  PROVE  /\ result = Pending
         /\ answers \in [Nodes(expr) -> Answers \cup {Pending}]
         /\ \A m \in Variables :
              /\ m < asked => answers[m] # Pending /\ Resolved(answers[m]).ok
              /\ m > asked => answers[m] = Pending
              /\ m = asked => answers[m] # Pending
BY DEF IInv, TypeOK, Recursion, AskedInOrder

\* A literal is delivered when it is visited, and no variable with it.
LEMMA LiteralFacts ==
  ASSUME IInv, EvalLiteral
  PROVE  /\ pc = "eval" /\ UNCHANGED <<expr, asked, answers>>
         /\ Callee \in Nodes(expr) /\ NextOperand(expr, stack, Callee)
         /\ Literal(expr.literal[Callee]) \in Outcomes
         /\ Deliver(Literal(expr.literal[Callee]), stack)
         /\ asked =< expr.last[Callee]
         /\ \A m \in Variables : m =< expr.last[Callee] => m =< asked
<1> DEFINE n == Callee
<1>1. /\ pc = "eval" /\ AtCall /\ UNCHANGED <<expr, asked, answers>>
      /\ expr.kind[n] \in {"bool", "integer", "float"}
      /\ Deliver(Literal(expr.literal[n]), stack)
  BY DEF EvalLiteral, AtCall
<1>2. /\ IsAst(expr) /\ n \in Nodes(expr) /\ n = Visited + 1 /\ Visited \in Nat
      /\ NextOperand(expr, stack, n)
  BY <1>1, CallFacts
<1>3. Literal(expr.literal[n]) \in Outcomes
  BY <1>1, <1>2, LiteralOk DEF IInv, Outcomes
<1>4. expr.last[n] = n
  BY <1>1, <1>2, LeafFacts DEF LeafKinds
<1>5. n \notin Variables
  BY <1>1 DEF Variables
<1>6. /\ asked =< Visited /\ asked \in Nat
      /\ \A m \in Variables : m =< Visited => m =< asked
  BY <1>1, <1>2 DEF IInv, Progress, TypeOK, IsAst
<1> HIDE DEF n
<1>7. \A m \in Variables : m =< n => m =< Visited
  BY <1>2, <1>5 DEF Variables, Nodes
<1>8. asked =< expr.last[n] /\ \A m \in Variables : m =< expr.last[n] => m =< asked
  BY <1>2, <1>4, <1>6, <1>7
<1>9. QED
  BY <1>1, <1>2, <1>3, <1>8 DEF n

\* An operator or function is applied when its whole subtree has been visited.
LEMMA ApplyFacts ==
  ASSUME IInv, Apply
  PROVE  /\ pc = "eval" /\ UNCHANGED <<expr, asked, answers>> /\ stack # <<>>
         /\ Top.node \in Nodes(expr) /\ NextOperand(expr, Below, Top.node)
         /\ \E o \in Outcomes : Deliver(o, Below)
         /\ asked =< expr.last[Top.node]
         /\ \A m \in Variables : m =< expr.last[Top.node] => m =< asked
<1> DEFINE n == Top.node
<1>1. /\ pc = "eval" /\ stack # <<>> /\ Len(Top.vals) = Arity(expr, n)
      /\ UNCHANGED <<expr, asked, answers>>
  BY DEF Apply
<1>2. PICK o \in Applied(expr, n, Top.vals) : Deliver(o, Below)
  BY DEF Apply
<1>3. IsAst(expr) /\ expr \in Expressions
  BY ExprFacts DEF IInv
<1>4. /\ Top \in Frames /\ n \in Nodes(expr) /\ Len(stack) \in 1 .. Len(stack)
      /\ NextOperand(expr, Below, n)
  BY <1>1, ReturnFacts
<1>5. expr.kind[n] \in Compound /\ Top.vals \in Seq(ValidValues)
  BY <1>1, <1>4 DEF IInv, Recursion, AllCompound, Top, Frames
<1>6. o \in Outcomes
  BY <1>1, <1>2, <1>3, <1>4, <1>5, AppliedOutcome
<1>7. Visited = expr.last[n]
  <2>1. Arity(expr, n) \in Nat
    BY <1>3, <1>4, NodeFacts
  <2>2. expr.last[n] = LastVisited(expr, n, Arity(expr, n))
    BY <2>1, <1>3, <1>4, OperandFacts
  <2>3. QED
    BY <2>2, <1>1 DEF Visited
<1>8. asked =< expr.last[n] /\ \A m \in Variables : m =< expr.last[n] => m =< asked
  BY <1>1, <1>7 DEF IInv, Progress
<1>9. QED
  BY <1>1, <1>2, <1>4, <1>6, <1>8

\* A literal returns.
LEMMA LiteralKeeps ==
  ASSUME IInv, EvalLiteral
  PROVE  IInv'
<1> DEFINE n == Callee
           o == Literal(expr.literal[n])
<1>1. /\ pc = "eval" /\ expr' = expr /\ asked' = asked /\ answers' = answers
      /\ n \in Nodes(expr) /\ NextOperand(expr, stack, n)
      /\ o \in Results /\ Deliver(o, stack)
      /\ asked =< expr.last[n] /\ \A m \in Variables : m =< expr.last[n] => m =< asked
  BY LiteralFacts DEF Results
<1>2. /\ stack \in Seq(Frames) /\ IsPath(expr, stack) /\ AllCompound(expr, stack)
      /\ asked # 0 => Resolved(answers'[asked]).ok
  BY <1>1 DEF IInv, TypeOK, Recursion, Progress
<1> HIDE DEF n, o
<1>3. QED
  BY <1>1, <1>2, AnsweredSoFar, DeliveryKeeps

\* An operator or a function is applied to its operands.
LEMMA ApplyKeeps ==
  ASSUME IInv, Apply
  PROVE  IInv'
<1> DEFINE n == Top.node
<1>1. /\ pc = "eval" /\ expr' = expr /\ asked' = asked /\ answers' = answers
      /\ stack # <<>> /\ n \in Nodes(expr) /\ NextOperand(expr, Below, n)
      /\ asked =< expr.last[n] /\ \A m \in Variables : m =< expr.last[n] => m =< asked
  BY ApplyFacts
<1>2. PICK o \in Results : Deliver(o, Below)
  BY ApplyFacts DEF Results
<1>3. /\ Below \in Seq(Frames) /\ IsPath(expr, Below) /\ AllCompound(expr, Below)
      /\ asked # 0 => Resolved(answers'[asked]).ok
  BY <1>1, ReturnFacts DEF IInv, Progress
<1> HIDE DEF n
<1>4. QED
  BY <1>1, <1>2, <1>3, AnsweredSoFar, DeliveryKeeps

\* The resolver returns.
LEMMA ReturnsKeep ==
  ASSUME IInv, ResolverReturns
  PROVE  IInv'
<1>1. PICK answer \in Answers :
        /\ answers' = [answers EXCEPT ![Top.node] = answer]
        /\ Deliver(Resolved(answer), Below)
  BY DEF ResolverReturns
<1>2. /\ pc = "resolving" /\ expr' = expr /\ asked' = asked /\ result = Pending
      /\ stack # <<>> /\ Top.node = asked /\ asked \in Variables
  BY DEF ResolverReturns, IInv, Recursion
<1>3. IsAst(expr) /\ asked \in Nodes(expr) /\ expr.kind[asked] = "variable"
  BY <1>2, ExprFacts DEF IInv, Variables
<1>4. expr.last[asked] = asked
  BY <1>3, LeafFacts DEF LeafKinds
<1>5. /\ Below \in Seq(Frames) /\ IsPath(expr, Below) /\ AllCompound(expr, Below)
      /\ NextOperand(expr, Below, asked)
  BY <1>2, ReturnFacts
<1>6. answer # Pending
  BY ResolverErrorsAssumption DEF Answers, Pending, Ok, Err
<1>7. /\ answers \in [Nodes(expr) -> Answers \cup {Pending}]
      /\ \A m \in Variables :
           /\ m < asked => answers[m] # Pending /\ Resolved(answers[m]).ok
           /\ m > asked => answers[m] = Pending
  BY DEF IInv, TypeOK, AskedInOrder
<1>8. /\ answers' \in [Nodes(expr) -> Answers \cup {Pending}]
      /\ answers'[asked] = answer
      /\ \A m \in Nodes(expr) : m # asked => answers'[m] = answers[m]
  BY <1>1, <1>2, <1>3, <1>7
<1>9. \A m \in Variables :
        /\ m < asked => answers'[m] # Pending /\ Resolved(answers'[m]).ok
        /\ m > asked => answers'[m] = Pending
        /\ m = asked => answers'[m] # Pending
  <2> TAKE m \in Variables
  <2>1. m \in Nodes(expr) /\ m \in Int /\ asked \in Int
    BY <1>3 DEF Variables, Nodes
  <2>2. QED
    BY <2>1, <1>6, <1>7, <1>8
<1>10. /\ asked =< expr.last[asked]
       /\ \A m \in Variables : m =< expr.last[asked] => m =< asked
       /\ Resolved(answer).ok => Resolved(answers'[asked]).ok
  BY <1>3, <1>4, <1>8 DEF Nodes
<1>11. QED
  BY <1>1, <1>2, <1>3, <1>5, <1>8, <1>9, <1>10, ResolvedResult, DeliveryKeeps

\* Stepping into a node that is visited before anything else puts it on top of
\* the active calls.
LEMMA PushedCall ==
  ASSUME IInv, AtCall, stack' = Append(stack, [node |-> Callee, vals |-> <<>>])
  PROVE  /\ stack' \in Seq(Frames) /\ stack' # <<>>
         /\ IsPath(expr, stack')
         /\ Top'.node = Callee /\ Len(Top'.vals) = 0
         /\ Below' = stack
         /\ expr.kind[Callee] \in Compound => AllCompound(expr, stack')
<1>1. /\ IsAst(expr) /\ stack \in Seq(Frames) /\ Callee \in Nodes(expr)
      /\ expr.depth[Callee] = Len(stack) /\ NextOperand(expr, stack, Callee)
  BY CallFacts
<1>2. IsPath(expr, stack) /\ AllCompound(expr, stack)
  BY DEF IInv, Recursion, AtCall
<1>3. stack' = Called(stack, Callee)
  BY DEF Called
<1>4. /\ stack' \in Seq(Frames)
      /\ Len(stack') = Len(stack) + 1
      /\ \A h \in 1 .. Len(stack) : stack'[h] = stack[h]
      /\ stack'[Len(stack')].node = Callee /\ Len(stack'[Len(stack')].vals) = 0
      /\ IsPath(expr, stack')
  BY <1>1, <1>2, <1>3, PathPush
<1>5. stack' # <<>> /\ Len(stack) \in Nat
  BY <1>4, EmptySeq, <1>1
<1>6. Below' = stack
  <2>1. /\ Below' \in Seq(Frames) /\ Len(Below') = Len(stack)
        /\ \A h \in 1 .. Len(stack) : Below'[h] = stack[h]
    <3>1. Below' = SubSeq(stack', 1, Len(stack') - 1)
      BY DEF Below
    <3>2. /\ Below' \in Seq(Frames) /\ Len(Below') = Len(stack') - 1
          /\ \A h \in 1 .. Len(stack') - 1 : Below'[h] = stack'[h]
      BY <1>4, <1>5, <3>1, PopFacts
    <3>3. QED
      BY <3>2, <1>4, <1>5
  <2>2. QED
    BY <2>1, <1>1, SeqEqual
<1>7. ASSUME expr.kind[Callee] \in Compound
      PROVE  AllCompound(expr, stack')
  <2> SUFFICES ASSUME NEW h \in 1 .. Len(stack) + 1
               PROVE  expr.kind[stack'[h].node] \in Compound
    BY <1>4 DEF AllCompound
  <2>1. CASE h = Len(stack) + 1
    BY <2>1, <1>4, <1>7
  <2>2. CASE h # Len(stack) + 1
    <3>1. h \in 1 .. Len(stack) /\ stack'[h] = stack[h]
      BY <2>2, <1>4, <1>5
    <3>2. QED
      BY <3>1, <1>2 DEF AllCompound
  <2>3. QED
    BY <2>1, <2>2
<1>8. QED
  BY <1>4, <1>5, <1>6, <1>7 DEF Top

\* An operand is evaluated.
LEMMA DescendKeeps ==
  ASSUME IInv, Descend
  PROVE  IInv'
<1> DEFINE n == Callee
<1>1. /\ pc = "eval" /\ pc' = pc /\ AtCall /\ expr' = expr /\ asked' = asked
      /\ answers' = answers /\ result' = result /\ expr.kind[n] \in Compound
      /\ stack' = Append(stack, [node |-> n, vals |-> <<>>])
  BY DEF Descend, AtCall, Compound
<1>2. IsAst(expr) /\ n \in Nodes(expr) /\ n = Visited + 1 /\ Visited \in Nat
  BY <1>1, CallFacts
<1>3. /\ stack' \in Seq(Frames) /\ stack' # <<>> /\ IsPath(expr, stack')
      /\ Top'.node = n /\ Len(Top'.vals) = 0 /\ AllCompound(expr, stack')
  BY <1>1, PushedCall
<1>4. Visited' = n
  BY <1>1, <1>3 DEF Visited, LastVisited
<1>5. n \notin Variables /\ Variables' = Variables
  BY <1>1 DEF Variables, Compound
<1> HIDE DEF n
<1>6. TypeOK'
  BY <1>1, <1>3 DEF IInv, TypeOK
<1>7. Recursion'
  BY <1>1, <1>3 DEF IInv, Recursion
<1>8. Progress'
  <2>1. \A m \in Variables : m =< n => m =< Visited
    BY <1>2, <1>5 DEF Variables, Nodes
  <2>2. asked \in Nat
    BY <1>2 DEF IInv, TypeOK, IsAst
  <2>3. QED
    BY <1>1, <1>2, <1>4, <1>5, <2>1, <2>2 DEF IInv, Progress, Resolved
<1>9. AskedInOrder'
  BY <1>1, <1>5 DEF IInv, AskedInOrder
<1>10. QED
  BY <1>1, <1>6, <1>7, <1>8, <1>9 DEF IInv

\* The variable asked for next is the first one after the last one.
LEMMA AskedNext ==
  ASSUME IInv, CallResolver
  PROVE  /\ IsAst(expr) /\ asked \in Nat
         /\ Callee \in Variables /\ Callee > asked
         /\ \A m \in Variables : m < Callee => m =< asked
<1>1. pc = "eval" /\ AtCall /\ expr.kind[Callee] = "variable"
  BY DEF CallResolver, AtCall
<1>2. IsAst(expr) /\ Callee \in Nodes(expr) /\ Callee = Visited + 1 /\ Visited \in Nat
  BY <1>1, CallFacts
<1>3. asked \in Nat
  BY <1>2 DEF IInv, TypeOK, IsAst
<1>4. asked =< Visited /\ \A m \in Variables : m =< Visited => m =< asked
  BY <1>1 DEF IInv, Progress
<1>5. \A m \in Variables : m < Callee => m =< Visited
  BY <1>2 DEF Variables, Nodes
<1>6. QED
  BY <1>1, <1>2, <1>3, <1>4, <1>5 DEF Variables

\* The resolver is called.
LEMMA CallKeeps ==
  ASSUME IInv, CallResolver
  PROVE  IInv'
<1> DEFINE n == Callee
<1>1. /\ pc = "eval" /\ pc' = "resolving" /\ AtCall /\ expr' = expr /\ asked' = n
      /\ answers' = answers /\ result' = result
      /\ stack' = Append(stack, [node |-> n, vals |-> <<>>])
  BY DEF CallResolver, AtCall
<1>2. /\ IsAst(expr) /\ asked \in Nat /\ n \in Variables /\ n > asked
      /\ \A m \in Variables : m < n => m =< asked
  BY AskedNext
<1>3. /\ stack' \in Seq(Frames) /\ stack' # <<>> /\ IsPath(expr, stack')
      /\ Top'.node = n /\ Below' = stack
  BY <1>1, PushedCall
<1>4. Variables' = Variables /\ AllCompound(expr, stack)
  BY <1>1 DEF Variables, IInv, Recursion
<1> HIDE DEF n
<1>5. n \in Nodes(expr) /\ n \in 0 .. expr.size
  BY <1>2 DEF Variables, Nodes, IsAst
<1>6. TypeOK'
  BY <1>1, <1>3, <1>5 DEF IInv, TypeOK
<1>7. Recursion'
  BY <1>1, <1>2, <1>3, <1>4 DEF IInv, Recursion
<1>8. Progress'
  BY <1>1, <1>2, <1>4 DEF Progress
<1>9. AskedInOrder'
  <2> SUFFICES ASSUME NEW m \in Variables
               PROVE  /\ m < n => answers[m] # Pending /\ Resolved(answers[m]).ok
                      /\ m > n => answers[m] = Pending
                      /\ m = n => answers[m] = Pending
    BY <1>1, <1>4 DEF AskedInOrder
  <2>1. m \in Nat
    BY DEF Variables, Nodes
  <2>2. /\ m < asked => answers[m] # Pending /\ Resolved(answers[m]).ok
        /\ m > asked => answers[m] = Pending
        /\ m = asked => answers[m] # Pending
    BY <1>1, AnsweredSoFar
  <2>3. m = asked => Resolved(answers[m]).ok
    BY <1>1, <2>1 DEF IInv, Progress, Variables, Nodes
  <2>4. m < n => m =< asked
    BY <1>2
  <2>5. n \in Nat
    BY <1>5
  <2>6. QED
    BY <1>2, <2>1, <2>2, <2>3, <2>4, <2>5
<1>10. QED
  BY <1>1, <1>6, <1>7, <1>8, <1>9 DEF IInv

\* Every step keeps the invariant.
LEMMA NextKeeps ==
  ASSUME IInv, [Next]_vars
  PROVE  IInv'
<1>1. CASE EvalLiteral
  BY <1>1, LiteralKeeps
<1>2. CASE Descend
  BY <1>2, DescendKeeps
<1>3. CASE CallResolver
  BY <1>3, CallKeeps
<1>4. CASE Apply
  BY <1>4, ApplyKeeps
<1>5. CASE ResolverReturns
  BY <1>5, ReturnsKeep
<1>6. CASE UNCHANGED vars
  BY <1>6 DEF vars, IInv, TypeOK, Recursion, Progress, AskedInOrder, Visited, Top, Below, Variables
<1>7. QED
  BY <1>1, <1>2, <1>3, <1>4, <1>5, <1>6 DEF Next, Step

-----------------------------------------------------------------------------
(* The theorems.                                                           *)

\* Every reachable state of eval_with_resolver satisfies the inductive
\* invariant.
THEOREM Invariance == Spec => []IInv
<1>1. Init => IInv
  BY InitInv
<1>2. IInv /\ [Next]_vars => IInv'
  BY NextKeeps
<1>3. QED
  BY <1>1, <1>2, PTL DEF Spec

\* Every operand, answer and result of an evaluation is of its type: operators
\* only ever see values that evaluation may use (validate_value, checked_f64).
THEOREM TypeCorrect == Spec => []TypeOK
<1>1. IInv => TypeOK
  BY DEF IInv
<1>2. QED
  BY <1>1, Invariance, PTL

\* The active calls of eval_with_resolver are a path from the root, so its
\* recursion is never deeper than the tree.
THEOREM FollowsTree == Spec => []CallsFollowTree
<1>1. IInv => CallsFollowTree
  <2>1. ASSUME IInv
        PROVE  stack \in Seq(Frames) /\ DOMAIN stack = 1 .. Len(stack) /\ IsPath(expr, stack)
    BY <2>1, LenProperties DEF IInv, TypeOK, Recursion
  <2>2. QED
    BY <2>1 DEF IsPath, CallsFollowTree
<1>2. QED
  BY <1>1, Invariance, PTL

\* The resolver is asked for the variables left to right, once per occurrence,
\* and each answer before the last is a value evaluation may use.
THEOREM AsksInOrder == Spec => []AskedInOrder
<1>1. IInv => AskedInOrder
  BY DEF IInv
<1>2. QED
  BY <1>1, Invariance, PTL

-----------------------------------------------------------------------------
(* Evaluation keeps the contract of the resolver.                          *)

\* The contract is instantiated with the values, errors and trees of the
\* evaluator.
LEMMA SameVocabulary ==
  /\ Contract!Answers = Answers
  /\ Contract!Pending = Pending
  /\ Contract!Nodes(expr) = Nodes(expr)
  /\ Contract!Occurrences(expr) = Variables
  /\ \A answer : Contract!Admitted(answer) = Resolved(answer)
  /\ \A o \in Outcomes : o.ok => o \in Contract!Values64
  /\ \A o \in Outcomes : ~o.ok => o \in Contract!OwnErrors
<1>1. /\ \A v : Contract!Ok(v) = Ok(v)
      /\ \A e : Contract!Err(e) = Err(e) /\ Contract!Overflow(e) = Overflow(e)
      /\ \A c : Contract!Float(c) = Float(c)
  BY DEF Contract!Ok, Ok, Contract!Err, Err, Contract!Overflow, Overflow, Contract!Float, Float
<1>2. Contract!ValidValues = ValidValues
  BY DEF Contract!ValidValues, Contract!Bools, Contract!Integers64, Contract!Numbers,
         Contract!Bool, Contract!Int64, Contract!Float, Contract!Ints, Contract!MinInt,
         Contract!MaxInt, Contract!NumberClasses, ValidValues, Bools, Integers64, Numbers,
         Bool, Int64, Float, Ints, MinInt, MaxInt, NumberClasses, Contract!PowerOfTwo,
         PowerOfTwo
<1>3. Contract!FloatClasses = FloatClasses
  BY DEF Contract!FloatClasses, FloatClasses, Contract!NumberClasses, NumberClasses
<1>4. Contract!AnyValues = AnyValues
  BY <1>1, <1>2, <1>3 DEF Contract!AnyValues, AnyValues
<1>5. Contract!Answers = Answers
  BY <1>1, <1>4 DEF Contract!Answers, Answers
<1>6. Contract!Pending = Pending
  BY <1>1 DEF Contract!Pending, Pending
<1>7. Contract!Nodes(expr) = Nodes(expr) /\ Contract!Occurrences(expr) = Variables
  BY DEF Contract!Occurrences, Contract!Nodes, Variables, Nodes
<1>8. \A c : Contract!CheckedFloat(c) = CheckedFloat(c)
  BY <1>1 DEF Contract!CheckedFloat, CheckedFloat
<1>9. \A answer : Contract!Admitted(answer) = Resolved(answer)
  BY <1>1, <1>8 DEF Contract!Admitted, Resolved, Contract!ValidateValue, ValidateValue
<1>10. \A o \in Outcomes : o.ok => o \in Contract!Values64
  BY <1>1, <1>2 DEF Contract!Values64, Outcomes, Err, Overflow
<1>11. Contract!EvalErrors = EvalErrors /\ Contract!ArithmeticOps = ArithmeticOps
  BY DEF Contract!EvalErrors, EvalErrors, Contract!ArithmeticOps, ArithmeticOps
<1>12. \A o \in Outcomes : ~o.ok => o \in Contract!OwnErrors
  BY <1>1, <1>11 DEF Contract!OwnErrors, Outcomes, Ok
<1>13. QED
  BY <1>5, <1>6, <1>7, <1>9, <1>10, <1>12

\* The host waits for the resolver exactly while evaluation does.
LEMMA WaitingIsResolving ==
  ASSUME IInv
  PROVE  Contract!Waiting <=> pc = "resolving"
<1>1. asked = 0 \/ asked \in Variables
  BY DEF IInv, Progress
<1>2. asked \in Variables => asked # 0 /\ (answers[asked] = Pending <=> pc = "resolving")
  BY DEF IInv, AskedInOrder, Variables, Nodes
<1>3. pc = "resolving" => asked \in Variables
  BY DEF IInv, Recursion
<1>4. QED
  BY <1>1, <1>2, <1>3, SameVocabulary DEF Contract!Waiting

\* A value that ends the evaluation comes after every occurrence was asked for.
LEMMA AllAskedAtTheEnd ==
  ASSUME IInv, NEW n \in Nodes(expr), NextOperand(expr, <<>>, n),
         \A m \in Variables : m =< expr.last[n] => m =< asked
  PROVE  Contract!AllAsked
<1>1. IsAst(expr) /\ n = 1
  BY ExprFacts DEF IInv, NextOperand
<1>2. expr.last[n] = expr.size
  BY <1>1 DEF IsAst
<1>3. \A m \in Variables : m =< asked
  BY <1>1, <1>2 DEF Variables, Nodes
<1>4. QED
  BY <1>3, SameVocabulary DEF Contract!AllAsked

\* An evaluation starts as the contract does.
LEMMA InitKept ==
  ASSUME Init
  PROVE  Contract!ContractInit
BY SameVocabulary DEF Init, Contract!ContractInit

\* What delivering an outcome of the evaluator's own does to the contract:
\* nothing, or it concludes.
LEMMA DeliveryConcludes ==
  ASSUME IInv, pc = "eval", NEW n \in Nodes(expr), NEW below, NextOperand(expr, below, n),
         \A m \in Variables : m =< expr.last[n] => m =< asked,
         NEW o \in Outcomes, Deliver(o, below), UNCHANGED <<expr, asked, answers>>
  PROVE  Contract!Conclude \/ UNCHANGED Contract!contractVars
<1>1. result = Pending /\ ~Contract!Waiting
  BY WaitingIsResolving, AnsweredSoFar
<1>2. CASE o.ok /\ below # <<>>
  BY <1>2 DEF Deliver, Contract!contractVars
<1>3. CASE o.ok /\ below = <<>>
  <2>1. result' = o /\ o \in Contract!Values64
    BY <1>3, SameVocabulary DEF Deliver
  <2>2. Contract!AllAsked
    BY <1>3, AllAskedAtTheEnd
  <2>3. QED
    BY <1>1, <2>1, <2>2, SameVocabulary DEF Contract!Conclude
<1>4. CASE ~o.ok
  <2>1. result' = o /\ o \in Contract!OwnErrors
    BY <1>4, SameVocabulary DEF Deliver
  <2>2. QED
    BY <1>1, <2>1, SameVocabulary DEF Contract!Conclude
<1>5. QED
  BY <1>2, <1>3, <1>4

\* A literal concludes the evaluation, or the contract does not see it.
LEMMA LiteralConcludes ==
  ASSUME IInv, EvalLiteral
  PROVE  Contract!Conclude \/ UNCHANGED Contract!contractVars
BY LiteralFacts, DeliveryConcludes

\* So does an operator or a function.
LEMMA ApplyConcludes ==
  ASSUME IInv, Apply
  PROVE  Contract!Conclude \/ UNCHANGED Contract!contractVars
BY ApplyFacts, DeliveryConcludes

\* A call of the resolver is the contract's question.
LEMMA CallAsks ==
  ASSUME IInv, CallResolver
  PROVE  Contract!Ask
<1>1. /\ pc = "eval" /\ asked' = Callee /\ UNCHANGED <<expr, answers, result>>
  BY DEF CallResolver, AtCall
<1>2. ~Contract!Waiting /\ result = Pending
  BY <1>1, WaitingIsResolving, AnsweredSoFar
<1>3. /\ asked \in Nat /\ Callee \in Variables /\ Callee > asked
      /\ \A m \in Variables : m < Callee => m =< asked
  BY AskedNext
<1>4. \A m \in Variables : m > asked => Callee =< m
  BY <1>3 DEF Variables, Nodes
<1>5. QED
  BY <1>1, <1>2, <1>3, <1>4, SameVocabulary DEF Contract!Ask

\* Its return is the contract's answer.
LEMMA ReturnAnswers ==
  ASSUME IInv, ResolverReturns
  PROVE  Contract!Answered
<1>1. PICK answer \in Answers :
        /\ answers' = [answers EXCEPT ![Top.node] = answer]
        /\ Deliver(Resolved(answer), Below)
  BY DEF ResolverReturns
<1>2. /\ pc = "resolving" /\ UNCHANGED <<expr, asked>> /\ result = Pending
      /\ stack # <<>> /\ Top.node = asked /\ asked \in Variables
  BY DEF ResolverReturns, IInv, Recursion
<1>3. Contract!Waiting
  BY <1>2, WaitingIsResolving
<1>4. NextOperand(expr, Below, asked)
  BY <1>2, ReturnFacts
<1>5. Resolved(answer) \in Results
  BY ResolvedResult
<1> DEFINE o == Resolved(answer)
<1>6. IF o.ok THEN result' = Pending \/ (Contract!AllAsked /\ result' \in Contract!Values64)
      ELSE result' = o
  <2>1. CASE o.ok /\ Below # <<>>
    BY <2>1, <1>1, <1>2 DEF Deliver
  <2>2. CASE o.ok /\ Below = <<>>
    <3>1. o \in Outcomes
      BY <1>5, <2>2 DEF Results, Err
    <3>2. result' = o /\ o \in Contract!Values64
      BY <1>1, <2>2, <3>1, SameVocabulary DEF Deliver
    <3>3. asked \in Nodes(expr) /\ expr.last[asked] = asked
      BY <1>2, ExprFacts, LeafFacts DEF IInv, Variables, LeafKinds
    <3>4. Contract!AllAsked
      BY <1>4, <2>2, <3>3, AllAskedAtTheEnd
    <3>5. QED
      BY <2>2, <3>2, <3>4
  <2>3. CASE ~o.ok
    BY <2>3, <1>1 DEF Deliver
  <2>4. QED
    BY <2>1, <2>2, <2>3
<1> HIDE DEF o
<1>7. Contract!Admitted(answer) = o
  BY SameVocabulary DEF o
<1>8. QED
  BY <1>1, <1>2, <1>3, <1>6, <1>7, SameVocabulary DEF Contract!Answered

\* Every step is one of the contract, or none.
LEMMA NextKept ==
  ASSUME IInv, [Next]_vars
  PROVE  Contract!ContractNext \/ UNCHANGED Contract!contractVars
<1>1. CASE EvalLiteral
  BY <1>1, LiteralConcludes DEF Contract!ContractNext
<1>2. CASE Descend
  BY <1>2 DEF Descend, Contract!contractVars
<1>3. CASE CallResolver
  BY <1>3, CallAsks DEF Contract!ContractNext
<1>4. CASE Apply
  BY <1>4, ApplyConcludes DEF Contract!ContractNext
<1>5. CASE ResolverReturns
  BY <1>5, ReturnAnswers DEF Contract!ContractNext
<1>6. CASE UNCHANGED vars
  BY <1>6 DEF vars, Contract!contractVars
<1>7. QED
  BY <1>1, <1>2, <1>3, <1>4, <1>5, <1>6 DEF Next, Step

\* Whatever the operators compute and the resolver answers, eval_with_resolver
\* asks for the variables in order and once each, returns a resolver's error at
\* once, and returns a value only when every variable has one.
THEOREM KeepsContract == Spec => ContractKept
<1>1. Init => Contract!ContractInit
  BY InitKept
<1>2. IInv /\ [Next]_vars => [Contract!ContractNext]_(Contract!contractVars)
  BY NextKept
<1>3. QED
  BY <1>1, <1>2, Invariance, PTL DEF Spec, ContractKept, Contract!ContractSpec

-----------------------------------------------------------------------------
(* The meaning of an expression.  Meanings is a recursive function: that    *)
(* there is such a function, and that it is local, is shown by induction    *)
(* from the last node of the tree to the first.                            *)

\* What a node denotes depends on the meanings of its operands alone.
LEMMA DenotesLocal ==
  ASSUME NEW e, NEW n, NEW f, NEW g, NEW given, NEW other,
         \A i \in 1 .. Arity(e, n) : f[e.kids[n][i]] = g[e.kids[n][i]],
         e.kind[n] = "variable" => given[n] = other[n]
  PROVE  Denotes(e, given, f, n) = Denotes(e, other, g, n)
<1>1. [i \in 1 .. Arity(e, n) |-> f[e.kids[n][i]]] = [i \in 1 .. Arity(e, n) |-> g[e.kids[n][i]]]
  OBVIOUS
<1>2. CASE e.kind[n] = "variable"
  BY <1>2 DEF Denotes
<1>3. CASE e.kind[n] # "variable"
  BY <1>1, <1>3 DEF Denotes
<1>4. QED
  BY <1>2, <1>3

\* f is what the nodes of e from n on can evaluate to.
MeansFrom(e, given, f, n) ==
    /\ f = [m \in Nodes(e) |-> f[m]]
    /\ \A m \in Nodes(e) : m >= n => f[m] = Denotes(e, given, f, m)

\* Every tree has a meaning.
LEMMA MeaningsExist ==
  ASSUME NEW e, IsAst(e), NEW given
  PROVE  \E f : f = [n \in Nodes(e) |-> Denotes(e, given, f, n)]
<1> DEFINE S == {n \in Nodes(e) : \E f : MeansFrom(e, given, f, n)}
<1>1. ASSUME NEW n \in Nodes(e), \A m \in Nodes(e) : m > n => m \in S
      PROVE  n \in S
  <2>1. \E f : /\ f = [m \in Nodes(e) |-> f[m]]
               /\ \A m \in Nodes(e) : m > n => f[m] = Denotes(e, given, f, m)
    <3>1. CASE n + 1 \in Nodes(e)
      <4>1. n + 1 \in S
        BY <3>1, <1>1 DEF Nodes
      <4>2. PICK f : MeansFrom(e, given, f, n + 1)
        BY <4>1
      <4>3. \A m \in Nodes(e) : m > n => m >= n + 1
        BY DEF Nodes
      <4>4. QED
        BY <4>2, <4>3 DEF MeansFrom
    <3>2. CASE n + 1 \notin Nodes(e)
      <4> DEFINE f == [m \in Nodes(e) |-> {}]
      <4>1. \A m \in Nodes(e) : ~(m > n)
        BY <3>2 DEF Nodes, IsAst
      <4>2. f = [m \in Nodes(e) |-> f[m]]
        OBVIOUS
      <4>3. QED
        BY <4>1, <4>2
    <3>3. QED
      BY <3>1, <3>2
  <2>2. PICK f : /\ f = [m \in Nodes(e) |-> f[m]]
                 /\ \A m \in Nodes(e) : m > n => f[m] = Denotes(e, given, f, m)
    BY <2>1
  <2> DEFINE g == [f EXCEPT ![n] = Denotes(e, given, f, n)]
  <2>3. /\ g = [m \in Nodes(e) |-> g[m]]
        /\ \A m \in Nodes(e) : g[m] = IF m = n THEN Denotes(e, given, f, n) ELSE f[m]
    BY <2>2
  <2> HIDE DEF g
  <2>4. ASSUME NEW m \in Nodes(e), m >= n
        PROVE  g[m] = Denotes(e, given, g, m)
    <3>1. \A i \in 1 .. Arity(e, m) : e.kids[m][i] \in Nodes(e) /\ e.kids[m][i] > m
      BY KidFacts DEF Nodes
    <3>2. \A i \in 1 .. Arity(e, m) : e.kids[m][i] # n
      BY <3>1, <2>4 DEF Nodes
    <3>3. \A i \in 1 .. Arity(e, m) : f[e.kids[m][i]] = g[e.kids[m][i]]
      BY <3>1, <3>2, <2>3
    <3>4. Denotes(e, given, f, m) = Denotes(e, given, g, m)
      BY <3>3, DenotesLocal
    <3>5. m # n => m > n
      BY <2>4 DEF Nodes
    <3>6. QED
      BY <3>4, <3>5, <2>2, <2>3
  <2>5. MeansFrom(e, given, g, n)
    BY <2>3, <2>4 DEF MeansFrom
  <2>6. QED
    BY <2>5
<1> HIDE DEF S
<1>2. S = Nodes(e)
  <2>1. S \in SUBSET Nodes(e)
    BY DEF S
  <2>2. QED
    BY <1>1, <2>1, NodeInduction
<1>3. 1 \in Nodes(e) /\ \A m \in Nodes(e) : m >= 1
  BY DEF IsAst, Nodes
<1>4. PICK f : MeansFrom(e, given, f, 1)
  BY <1>2, <1>3 DEF S
<1>5. f = [n \in Nodes(e) |-> Denotes(e, given, f, n)]
  BY <1>3, <1>4 DEF MeansFrom
<1>6. QED
  BY <1>5

\* So the recursive function Meanings is the one it describes.
LEMMA MeaningFacts ==
  ASSUME NEW e, IsAst(e), NEW given
  PROVE  \A n \in Nodes(e) :
           Meanings(e, given)[n] = Denotes(e, given, Meanings(e, given), n)
<1> DEFINE P(f) == f = [n \in Nodes(e) |-> Denotes(e, given, f, n)]
<1>1. \E f : P(f)
  BY MeaningsExist
<1>2. Meanings(e, given) = CHOOSE f : P(f)
  BY DEF Meanings
<1> HIDE DEF P
<1>3. P(Meanings(e, given))
  BY <1>1, <1>2
<1>4. QED
  BY <1>3 DEF P

\* Answers to other questions do not change what a subtree means.
LEMMA MeaningLocal ==
  ASSUME NEW e, IsAst(e), NEW given, NEW other, NEW n \in Nodes(e),
         \A m \in Nodes(e) : e.kind[m] = "variable" /\ m =< e.last[n] => given[m] = other[m]
  PROVE  Meanings(e, given)[n] = Meanings(e, other)[n]
<1> DEFINE Same(k) == \A m \in Nodes(e) :
                        e.kind[m] = "variable" /\ m =< e.last[k] => given[m] = other[m]
           S == {k \in Nodes(e) : Same(k) => Meanings(e, given)[k] = Meanings(e, other)[k]}
<1>1. ASSUME NEW k \in Nodes(e), \A m \in Nodes(e) : m > k => m \in S
      PROVE  k \in S
  <2> SUFFICES ASSUME Same(k)
               PROVE  Meanings(e, given)[k] = Meanings(e, other)[k]
    OBVIOUS
  <2>1. ASSUME NEW i \in 1 .. Arity(e, k)
        PROVE  Meanings(e, given)[e.kids[k][i]] = Meanings(e, other)[e.kids[k][i]]
    <3> DEFINE c == e.kids[k][i]
    <3>1. c \in Nodes(e) /\ c > k /\ e.last[c] \in Nodes(e) /\ e.last[c] =< e.last[k]
          /\ e.last[k] \in Nodes(e)
      BY KidFacts, NodeFacts DEF Nodes
    <3>2. \A m \in Nodes(e) : m =< e.last[c] => m =< e.last[k]
      BY <3>1 DEF Nodes
    <3> HIDE DEF c
    <3>3. Same(c)
      BY <3>2
    <3>4. c \in S
      BY <3>1, <1>1
    <3>5. QED
      BY <3>3, <3>4 DEF c
  <2>2. e.kind[k] = "variable" => given[k] = other[k]
    BY NodeFacts
  <2>3. Denotes(e, given, Meanings(e, given), k) = Denotes(e, other, Meanings(e, other), k)
    BY <2>1, <2>2, DenotesLocal
  <2>4. QED
    BY <2>3, MeaningFacts
<1> HIDE DEF S
<1>2. S = Nodes(e)
  <2>1. S \in SUBSET Nodes(e)
    BY DEF S
  <2>2. QED
    BY <1>1, <2>1, NodeInduction
<1>3. QED
  BY <1>2 DEF S

-----------------------------------------------------------------------------
(* The operands the active calls have.                                     *)

\* Each value the calls of s have is what its operand can evaluate to, and the
\* answers it depends on have been given.
OperandsMean(e, given, s) ==
    \A h \in 1 .. Len(s) : \A i \in 1 .. Len(s[h].vals) :
        /\ Ok(s[h].vals[i]) \in Meanings(e, given)[e.kids[s[h].node][i]]
        /\ \A m \in Nodes(e) :
             e.kind[m] = "variable" /\ m =< e.last[e.kids[s[h].node][i]] => given[m] # Pending

\* A value that is an outcome is among the values.
LEMMA ValueAmong ==
  ASSUME NEW outcomes, NEW v, Ok(v) \in outcomes
  PROVE  v \in ValuesOf(outcomes)
<1>1. Ok(v).ok /\ Ok(v).value = v
  BY DEF Ok
<1>2. QED
  BY <1>1 DEF ValuesOf

\* What a compound node evaluates to once it has all its operands.
LEMMA AppliedMeans ==
  ASSUME NEW e, IsAst(e), NEW given, NEW n \in Nodes(e), e.kind[n] \in Compound,
         NEW vals \in Seq(ValidValues), Len(vals) = Arity(e, n),
         \A i \in 1 .. Len(vals) : Ok(vals[i]) \in Meanings(e, given)[e.kids[n][i]],
         NEW o \in Applied(e, n, vals)
  PROVE  o \in Meanings(e, given)[n]
<1> DEFINE operands == [i \in 1 .. Arity(e, n) |-> Meanings(e, given)[e.kids[n][i]]]
<1>1. DOMAIN operands = 1 .. Arity(e, n)
  OBVIOUS
<1>2. \A i \in 1 .. Arity(e, n) : Ok(vals[i]) \in operands[i]
  OBVIOUS
<1> HIDE DEF operands
<1>3. \A i \in 1 .. Arity(e, n) : vals[i] \in ValuesOf(operands[i])
  BY <1>2, ValueAmong
<1>4. vals \in [1 .. Arity(e, n) -> UNION {ValuesOf(operands[i]) : i \in 1 .. Arity(e, n)}]
  <2>1. vals \in [1 .. Arity(e, n) -> ValidValues]
    BY LenProperties
  <2>2. QED
    BY <2>1, <1>3
<1>5. vals \in ValueLists(operands)
  BY <1>1, <1>3, <1>4 DEF ValueLists
<1>6. o \in Denotes(e, given, Meanings(e, given), n)
  BY <1>5 DEF Denotes, operands, Compound
<1>7. QED
  BY <1>6, MeaningFacts

\* The error of an operand, all those before it having values, is an outcome
\* of its node.
LEMMA ErrorMeans ==
  ASSUME NEW e, IsAst(e), NEW given, NEW n \in Nodes(e), e.kind[n] \in Compound,
         NEW k \in 1 .. Arity(e, n), NEW vals,
         \A i \in 1 .. k - 1 : Ok(vals[i]) \in Meanings(e, given)[e.kids[n][i]],
         NEW o \in Meanings(e, given)[e.kids[n][k]], ~o.ok
  PROVE  o \in Meanings(e, given)[n]
<1> DEFINE operands == [i \in 1 .. Arity(e, n) |-> Meanings(e, given)[e.kids[n][i]]]
<1>1. DOMAIN operands = 1 .. Arity(e, n) /\ o \in operands[k]
  OBVIOUS
<1>2. \A i \in 1 .. k - 1 : Ok(vals[i]) \in operands[i]
  BY NodeFacts
<1> HIDE DEF operands
<1>3. \A i \in 1 .. k - 1 : ValuesOf(operands[i]) # {}
  BY <1>2, ValueAmong
<1>4. o \in FirstErrors(operands)
  BY <1>1, <1>3 DEF FirstErrors
<1>5. o \in Denotes(e, given, Meanings(e, given), n)
  BY <1>4 DEF Denotes, operands, Compound
<1>6. QED
  BY <1>5, MeaningFacts

\* An error travels up through the active calls to the root.
LEMMA ErrorTravels ==
  ASSUME NEW e, IsAst(e), NEW given, NEW s \in Seq(Frames), IsPath(e, s), AllCompound(e, s),
         OperandsMean(e, given, s), NEW n \in Nodes(e), NextOperand(e, s, n),
         NEW o \in Meanings(e, given)[n], ~o.ok
  PROVE  o \in Meaning(e, given)
<1> DEFINE N == Len(s)
           S == {k \in Nat : k < N => o \in Meanings(e, given)[s[N - k].node]}
<1>1. N \in Nat
  OBVIOUS
<1>2. ASSUME NEW h \in 1 .. N, NEW c \in Nodes(e), o \in Meanings(e, given)[c],
             Len(s[h].vals) < Arity(e, s[h].node),
             c = e.kids[s[h].node][Len(s[h].vals) + 1]
      PROVE  o \in Meanings(e, given)[s[h].node]
  <2> DEFINE m == s[h].node
             vals == s[h].vals
  <2>1. m \in Nodes(e) /\ e.kind[m] \in Compound
    BY DEF IsPath, AllCompound
  <2>2. Len(vals) \in Nat /\ Arity(e, m) \in Nat
    BY <2>1, NodeFacts, ElementOfSeq DEF Frames
  <2>3. \A i \in 1 .. Len(vals) : Ok(vals[i]) \in Meanings(e, given)[e.kids[m][i]]
    BY DEF OperandsMean
  <2>4. Len(vals) < Arity(e, m) /\ c = e.kids[m][Len(vals) + 1]
    BY <1>2
  <2> HIDE DEF m, vals
  <2>5. Len(vals) + 1 \in 1 .. Arity(e, m) /\ (Len(vals) + 1) - 1 = Len(vals)
    BY <2>2, <2>4
  <2>6. o \in Meanings(e, given)[m]
    BY <1>2, <2>1, <2>3, <2>4, <2>5, ErrorMeans
  <2>7. QED
    BY <2>6 DEF m
<1>3. 0 \in S
  <2> SUFFICES ASSUME 0 < N
               PROVE  o \in Meanings(e, given)[s[N].node]
    BY <1>1
  <2>1. s # <<>> /\ N \in 1 .. N
    BY <1>1, EmptySeq
  <2>2. QED
    BY <2>1, <1>2 DEF NextOperand
<1>4. ASSUME NEW k \in S
      PROVE  k + 1 \in S
  <2> SUFFICES ASSUME k + 1 < N
               PROVE  o \in Meanings(e, given)[s[N - (k + 1)].node]
    BY <1>4
  <2>1. N - k \in 2 .. N /\ N - (k + 1) = (N - k) - 1 /\ N - (k + 1) \in 1 .. N
        /\ N - k \in 1 .. N
    BY <1>1, <1>4
  <2>2. o \in Meanings(e, given)[s[N - k].node]
    BY <1>1, <1>4
  <2> DEFINE h == N - k
  <2>3. h \in 1 .. N /\ h > 1 /\ N - (k + 1) = h - 1 /\ h - 1 \in 1 .. N
    BY <2>1
  <2>4. o \in Meanings(e, given)[s[h].node]
    BY <2>2
  <2> HIDE DEF h
  <2>5. /\ s[h].node \in Nodes(e)
        /\ Len(s[h - 1].vals) < Arity(e, s[h - 1].node)
        /\ s[h].node = e.kids[s[h - 1].node][Len(s[h - 1].vals) + 1]
    BY <2>3 DEF IsPath
  <2>6. o \in Meanings(e, given)[s[h - 1].node]
    BY <1>2, <2>3, <2>4, <2>5
  <2>7. QED
    BY <2>3, <2>6
<1> HIDE DEF S
<1>5. S = Nat
  <2>1. S \in SUBSET Nat
    BY DEF S
  <2>2. QED
    BY <1>3, <1>4, <2>1, SetInduction
<1>6. CASE s = <<>>
  BY <1>6 DEF NextOperand, Meaning
<1>7. CASE s # <<>>
  <2>1. N - 1 \in S /\ N - (N - 1) = 1 /\ N - 1 < N /\ 1 \in 1 .. N
    BY <1>1, <1>5, <1>7, EmptySeq
  <2>2. o \in Meanings(e, given)[s[1].node]
    BY <2>1 DEF S
  <2>3. s[1].node = 1
    BY <2>1 DEF IsPath
  <2>4. QED
    BY <2>2, <2>3 DEF Meaning
<1>8. QED
  BY <1>6, <1>7

-----------------------------------------------------------------------------
(* The invariant.                                                          *)

\* The inductive invariant of the results.
MeansSoFar ==
    /\ OperandsMean(expr, answers, stack)
    /\ ResultIsMeaning

MeansInv == IInv /\ MeansSoFar

\* A result of node n that it can have under the answers so far is delivered.
LEMMA DeliveryMeans ==
  ASSUME IInv, expr' = expr,
         NEW n \in Nodes(expr), NEW o \in Results,
         NEW below \in Seq(Frames), IsPath(expr, below), AllCompound(expr, below),
         NextOperand(expr, below, n), Deliver(o, below),
         OperandsMean(expr, answers', below),
         o \in Meanings(expr, answers')[n],
         o.ok => \A m \in Variables : m =< expr.last[n] => answers'[m] # Pending
  PROVE  MeansSoFar'
<1>1. IsAst(expr)
  BY ExprFacts DEF IInv
<1>2. o # Pending
  BY ResolverErrorsAssumption
  DEF Pending, Results, Outcomes, Ok, Err, Overflow, EvalErrors
<1>3. CASE o.ok /\ below # <<>>
  <2> DEFINE c == below[Len(below)]
  <2>1. o.value \in ValidValues /\ o = Ok(o.value)
    BY <1>3 DEF Results, Outcomes, Ok, Err, Overflow
  <2>2. stack' = [below EXCEPT ![Len(below)] =
                    [node |-> c.node, vals |-> Append(c.vals, o.value)]]
        /\ pc' = "eval"
    BY <1>3 DEF Deliver
  <2>3. Len(below) \in 1 .. Len(below) /\ c \in Frames /\ Len(below) \in Nat
    BY <1>3, EmptySeq, ElementOfSeq
  <2> DEFINE f == [node |-> c.node, vals |-> Append(c.vals, o.value)]
  <2>4. /\ f \in Frames /\ f.node = c.node
        /\ Len(f.vals) = Len(c.vals) + 1 /\ Len(c.vals) \in Nat
        /\ \A i \in 1 .. Len(c.vals) : f.vals[i] = c.vals[i]
        /\ f.vals[Len(c.vals) + 1] = o.value
    BY <2>1, <2>3, AppendProperties DEF Frames
  <2>5. stack' = [below EXCEPT ![Len(below)] = f]
    BY <2>2
  <2> HIDE DEF f
  <2>6. /\ Len(stack') = Len(below)
        /\ \A h \in 1 .. Len(below) : stack'[h] = IF h = Len(below) THEN f ELSE below[h]
    BY <2>3, <2>4, <2>5, ExceptSeq
  <2>7. n = expr.kids[c.node][Len(c.vals) + 1]
    BY <1>3 DEF NextOperand
  <2>8. c = below[Len(below)]
    OBVIOUS
  <2> HIDE DEF c
  <2>9. OperandsMean(expr, answers', stack')
    <3> SUFFICES ASSUME NEW h \in 1 .. Len(below), NEW i \in 1 .. Len(stack'[h].vals)
                 PROVE  /\ Ok(stack'[h].vals[i])
                              \in Meanings(expr, answers')[expr.kids[stack'[h].node][i]]
                        /\ \A m \in Nodes(expr) :
                             /\ expr.kind[m] = "variable"
                             /\ m =< expr.last[expr.kids[stack'[h].node][i]]
                             => answers'[m] # Pending
      BY <2>6 DEF OperandsMean
    <3>1. CASE h # Len(below)
      <4>1. stack'[h] = below[h]
        BY <3>1, <2>6
      <4>2. QED
        BY <4>1 DEF OperandsMean
    <3>2. CASE h = Len(below) /\ i # Len(c.vals) + 1
      <4>1. stack'[h] = f /\ below[h] = c
        BY <3>2, <2>6, <2>8
      <4>2. i \in 1 .. Len(c.vals)
        BY <3>2, <4>1, <2>4
      <4>3. stack'[h].vals[i] = below[h].vals[i] /\ stack'[h].node = below[h].node
            /\ i \in 1 .. Len(below[h].vals)
        BY <4>1, <4>2, <2>4
      <4>4. QED
        BY <4>3 DEF OperandsMean
    <3>3. CASE h = Len(below) /\ i = Len(c.vals) + 1
      <4>1. stack'[h].vals[i] = o.value /\ expr.kids[stack'[h].node][i] = n
        BY <3>3, <2>4, <2>6, <2>7
      <4>2. QED
        BY <4>1, <1>3, <2>1 DEF Variables
    <3>4. QED
      BY <3>1, <3>2, <3>3
  <2>10. QED
    BY <2>2, <2>9 DEF MeansSoFar, ResultIsMeaning
<1>4. CASE ~(o.ok /\ below # <<>>)
  <2>1. stack' = <<>> /\ pc' = "done" /\ result' = o
    BY <1>4 DEF Deliver
  <2>2. o \in Meaning(expr, answers')
    <3>1. CASE ~o.ok
      BY <1>1, <3>1, ErrorTravels
    <3>2. CASE below = <<>>
      BY <3>2 DEF NextOperand, Meaning
    <3>3. QED
      BY <3>1, <3>2, <1>4
  <2>3. OperandsMean(expr, answers', <<>>)
    <3>1. Len(<<>>) = 0
      BY EmptySeq
    <3>2. QED
      BY <3>1 DEF OperandsMean
  <2>4. QED
    BY <1>2, <2>1, <2>2, <2>3 DEF MeansSoFar, ResultIsMeaning
<1>5. QED
  BY <1>3, <1>4

\* A literal delivers what it means.
LEMMA LiteralMeans ==
  ASSUME MeansInv, EvalLiteral
  PROVE  MeansSoFar'
<1> DEFINE n == Callee
           o == Literal(expr.literal[n])
<1>1. /\ pc = "eval" /\ expr' = expr /\ asked' = asked /\ answers' = answers
      /\ n \in Nodes(expr) /\ NextOperand(expr, stack, n)
      /\ o \in Results /\ Deliver(o, stack)
      /\ \A m \in Variables : m =< expr.last[n] => m =< asked
  BY LiteralFacts DEF Results, MeansInv
<1>2. /\ stack \in Seq(Frames) /\ IsPath(expr, stack) /\ AllCompound(expr, stack)
      /\ IsAst(expr) /\ OperandsMean(expr, answers', stack)
  BY <1>1, ExprFacts DEF MeansInv, MeansSoFar, IInv, TypeOK, Recursion
<1>3. o \in Meanings(expr, answers')[n]
  <2>1. expr.kind[n] \in {"bool", "integer", "float"}
    BY DEF EvalLiteral
  <2>2. o \in Denotes(expr, answers', Meanings(expr, answers'), n)
    BY <2>1 DEF Denotes
  <2>3. QED
    BY <1>1, <1>2, <2>2, MeaningFacts
<1>4. \A m \in Variables : m =< expr.last[n] => answers'[m] # Pending
  <2>1. \A m \in Variables : m =< asked => answers[m] # Pending
    BY <1>1, AnsweredSoFar DEF MeansInv, Variables, Nodes, IInv, TypeOK
  <2>2. QED
    BY <1>1, <2>1
<1> HIDE DEF n, o
<1>5. QED
  BY <1>1, <1>2, <1>3, <1>4, DeliveryMeans DEF MeansInv

\* What an operator or function gives is applied to operands it can have.
LEMMA ApplyMeans ==
  ASSUME MeansInv, Apply
  PROVE  MeansSoFar'
<1> DEFINE n == Top.node
           vals == Top.vals
<1>1. /\ pc = "eval" /\ expr' = expr /\ asked' = asked /\ answers' = answers
      /\ stack # <<>> /\ n \in Nodes(expr) /\ NextOperand(expr, Below, n)
      /\ \A m \in Variables : m =< expr.last[n] => m =< asked
  BY ApplyFacts DEF MeansInv
<1>2. PICK o \in Applied(expr, n, vals) : Deliver(o, Below)
  BY DEF Apply
<1>3. Len(vals) = Arity(expr, n)
  BY DEF Apply
<1>4. /\ Top \in Frames /\ Len(stack) \in 1 .. Len(stack)
      /\ Below \in Seq(Frames) /\ IsPath(expr, Below) /\ AllCompound(expr, Below)
  BY <1>1, ReturnFacts DEF MeansInv
<1>5. vals \in Seq(ValidValues) /\ expr.kind[n] \in Compound
  BY <1>1, <1>4 DEF MeansInv, IInv, Recursion, AllCompound, Top, Frames
<1>6. o \in Results
  BY <1>1, <1>2, <1>3, <1>5, AppliedOutcome DEF MeansInv, IInv, Results
<1>7. \A i \in 1 .. Len(vals) : Ok(vals[i]) \in Meanings(expr, answers)[expr.kids[n][i]]
  BY <1>4 DEF MeansInv, MeansSoFar, OperandsMean, Top
<1>8. IsAst(expr)
  BY ExprFacts DEF MeansInv, IInv
<1>9. OperandsMean(expr, answers', Below)
  <2>1. /\ Len(Below) = Len(stack) - 1
        /\ \A h \in 1 .. Len(Below) : Below[h] = stack[h]
    BY <1>1, PopFacts DEF Below, MeansInv, IInv, TypeOK
  <2>2. \A h \in 1 .. Len(Below) : h \in 1 .. Len(stack)
    BY <1>4, <2>1
  <2>3. QED
    BY <1>1, <2>1, <2>2 DEF MeansInv, MeansSoFar, OperandsMean
<1>10. \A m \in Variables : m =< expr.last[n] => answers'[m] # Pending
  <2>1. \A m \in Variables : m =< asked => answers[m] # Pending
    BY <1>1, AnsweredSoFar DEF MeansInv, Variables, Nodes, IInv, TypeOK
  <2>2. QED
    BY <1>1, <2>1
<1> HIDE DEF n, vals
<1>11. o \in Meanings(expr, answers')[n]
  BY <1>1, <1>2, <1>3, <1>5, <1>7, <1>8, AppliedMeans
<1>12. QED
  BY <1>1, <1>2, <1>4, <1>6, <1>9, <1>10, <1>11, DeliveryMeans DEF MeansInv

\* The answer of a question is used where it was asked, and changes nothing
\* that has been evaluated before.
LEMMA ReturnMeans ==
  ASSUME MeansInv, ResolverReturns
  PROVE  MeansSoFar'
<1>1. PICK answer \in Answers :
        /\ answers' = [answers EXCEPT ![Top.node] = answer]
        /\ Deliver(Resolved(answer), Below)
  BY DEF ResolverReturns
<1>2. /\ pc = "resolving" /\ expr' = expr /\ asked' = asked
      /\ stack # <<>> /\ Top.node = asked /\ asked \in Variables
  BY DEF ResolverReturns, MeansInv, IInv, Recursion
<1>3. IsAst(expr) /\ asked \in Nodes(expr) /\ expr.kind[asked] = "variable"
  BY <1>2, ExprFacts DEF MeansInv, IInv, Variables
<1>4. expr.last[asked] = asked
  BY <1>3, LeafFacts DEF LeafKinds
<1>5. /\ Below \in Seq(Frames) /\ IsPath(expr, Below) /\ AllCompound(expr, Below)
      /\ NextOperand(expr, Below, asked) /\ Len(stack) \in 1 .. Len(stack)
  BY <1>2, ReturnFacts DEF MeansInv
<1>6. answer # Pending
  BY ResolverErrorsAssumption DEF Answers, Pending, Ok, Err
<1>7. /\ answers'[asked] = answer
      /\ \A m \in Nodes(expr) : m # asked => answers'[m] = answers[m]
  BY <1>1, <1>2, <1>3 DEF MeansInv, IInv, TypeOK
<1>8. /\ answers[asked] = Pending
      /\ \A m \in Variables : m < asked => answers[m] # Pending
  BY <1>2 DEF MeansInv, IInv, AskedInOrder
<1>9. OperandsMean(expr, answers', Below)
  <2> SUFFICES ASSUME NEW h \in 1 .. Len(Below), NEW i \in 1 .. Len(Below[h].vals)
               PROVE  /\ Ok(Below[h].vals[i])
                            \in Meanings(expr, answers')[expr.kids[Below[h].node][i]]
                      /\ \A m \in Nodes(expr) :
                           /\ expr.kind[m] = "variable"
                           /\ m =< expr.last[expr.kids[Below[h].node][i]]
                           => answers'[m] # Pending
    BY DEF OperandsMean
  <2> DEFINE k == expr.kids[Below[h].node][i]
  <2>1. /\ Len(Below) = Len(stack) - 1
        /\ \A j \in 1 .. Len(Below) : Below[j] = stack[j]
    BY <1>2, PopFacts DEF Below, MeansInv, IInv, TypeOK
  <2>2. h \in 1 .. Len(stack) /\ Below[h] = stack[h]
    BY <1>5, <2>1
  <2>3. /\ Ok(Below[h].vals[i]) \in Meanings(expr, answers)[k]
        /\ \A m \in Nodes(expr) :
             expr.kind[m] = "variable" /\ m =< expr.last[k] => answers[m] # Pending
    BY <2>2 DEF MeansInv, MeansSoFar, OperandsMean
  <2>4. k \in Nodes(expr)
    <3>1. Below[h].node \in Nodes(expr) /\ Len(Below[h].vals) =< Arity(expr, Below[h].node)
      BY <1>5 DEF IsPath
    <3>2. Len(Below[h].vals) \in Nat /\ Arity(expr, Below[h].node) \in Nat
      BY <1>3, <1>5, <3>1, NodeFacts, ElementOfSeq DEF Frames
    <3>3. i \in 1 .. Arity(expr, Below[h].node)
      BY <3>1, <3>2
    <3>4. QED
      BY <1>3, <3>1, <3>3, KidFacts
  <2> HIDE DEF k
  <2>5. \A m \in Nodes(expr) :
          expr.kind[m] = "variable" /\ m =< expr.last[k] => answers'[m] = answers[m]
    BY <1>7, <1>8, <2>3
  <2>6. Meanings(expr, answers)[k] = Meanings(expr, answers')[k]
    BY <1>3, <2>4, <2>5, MeaningLocal
  <2>7. QED
    BY <2>3, <2>5, <2>6 DEF k
<1>10. Resolved(answer) \in Meanings(expr, answers')[asked]
  <2>1. Resolved(answer) \in Denotes(expr, answers', Meanings(expr, answers'), asked)
    BY <1>3, <1>7 DEF Denotes
  <2>2. QED
    BY <1>3, <2>1, MeaningFacts
<1>11. \A m \in Variables : m =< expr.last[asked] => answers'[m] # Pending
  <2> TAKE m \in Variables
  <2>1. m \in Nodes(expr) /\ m \in Int /\ asked \in Int
    BY <1>3 DEF Variables, Nodes
  <2>2. QED
    BY <2>1, <1>4, <1>6, <1>7, <1>8
<1>12. QED
  BY <1>1, <1>2, <1>3, <1>5, <1>9, <1>10, <1>11, ResolvedResult, DeliveryMeans DEF MeansInv

\* A call that is made has no operand yet.
LEMMA CallMeans ==
  ASSUME MeansInv, Descend \/ CallResolver
  PROVE  MeansSoFar'
<1>1. /\ AtCall /\ expr' = expr /\ answers' = answers /\ pc' # "done"
      /\ stack' = Append(stack, [node |-> Callee, vals |-> <<>>])
  BY DEF Descend, CallResolver, AtCall
<1>2. /\ stack' \in Seq(Frames) /\ stack' # <<>>
      /\ Len(Top'.vals) = 0 /\ Below' = stack
  BY <1>1, PushedCall DEF MeansInv
<1>3. Len(stack') \in Nat \ {0} /\ Top' = stack'[Len(stack')]
  BY <1>2, EmptySeq DEF Top
<1>4. /\ Len(Below') = Len(stack') - 1
      /\ \A h \in 1 .. Len(stack') - 1 : Below'[h] = stack'[h]
  <2>1. Below' = SubSeq(stack', 1, Len(stack') - 1)
    BY DEF Below
  <2>2. QED
    BY <1>2, <2>1, PopFacts
<1>5. OperandsMean(expr, answers, stack')
  <2> SUFFICES ASSUME NEW h \in 1 .. Len(stack'), NEW i \in 1 .. Len(stack'[h].vals)
               PROVE  h \in 1 .. Len(stack) /\ stack'[h] = stack[h]
    BY DEF OperandsMean, MeansInv, MeansSoFar
  <2>1. h # Len(stack')
    BY <1>2, <1>3
  <2>2. h \in 1 .. Len(stack') - 1
    BY <1>3, <2>1
  <2>3. QED
    BY <1>2, <1>4, <2>2
<1>6. QED
  BY <1>1, <1>5 DEF MeansSoFar, ResultIsMeaning

\* Every step delivers what the evaluated operand means.
LEMMA NextMeans ==
  ASSUME MeansInv, [Next]_vars
  PROVE  MeansInv'
<1>1. IInv'
  BY NextKeeps DEF MeansInv
<1>2. CASE EvalLiteral
  BY <1>1, <1>2, LiteralMeans DEF MeansInv
<1>3. CASE Descend \/ CallResolver
  BY <1>1, <1>3, CallMeans DEF MeansInv
<1>4. CASE Apply
  BY <1>1, <1>4, ApplyMeans DEF MeansInv
<1>5. CASE ResolverReturns
  BY <1>1, <1>5, ReturnMeans DEF MeansInv
<1>6. CASE UNCHANGED vars
  BY <1>1, <1>6 DEF vars, MeansInv, MeansSoFar, ResultIsMeaning
<1>7. QED
  BY <1>2, <1>3, <1>4, <1>5, <1>6 DEF Next, Step

\* Nothing has been evaluated when eval is called.
LEMMA InitMeans ==
  ASSUME Init
  PROVE  MeansInv
<1>1. IInv
  BY InitInv
<1>2. Len(stack) = 0 /\ pc = "eval"
  BY EmptySeq DEF Init
<1>3. QED
  BY <1>1, <1>2 DEF MeansInv, MeansSoFar, OperandsMean, ResultIsMeaning

\* eval returns what the expression means under the answers the resolver gave:
\* the operands reach each operator in order, the leftmost error wins, and an
\* answer counts where it was asked for, whatever the tree and the answers.
THEOREM ReturnsMeaning == Spec => []ResultIsMeaning
<1>1. Init => MeansInv
  BY InitMeans
<1>2. MeansInv /\ [Next]_vars => MeansInv'
  BY NextMeans
<1>3. MeansInv => ResultIsMeaning
  BY DEF MeansInv, MeansSoFar
<1>4. QED
  BY <1>1, <1>2, <1>3, PTL DEF Spec
=============================================================================
