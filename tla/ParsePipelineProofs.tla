------------------------ MODULE ParsePipelineProofs ------------------------
(***************************************************************************)
(* Proofs about ParsePipeline, for every set of texts and every limits.    *)
(***************************************************************************)
EXTENDS ParsePipeline, SequenceTheorems, TLAPS

\* Dropping the last element keeps the others in place.
LEMMA PopFacts ==
  ASSUME NEW S, NEW s \in Seq(S), s # <<>>
  PROVE  /\ SubSeq(s, 1, Len(s) - 1) \in Seq(S)
         /\ Len(SubSeq(s, 1, Len(s) - 1)) = Len(s) - 1
         /\ \A i \in 1 .. Len(s) - 1 : SubSeq(s, 1, Len(s) - 1)[i] = s[i]
<1>1. Len(s) \in Nat \ {0}
  BY EmptySeq
<1>2. \A i \in 1 .. Len(s) - 1 : s[i] \in S
  BY ElementOfSeq, <1>1
<1> DEFINE m == Len(s) - 1
<1>3. m \in Nat
  BY <1>1
<1>4. \A i \in 1..m : s[i] \in S
  BY <1>2
<1> HIDE DEF m
<1>5. /\ SubSeq(s, 1, m) \in Seq(S)
      /\ Len(SubSeq(s, 1, m)) = m
      /\ \A i \in 1..m : SubSeq(s, 1, m)[i] = s[i]
  BY <1>3, <1>4, SubSeqProperties
<1>6. QED
  BY <1>5 DEF m

\* The typed view of a node: its children are nodes, numbered as the
\* preorder demands, one level down.
LEMMA NodeFacts ==
  ASSUME NEW t, IsAst(t), NEW n \in Nodes(t)
  PROVE  /\ t.size \in Nat \ {0}
         /\ Arity(t, n) \in Nat
         /\ t.last[n] \in Nodes(t)
         /\ n =< t.last[n]
         /\ t.depth[n] \in Nat
         /\ \A i \in 1 .. Arity(t, n) :
              t.kids[n][i] \in Nodes(t) /\ t.depth[t.kids[n][i]] = t.depth[n] + 1
         /\ KidsInPreorder(t, n)
<1>1. t.kids[n] \in Seq(Nodes(t))
  BY DEF IsAst
<1>2. Len(t.kids[n]) \in Nat /\ \A i \in 1 .. Len(t.kids[n]) : t.kids[n][i] \in Nodes(t)
  BY <1>1, LenProperties, ElementOfSeq
<1>3. QED
  BY <1>1, <1>2 DEF IsAst, Arity, KidsInPreorder, Nodes

Frames == [node : Nat, next : Nat]

\* What the labels say of the text read so far.
TextRead ==
    /\ pc # "done" => result = Pending
    /\ pc \in {"start", "lex", "parse"} => stack = <<>> /\ nodes = 0
    /\ pc = "start" => checked = 0
    /\ pc \in {"lex", "parse", "walk"} =>
         /\ input.bytes =< opts.max_input_bytes
         /\ checked =< Len(input.tokens)
         /\ CleanPrefix(input.tokens, checked)
    /\ pc \in {"parse", "walk"} => checked = Len(input.tokens)
    /\ pc = "walk" => input.parse.ok /\ input.parse.recoveries = 0

\* The inductive invariant.
Inv == TypeOK /\ TextRead /\ WalkInPreorder /\ WorkBounded /\ VerdictIsFirstCause

-----------------------------------------------------------------------------
(* The text and its tree.                                                  *)

\* The parser's tree is a tree, and the limits are numbers.
LEMMA TreeFacts ==
  ASSUME TypeOK
  PROVE  /\ input.parse.ok => IsAst(tree)
         /\ input.parse.recoveries \in Nat
         /\ input.parse.ok \in BOOLEAN
         /\ input.bytes \in Nat
         /\ input.tokens \in Seq(TokenKinds)
         /\ Len(input.tokens) \in Nat
         /\ IsOptions(opts)
BY InputsAssumption, OptionsAssumption DEF TypeOK, IsParserAnswer, tree

\* The next call is on the node numbered just after those counted, and its
\* depth argument is that node's depth.
LEMMA CallFacts ==
  ASSUME Inv, AtCall
  PROVE  /\ IsAst(tree)
         /\ Callee \in Nodes(tree)
         /\ Callee = nodes + 1
         /\ tree.depth[Callee] = Len(stack)
         /\ Len(stack) \in Nat
<1>1. IsAst(tree)
  BY TreeFacts DEF Inv, TextRead, AtCall
<1>2. stack \in Seq(Frames) /\ Len(stack) \in Nat
  BY DEF Inv, TypeOK, Frames
<1>3. CASE stack = <<>>
  <2>1. nodes = 0
    BY <1>3 DEF Inv, WalkInPreorder, AtCall
  <2>2. QED
    BY <2>1, <1>1, <1>3 DEF Callee, IsAst, Nodes
<1>4. CASE stack # <<>>
  <2>1. Len(stack) \in 1 .. Len(stack)
    BY <1>2, <1>4, EmptySeq
  <2>2. Top.node \in Nodes(tree) /\ Top.next \in 1 .. Arity(tree, Top.node) + 1
        /\ tree.depth[Top.node] = Len(stack) - 1
    BY <2>1 DEF Inv, WalkInPreorder, Top
  <2>3. nodes = AllCountedUpTo(Top) /\ Top.next =< Arity(tree, Top.node)
    BY <1>4 DEF Inv, WalkInPreorder, AtCall
  <2>4. Callee = tree.kids[Top.node][Top.next]
    BY <1>4 DEF Callee
  <2>5. Arity(tree, Top.node) \in Nat
    BY <1>1, <2>2, NodeFacts
  <2>6. Callee \in Nodes(tree) /\ tree.depth[Callee] = Len(stack)
    <3>1. Top.next \in 1 .. Arity(tree, Top.node)
      BY <2>2, <2>3, <2>5
    <3>2. Callee \in Nodes(tree) /\ tree.depth[Callee] = tree.depth[Top.node] + 1
      BY <1>1, <2>2, <2>4, <3>1, NodeFacts
    <3>3. QED
      BY <1>2, <2>2, <3>2
  <2>7. Callee = nodes + 1
    <3>1. KidsInPreorder(tree, Top.node)
      BY <1>1, <2>2, NodeFacts
    <3>2. CASE Top.next = 1
      BY <3>1, <3>2, <2>2, <2>3, <2>4, <2>5 DEF KidsInPreorder, AllCountedUpTo
    <3>3. CASE Top.next # 1
      <4>1. Top.next - 1 \in 1 .. Arity(tree, Top.node) - 1
        BY <3>3, <2>2, <2>3, <2>5
      <4>2. tree.kids[Top.node][(Top.next - 1) + 1] = tree.last[tree.kids[Top.node][Top.next - 1]] + 1
        BY <4>1, <3>1 DEF KidsInPreorder
      <4>3. QED
        BY <4>2, <3>3, <2>2, <2>3, <2>4 DEF AllCountedUpTo
    <3>4. QED
      BY <3>2, <3>3
  <2>8. QED
    BY <1>1, <1>2, <2>6, <2>7
<1>5. QED
  BY <1>3, <1>4

\* A call all of whose children are done has its whole subtree counted.
LEMMA ReturnFacts ==
  ASSUME Inv, pc = "walk", stack # <<>>, Top.next > Arity(tree, Top.node)
  PROVE  /\ IsAst(tree)
         /\ Top.node \in Nodes(tree)
         /\ nodes = tree.last[Top.node]
<1>1. IsAst(tree)
  BY TreeFacts DEF Inv, TextRead
<1>2. Len(stack) \in 1 .. Len(stack)
  BY EmptySeq DEF Inv, TypeOK
<1>3. Top.node \in Nodes(tree) /\ Top.next \in 1 .. Arity(tree, Top.node) + 1
  BY <1>2 DEF Inv, WalkInPreorder, Top
<1>4. nodes = AllCountedUpTo(Top)
  BY DEF Inv, WalkInPreorder
<1>5. Arity(tree, Top.node) \in Nat /\ KidsInPreorder(tree, Top.node)
  BY <1>1, <1>3, NodeFacts
<1>6. Top.next = Arity(tree, Top.node) + 1
  BY <1>3, <1>5
<1>7. QED
  BY <1>1, <1>3, <1>4, <1>5, <1>6 DEF KidsInPreorder, AllCountedUpTo

-----------------------------------------------------------------------------
(* The steps of the token loop and of the parser: no walk is active.       *)

\* The invariant of the walk holds trivially before the first call.
LEMMA NoActiveCall ==
  ASSUME stack' = <<>>, nodes' = 0
  PROVE  WalkInPreorder'
BY DEF WalkInPreorder

\* The invariant holds before the input is read.
LEMMA InitInv ==
  ASSUME Init
  PROVE  Inv
<1>1. TypeOK
  BY DEF Init, TypeOK, Pending
<1>2. QED
  BY <1>1, OptionsAssumption
  DEF Init, Inv, TextRead, WalkInPreorder, WorkBounded, VerdictIsFirstCause, IsOptions

\* A step of the token loop or of the parser that goes on.
LEMMA TextStepGoesOn ==
  ASSUME Inv, CheckInput \/ PushToken \/ EndOfTokens \/ ParserSucceeds, pc' # "done"
  PROVE  Inv'
<1> USE DEF Goto, Return
<1>1. /\ stack = <<>> /\ nodes = 0 /\ stack' = <<>> /\ nodes' = 0
      /\ input' = input /\ opts' = opts /\ result' = Pending /\ result = Pending
  BY DEF Inv, TextRead, CheckInput, PushToken, AtToken, EndOfTokens, ParserSucceeds
<1>2. /\ pc' \in {"lex", "parse", "walk"} /\ checked' \in Nat
      /\ checked' =< Len(input.tokens) /\ checked' =< opts.max_tokens
      /\ input.bytes =< opts.max_input_bytes /\ CleanPrefix(input.tokens, checked')
      /\ pc' # "lex" => checked' = Len(input.tokens)
      /\ pc' = "walk" => input.parse.ok /\ input.parse.recoveries = 0
  <2>1. CASE CheckInput
    BY <2>1, TreeFacts
    DEF Inv, TypeOK, TextRead, WorkBounded, CheckInput, CleanPrefix, IsOptions
  <2>2. CASE PushToken
    BY <2>2, TreeFacts
    DEF Inv, TypeOK, TextRead, WorkBounded, PushToken, AtToken, TokenLimitReached,
        CleanPrefix, IsOptions
  <2>3. CASE EndOfTokens
    BY <2>3 DEF Inv, TypeOK, TextRead, WorkBounded, EndOfTokens
  <2>4. CASE ParserSucceeds
    BY <2>4 DEF Inv, TypeOK, TextRead, WorkBounded, ParserSucceeds
  <2>5. QED
    BY <2>1, <2>2, <2>3, <2>4
<1>3. TypeOK'
  BY <1>1, <1>2 DEF Inv, TypeOK
<1>4. TextRead'
  BY <1>1, <1>2 DEF TextRead, CleanPrefix
<1>5. WorkBounded'
  BY <1>1, <1>2, TreeFacts DEF Inv, WorkBounded, IsOptions
<1>6. VerdictIsFirstCause'
  BY DEF VerdictIsFirstCause
<1>7. QED
  BY <1>1, <1>3, <1>4, <1>5, <1>6, NoActiveCall DEF Inv

\* A step of the token loop or of the parser that returns an error, justified
\* by the text.
LEMMA TextStepReturns ==
  ASSUME Inv,
         CheckInput \/ RejectTokens \/ RejectLexical \/ ParserFails \/ ParserRecovered,
         pc' = "done"
  PROVE  Inv'
<1> USE DEF Goto, Return, LimitError, LexicalErrorAt, ParseDiagnostics, Pending
<1>1. /\ stack = <<>> /\ nodes = 0 /\ stack' = <<>> /\ nodes' = 0
      /\ input' = input /\ opts' = opts /\ checked' = checked
  BY DEF Inv, TextRead, CheckInput, RejectTokens, RejectLexical, AtToken, ParserFails,
         ParserRecovered
<1>2. /\ Len(input.tokens) \in Nat /\ input.tokens \in Seq(TokenKinds)
      /\ IsOptions(opts) /\ input.bytes \in Nat /\ input.parse.recoveries \in Nat
      /\ input.parse.ok \in BOOLEAN /\ checked \in Nat
  BY TreeFacts DEF Inv, TypeOK
<1>3. WorkBounded' /\ TextRead' /\ WalkInPreorder'
  BY <1>1, NoActiveCall DEF Inv, WorkBounded, TextRead
<1>4. TypeOK' /\ VerdictIsFirstCause'
  <2> USE <1>1, <1>2 DEF IsOptions, TypeOK, VerdictIsFirstCause
  <2>1. CASE CheckInput
    BY <2>1 DEF Inv, CheckInput
  <2>2. CASE RejectTokens
    <3>1. /\ result' = LimitError("TooManyTokens", opts.max_tokens + 1, opts.max_tokens)
          /\ input.bytes =< opts.max_input_bytes
          /\ Len(input.tokens) > opts.max_tokens
          /\ CleanPrefix(input.tokens, opts.max_tokens)
      BY <2>2 DEF Inv, TextRead, WorkBounded, RejectTokens, AtToken, TokenLimitReached,
                  CleanPrefix
    <3>2. TypeOK'
      BY <2>2, <3>1 DEF Inv, RejectTokens
    <3>3. VerdictIsFirstCause'
      BY <3>1 DEF CleanPrefix
    <3>4. QED
      BY <3>2, <3>3
  <2>3. CASE RejectLexical
    <3> DEFINE p == checked + 1
    <3>1. /\ p \in DOMAIN input.tokens
          /\ result' = LexicalErrorAt(p)
          /\ input.bytes =< opts.max_input_bytes
          /\ p =< opts.max_tokens
          /\ input.tokens[p] = "error"
          /\ CleanPrefix(input.tokens, p - 1)
      BY <2>3, LenProperties
      DEF Inv, TextRead, RejectLexical, AtToken, TokenLimitReached, CleanPrefix
    <3>2. TypeOK'
      BY <2>3, <3>1 DEF Inv, RejectLexical
    <3>3. VerdictIsFirstCause'
      BY <3>1 DEF CleanPrefix
    <3>4. QED
      BY <3>2, <3>3
  <2>4. CASE ParserFails
    <3>1. ReachesParser(input, opts)
      BY <2>4 DEF Inv, TextRead, WorkBounded, ParserFails, ReachesParser
    <3>2. TypeOK'
      BY <2>4 DEF Inv, ParserFails
    <3>3. VerdictIsFirstCause'
      BY <2>4, <3>1 DEF ParserFails, ReachesParser, CleanPrefix
    <3>4. QED
      BY <3>2, <3>3
  <2>5. CASE ParserRecovered
    <3>1. ReachesParser(input, opts)
      BY <2>5 DEF Inv, TextRead, WorkBounded, ParserRecovered, ReachesParser
    <3>2. TypeOK'
      BY <2>5 DEF Inv, ParserRecovered
    <3>3. VerdictIsFirstCause'
      BY <2>5, <3>1 DEF ParserRecovered, TooManyRecoveries, ReachesParser, CleanPrefix
    <3>4. QED
      BY <3>2, <3>3
  <2>6. QED
    BY <2>1, <2>2, <2>3, <2>4, <2>5
<1>5. QED
  BY <1>3, <1>4 DEF Inv

-----------------------------------------------------------------------------
(* The steps of the walk.                                                  *)

\* What every call of walk sees: the text was parsed without an error, and
\* every node numbered before the callee is within the limits.
LEMMA AtCallFacts ==
  ASSUME Inv, AtCall
  PROVE  /\ CleanlyParsed(input, opts)
         /\ FirstOver(tree, opts, Callee)
         /\ IsOptions(opts)
         /\ result = Pending
<1>1. CleanlyParsed(input, opts)
  BY TreeFacts
  DEF Inv, TextRead, AtCall, WorkBounded, CleanlyParsed, ReachesParser
<1>2. \A n \in 1..nodes : WithinLimits(tree, opts, n)
  BY DEF Inv, WalkInPreorder, AtCall
<1>3. QED
  BY <1>1, <1>2, CallFacts, TreeFacts DEF Inv, TypeOK, TextRead, AtCall, FirstOver

\* A call that fails leaves the active calls as they are and returns an error
\* about the callee, the first node over a limit.
LEMMA WalkRejects ==
  ASSUME Inv, RejectNodes \/ RejectDepth \/ RejectArgs
  PROVE  Inv'
<1> USE DEF Return, LimitError, Pending
<1>1. AtCall /\ nodes' = nodes + 1 /\ pc' = "done"
      /\ input' = input /\ opts' = opts /\ checked' = checked /\ stack' = stack
  BY DEF RejectNodes, RejectDepth, RejectArgs
<1>2. /\ IsAst(tree) /\ Callee \in Nodes(tree) /\ Callee = nodes + 1
      /\ tree.depth[Callee] = Len(stack) /\ Len(stack) \in Nat
      /\ CleanlyParsed(input, opts) /\ FirstOver(tree, opts, Callee)
      /\ IsOptions(opts) /\ nodes \in Nat
      /\ nodes =< opts.max_ast_nodes + 1 /\ Len(stack) =< opts.max_depth + 1
  BY <1>1, CallFacts, AtCallFacts DEF Inv, TypeOK, WorkBounded
<1>3. nodes =< opts.max_ast_nodes
  BY <1>1, <1>2 DEF Inv, WalkInPreorder, AtCall, WithinLimits, IsOptions
<1>4. WorkBounded'
  BY <1>1, <1>3, <1>2 DEF Inv, WorkBounded, IsOptions
<1>5. WalkInPreorder'
  BY <1>1 DEF Inv, WalkInPreorder, AtCall, tree, Nodes, Arity
<1>6. TextRead'
  BY <1>1 DEF TextRead
<1>7. TypeOK' /\ VerdictIsFirstCause'
  <2>1. Arity(tree, Callee) \in Nat
    BY <1>2, NodeFacts
  <2>2. CASE RejectNodes
    <3>1. nodes + 1 = opts.max_ast_nodes + 1
      BY <2>2, <1>2, <1>3 DEF RejectNodes, TooManyNodes, IsOptions
    <3>2. /\ result' = LimitError("AstTooLarge", opts.max_ast_nodes + 1, opts.max_ast_nodes)
          /\ FirstOver(tree, opts, opts.max_ast_nodes + 1)
      BY <2>2, <3>1, <1>2 DEF RejectNodes
    <3>3. TypeOK'
      BY <3>2, <1>1, <1>2 DEF Inv, TypeOK, IsOptions
    <3>4. VerdictIsFirstCause'
      BY <3>2, <1>1, <1>2
      DEF VerdictIsFirstCause, tree, CleanlyParsed, ReachesParser, CleanPrefix, FirstOver,
          WithinLimits, Nodes, Arity
    <3>5. QED
      BY <3>3, <3>4
  <2>3. CASE RejectDepth
    <3>1. Len(stack) = opts.max_depth + 1 /\ Callee =< opts.max_ast_nodes
      BY <2>3, <1>2 DEF RejectDepth, TooDeep, TooManyNodes, CalleeDepth, IsOptions
    <3>2. result' = LimitError("ExpressionTooDeep", opts.max_depth + 1, opts.max_depth)
      BY <2>3, <3>1 DEF RejectDepth, CalleeDepth
    <3>3. TypeOK'
      BY <3>2, <1>1, <1>2 DEF Inv, TypeOK, IsOptions
    <3> DEFINE n == Callee
    <3>4. n \in Nodes(tree) /\ FirstOver(tree, opts, n) /\ n =< opts.max_ast_nodes
          /\ tree.depth[n] = opts.max_depth + 1
      BY <3>1, <1>2
    <3> HIDE DEF n
    <3>5. VerdictIsFirstCause'
      BY <3>2, <3>4, <1>1, <1>2
      DEF VerdictIsFirstCause, tree, CleanlyParsed, ReachesParser, CleanPrefix, FirstOver,
          WithinLimits, Nodes, Arity
    <3>6. QED
      BY <3>3, <3>5
  <2>4. CASE RejectArgs
    <3> DEFINE n == Callee
    <3>1. result' = LimitError("TooManyFunctionArguments", Arity(tree, n),
                               opts.max_function_args)
      BY <2>4 DEF RejectArgs
    <3>2. TypeOK'
      BY <3>1, <2>1, <1>1, <1>2 DEF Inv, TypeOK, IsOptions
    <3>3. n \in Nodes(tree) /\ FirstOver(tree, opts, n) /\ n =< opts.max_ast_nodes
          /\ tree.depth[n] =< opts.max_depth
          /\ tree.kind[n] = "function" /\ Arity(tree, n) > opts.max_function_args
      BY <2>4, <1>2
      DEF RejectArgs, TooDeep, TooManyNodes, TooManyArgs, CalleeDepth, IsOptions
    <3> HIDE DEF n
    <3>4. VerdictIsFirstCause'
      BY <3>1, <3>3, <1>1, <1>2
      DEF VerdictIsFirstCause, tree, CleanlyParsed, ReachesParser, CleanPrefix, FirstOver,
          WithinLimits, Nodes, Arity
    <3>5. QED
      BY <3>2, <3>4
  <2>5. QED
    BY <2>2, <2>3, <2>4
<1>8. QED
  BY <1>4, <1>5, <1>6, <1>7 DEF Inv

\* A call that goes on is pushed with all its children still to walk.
LEMMA WalkEnters ==
  ASSUME Inv, Enter
  PROVE  Inv'
<1> USE DEF Goto
<1>1. AtCall /\ nodes' = nodes + 1 /\ pc' = "walk" /\ pc = "walk"
      /\ input' = input /\ opts' = opts /\ checked' = checked /\ result' = result
      /\ stack' = Append(Advanced, [node |-> Callee, next |-> 1])
  BY DEF Enter, AtCall
<1>2. /\ IsAst(tree) /\ Callee \in Nodes(tree) /\ Callee = nodes + 1
      /\ tree.depth[Callee] = Len(stack) /\ Len(stack) \in Nat
      /\ IsOptions(opts) /\ nodes \in Nat /\ stack \in Seq(Frames)
      /\ nodes + 1 =< opts.max_ast_nodes /\ Len(stack) =< opts.max_depth
  <2>1. nodes + 1 =< opts.max_ast_nodes /\ Len(stack) =< opts.max_depth
    BY <1>1, CallFacts, AtCallFacts
    DEF Enter, TooManyNodes, TooDeep, CalleeDepth, IsOptions, Inv, TypeOK
  <2>2. QED
    BY <2>1, <1>1, CallFacts, AtCallFacts DEF Inv, TypeOK, Frames
<1>3. /\ Advanced \in Seq(Frames)
      /\ Len(Advanced) = Len(stack)
      /\ \A h \in 1 .. Len(stack) : Advanced[h].node = stack[h].node
      /\ \A h \in 1 .. Len(stack) - 1 : Advanced[h] = stack[h]
      /\ stack # <<>> => Advanced[Len(stack)].next = Top.next + 1
  <2>1. CASE stack = <<>>
    BY <2>1, <1>2 DEF Advanced
  <2>2. CASE stack # <<>>
    <3>1. Len(stack) \in 1 .. Len(stack) /\ Top \in Frames
      BY <2>2, <1>2, EmptySeq, ElementOfSeq DEF Top
    <3> DEFINE f == [node |-> Top.node, next |-> Top.next + 1]
    <3>2. f \in Frames /\ f.node = Top.node /\ f.next = Top.next + 1
      BY <3>1 DEF Frames
    <3> HIDE DEF f
    <3>3. /\ [stack EXCEPT ![Len(stack)] = f] \in Seq(Frames)
          /\ Len([stack EXCEPT ![Len(stack)] = f]) = Len(stack)
          /\ \A j \in 1 .. Len(stack) :
               [stack EXCEPT ![Len(stack)] = f][j] = IF j = Len(stack) THEN f ELSE stack[j]
      BY <3>1, <3>2, <1>2, ExceptSeq
    <3>4. Advanced = [stack EXCEPT ![Len(stack)] = f]
      BY <2>2 DEF Advanced, f
    <3>5. /\ Advanced \in Seq(Frames)
          /\ Len(Advanced) = Len(stack)
          /\ \A j \in 1 .. Len(stack) : Advanced[j] = IF j = Len(stack) THEN f ELSE stack[j]
      BY <3>3, <3>4
    <3>6. Advanced[Len(stack)].next = Top.next + 1
      BY <3>1, <3>2, <3>5
    <3>7. \A h \in 1 .. Len(stack) : Advanced[h].node = stack[h].node
      BY <3>2, <3>5 DEF Top
    <3>8. \A h \in 1 .. Len(stack) - 1 : Advanced[h] = stack[h]
      BY <3>5, <1>2
    <3>9. QED
      BY <3>5, <3>6, <3>7, <3>8
  <2>3. QED
    BY <2>1, <2>2
<1> DEFINE callee == [node |-> Callee, next |-> 1]
<1>4. callee \in Frames /\ callee.node = Callee /\ callee.next = 1
  BY <1>2 DEF Frames, Nodes
<1> HIDE DEF callee
<1>5. /\ stack' \in Seq(Frames)
      /\ Len(stack') = Len(stack) + 1
      /\ \A h \in 1 .. Len(stack) : stack'[h] = Advanced[h]
      /\ stack'[Len(stack) + 1] = callee
  BY <1>1, <1>3, <1>4, AppendProperties DEF callee
<1>6. stack' # <<>> /\ Top' = callee /\ tree' = tree
  BY <1>1, <1>2, <1>5 DEF Top, tree
<1>7. TypeOK'
  BY <1>1, <1>2, <1>5 DEF Inv, TypeOK, Frames
<1>8. TextRead'
  BY <1>1 DEF Inv, TextRead
<1>9. WorkBounded'
  BY <1>1, <1>2, <1>5 DEF Inv, WorkBounded, IsOptions
<1>10. VerdictIsFirstCause'
  BY <1>1 DEF VerdictIsFirstCause
<1>11. WalkInPreorder'
  <2>1. \A h \in 1 .. Len(stack) :
          /\ stack[h].node \in Nodes(tree)
          /\ stack[h].next \in 1 .. Arity(tree, stack[h].node) + 1
          /\ tree.depth[stack[h].node] = h - 1
    BY <1>2, LenProperties DEF Inv, WalkInPreorder
  <2>2. \A h \in DOMAIN stack' :
          /\ stack'[h].node \in Nodes(tree)
          /\ stack'[h].next \in 1 .. Arity(tree, stack'[h].node) + 1
          /\ tree.depth[stack'[h].node] = h - 1
    <3> SUFFICES ASSUME NEW h \in 1 .. Len(stack) + 1
                 PROVE  /\ stack'[h].node \in Nodes(tree)
                        /\ stack'[h].next \in 1 .. Arity(tree, stack'[h].node) + 1
                        /\ tree.depth[stack'[h].node] = h - 1
      BY <1>5, LenProperties
    <3>1. CASE h = Len(stack) + 1
      <4>1. Arity(tree, Callee) \in Nat
        BY <1>2, NodeFacts
      <4>2. QED
        BY <3>1, <4>1, <1>2, <1>4, <1>5
    <3>2. CASE h = Len(stack) /\ h # Len(stack) + 1
      <4>1. stack # <<>> /\ stack[h] = Top
        BY <3>2, <1>2 DEF Top
      <4>2. /\ Top.node \in Nodes(tree)
            /\ Top.next \in 1 .. Arity(tree, Top.node) + 1
            /\ tree.depth[Top.node] = h - 1
        BY <4>1, <3>2, <2>1
      <4>3. Top.next =< Arity(tree, Top.node) /\ Arity(tree, Top.node) \in Nat
        BY <4>1, <4>2, <1>1, <1>2, NodeFacts DEF AtCall
      <4>4. stack'[h].node = Top.node /\ stack'[h].next = Top.next + 1
        BY <4>1, <3>2, <1>3, <1>5
      <4>5. QED
        BY <4>2, <4>3, <4>4
    <3>3. CASE h < Len(stack)
      <4>1. h \in 1 .. Len(stack) - 1 /\ h \in 1 .. Len(stack)
        BY <3>3, <1>2
      <4>2. stack'[h] = stack[h]
        BY <4>1, <1>3, <1>5
      <4>3. QED
        BY <4>1, <4>2, <2>1
    <3>4. QED
      BY <3>1, <3>2, <3>3, <1>2
  <2>3. stack'[1].node = 1
    BY <1>2, <1>3, <1>4, <1>5 DEF Callee, Inv, WalkInPreorder
  <2>4. \A h \in 1 .. Len(stack') - 1 :
          /\ stack'[h].next > 1
          /\ stack'[h + 1].node = tree.kids[stack'[h].node][stack'[h].next - 1]
    <3> SUFFICES ASSUME NEW h \in 1 .. Len(stack)
                 PROVE  /\ stack'[h].next > 1
                        /\ stack'[h + 1].node = tree.kids[stack'[h].node][stack'[h].next - 1]
      BY <1>2, <1>5
    <3>1. CASE h = Len(stack)
      <4>1. stack # <<>> /\ stack[h] = Top /\ Top.next \in Nat /\ Top.next >= 1
        BY <3>1, <2>1, <1>2 DEF Top
      <4>2. stack'[h].node = Top.node /\ stack'[h].next = Top.next + 1
        BY <4>1, <3>1, <1>3, <1>5
      <4>3. stack'[h + 1].node = tree.kids[Top.node][Top.next]
        BY <4>1, <3>1, <1>4, <1>5 DEF Callee
      <4>4. QED
        BY <4>1, <4>2, <4>3
    <3>2. CASE h < Len(stack)
      <4>1. /\ stack[h].next > 1
            /\ stack[h + 1].node = tree.kids[stack[h].node][stack[h].next - 1]
        BY <3>2, <1>2 DEF Inv, WalkInPreorder
      <4>2. stack'[h] = stack[h] /\ stack'[h + 1].node = stack[h + 1].node
        BY <3>2, <1>2, <1>3, <1>5
      <4>3. QED
        BY <4>1, <4>2
    <3>3. QED
      BY <3>1, <3>2, <1>2
  <2>5. nodes' = AllCountedUpTo(Top)'
    BY <1>1, <1>2, <1>4, <1>6 DEF AllCountedUpTo
  <2>6. \A n \in 1 .. nodes' : WithinLimits(tree, opts, n)
    BY <1>1, <1>2, AtCallFacts
    DEF Enter, FirstOver, WithinLimits, TooManyNodes, TooDeep, TooManyArgs, CalleeDepth,
        IsOptions, Arity
  <2>7. QED
    BY <2>2, <2>3, <2>4, <2>5, <2>6, <1>1, <1>6 DEF WalkInPreorder
<1>12. QED
  BY <1>7, <1>8, <1>9, <1>10, <1>11 DEF Inv

\* A call that returns Ok hands its counted subtree to the caller; the root's
\* return accepts a tree that has been walked whole.
LEMMA WalkLeaves ==
  ASSUME Inv, Leave
  PROVE  Inv'
<1> USE DEF Goto, Return
<1>1. /\ pc = "walk" /\ stack # <<>> /\ Top.next > Arity(tree, Top.node)
      /\ stack' = SubSeq(stack, 1, Len(stack) - 1)
      /\ input' = input /\ opts' = opts /\ checked' = checked /\ nodes' = nodes
  BY DEF Leave
<1>2. /\ IsAst(tree) /\ Top.node \in Nodes(tree) /\ nodes = tree.last[Top.node]
  BY <1>1, ReturnFacts
<1>3. /\ stack \in Seq(Frames) /\ Len(stack) \in Nat \ {0}
      /\ \A n \in 1..nodes : WithinLimits(tree, opts, n)
  BY <1>1, EmptySeq DEF Inv, TypeOK, Frames, WalkInPreorder
<1>4. /\ stack' \in Seq(Frames)
      /\ Len(stack') = Len(stack) - 1
      /\ \A h \in 1 .. Len(stack) - 1 : stack'[h] = stack[h]
  BY <1>1, <1>3, PopFacts
<1>5. tree' = tree
  BY <1>1 DEF tree
<1>6. TypeOK'
  BY <1>1, <1>4 DEF Inv, TypeOK, Frames, Leave, Ok
<1>7. TextRead'
  BY <1>1 DEF Inv, TextRead, Leave
<1>8. WorkBounded'
  BY <1>1, <1>3, <1>4, TreeFacts DEF Inv, WorkBounded, IsOptions
<1>9. VerdictIsFirstCause'
  <2>1. CASE Len(stack) # 1
    BY <2>1 DEF Leave, VerdictIsFirstCause
  <2>2. CASE Len(stack) = 1
    <3>1. Top.node = 1
      BY <2>2, <1>1 DEF Top, Inv, WalkInPreorder
    <3>2. nodes = tree.size
      BY <3>1, <1>2 DEF IsAst
    <3>3. \A n \in Nodes(tree) : WithinLimits(tree, opts, n)
      BY <3>2, <1>3 DEF Nodes
    <3>4. CleanlyParsed(input, opts)
      BY <1>1, TreeFacts DEF Inv, TextRead, WorkBounded, CleanlyParsed, ReachesParser
    <3>5. result' = Ok
      BY <2>2 DEF Leave
    <3>6. QED
      BY <3>3, <3>4, <3>5, <1>1
      DEF VerdictIsFirstCause, tree, CleanlyParsed, ReachesParser, CleanPrefix,
          WithinLimits, Nodes, Arity, Ok
  <2>3. QED
    BY <2>1, <2>2
<1>10. WalkInPreorder'
  <2>1. /\ \A h \in 1 .. Len(stack) :
            /\ stack[h].node \in Nodes(tree)
            /\ stack[h].next \in 1 .. Arity(tree, stack[h].node) + 1
            /\ tree.depth[stack[h].node] = h - 1
        /\ stack[1].node = 1
        /\ \A h \in 1 .. Len(stack) - 1 :
            /\ stack[h].next > 1
            /\ stack[h + 1].node = tree.kids[stack[h].node][stack[h].next - 1]
    BY <1>1, <1>3, LenProperties DEF Inv, WalkInPreorder
  <2>2. \A h \in DOMAIN stack' :
            /\ stack'[h].node \in Nodes(tree)
            /\ stack'[h].next \in 1 .. Arity(tree, stack'[h].node) + 1
            /\ tree.depth[stack'[h].node] = h - 1
    <3>1. DOMAIN stack' = 1 .. Len(stack) - 1
      BY <1>4, LenProperties
    <3>2. QED
      BY <3>1, <2>1, <1>3, <1>4
  <2>3. stack' # <<>> => stack'[1].node = 1
    <3>1. stack' # <<>> => 1 \in 1 .. Len(stack) - 1
      BY <1>3, <1>4, EmptySeq
    <3>2. QED
      BY <3>1, <2>1, <1>4
  <2>4. \A h \in 1 .. Len(stack') - 1 :
            /\ stack'[h].next > 1
            /\ stack'[h + 1].node = tree.kids[stack'[h].node][stack'[h].next - 1]
    <3> SUFFICES ASSUME NEW h \in 1 .. Len(stack') - 1
                 PROVE  /\ stack'[h].next > 1
                        /\ stack'[h + 1].node = tree.kids[stack'[h].node][stack'[h].next - 1]
      OBVIOUS
    <3>1. h \in 1 .. Len(stack) - 1 /\ h + 1 \in 1 .. Len(stack) - 1
      BY <1>3, <1>4
    <3>2. stack'[h] = stack[h] /\ stack'[h + 1] = stack[h + 1]
      BY <3>1, <1>4
    <3>3. QED
      BY <3>1, <3>2, <2>1
  <2>5. pc' = "walk" => nodes' = IF stack' = <<>> THEN 0 ELSE AllCountedUpTo(Top)'
    <3> SUFFICES ASSUME pc' = "walk"
                 PROVE  stack' # <<>> /\ nodes' = AllCountedUpTo(Top)'
      OBVIOUS
    <3>1. Len(stack) - 1 \in 1 .. Len(stack) - 1
      <4>1. Len(stack) # 1
        BY DEF Leave
      <4>2. Len(stack) \in Nat \ {0}
        BY <1>3
      <4>3. \A k \in Nat \ {0} : k # 1 => k - 1 \in 1 .. k - 1
        OBVIOUS
      <4>4. QED
        BY <4>1, <4>2, <4>3
    <3> DEFINE c == stack[Len(stack) - 1]
    <3>2. stack' # <<>> /\ Top' = c
      <4>1. Len(stack') \in Nat \ {0} /\ stack'[Len(stack')] = c
        BY <3>1, <1>3, <1>4
      <4>2. QED
        BY <4>1, EmptySeq DEF Top
    <3>3. c.next > 1 /\ Top.node = tree.kids[c.node][c.next - 1]
      BY <3>1, <1>3, <2>1 DEF Top
    <3> HIDE DEF c
    <3>4. AllCountedUpTo(Top)' = tree.last[Top.node]
      BY <3>2, <3>3, <1>5 DEF AllCountedUpTo
    <3>5. QED
      BY <3>2, <3>4, <1>1, <1>2
  <2>6. QED
    BY <2>2, <2>3, <2>4, <2>5, <1>1, <1>3, <1>5 DEF WalkInPreorder, WithinLimits, Arity
<1>11. QED
  BY <1>6, <1>7, <1>8, <1>9, <1>10 DEF Inv

-----------------------------------------------------------------------------
(* The theorems.                                                           *)

\* Every step keeps the invariant.
LEMMA NextInv ==
  ASSUME Inv, [Next]_vars
  PROVE  Inv'
<1>1. CASE Next
  <2>1. CASE CheckInput
    BY <2>1, TextStepGoesOn, TextStepReturns
  <2>2. CASE RejectTokens \/ RejectLexical \/ ParserFails \/ ParserRecovered
    <3>1. pc' = "done"
      BY <2>2 DEF RejectTokens, RejectLexical, ParserFails, ParserRecovered, Return
    <3>2. QED
      BY <3>1, <2>2, TextStepReturns
  <2>3. CASE PushToken \/ EndOfTokens \/ ParserSucceeds
    <3>1. pc' # "done"
      BY <2>3 DEF PushToken, EndOfTokens, ParserSucceeds, Goto
    <3>2. QED
      BY <3>1, <2>3, TextStepGoesOn
  <2>4. CASE RejectNodes \/ RejectDepth \/ RejectArgs
    BY <2>4, WalkRejects
  <2>5. CASE Enter
    BY <2>5, WalkEnters
  <2>6. CASE Leave
    BY <2>6, WalkLeaves
  <2>7. QED
    BY <1>1, <2>1, <2>2, <2>3, <2>4, <2>5, <2>6 DEF Next
<1>2. CASE UNCHANGED vars
  <2> USE <1>2 DEF vars, Inv
  <2>1. TypeOK' /\ WorkBounded'
    BY DEF TypeOK, WorkBounded
  <2>2. TextRead'
    BY DEF TextRead, CleanPrefix
  <2>3. WalkInPreorder'
    BY DEF WalkInPreorder, tree, Top, AllCountedUpTo, WithinLimits, Nodes, Arity
  <2>4. VerdictIsFirstCause'
    BY DEF VerdictIsFirstCause, tree
  <2>5. QED
    BY <2>1, <2>2, <2>3, <2>4
<1>3. QED
  BY <1>1, <1>2

\* The invariant holds throughout every call, for all texts and all limits.
THEOREM Invariance == Spec => []Inv
<1>1. Init => Inv
  BY InitInv
<1>2. Inv /\ [Next]_vars => Inv'
  BY NextInv
<1>3. QED
  BY <1>1, <1>2, PTL DEF Spec

\* parse_with_options_detailed never leaves the types of its variables.
THEOREM TypeCorrect == Spec => []TypeOK
<1>1. Inv => TypeOK
  BY DEF Inv
<1>2. QED
  BY <1>1, Invariance, PTL

\* Whatever the text and the limits, the answer is the one and only verdict
\* they justify: accepted within all limits, or the first cause of rejection.
THEOREM Verdict == Spec => []VerdictIsFirstCause
<1>1. Inv => VerdictIsFirstCause
  BY DEF Inv
<1>2. QED
  BY <1>1, Invariance, PTL

\* The limits bound the buffered tokens, the nodes counted and the recursion
\* of validate_ast_limits for every text.
THEOREM BoundedWork == Spec => []WorkBounded
<1>1. Inv => WorkBounded
  BY DEF Inv
<1>2. QED
  BY <1>1, Invariance, PTL

\* The walk visits the tree in preorder and counts every node once.
THEOREM Preorder == Spec => []WalkInPreorder
<1>1. Inv => WalkInPreorder
  BY DEF Inv
<1>2. QED
  BY <1>1, Invariance, PTL

\* EvalError::from never reports a recovery count of 0 or one over the limit.
THEOREM LegacyCounts == Spec => []LegacyRecoveryCount
<1>1. Inv => LegacyRecoveryCount
  BY TreeFacts DEF Inv, TextRead, VerdictIsFirstCause, LegacyRecoveryCount, Legacy, Pending,
     Ok, LimitError, LexicalErrorAt, ParseDiagnostics, IsOptions
<1>2. QED
  BY <1>1, Invariance, PTL
=============================================================================
