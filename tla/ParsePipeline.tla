--------------------------- MODULE ParsePipeline ---------------------------
(***************************************************************************)
(* parse_with_options_detailed (crates/shunting-yard/src/lib.rs): the       *)
(* input-size check, the token loop with its token limit and its lexical   *)
(* errors, the LALRPOP parse with its recoveries, and validate_ast_limits, *)
(* whose recursive walk is a stack of frames here, one step per call and   *)
(* one per return.                                                         *)
(*                                                                         *)
(* The generated parser is external: an input carries the answer the       *)
(* parser gives for its tokens (a hard error, or a tree with the number of *)
(* recoveries the grammar pushed).                                         *)
(***************************************************************************)
EXTENDS Ast

CONSTANTS
    Inputs,      \* source texts: their size, their tokens, the parser's answer
    OptionSets   \* the EvalOptions values in use

\* The items Lexer::next yields; a Logos error arrives in-band, as an Ok item.
\* (It never yields Err, so that arm of the token loop is out of reach.)
TokenKinds == {"token", "error"}

\* ParseError alone (ok FALSE), or a tree and the recoveries in `errors`.
IsParserAnswer(p) ==
    /\ p.ok \in BOOLEAN
    /\ p.recoveries \in Nat
    /\ p.ok => IsAst(p.ast)
    /\ p.ok /\ p.recoveries = 0 => IsCleanAst(p.ast)

IsOptions(o) ==
    /\ o.max_input_bytes \in Nat
    /\ o.max_tokens \in Nat
    /\ o.max_ast_nodes \in Nat
    /\ o.max_depth \in Nat
    /\ o.max_function_args \in Nat
    /\ o.max_parser_recoveries \in Nat

ASSUME InputsAssumption ==
    \A in \in Inputs : /\ in.bytes \in Nat
                       /\ in.tokens \in Seq(TokenKinds)
                       /\ IsParserAnswer(in.parse)

ASSUME OptionsAssumption == \A o \in OptionSets : IsOptions(o)

VARIABLES
    pc,        \* "start", "lex", "parse", "walk", "done"
    input,     \* the text of this call
    opts,      \* its EvalOptions
    checked,   \* checked_tokens.len()
    nodes,     \* the counter *nodes of the walk
    stack,     \* the active calls of walk: node and next child to walk
    result     \* what the call returns

vars == <<pc, input, opts, checked, nodes, stack, result>>

Pending == [kind |-> "pending", actual |-> 0, max |-> 0]
Ok == [kind |-> "ok", actual |-> 0, max |-> 0]

\* A ResourceLimitError carries what was measured and the limit.
LimitError(kind, actual, max) == [kind |-> kind, actual |-> actual, max |-> max]

\* Error::Lexical, at the token with this position.
LexicalErrorAt(p) == [kind |-> "Lexical", actual |-> p, max |-> 0]

\* Mutant: the diagnostic of the hard error is not counted, but subtracted.
DiagnosticsLessOne(recoveries) == [kind |-> "Parse", actual |-> recoveries - 1, max |-> 0]

\* Error::Parse; recovery_count() is 0 for the single hard-error diagnostic.
ParseDiagnostics(recoveries) == [kind |-> "Parse", actual |-> recoveries, max |-> 0]

tree == input.parse.ast
Top == stack[Len(stack)]

TypeOK ==
    /\ pc \in {"start", "lex", "parse", "walk", "done"}
    /\ input \in Inputs
    /\ opts \in OptionSets
    /\ checked \in Nat
    /\ nodes \in Nat
    /\ stack \in Seq([node : Nat, next : Nat])
    /\ result \in [kind : {"pending", "ok", "InputTooLarge", "TooManyTokens", "Lexical",
                           "Parse", "TooManyParserRecoveries", "AstTooLarge",
                           "ExpressionTooDeep", "TooManyFunctionArguments"},
                   actual : Nat, max : Nat]

Init ==
    /\ pc = "start"
    /\ input \in Inputs
    /\ opts \in OptionSets
    /\ checked = 0
    /\ nodes = 0
    /\ stack = <<>>
    /\ result = Pending

Goto(label) == pc' = label /\ UNCHANGED <<input, opts, result>>

Return(r) == pc' = "done" /\ result' = r /\ UNCHANGED <<input, opts>>

-----------------------------------------------------------------------------
(* The size check and the token loop.                                      *)

CheckInput ==
    /\ pc = "start"
    /\ IF input.bytes > opts.max_input_bytes
       THEN Return(LimitError("InputTooLarge", input.bytes, opts.max_input_bytes))
       ELSE Goto("lex")
    /\ UNCHANGED <<checked, nodes, stack>>

\* The loop body runs for the next item of the lexer.
AtToken == pc = "lex" /\ checked < Len(input.tokens)

\* Mutant: one token too many.
TokenLimitPassed == checked > opts.max_tokens

\* The limit is tested before the item is looked at.
TokenLimitReached == checked >= opts.max_tokens

RejectTokens ==
    /\ AtToken
    /\ TokenLimitReached
    /\ Return(LimitError("TooManyTokens", checked + 1, opts.max_tokens))
    /\ UNCHANGED <<checked, nodes, stack>>

RejectLexical ==
    /\ AtToken
    /\ ~TokenLimitReached
    /\ input.tokens[checked + 1] = "error"
    /\ Return(LexicalErrorAt(checked + 1))
    /\ UNCHANGED <<checked, nodes, stack>>

PushToken ==
    /\ AtToken
    /\ ~TokenLimitReached
    /\ input.tokens[checked + 1] = "token"
    /\ checked' = checked + 1
    /\ Goto("lex")
    /\ UNCHANGED <<nodes, stack>>

EndOfTokens ==
    /\ pc = "lex"
    /\ checked = Len(input.tokens)
    /\ Goto("parse")
    /\ UNCHANGED <<checked, nodes, stack>>

-----------------------------------------------------------------------------
(* The parser's answer.                                                    *)

\* A hard error wins over the recoveries recorded before it.
ParserFails ==
    /\ pc = "parse"
    /\ ~input.parse.ok
    /\ Return(ParseDiagnostics(0))
    /\ UNCHANGED <<checked, nodes, stack>>

TooManyRecoveries == input.parse.recoveries > opts.max_parser_recoveries

ParserRecovered ==
    /\ pc = "parse"
    /\ input.parse.ok
    /\ input.parse.recoveries > 0
    /\ Return(IF TooManyRecoveries
              THEN LimitError("TooManyParserRecoveries", input.parse.recoveries,
                              opts.max_parser_recoveries)
              ELSE ParseDiagnostics(input.parse.recoveries))
    /\ UNCHANGED <<checked, nodes, stack>>

ParserSucceeds ==
    /\ pc = "parse"
    /\ input.parse.ok
    /\ input.parse.recoveries = 0
    /\ Goto("walk")
    /\ UNCHANGED <<checked, nodes, stack>>

-----------------------------------------------------------------------------
(* validate_ast_limits.                                                    *)

\* walk is about to be called: on the root, or on the next child of the
\* innermost active call.
AtCall == pc = "walk" /\ (stack # <<>> => Top.next =< Arity(tree, Top.node))

\* Mutant: children from right to left.
CalleeReversed ==
    IF stack = <<>> THEN 1
    ELSE tree.kids[Top.node][Arity(tree, Top.node) + 1 - Top.next]

Callee == IF stack = <<>> THEN 1 ELSE tree.kids[Top.node][Top.next]

\* Its argument `depth`: the root is called with 0, a child with depth + 1.
CalleeDepth == Len(stack)

\* Mutant: one level too deep.
TooDeepByTwo(depth) == depth > opts.max_depth + 1

TooManyNodes(count) == count > opts.max_ast_nodes
TooDeep(depth) == depth > opts.max_depth
TooManyArgs(t, n) == t.kind[n] = "function" /\ Arity(t, n) > opts.max_function_args

RejectNodes ==
    /\ AtCall
    /\ TooManyNodes(nodes + 1)
    /\ nodes' = nodes + 1
    /\ Return(LimitError("AstTooLarge", nodes + 1, opts.max_ast_nodes))
    /\ UNCHANGED <<checked, stack>>

RejectDepth ==
    /\ AtCall
    /\ ~TooManyNodes(nodes + 1)
    /\ TooDeep(CalleeDepth)
    /\ nodes' = nodes + 1
    /\ Return(LimitError("ExpressionTooDeep", CalleeDepth, opts.max_depth))
    /\ UNCHANGED <<checked, stack>>

RejectArgs ==
    /\ AtCall
    /\ ~TooManyNodes(nodes + 1)
    /\ ~TooDeep(CalleeDepth)
    /\ TooManyArgs(tree, Callee)
    /\ nodes' = nodes + 1
    /\ Return(LimitError("TooManyFunctionArguments", Arity(tree, Callee),
                         opts.max_function_args))
    /\ UNCHANGED <<checked, stack>>

\* The stack once the innermost call has moved past the child it calls.
Advanced ==
    IF stack = <<>> THEN stack
    ELSE [stack EXCEPT ![Len(stack)] = [node |-> Top.node, next |-> Top.next + 1]]

Enter ==
    /\ AtCall
    /\ ~TooManyNodes(nodes + 1)
    /\ ~TooDeep(CalleeDepth)
    /\ ~TooManyArgs(tree, Callee)
    /\ nodes' = nodes + 1
    /\ stack' = Append(Advanced, [node |-> Callee, next |-> 1])
    /\ Goto("walk")
    /\ UNCHANGED checked

\* A call whose children are done returns Ok; the root's return accepts.
Leave ==
    /\ pc = "walk"
    /\ stack # <<>>
    /\ Top.next > Arity(tree, Top.node)
    /\ stack' = SubSeq(stack, 1, Len(stack) - 1)
    /\ IF Len(stack) = 1 THEN Return(Ok) ELSE Goto("walk")
    /\ UNCHANGED <<checked, nodes>>

Next ==
    \/ CheckInput
    \/ RejectTokens \/ RejectLexical \/ PushToken \/ EndOfTokens
    \/ ParserFails \/ ParserRecovered \/ ParserSucceeds
    \/ RejectNodes \/ RejectDepth \/ RejectArgs \/ Enter \/ Leave

Spec == Init /\ [][Next]_vars

-----------------------------------------------------------------------------
(* What the error carries on the legacy API: EvalError::from(Error).       *)

\* into_legacy_eval_error keeps only how many of the diagnostics are
\* recoveries; every other error keeps its kind and its numbers.
Legacy(r) ==
    IF r.kind = "Parse"
    THEN [kind |-> IF r.actual > 0 THEN "ParserRecovery" ELSE "ParserError",
          actual |-> r.actual, max |-> r.max]
    ELSE r

-----------------------------------------------------------------------------
(* Properties.                                                             *)

CleanPrefix(tokens, n) == \A i \in 1..n : tokens[i] = "token"

\* The text is small enough and its tokens all reach the parser.
ReachesParser(in, o) ==
    /\ in.bytes =< o.max_input_bytes
    /\ Len(in.tokens) =< o.max_tokens
    /\ CleanPrefix(in.tokens, Len(in.tokens))

CleanlyParsed(in, o) == ReachesParser(in, o) /\ in.parse.ok /\ in.parse.recoveries = 0

\* Node n is within the limits on the tree; a preorder number is also the
\* number of nodes counted when the walk gets there.
WithinLimits(t, o, n) ==
    /\ n =< o.max_ast_nodes
    /\ t.depth[n] =< o.max_depth
    /\ t.kind[n] = "function" => Arity(t, n) =< o.max_function_args

\* n is the first node, in preorder, that breaks a limit.
FirstOver(t, o, n) ==
    /\ n \in Nodes(t)
    /\ \A m \in 1 .. n - 1 : WithinLimits(t, o, m)

\* Every answer has exactly one justification in the input and the limits:
\* a text is accepted only when all of it is within all limits, and an error
\* reports the first cause, in the order bytes, then tokens by position (the
\* limit before the token itself), then a hard parse error, then recoveries,
\* then tree nodes in preorder (count, depth, arguments), with the measured
\* value just past the limit.  (parse_with_options_detailed,
\* parse_tokens_with_options_detailed, validate_ast_limits.)
VerdictIsFirstCause ==
    pc = "done" =>
      \/ /\ result = Ok
         /\ CleanlyParsed(input, opts)
         /\ \A n \in Nodes(tree) : WithinLimits(tree, opts, n)
      \/ /\ result = LimitError("InputTooLarge", input.bytes, opts.max_input_bytes)
         /\ input.bytes > opts.max_input_bytes
      \/ /\ result = LimitError("TooManyTokens", opts.max_tokens + 1, opts.max_tokens)
         /\ input.bytes =< opts.max_input_bytes
         /\ Len(input.tokens) > opts.max_tokens
         /\ CleanPrefix(input.tokens, opts.max_tokens)
      \/ \E p \in DOMAIN input.tokens :
         /\ result = LexicalErrorAt(p)
         /\ input.bytes =< opts.max_input_bytes
         /\ p =< opts.max_tokens
         /\ input.tokens[p] = "error"
         /\ CleanPrefix(input.tokens, p - 1)
      \/ /\ result = ParseDiagnostics(0)
         /\ ReachesParser(input, opts) /\ ~input.parse.ok
      \/ /\ result = ParseDiagnostics(input.parse.recoveries)
         /\ ReachesParser(input, opts) /\ input.parse.ok
         /\ input.parse.recoveries \in 1 .. opts.max_parser_recoveries
      \/ /\ result = LimitError("TooManyParserRecoveries", input.parse.recoveries,
                                 opts.max_parser_recoveries)
         /\ ReachesParser(input, opts) /\ input.parse.ok
         /\ input.parse.recoveries > opts.max_parser_recoveries
      \/ /\ result = LimitError("AstTooLarge", opts.max_ast_nodes + 1, opts.max_ast_nodes)
         /\ CleanlyParsed(input, opts)
         /\ FirstOver(tree, opts, opts.max_ast_nodes + 1)
      \/ \E n \in Nodes(tree) :
         /\ result = LimitError("ExpressionTooDeep", opts.max_depth + 1, opts.max_depth)
         /\ CleanlyParsed(input, opts)
         /\ FirstOver(tree, opts, n) /\ n =< opts.max_ast_nodes
         /\ tree.depth[n] = opts.max_depth + 1
      \/ \E n \in Nodes(tree) :
         /\ result = LimitError("TooManyFunctionArguments", Arity(tree, n),
                                opts.max_function_args)
         /\ CleanlyParsed(input, opts)
         /\ FirstOver(tree, opts, n) /\ n =< opts.max_ast_nodes
         /\ tree.depth[n] =< opts.max_depth
         /\ tree.kind[n] = "function" /\ Arity(tree, n) > opts.max_function_args

\* The limits bound the work of a call whatever the text is: the buffered
\* tokens, the nodes the walk counts, and the native stack it recurses on.
WorkBounded ==
    /\ checked =< opts.max_tokens
    /\ nodes =< opts.max_ast_nodes + 1
    /\ Len(stack) =< opts.max_depth + 1

\* A legacy ParserRecovery error counts at least one recovery and never more
\* than the limit: beyond it the caller gets the resource-limit error, and a
\* hard error never passes for a recovery.
LegacyRecoveryCount ==
    Legacy(result).kind = "ParserRecovery" =>
        /\ Legacy(result).actual \in 1 .. opts.max_parser_recoveries
        /\ input.parse.ok

\* The innermost call is on the last node counted, or between two of its
\* children with everything numbered below the next one counted.
AllCountedUpTo(frame) ==
    IF frame.next = 1 THEN frame.node ELSE tree.last[tree.kids[frame.node][frame.next - 1]]

\* While the tree is walked, the active calls are a path from the root, the
\* call at height h being at depth h - 1, and exactly the nodes numbered up to
\* the counter have been counted, each within the limits.
WalkInPreorder ==
    /\ \A h \in DOMAIN stack :
         /\ stack[h].node \in Nodes(tree)
         /\ stack[h].next \in 1 .. Arity(tree, stack[h].node) + 1
         /\ tree.depth[stack[h].node] = h - 1
    /\ stack # <<>> => stack[1].node = 1
    /\ \A h \in 1 .. Len(stack) - 1 :
         /\ stack[h].next > 1
         /\ stack[h + 1].node = tree.kids[stack[h].node][stack[h].next - 1]
    /\ pc = "walk" =>
         /\ nodes = IF stack = <<>> THEN 0 ELSE AllCountedUpTo(Top)
         /\ \A n \in 1..nodes : WithinLimits(tree, opts, n)
=============================================================================
