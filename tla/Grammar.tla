------------------------------ MODULE Grammar ------------------------------
(***************************************************************************)
(* The expressions calc.lalrpop derives and the trees its actions build    *)
(* (crates/shunting-yard/src/calc.lalrpop, Opcode and Func of ast.rs).     *)
(*                                                                         *)
(* A text is the sequence of its tokens, each named as in the grammar       *)
(* ("deg" is the degree sign, "comma" the comma).                          *)
(* LALRPOP reads the precedence annotations as one nonterminal per level:  *)
(* Expression(s)[level, i, j] is the set of the trees that level derives   *)
(* for the tokens i..j.  The generated parser is external; it returns a    *)
(* tree of this set, and where the set is empty it fails or recovers (the  *)
(* `!` alternative of Term), which no tree the limits are checked on has   *)
(* seen (parse_tokens_with_options_detailed).                              *)
(*                                                                         *)
(* A tree is the sequence of its nodes in preorder, each with its depth    *)
(* and, as history, the token it stands for.                               *)
(***************************************************************************)
EXTENDS Ast, AstGen, EvalOps, SequencesExt

CONSTANT Texts   \* the token sequences to parse

VARIABLES
    pc,      \* "parse", "done"
    text,    \* the tokens
    trees    \* the trees the parser may return

vars == <<pc, text, trees>>

-----------------------------------------------------------------------------
(* The terminals, and what they become.                                    *)

Infix(level, token, opcode) == [level |-> level, token |-> token, opcode |-> opcode]

InfixRules ==
    {Infix(3, "**", "Power"),
     Infix(4, "*", "Multiply"), Infix(4, "/", "Divide"), Infix(4, "%", "Modulo"),
     Infix(5, "+", "Plus"), Infix(5, "-", "Minus"),
     Infix(6, "<<", "BitshiftLeft"), Infix(6, ">>", "BitshiftRight"),
     Infix(7, "<", "LessThan"), Infix(7, ">", "GreaterThan"),
     Infix(7, "<=", "LessThanEquals"), Infix(7, ">=", "GreaterThanEquals"),
     Infix(8, "==", "Equals"), Infix(8, "!=", "NotEquals"),
     Infix(8, "~=", "ApproximatelyEquals"),
     Infix(9, "&", "BitwiseAnd"), Infix(10, "^", "BitwiseXor"), Infix(11, "|", "BitwiseOr"),
     Infix(12, "&&", "LogicalAnd"), Infix(13, "||", "LogicalOr")}

PrefixRules ==
    {<<"!", "LogicalNot">>, <<"+", "Plus">>, <<"-", "Minus">>, <<"~", "BitwiseNot">>}

FunctionRules ==
    {<<"min", "Min">>, <<"max", "Max">>, <<"pow", "Power">>, <<"mod", "Modulo">>,
     <<"rem", "Remainder">>, <<"round", "Round">>, <<"cos", "Cos">>, <<"sin", "Sin">>,
     <<"tan", "Tan">>, <<"acos", "ACos">>, <<"asin", "ASin">>, <<"atan", "ATan">>,
     <<"abs", "Abs">>, <<"ln", "Ln">>, <<"log", "Log">>, <<"exp", "Exp">>,
     <<"floor", "Floor">>, <<"ceiling", "Ceiling">>}

LeafRules ==
    {<<"boolean", "bool">>, <<"integer_literal", "integer">>, <<"hex_literal", "integer">>,
     <<"float_literal", "float">>, <<"variable", "variable">>, <<"error", "lexical_error">>}

\* What the rules of one kind make of a token: nothing, or one thing.
Under(rules, token) == {rule[2] : rule \in {r \in rules : r[1] = token}}

LeafTokens == {rule[1] : rule \in LeafRules}
NameTokens == {rule[1] : rule \in FunctionRules}
PrefixTokens == {rule[1] : rule \in PrefixRules}
InfixTokens == {rule.token : rule \in InfixRules}

Tokens == UNION {LeafTokens, NameTokens, PrefixTokens, InfixTokens, {"deg", "(", ")", "comma"}}

ASSUME TextsAssumption == Texts \subseteq Seq(Tokens)

Loosest == 13
PrefixLevel == 3
PostfixLevel == 2

\* Mutant: ** groups to the left.
NoneRightAssociative(level) == FALSE

\* assoc(side = "left"): a level repeats on the left of its operators only,
\* "right": on the right only.
RightAssociative(level) == level = 3
LhsLevel(level) == IF RightAssociative(level) THEN level - 1 ELSE level

RhsLevel(level) == IF RightAssociative(level) THEN level ELSE level - 1

\* Mutant: a prefix operator takes no prefix operation.
PrefixOperandTighter == PrefixLevel - 1

\* assoc(side = "right") on a prefix operator: its own level again.
PrefixOperandLevel == PrefixLevel

InsideParentheses == Loosest

-----------------------------------------------------------------------------
(* The trees the actions build.  A sequence of trees, one after the other,  *)
(* is a forest: the children of a node are a forest one level down.        *)

Deeper(forest) == [n \in DOMAIN forest |-> [forest[n] EXCEPT !.depth = @ + 1]]

\* A node above the trees of its children.
Tree(kind, op, at, kids) ==
    <<[kind |-> kind, op |-> op, depth |-> 0, at |-> at]>> \o Deeper(kids)

\* Mutant: a prefix operator is a binary one on a zero.
PrefixAsBinary(opcode, at, operand) ==
    Tree("binary", opcode, at, Tree("integer", "none", at, <<>>) \o operand)

PrefixTree(opcode, at, operand) == Tree("unary", opcode, at, operand)

\* What a level derives for the tokens i..j, from what the levels below derive
\* for them and what every level derives for fewer tokens.  The arguments of a
\* call are one more level, the loosest; it derives forests.
Arguments == Loosest + 1

Place(level, i, j) == <<level, i, j>>

\* Comma<Expression>: a comma may follow the last argument.
ExpressionList(derived, s, i, j) ==
    IF i > j THEN {<<>>}
    ELSE derived[Place(Loosest, i, j)]
         \cup UNION {{e \o rest : e \in derived[Place(Loosest, i, k - 1)],
                                  rest \in derived[Place(Arguments, k + 1, j)]} :
                     k \in {p \in i + 1 .. j : s[p] = "comma"}}

FunctionCall(derived, s, i, j) ==
    IF j < i + 2 \/ s[i + 1] # "(" \/ s[j] # ")" THEN {}
    ELSE {Tree("function", func, i, args) :
             func \in Under(FunctionRules, s[i]),
             args \in derived[Place(Arguments, i + 2, j - 1)]}

Term(derived, s, i, j) ==
    (IF i = j THEN {Tree(kind, "none", i, <<>>) : kind \in Under(LeafRules, s[i])} ELSE {})
    \cup (IF s[i] = "(" /\ s[j] = ")" THEN derived[Place(InsideParentheses, i + 1, j - 1)] ELSE {})
    \cup FunctionCall(derived, s, i, j)

Postfix(derived, s, i, j) ==
    IF s[j] = "deg"
    THEN {Tree("unary", "Degrees", j, e) : e \in derived[Place(PostfixLevel, i, j - 1)]}
    ELSE {}

Prefix(derived, s, i, j) ==
    {PrefixTree(opcode, i, e) : opcode \in Under(PrefixRules, s[i]),
                                e \in derived[Place(PrefixOperandLevel, i + 1, j)]}

BinaryAt(derived, rule, i, k, j) ==
    UNION {{Tree("binary", rule.opcode, k, lhs \o rhs) :
               rhs \in derived[Place(RhsLevel(rule.level), k + 1, j)]} :
           lhs \in derived[Place(LhsLevel(rule.level), i, k - 1)]}

Binary(derived, s, level, i, j) ==
    UNION {UNION {BinaryAt(derived, rule, i, k, j) :
                     rule \in {r \in InfixRules : r.level = level /\ r.token = s[k]}} :
           k \in i + 1 .. j - 1}

Derives(derived, s, level, i, j) ==
    IF level = Arguments THEN ExpressionList(derived, s, i, j)
    ELSE IF i > j THEN {}
    ELSE IF level = 1 THEN Term(derived, s, i, j)
    ELSE UNION {derived[Place(level - 1, i, j)],
                Binary(derived, s, level, i, j),
                IF level = PostfixLevel THEN Postfix(derived, s, i, j) ELSE {},
                IF level = PrefixLevel THEN Prefix(derived, s, i, j) ELSE {}}

Places(s) == (1 .. Arguments) \X (1 .. Len(s) + 1) \X (0 .. Len(s))

Expression(s) ==
    LET derived[place \in Places(s)] == Derives(derived, s, place[1], place[2], place[3])
    IN  derived

Parses(s) == Expression(s)[Place(Loosest, 1, Len(s))]

\* The tree as the limit check and the evaluator walk it (Ast).
AsAst(t) ==
    AstOf([n \in DOMAIN t |-> t[n].depth], [n \in DOMAIN t |-> t[n].kind],
          [n \in DOMAIN t |-> t[n].op])

-----------------------------------------------------------------------------
(* One call of ExpressionParser::parse.                                    *)

Init == pc = "parse" /\ text \in Texts /\ trees = {}

Parse ==
    /\ pc = "parse"
    /\ trees' = Parses(text)
    /\ pc' = "done"
    /\ UNCHANGED text

Next == Parse

Spec == Init /\ [][Next]_vars

-----------------------------------------------------------------------------
(***************************************************************************)
(* Properties.                                                             *)
(***************************************************************************)

\* What eval_with_resolver relies on when it indexes operands and matches
\* opcodes: a unary node has one of the prefix or postfix opcodes and one
\* child, a binary node an infix opcode and two, a call a function's name.  A
\* parse without errors builds no other tree, so the arms of apply_unary and
\* apply_binary for opcodes of the other kind are out of reach.
WellBuilt(t) ==
    /\ IsAst(t)
    /\ \A n \in Nodes(t) :
         /\ t.kind[n] # "error"
         /\ t.kind[n] = "unary" => t.op[n] \in UnaryOps
         /\ t.kind[n] = "binary" => t.op[n] \in BinaryOps
         /\ t.kind[n] = "function" => t.op[n] \in Funcs

\* How one reads s from left to right: the set of the brackets open before
\* each token, whether an operand must or an operator may come next, and
\* whether a bracket may be closed although an operand could come ("(" and
\* "comma" of a call).
Start == [want |-> "operand", open |-> <<>>, closable |-> FALSE]
Stuck == [want |-> "nothing", open |-> <<>>, closable |-> FALSE]

Want(state, what) == [state EXCEPT !.want = what, !.closable = FALSE]
Opened(state, bracket) ==
    [want |-> "operand", open |-> Append(state.open, bracket), closable |-> bracket = "call"]
Closed(state) == [want |-> "operator", open |-> Front(state.open), closable |-> FALSE]
InCall(state) == state.open # <<>> /\ Last(state.open) = "call"

Read(state, token) ==
    CASE state.want = "call" -> IF token = "(" THEN Opened(state, "call") ELSE Stuck
      [] state.want = "operand" /\ token \in LeafTokens -> Want(state, "operator")
      [] state.want = "operand" /\ token \in NameTokens -> Want(state, "call")
      [] state.want = "operand" /\ token \in PrefixTokens -> Want(state, "operand")
      [] state.want = "operand" /\ token = "(" -> Opened(state, "group")
      [] state.closable /\ token = ")" -> Closed(state)
      [] state.want = "operator" /\ token \in InfixTokens -> Want(state, "operand")
      [] state.want = "operator" /\ token = "deg" -> state
      [] state.want = "operator" /\ token = ")" /\ state.open # <<>> -> Closed(state)
      [] state.want = "operator" /\ token = "comma" /\ InCall(state) ->
            [state EXCEPT !.want = "operand", !.closable = TRUE]
      [] OTHER -> Stuck

\* The state before token n + 1.
Reading(s) ==
    LET after[n \in 0 .. Len(s)] == IF n = 0 THEN Start ELSE Read(after[n - 1], s[n]) IN after

ReadsToEnd(s) == LET last == Reading(s)[Len(s)] IN last.want = "operator" /\ last.open = <<>>

\* The levels take nothing away and leave nothing open: a text parses, and in
\* one way only, exactly when operands and operators alternate and brackets
\* match; a call's list may be empty or end in a comma.  No combination of
\* precedences makes a text unparsable or groups it in two ways.
ParsesOnceIffAlternating ==
    pc = "done" => Cardinality(trees) = IF ReadsToEnd(text) THEN 1 ELSE 0

\* The operators from the loosest to the tightest; "prefix" stands for the
\* prefix operators.
LoosestFirst ==
    <<{"||"}, {"&&"}, {"|"}, {"^"}, {"&"}, {"==", "!=", "~="}, {"<", ">", "<=", ">="},
      {"<<", ">>"}, {"+", "-"}, {"*", "/", "%"}, {"**", "prefix"}, {"deg"}>>

\* The operator tokens of s outside all brackets, and how loosely each binds.
Outside(s) ==
    {n \in 1 .. Len(s) : Reading(s)[n - 1].open = <<>> /\ s[n] \in InfixTokens \cup PrefixTokens \cup {"deg"}}
Role(s, n) == IF Reading(s)[n - 1].want = "operand" THEN "prefix" ELSE s[n]
Rank(s, n) == CHOOSE r \in DOMAIN LoosestFirst : Role(s, n) \in LoosestFirst[r]

\* An expression is what its loosest operator outside brackets makes of the
\* rest: of several equally loose ones the last, but the first of ** and the
\* prefix operators, which group to the right.
RootIsLoosest ==
    \A t \in trees : Outside(text) # {} =>
        LET rank == [n \in Outside(text) |-> Rank(text, n)]
            ties == {n \in Outside(text) : \A m \in Outside(text) : rank[n] =< rank[m]}
        IN  /\ t[1].at \in ties
            /\ \A n \in ties : IF Role(text, t[1].at) \in {"**", "prefix"}
                               THEN t[1].at =< n ELSE n =< t[1].at

\* Every tree is one that what comes after it can take: well built; and since
\* the token limit is the only one that has been looked at when a tree is built,
\* with no more nodes than the text has tokens and a depth below that
\* number, which is what the walk and the drop recurse on.
TreesAreUsable ==
    \A t \in trees : /\ WellBuilt(AsAst(t))
                     /\ Len(t) =< Len(text)
                     /\ \A n \in DOMAIN t : t[n].depth < Len(text)
=============================================================================
