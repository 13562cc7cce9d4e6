-------------------------- MODULE MCParsePipeline --------------------------
(***************************************************************************)
(* ParsePipeline on every tree of up to MaxSize nodes and every limit      *)
(* around it.                                                              *)
(***************************************************************************)
EXTENDS ParsePipeline, AstGen, FiniteSets

CONSTANTS
    MaxSize,    \* nodes of the largest tree
    LimitTop    \* the limits range over 0..LimitTop

\* Tokens the grammar needs for a tree: one per leaf and operator, a name
\* and two parentheses per call and a comma between two arguments.
TokensFor(t) ==
    LET cost[n \in 0 .. t.size] ==
          IF n = 0 THEN 0
          ELSE cost[n - 1] + (IF t.kind[n] # "function" THEN 1
                              ELSE IF Arity(t, n) = 0 THEN 3 ELSE 2 + Arity(t, n))
    IN  cost[t.size]

Repeat(item, n) == [i \in 1..n |-> item]

NoTree == AstOf(<<0>>, <<"error">>, <<"none">>)
ErrorNode == [ok |-> TRUE, recoveries |-> 1, ast |-> NoTree]

\* Texts that parse: with the tokens they need and with one more (a pair of
\* parentheses or a trailing comma adds tokens, never nodes).
WellFormed ==
    {[bytes |-> TokensFor(t) + x, tokens |-> Repeat("token", TokensFor(t) + x),
      parse |-> [ok |-> TRUE, recoveries |-> 0, ast |-> t]] :
        t \in UNION {Shapes(size, {"integer"}) : size \in 1..MaxSize}, x \in {0, 2}}

\* Texts with lexical errors, one per position pattern of up to 3 tokens.
Malformed ==
    {[bytes |-> 3, tokens |-> ts, parse |-> ErrorNode] :
        ts \in UNION {[1..n -> TokenKinds] : n \in 0..3}}

\* Texts the parser rejects or recovers from.
Unparsable ==
    {[bytes |-> 2, tokens |-> Repeat("token", 2),
      parse |-> [ok |-> ok, recoveries |-> r, ast |-> NoTree]] :
        ok \in BOOLEAN, r \in 1..3}

\* A text the parser gives up on without a recovery.
Hopeless == {[bytes |-> 2, tokens |-> Repeat("token", 2),
              parse |-> [ok |-> FALSE, recoveries |-> 0, ast |-> NoTree]]}

MCInputs == Hopeless \cup WellFormed \cup Malformed \cup Unparsable

Limits(bytes, tokens, n, d, a, r) ==
    [max_input_bytes |-> bytes, max_tokens |-> tokens, max_ast_nodes |-> n,
     max_depth |-> d, max_function_args |-> a, max_parser_recoveries |-> r]

\* The tree limits vary together, the limits on the text against wide ones.
MCOptionSets ==
    {Limits(99, 99, n, d, a, 2) : n \in 0..LimitTop, d \in 0..LimitTop, a \in 0..LimitTop}
    \cup {Limits(b, t, 99, 99, 99, r) : b \in 0..3, t \in 0..3, r \in 0..3}
=============================================================================
