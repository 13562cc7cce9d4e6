----------------------------- MODULE MCCoreApi -----------------------------
(***************************************************************************)
(* CoreApi on a handful of texts, with the trees the grammar has for them, *)
(* and limits around each of them.                                         *)
(***************************************************************************)
EXTENDS CoreApi, TLC

x == "variable"

\* Texts as the tokens of the grammar.
Good == {<<x>>, <<"(", x, ")">>, <<x, "-", "integer_literal">>, <<x, "-", x>>,
         <<"max", "(", "-", x, "comma", ")">>}
Bad == {<<>>, <<x, x>>, <<"-">>, <<x, "-", "$", x>>}

GrammarOf(s) == INSTANCE Grammar WITH Texts <- {s}, pc <- "parse", text <- s, trees <- {}

TreeOf(s) == CHOOSE t \in GrammarOf(s)!Parses(s) : TRUE

\* The tree with its literals.
AstOf(s) ==
    LET ast == GrammarOf(s)!AsAst(TreeOf(s))
    IN  ast @@ [literal |-> [n \in 1 .. ast.size |-> Int64(1)]]

ErrorNode == [size |-> 1, kind |-> <<"error">>, op |-> <<"none">>, literal |-> <<Int64(1)>>,
              kids |-> <<<<>>>>, last |-> <<1>>, depth |-> <<0>>]

Kinds1(s) == [i \in DOMAIN s |-> IF s[i] = "$" THEN "error" ELSE "token"]

GoodInput(s) ==
    [bytes |-> Len(s), tokens |-> Kinds1(s), parse |-> [ok |-> TRUE, recoveries |-> 0, ast |-> AstOf(s)]]

BadInput(s, ok, recoveries) ==
    [bytes |-> Len(s), tokens |-> Kinds1(s),
     parse |-> [ok |-> ok, recoveries |-> recoveries, ast |-> ErrorNode]]

MCInputs == {GoodInput(s) : s \in Good}
            \cup {BadInput(s, FALSE, 0) : s \in Bad} \cup {BadInput(s, TRUE, 1) : s \in Bad}

Limits(bytes, tokens, n, d, a, r) ==
    [max_input_bytes |-> bytes, max_tokens |-> tokens, max_ast_nodes |-> n,
     max_depth |-> d, max_function_args |-> a, max_parser_recoveries |-> r]

MCOptionSets == {Limits(5, 3, 9, 9, 9, 0), Limits(9, 9, 2, 9, 9, 1), Limits(9, 9, 9, 0, 9, 1),
                 Limits(9, 9, 9, 9, 0, 1), Limits(2, 9, 9, 1, 1, 1)}
=============================================================================
