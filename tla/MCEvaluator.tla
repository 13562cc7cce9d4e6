---------------------------- MODULE MCEvaluator ----------------------------
(***************************************************************************)
(* Evaluator on trees of up to five nodes.                                 *)
(***************************************************************************)
EXTENDS Evaluator, AstGen, TLC

CONSTANTS Unary3, Binary3, Funcs3   \* operators of the trees of three nodes

\* The literals every tree has, by kind.
LiteralOf(kind) ==
    CASE kind = "integer" -> Int64(1) [] kind = "float" -> Float("neg") [] OTHER -> Bool(TRUE)

OpsOf(kind, unary, binary, funcs) ==
    CASE kind = "unary" -> unary [] kind = "binary" -> binary [] kind = "function" -> funcs
      [] OTHER -> {"none"}

\* Every tree of that size with these leaves and operators.
Trees(size, leaves, unary, binary, funcs) ==
    UNION {{[t EXCEPT !.op = op] @@ [literal |-> [n \in 1..size |-> LiteralOf(t.kind[n])]] :
               op \in {f \in [1..size -> {"none"} \cup unary \cup binary \cup funcs] :
                         \A n \in 1..size : f[n] \in OpsOf(t.kind[n], unary, binary, funcs)}} :
           t \in Shapes(size, leaves)}

\* (x - y) - z and x - (y - z): the subtractions are the nodes `inner`.
Nested(d, inner) ==
    LET minus(n) == \E i \in DOMAIN inner : inner[i] = n
    IN  AstOf(d, [n \in 1..5 |-> IF minus(n) THEN "binary" ELSE "variable"],
                 [n \in 1..5 |-> IF minus(n) THEN "Minus" ELSE "none"])
        @@ [literal |-> [n \in 1..5 |-> Bool(TRUE)]]

MCExpressions ==
    UNION {Trees(size, {"variable", "integer", "float"}, {"Minus", "LogicalNot", "Degrees"},
                 {"Plus"}, {"Max", "Exp"}) : size \in 1..2}
    \cup Trees(3, {"variable", "integer"}, Unary3, Binary3, Funcs3)
    \cup Trees(4, {"variable"}, {"Minus"}, {"Minus"}, {"Min", "Round"})
    \cup {Nested(<<0, 1, 2, 2, 1>>, <<1, 2>>), Nested(<<0, 1, 1, 2, 2>>, <<1, 3>>)}
=============================================================================
