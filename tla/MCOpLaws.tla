------------------------------ MODULE MCOpLaws ------------------------------
(***************************************************************************)
(* Every operator and built-in on every operand of a narrow width.         *)
(***************************************************************************)
EXTENDS OpLaws

CallsOf(family, ops, argLists) ==
    {[family |-> family, op |-> op, vals |-> vals] : op \in ops, vals \in argLists}

\* Lists of up to two operands, and of three for the functions that take any
\* number and those that count their arguments.
Lists(n) == [1..n -> ValidValues]
Triples == {<<a, b, c>> : a \in {Bool(TRUE), Int64(1), Float("neg")},
                          b \in {Int64(MinInt), Int64(2), Float("zero")}, c \in ValidValues}

MCCalls ==
    CallsOf("unary", UnaryOps, Lists(1))
    \cup CallsOf("binary", BinaryOps, Lists(2))
    \cup CallsOf("function", Funcs, Lists(0) \cup Lists(1) \cup Lists(2) \cup Triples)
=============================================================================
