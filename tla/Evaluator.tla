----------------------------- MODULE Evaluator -----------------------------
(***************************************************************************)
(* eval_with_resolver (crates/shunting-yard/src/eval.rs): the recursive    *)
(* evaluation of a parsed expression, one step per call, per operation     *)
(* applied and per exchange with the resolver.  The active calls are a     *)
(* stack of frames: the node and the operand values it has so far.         *)
(*                                                                         *)
(* The resolver is the host's: it answers each call with any value or      *)
(* error, the same name differently on each call, and may never return.    *)
(***************************************************************************)
EXTENDS Ast, EvalOps

CONSTANTS
    Expressions,     \* the trees a ParsedExpression can hold
    ResolverErrors   \* kinds of the errors a resolver returns

\* A node's payload: its operator, or its literal.
HasPayload(e, n) ==
    CASE e.kind[n] = "bool" -> e.literal[n] \in Bools
      [] e.kind[n] = "integer" -> e.literal[n] \in Integers64
      [] e.kind[n] = "float" -> e.literal[n] \in Numbers
      [] e.kind[n] = "unary" -> e.op[n] \in UnaryOps
      [] e.kind[n] = "binary" -> e.op[n] \in BinaryOps
      [] e.kind[n] = "function" -> e.op[n] \in Funcs
      [] OTHER -> TRUE

\* Parsing accepts no tree with an error node, and the lexer no float literal
\* that is not a number (parse_float), so the two arms of eval_with_resolver
\* on error nodes are out of reach.
ASSUME ExpressionsAssumption ==
    \A e \in Expressions : IsCleanAst(e) /\ \A n \in Nodes(e) : HasPayload(e, n)

\* A resolver's own errors are told apart from those of evaluation.
ASSUME ResolverErrorsAssumption == "pending" \notin ResolverErrors

VARIABLES
    pc,        \* "eval", "resolving", "done"
    expr,      \* the tree
    stack,     \* the active calls of eval_with_resolver
    asked,     \* history: the variable the resolver was asked for last
    answers,   \* history: what it answered, by node
    result     \* what eval returns

vars == <<pc, expr, stack, asked, answers, result>>

Pending == Err("pending")
Answers == {Ok(v) : v \in AnyValues} \cup {Err(e) : e \in ResolverErrors}

Top == stack[Len(stack)]
Frames == [node : Nat, vals : Seq(ValidValues)]

TypeOK ==
    /\ pc \in {"eval", "resolving", "done"}
    /\ stack \in Seq(Frames)
    /\ asked \in 0 .. expr.size
    /\ answers \in [Nodes(expr) -> Answers \cup {Pending}]
    /\ result \in Outcomes \cup {Pending} \cup {Err(e) : e \in ResolverErrors}

Init ==
    /\ pc = "eval"
    /\ expr \in Expressions
    /\ stack = <<>>
    /\ asked = 0
    /\ answers = [n \in Nodes(expr) |-> Pending]
    /\ result = Pending

\* Mutant: the operands reach their operator in reverse.
DeliverReversed(o, below) ==
    IF o.ok /\ below # <<>>
    THEN LET caller == below[Len(below)]
         IN  /\ stack' = [below EXCEPT ![Len(below)] =
                            [node |-> caller.node, vals |-> <<o.value>> \o caller.vals]]
             /\ pc' = "eval"
             /\ UNCHANGED result
    ELSE stack' = <<>> /\ pc' = "done" /\ result' = o

\* A call returns o to the calls below it.  An error travels up through every
\* `?`; a value is the root's result or the caller's next operand.
Deliver(o, below) ==
    IF o.ok /\ below # <<>>
    THEN LET caller == below[Len(below)]
         IN  /\ stack' = [below EXCEPT ![Len(below)] =
                            [node |-> caller.node, vals |-> Append(caller.vals, o.value)]]
             /\ pc' = "eval"
             /\ UNCHANGED result
    ELSE stack' = <<>> /\ pc' = "done" /\ result' = o

Below == SubSeq(stack, 1, Len(stack) - 1)

\* eval_with_resolver is about to be called: on the root, or on the operand
\* after those the innermost call has.
AtCall == pc = "eval" /\ (stack # <<>> => Len(Top.vals) < Arity(expr, Top.node))

\* Mutant: a binary operation evaluates its left operand twice.
CalleeLeftTwice == IF stack = <<>> THEN 1 ELSE expr.kids[Top.node][1]

\* Mutant: operands are evaluated right to left.
CalleeFromRight ==
    IF stack = <<>> THEN 1
    ELSE expr.kids[Top.node][Arity(expr, Top.node) - Len(Top.vals)]

Callee == IF stack = <<>> THEN 1 ELSE expr.kids[Top.node][Len(Top.vals) + 1]

Literal(v) == IF IsFloat(v) THEN CheckedFloat(v.class) ELSE Ok(v)

EvalLiteral ==
    /\ AtCall
    /\ expr.kind[Callee] \in {"bool", "integer", "float"}
    /\ Deliver(Literal(expr.literal[Callee]), stack)
    /\ UNCHANGED <<expr, asked, answers>>

\* The call of a compound node starts with its first operand.
Descend ==
    /\ AtCall
    /\ expr.kind[Callee] \in {"unary", "binary", "function"}
    /\ stack' = Append(stack, [node |-> Callee, vals |-> <<>>])
    /\ UNCHANGED <<pc, expr, asked, answers, result>>

CallResolver ==
    /\ AtCall
    /\ expr.kind[Callee] = "variable"
    /\ pc' = "resolving"
    /\ asked' = Callee
    /\ stack' = Append(stack, [node |-> Callee, vals |-> <<>>])
    /\ UNCHANGED <<expr, answers, result>>

\* Mutant: what the resolver returns is used as it is.
ResolvedUnchecked(answer) == answer

\* Mutant: an unresolved variable counts as 0.
ResolvedOrZero(answer) == IF answer.ok THEN ValidateValue(answer.value) ELSE Ok(Int64(0))

\* What a variable evaluates to, given the resolver's answer.
Resolved(answer) == IF answer.ok THEN ValidateValue(answer.value) ELSE answer

ResolverReturns ==
    /\ pc = "resolving"
    /\ \E answer \in Answers :
         /\ answers' = [answers EXCEPT ![Top.node] = answer]
         /\ Deliver(Resolved(answer), Below)
    /\ UNCHANGED <<expr, asked>>

\* The outcomes of a compound node, given the values of its operands.
Applied(e, n, vals) ==
    CASE e.kind[n] = "unary" -> ApplyUnary(e.op[n], vals[1])
      [] e.kind[n] = "binary" -> ApplyBinary(e.op[n], vals[1], vals[2])
      [] e.kind[n] = "function" -> ApplyFunction(e.op[n], vals)

Apply ==
    /\ pc = "eval"
    /\ stack # <<>>
    /\ Len(Top.vals) = Arity(expr, Top.node)
    /\ \E o \in Applied(expr, Top.node, Top.vals) : Deliver(o, Below)
    /\ UNCHANGED <<expr, asked, answers>>

\* The evaluator's own steps; ResolverReturns is the host's.
Step == EvalLiteral \/ Descend \/ CallResolver \/ Apply

Next == Step \/ ResolverReturns

Spec == Init /\ [][Next]_vars

-----------------------------------------------------------------------------
(***************************************************************************)
(* Properties.                                                             *)
(***************************************************************************)

\* The values among these outcomes.
ValuesOf(outcomes) == {o.value : o \in {p \in outcomes : p.ok}}

\* Given the outcomes each operand can have, left to right: the errors of an
\* operand before which none needs to fail.
FirstErrors(operands) ==
    {o \in UNION {operands[i] : i \in DOMAIN operands} :
        /\ ~o.ok
        /\ \E i \in DOMAIN operands :
             /\ o \in operands[i]
             /\ \A j \in 1 .. i - 1 : ValuesOf(operands[j]) # {}}

\* And the lists of values they can have together.
ValueLists(operands) ==
    {vals \in [DOMAIN operands -> UNION {ValuesOf(operands[i]) : i \in DOMAIN operands}] :
        \A i \in DOMAIN operands : vals[i] \in ValuesOf(operands[i])}

\* What node n of e can evaluate to when the resolver answers `given` and
\* every other node can evaluate to what `of` says: the error of the leftmost
\* operand that has one, or the operator applied to the values of them all.
Denotes(e, given, of, n) ==
    LET operands == [i \in 1 .. Arity(e, n) |-> of[e.kids[n][i]]]
    IN  CASE e.kind[n] = "variable" -> {Resolved(given[n])}
          [] e.kind[n] \in {"bool", "integer", "float"} -> {Literal(e.literal[n])}
          [] OTHER -> FirstErrors(operands)
                      \cup UNION {Applied(e, n, vals) : vals \in ValueLists(operands)}

\* What each node of e can evaluate to when the resolver answers `given`.
Meanings(e, given) == LET of[n \in Nodes(e)] == Denotes(e, given, of, n) IN of

Meaning(e, given) == Meanings(e, given)[1]

\* eval returns what the expression means under the answers the resolver gave:
\* operands reach their operator in order, the leftmost error wins, no operand
\* is skipped (&& and || included) and no answer is lost or used twice.
ResultIsMeaning == pc = "done" => result # Pending /\ result \in Meaning(expr, answers)

\* The operand the innermost call has in hand is the one it asked for: the
\* active calls of eval_with_resolver are a path from the root, so recursion is
\* never deeper than the tree (which validate_ast_limits bounds).
CallsFollowTree ==
    \A h \in DOMAIN stack :
        /\ expr.depth[stack[h].node] = h - 1
        /\ h = 1 => stack[h].node = 1
        /\ h > 1 => LET caller == stack[h - 1]
                    IN  /\ Len(caller.vals) < Arity(expr, caller.node)
                        /\ stack[h].node = expr.kids[caller.node][Len(caller.vals) + 1]

Variables == {n \in Nodes(expr) : expr.kind[n] = "variable"}

\* The resolver has answered every occurrence before the last one asked for,
\* each with a value evaluation may use, and none after it.
AskedInOrder ==
    \A n \in Variables :
        /\ n < asked => answers[n] # Pending /\ Resolved(answers[n]).ok
        /\ n > asked => answers[n] = Pending
        /\ n = asked => (answers[n] = Pending <=> pc = "resolving")

\* What evaluation promises to the host (ResolverContract).
Contract == INSTANCE ResolverContract

ContractKept == Contract!ContractSpec
=============================================================================
