------------------------------ MODULE CoreApi ------------------------------
(***************************************************************************)
(* The public functions of crates/shunting-yard/src/lib.rs: parse and      *)
(* evaluate in one call, or parse once and evaluate many times, each with  *)
(* default or given limits and with detailed or legacy errors.  They       *)
(* compose the parse pipeline with the evaluator:                          *)
(*   Parsing  runs the steps of ParsePipeline,                             *)
(*   Evaluation  those of Evaluator,                                       *)
(* and the actions of this module hand the tree from one to the other and  *)
(* turn their errors into what the host gets.                              *)
(***************************************************************************)
EXTENDS Ast, Values

CONSTANTS
    Inputs,           \* source texts, with what lexer and parser make of them
    OptionSets,       \* the limits hosts give
    ResolverErrors,   \* kinds of the errors a resolver returns
    MaxExponent,      \* u32::MAX
    MaxEvaluations    \* bound: how often a parsed expression is evaluated

ASSUME MaxEvaluationsAssumption == MaxEvaluations \in Nat

\* The trees of the texts that parse without errors: what can be evaluated.
Trees == {in.parse.ast : in \in {i \in Inputs : i.parse.ok /\ i.parse.recoveries = 0}}

VARIABLES
    function,     \* the function the host called to get at the text
    form,         \* "detailed" or "legacy": the errors of the call in progress
    stage,        \* "parsing", "parsed", "evaluating", "returned"
    evaluations,  \* evaluations that have returned
    returned,     \* what the last call returned
    parsePc, input, opts, checked, nodes, walk, verdict,   \* ParsePipeline
    evalPc, expr, calls, asked, answers, outcome           \* Evaluator

parseVars == <<parsePc, input, opts, checked, nodes, walk, verdict>>
evalVars == <<evalPc, expr, calls, asked, answers, outcome>>
hostVars == <<function, form, stage, evaluations, returned>>
vars == <<hostVars, parseVars, evalVars>>

-----------------------------------------------------------------------------
(* The functions, and the limits each works with.                          *)

DefaultOptions ==
    [max_input_bytes |-> 16 * 1024, max_tokens |-> 4096, max_ast_nodes |-> 4096,
     max_depth |-> 256, max_function_args |-> 256, max_parser_recoveries |-> 64]

\* What a function does before it returns, its errors, and whose limits.
Function(name, does, errors, limits) ==
    [name |-> name, does |-> does, errors |-> errors, limits |-> limits]

ParseFunctions ==
    {Function("parse", "parse", "legacy", "default"),
     Function("parse_detailed", "parse", "detailed", "default"),
     Function("parse_with_options", "parse", "legacy", "given"),
     Function("parse_with_options_detailed", "parse", "detailed", "given")}

DefaultEvaluateFunctions ==
    {Function("evaluate", "evaluate", "legacy", "default"),
     Function("evaluate_with", "evaluate", "legacy", "default"),
     Function("evaluate_with_resolver", "evaluate", "legacy", "default"),
     Function("evaluate_detailed", "evaluate", "detailed", "default"),
     Function("evaluate_with_resolver_detailed", "evaluate", "detailed", "default")}

LimitedEvaluateFunctions ==
    {Function("evaluate_with_options", "evaluate", "legacy", "given"),
     Function("evaluate_with_options_and_resolver", "evaluate", "legacy", "given"),
     Function("evaluate_with_options_and_resolver_detailed", "evaluate", "detailed", "given")}

Functions == ParseFunctions \cup DefaultEvaluateFunctions \cup LimitedEvaluateFunctions

LimitsOf(f) == IF f.limits = "default" THEN {DefaultOptions} ELSE OptionSets

Parser == INSTANCE ParsePipeline
    WITH OptionSets <- OptionSets \cup {DefaultOptions},
         pc <- parsePc, stack <- walk, result <- verdict

Eval == INSTANCE Evaluator
    WITH Expressions <- Trees, pc <- evalPc, stack <- calls, result <- outcome

\* What the components assume of the texts, the limits and the resolver.
ASSUME ParserAssumption == Parser!InputsAssumption /\ Parser!OptionsAssumption
ASSUME EvalAssumption ==
    /\ Eval!ExpressionsAssumption /\ Eval!ResolverErrorsAssumption
    /\ Eval!MaxExponentAssumption

\* A tree is a record, so it is rebuilt whole from its fields.
ASSUME TreesAssumption ==
    \A t \in Trees : "kids" \in DOMAIN t /\ t = [field \in DOMAIN t |-> t[field]]

-----------------------------------------------------------------------------
(* Errors.                                                                 *)

\* The variants of ResourceLimitError: those of validate_ast_limits last.
TreeLimitKinds == {"AstTooLarge", "ExpressionTooDeep", "TooManyFunctionArguments"}
LimitKinds == {"InputTooLarge", "TooManyTokens", "TooManyParserRecoveries"} \cup TreeLimitKinds

\* An error, with the variant of Error it is in ("none" for an EvalError).
Failure(variant, kind, actual, max, op) ==
    [ok |-> FALSE, variant |-> variant, kind |-> kind, actual |-> actual, max |-> max, op |-> op]

Success(v) == [ok |-> TRUE, value |-> v]
Nothing == Failure("none", "none", 0, 0, "none")

\* Error::from(EvalError).
FromEvalError(e) ==
    [e EXCEPT !.variant = IF e.kind \in LimitKinds THEN "ResourceLimit" ELSE "Eval"]

\* The detailed error of a parse; validate_ast_limits fails with an EvalError.
ParseFailure(r) ==
    IF r.kind \in TreeLimitKinds
    THEN FromEvalError(Failure("none", r.kind, r.actual, r.max, "none"))
    ELSE Failure(IF r.kind \in LimitKinds THEN "ResourceLimit" ELSE r.kind,
                 r.kind, r.actual, r.max, "none")

\* evaluate_parsed: the error of eval as it is.
PlainEvalError(o) == Failure("none", o.error, 0, 0, o.op)

\* Mutant: `?`, which converts with Error::from(EvalError).
ConvertedEvalError(o) == FromEvalError(PlainEvalError(o))

\* evaluate_parsed_detailed: map_err(Error::Eval).
WrappedEvalError(o) == [PlainEvalError(o) EXCEPT !.variant = "Eval"]

\* EvalError::from(Error).
LegacyError(e) ==
    [e EXCEPT !.variant = "none",
              !.kind = CASE e.variant = "Lexical" -> "LexicalError"
                         [] e.variant = "Parse" /\ e.actual > 0 -> "ParserRecovery"
                         [] e.variant = "Parse" /\ e.actual = 0 -> "ParserError"
                         [] OTHER -> e.kind]

InForm(e) == IF form = "legacy" THEN LegacyError(e) ELSE e

\* What eval's outcome is to the host.  The functions that parse too go
\* through the detailed one.
Result(o) ==
    IF o.ok THEN Success(o.value)
    ELSE IF function.does = "parse" /\ form = "legacy" THEN PlainEvalError(o)
    ELSE InForm(WrappedEvalError(o))

-----------------------------------------------------------------------------
(* The calls.                                                              *)

NoExpression == [size |-> 0, kind |-> <<>>, kids |-> <<>>, last |-> <<>>, depth |-> <<>>]

Init ==
    /\ function \in Functions
    /\ opts \in LimitsOf(function)
    /\ form = function.errors
    /\ stage = "parsing"
    /\ evaluations = 0
    /\ returned = Nothing
    /\ Parser!Init
    /\ evalPc = "idle" /\ expr = NoExpression /\ calls = <<>>
    /\ asked = 0 /\ answers = <<>> /\ outcome = Eval!Pending

Parsing ==
    /\ stage = "parsing"
    /\ Parser!Next
    /\ UNCHANGED <<hostVars, evalVars>>

\* Mutant: a tree the parser recovered is evaluated too.
AnyTreeParsed == input.parse.ok

Parsed == verdict = Parser!Ok

\* parse_with_options_detailed has returned: its error ends the call, its
\* tree is what will be evaluated.
ParseReturns ==
    /\ stage = "parsing"
    /\ parsePc = "done"
    /\ IF Parsed
       THEN stage' = "parsed" /\ expr' = input.parse.ast /\ UNCHANGED returned
       ELSE stage' = "returned" /\ returned' = InForm(ParseFailure(verdict)) /\ UNCHANGED expr
    /\ UNCHANGED <<function, form, evaluations, parseVars, evalPc, calls, asked, answers, outcome>>

\* Mutant: the operands of a binary operation are swapped.
OwnedKidsSwapped(t, n) ==
    IF t.kind[n] = "binary" THEN <<t.kids[n][2], t.kids[n][1]>> ELSE t.kids[n]

\* The children of node n in the copy of t, in their old order.
OwnedKids(t, n) == t.kids[n]

\* Expression::into_owned: the same tree, rebuilt node by node.
IntoOwned(t) == [t EXCEPT !.kids = [n \in Nodes(t) |-> OwnedKids(t, n)]]

TakeOwnership ==
    /\ stage = "parsed"
    /\ function.does = "parse"
    /\ expr' = IntoOwned(expr)
    /\ UNCHANGED <<hostVars, parseVars, evalPc, calls, asked, answers, outcome>>

MayEvaluate == stage = "parsed" /\ evaluations < MaxEvaluations

\* eval is called: at once, or by evaluate_parsed or evaluate_parsed_detailed,
\* whichever the host likes.
CallEval ==
    /\ MayEvaluate
    /\ IF function.does = "parse" THEN form' \in {"legacy", "detailed"} ELSE UNCHANGED form
    /\ stage' = "evaluating"
    /\ returned' = Nothing
    /\ evalPc' = "eval"
    /\ calls' = <<>>
    /\ asked' = 0
    /\ answers' = [n \in Nodes(expr) |-> Eval!Pending]
    /\ outcome' = Eval!Pending
    /\ UNCHANGED <<function, evaluations, parseVars, expr>>

Evaluating ==
    /\ stage = "evaluating"
    /\ Eval!Step
    /\ UNCHANGED <<hostVars, parseVars>>

ResolverReturns ==
    /\ stage = "evaluating"
    /\ Eval!ResolverReturns
    /\ UNCHANGED <<hostVars, parseVars>>

EvalReturns ==
    /\ stage = "evaluating"
    /\ evalPc = "done"
    /\ stage' = IF function.does = "parse" THEN "parsed" ELSE "returned"
    /\ evaluations' = evaluations + 1
    /\ returned' = Result(outcome)
    /\ UNCHANGED <<function, form, parseVars, evalVars>>

\* The library's own steps; the others are the host's.
Step == Parsing \/ ParseReturns \/ Evaluating \/ EvalReturns
        \/ (function.does = "evaluate" /\ CallEval)

HostStep == TakeOwnership \/ ResolverReturns \/ (function.does = "parse" /\ CallEval)

Next == Step \/ HostStep

Spec == Init /\ [][Next]_vars

-----------------------------------------------------------------------------
(***************************************************************************)
(* Properties.                                                             *)
(***************************************************************************)

\* What the library promises (ApiContract): only texts within every limit are
\* evaluated, each evaluation asks for the variables of the text in order and
\* once, and none is disturbed by the one before it.
Contract == INSTANCE ApiContract
    WITH OptionSets <- OptionSets \cup {DefaultOptions},
         phase <- IF stage = "returned" /\ evaluations = 0 THEN "rejected"
                  ELSE IF stage = "parsing" THEN "parsing" ELSE "accepted",
         answers <- IF evalPc = "idle" THEN [n \in Nodes(input.parse.ast) |-> Eval!Pending]
                    ELSE answers

PromiseKept == Contract!PromiseSpec

\* "according to the stage that failed": the variant of a detailed error names
\* it, Eval when the text had been accepted and only then, even when the
\* resolver itself returns an error that looks like one of parsing or of a
\* limit (evaluate_parsed_detailed wraps with Error::Eval, it does not convert).
VariantNamesTheStage ==
    (~returned.ok /\ returned.kind # "none" /\ form = "detailed") =>
        (returned.variant = "Eval" <=> Contract!Acceptable(input, opts))

\* A resolver's error reaches the host unchanged, through every function and
\* both forms; a value is what the tree of the text means under the answers,
\* also after into_owned and in later evaluations.
ReturnsTheMeaning ==
    (stage \in {"parsed", "returned"} /\ evaluations > 0) =>
        \E o \in Eval!Meaning(input.parse.ast, answers) :
            IF o.ok THEN returned = Success(o.value)
            ELSE ~returned.ok /\ returned.kind = o.error /\ returned.op = o.op

\* The limits checked on the text bound every evaluation of it: the recursion
\* of eval_with_resolver and the questions to the resolver.
LimitsBoundEvaluation ==
    /\ Len(calls) =< opts.max_depth + 1
    /\ asked =< opts.max_ast_nodes
=============================================================================
