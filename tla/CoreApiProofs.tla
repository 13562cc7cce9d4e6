--------------------------- MODULE CoreApiProofs ---------------------------
(***************************************************************************)
(* The public functions of crates/shunting-yard/src/lib.rs, proved for     *)
(* every set of texts, every limits, every resolver and any number of      *)
(* evaluations: what an accepted text returns is what its tree means, a    *)
(* detailed error names the stage that failed, the limits bound every      *)
(* evaluation, and the functions implement ApiContract.                    *)
(*                                                                         *)
(* The proof composes those of the two components.  CoreApi instantiates   *)
(* ParsePipeline and Evaluator, this module their proofs, with the same    *)
(* substitutions; the lemmas of the first section say that the two are the *)
(* same definitions, and the rest reasons with the components' inductive   *)
(* invariants: PP!Inv while the text is parsed, EP!MeansInv while its tree *)
(* is evaluated.  The invariant IInv says which of them holds at which     *)
(* stage, and what the host has been told.                                 *)
(***************************************************************************)
EXTENDS CoreApi, TLAPS

\* The proofs about the components are instantiated as the components are.
\* EvaluatorProofs has the variables of OpLaws too, which its theorems about
\* evaluation do not mention.
EP == INSTANCE EvaluatorProofs
    WITH Expressions <- Trees, pc <- evalPc, stack <- calls, result <- outcome,
         Calls <- {}, call <- <<>>, outcome <- <<>>

PP == INSTANCE ParsePipelineProofs
    WITH OptionSets <- OptionSets \cup {DefaultOptions},
         pc <- parsePc, stack <- walk, result <- verdict

-----------------------------------------------------------------------------
(* The components are the modules the proofs are about: their definitions, *)
(* expanded on both sides down to the operators of Integers, are the same. *)

\* The operators and functions compute the same results.
LEMMA SameOperators ==
  \A e, n, vals : Eval!Applied(e, n, vals) = EP!Applied(e, n, vals)
BY DEF Eval!Applied, EP!Applied, Eval!ApplyUnary, EP!ApplyUnary, Eval!ApplyBinary,
       EP!ApplyBinary, Eval!ApplyFunction, EP!ApplyFunction, Eval!ApplyUnaryMath,
       EP!ApplyUnaryMath, Eval!ApplyBitwiseNot, EP!ApplyBitwiseNot, Eval!ApplyLogicalNot,
       EP!ApplyLogicalNot, Eval!ComparisonOps, EP!ComparisonOps, Eval!ApplyComparison,
       EP!ApplyComparison, Eval!MathOps, EP!MathOps, Eval!ApplyMath, EP!ApplyMath,
       Eval!BitwiseOps, EP!BitwiseOps, Eval!ApplyBitwise, EP!ApplyBitwise, Eval!ShiftOps,
       EP!ShiftOps, Eval!ApplyShift, EP!ApplyShift, Eval!LogicalOps, EP!LogicalOps,
       Eval!ApplyLogical, EP!ApplyLogical, Eval!NaryFuncs, EP!NaryFuncs, Eval!ApplyNary,
       EP!ApplyNary, Eval!RoundingFuncs, EP!RoundingFuncs, Eval!ApplyRounding,
       EP!ApplyRounding, Eval!BinaryFuncs, EP!BinaryFuncs, Eval!ApplyBinaryFunction,
       EP!ApplyBinaryFunction, Eval!UnaryFuncs, EP!UnaryFuncs, Eval!ApplyUnaryFunction,
       EP!ApplyUnaryFunction, Eval!IsBool, EP!IsBool, Eval!Err, EP!Err, Eval!IsInt,
       EP!IsInt, Eval!Ok, EP!Ok, Eval!CheckedFloats, EP!CheckedFloats, Eval!CheckedNeg,
       EP!CheckedNeg, Eval!Negated, EP!Negated, Eval!Radians, EP!Radians, Eval!AsFloat,
       EP!AsFloat, Eval!Bool, EP!Bool, Eval!Int64, EP!Int64, Eval!BitNot, EP!BitNot,
       Eval!Comparable, EP!Comparable, Eval!Holds, EP!Holds, Eval!Orders, EP!Orders,
       Eval!MayApproximate, EP!MayApproximate, Eval!Arithmetic, EP!Arithmetic,
       Eval!BoolBits, EP!BoolBits, Eval!IntBits, EP!IntBits, Eval!CheckedShl, EP!CheckedShl,
       Eval!CheckedShr, EP!CheckedShr, Eval!FloatOrders, EP!FloatOrders, Eval!Args, EP!Args,
       Eval!IsFloat, EP!IsFloat, Eval!RoundInteger, EP!RoundInteger, Eval!RoundFloat,
       EP!RoundFloat, Eval!RoundFloatToInt, EP!RoundFloatToInt, Eval!ClassOf, EP!ClassOf,
       Eval!FloatFunction, EP!FloatFunction, Eval!CheckedFloat, EP!CheckedFloat,
       Eval!Checked, EP!Checked, Eval!IntsOfBits, EP!IntsOfBits, Eval!BitsOf, EP!BitsOf,
       Eval!BoolOrder, EP!BoolOrder, Eval!IntOrder, EP!IntOrder, Eval!IntOp, EP!IntOp,
       Eval!FloatOp, EP!FloatOp, Eval!BitAnd, EP!BitAnd, Eval!BitOr, EP!BitOr, Eval!BitXor,
       EP!BitXor, Eval!ShiftCountOk, EP!ShiftCountOk, Eval!ShiftedLeft, EP!ShiftedLeft,
       Eval!ShiftedRight, EP!ShiftedRight, Eval!RoundInt, EP!RoundInt, Eval!FloorInt,
       EP!FloorInt, Eval!CeilingInt, EP!CeilingInt, Eval!RoundedTo, EP!RoundedTo,
       Eval!FloatToInt, EP!FloatToInt, Eval!NumberClasses, EP!NumberClasses, Eval!Float,
       EP!Float, Eval!Ints, EP!Ints, Eval!Overflow, EP!Overflow, Eval!CheckedAdd,
       EP!CheckedAdd, Eval!CheckedSub, EP!CheckedSub, Eval!CheckedMul, EP!CheckedMul,
       Eval!CheckedDiv, EP!CheckedDiv, Eval!CheckedRem, EP!CheckedRem,
       Eval!CheckedRemEuclid, EP!CheckedRemEuclid, Eval!CheckedPower, EP!CheckedPower,
       Eval!FloatAdd, EP!FloatAdd, Eval!FloatMul, EP!FloatMul, Eval!FloatPow, EP!FloatPow,
       Eval!RoundMultiple, EP!RoundMultiple, Eval!FloorMultiple, EP!FloorMultiple,
       Eval!MinInt, EP!MinInt, Eval!MaxInt, EP!MaxInt,
       Eval!PowerOfTwo, EP!PowerOfTwo, Eval!TruncDiv, EP!TruncDiv,
       Eval!DivOverflows, EP!DivOverflows, Eval!TruncRem, EP!TruncRem, Eval!EuclidRem,
       EP!EuclidRem, Eval!Scaled, EP!Scaled, Eval!Magnitude, EP!Magnitude

\* eval_with_resolver takes the same steps.
LEMMA SameSteps ==
  /\ Eval!Step <=> EP!Step
  /\ Eval!ResolverReturns <=> EP!ResolverReturns
BY SameOperators
DEF Eval!Step, EP!Step, Eval!ResolverReturns, EP!ResolverReturns, Eval!EvalLiteral,
    EP!EvalLiteral, Eval!Descend, EP!Descend, Eval!CallResolver, EP!CallResolver,
    Eval!Apply, EP!Apply, Eval!Answers, EP!Answers, Eval!Top, EP!Top, Eval!Deliver,
    EP!Deliver, Eval!Resolved, EP!Resolved, Eval!Below, EP!Below, Eval!AtCall, EP!AtCall,
    Eval!Callee, EP!Callee, Eval!Literal, EP!Literal, Eval!Arity, EP!Arity, Eval!Ok, EP!Ok,
    Eval!AnyValues, EP!AnyValues, Eval!Err, EP!Err, Eval!ValidateValue, EP!ValidateValue,
    Eval!IsFloat, EP!IsFloat, Eval!CheckedFloat, EP!CheckedFloat, Eval!ValidValues,
    EP!ValidValues, Eval!Float, EP!Float, Eval!FloatClasses, EP!FloatClasses, Eval!Bools,
    EP!Bools, Eval!Integers64, EP!Integers64, Eval!Numbers, EP!Numbers, Eval!NumberClasses,
    EP!NumberClasses, Eval!Bool, EP!Bool, Eval!Int64, EP!Int64, Eval!Ints, EP!Ints,
    Eval!MinInt, EP!MinInt, Eval!MaxInt, EP!MaxInt,
       Eval!PowerOfTwo, EP!PowerOfTwo

\* A tree means the same.
LEMMA SameMeaning ==
  \A e, given : Eval!Meaning(e, given) = EP!Meaning(e, given)
BY DEF Eval!Meaning, EP!Meaning, Eval!Meanings, EP!Meanings, Eval!Nodes, EP!Nodes,
       Eval!Denotes, EP!Denotes, Eval!Arity, EP!Arity, Eval!Resolved, EP!Resolved,
       Eval!Literal, EP!Literal, Eval!FirstErrors, EP!FirstErrors, Eval!Applied, EP!Applied,
       Eval!ValueLists, EP!ValueLists, Eval!ValidateValue, EP!ValidateValue, Eval!IsFloat,
       EP!IsFloat, Eval!CheckedFloat, EP!CheckedFloat, Eval!Ok, EP!Ok, Eval!ValuesOf,
       EP!ValuesOf, Eval!ApplyUnary, EP!ApplyUnary, Eval!ApplyBinary, EP!ApplyBinary,
       Eval!ApplyFunction, EP!ApplyFunction, Eval!Err, EP!Err, Eval!Float, EP!Float,
       Eval!ApplyUnaryMath, EP!ApplyUnaryMath, Eval!ApplyBitwiseNot, EP!ApplyBitwiseNot,
       Eval!ApplyLogicalNot, EP!ApplyLogicalNot, Eval!ComparisonOps, EP!ComparisonOps,
       Eval!ApplyComparison, EP!ApplyComparison, Eval!MathOps, EP!MathOps, Eval!ApplyMath,
       EP!ApplyMath, Eval!BitwiseOps, EP!BitwiseOps, Eval!ApplyBitwise, EP!ApplyBitwise,
       Eval!ShiftOps, EP!ShiftOps, Eval!ApplyShift, EP!ApplyShift, Eval!LogicalOps,
       EP!LogicalOps, Eval!ApplyLogical, EP!ApplyLogical, Eval!NaryFuncs, EP!NaryFuncs,
       Eval!ApplyNary, EP!ApplyNary, Eval!RoundingFuncs, EP!RoundingFuncs,
       Eval!ApplyRounding, EP!ApplyRounding, Eval!BinaryFuncs, EP!BinaryFuncs,
       Eval!ApplyBinaryFunction, EP!ApplyBinaryFunction, Eval!UnaryFuncs, EP!UnaryFuncs,
       Eval!ApplyUnaryFunction, EP!ApplyUnaryFunction, Eval!IsBool, EP!IsBool, Eval!IsInt,
       EP!IsInt, Eval!CheckedFloats, EP!CheckedFloats, Eval!CheckedNeg, EP!CheckedNeg,
       Eval!Negated, EP!Negated, Eval!Radians, EP!Radians, Eval!AsFloat, EP!AsFloat,
       Eval!Bool, EP!Bool, Eval!Int64, EP!Int64, Eval!BitNot, EP!BitNot, Eval!Comparable,
       EP!Comparable, Eval!Holds, EP!Holds, Eval!Orders, EP!Orders, Eval!MayApproximate,
       EP!MayApproximate, Eval!Arithmetic, EP!Arithmetic, Eval!BoolBits, EP!BoolBits,
       Eval!IntBits, EP!IntBits, Eval!CheckedShl, EP!CheckedShl, Eval!CheckedShr,
       EP!CheckedShr, Eval!FloatOrders, EP!FloatOrders, Eval!Args, EP!Args,
       Eval!RoundInteger, EP!RoundInteger, Eval!RoundFloat, EP!RoundFloat,
       Eval!RoundFloatToInt, EP!RoundFloatToInt, Eval!ClassOf, EP!ClassOf,
       Eval!FloatFunction, EP!FloatFunction, Eval!Checked, EP!Checked, Eval!IntsOfBits,
       EP!IntsOfBits, Eval!BitsOf, EP!BitsOf, Eval!BoolOrder, EP!BoolOrder, Eval!IntOrder,
       EP!IntOrder, Eval!IntOp, EP!IntOp, Eval!FloatOp, EP!FloatOp, Eval!BitAnd, EP!BitAnd,
       Eval!BitOr, EP!BitOr, Eval!BitXor, EP!BitXor, Eval!ShiftCountOk, EP!ShiftCountOk,
       Eval!ShiftedLeft, EP!ShiftedLeft, Eval!ShiftedRight, EP!ShiftedRight, Eval!RoundInt,
       EP!RoundInt, Eval!FloorInt, EP!FloorInt, Eval!CeilingInt, EP!CeilingInt,
       Eval!RoundedTo, EP!RoundedTo, Eval!FloatToInt, EP!FloatToInt, Eval!NumberClasses,
       EP!NumberClasses, Eval!Ints, EP!Ints, Eval!Overflow, EP!Overflow, Eval!CheckedAdd,
       EP!CheckedAdd, Eval!CheckedSub, EP!CheckedSub, Eval!CheckedMul, EP!CheckedMul,
       Eval!CheckedDiv, EP!CheckedDiv, Eval!CheckedRem, EP!CheckedRem,
       Eval!CheckedRemEuclid, EP!CheckedRemEuclid, Eval!CheckedPower, EP!CheckedPower,
       Eval!FloatAdd, EP!FloatAdd, Eval!FloatMul, EP!FloatMul, Eval!FloatPow, EP!FloatPow,
       Eval!RoundMultiple, EP!RoundMultiple, Eval!FloorMultiple, EP!FloorMultiple,
       Eval!MinInt, EP!MinInt, Eval!MaxInt, EP!MaxInt,
       Eval!PowerOfTwo, EP!PowerOfTwo, Eval!TruncDiv, EP!TruncDiv,
       Eval!DivOverflows, EP!DivOverflows, Eval!TruncRem, EP!TruncRem, Eval!EuclidRem,
       EP!EuclidRem, Eval!Scaled, EP!Scaled, Eval!Magnitude, EP!Magnitude

\* A parse starts in the same states and takes the same steps.
LEMMA SameParser ==
  /\ Parser!Init <=> PP!Init
  /\ Parser!Next <=> PP!Next
BY DEF Parser!Init, PP!Init, Parser!Next, PP!Next, Parser!Pending, PP!Pending,
       Parser!CheckInput, PP!CheckInput, Parser!RejectTokens, PP!RejectTokens,
       Parser!RejectLexical, PP!RejectLexical, Parser!PushToken, PP!PushToken,
       Parser!EndOfTokens, PP!EndOfTokens, Parser!ParserFails, PP!ParserFails,
       Parser!ParserRecovered, PP!ParserRecovered, Parser!ParserSucceeds, PP!ParserSucceeds,
       Parser!RejectNodes, PP!RejectNodes, Parser!RejectDepth, PP!RejectDepth,
       Parser!RejectArgs, PP!RejectArgs, Parser!Enter, PP!Enter, Parser!Leave, PP!Leave,
       Parser!Return, PP!Return, Parser!LimitError, PP!LimitError, Parser!Goto, PP!Goto,
       Parser!AtToken, PP!AtToken, Parser!TokenLimitReached, PP!TokenLimitReached,
       Parser!LexicalErrorAt, PP!LexicalErrorAt, Parser!ParseDiagnostics,
       PP!ParseDiagnostics, Parser!TooManyRecoveries, PP!TooManyRecoveries, Parser!AtCall,
       PP!AtCall, Parser!TooManyNodes, PP!TooManyNodes, Parser!TooDeep, PP!TooDeep,
       Parser!CalleeDepth, PP!CalleeDepth, Parser!TooManyArgs, PP!TooManyArgs, Parser!tree,
       PP!tree, Parser!Callee, PP!Callee, Parser!Arity, PP!Arity, Parser!Advanced,
       PP!Advanced, Parser!Top, PP!Top, Parser!Ok, PP!Ok

\* What the proofs about the components assume is what CoreApi assumes.
LEMMA Assumptions ==
  /\ PP!InputsAssumption /\ PP!OptionsAssumption
  /\ EP!BitsAssumption /\ EP!MaxExponentAssumption
  /\ EP!ExpressionsAssumption /\ EP!ResolverErrorsAssumption /\ EP!CallsAssumption
BY ParserAssumption, EvalAssumption, BitsAssumption
DEF EP!CallsAssumption, Parser!InputsAssumption, PP!InputsAssumption, Parser!OptionsAssumption,
    PP!OptionsAssumption, Parser!TokenKinds, PP!TokenKinds, Parser!IsParserAnswer,
    PP!IsParserAnswer, Parser!IsOptions, PP!IsOptions, Parser!IsAst, PP!IsAst,
    Parser!IsCleanAst, PP!IsCleanAst, Parser!Nodes, PP!Nodes, Parser!Kinds, PP!Kinds,
    Parser!OwnsChildren, PP!OwnsChildren, Parser!KidsInPreorder, PP!KidsInPreorder,
    Parser!LeafKinds, PP!LeafKinds, Parser!Arity, PP!Arity,
    Eval!ExpressionsAssumption, EP!ExpressionsAssumption, Eval!ResolverErrorsAssumption,
    EP!ResolverErrorsAssumption, Eval!MaxExponentAssumption, EP!MaxExponentAssumption,
    Eval!BitsAssumption, EP!BitsAssumption, Eval!IsCleanAst, EP!IsCleanAst, Eval!Nodes,
    EP!Nodes, Eval!HasPayload, EP!HasPayload, Eval!IsAst, EP!IsAst, Eval!Bools, EP!Bools,
    Eval!Integers64, EP!Integers64, Eval!Numbers, EP!Numbers, Eval!UnaryOps, EP!UnaryOps,
    Eval!BinaryOps, EP!BinaryOps, Eval!Funcs, EP!Funcs, Eval!Kinds, EP!Kinds,
    Eval!OwnsChildren, EP!OwnsChildren, Eval!KidsInPreorder, EP!KidsInPreorder, Eval!Bool,
    EP!Bool, Eval!Int64, EP!Int64, Eval!Ints, EP!Ints, Eval!Float, EP!Float,
    Eval!NumberClasses, EP!NumberClasses, Eval!ComparisonOps, EP!ComparisonOps,
    Eval!MathOps, EP!MathOps, Eval!BitwiseOps, EP!BitwiseOps, Eval!ShiftOps, EP!ShiftOps,
    Eval!LogicalOps, EP!LogicalOps, Eval!NaryFuncs, EP!NaryFuncs, Eval!RoundingFuncs,
    EP!RoundingFuncs, Eval!BinaryFuncs, EP!BinaryFuncs, Eval!UnaryFuncs, EP!UnaryFuncs,
    Eval!LeafKinds, EP!LeafKinds, Eval!Arity, EP!Arity, Eval!MinInt, EP!MinInt, Eval!MaxInt,
    EP!MaxInt,
       Eval!PowerOfTwo, EP!PowerOfTwo

-----------------------------------------------------------------------------
(* The invariant.                                                          *)

\* The text, its limits, and what parsing made of them.
TextKnown ==
    /\ PP!Inv
    /\ stage # "parsing" => parsePc = "done"
    /\ stage \in {"parsed", "evaluating"} \/ evaluations > 0 => Parsed

\* Evaluation works on the tree of the text, from its first call on.
TreeEvaluated ==
    /\ evaluations \in Nat
    /\ stage \in {"parsing", "parsed", "evaluating", "returned"}
    /\ Parsed /\ stage # "parsing" => expr = input.parse.ast
    /\ evalPc = "idle" =>
         /\ evaluations = 0 /\ stage # "evaluating"
         /\ calls = <<>> /\ asked = 0 /\ outcome = Eval!Pending
    /\ evalPc # "idle" => EP!MeansInv /\ Parsed /\ stage # "parsing"
    /\ evaluations > 0 /\ stage # "evaluating" => evalPc = "done"
    /\ stage = "parsing" => evaluations = 0
    /\ stage = "parsed" /\ evaluations = 0 => evalPc = "idle"

\* What the host has got.
HostToldTruth ==
    /\ stage \in {"parsing", "evaluating"} => returned = Nothing
    /\ stage = "parsed" /\ evaluations = 0 => returned = Nothing
    /\ stage = "returned" /\ evaluations = 0 =>
         ~Parsed /\ evalPc = "idle" /\ returned = InForm(ParseFailure(verdict))
    /\ stage \in {"parsed", "returned"} /\ evaluations > 0 => returned = Result(outcome)

\* The inductive invariant.
IInv == TextKnown /\ TreeEvaluated /\ HostToldTruth

-----------------------------------------------------------------------------
(* What a parse and an evaluation leave.                                   *)

\* A parse accepts exactly the texts that have no errors and are within every
\* limit.
LEMMA AcceptedIffAcceptable ==
  ASSUME PP!Inv, parsePc = "done"
  PROVE  Parsed <=> Contract!Acceptable(input, opts)
<1> DEFINE t == input.parse.ast
<1>1. /\ input.parse.ok => PP!IsAst(t)
      /\ input.parse.recoveries \in Nat /\ input.parse.ok \in BOOLEAN
      /\ Len(input.tokens) \in Nat /\ DOMAIN input.tokens = 1 .. Len(input.tokens)
      /\ PP!IsOptions(opts)
  <2>1. PP!TypeOK
    BY DEF PP!Inv
  <2>2. input.tokens \in Seq(PP!TokenKinds)
    BY <2>1, Assumptions, PP!TreeFacts
  <2>3. Len(input.tokens) \in Nat /\ DOMAIN input.tokens = 1 .. Len(input.tokens)
    BY <2>2
  <2>4. QED
    BY <2>1, <2>3, Assumptions, PP!TreeFacts DEF PP!tree
<1>2. PP!VerdictIsFirstCause
  BY DEF PP!Inv
<1> USE DEF PP!CleanlyParsed, PP!ReachesParser, PP!CleanPrefix, PP!tree
<1>3. ASSUME Parsed
      PROVE  Contract!Acceptable(input, opts)
  <2>1. verdict.kind = "ok"
    BY <1>3 DEF Parsed, Parser!Ok
  <2>2. /\ PP!CleanlyParsed(input, opts)
        /\ \A n \in PP!Nodes(t) : PP!WithinLimits(t, opts, n)
    BY <1>2, <2>1
    DEF PP!VerdictIsFirstCause, PP!LimitError, PP!LexicalErrorAt, PP!ParseDiagnostics
  <2>3. PP!IsAst(t) /\ t.size \in Nat \ {0}
    BY <1>1, <2>2 DEF PP!IsAst
  <2>4. t.size \in PP!Nodes(t)
    BY <2>3 DEF PP!Nodes
  <2> HIDE DEF t
  <2>5. /\ t.size =< opts.max_ast_nodes
        /\ \A n \in Contract!Nodes(t) :
             /\ t.depth[n] =< opts.max_depth
             /\ t.kind[n] = "function" => Contract!Arity(t, n) =< opts.max_function_args
    BY <2>2, <2>4 DEF PP!WithinLimits, PP!Nodes, PP!Arity, Contract!Nodes, Contract!Arity
  <2>6. QED
    BY <1>1, <2>2, <2>5 DEF Contract!Acceptable, Contract!NoErrors, Contract!WithinLimits, t
<1>4. ASSUME Contract!Acceptable(input, opts)
      PROVE  Parsed
  <2>1. /\ \A i \in 1 .. Len(input.tokens) : input.tokens[i] = "token"
        /\ input.parse.ok /\ input.parse.recoveries = 0
        /\ input.bytes =< opts.max_input_bytes
        /\ Len(input.tokens) =< opts.max_tokens
        /\ t.size =< opts.max_ast_nodes
        /\ \A n \in 1 .. t.size :
             /\ t.depth[n] =< opts.max_depth
             /\ t.kind[n] = "function" => Len(t.kids[n]) =< opts.max_function_args
    BY <1>1, <1>4
    DEF Contract!Acceptable, Contract!NoErrors, Contract!WithinLimits, Contract!Nodes,
        Contract!Arity
  <2>2. PP!IsAst(t) /\ input.bytes \in Nat
    BY <1>1, <2>1, Assumptions, PP!TreeFacts DEF PP!Inv
  <2>3. t.size \in Nat /\ t.depth \in [1 .. t.size -> Nat]
        /\ \A n \in 1 .. t.size : Len(t.kids[n]) \in Nat
    <3>1. t.size \in Nat /\ t.depth \in [1 .. t.size -> Nat]
      BY <2>2 DEF PP!IsAst, PP!Nodes
    <3>2. \A n \in PP!Nodes(t) : PP!Arity(t, n) \in Nat
      BY <2>2, Assumptions, PP!NodeFacts
    <3>3. QED
      BY <3>1, <3>2 DEF PP!Nodes, PP!Arity
  <2>4. verdict = PP!Ok
    <3> DEFINE over == \E n \in 1 .. t.size :
                          \/ n = opts.max_ast_nodes + 1
                          \/ t.depth[n] = opts.max_depth + 1
                          \/ t.kind[n] = "function" /\ Len(t.kids[n]) > opts.max_function_args
    <3>1. verdict = PP!Ok \/ over
      <4> HIDE DEF over
      <4>1. /\ PP!FirstOver(t, opts, opts.max_ast_nodes + 1) => over
            /\ \A n \in PP!Nodes(t) : t.depth[n] = opts.max_depth + 1 => over
            /\ \A n \in PP!Nodes(t) :
                 t.kind[n] = "function" /\ PP!Arity(t, n) > opts.max_function_args => over
        BY DEF over, PP!FirstOver, PP!Nodes, PP!Arity
      <4>2. \A p \in 1 .. Len(input.tokens) : input.tokens[p] # "error"
        BY <2>1
      <4>3. /\ ~(input.bytes > opts.max_input_bytes)
            /\ ~(Len(input.tokens) > opts.max_tokens)
            /\ ~(input.parse.recoveries \in 1 .. opts.max_parser_recoveries)
            /\ ~(input.parse.recoveries > opts.max_parser_recoveries)
            /\ input.parse.ok
        BY <1>1, <2>1, <2>2 DEF PP!IsOptions
      <4>4. QED
        BY <1>1, <1>2, <4>1, <4>2, <4>3 DEF PP!VerdictIsFirstCause
    <3>2. ~over
      <4> SUFFICES ASSUME NEW n \in 1 .. t.size,
                          \/ n = opts.max_ast_nodes + 1
                          \/ t.depth[n] = opts.max_depth + 1
                          \/ t.kind[n] = "function" /\ Len(t.kids[n]) > opts.max_function_args
                   PROVE  FALSE
        OBVIOUS
      <4>1. /\ t.size =< opts.max_ast_nodes /\ t.depth[n] =< opts.max_depth
            /\ t.kind[n] = "function" => Len(t.kids[n]) =< opts.max_function_args
        BY <2>1
      <4>2. /\ t.size \in Nat /\ t.depth[n] \in Nat /\ Len(t.kids[n]) \in Nat
            /\ opts.max_ast_nodes \in Nat /\ opts.max_depth \in Nat
            /\ opts.max_function_args \in Nat
        BY <1>1, <2>3 DEF PP!IsOptions
      <4> HIDE DEF t
      <4>3. QED
        BY <4>1, <4>2
    <3>3. QED
      BY <3>1, <3>2
  <2>5. QED
    BY <2>4 DEF Parsed, Parser!Ok, PP!Ok
<1>5. QED
  BY <1>3, <1>4

\* The tree of an accepted text is one that can be evaluated.
LEMMA AcceptedTree ==
  ASSUME IInv, Parsed, parsePc = "done"
  PROVE  /\ input.parse.ast \in Trees
         /\ EP!IsAst(input.parse.ast)
<1>1. PP!Inv
  BY DEF IInv, TextKnown
<1>2. input \in Inputs
  BY <1>1 DEF PP!Inv, PP!TypeOK
<1>3. input.parse.ok /\ input.parse.recoveries = 0
  BY <1>1, AcceptedIffAcceptable DEF Contract!Acceptable, Contract!NoErrors
<1>4. input.parse.ast \in Trees
  BY <1>2, <1>3 DEF Trees
<1>5. QED
  BY <1>4, Assumptions DEF EP!ExpressionsAssumption, EP!IsCleanAst

\* into_owned gives the same tree.
LEMMA OwnedTree ==
  ASSUME NEW t \in Trees
  PROVE  IntoOwned(t) = t
<1>1. "kids" \in DOMAIN t /\ t = [field \in DOMAIN t |-> t[field]]
  BY TreesAssumption
<1>2. t.kids = [n \in Nodes(t) |-> t.kids[n]]
  BY Assumptions DEF EP!ExpressionsAssumption, EP!IsCleanAst, EP!IsAst, EP!Nodes, Nodes
<1>3. IntoOwned(t) = [t EXCEPT !.kids = t.kids]
  BY <1>2 DEF IntoOwned, OwnedKids
<1>4. QED
  BY <1>1, <1>3

-----------------------------------------------------------------------------
(* The steps.                                                              *)

\* What happens outside a component leaves its invariant.
LEMMA ParserIdle ==
  ASSUME PP!Inv, UNCHANGED parseVars
  PROVE  PP!Inv' /\ Parsed' = Parsed
<1>1. UNCHANGED PP!vars
  BY DEF PP!vars, parseVars
<1>2. PP!Inv'
  BY <1>1, Assumptions, PP!NextInv
<1>3. QED
  BY <1>2 DEF parseVars, Parsed, Parser!Ok

\* Nor does it disturb what an evaluation has left.
LEMMA EvalIdle ==
  ASSUME EP!MeansInv, UNCHANGED evalVars
  PROVE  EP!MeansInv'
<1>1. UNCHANGED EP!vars
  BY DEF EP!vars, evalVars
<1>2. QED
  BY <1>1, Assumptions, EP!NextMeans

\* An evaluation starts in a state of its invariant.
LEMMA EvalStarts == EP!Init => EP!MeansInv
BY Assumptions, EP!InitMeans

\* A step of the parse keeps the invariant, the text and the limits.
LEMMA ParsingKeeps ==
  ASSUME IInv, Parsing
  PROVE  IInv' /\ UNCHANGED <<input, opts>>
<1>1. /\ stage = "parsing" /\ evaluations = 0 /\ evalPc = "idle" /\ returned = Nothing
      /\ PP!Inv /\ PP!Next
      /\ UNCHANGED <<hostVars, evalVars>>
  BY SameParser DEF Parsing, IInv, TextKnown, TreeEvaluated, HostToldTruth
<1>2. PP!Inv'
  BY <1>1, Assumptions, PP!NextInv
<1>3. UNCHANGED <<input, opts>>
  BY <1>1
  DEF PP!Next, PP!CheckInput, PP!RejectTokens, PP!RejectLexical, PP!PushToken,
      PP!EndOfTokens, PP!ParserFails, PP!ParserRecovered, PP!ParserSucceeds, PP!RejectNodes,
      PP!RejectDepth, PP!RejectArgs, PP!Enter, PP!Leave, PP!Return, PP!Goto
<1>4. QED
  BY <1>1, <1>2, <1>3
  DEF IInv, TextKnown, TreeEvaluated, HostToldTruth, hostVars, evalVars, Nothing, Failure,
      Eval!Pending, Eval!Err

\* The return of the parse hands over the tree, or tells the host the error.
LEMMA ParseReturnsKeeps ==
  ASSUME IInv, ParseReturns
  PROVE  IInv'
<1>1. /\ stage = "parsing" /\ parsePc = "done" /\ evaluations = 0 /\ evalPc = "idle"
      /\ returned = Nothing /\ evaluations' = evaluations
      /\ UNCHANGED <<function, form, parseVars, evalPc, calls, asked, answers, outcome>>
      /\ calls = <<>> /\ asked = 0 /\ outcome = Eval!Pending
  BY DEF ParseReturns, IInv, TreeEvaluated, HostToldTruth
<1>2. PP!Inv' /\ Parsed' = Parsed /\ parsePc' = parsePc /\ input' = input /\ verdict' = verdict
  BY <1>1, ParserIdle DEF IInv, TextKnown, parseVars
<1>3. CASE Parsed
  <2>1. stage' = "parsed" /\ expr' = input.parse.ast /\ returned' = returned
    BY <1>3 DEF ParseReturns
  <2>2. QED
    BY <1>1, <1>2, <1>3, <2>1
    DEF IInv, TextKnown, TreeEvaluated, HostToldTruth, Nothing, Failure, Eval!Pending, Eval!Err
<1>4. CASE ~Parsed
  <2>1. stage' = "returned" /\ returned' = InForm(ParseFailure(verdict)) /\ expr' = expr
    BY <1>4 DEF ParseReturns
  <2>2. returned' = InForm(ParseFailure(verdict))'
    BY <1>1, <1>2, <2>1
    DEF InForm, LegacyError, ParseFailure, FromEvalError, Failure, TreeLimitKinds, LimitKinds
  <2>3. QED
    BY <1>1, <1>2, <1>4, <2>1, <2>2
    DEF IInv, TextKnown, TreeEvaluated, HostToldTruth, Eval!Pending, Eval!Err
<1>5. QED
  BY <1>3, <1>4

\* into_owned changes nothing, after an evaluation too.
LEMMA TakeOwnershipKeeps ==
  ASSUME IInv, TakeOwnership
  PROVE  IInv' /\ expr' = expr
<1>1. /\ stage = "parsed" /\ expr' = IntoOwned(expr) /\ Parsed /\ parsePc = "done"
      /\ expr = input.parse.ast
      /\ UNCHANGED <<hostVars, parseVars, evalPc, calls, asked, answers, outcome>>
  BY DEF TakeOwnership, IInv, TextKnown, TreeEvaluated
<1>2. expr' = expr
  BY <1>1, AcceptedTree, OwnedTree
<1>3. PP!Inv' /\ Parsed' = Parsed /\ (EP!MeansInv => EP!MeansInv')
  BY <1>1, <1>2, ParserIdle, EvalIdle DEF IInv, TextKnown, evalVars
<1>4. TextKnown'
  BY <1>1, <1>3 DEF IInv, TextKnown, hostVars, parseVars
<1>5. TreeEvaluated'
  BY <1>1, <1>2, <1>3
  DEF IInv, TreeEvaluated, hostVars, parseVars, Eval!Pending, Eval!Err
<1>6. HostToldTruth'
  <2>1. Result(outcome)' = Result(outcome)
    BY <1>1 DEF hostVars, Result, Success, PlainEvalError, InForm, LegacyError,
       WrappedEvalError, Failure
  <2>2. QED
    BY <1>1, <1>3, <2>1 DEF IInv, HostToldTruth, hostVars, Nothing, Failure
<1>7. QED
  BY <1>2, <1>4, <1>5, <1>6 DEF IInv

\* A call of eval starts on the tree of the text.
LEMMA CallEvalKeeps ==
  ASSUME IInv, CallEval
  PROVE  IInv' /\ Parsed /\ expr = input.parse.ast /\ EP!MeansInv'
<1>1. /\ stage = "parsed" /\ Parsed /\ parsePc = "done" /\ expr = input.parse.ast
      /\ UNCHANGED <<evaluations, parseVars, expr>>
      /\ stage' = "evaluating" /\ returned' = Nothing /\ evalPc' = "eval" /\ calls' = <<>>
      /\ asked' = 0 /\ outcome' = Eval!Pending
      /\ answers' = [n \in Nodes(expr) |-> Eval!Pending]
  BY DEF CallEval, MayEvaluate, IInv, TextKnown, TreeEvaluated
<1>2. EP!Init'
  BY <1>1, AcceptedTree DEF EP!Init, EP!Nodes, Nodes, EP!Pending, Eval!Pending, EP!Err, Eval!Err
<1>3. EP!MeansInv'
  <2>1. EP!Init' => EP!MeansInv'
    BY EvalStarts, PTL
  <2>2. QED
    BY <1>2, <2>1
<1>4. PP!Inv' /\ Parsed' = Parsed /\ parsePc' = parsePc /\ input' = input
  BY <1>1, ParserIdle DEF IInv, TextKnown, parseVars
<1>5. QED
  BY <1>1, <1>3, <1>4 DEF IInv, TextKnown, TreeEvaluated, HostToldTruth, Nothing, Failure

\* A step of eval, or the return of the resolver, is one the proofs about it cover.
LEMMA EvaluatingKeeps ==
  ASSUME IInv, Evaluating \/ ResolverReturns
  PROVE  /\ IInv' /\ EP!MeansInv /\ EP!Next
         /\ UNCHANGED <<hostVars, parseVars>> /\ expr' = expr
<1>1. /\ stage = "evaluating" /\ EP!Next
      /\ UNCHANGED <<hostVars, parseVars>>
  BY SameSteps DEF Evaluating, ResolverReturns, EP!Next
<1>2. EP!MeansInv /\ evalPc # "idle"
  BY <1>1 DEF IInv, TreeEvaluated
<1>3. EP!MeansInv'
  BY <1>1, <1>2, Assumptions, EP!NextMeans
<1>4. PP!Inv' /\ Parsed' = Parsed
  BY <1>1, ParserIdle DEF IInv, TextKnown
<1>5. expr' = expr /\ evalPc' # "idle"
  <2>1. expr' = expr
    BY <1>1 DEF EP!Next, EP!Step, EP!EvalLiteral, EP!Descend, EP!CallResolver, EP!Apply,
       EP!ResolverReturns
  <2>2. EP!TypeOK'
    BY <1>3 DEF EP!MeansInv, EP!IInv
  <2>3. QED
    BY <2>1, <2>2 DEF EP!TypeOK
<1>6. QED
  BY <1>1, <1>2, <1>3, <1>4, <1>5
  DEF IInv, TextKnown, TreeEvaluated, HostToldTruth, hostVars, parseVars, Nothing, Failure

\* The return of eval tells the host its outcome.
LEMMA EvalReturnsKeeps ==
  ASSUME IInv, EvalReturns
  PROVE  IInv' /\ Parsed /\ parsePc = "done"
<1>1. /\ stage = "evaluating" /\ evalPc = "done" /\ Parsed /\ parsePc = "done"
      /\ expr = input.parse.ast /\ EP!MeansInv /\ evaluations \in Nat
      /\ evaluations' = evaluations + 1
      /\ stage' \in {"parsed", "returned"}
      /\ returned' = Result(outcome)
      /\ UNCHANGED <<function, form, parseVars, evalVars>>
  BY DEF EvalReturns, IInv, TextKnown, TreeEvaluated
<1>2. PP!Inv' /\ Parsed' = Parsed /\ EP!MeansInv'
  BY <1>1, ParserIdle, EvalIdle DEF IInv, TextKnown
<1>3. Result(outcome)' = Result(outcome)
  BY <1>1 DEF evalVars, Result, Success, PlainEvalError, InForm, LegacyError,
     WrappedEvalError, Failure
<1>4. evaluations' \in Nat /\ evaluations' > 0 /\ evaluations' # 0
  BY <1>1
<1>5. TextKnown'
  BY <1>1, <1>2 DEF TextKnown, parseVars
<1>6. TreeEvaluated'
  BY <1>1, <1>2, <1>4 DEF TreeEvaluated, parseVars, evalVars
<1>7. HostToldTruth'
  BY <1>1, <1>3, <1>4 DEF HostToldTruth
<1>8. QED
  BY <1>1, <1>5, <1>6, <1>7 DEF IInv

\* Steps of others leave the invariant.
LEMMA StutterKeeps ==
  ASSUME IInv, UNCHANGED vars
  PROVE  IInv'
<1>1. /\ UNCHANGED <<function, form, stage, evaluations, returned>>
      /\ UNCHANGED parseVars /\ UNCHANGED evalVars
  BY DEF vars, hostVars
<1>2. PP!Inv' /\ Parsed' = Parsed /\ (EP!MeansInv => EP!MeansInv')
  BY <1>1, ParserIdle, EvalIdle DEF IInv, TextKnown
<1>3. /\ Result(outcome)' = Result(outcome)
      /\ InForm(ParseFailure(verdict))' = InForm(ParseFailure(verdict))
  BY <1>1 DEF parseVars, evalVars, Result, Success, PlainEvalError, InForm, LegacyError,
     WrappedEvalError, Failure, ParseFailure, FromEvalError, TreeLimitKinds, LimitKinds
<1>4. TextKnown'
  BY <1>1, <1>2 DEF IInv, TextKnown, parseVars
<1>5. TreeEvaluated'
  BY <1>1, <1>2 DEF IInv, TreeEvaluated, parseVars, evalVars, Eval!Pending, Eval!Err
<1>6. HostToldTruth'
  BY <1>1, <1>2, <1>3 DEF IInv, HostToldTruth, evalVars, Nothing, Failure
<1>7. QED
  BY <1>4, <1>5, <1>6 DEF IInv

\* The invariant holds before the parse.
LEMMA InitInv ==
  ASSUME Init
  PROVE  IInv
<1>1. PP!Inv
  BY SameParser, Assumptions, PP!InitInv DEF Init
<1>2. QED
  BY <1>1 DEF Init, IInv, TextKnown, TreeEvaluated, HostToldTruth

\* Every step keeps it.
LEMMA NextKeeps ==
  ASSUME IInv, [Next]_vars
  PROVE  IInv'
<1>1. CASE Parsing
  BY <1>1, ParsingKeeps
<1>2. CASE ParseReturns
  BY <1>2, ParseReturnsKeeps
<1>3. CASE TakeOwnership
  BY <1>3, TakeOwnershipKeeps
<1>4. CASE CallEval
  BY <1>4, CallEvalKeeps
<1>5. CASE Evaluating \/ ResolverReturns
  BY <1>5, EvaluatingKeeps
<1>6. CASE EvalReturns
  BY <1>6, EvalReturnsKeeps
<1>7. CASE UNCHANGED vars
  BY <1>7, StutterKeeps
<1>8. QED
  BY <1>1, <1>2, <1>3, <1>4, <1>5, <1>6, <1>7 DEF Next, Step, HostStep

-----------------------------------------------------------------------------
(* The theorems.                                                           *)

\* The invariant holds in every call of the library, in any sequence of them.
THEOREM Invariance == Spec => []IInv
<1>1. Init => IInv
  BY InitInv
<1>2. IInv /\ [Next]_vars => IInv'
  BY NextKeeps
<1>3. QED
  BY <1>1, <1>2, PTL DEF Spec

\* A detailed error is an Eval error when the text had been accepted, and only
\* then, whatever error the resolver makes up.
THEOREM NamesTheStage == Spec => []VariantNamesTheStage
<1>1. IInv => VariantNamesTheStage
  <2> SUFFICES ASSUME IInv, ~returned.ok, returned.kind # "none", form = "detailed"
               PROVE  returned.variant = "Eval" <=> Contract!Acceptable(input, opts)
    BY DEF VariantNamesTheStage
  <2>1. stage \in {"parsed", "returned"} /\ parsePc = "done"
    BY DEF IInv, TextKnown, TreeEvaluated, HostToldTruth, Nothing, Failure
  <2>2. Parsed <=> Contract!Acceptable(input, opts)
    BY <2>1, AcceptedIffAcceptable DEF IInv, TextKnown
  <2>3. CASE evaluations = 0
    <3>1. ~Parsed /\ returned = InForm(ParseFailure(verdict))
      BY <2>1, <2>3 DEF IInv, HostToldTruth, Nothing, Failure
    <3>2. returned = ParseFailure(verdict)
      BY <3>1 DEF InForm
    <3>3. returned.variant # "Eval"
      <4>1. verdict.kind \in {"pending", "ok", "InputTooLarge", "TooManyTokens", "Lexical",
                              "Parse", "TooManyParserRecoveries", "AstTooLarge",
                              "ExpressionTooDeep", "TooManyFunctionArguments"}
        BY DEF IInv, TextKnown, PP!Inv, PP!TypeOK
      <4>2. QED
        BY <3>2, <4>1 DEF ParseFailure, FromEvalError, Failure, TreeLimitKinds, LimitKinds
    <3>4. QED
      BY <2>2, <3>1, <3>3
  <2>4. CASE evaluations # 0
    <3>1. evaluations > 0 /\ Parsed /\ returned = Result(outcome)
      BY <2>1, <2>4 DEF IInv, TextKnown, TreeEvaluated, HostToldTruth
    <3>2. returned.variant = "Eval"
      BY <3>1 DEF Result, Success, InForm, WrappedEvalError, PlainEvalError, Failure
    <3>3. QED
      BY <2>2, <3>1, <3>2
  <2>5. QED
    BY <2>3, <2>4
<1>2. QED
  BY <1>1, Invariance, PTL

\* The host gets what the tree of its text means under the answers given,
\* through every function, in both forms, and in every later evaluation.
THEOREM ReturnsMeaning == Spec => []ReturnsTheMeaning
<1>1. IInv => ReturnsTheMeaning
  <2> SUFFICES ASSUME IInv, stage \in {"parsed", "returned"}, evaluations > 0
               PROVE  \E o \in Eval!Meaning(input.parse.ast, answers) :
                        IF o.ok THEN returned = Success(o.value)
                        ELSE ~returned.ok /\ returned.kind = o.error /\ returned.op = o.op
    BY DEF ReturnsTheMeaning
  <2>1. /\ evalPc = "done" /\ EP!MeansInv /\ expr = input.parse.ast
        /\ returned = Result(outcome)
    BY DEF IInv, TextKnown, TreeEvaluated, HostToldTruth
  <2>2. outcome \in Eval!Meaning(input.parse.ast, answers)
    BY <2>1, SameMeaning DEF EP!MeansInv, EP!MeansSoFar, EP!ResultIsMeaning
  <2>3. IF outcome.ok THEN returned = Success(outcome.value)
        ELSE ~returned.ok /\ returned.kind = outcome.error /\ returned.op = outcome.op
    BY <2>1
    DEF Result, Success, InForm, WrappedEvalError, PlainEvalError, LegacyError, Failure
  <2>4. QED
    BY <2>2, <2>3
<1>2. QED
  BY <1>1, Invariance, PTL

\* The limits on the text bound the recursion of eval_with_resolver and the
\* questions to the resolver, for every text and all limits.
THEOREM LimitsBound == Spec => []LimitsBoundEvaluation
<1>1. IInv => LimitsBoundEvaluation
  <2> SUFFICES ASSUME IInv
               PROVE  /\ Len(calls) =< opts.max_depth + 1
                      /\ asked =< opts.max_ast_nodes
    BY DEF LimitsBoundEvaluation
  <2>1. /\ opts.max_depth \in Nat /\ opts.max_ast_nodes \in Nat
    <3>1. PP!TypeOK
      BY DEF IInv, TextKnown, PP!Inv
    <3>2. PP!IsOptions(opts)
      BY <3>1, Assumptions, PP!TreeFacts
    <3>3. QED
      BY <3>2 DEF PP!IsOptions
  <2>2. CASE evalPc = "idle"
    <3>1. Len(calls) = 0 /\ asked = 0
      BY <2>2 DEF IInv, TreeEvaluated
    <3>2. QED
      BY <2>1, <3>1
  <2>3. CASE evalPc # "idle"
    <3> DEFINE t == input.parse.ast
    <3>1. EP!IInv /\ Parsed /\ parsePc = "done" /\ expr = t
      BY <2>3 DEF IInv, TextKnown, TreeEvaluated, EP!MeansInv
    <3>2. Contract!Acceptable(input, opts)
      BY <3>1, AcceptedIffAcceptable DEF IInv, TextKnown
    <3>3. EP!IsAst(t)
      BY <3>1, AcceptedTree
    <3>4. t.size \in Nat /\ t.size =< opts.max_ast_nodes
          /\ \A n \in EP!Nodes(t) : t.depth[n] =< opts.max_depth
      BY <3>2, <3>3
      DEF Contract!Acceptable, Contract!WithinLimits, Contract!Nodes, EP!Nodes, EP!IsAst
    <3> HIDE DEF t
    <3>5. asked =< opts.max_ast_nodes
      <4>1. asked \in 0 .. t.size
        BY <3>1 DEF EP!IInv, EP!TypeOK
      <4>2. QED
        BY <2>1, <3>4, <4>1
    <3>6. Len(calls) \in Nat /\ EP!IsPath(t, calls)
      BY <3>1 DEF EP!IInv, EP!TypeOK, EP!Recursion
    <3>7. CASE Len(calls) > 0
      <4>1. Len(calls) \in 1 .. Len(calls)
        BY <3>6, <3>7
      <4>2. /\ calls[Len(calls)].node \in EP!Nodes(t)
            /\ t.depth[calls[Len(calls)].node] = Len(calls) - 1
        BY <3>6, <4>1 DEF EP!IsPath
      <4>3. QED
        BY <2>1, <3>4, <3>5, <3>6, <4>2
    <3>8. QED
      BY <2>1, <3>5, <3>6, <3>7
  <2>4. QED
    BY <2>2, <2>3
<1>2. QED
  BY <1>1, Invariance, PTL

-----------------------------------------------------------------------------
(* The refinement of ApiContract.                                          *)

\* What the resolver is asked and what comes of its answers: the steps of the
\* promise are those of the contract eval_with_resolver keeps.
LEMMA SamePromise ==
  ASSUME expr = input.parse.ast, expr' = input.parse.ast, UNCHANGED input,
         evalPc # "idle", evalPc' # "idle"
  PROVE  EP!Contract!ContractNext => Contract!Evaluation!ContractNext
<1> DEFINE given == IF evalPc = "idle"
                    THEN [n \in Nodes(input.parse.ast) |-> Eval!Pending] ELSE answers
<1>1. given = answers /\ given' = answers'
  OBVIOUS
<1>2. EP!Contract!Ask => Contract!Evaluation!Ask
  BY <1>1
  DEF EP!Contract!Ask, Contract!Evaluation!Ask, EP!Contract!Waiting,
       Contract!Evaluation!Waiting, EP!Contract!Pending, Contract!Evaluation!Pending,
       EP!Contract!Occurrences, Contract!Evaluation!Occurrences, EP!Contract!Err,
       Contract!Evaluation!Err, EP!Contract!Nodes, Contract!Evaluation!Nodes
<1>3. EP!Contract!Answered => Contract!Evaluation!Answered
  BY <1>1
  DEF EP!Contract!Answered, Contract!Evaluation!Answered, EP!Contract!Waiting,
       Contract!Evaluation!Waiting, EP!Contract!Answers, Contract!Evaluation!Answers,
       EP!Contract!Admitted, Contract!Evaluation!Admitted, EP!Contract!Pending,
       Contract!Evaluation!Pending, EP!Contract!AllAsked, Contract!Evaluation!AllAsked,
       EP!Contract!Values64, Contract!Evaluation!Values64, EP!Contract!Ok,
       Contract!Evaluation!Ok, EP!Contract!AnyValues, Contract!Evaluation!AnyValues,
       EP!Contract!Err, Contract!Evaluation!Err, EP!Contract!ValidateValue,
       Contract!Evaluation!ValidateValue, EP!Contract!Occurrences,
       Contract!Evaluation!Occurrences, EP!Contract!ValidValues,
       Contract!Evaluation!ValidValues, EP!Contract!Float, Contract!Evaluation!Float,
       EP!Contract!FloatClasses, Contract!Evaluation!FloatClasses, EP!Contract!CheckedFloat,
       Contract!Evaluation!CheckedFloat, EP!Contract!Nodes, Contract!Evaluation!Nodes,
       EP!Contract!Bools, Contract!Evaluation!Bools, EP!Contract!Integers64,
       Contract!Evaluation!Integers64, EP!Contract!Numbers, Contract!Evaluation!Numbers,
       EP!Contract!NumberClasses, Contract!Evaluation!NumberClasses, EP!Contract!Bool,
       Contract!Evaluation!Bool, EP!Contract!Int64, Contract!Evaluation!Int64,
       EP!Contract!Ints, Contract!Evaluation!Ints, EP!Contract!MinInt,
       Contract!Evaluation!MinInt, EP!Contract!MaxInt, Contract!Evaluation!MaxInt,
       EP!Contract!PowerOfTwo, Contract!Evaluation!PowerOfTwo
<1>4. EP!Contract!Conclude => Contract!Evaluation!Conclude
  BY <1>1
  DEF EP!Contract!Conclude, Contract!Evaluation!Conclude, EP!Contract!Waiting,
       Contract!Evaluation!Waiting, EP!Contract!Pending, Contract!Evaluation!Pending,
       EP!Contract!OwnErrors, Contract!Evaluation!OwnErrors, EP!Contract!AllAsked,
       Contract!Evaluation!AllAsked, EP!Contract!Values64, Contract!Evaluation!Values64,
       EP!Contract!Err, Contract!Evaluation!Err, EP!Contract!EvalErrors,
       Contract!Evaluation!EvalErrors, EP!Contract!Overflow, Contract!Evaluation!Overflow,
       EP!Contract!ArithmeticOps, Contract!Evaluation!ArithmeticOps,
       EP!Contract!Occurrences, Contract!Evaluation!Occurrences, EP!Contract!Ok,
       Contract!Evaluation!Ok, EP!Contract!ValidValues, Contract!Evaluation!ValidValues,
       EP!Contract!Nodes, Contract!Evaluation!Nodes, EP!Contract!Bools,
       Contract!Evaluation!Bools, EP!Contract!Integers64, Contract!Evaluation!Integers64,
       EP!Contract!Numbers, Contract!Evaluation!Numbers, EP!Contract!Bool,
       Contract!Evaluation!Bool, EP!Contract!Int64, Contract!Evaluation!Int64,
       EP!Contract!Ints, Contract!Evaluation!Ints, EP!Contract!Float,
       Contract!Evaluation!Float, EP!Contract!NumberClasses,
       Contract!Evaluation!NumberClasses, EP!Contract!MinInt, Contract!Evaluation!MinInt,
       EP!Contract!MaxInt, Contract!Evaluation!MaxInt,
       EP!Contract!PowerOfTwo, Contract!Evaluation!PowerOfTwo
<1>5. QED
  BY <1>2, <1>3, <1>4 DEF EP!Contract!ContractNext, Contract!Evaluation!ContractNext

\* How far the host is, as ApiContract sees it.
Phase == IF stage = "returned" /\ evaluations = 0 THEN "rejected"
         ELSE IF stage = "parsing" THEN "parsing" ELSE "accepted"

\* The answers of the evaluation in progress, or of one that has not begun.
Given == IF evalPc = "idle" THEN [n \in Nodes(input.parse.ast) |-> Eval!Pending] ELSE answers

\* The steps of the promise, written with Phase and Given.
LEMMA PromiseSteps ==
  /\ Contract!PromiseInit <=>
       /\ input \in Inputs /\ opts \in OptionSets \cup {DefaultOptions}
       /\ Phase = "parsing" /\ asked = 0 /\ outcome = Eval!Pending
       /\ Given = [n \in Nodes(input.parse.ast) |-> Eval!Pending]
  /\ Contract!Decide <=>
       /\ Phase = "parsing"
       /\ Phase' = IF Contract!Acceptable(input, opts) THEN "accepted" ELSE "rejected"
       /\ UNCHANGED <<input, opts, asked, Given, outcome>>
  /\ Contract!Evaluate <=>
       /\ Phase = "accepted"
       /\ Contract!Evaluation!ContractNext
       /\ UNCHANGED <<input, opts, Phase>>
  /\ Contract!Again <=>
       /\ Phase = "accepted" /\ outcome # Eval!Pending
       /\ asked' = 0 /\ outcome' = Eval!Pending
       /\ Given' = [n \in Nodes(input.parse.ast) |-> Eval!Pending]
       /\ UNCHANGED <<input, opts, Phase>>
  /\ UNCHANGED <<input, opts, Phase, asked, Given, outcome>> <=>
       UNCHANGED Contract!promiseVars
BY DEF Phase, Given, Contract!PromiseInit, Contract!Decide, Contract!Evaluate, Contract!Again,
       Contract!promiseVars, Contract!Unanswered, Contract!Err, Eval!Err, Eval!Pending,
       Contract!Nodes, Nodes

\* A parse decides when it returns, and shows nothing before.
LEMMA ParsingDecides ==
  ASSUME IInv, Parsing \/ ParseReturns
  PROVE  Contract!PromiseNext \/ UNCHANGED Contract!promiseVars
<1>1. CASE Parsing
  <2>1. UNCHANGED <<input, opts, hostVars, evalVars>>
    BY <1>1, ParsingKeeps DEF Parsing
  <2>2. UNCHANGED <<input, opts, Phase, asked, Given, outcome>>
    BY <2>1 DEF hostVars, evalVars, Phase, Given, Nodes, Eval!Pending, Eval!Err
  <2>3. QED
    BY <2>2, PromiseSteps
<1>2. CASE ParseReturns
  <2>1. /\ stage = "parsing" /\ parsePc = "done" /\ evaluations = 0 /\ evaluations' = 0
        /\ stage' = IF Parsed THEN "parsed" ELSE "returned"
        /\ UNCHANGED <<input, opts, evalPc, asked, answers, outcome>>
    BY <1>2 DEF ParseReturns, IInv, TreeEvaluated, parseVars
  <2>2. UNCHANGED <<input, opts, asked, Given, outcome>>
    BY <2>1 DEF Given, Nodes, Eval!Pending, Eval!Err
  <2>3. Phase = "parsing" /\ Phase' = IF Parsed THEN "accepted" ELSE "rejected"
    BY <2>1 DEF Phase
  <2>4. Parsed <=> Contract!Acceptable(input, opts)
    BY <2>1, AcceptedIffAcceptable DEF IInv, TextKnown
  <2>5. Contract!Decide
    BY <2>2, <2>3, <2>4, PromiseSteps
  <2>6. QED
    BY <2>5 DEF Contract!PromiseNext
<1>3. QED
  BY <1>1, <1>2

\* A call of eval starts from nothing, and only once the last one has returned.
LEMMA CallStartsAgain ==
  ASSUME IInv, CallEval
  PROVE  Contract!PromiseNext \/ UNCHANGED Contract!promiseVars
<1>1. /\ stage = "parsed" /\ expr = input.parse.ast /\ evalPc' = "eval"
      /\ stage' = "evaluating" /\ asked' = 0 /\ outcome' = Eval!Pending
      /\ answers' = [n \in Nodes(expr) |-> Eval!Pending]
      /\ UNCHANGED <<input, opts, evaluations>>
  BY CallEvalKeeps DEF CallEval, MayEvaluate, parseVars
<1>2. Phase = "accepted" /\ Phase' = "accepted"
  BY <1>1 DEF Phase
<1>3. Given' = [n \in Nodes(input.parse.ast) |-> Eval!Pending]
  BY <1>1 DEF Given
<1>4. CASE evalPc = "idle"
  <2>1. asked = 0 /\ outcome = Eval!Pending
    BY <1>4 DEF IInv, TreeEvaluated
  <2>2. UNCHANGED <<input, opts, Phase, asked, Given, outcome>>
    BY <1>1, <1>2, <1>3, <1>4, <2>1 DEF Given
  <2>3. QED
    BY <2>2, PromiseSteps
<1>5. CASE evalPc # "idle"
  <2>1. evalPc = "done" /\ EP!ResultIsMeaning
    BY <1>1, <1>5 DEF IInv, TreeEvaluated, EP!MeansInv, EP!MeansSoFar
  <2>2. outcome # Eval!Pending
    BY <2>1 DEF EP!ResultIsMeaning, EP!Pending, Eval!Pending, EP!Err, Eval!Err
  <2>3. Contract!Again
    BY <1>1, <1>2, <1>3, <2>2, PromiseSteps
  <2>4. QED
    BY <2>3 DEF Contract!PromiseNext
<1>6. QED
  BY <1>4, <1>5

\* The steps of eval are those its own contract allows.
LEMMA EvaluatingEvaluates ==
  ASSUME IInv, Evaluating \/ ResolverReturns
  PROVE  Contract!PromiseNext \/ UNCHANGED Contract!promiseVars
<1>1. /\ EP!MeansInv /\ EP!Next /\ IInv'
      /\ UNCHANGED <<function, form, stage, evaluations, returned, parseVars>>
      /\ expr' = expr /\ stage = "evaluating"
  BY EvaluatingKeeps DEF hostVars, Evaluating, ResolverReturns
<1>2. EP!Contract!ContractNext \/ UNCHANGED EP!Contract!contractVars
  BY <1>1, Assumptions, EP!NextKept DEF EP!MeansInv
<1>3. /\ expr = input.parse.ast /\ expr' = input.parse.ast /\ UNCHANGED <<input, opts>>
      /\ evalPc # "idle" /\ evalPc' # "idle"
  BY <1>1 DEF IInv, TextKnown, TreeEvaluated, parseVars
<1>4. Phase = "accepted" /\ UNCHANGED Phase
  BY <1>1 DEF Phase
<1>5. CASE EP!Contract!ContractNext
  BY <1>3, <1>4, <1>5, SamePromise, PromiseSteps DEF Contract!PromiseNext
<1>6. CASE UNCHANGED EP!Contract!contractVars
  <2>1. UNCHANGED <<asked, answers, outcome>>
    BY <1>6 DEF EP!Contract!contractVars
  <2>2. UNCHANGED <<input, opts, Phase, asked, Given, outcome>>
    BY <1>3, <1>4, <2>1 DEF Given
  <2>3. QED
    BY <2>2, PromiseSteps
<1>7. QED
  BY <1>2, <1>5, <1>6

\* Taking ownership, and the return of eval, are no step of the promise.
LEMMA HandOverShowsNothing ==
  ASSUME IInv, TakeOwnership \/ EvalReturns \/ UNCHANGED vars
  PROVE  UNCHANGED Contract!promiseVars
<1>1. /\ UNCHANGED <<input, opts, asked, answers, outcome, evalPc>>
      /\ Phase' = Phase
  <2>1. CASE TakeOwnership \/ UNCHANGED vars
    BY <2>1 DEF TakeOwnership, vars, hostVars, parseVars, evalVars, Phase
  <2>2. CASE EvalReturns
    BY <2>2 DEF EvalReturns, IInv, TreeEvaluated, parseVars, evalVars, Phase
  <2>3. QED
    BY <2>1, <2>2
<1>2. UNCHANGED Given
  BY <1>1 DEF Given, Nodes, Eval!Pending, Eval!Err
<1>3. QED
  BY <1>1, <1>2, PromiseSteps

\* A host that evaluates one text often, or once, gets what ApiContract
\* promises: whatever a function does to the text, the tree and the resolver is
\* a step of the promise, or shows nothing of it.
THEOREM KeepsPromise == Spec => PromiseKept
<1>1. Init => Contract!PromiseInit
  <2> SUFFICES ASSUME Init
               PROVE  Contract!PromiseInit
    OBVIOUS
  <2>1. input \in Inputs /\ opts \in OptionSets \cup {DefaultOptions}
    BY InitInv DEF IInv, TextKnown, PP!Inv, PP!TypeOK
  <2>2. QED
    BY <2>1, PromiseSteps DEF Init, Phase, Given
<1>2. IInv /\ [Next]_vars => [Contract!PromiseNext]_(Contract!promiseVars)
  BY ParsingDecides, CallStartsAgain, EvaluatingEvaluates, HandOverShowsNothing
  DEF Next, Step, HostStep
<1>3. QED
  BY <1>1, <1>2, Invariance, PTL DEF Spec, PromiseKept, Contract!PromiseSpec
=============================================================================
