------------------------------ MODULE EvalOps ------------------------------
(***************************************************************************)
(* apply_unary, apply_binary and apply_function of                         *)
(* crates/shunting-yard/src/eval.rs: what an operator or a built-in does    *)
(* with operands that are already evaluated.                               *)
(*                                                                         *)
(* An operator here is the set of the outcomes a call can have.  It is a   *)
(* single outcome unless a float is involved: a float is only a class      *)
(* (Values), and the set holds every class the f64 operation can produce,  *)
(* each passed through the check the code makes on it.                     *)
(*                                                                         *)
(* The parser builds unary operations from UnaryOps and binary ones from   *)
(* BinaryOps only (calc.lalrpop); the defensive arms for other opcodes are *)
(* left out.                                                               *)
(***************************************************************************)
EXTENDS IntArith

UnaryOps == {"Degrees", "Plus", "Minus", "BitwiseNot", "LogicalNot"}

ComparisonOps == {"Equals", "NotEquals", "LessThan", "GreaterThan", "GreaterThanEquals",
                  "LessThanEquals", "ApproximatelyEquals"}
MathOps == {"Power", "Multiply", "Divide", "Plus", "Minus", "Modulo"}
BitwiseOps == {"BitwiseAnd", "BitwiseOr", "BitwiseXor"}
ShiftOps == {"BitshiftLeft", "BitshiftRight"}
LogicalOps == {"LogicalAnd", "LogicalOr"}
BinaryOps == ComparisonOps \cup MathOps \cup BitwiseOps \cup ShiftOps \cup LogicalOps

NaryFuncs == {"Min", "Max"}
RoundingFuncs == {"Round", "Floor", "Ceiling"}
BinaryFuncs == {"Power", "Modulo", "Remainder"}
UnaryFuncs == {"Cos", "Sin", "Tan", "ACos", "ASin", "ATan", "Abs", "Ln", "Log", "Exp"}
Funcs == NaryFuncs \cup RoundingFuncs \cup BinaryFuncs \cup UnaryFuncs

IsBool(v) == v.type = "bool"
IsInt(v) == v.type = "integer"
IsFloat(v) == v.type = "float"

-----------------------------------------------------------------------------
(* f64, by class.                                                          *)

\* `i as f64`: rounds a large integer, never to zero or to another sign.
ClassOf(i) == IF i = 0 THEN "zero" ELSE IF i < 0 THEN "neg" ELSE "pos"

\* The class of a number once promoted to f64.
AsFloat(v) == IF IsInt(v) THEN ClassOf(v.int) ELSE v.class

Negated(c) == CASE c = "neg" -> "pos" [] c = "pos" -> "neg" [] OTHER -> c

\* A magnitude that may overflow or underflow.
Scaled(sign) == {sign, "inf", "subnormal", "zero"}

FloatAdd(a, b) ==
    IF a = "zero" THEN {b}
    ELSE IF b = "zero" THEN {a}
    ELSE IF a = b THEN {a, "inf"}
    ELSE {"zero", "neg", "pos", "subnormal"}

FloatMul(a, b) ==
    IF "zero" \in {a, b} THEN {"zero"} ELSE Scaled(IF a = b THEN "pos" ELSE "neg")

\* powf: a negative base needs an integral exponent, 0 to a negative power
\* is infinite.
FloatPow(a, b) ==
    IF b = "zero" THEN {"pos"}
    ELSE CASE a = "zero" -> {IF b = "pos" THEN "zero" ELSE "inf"}
           [] a = "pos" -> Scaled("pos")
           [] a = "neg" -> Scaled("pos") \cup Scaled("neg") \cup {"nan"}

\* The float result of an arithmetic operation; the divisor is not zero.
FloatOp(op, a, b) ==
    CASE op = "Plus" -> FloatAdd(a, b)
      [] op = "Minus" -> FloatAdd(a, Negated(b))
      [] op \in {"Multiply", "Divide"} -> FloatMul(a, b)
      [] op = "Modulo" -> IF a = "zero" THEN {"zero"} ELSE {a, "zero", "subnormal"}
      [] op = "Remainder" -> IF a = "zero" THEN {"zero"} ELSE {"pos", "zero", "subnormal"}
      [] op = "Power" -> FloatPow(a, b)

\* to_radians.
Radians(c) == IF c = "zero" THEN {"zero"} ELSE {c, "subnormal"}

\* The one-argument functions, on a valid float.
FloatFunction(func, c) ==
    CASE func = "Abs" -> IF c = "zero" THEN {"zero"} ELSE {"pos"}
      [] func = "Cos" -> IF c = "zero" THEN {"pos"} ELSE NumberClasses
      [] func \in {"Sin", "Tan"} ->
             IF c = "zero" THEN {"zero"} ELSE NumberClasses \cup {"subnormal"}
      [] func = "ASin" -> IF c = "zero" THEN {"zero"} ELSE {c, "subnormal", "nan"}
      [] func = "ATan" -> IF c = "zero" THEN {"zero"} ELSE {c, "subnormal"}
      [] func = "ACos" -> IF c = "zero" THEN {"pos"} ELSE {"pos", "zero", "nan"}
      [] func \in {"Ln", "Log"} ->
             CASE c = "zero" -> {"inf"} [] c = "neg" -> {"nan"} [] OTHER -> NumberClasses
      [] func = "Exp" ->
             CASE c = "zero" -> {"pos"} [] c = "pos" -> {"pos", "inf"}
               [] OTHER -> {"pos", "zero", "subnormal"}

\* (value / precision) rounded, times precision: the quotient can overflow or
\* underflow to zero; a multiple of the precision is never subnormal.
RoundedTo(func, c) ==
    IF c = "zero" THEN {"zero"}
    ELSE {c, "zero", "inf"} \cup (IF func = "Round" THEN {"nan"} ELSE {})

-----------------------------------------------------------------------------
(* Unary operations.                                                       *)

ApplyUnaryMath(op, v) ==
    IF IsBool(v) THEN {Err("InvalidType")}
    ELSE CASE op = "Plus" -> IF IsInt(v) THEN {Ok(v)} ELSE CheckedFloats({v.class})
           [] op = "Minus" -> IF IsInt(v) THEN {CheckedNeg(v.int)}
                              ELSE CheckedFloats({Negated(v.class)})
           [] op = "Degrees" -> CheckedFloats(Radians(AsFloat(v)))

ApplyBitwiseNot(v) ==
    CASE IsBool(v) -> {Ok(Bool(~v.bool))}
      [] IsInt(v) -> {Ok(Int64(i)) : i \in BitNot(v.int)}
      [] OTHER -> {Err("InvalidType")}

ApplyLogicalNot(v) == IF IsBool(v) THEN {Ok(Bool(~v.bool))} ELSE {Err("InvalidType")}

ApplyUnary(op, v) ==
    CASE op \in {"Degrees", "Plus", "Minus"} -> ApplyUnaryMath(op, v)
      [] op = "BitwiseNot" -> ApplyBitwiseNot(v)
      [] op = "LogicalNot" -> ApplyLogicalNot(v)

-----------------------------------------------------------------------------
(* Binary operations.                                                      *)

\* How two numbers of these classes can compare: before, same, after.
FloatOrders(a, b) ==
    LET rank(c) == CASE c = "neg" -> 0 [] c = "zero" -> 1 [] OTHER -> 2
    IN  CASE rank(a) < rank(b) -> {"before"}
          [] rank(a) > rank(b) -> {"after"}
          [] rank(a) = rank(b) -> IF a = "zero" THEN {"same"} ELSE {"before", "same", "after"}

IntOrder(l, r) == IF l < r THEN "before" ELSE IF l = r THEN "same" ELSE "after"

\* false sorts before true.
BoolOrder(l, r) == IF l = r THEN "same" ELSE IF r THEN "before" ELSE "after"

\* convert_binary_values promotes a mixed pair of numbers to floats; any other
\* mixed pair does not compare.
Comparable(l, r) == IsBool(l) <=> IsBool(r)

Orders(l, r) ==
    CASE IsBool(l) /\ IsBool(r) -> {BoolOrder(l.bool, r.bool)}
      [] IsInt(l) /\ IsInt(r) -> {IntOrder(l.int, r.int)}
      [] OTHER -> FloatOrders(AsFloat(l), AsFloat(r))

Holds(op, order) ==
    CASE op \in {"Equals", "ApproximatelyEquals"} -> order = "same"
      [] op = "NotEquals" -> order # "same"
      [] op = "LessThan" -> order = "before"
      [] op = "LessThanEquals" -> order # "after"
      [] op = "GreaterThan" -> order = "after"
      [] op = "GreaterThanEquals" -> order # "before"

\* Floats that differ may still be approximately equal.
MayApproximate(op, l, r, order) ==
    /\ op = "ApproximatelyEquals"
    /\ IsFloat(l) \/ IsFloat(r)
    /\ order # "same"

ApplyComparison(op, l, r) ==
    IF ~Comparable(l, r) THEN {Err("InvalidType")}
    ELSE {Ok(Bool(Holds(op, order))) : order \in Orders(l, r)}
         \cup {Ok(Bool(TRUE)) : order \in {o \in Orders(l, r) : MayApproximate(op, l, r, o)}}

IntOp(op, l, r) ==
    CASE op = "Plus" -> CheckedAdd(l, r)
      [] op = "Minus" -> CheckedSub(l, r)
      [] op = "Multiply" -> CheckedMul(l, r)
      [] op = "Divide" -> CheckedDiv(l, r)
      [] op = "Modulo" -> CheckedRem(l, r)
      [] op = "Remainder" -> CheckedRemEuclid(l, r)
      [] op = "Power" -> CheckedPower(l, r)

\* Arithmetic on two numbers: integers stay integers, a mixed pair is
\* promoted, and a zero divisor is refused before dividing.
Arithmetic(op, l, r) ==
    IF IsInt(l) /\ IsInt(r) THEN {IntOp(op, l.int, r.int)}
    ELSE IF op \in {"Divide", "Modulo", "Remainder"} /\ AsFloat(r) = "zero"
    THEN {Err("DivisionByZero")}
    ELSE CheckedFloats(FloatOp(op, AsFloat(l), AsFloat(r)))

ApplyMath(op, l, r) ==
    IF IsBool(l) \/ IsBool(r) THEN {Err("InvalidType")} ELSE Arithmetic(op, l, r)

BoolBits(op, l, r) ==
    CASE op = "BitwiseAnd" -> l /\ r [] op = "BitwiseOr" -> l \/ r [] op = "BitwiseXor" -> l # r

IntBits(op, l, r) ==
    CASE op = "BitwiseAnd" -> BitAnd(l, r)
      [] op = "BitwiseOr" -> BitOr(l, r)
      [] op = "BitwiseXor" -> BitXor(l, r)

ApplyBitwise(op, l, r) ==
    CASE IsBool(l) /\ IsBool(r) -> {Ok(Bool(BoolBits(op, l.bool, r.bool)))}
      [] IsInt(l) /\ IsInt(r) -> {Ok(Int64(i)) : i \in IntBits(op, l.int, r.int)}
      [] OTHER -> {Err("InvalidType")}

ApplyShift(op, l, r) ==
    IF ~(IsInt(l) /\ IsInt(r)) THEN {Err("InvalidType")}
    ELSE IF op = "BitshiftLeft" THEN CheckedShl(l.int, r.int) ELSE CheckedShr(l.int, r.int)

ApplyLogical(op, l, r) ==
    IF ~(IsBool(l) /\ IsBool(r)) THEN {Err("InvalidType")}
    ELSE {Ok(Bool(IF op = "LogicalAnd" THEN l.bool /\ r.bool ELSE l.bool \/ r.bool))}

ApplyBinary(op, l, r) ==
    CASE op \in ComparisonOps -> ApplyComparison(op, l, r)
      [] op \in MathOps -> ApplyMath(op, l, r)
      [] op \in BitwiseOps -> ApplyBitwise(op, l, r)
      [] op \in ShiftOps -> ApplyShift(op, l, r)
      [] op \in LogicalOps -> ApplyLogical(op, l, r)

-----------------------------------------------------------------------------
(* Built-in functions.                                                     *)

Args(vals) == {vals[i] : i \in DOMAIN vals}

\* pare_vector_n_nary rejects booleans before anything else and promotes all
\* arguments as soon as one is a float.
ApplyNary(func, vals) ==
    LET beats(x, y) == IF func = "Min" THEN x =< y ELSE x >= y
        ranked(c, d) == FloatOrders(c, d) \cap {IF func = "Min" THEN "before" ELSE "after", "same"}
                        # {}
        classes == {AsFloat(v) : v \in Args(vals)}
    IN  IF \E v \in Args(vals) : IsBool(v) THEN {Err("InvalidType")}
        ELSE IF vals = <<>> THEN {Err("InvalidArity")}
        ELSE IF \E v \in Args(vals) : IsFloat(v)
        THEN CheckedFloats({c \in classes : \A d \in classes : ranked(c, d)})
        ELSE {Ok(v) : v \in {x \in Args(vals) : \A y \in Args(vals) : beats(x.int, y.int)}}

RoundInteger(func, value, precision) ==
    CASE func = "Round" -> RoundInt(value, precision)
      [] func = "Floor" -> FloorInt(value, precision)
      [] func = "Ceiling" -> CeilingInt(value, precision)

RoundFloat(func, c, precision) ==
    IF precision \in {"zero", "neg"} THEN {Err("InvalidPrecision")}
    ELSE CheckedFloats(RoundedTo(func, c))

\* checked_f64_to_i64: truncates a float of the i64 range, which is half open.
FloatToInt(o) ==
    IF ~o.ok THEN {o}
    ELSE {Ok(Int64(i)) : i \in {x \in Ints : ClassOf(x) = o.value.class}}
         \cup (IF o.value.class = "zero" THEN {} ELSE {Overflow("FloatToInteger")})

RoundFloatToInt(func, c, precision) ==
    UNION {FloatToInt(o) : o \in RoundFloat(func, c, precision)}

\* An integer precision gives an integer, a float one or none keeps the type.
ApplyRounding(func, vals) ==
    LET v == vals[1]
        p == vals[2]
    IN  IF Len(vals) \notin {1, 2} THEN {Err("InvalidArity")}
        ELSE IF \E x \in Args(vals) : IsBool(x) THEN {Err("InvalidType")}
        ELSE IF Len(vals) = 1
        THEN IF IsInt(v) THEN {RoundInteger(func, v.int, 1)} ELSE RoundFloat(func, v.class, "pos")
        ELSE CASE IsFloat(p) -> RoundFloat(func, AsFloat(v), p.class)
               [] IsInt(p) -> IF IsInt(v) THEN {RoundInteger(func, v.int, p.int)}
                              ELSE RoundFloatToInt(func, v.class, ClassOf(p.int))

ApplyBinaryFunction(func, vals) ==
    IF Len(vals) # 2 THEN {Err("InvalidArity")} ELSE ApplyMath(func, vals[1], vals[2])

ApplyUnaryFunction(func, vals) ==
    IF Len(vals) # 1 THEN {Err("InvalidArity")}
    ELSE IF IsBool(vals[1]) THEN {Err("InvalidType")}
    ELSE CheckedFloats(FloatFunction(func, AsFloat(vals[1])))

ApplyFunction(func, vals) ==
    CASE func \in NaryFuncs -> ApplyNary(func, vals)
      [] func \in RoundingFuncs -> ApplyRounding(func, vals)
      [] func \in BinaryFuncs -> ApplyBinaryFunction(func, vals)
      [] func \in UnaryFuncs -> ApplyUnaryFunction(func, vals)
=============================================================================
