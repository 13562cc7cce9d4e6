------------------------------- MODULE Values -------------------------------
(***************************************************************************)
(* Runtime values and the results of evaluating (Value, EvalError and      *)
(* ArithmeticOp in crates/shunting-yard/src/lib.rs).                       *)
(*                                                                         *)
(* Integers are two's complement integers of Bits bits (64 in the code).   *)
(* A float is abstracted to what evaluation tells apart: its FpCategory    *)
(* and, when it is an ordinary number, its sign.                           *)
(***************************************************************************)
EXTENDS Integers, Sequences

CONSTANT Bits        \* i64::BITS

ASSUME BitsAssumption == Bits \in Nat \ {0}

PowerOfTwo[n \in Nat] == IF n = 0 THEN 1 ELSE 2 * PowerOfTwo[n - 1]

MaxInt == PowerOfTwo[Bits - 1] - 1
MinInt == -PowerOfTwo[Bits - 1]
Ints == MinInt .. MaxInt

NumberClasses == {"zero", "neg", "pos"}
FloatClasses == NumberClasses \cup {"nan", "inf", "subnormal"}

\* Value::Bool, Value::Integer, Value::Float.
Bool(b) == [type |-> "bool", bool |-> b]
Int64(i) == [type |-> "integer", int |-> i]
Float(c) == [type |-> "float", class |-> c]

Bools == {Bool(b) : b \in BOOLEAN}
Integers64 == {Int64(i) : i \in Ints}
Numbers == {Float(c) : c \in NumberClasses}

\* What evaluation may compute with, and what a resolver may hand back.
ValidValues == Bools \cup Integers64 \cup Numbers
AnyValues == ValidValues \cup {Float(c) : c \in FloatClasses}

\* Ok(value), Err(kind), and Err(IntegerOverflow { op }).
Ok(v) == [ok |-> TRUE, value |-> v]
Err(kind) == [ok |-> FALSE, error |-> kind, op |-> "none"]
Overflow(op) == [ok |-> FALSE, error |-> "IntegerOverflow", op |-> op]

ArithmeticOps == {"Negate", "Add", "Subtract", "Multiply", "Divide", "Modulo", "Remainder",
                  "Power", "FloatToInteger", "Round", "Floor", "Ceiling"}

\* The errors evaluation itself makes.
EvalErrors == {"InvalidArity", "InvalidExpression", "InvalidType", "DivisionByZero",
               "InvalidShiftCount", "InvalidExponent", "InvalidPrecision",
               "NonFiniteFloat", "SubnormalFloat"}

Outcomes ==
    {Ok(v) : v \in ValidValues}
    \cup {Err(e) : e \in EvalErrors}
    \cup {Overflow(op) : op \in ArithmeticOps}

\* checked_f64, checked_float: only zero and normal numbers pass.
CheckedFloat(c) ==
    IF c \in {"nan", "inf"} THEN Err("NonFiniteFloat")
    ELSE IF c = "subnormal" THEN Err("SubnormalFloat")
    ELSE Ok(Float(c))

\* Mutant: a result that is not checked.
UncheckedFloats(classes) == {Ok(Float(c)) : c \in classes}

\* checked_float applied to a result that may fall in any of these classes.
CheckedFloats(classes) == {CheckedFloat(c) : c \in classes}

\* validate_value: the value a resolver returned is checked before use.
ValidateValue(v) == IF v.type = "float" THEN CheckedFloat(v.class) ELSE Ok(v)
=============================================================================
