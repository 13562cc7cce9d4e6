------------------------------ MODULE FloatInt ------------------------------
(***************************************************************************)
(* Where integers and floats meet in crates/shunting-yard/src/eval.rs:     *)
(* comparing them, min and max of both, floor and ceiling of a float to a  *)
(* multiple of an integer, and the way back to i64.  EvalOps, which covers *)
(* every operator, knows a float by its class only; here a float has its   *)
(* value, in a binary format of the same shape as f64 and a few bits:      *)
(* like it, it is too short for the integers, and holds both powers of two *)
(* at the ends of their range.                                             *)
(*                                                                         *)
(* A number is a whole count of units (at), of which One make 1.  The      *)
(* calls are made with numbers far from the ends of the float range:       *)
(* nothing overflows to infinity or is subnormal here (EvalOps has those). *)
(***************************************************************************)
EXTENDS Integers, Sequences, FiniteSets, FiniteSetsExt

CONSTANTS
    Bits,           \* i64::BITS
    Significant,    \* f64::MANTISSA_DIGITS
    One,            \* units in 1
    MaxOrder,       \* bound: how many bits of units the largest floats lack
    Calls           \* [op, args]: the calls that are made

PowerOfTwo[n \in Nat] == IF n = 0 THEN 1 ELSE 2 * PowerOfTwo[n - 1]

\* The floats are below.
Limit == PowerOfTwo[Significant + MaxOrder]

\* A unit is a fraction of 1, and every integer is far from the end of the
\* floats.
ASSUME FormatAssumption ==
    /\ Bits \in Nat /\ Significant \in Nat \ {0} /\ Significant < Bits - 1
    /\ MaxOrder \in Nat /\ \E k \in 0 .. MaxOrder : One = PowerOfTwo[k]
    /\ PowerOfTwo[Bits - 1] * One < Limit

-----------------------------------------------------------------------------
(* The numbers.                                                            *)

MaxInt == PowerOfTwo[Bits - 1] - 1
MinInt == -PowerOfTwo[Bits - 1]
Ints == MinInt .. MaxInt

Abs(x) == IF x < 0 THEN -x ELSE x

\* Value::Integer, Value::Float.
Int64(i) == [type |-> "integer", at |-> i * One]
Float(x) == [type |-> "float", at |-> x]
Bool(b) == [type |-> "bool", bool |-> b]

\* Of the multiples of 2^e units, the floats of n / d have the least e at
\* which they take no more than Significant bits.
Order(n, d) == CHOOSE e \in 0 .. MaxOrder :
                 /\ Abs(n) < PowerOfTwo[Significant + e] * d
                 /\ e = 0 \/ PowerOfTwo[Significant + e - 1] * d =< Abs(n)
Step(n, d) == PowerOfTwo[Order(n, d)]

\* The f64 nearest to n / d units, of two the one with the even significand.
Nearest(n, d) ==
    LET step == Step(n, d)
        low == n \div (d * step)
        rest == 2 * (n - low * d * step)
        up == rest > d * step \/ (rest = d * step /\ low % 2 = 1)
    IN  (IF up THEN low + 1 ELSE low) * step

IsF64(x) == Nearest(x, 1) = x

\* `i as f64`.
AsF64(i) == Nearest(i * One, 1)

\* `x as i64`: toward zero, and the nearest i64 of what is out of range.
AsI64(x) ==
    LET whole == IF x < 0 THEN -((-x) \div One) ELSE x \div One
    IN  IF whole < MinInt THEN MinInt ELSE IF whole > MaxInt THEN MaxInt ELSE whole

Ok(v) == [ok |-> TRUE, value |-> v]
Err(kind) == [ok |-> FALSE, error |-> kind]

-----------------------------------------------------------------------------
(* Comparisons, min and max.                                               *)

IsFloat(v) == v.type = "float"
Promoted(v) == IF IsFloat(v) THEN v ELSE Float(AsF64(v.at \div One))

\* Mutant: the float gives way.
ConvertedToIntegers(l, r) ==
    IF IsFloat(l) = IsFloat(r) THEN <<l, r>>
    ELSE <<Int64(AsI64(l.at)), Int64(AsI64(r.at))>>

ConvertBinaryValues(l, r) ==
    IF IsFloat(l) = IsFloat(r) THEN <<l, r>> ELSE <<Promoted(l), Promoted(r)>>

ComparisonOps == {"Equals", "NotEquals", "LessThan", "LessThanEquals",
                  "GreaterThan", "GreaterThanEquals"}

Holds(op, x, y) ==
    CASE op = "Equals" -> x = y
      [] op = "NotEquals" -> x # y
      [] op = "LessThan" -> x < y
      [] op = "LessThanEquals" -> x =< y
      [] op = "GreaterThan" -> x > y
      [] op = "GreaterThanEquals" -> x >= y

ApplyBinaryComparison(op, l, r) ==
    LET pair == ConvertBinaryValues(l, r)
    IN  Ok(Bool(Holds(op, pair[1].at, pair[2].at)))

\* Mutant: the first one decides.
PromotedByTheFirst(vals) ==
    IF vals # <<>> /\ IsFloat(vals[1]) THEN [i \in DOMAIN vals |-> Promoted(vals[i])] ELSE vals

PareVectorNary(vals) ==
    IF \E i \in DOMAIN vals : IsFloat(vals[i])
    THEN [i \in DOMAIN vals |-> Promoted(vals[i])]
    ELSE vals

\* The extreme of a list of one type: apply_min_function, apply_max_function.
Extreme(func, vals) ==
    CHOOSE v \in {vals[i] : i \in DOMAIN vals} :
        \A i \in DOMAIN vals : IF func = "Min" THEN v.at =< vals[i].at ELSE v.at >= vals[i].at

ApplyNnaryFunction(func, vals) ==
    IF vals = <<>> THEN Err("InvalidArity") ELSE Ok(Extreme(func, PareVectorNary(vals)))

-----------------------------------------------------------------------------
(* Floor and ceiling of a float to a multiple of an integer.               *)

\* Mutant: a closed range, up to the float of i64::MAX.
InRangeClosed(x) == AsF64(MinInt) =< x /\ x =< AsF64(MaxInt)

\* I64_MIN_AS_F64 .. I64_MAX_EXCLUSIVE_AS_F64
InRange(x) == AsF64(MinInt) =< x /\ x < -AsF64(MinInt)

CheckedF64ToI64(x) ==
    IF InRange(x) THEN Ok(Int64(AsI64(x))) ELSE Err("IntegerOverflow")

\* f64::floor and f64::ceil, and what is cut off first: a whole number.
FloorOf(x) == x \div One
CeilOf(x) == -((-x) \div One)

\* value / precision
Quotient(value, precision) == Nearest(value * One, precision)

\* The whole number times the precision; the numbers are f64s.
Product(whole, precision) == Nearest(whole * precision, 1)

FloorF64(value, precision) ==
    IF precision =< 0 THEN Err("InvalidPrecision")
    ELSE Ok(Float(Product(FloorOf(Quotient(value, precision)), precision)))

CeilingF64(value, precision) ==
    IF precision =< 0 THEN Err("InvalidPrecision")
    ELSE Ok(Float(Product(CeilOf(Quotient(value, precision)), precision)))

AndThenToI64(r) == IF r.ok THEN CheckedF64ToI64(r.value.at) ELSE r

\* floor_f64_to_i64, ceiling_f64_to_i64.
ApplyRoundingFunction(func, value, precision) ==
    AndThenToI64(IF func = "Floor" THEN FloorF64(value, AsF64(precision))
                                   ELSE CeilingF64(value, AsF64(precision)))

-----------------------------------------------------------------------------
(* One call is a behaviour.                                                *)

VARIABLES
    call,
    outcome     \* the result, Pending before it

vars == <<call, outcome>>

Pending == Err("pending")

\* An operand is an i64 or an f64, with the type's name.
IsNumber(v) ==
    /\ v = [type |-> v.type, at |-> v.at] /\ v.at \in Int
    /\ \/ v.type = "integer" /\ v.at % One = 0 /\ v.at \div One \in Ints
       \/ v.type = "float" /\ Abs(v.at) < Limit /\ IsF64(v.at)

IsCall(c) ==
    /\ Len(c.args) \in Nat /\ c.args = [i \in 1 .. Len(c.args) |-> c.args[i]]
    /\ \A i \in 1 .. Len(c.args) : IsNumber(c.args[i])
    /\ \/ c.op \in ComparisonOps /\ Len(c.args) = 2
       \/ c.op \in {"Min", "Max"}
       \/ /\ c.op \in {"Floor", "Ceiling"} /\ Len(c.args) = 2
          /\ IsFloat(c.args[1]) /\ ~IsFloat(c.args[2])

ASSUME CallsAssumption == \A c \in Calls : IsCall(c)

CallOutcome(c) ==
    CASE c.op \in ComparisonOps -> ApplyBinaryComparison(c.op, c.args[1], c.args[2])
      [] c.op \in {"Min", "Max"} -> ApplyNnaryFunction(c.op, c.args)
      [] c.op \in {"Floor", "Ceiling"} ->
             ApplyRoundingFunction(c.op, c.args[1].at, c.args[2].at \div One)

Init == call \in Calls /\ outcome = Pending

Return ==
    /\ outcome = Pending
    /\ outcome' = CallOutcome(call)
    /\ UNCHANGED call

Spec == Init /\ [][Return]_vars

-----------------------------------------------------------------------------
(* Properties.  They speak of the numbers themselves, not of their floats.  *)

Gave(ops) == call.op \in ops /\ outcome # Pending /\ outcome.ok
Arg(i) == call.args[i].at

\* The numbers that both types hold, all of them and not only some.
ExactBound == PowerOfTwo[Significant] * One

Shared(v) == v.type = "float" \/ Abs(v.at) =< ExactBound

\* An integer too long for a float compares as another one, and then equality
\* may be reported of what differs; but no comparison of an integer with a
\* float reports them in the opposite order, and of the integers a float can
\* hold every comparison is right.  (convert_binary_values.)
OrderIsNeverReversed ==
    Gave(ComparisonOps) =>
        LET said == outcome.value.bool
        IN  /\ Arg(1) < Arg(2) /\ call.op = "GreaterThan" => ~said
            /\ Arg(1) > Arg(2) /\ call.op = "LessThan" => ~said
            /\ Arg(1) < Arg(2) /\ call.op = "LessThanEquals" => said
            /\ Arg(1) > Arg(2) /\ call.op = "GreaterThanEquals" => said
            /\ Shared(call.args[1]) /\ Shared(call.args[2]) =>
                  said = Holds(call.op, Arg(1), Arg(2))

\* min and max give the true extreme of their arguments, or, when a float is
\* among them, a float than which none is nearer to it, wherever in the list
\* the float is.  (pare_vector_n_nary.)
ExtremeIsNearest ==
    Gave({"Min", "Max"}) =>
        LET ats == {Arg(i) : i \in DOMAIN call.args}
            extreme == IF call.op = "Min" THEN Min(ats) ELSE Max(ats)
            given == outcome.value.at
        IN  IF \E i \in DOMAIN call.args : IsFloat(call.args[i])
            THEN /\ IsFloat(outcome.value)
                 /\ \A x \in extreme - Abs(given - extreme) .. extreme + Abs(given - extreme) :
                        IsF64(x) => Abs(x - extreme) >= Abs(given - extreme)
            ELSE given = extreme

\* The multiples of the precision around the value.
Below(value, precision) == (value \div precision) * precision
Above(value, precision) == -((-value) \div precision) * precision

IsPowerOfTwo(i) == \E k \in 0 .. Bits : i = PowerOfTwo[k]

\* The floats below have fewer than Significant bits, as subnormal ones.
LeastNormal == PowerOfTwo[Significant - 1]

QuotientIsNormal(value, precision) ==
    value = 0 \/ LeastNormal * precision =< Abs(value) * One

\* Floor and ceiling to an integer precision give the multiple next to the
\* value on the right side, when floats hold it and the precision, and an error
\* exactly if this multiple is no i64: as long as floats tell the value from
\* its neighbours, and for a precision that is a power of two up to the ends of
\* the range, where the float of i64::MAX is not an i64 any more.
\* (The half-open range.)  A value so small that value / precision is subnormal
\* is left out: if that underflows to zero, so does its ceiling.
RoundedIsTheMultiple ==
    /\ call.op \in {"Floor", "Ceiling"} /\ outcome # Pending
    /\ Arg(2) > 0 /\ IsF64(Arg(2)) /\ QuotientIsNormal(Arg(1), Arg(2))
    /\ Abs(Arg(1)) =< ExactBound \/ IsPowerOfTwo(Arg(2) \div One)
    => LET exact == IF call.op = "Floor" THEN Below(Arg(1), Arg(2)) ELSE Above(Arg(1), Arg(2))
       IN  IsF64(exact) => IF exact \div One \in Ints
                           THEN outcome = Ok(Int64(exact \div One))
                           ELSE outcome = Err("IntegerOverflow")
=============================================================================
