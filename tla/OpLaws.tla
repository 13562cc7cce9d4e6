------------------------------- MODULE OpLaws -------------------------------
(***************************************************************************)
(* One call of apply_unary, apply_binary or apply_function, with any       *)
(* operands, and the laws its result obeys.                                *)
(***************************************************************************)
EXTENDS EvalOps

CONSTANT Calls      \* [family, op, vals]: the calls that can be made

\* Operands are values evaluation may use, and operators have as many of them
\* as they take; a function may be called with any number (calc.lalrpop).
IsCall(c) ==
    /\ c.vals \in Seq(ValidValues)
    /\ \/ c.family = "unary" /\ c.op \in UnaryOps /\ Len(c.vals) = 1
       \/ c.family = "binary" /\ c.op \in BinaryOps /\ Len(c.vals) = 2
       \/ c.family = "function" /\ c.op \in Funcs

ASSUME CallsAssumption == \A c \in Calls : IsCall(c)

VARIABLES
    call,
    outcome          \* the result, NoResult before it

callVars == <<call, outcome>>

NoResult == Err("pending")

CallOutcomes(c) ==
    CASE c.family = "unary" -> ApplyUnary(c.op, c.vals[1])
      [] c.family = "binary" -> ApplyBinary(c.op, c.vals[1], c.vals[2])
      [] c.family = "function" -> ApplyFunction(c.op, c.vals)

CallInit == call \in Calls /\ outcome = NoResult

Return ==
    /\ outcome = NoResult
    /\ outcome' \in CallOutcomes(call)
    /\ UNCHANGED call

CallSpec == CallInit /\ [][Return]_callVars

-----------------------------------------------------------------------------
Returned == outcome # NoResult
OnIntegers == call.vals # <<>> /\ \A i \in DOMAIN call.vals : IsInt(call.vals[i])
Arg(i) == call.vals[i].int

\* The call was op on integers and returned one.
Gave(op) == Returned /\ call.op = op /\ OnIntegers /\ outcome.ok

\* The call failed because the result does not fit.
Overflowed == Returned /\ ~outcome.ok /\ outcome.error = "IntegerOverflow"

\* The precision of a call of round, floor or ceiling on integers.
Precision == IF Len(call.vals) = 1 THEN 1 ELSE Arg(2)

\* A call returns an error of evaluation or a value it may return: an integer
\* of the width, a float that is a number (checked_float).
ResultsAreValid == outcome \in Outcomes \cup {NoResult}

\* / and % of integers round toward zero and rebuild the dividend, rem is the
\* representative between 0 and the divisor (checked_div_i64, checked_rem_i64,
\* checked_rem_euclid_i64).
DivisionLaws ==
    /\ Gave("Divide") =>
          LET rest == Arg(1) - outcome.value.int * Arg(2)
          IN  Magnitude(rest) < Magnitude(Arg(2)) /\ rest * Arg(1) >= 0
    /\ Gave("Modulo") =>
          /\ CheckedDiv(Arg(1), Arg(2)).value.int * Arg(2) + outcome.value.int = Arg(1)
          /\ outcome.value.int * Arg(1) >= 0
    /\ Gave("Remainder") =>
          /\ outcome.value.int \in 0 .. Magnitude(Arg(2)) - 1
          /\ (Arg(1) - outcome.value.int) % Magnitude(Arg(2)) = 0

\* The multiple of the precision that brackets the value, and the upper one of
\* two that are as near.
RoundsToMultiple ==
    /\ \A op \in RoundingFuncs : Gave(op) => outcome.value.int % Precision = 0
    /\ Gave("Floor") => Arg(1) - outcome.value.int \in 0 .. Precision - 1
    /\ Gave("Ceiling") => outcome.value.int - Arg(1) \in 0 .. Precision - 1
    /\ Gave("Round") =>
          LET up == 2 * (outcome.value.int - Arg(1)) IN -Precision < up /\ up =< Precision

Multiples(p) == {i \in Ints : i % p = 0}

\* The multiples of p that an integer of the width can be, on either side of v
\* and nearest to it, the upper one of two.
MultipleBelow(v, p) == \E i \in Multiples(p) : i =< v
MultipleAbove(v, p) == \E i \in Multiples(p) : i >= v
MultipleNearest(v, p) == \E i \in Multiples(p) : -p < 2 * (i - v) /\ 2 * (i - v) =< p

\* Ceiling starts from the floor, so it needs both.
Fits(op, v, p) ==
    CASE op = "Floor" -> MultipleBelow(v, p)
      [] op = "Ceiling" -> MultipleBelow(v, p) /\ MultipleAbove(v, p)
      [] op = "Round" -> MultipleNearest(v, p)

\* Of a precision that is none, and of arguments that are too many, they say so.
OverflowsAtTheEdge ==
    Returned /\ call.op \in RoundingFuncs /\ OnIntegers /\ (outcome.ok \/ Overflowed) =>
        (outcome.ok <=> Fits(call.op, Arg(1), Precision))

\* floor_i64, ceiling_i64 and round_i64 with a positive precision return the
\* multiple on their side of the value exactly when it fits the width, and an
\* overflow otherwise; but ceiling overflows also where its multiple fits and
\* only the floor it is computed from does not (CeilingOverflowsAsDocumented).
RoundingLaws == RoundsToMultiple /\ OverflowsAtTheEdge

\* Bitwise operators agree with the arithmetic of two's complement, shifts
\* with moving bits, the sign bit coming in from the left.
BitLaws ==
    /\ Gave("BitwiseNot") => outcome.value.int = -Arg(1) - 1
    /\ Gave("BitwiseOr") =>
          \A both \in BitAnd(Arg(1), Arg(2)) : outcome.value.int + both = Arg(1) + Arg(2)
    /\ Gave("BitwiseXor") =>
          \A both \in BitAnd(Arg(1), Arg(2)) : outcome.value.int + 2 * both = Arg(1) + Arg(2)
    /\ Gave("BitshiftLeft") =>
          BitsOf(outcome.value.int) = {k + Arg(2) : k \in BitsOf(Arg(1))} \cap 0 .. Bits - 1
    /\ Gave("BitshiftRight") =>
          BitsOf(outcome.value.int) =
              ({k - Arg(2) : k \in BitsOf(Arg(1))} \cap 0 .. Bits - 1)
              \cup (IF Arg(1) < 0 THEN Bits - Arg(2) .. Bits - 1 ELSE {})

\* What the doc of ceiling_i64 says: it overflows when adding the precision to
\* the floored base would (and so returns a ceiling that can be represented).
CeilingOverflowsAsDocumented ==
    Overflowed /\ call.op = "Ceiling" /\ OnIntegers =>
        FloorMultiple(Arg(1), Precision) + Precision > MaxInt
=============================================================================
