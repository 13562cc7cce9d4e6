------------------------------ MODULE IntArith ------------------------------
(***************************************************************************)
(* The checked integer operations of crates/shunting-yard/src/eval.rs.     *)
(* A Checked operator is the result of one call: a value that fits the     *)
(* width, or the error the code returns.  Shifts and bitwise operations    *)
(* are sets of results, singletons stated by the bits of the integer.      *)
(***************************************************************************)
EXTENDS Values

CONSTANT MaxExponent   \* u32::MAX, the largest exponent of checked_pow

ASSUME MaxExponentAssumption == MaxExponent \in Nat

\* Option::ok_or(IntegerOverflow { op }): the exact result when it fits.
Checked(i, op) == IF i \in Ints THEN Ok(Int64(i)) ELSE Overflow(op)

Magnitude(x) == IF x < 0 THEN -x ELSE x

\* Mutant: the remainder of a floored division.
FlooredRem(l, r) == l % Magnitude(r)

\* Division and remainder round toward zero; rem_euclid is never negative.
TruncDiv(l, r) ==
    LET q == Magnitude(l) \div Magnitude(r) IN IF (l < 0) = (r < 0) THEN q ELSE -q
TruncRem(l, r) == l - r * TruncDiv(l, r)
EuclidRem(l, r) == l % Magnitude(r)

CheckedAdd(l, r) == Checked(l + r, "Add")
CheckedSub(l, r) == Checked(l - r, "Subtract")
CheckedMul(l, r) == Checked(l * r, "Multiply")
CheckedNeg(i) == Checked(-i, "Negate")

CheckedDiv(l, r) ==
    IF r = 0 THEN Err("DivisionByZero") ELSE Checked(TruncDiv(l, r), "Divide")

\* checked_rem and checked_rem_euclid fail whenever the division would
\* overflow, even though the remainder is 0.
DivOverflows(l, r) == l = MinInt /\ r = -1

CheckedRem(l, r) ==
    IF r = 0 THEN Err("DivisionByZero")
    ELSE IF DivOverflows(l, r) THEN Overflow("Modulo")
    ELSE Ok(Int64(TruncRem(l, r)))

CheckedRemEuclid(l, r) ==
    IF r = 0 THEN Err("DivisionByZero")
    ELSE IF DivOverflows(l, r) THEN Overflow("Remainder")
    ELSE Ok(Int64(EuclidRem(l, r)))

\* checked_shift_count: u32::try_from, then below i64::BITS.
ShiftCountOk(count) == count >= 0 /\ count < Bits

\* << drops the bits shifted out: the result agrees with l * 2^r modulo 2^Bits.
ShiftedLeft(l, r) == {i \in Ints : (i - l * PowerOfTwo[r]) % PowerOfTwo[Bits] = 0}

\* >> keeps the sign: it divides by 2^r, rounding down.
ShiftedRight(l, r) ==
    {i \in Ints : i * PowerOfTwo[r] =< l /\ l < (i + 1) * PowerOfTwo[r]}

CheckedShl(l, r) ==
    IF ShiftCountOk(r) THEN {Ok(Int64(i)) : i \in ShiftedLeft(l, r)} ELSE {Err("InvalidShiftCount")}
CheckedShr(l, r) ==
    IF ShiftCountOk(r) THEN {Ok(Int64(i)) : i \in ShiftedRight(l, r)} ELSE {Err("InvalidShiftCount")}

\* An exponent that is not a u32 is refused whatever the base.
CheckedPower(base, exponent) ==
    IF exponent < 0 \/ exponent > MaxExponent THEN Err("InvalidExponent")
    ELSE Checked(IF exponent = 0 THEN 1 ELSE base ^ exponent, "Power")

\* Mutant: / where div_euclid is meant.
FloorByTruncation(value, precision) == TruncDiv(value, precision) * precision

\* The multiple of precision just below value (div_euclid, then checked_mul).
FloorMultiple(value, precision) == (value \div precision) * precision

FloorInt(value, precision) ==
    IF precision =< 0 THEN Err("InvalidPrecision")
    ELSE Checked(FloorMultiple(value, precision), "Floor")

\* ceiling_i64 starts from floor_i64, whose overflow it returns.
CeilingInt(value, precision) ==
    LET base == FloorInt(value, precision)
    IN  IF ~base.ok \/ base.value.int = value THEN base
        ELSE Checked(base.value.int + precision, "Ceiling")

\* try_round_to(precision, Tie::Up): the nearest multiple, the upper of two.
RoundMultiple(value, precision) == ((2 * value + precision) \div (2 * precision)) * precision

RoundInt(value, precision) ==
    IF precision =< 0 THEN Err("InvalidPrecision")
    ELSE Checked(RoundMultiple(value, precision), "Round")

\* The positions of the bits that are set in the two's complement form, and
\* the (single) integer whose bits these are.
BitsOf(i) == {k \in 0 .. Bits - 1 : (i \div PowerOfTwo[k]) % 2 = 1}
IntsOfBits(s) == {i \in Ints : BitsOf(i) = s}

BitAnd(l, r) == IntsOfBits(BitsOf(l) \cap BitsOf(r))
BitOr(l, r) == IntsOfBits(BitsOf(l) \cup BitsOf(r))

\* Mutant: an inclusive or.
BitXorInclusive(l, r) == IntsOfBits(BitsOf(l) \cup BitsOf(r))

BitXor(l, r) == IntsOfBits((BitsOf(l) \cup BitsOf(r)) \ (BitsOf(l) \cap BitsOf(r)))

BitNot(i) == IntsOfBits((0 .. Bits - 1) \ BitsOf(i))
=============================================================================
