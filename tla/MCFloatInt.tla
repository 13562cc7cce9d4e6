----------------------------- MODULE MCFloatInt -----------------------------
(***************************************************************************)
(* FloatInt with integers of five bits and floats of three: the integers   *)
(* above 8 are rounded, by one or (from 16 in a product) by more.          *)
(***************************************************************************)
EXTENDS FloatInt

\* Floats up to twice the integers; the fractions are quarters.
FloatsTo(most) == {Float(x) : x \in {y \in {k * (One \div 4) : k \in -4 * most .. 4 * most} : IsF64(y)}}
Integers64 == {Int64(i) : i \in Ints}
Numbers == Integers64 \cup FloatsTo(2 * MaxInt)
Some == {Int64(MinInt), Int64(9), Int64(MaxInt), Float(10 * One), Float(-12 * One), Float(One \div 2)}

CallsOf(ops, argLists) == {[op |-> op, args |-> args] : op \in ops, args \in argLists}

MCCalls ==
    CallsOf(ComparisonOps, Numbers \X Numbers)
    \cup CallsOf({"Min", "Max"}, {<<>>} \cup (Numbers \X Numbers) \cup (Numbers \X Some \X Some))
    \cup CallsOf({"Floor", "Ceiling"}, FloatsTo(4 * MaxInt) \X Integers64)
=============================================================================
