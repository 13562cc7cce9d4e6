---------------------------- MODULE OpLawsProofs ----------------------------
(***************************************************************************)
(* Proofs about the results of operators and functions, for every call and *)
(* at every width.                                                         *)
(*                                                                         *)
(* First, about the operators of EvalOps: each is total and safe.  On      *)
(* valid operands its outcomes are valid values (integers of the width,    *)
(* floats that are numbers) or errors of evaluation.  EvaluatorProofs      *)
(* rests on these lemmas too, and FloatIntProofs on those about numbers.   *)
(*                                                                         *)
(* Then, about a call (OpLaws): that its result is one evaluation may      *)
(* have, and, on integers, the laws of division, of rounding to a multiple *)
(* and of bits.                                                            *)
(***************************************************************************)
EXTENDS OpLaws, SequenceTheorems, WellFoundedInduction, TLAPS

-----------------------------------------------------------------------------
(* Natural numbers.  The induction theorems of the library quantify over   *)
(* predicates; those here are about sets.                                  *)

\* A set of natural numbers that is not empty has a least element.
LEMMA LeastNumber ==
  ASSUME NEW S \in SUBSET Nat, S # {}
  PROVE  \E m \in S : \A k \in S : m =< k
<1>1. PICK m \in S : \A k \in S : <<k, m>> \notin OpToRel(<, Nat)
  BY NatLessThanWellFounded, WFMin, Zenon
<1>2. \A k \in S : ~(k < m)
  BY <1>1, Zenon DEF OpToRel
<1>3. QED
  BY <1>2

\* A set with 0 and with the successor of each element has every number.
LEMMA SetInduction ==
  ASSUME NEW S \in SUBSET Nat, 0 \in S, \A k \in S : k + 1 \in S
  PROVE  S = Nat
<1> SUFFICES ASSUME Nat \ S # {}
             PROVE  FALSE
  OBVIOUS
<1>1. PICK m \in Nat \ S : \A k \in Nat \ S : m =< k
  BY LeastNumber
<1>2. m - 1 \in S /\ m - 1 + 1 = m
  BY <1>1
<1>3. QED
  BY <1>1, <1>2

-----------------------------------------------------------------------------
(* Powers of two.                                                          *)

\* f is the powers of two, as far as n.
PowersTo(f, n) ==
    f \in [0 .. n -> Nat \ {0}] /\ f[0] = 1 /\ \A k \in 1 .. n : f[k] = 2 * f[k - 1]

\* There is one for every n.
LEMMA PowersExist ==
    \A n \in Nat : \E f : PowersTo(f, n)
  <1> DEFINE S == {n \in Nat : \E f : PowersTo(f, n)}
  <1>1. 0 \in S
    <2>1. PowersTo([k \in 0 .. 0 |-> 1], 0)
      BY DEF PowersTo
    <2> QED
      BY <2>1
  <1>2. ASSUME NEW n \in S
        PROVE  n + 1 \in S
    <2>1. PICK f : PowersTo(f, n)
      BY <1>2
    <2> DEFINE g == [k \in 0 .. n + 1 |-> IF k = n + 1 THEN 2 * f[n] ELSE f[k]]
    <2>2. n \in Nat /\ f[n] \in Nat \ {0}
      BY <2>1 DEF PowersTo
    <2>3. \A k \in 0 .. n + 1 : g[k] \in Nat \ {0}
      BY <2>1, <2>2 DEF PowersTo
    <2>4. ASSUME NEW k \in 1 .. n + 1
          PROVE  g[k] = 2 * g[k - 1]
      <3>1. k - 1 \in 0 .. n + 1 /\ k - 1 # n + 1 /\ k \in 0 .. n + 1
        BY <2>2
      <3>2. g[k - 1] = f[k - 1] /\ g[k] = IF k = n + 1 THEN 2 * f[n] ELSE f[k]
        BY <3>1
      <3>3. k # n + 1 => k \in 1 .. n
        BY <2>2
      <3> HIDE DEF g
      <3>4. k # n + 1 => f[k] = 2 * f[k - 1]
        BY <2>1, <3>3 DEF PowersTo
      <3>5. k = n + 1 => k - 1 = n
        BY <2>2
      <3> QED
        BY <3>2, <3>4, <3>5
    <2>5. PowersTo(g, n + 1)
      <3>1. g[0] = 1
        BY <2>1, <2>2 DEF PowersTo
      <3>2. g = [k \in 0 .. n + 1 |-> g[k]]
        OBVIOUS
      <3> HIDE DEF g
      <3> QED
        BY <2>3, <2>4, <3>1, <3>2 DEF PowersTo
    <2> QED
      BY <2>2, <2>5
  <1> HIDE DEF S
  <1>3. S = Nat
    <2>1. S \in SUBSET Nat
      BY DEF S
    <2> QED
      BY <1>1, <1>2, <2>1, SetInduction
  <1> QED
    BY <1>3 DEF S

\* And only one.
LEMMA PowersAgree ==
    ASSUME NEW m \in Nat, NEW n \in Nat, NEW f, PowersTo(f, m), NEW g, PowersTo(g, n)
    PROVE  \A k \in Nat : k =< m /\ k =< n => f[k] = g[k]
  <1> DEFINE S == {k \in Nat : k =< m /\ k =< n => f[k] = g[k]}
  <1>1. 0 \in S
    BY DEF PowersTo
  <1>2. ASSUME NEW k \in S
        PROVE  k + 1 \in S
    <2>1. k \in Nat /\ (k =< m /\ k =< n => f[k] = g[k]) /\ k + 1 - 1 = k
      BY <1>2
    <2>2. ASSUME k + 1 =< m, k + 1 =< n
          PROVE  f[k + 1] = g[k + 1]
      <3>1. k + 1 \in 1 .. m /\ k + 1 \in 1 .. n /\ k =< m /\ k =< n
        BY <2>1, <2>2
      <3>2. f[k + 1] = 2 * f[k] /\ g[k + 1] = 2 * g[k]
        BY <2>1, <3>1 DEF PowersTo
      <3> QED
        BY <2>1, <3>1, <3>2
    <2> QED
      BY <2>1, <2>2
  <1> HIDE DEF S
  <1>3. S = Nat
    <2>1. S \in SUBSET Nat
      BY DEF S
    <2> QED
      BY <1>1, <1>2, <2>1, SetInduction
  <1> QED
    BY <1>3 DEF S

\* So the recursive function PowerOfTwo is the one it describes.
LEMMA PowersOfTwo ==
    /\ PowerOfTwo[0] = 1
    /\ \A n \in Nat : PowerOfTwo[n] \in Nat \ {0} /\ PowerOfTwo[n + 1] = 2 * PowerOfTwo[n]
  <1> DEFINE to(n) == CHOOSE f : PowersTo(f, n)
             all == [n \in Nat |-> to(n)[n]]
             P(f) == f = [n \in Nat |-> IF n = 0 THEN 1 ELSE 2 * f[n - 1]]
  <1>1. \A n \in Nat : PowersTo(to(n), n)
    BY PowersExist
  <1> HIDE DEF to
  <1>2. ASSUME NEW n \in Nat
        PROVE  /\ all[n] \in Nat \ {0}
               /\ all[n] = IF n = 0 THEN 1 ELSE 2 * all[n - 1]
    <2>1. all[n] = to(n)[n] /\ PowersTo(to(n), n)
      BY <1>1
    <2>2. CASE n = 0
      BY <2>1, <2>2 DEF PowersTo
    <2>3. CASE n # 0
      <3>1. n - 1 \in Nat /\ n \in 1 .. n /\ n - 1 =< n
        BY <2>3
      <3>2. to(n)[n] = 2 * to(n)[n - 1] /\ to(n)[n] \in Nat \ {0}
        BY <2>1, <3>1 DEF PowersTo
      <3>3. all[n - 1] = to(n - 1)[n - 1] /\ PowersTo(to(n - 1), n - 1)
        BY <1>1, <3>1
      <3>4. to(n)[n - 1] = to(n - 1)[n - 1]
        BY <2>1, <3>1, <3>3, PowersAgree
      <3> QED
        BY <2>1, <2>3, <3>2, <3>3, <3>4
    <2> QED
      BY <2>2, <2>3
  <1>3. P(all)
    BY <1>2
  <1>4. PowerOfTwo = CHOOSE f : P(f)
    BY DEF PowerOfTwo
  <1> HIDE DEF P, all
  <1>5. P(PowerOfTwo)
    BY <1>3, <1>4
  <1>6. \A n \in Nat : PowerOfTwo[n] = IF n = 0 THEN 1 ELSE 2 * PowerOfTwo[n - 1]
    BY <1>5 DEF P
  <1> DEFINE S == {n \in Nat : PowerOfTwo[n] \in Nat \ {0}}
  <1>7. 0 \in S
    BY <1>6
  <1>8. ASSUME NEW n \in S
        PROVE  n + 1 \in S
    <2>1. n + 1 \in Nat /\ n + 1 # 0 /\ n + 1 - 1 = n
      BY <1>8
    <2>2. PowerOfTwo[n + 1] = 2 * PowerOfTwo[n]
      BY <1>6, <2>1
    <2> QED
      BY <1>8, <2>1, <2>2
  <1> HIDE DEF S
  <1>9. S = Nat
    <2>1. S \in SUBSET Nat
      BY DEF S
    <2> QED
      BY <1>7, <1>8, <2>1, SetInduction
  <1>10. ASSUME NEW n \in Nat
         PROVE  PowerOfTwo[n + 1] = 2 * PowerOfTwo[n]
    <2>1. n + 1 \in Nat /\ n + 1 # 0 /\ n + 1 - 1 = n
      OBVIOUS
    <2> QED
      BY <1>6, <2>1
  <1> QED
    BY <1>6, <1>9, <1>10 DEF S

\* The powers multiply.
LEMMA PowersMultiply ==
    ASSUME NEW m \in Nat, NEW n \in Nat
    PROVE  PowerOfTwo[m + n] = PowerOfTwo[m] * PowerOfTwo[n]
  <1> DEFINE S == {k \in Nat : PowerOfTwo[m + k] = PowerOfTwo[m] * PowerOfTwo[k]}
  <1>1. 0 \in S
    <2>1. PowerOfTwo[m] \in Nat /\ PowerOfTwo[0] = 1 /\ m + 0 = m
      BY PowersOfTwo
    <2> QED
      BY <2>1
  <1>2. ASSUME NEW k \in S
        PROVE  k + 1 \in S
    <2>1. k \in Nat /\ m + k \in Nat /\ m + (k + 1) = (m + k) + 1
      BY <1>2
    <2>2. /\ PowerOfTwo[m] \in Nat /\ PowerOfTwo[k] \in Nat
          /\ PowerOfTwo[k + 1] = 2 * PowerOfTwo[k]
          /\ PowerOfTwo[(m + k) + 1] = 2 * PowerOfTwo[m + k]
      BY <2>1, PowersOfTwo
    <2>3. PowerOfTwo[m + k] = PowerOfTwo[m] * PowerOfTwo[k]
      BY <1>2
    <2>4. PowerOfTwo[m + (k + 1)] = PowerOfTwo[m] * PowerOfTwo[k + 1]
      BY <2>1, <2>2, <2>3
    <2> QED
      BY <2>1, <2>4
  <1> HIDE DEF S
  <1>3. S = Nat
    <2>1. S \in SUBSET Nat
      BY DEF S
    <2> QED
      BY <1>1, <1>2, <2>1, SetInduction
  <1> QED
    BY <1>3 DEF S

-----------------------------------------------------------------------------
(* Values and outcomes.                                                    *)

\* A valid value is of exactly one type and has a payload of that type.
LEMMA ValueTypes ==
    ASSUME NEW v \in ValidValues
    PROVE  /\ IsBool(v) => v.bool \in BOOLEAN
           /\ IsInt(v) => v.int \in Ints
           /\ IsFloat(v) => v.class \in NumberClasses
           /\ IsBool(v) \/ IsInt(v) \/ IsFloat(v)
  BY DEF ValidValues, Bools, Integers64, Numbers, Bool, Int64, Float, IsBool, IsInt, IsFloat

\* Valid values are outcomes.
LEMMA OkOutcomes ==
    /\ \A v \in ValidValues : Ok(v) \in Outcomes
    /\ \A b \in BOOLEAN : Ok(Bool(b)) \in Outcomes
    /\ \A i \in Ints : Ok(Int64(i)) \in Outcomes
    /\ \A c \in NumberClasses : Ok(Float(c)) \in Outcomes
  <1>1. \A v \in ValidValues : Ok(v) \in Outcomes
    BY DEF Outcomes
  <1>2. /\ \A b \in BOOLEAN : Bool(b) \in ValidValues
        /\ \A i \in Ints : Int64(i) \in ValidValues
        /\ \A c \in NumberClasses : Float(c) \in ValidValues
    BY DEF ValidValues, Bools, Integers64, Numbers
  <1> QED
    BY <1>1, <1>2

\* The errors of evaluation are outcomes.
LEMMA ErrOutcomes ==
    /\ \A e \in EvalErrors : Err(e) \in Outcomes
    /\ \A op \in ArithmeticOps : Overflow(op) \in Outcomes
  BY DEF Outcomes

\* checked_float lets no NaN, infinite or subnormal float through.
LEMMA FloatsChecked ==
    ASSUME NEW classes \in SUBSET FloatClasses
    PROVE  CheckedFloats(classes) \subseteq Outcomes
  <1> SUFFICES ASSUME NEW c \in classes
               PROVE  CheckedFloat(c) \in Outcomes
    BY DEF CheckedFloats
  <1>1. Err("NonFiniteFloat") \in Outcomes /\ Err("SubnormalFloat") \in Outcomes
    BY ErrOutcomes DEF EvalErrors
  <1>2. c \notin {"nan", "inf", "subnormal"} => c \in NumberClasses
    BY DEF FloatClasses
  <1> QED
    BY <1>1, <1>2, OkOutcomes DEF CheckedFloat

-----------------------------------------------------------------------------
(* Integer arithmetic.                                                     *)

\* A checked operation returns an integer of the width or overflows.
LEMMA CheckedOutcome ==
    \A i : \A op \in {"Negate", "Add", "Subtract", "Multiply", "Divide", "Power",
                      "Round", "Floor", "Ceiling"} : Checked(i, op) \in Outcomes
  BY OkOutcomes, ErrOutcomes DEF Checked, ArithmeticOps

\* The integers of the width: two's complement, around zero.
LEMMA Width ==
    ASSUME NEW i \in Ints
    PROVE  /\ i \in Int /\ MinInt \in Int /\ MaxInt \in Int
           /\ MinInt =< i /\ i =< MaxInt
           /\ MaxInt = -MinInt - 1
           /\ MinInt < 0
  <1>1. PowerOfTwo[Bits - 1] \in Int
    BY BitsAssumption, PowersOfTwo
  <1> QED
    BY <1>1 DEF Ints, MinInt, MaxInt

\* Division of natural numbers.
LEMMA DivMod ==
    ASSUME NEW a \in Nat, NEW b \in Nat, b > 0
    PROVE  a = b * (a \div b) + (a % b) /\ a % b \in 0 .. b - 1 /\ a \div b \in Nat
  OBVIOUS

\* The signs of a product.
LEMMA SignsOfProduct ==
    ASSUME NEW x \in Int, NEW y \in Int
    PROVE  (-x) * (-y) = x * y /\ (-x) * y = -(x * y) /\ x * (-y) = -(x * y) /\ x * y \in Int
  OBVIOUS

\* The remainder of a division rounded toward zero has the sign of the dividend
\* and the magnitude of the remainder of the magnitudes.
LEMMA TruncRemSigned ==
    ASSUME NEW l \in Int, NEW r \in Int, r # 0
    PROVE  LET m == Magnitude(l) % Magnitude(r)
           IN  TruncRem(l, r) = IF l < 0 THEN -m ELSE m
  <1> DEFINE a == Magnitude(l)
             b == Magnitude(r)
             q == a \div b
             m == a % b
  <1> SUFFICES TruncRem(l, r) = IF l < 0 THEN -m ELSE m
    OBVIOUS
  <1>1. l \in Int /\ r \in Int
    OBVIOUS
  <1>2. a \in Nat /\ b \in Nat /\ b > 0
    BY DEF Magnitude
  <1>3. a = b * q + m /\ m \in 0 .. b - 1 /\ q \in Nat
    BY <1>2, DivMod
  <1>4. CASE l < 0 /\ r < 0
    <2>1. a = -l /\ b = -r /\ TruncDiv(l, r) = q
      BY <1>4, <1>1 DEF Magnitude, TruncDiv
    <2>2. TruncRem(l, r) = l - r * q
      BY <2>1 DEF TruncRem
    <2>3. r * q = -(b * q)
      BY <2>1, <1>1, <1>3
    <2> QED
      BY <2>1, <2>2, <2>3, <1>4, <1>1, <1>3
  <1>5. CASE l < 0 /\ ~(r < 0)
    <2>1. a = -l /\ b = r /\ TruncDiv(l, r) = -q
      BY <1>5, <1>1 DEF Magnitude, TruncDiv
    <2>2. TruncRem(l, r) = l - r * (-q)
      BY <2>1 DEF TruncRem
    <2>3. r * (-q) = -(b * q)
      BY <2>1, <1>1, <1>3
    <2> QED
      BY <2>1, <2>2, <2>3, <1>5, <1>1, <1>3
  <1>6. CASE ~(l < 0) /\ r < 0
    <2>1. a = l /\ b = -r /\ TruncDiv(l, r) = -q
      BY <1>6, <1>1 DEF Magnitude, TruncDiv
    <2>2. TruncRem(l, r) = l - r * (-q)
      BY <2>1 DEF TruncRem
    <2>3. (-b) * (-q) = b * q /\ b * q \in Int
      BY SignsOfProduct, <1>2, <1>3
    <2>4. r = -b
      BY <2>1, <1>1
    <2>5. TruncRem(l, r) = l - b * q
      BY <2>2, <2>3, <2>4
    <2> HIDE DEF a, b, q, m
    <2> QED
      BY <2>1, <2>3, <2>5, <1>6, <1>1, <1>3
  <1>7. CASE ~(l < 0) /\ ~(r < 0)
    <2>1. a = l /\ b = r /\ TruncDiv(l, r) = q
      BY <1>7, <1>1 DEF Magnitude, TruncDiv
    <2>2. TruncRem(l, r) = l - r * q
      BY <2>1 DEF TruncRem
    <2> QED
      BY <2>1, <2>2, <1>7, <1>1, <1>3
  <1> QED
    BY <1>4, <1>5, <1>6, <1>7

\* The remainder of a division lies between 0 and the dividend.
LEMMA TruncRemRange ==
    ASSUME NEW l \in Ints, NEW r \in Ints, r # 0
    PROVE  TruncRem(l, r) \in Ints
  <1> DEFINE a == Magnitude(l)
             b == Magnitude(r)
             q == a \div b
             m == a % b
  <1>1. l \in Int /\ r \in Int
    BY Width
  <1>2. a \in Nat /\ b \in Nat /\ b > 0
    BY <1>1 DEF Magnitude
  <1>3. a = b * q + m /\ m \in 0 .. b - 1 /\ q \in Nat
    BY <1>2, DivMod
  <1>4. m =< a
    <2>1. b * q >= 0
      BY <1>2, <1>3
    <2> QED
      BY <2>1, <1>2, <1>3
  <1>5. TruncRem(l, r) = IF l < 0 THEN -m ELSE m
    BY <1>1, TruncRemSigned
  <1>6. a = IF l < 0 THEN -l ELSE l
    BY DEF Magnitude
  <1> HIDE DEF a, b, q, m
  <1> QED
    BY <1>1, <1>2, <1>3, <1>4, <1>5, <1>6, Width DEF Ints

\* rem_euclid is below the magnitude of the divisor.
LEMMA EuclidRemRange ==
    ASSUME NEW l \in Ints, NEW r \in Ints, r # 0
    PROVE  EuclidRem(l, r) \in Ints
  <1>1. l \in Int /\ r \in Int
    BY Width
  <1> DEFINE b == Magnitude(r)
  <1>2. b \in Nat /\ b > 0 /\ b =< MaxInt + 1
    BY <1>1, Width DEF Magnitude
  <1>3. EuclidRem(l, r) \in 0 .. b - 1
    <2>1. l % b \in 0 .. b - 1
      BY <1>1, <1>2
    <2> QED
      BY <2>1 DEF EuclidRem
  <1> HIDE DEF b
  <1> QED
    BY <1>2, <1>3, Width DEF Ints

\* Each checked integer operation returns a value of the width or an error.
LEMMA IntOps ==
    ASSUME NEW l \in Ints, NEW r \in Ints
    PROVE  /\ CheckedNeg(l) \in Outcomes
           /\ CheckedShl(l, r) \subseteq Outcomes
           /\ CheckedShr(l, r) \subseteq Outcomes
           /\ \A op \in {"Plus", "Minus", "Multiply", "Divide", "Modulo", "Remainder", "Power"} :
                 IntOp(op, l, r) \in Outcomes
  <1>3. /\ Err("DivisionByZero") \in Outcomes /\ Err("InvalidExponent") \in Outcomes
        /\ Err("InvalidShiftCount") \in Outcomes
        /\ Overflow("Modulo") \in Outcomes /\ Overflow("Remainder") \in Outcomes
    BY ErrOutcomes DEF EvalErrors, ArithmeticOps
  <1>4. CheckedNeg(l) \in Outcomes
    BY CheckedOutcome, Zenon DEF CheckedNeg
  <1>5. CheckedShl(l, r) \subseteq Outcomes /\ CheckedShr(l, r) \subseteq Outcomes
    BY <1>3, OkOutcomes DEF CheckedShl, CheckedShr, ShiftedLeft, ShiftedRight
  <1>6. /\ CheckedAdd(l, r) \in Outcomes /\ CheckedSub(l, r) \in Outcomes
        /\ CheckedMul(l, r) \in Outcomes /\ CheckedDiv(l, r) \in Outcomes
        /\ CheckedPower(l, r) \in Outcomes
    BY <1>3, CheckedOutcome, Zenon
       DEF CheckedAdd, CheckedSub, CheckedMul, CheckedDiv, CheckedPower
  <1>7. CheckedRem(l, r) \in Outcomes /\ CheckedRemEuclid(l, r) \in Outcomes
    BY <1>3, OkOutcomes, TruncRemRange, EuclidRemRange DEF CheckedRem, CheckedRemEuclid
  <1> QED
    BY <1>4, <1>5, <1>6, <1>7 DEF IntOp

\* So does rounding to a multiple of an integer.
LEMMA RoundIntegerOutcome ==
    ASSUME NEW func \in RoundingFuncs, NEW value \in Ints, NEW precision \in Int
    PROVE  RoundInteger(func, value, precision) \in Outcomes
  <1>3. Err("InvalidPrecision") \in Outcomes
    BY ErrOutcomes DEF EvalErrors
  <1>4. FloorInt(value, precision) \in Outcomes /\ RoundInt(value, precision) \in Outcomes
    BY <1>3, CheckedOutcome, Zenon DEF FloorInt, RoundInt
  <1>5. CeilingInt(value, precision) \in Outcomes
    BY <1>4, CheckedOutcome, Zenon DEF CeilingInt
  <1> QED
    BY <1>4, <1>5 DEF RoundInteger, RoundingFuncs

-----------------------------------------------------------------------------
(* Floats.                                                                 *)

\* An integer as a float is zero or normal, and so is a negated one.
LEMMA Classes ==
    /\ NumberClasses \subseteq FloatClasses
    /\ \A i \in Ints : ClassOf(i) \in NumberClasses
    /\ \A c \in NumberClasses : Negated(c) \in NumberClasses
    /\ \A v \in ValidValues : ~IsBool(v) => AsFloat(v) \in NumberClasses
  <1>1. NumberClasses \subseteq FloatClasses /\ \A i : ClassOf(i) \in NumberClasses
    BY DEF FloatClasses, NumberClasses, ClassOf
  <1>2. \A c \in NumberClasses : Negated(c) \in NumberClasses
    BY DEF NumberClasses, Negated
  <1>3. \A v \in ValidValues : ~IsBool(v) => AsFloat(v) \in NumberClasses
    BY <1>1, ValueTypes DEF AsFloat
  <1> QED
    BY <1>1, <1>2, <1>3

\* The class of every float result is a float class.
LEMMA FloatResults ==
    ASSUME NEW a \in NumberClasses, NEW b \in NumberClasses
    PROVE  /\ \A op \in {"Plus", "Minus", "Multiply", "Divide", "Modulo", "Remainder", "Power"} :
                 FloatOp(op, a, b) \in SUBSET FloatClasses
           /\ Radians(a) \in SUBSET FloatClasses
           /\ \A func \in UnaryFuncs : FloatFunction(func, a) \in SUBSET FloatClasses
           /\ \A func \in RoundingFuncs : RoundedTo(func, a) \in SUBSET FloatClasses
  <1>1. \A s \in NumberClasses : Scaled(s) \in SUBSET FloatClasses
    BY DEF Scaled, FloatClasses, NumberClasses
  <1>2. \A c \in NumberClasses : FloatAdd(a, c) \in SUBSET FloatClasses
    BY DEF FloatAdd, FloatClasses, NumberClasses
  <1>3. FloatMul(a, b) \in SUBSET FloatClasses /\ FloatPow(a, b) \in SUBSET FloatClasses
    BY <1>1 DEF FloatMul, FloatPow, FloatClasses, NumberClasses
  <1>4. \A op \in {"Plus", "Minus", "Multiply", "Divide", "Modulo", "Remainder", "Power"} :
            FloatOp(op, a, b) \in SUBSET FloatClasses
    BY <1>2, <1>3, Classes DEF FloatOp, FloatClasses, NumberClasses
  <1>5. Radians(a) \in SUBSET FloatClasses
    BY DEF Radians, FloatClasses, NumberClasses
  <1>6. \A func \in UnaryFuncs : FloatFunction(func, a) \in SUBSET FloatClasses
    BY DEF FloatFunction, UnaryFuncs, FloatClasses, NumberClasses
  <1>7. \A func \in RoundingFuncs : RoundedTo(func, a) \in SUBSET FloatClasses
    BY DEF RoundedTo, RoundingFuncs, FloatClasses, NumberClasses
  <1> QED
    BY <1>4, <1>5, <1>6, <1>7

\* Rounding a float returns an outcome.
LEMMA RoundFloats ==
    ASSUME NEW func \in RoundingFuncs, NEW c \in NumberClasses, NEW precision \in NumberClasses
    PROVE  /\ RoundFloat(func, c, precision) \subseteq Outcomes
           /\ RoundFloatToInt(func, c, precision) \subseteq Outcomes
  <1>1. RoundFloat(func, c, precision) \subseteq Outcomes
    <2>1. Err("InvalidPrecision") \in Outcomes
      BY ErrOutcomes DEF EvalErrors
    <2>2. CheckedFloats(RoundedTo(func, c)) \subseteq Outcomes
      BY FloatResults, FloatsChecked
    <2> QED
      BY <2>1, <2>2 DEF RoundFloat
  <1>2. \A o \in Outcomes : FloatToInt(o) \subseteq Outcomes
    <2>1. Overflow("FloatToInteger") \in Outcomes
      BY ErrOutcomes DEF ArithmeticOps
    <2> QED
      BY <2>1, OkOutcomes DEF FloatToInt
  <1> QED
    BY <1>1, <1>2 DEF RoundFloatToInt

-----------------------------------------------------------------------------
(* The operators.                                                          *)

\* apply_unary on a valid value returns a valid value or an error.
THEOREM UnaryClosed ==
    ASSUME NEW op \in UnaryOps, NEW v \in ValidValues
    PROVE  ApplyUnary(op, v) \subseteq Outcomes
  <1>1. Err("InvalidType") \in Outcomes
    BY ErrOutcomes DEF EvalErrors
  <1>2. IsInt(v) => CheckedNeg(v.int) \in Outcomes
    BY IntOps, ValueTypes
  <1>3. ~IsBool(v) => CheckedFloats(Radians(AsFloat(v))) \subseteq Outcomes
    BY Classes, FloatResults, FloatsChecked
  <1>4. IsFloat(v) => /\ CheckedFloats({v.class}) \subseteq Outcomes
                      /\ CheckedFloats({Negated(v.class)}) \subseteq Outcomes
    <2> SUFFICES ASSUME IsFloat(v)
                 PROVE  {v.class} \in SUBSET FloatClasses /\ {Negated(v.class)} \in SUBSET FloatClasses
      BY FloatsChecked
    <2> QED
      BY ValueTypes, Classes
  <1>5. op \in {"Degrees", "Plus", "Minus"} => ApplyUnaryMath(op, v) \subseteq Outcomes
    <2>1. CASE IsBool(v)
      BY <2>1, <1>1 DEF ApplyUnaryMath
    <2>2. CASE ~IsBool(v) /\ op = "Plus"
      BY <2>2, <1>4, OkOutcomes, ValueTypes DEF ApplyUnaryMath
    <2>3. CASE ~IsBool(v) /\ op = "Minus"
      BY <2>3, <1>2, <1>4, ValueTypes DEF ApplyUnaryMath
    <2>4. CASE ~IsBool(v) /\ op = "Degrees"
      BY <2>4, <1>3 DEF ApplyUnaryMath
    <2> QED
      BY <2>1, <2>2, <2>3, <2>4
  <1>6. ApplyBitwiseNot(v) \subseteq Outcomes
    BY <1>1, OkOutcomes, ValueTypes DEF ApplyBitwiseNot, BitNot, IntsOfBits
  <1>7. ApplyLogicalNot(v) \subseteq Outcomes
    BY <1>1, OkOutcomes, ValueTypes DEF ApplyLogicalNot
  <1> QED
    BY <1>5, <1>6, <1>7 DEF ApplyUnary, UnaryOps

\* Arithmetic on two valid numbers, as an operator or as a function.
LEMMA MathClosed ==
    ASSUME NEW l \in ValidValues, NEW r \in ValidValues,
           NEW op \in {"Plus", "Minus", "Multiply", "Divide", "Modulo", "Remainder", "Power"}
    PROVE  ApplyMath(op, l, r) \subseteq Outcomes
  <1>1. Err("InvalidType") \in Outcomes /\ Err("DivisionByZero") \in Outcomes
    BY ErrOutcomes DEF EvalErrors
  <1>2. IsInt(l) /\ IsInt(r) => IntOp(op, l.int, r.int) \in Outcomes
    BY IntOps, ValueTypes
  <1>3. ~IsBool(l) /\ ~IsBool(r) =>
            CheckedFloats(FloatOp(op, AsFloat(l), AsFloat(r))) \subseteq Outcomes
    BY Classes, FloatResults, FloatsChecked
  <1> QED
    BY <1>1, <1>2, <1>3 DEF ApplyMath, Arithmetic

\* apply_binary on valid values returns a valid value or an error.
THEOREM BinaryClosed ==
    ASSUME NEW op \in BinaryOps, NEW l \in ValidValues, NEW r \in ValidValues
    PROVE  ApplyBinary(op, l, r) \subseteq Outcomes
  <1>1. Err("InvalidType") \in Outcomes
    BY ErrOutcomes DEF EvalErrors
  <1>2. op \in ComparisonOps => ApplyComparison(op, l, r) \subseteq Outcomes
    <2>1. \A order : op \in ComparisonOps => Holds(op, order) \in BOOLEAN
      BY DEF Holds, ComparisonOps
    <2> QED
      BY <1>1, <2>1, OkOutcomes DEF ApplyComparison
  <1>3. op \in MathOps => ApplyMath(op, l, r) \subseteq Outcomes
    BY MathClosed DEF MathOps
  <1>4. op \in BitwiseOps => ApplyBitwise(op, l, r) \subseteq Outcomes
    <2>1. op \in BitwiseOps /\ IsBool(l) /\ IsBool(r) => BoolBits(op, l.bool, r.bool) \in BOOLEAN
      BY ValueTypes DEF BoolBits, BitwiseOps
    <2>2. op \in BitwiseOps => IntBits(op, l.int, r.int) \subseteq Ints
      BY DEF IntBits, BitwiseOps, BitAnd, BitOr, BitXor, IntsOfBits
    <2> QED
      BY <1>1, <2>1, <2>2, OkOutcomes DEF ApplyBitwise
  <1>5. op \in ShiftOps => ApplyShift(op, l, r) \subseteq Outcomes
    BY <1>1, IntOps, ValueTypes DEF ApplyShift
  <1>6. op \in LogicalOps => ApplyLogical(op, l, r) \subseteq Outcomes
    BY <1>1, OkOutcomes, ValueTypes DEF ApplyLogical
  <1> QED
    BY <1>2, <1>3, <1>4, <1>5, <1>6 DEF ApplyBinary, BinaryOps

\* min and max, which promote all arguments when one is a float.
LEMMA NaryClosed ==
    ASSUME NEW func \in NaryFuncs, NEW vals \in Seq(ValidValues)
    PROVE  ApplyNary(func, vals) \subseteq Outcomes
  <1>1. Err("InvalidType") \in Outcomes /\ Err("InvalidArity") \in Outcomes
    BY ErrOutcomes DEF EvalErrors
  <1>2. Args(vals) \subseteq ValidValues
    BY DEF Args
  <1>3. (\A v \in Args(vals) : ~IsBool(v)) => {AsFloat(v) : v \in Args(vals)} \subseteq FloatClasses
    BY <1>2, Classes
  <1> DEFINE classes == {AsFloat(v) : v \in Args(vals)}
             ranked(c, d) == FloatOrders(c, d) \cap {IF func = "Min" THEN "before" ELSE "after", "same"}
                             # {}
             best == {c \in classes : \A d \in classes : ranked(c, d)}
             beats(x, y) == IF func = "Min" THEN x =< y ELSE x >= y
             bestInts == {x \in Args(vals) : \A y \in Args(vals) : beats(x.int, y.int)}
  <1>4. (\A v \in Args(vals) : ~IsBool(v)) => CheckedFloats(best) \subseteq Outcomes
    <2> SUFFICES ASSUME \A v \in Args(vals) : ~IsBool(v)
                 PROVE  best \in SUBSET FloatClasses
      BY FloatsChecked
    <2> QED
      BY <1>3
  <1>5. {Ok(v) : v \in bestInts} \subseteq Outcomes
    BY <1>2, OkOutcomes
  <1>6. CASE \E v \in Args(vals) : IsBool(v)
    <2>1. \E v \in Args(vals) : TRUE
      BY <1>6
    <2>2. vals # <<>>
      BY <2>1 DEF Args
    <2>3. ApplyNary(func, vals) \subseteq Outcomes
      BY <1>6, <2>2, <1>1 DEF ApplyNary
    <2> QED
      BY <2>3
  <1>7. CASE vals = <<>> /\ \A v \in Args(vals) : ~IsBool(v)
    BY <1>7, <1>1 DEF ApplyNary, Args
  <1>8. CASE /\ vals # <<>> /\ \A v \in Args(vals) : ~IsBool(v)
             /\ \E v \in Args(vals) : IsFloat(v)
    <2>1. ApplyNary(func, vals) = CheckedFloats(best)
      BY <1>8, Zenon DEF ApplyNary
    <2> QED
      BY <2>1, <1>4, <1>8
  <1>9. CASE vals # <<>> /\ \A v \in Args(vals) : ~IsBool(v) /\ ~IsFloat(v)
    <2>1. ApplyNary(func, vals) = {Ok(v) : v \in bestInts}
      BY <1>9, Zenon DEF ApplyNary
    <2> QED
      BY <2>1, <1>5
  <1> QED
    BY <1>6, <1>7, <1>8, <1>9

\* round, floor and ceiling, with and without a precision.
LEMMA RoundingClosed ==
    ASSUME NEW func \in RoundingFuncs, NEW vals \in Seq(ValidValues)
    PROVE  ApplyRounding(func, vals) \subseteq Outcomes
  <1>1. Err("InvalidType") \in Outcomes /\ Err("InvalidArity") \in Outcomes
    BY ErrOutcomes DEF EvalErrors
  <1> DEFINE v == vals[1]
             p == vals[2]
  <1>2. \A x \in Args(vals) : x \in ValidValues
    BY DEF Args
  <1>3. CASE Len(vals) \notin {1, 2}
    <2>1. ApplyRounding(func, vals) = {Err("InvalidArity")}
      BY <1>3 DEF ApplyRounding
    <2> QED
      BY <2>1, <1>1
  <1>4. CASE Len(vals) \in {1, 2} /\ \E x \in Args(vals) : IsBool(x)
    <2>1. ApplyRounding(func, vals) = {Err("InvalidType")}
      BY <1>4 DEF ApplyRounding
    <2> QED
      BY <2>1, <1>1
  <1>5. CASE Len(vals) = 1 /\ \A x \in Args(vals) : ~IsBool(x)
    <2>1. v \in ValidValues /\ ~IsBool(v)
      BY <1>5, <1>2 DEF Args
    <2>2. IsInt(v) => RoundInteger(func, v.int, 1) \in Outcomes
      BY <2>1, ValueTypes, RoundIntegerOutcome
    <2>3. IsFloat(v) => RoundFloat(func, v.class, "pos") \subseteq Outcomes
      BY <2>1, ValueTypes, RoundFloats DEF NumberClasses
    <2>4. /\ IsInt(v) => ApplyRounding(func, vals) = {RoundInteger(func, v.int, 1)}
          /\ ~IsInt(v) => ApplyRounding(func, vals) = RoundFloat(func, v.class, "pos")
      BY <1>5 DEF ApplyRounding
    <2> QED
      BY <2>1, <2>2, <2>3, <2>4, ValueTypes
  <1>6. CASE Len(vals) = 2 /\ \A x \in Args(vals) : ~IsBool(x)
    <2>1. v \in ValidValues /\ p \in ValidValues /\ ~IsBool(v) /\ ~IsBool(p)
      BY <1>6, <1>2 DEF Args
    <2>2. IsInt(p) => p.int \in Int /\ ClassOf(p.int) \in NumberClasses
      BY <2>1, ValueTypes, Classes DEF Ints
    <2>3. IsFloat(p) => RoundFloat(func, AsFloat(v), p.class) \subseteq Outcomes
      BY <2>1, ValueTypes, Classes, RoundFloats
    <2>4. IsInt(v) /\ IsInt(p) => RoundInteger(func, v.int, p.int) \in Outcomes
      BY <2>1, <2>2, ValueTypes, RoundIntegerOutcome
    <2>5. IsFloat(v) /\ IsInt(p) => RoundFloatToInt(func, v.class, ClassOf(p.int)) \subseteq Outcomes
      BY <2>1, <2>2, ValueTypes, RoundFloats
    <2>6. Len(vals) # 1
      BY <1>6
    <2>7. /\ IsFloat(p) => ApplyRounding(func, vals) = RoundFloat(func, AsFloat(v), p.class)
          /\ IsInt(p) /\ IsInt(v) =>
                 ApplyRounding(func, vals) = {RoundInteger(func, v.int, p.int)}
          /\ IsInt(p) /\ ~IsInt(v) =>
                 ApplyRounding(func, vals) = RoundFloatToInt(func, v.class, ClassOf(p.int))
      BY <1>6, <2>6 DEF ApplyRounding, IsInt, IsFloat
    <2> HIDE DEF v, p
    <2> QED
      BY <2>1, <2>3, <2>4, <2>5, <2>7, ValueTypes
  <1> QED
    BY <1>3, <1>4, <1>5, <1>6

\* apply_function on valid values, however many, returns a valid value or an
\* error.
THEOREM FunctionClosed ==
    ASSUME NEW func \in Funcs, NEW vals \in Seq(ValidValues)
    PROVE  ApplyFunction(func, vals) \subseteq Outcomes
  <1>1. Err("InvalidType") \in Outcomes /\ Err("InvalidArity") \in Outcomes
    BY ErrOutcomes DEF EvalErrors
  <1>2. func \in BinaryFuncs => ApplyBinaryFunction(func, vals) \subseteq Outcomes
    <2>1. Len(vals) = 2 => vals[1] \in ValidValues /\ vals[2] \in ValidValues
      <3>1. \A i \in 1 .. Len(vals) : vals[i] \in ValidValues
        OBVIOUS
      <3> QED
        BY <3>1
    <2> QED
      BY <1>1, <2>1, MathClosed DEF ApplyBinaryFunction, BinaryFuncs
  <1>3. func \in UnaryFuncs => ApplyUnaryFunction(func, vals) \subseteq Outcomes
    <2>1. Len(vals) = 1 => vals[1] \in ValidValues
      OBVIOUS
    <2>2. Len(vals) = 1 /\ ~IsBool(vals[1]) /\ func \in UnaryFuncs =>
              CheckedFloats(FloatFunction(func, AsFloat(vals[1]))) \subseteq Outcomes
      BY <2>1, Classes, FloatResults, FloatsChecked
    <2> QED
      BY <1>1, <2>2 DEF ApplyUnaryFunction
  <1> QED
    BY <1>2, <1>3, NaryClosed, RoundingClosed DEF ApplyFunction, Funcs

-----------------------------------------------------------------------------
(* Calls.                                                                  *)

\* The result of a call is one evaluation may have.
CallInv == call \in Calls /\ outcome \in Outcomes \cup {NoResult}

\* Whatever the operands, an outcome of a call is one evaluation may have.
LEMMA CallClosed ==
  ASSUME NEW c \in Calls
  PROVE  CallOutcomes(c) \subseteq Outcomes
<1>1. IsCall(c)
  BY CallsAssumption
<1>2. c.vals \in Seq(ValidValues) /\ \A i \in 1 .. Len(c.vals) : c.vals[i] \in ValidValues
  BY <1>1 DEF IsCall
<1>3. CASE c.family = "unary" /\ c.op \in UnaryOps /\ Len(c.vals) = 1
  <2>1. c.vals[1] \in ValidValues
    BY <1>2, <1>3
  <2>2. QED
    BY <1>3, <2>1, UnaryClosed DEF CallOutcomes
<1>4. CASE c.family = "binary" /\ c.op \in BinaryOps /\ Len(c.vals) = 2
  <2>1. c.vals[1] \in ValidValues /\ c.vals[2] \in ValidValues
    BY <1>2, <1>4
  <2>2. QED
    BY <1>4, <2>1, BinaryClosed DEF CallOutcomes
<1>5. CASE c.family = "function" /\ c.op \in Funcs
  BY <1>2, <1>5, FunctionClosed DEF CallOutcomes
<1>6. QED
  BY <1>1, <1>3, <1>4, <1>5 DEF IsCall

\* Every operator and built-in returns an error of evaluation or a value it may
\* return (checked_float, checked_f64 and the checked integer operations), on
\* all operands and at every width.
THEOREM ValidResults == CallSpec => []ResultsAreValid
<1>1. CallInit => CallInv
  BY DEF CallInit, CallInv
<1>2. CallInv /\ [Return]_callVars => CallInv'
  BY CallClosed DEF CallInv, Return, callVars
<1>3. CallInv => ResultsAreValid
  BY DEF CallInv, ResultsAreValid
<1>4. QED
  BY <1>1, <1>2, <1>3, PTL DEF CallSpec

-----------------------------------------------------------------------------
(* Division.                                                               *)

\* Euclidean division of an integer by a positive one.
LEMMA EuclidDivision ==
    ASSUME NEW a \in Int, NEW b \in Int, b > 0
    PROVE  a = b * (a \div b) + (a % b) /\ a % b \in 0 .. b - 1 /\ a \div b \in Int
  <1>1. a % b \in 0 .. b - 1
    OBVIOUS
  <1>2. a \div b \in Int
    OBVIOUS
  <1>3. a = b * (a \div b) + (a % b)
    OBVIOUS
  <1> QED
    BY <1>1, <1>2, <1>3

\* Division rounds toward zero: the rest is smaller than the divisor and does
\* not change sign.
LEMMA RestOfDivision ==
    ASSUME NEW l \in Int, NEW r \in Int, r # 0
    PROVE  LET rest == TruncRem(l, r)
           IN  Magnitude(rest) < Magnitude(r) /\ rest * l >= 0 /\ rest \in Int
  <1> DEFINE a == Magnitude(l)
             b == Magnitude(r)
             m == a % b
             rest == TruncRem(l, r)
  <1>1. a \in Nat /\ b \in Nat /\ b > 0
    BY DEF Magnitude
  <1>2. m \in Nat /\ m < b
    BY <1>1, DivMod
  <1>3. rest = IF l < 0 THEN -m ELSE m
    BY TruncRemSigned
  <1> HIDE DEF a, b, m, rest
  <1>4. CASE l < 0
    <2>1. rest = -m /\ (-m) * l = m * (-l) /\ m * (-l) >= 0
      BY <1>2, <1>3, <1>4
    <2> QED
      BY <1>2, <2>1 DEF Magnitude, rest, b
  <1>5. CASE ~(l < 0)
    <2>1. rest = m /\ m * l >= 0
      BY <1>2, <1>3, <1>5
    <2> QED
      BY <1>2, <2>1 DEF Magnitude, rest, b
  <1> QED
    BY <1>4, <1>5

\* A multiple of p has no remainder.
LEMMA MultipleHasNoRest ==
    ASSUME NEW k \in Int, NEW p \in Int, p > 0
    PROVE  (k * p) % p = 0 /\ k * p \in Int
  <1> DEFINE x == k * p
             d == x \div p
             m == x % p
  <1>1. x \in Int
    OBVIOUS
  <1> HIDE DEF x
  <1>2. x = p * d + m /\ m \in 0 .. p - 1 /\ d \in Int
    BY <1>1, EuclidDivision
  <1> HIDE DEF d, m
  <1>3. p * (k - d) = m
    BY <1>2 DEF x
  <1>4. k - d = 0
    <2>1. k - d >= 1 => p * (k - d) >= p
      BY <1>2
    <2>2. k - d =< -1 => p * (k - d) =< -p
      BY <1>2
    <2> QED
      BY <1>2, <1>3, <2>1, <2>2
  <1>5. m = 0
    BY <1>3, <1>4
  <1> QED
    BY <1>1, <1>5 DEF m, x

\* Only MinInt / -1 leaves the width.
LEMMA QuotientFits ==
    ASSUME NEW l \in Ints, NEW r \in Ints, r # 0, ~DivOverflows(l, r)
    PROVE  TruncDiv(l, r) \in Ints
  <1> DEFINE a == Magnitude(l)
             b == Magnitude(r)
             q == a \div b
             m == a % b
  <1>1. /\ l \in Int /\ r \in Int /\ MinInt \in Int /\ MaxInt \in Int
        /\ MinInt =< l /\ l =< MaxInt /\ MaxInt = -MinInt - 1
    BY Width
  <1>2. a \in Nat /\ b \in Nat /\ b > 0 /\ a =< MaxInt + 1
    BY <1>1 DEF Magnitude
  <1>3. a = b * q + m /\ m \in Nat /\ q \in Nat
    BY <1>2, DivMod
  <1>4. TruncDiv(l, r) = IF (l < 0) = (r < 0) THEN q ELSE -q
    BY DEF TruncDiv
  <1>5. a = (IF l < 0 THEN -l ELSE l) /\ b = (IF r < 0 THEN -r ELSE r)
    BY DEF Magnitude
  <1> HIDE DEF a, b, q, m
  <1>6. q =< a
    <2>1. (b - 1) * q >= 0
      BY <1>2, <1>3
    <2>2. b * q = (b - 1) * q + q
      BY <1>2, <1>3
    <2> QED
      BY <1>2, <1>3, <2>1, <2>2
  <1>7. CASE q =< MaxInt
    BY <1>1, <1>3, <1>4, <1>7 DEF Ints
  <1>8. CASE q > MaxInt
    <2>1. q = MaxInt + 1 /\ a = q /\ a > 0
      BY <1>1, <1>2, <1>3, <1>6, <1>8
    <2>2. b = 1
      <3>1. b * q =< q
        BY <1>2, <1>3, <2>1
      <3> SUFFICES ASSUME b >= 2 PROVE FALSE
        BY <1>2
      <3>2. (b - 2) * q >= 0 /\ b * q = (b - 2) * q + 2 * q
        BY <1>2, <1>3
      <3> QED
        BY <1>2, <1>3, <2>1, <3>1, <3>2
    <2>3. l = MinInt /\ l < 0
      BY <1>1, <1>5, <2>1
    <2>4. r = 1
      BY <1>1, <1>5, <2>2, <2>3 DEF DivOverflows
    <2> QED
      BY <1>1, <1>4, <2>1, <2>3, <2>4 DEF Ints
  <1> QED
    BY <1>1, <1>3, <1>7, <1>8

\* What rem_euclid leaves out is a multiple of the divisor.
LEMMA RestOfEuclid ==
    ASSUME NEW l \in Int, NEW b \in Nat, b > 0
    PROVE  l % b \in 0 .. b - 1 /\ (l - (l % b)) % b = 0
  <1>1. l = b * (l \div b) + (l % b) /\ l % b \in 0 .. b - 1 /\ l \div b \in Int
    BY EuclidDivision
  <1>2. ((l \div b) * b) % b = 0
    BY <1>1, MultipleHasNoRest
  <1>3. l - (l % b) = (l \div b) * b
    BY <1>1
  <1> QED
    BY <1>1, <1>2, <1>3

-----------------------------------------------------------------------------
(* Rounding to a multiple.                                                 *)

\* Two different multiples of p are at least p apart.
LEMMA MultiplesApart ==
    ASSUME NEW p \in Int, p > 0, NEW i \in Int, NEW j \in Int, i % p = 0, j % p = 0, i < j
    PROVE  i + p =< j
  <1> DEFINE c == i \div p
             d == j \div p
  <1>1. i = p * c /\ j = p * d /\ c \in Int /\ d \in Int
    OBVIOUS
  <1> HIDE DEF c, d
  <1>2. c < d
    <2> SUFFICES ASSUME d =< c PROVE FALSE
      BY <1>1
    <2>1. p * (c - d) >= 0
      BY <1>1
    <2>2. p * (c - d) = i - j
      BY <1>1
    <2> QED
      BY <2>1, <2>2
  <1>3. p * (d - c) >= p
    BY <1>1, <1>2
  <1>4. p * (d - c) = j - i
    BY <1>1
  <1> QED
    BY <1>3, <1>4

\* The next multiple is one.
LEMMA NextMultiple ==
    ASSUME NEW p \in Int, p > 0, NEW f \in Int, f % p = 0
    PROVE  (f + p) % p = 0
  <1>1. f = p * (f \div p) + (f % p) /\ f \div p \in Int
    BY EuclidDivision
  <1>2. (f \div p + 1) * p = f + p
    BY <1>1
  <1> QED
    BY <1>1, <1>2, MultipleHasNoRest

\* floor_i64 finds the multiple that is at most the value and nearer than p.
LEMMA FloorBrackets ==
    ASSUME NEW v \in Int, NEW p \in Int, p > 0
    PROVE  LET f == FloorMultiple(v, p)
           IN  f \in Int /\ f % p = 0 /\ f =< v /\ v < f + p
  <1> DEFINE k == v \div p
  <1>1. v = p * k + (v % p) /\ v % p \in 0 .. p - 1 /\ k \in Int
    BY EuclidDivision
  <1>2. k * p \in Int /\ (k * p) % p = 0
    BY <1>1, MultipleHasNoRest
  <1> QED
    BY <1>1, <1>2 DEF FloorMultiple

\* round_i64 finds the multiple nearest to the value, the upper of two.
LEMMA RoundBrackets ==
    ASSUME NEW v \in Int, NEW p \in Int, p > 0
    PROVE  LET f == RoundMultiple(v, p)
           IN  f \in Int /\ f % p = 0 /\ -p < 2 * (f - v) /\ 2 * (f - v) =< p
  <1> DEFINE x == 2 * v + p
             w == 2 * p
             k == x \div w
             m == x % w
             f == k * p
  <1>1. x \in Int /\ w \in Int /\ w > 0
    OBVIOUS
  <1>2. x = w * k + m /\ m \in 0 .. w - 1 /\ k \in Int
    BY <1>1, EuclidDivision
  <1>3. f \in Int /\ f % p = 0
    BY <1>2, MultipleHasNoRest
  <1>4. RoundMultiple(v, p) = f
    BY DEF RoundMultiple
  <1> HIDE DEF k, m
  <1>5. w * k = 2 * f
    BY <1>2
  <1>6. 2 * v + p = 2 * f + m /\ m \in Int /\ 0 =< m /\ m < 2 * p
    BY <1>2, <1>5
  <1> HIDE DEF f
  <1>7. -p < 2 * (f - v) /\ 2 * (f - v) =< p
    BY <1>3, <1>6
  <1> QED
    BY <1>3, <1>4, <1>7

\* The laws of one rounding of integers: a multiple on its side of the value.
RoundedWell(op, v, p, i) ==
    /\ i % p = 0
    /\ op = "Floor" => v - i \in 0 .. p - 1
    /\ op = "Ceiling" => i - v \in 0 .. p - 1
    /\ op = "Round" => -p < 2 * (i - v) /\ 2 * (i - v) =< p

\* checked_mul and checked_add give the exact result or an overflow.
LEMMA CheckedCases ==
    ASSUME NEW i, NEW op
    PROVE  \/ i \in Ints /\ Checked(i, op).ok /\ Checked(i, op).value.int = i
           \/ /\ i \notin Ints /\ ~Checked(i, op).ok
              /\ Checked(i, op).error = "IntegerOverflow"
  BY DEF Checked, Ok, Int64, Overflow

\* A multiple below the value fits exactly if the last one below it does.
LEMMA FloorFits ==
    ASSUME NEW v \in Ints, NEW p \in Int, p > 0
    PROVE  MultipleBelow(v, p) <=> FloorMultiple(v, p) \in Ints
  <1> DEFINE f == FloorMultiple(v, p)
  <1>1. v \in Int /\ v =< MaxInt /\ MinInt \in Int /\ MaxInt \in Int
    BY Width
  <1>2. f \in Int /\ f % p = 0 /\ f =< v /\ v < f + p
    BY <1>1, FloorBrackets
  <1> HIDE DEF f
  <1>3. ASSUME NEW i \in Multiples(p), i =< v
        PROVE  f \in Ints
    <2>1. i \in Int /\ i % p = 0 /\ MinInt =< i
      BY Width DEF Multiples
    <2>2. ~(f < i)
      <3> SUFFICES ASSUME f < i PROVE FALSE
        OBVIOUS
      <3>1. f + p =< i
        BY <1>2, <2>1, MultiplesApart
      <3> QED
        BY <1>1, <1>2, <1>3, <2>1, <3>1
    <2> QED
      BY <1>1, <1>2, <2>1, <2>2 DEF Ints
  <1>4. f \in Ints => MultipleBelow(v, p)
    BY <1>2 DEF MultipleBelow, Multiples
  <1> QED
    BY <1>3, <1>4 DEF MultipleBelow, f

\* If it does, one above fits exactly if the next one does, or the value is one.
LEMMA CeilingFits ==
    ASSUME NEW v \in Ints, NEW p \in Int, p > 0, FloorMultiple(v, p) \in Ints
    PROVE  MultipleAbove(v, p) <=> FloorMultiple(v, p) = v \/ FloorMultiple(v, p) + p \in Ints
  <1> DEFINE f == FloorMultiple(v, p)
  <1>1. v \in Int /\ MinInt =< v /\ MinInt \in Int /\ MaxInt \in Int
    BY Width
  <1>2. f \in Int /\ f % p = 0 /\ f =< v /\ v < f + p
    BY <1>1, FloorBrackets
  <1>3. f \in Ints
    OBVIOUS
  <1> HIDE DEF f
  <1>4. ASSUME NEW i \in Multiples(p), i >= v, f # v
        PROVE  f + p \in Ints
    <2>1. i \in Int /\ i % p = 0 /\ i =< MaxInt
      BY Width DEF Multiples
    <2>2. f + p =< i
      BY <1>1, <1>2, <1>4, <2>1, MultiplesApart
    <2> QED
      BY <1>1, <1>2, <2>1, <2>2 DEF Ints
  <1>5. f = v => MultipleAbove(v, p)
    BY <1>1, <1>2, <1>3 DEF MultipleAbove, Multiples
  <1>6. f + p \in Ints => MultipleAbove(v, p)
    <2>1. (f + p) % p = 0
      BY <1>2, NextMultiple
    <2> QED
      BY <1>1, <1>2, <2>1 DEF MultipleAbove, Multiples
  <1> QED
    BY <1>4, <1>5, <1>6 DEF MultipleAbove, f

\* The nearest multiple is the only one that near.
LEMMA RoundFits ==
    ASSUME NEW v \in Ints, NEW p \in Int, p > 0
    PROVE  MultipleNearest(v, p) <=> RoundMultiple(v, p) \in Ints
  <1> DEFINE g == RoundMultiple(v, p)
  <1>1. v \in Int
    BY Width
  <1>2. g \in Int /\ g % p = 0 /\ -p < 2 * (g - v) /\ 2 * (g - v) =< p
    BY <1>1, RoundBrackets
  <1> HIDE DEF g
  <1>3. ASSUME NEW i \in Multiples(p), -p < 2 * (i - v), 2 * (i - v) =< p
        PROVE  i = g
    <2>1. i \in Int /\ i % p = 0
      BY Width DEF Multiples
    <2>2. ~(i < g)
      <3>1. i < g => i + p =< g
        BY <1>2, <2>1, MultiplesApart
      <3> QED
        BY <1>1, <1>2, <1>3, <2>1, <3>1
    <2>3. ~(g < i)
      <3>1. g < i => g + p =< i
        BY <1>2, <2>1, MultiplesApart
      <3> QED
        BY <1>1, <1>2, <1>3, <2>1, <3>1
    <2> QED
      BY <1>2, <2>1, <2>2, <2>3
  <1>4. MultipleNearest(v, p) => g \in Ints
    BY <1>3 DEF MultipleNearest, Multiples
  <1>5. g \in Ints => MultipleNearest(v, p)
    BY <1>2 DEF MultipleNearest, Multiples
  <1> QED
    BY <1>4, <1>5 DEF g

\* floor_i64, ceiling_i64 and round_i64 obey these laws, and overflow exactly
\* when what they need does not fit.
LEMMA RoundingOfIntegers ==
    ASSUME NEW op \in RoundingFuncs, NEW v \in Ints, NEW p \in Int
    PROVE  LET o == RoundInteger(op, v, p)
           IN  /\ o.ok => p > 0 /\ RoundedWell(op, v, p, o.value.int)
               /\ o.ok \/ o.error = "IntegerOverflow" => (o.ok <=> Fits(op, v, p))
  <1> DEFINE o == RoundInteger(op, v, p)
             f == FloorMultiple(v, p)
  <1>1. v \in Int
    BY Width
  <1>2. CASE p =< 0
    <2>1. o = Err("InvalidPrecision")
      BY <1>2 DEF RoundInteger, RoundInt, FloorInt, CeilingInt, RoundingFuncs, Err
    <2> QED
      BY <2>1 DEF Err
  <1>3. CASE op = "Floor" /\ p > 0
    <2>1. o = Checked(f, "Floor")
      BY <1>3 DEF RoundInteger, FloorInt
    <2>2. f \in Int /\ f % p = 0 /\ f =< v /\ v < f + p
      BY <1>1, <1>3, FloorBrackets
    <2>3. Fits(op, v, p) <=> f \in Ints
      BY <1>3, FloorFits DEF Fits
    <2> HIDE DEF o, f
    <2>4. \/ f \in Ints /\ o.ok /\ o.value.int = f
          \/ f \notin Ints /\ ~o.ok
      BY <2>1, CheckedCases
    <2>5. RoundedWell(op, v, p, f)
      BY <1>1, <1>3, <2>2 DEF RoundedWell
    <2> QED
      BY <1>3, <2>3, <2>4, <2>5 DEF o
  <1>4. CASE op = "Round" /\ p > 0
    <2> DEFINE g == RoundMultiple(v, p)
    <2>1. o = Checked(g, "Round")
      BY <1>4 DEF RoundInteger, RoundInt
    <2>2. g \in Int /\ g % p = 0 /\ -p < 2 * (g - v) /\ 2 * (g - v) =< p
      BY <1>1, <1>4, RoundBrackets
    <2>3. Fits(op, v, p) <=> g \in Ints
      BY <1>4, RoundFits DEF Fits
    <2> HIDE DEF o, f, g
    <2>4. \/ g \in Ints /\ o.ok /\ o.value.int = g
          \/ g \notin Ints /\ ~o.ok
      BY <2>1, CheckedCases
    <2>5. RoundedWell(op, v, p, g)
      BY <1>1, <1>4, <2>2 DEF RoundedWell
    <2> QED
      BY <1>4, <2>3, <2>4, <2>5 DEF o
  <1>5. CASE op = "Ceiling" /\ p > 0
    <2> DEFINE base == FloorInt(v, p)
    <2>1. base = Checked(f, "Floor")
      BY <1>5 DEF FloorInt
    <2>2. o = IF ~base.ok \/ base.value.int = v THEN base
              ELSE Checked(base.value.int + p, "Ceiling")
      BY <1>5 DEF RoundInteger, CeilingInt
    <2>3. f \in Int /\ f % p = 0 /\ f =< v /\ v < f + p
      BY <1>1, <1>5, FloorBrackets
    <2>4. MultipleBelow(v, p) <=> f \in Ints
      BY <1>5, FloorFits
    <2>5. f \in Ints => (MultipleAbove(v, p) <=> f = v \/ f + p \in Ints)
      BY <1>5, CeilingFits
    <2>6. Fits(op, v, p) <=> MultipleBelow(v, p) /\ MultipleAbove(v, p)
      BY <1>5 DEF Fits
    <2> HIDE DEF o, f, base
    <2>7. \/ f \in Ints /\ base.ok /\ base.value.int = f
          \/ f \notin Ints /\ ~base.ok
      BY <2>1, CheckedCases
    <2>8. CASE f \notin Ints
      <3>1. ~o.ok /\ ~Fits(op, v, p)
        BY <2>2, <2>4, <2>6, <2>7, <2>8
      <3> QED
        BY <3>1 DEF o
    <2>9. CASE f \in Ints /\ f = v
      <3>1. o.ok /\ o.value.int = f /\ Fits(op, v, p)
        BY <2>2, <2>4, <2>5, <2>6, <2>7, <2>9
      <3>2. RoundedWell(op, v, p, f)
        BY <1>1, <1>5, <2>3, <2>9 DEF RoundedWell
      <3> QED
        BY <1>5, <3>1, <3>2 DEF o
    <2>10. CASE f \in Ints /\ f # v
      <3> DEFINE g == f + p
      <3>1. o = Checked(g, "Ceiling")
        BY <2>2, <2>7, <2>10
      <3>2. g \in Int /\ g % p = 0
        <4>1. f \in Int /\ f % p = 0 /\ p > 0
          BY <1>5, <2>3
        <4>2. (f + p) % p = 0
          BY ONLY <4>1, p \in Int, NextMultiple
        <4> QED
          BY <4>1, <4>2
      <3>3. \/ g \in Ints /\ o.ok /\ o.value.int = g
            \/ g \notin Ints /\ ~o.ok
        BY <3>1, CheckedCases
      <3>4. g - v \in 0 .. p - 1
        BY <1>1, <1>5, <2>3, <2>10
      <3>5. RoundedWell(op, v, p, g)
        BY <1>5, <3>2, <3>4 DEF RoundedWell
      <3>6. Fits(op, v, p) <=> g \in Ints
        BY <2>4, <2>5, <2>6, <2>10
      <3> HIDE DEF g
      <3> QED
        BY <1>5, <3>3, <3>5, <3>6 DEF o
    <2> QED
      BY <2>8, <2>9, <2>10
  <1> QED
    BY <1>2, <1>3, <1>4, <1>5 DEF RoundingFuncs

-----------------------------------------------------------------------------
(* Bits.                                                                   *)

\* There is one way to divide with a rest.
LEMMA OneDivision ==
    ASSUME NEW a \in Int, NEW b \in Int, b > 0, NEW q \in Int, NEW r \in 0 .. b - 1,
           a = b * q + r
    PROVE  a \div b = q /\ a % b = r
  <1> DEFINE d == a \div b
             m == a % b
  <1>1. a = b * d + m /\ m \in 0 .. b - 1 /\ d \in Int
    BY EuclidDivision
  <1> HIDE DEF d, m
  <1>2. b * (q - d) = m - r
    BY <1>1
  <1>3. q - d = 0
    <2>1. q - d >= 1 => b * (q - d) >= b
      BY <1>1
    <2>2. q - d =< -1 => b * (q - d) =< -b
      BY <1>1
    <2> QED
      BY <1>1, <1>2, <2>1, <2>2
  <1>4. q = d /\ m = r
    BY <1>1, <1>2, <1>3
  <1> QED
    BY <1>4 DEF d, m

\* Dividing twice is dividing by the product.
LEMMA DivideTwice ==
    ASSUME NEW a \in Int, NEW p \in Int, p > 0, NEW q \in Int, q > 0
    PROVE  /\ (a \div p) \div q = a \div (p * q)
           /\ a % (p * q) = p * ((a \div p) % q) + (a % p)
  <1> DEFINE u == a \div p
             r == a % p
             v == u \div q
             s == u % q
  <1>1. a = p * u + r /\ r \in 0 .. p - 1 /\ u \in Int
    BY EuclidDivision
  <1> HIDE DEF u, r
  <1>2. u = q * v + s /\ s \in 0 .. q - 1 /\ v \in Int
    BY <1>1, EuclidDivision
  <1> HIDE DEF v, s
  <1>3. p * q \in Int /\ p * q > 0
    OBVIOUS
  <1>4. p * s >= 0 /\ p * s =< p * (q - 1) /\ p * s \in Int
    BY <1>2
  <1>5. p * (q - 1) = p * q - p
    OBVIOUS
  <1>6. p * s + r \in 0 .. p * q - 1
    BY <1>1, <1>3, <1>4, <1>5
  <1>7. a = (p * q) * v + (p * s + r)
    <2>1. p * u = (p * q) * v + p * s
      BY <1>2
    <2> QED
      BY <1>1, <1>2, <1>3, <1>4, <2>1
  <1>8. a \div (p * q) = v /\ a % (p * q) = p * s + r
    BY <1>2, <1>3, <1>6, <1>7, OneDivision
  <1>9. v = (a \div p) \div q /\ s = (a \div p) % q /\ r = a % p
    BY DEF u, r, v, s
  <1> QED
    BY <1>8, <1>9

\* The k-th bit of an integer, and the integer of its first n bits.
Bit(i, k) == (i \div PowerOfTwo[k]) % 2
Low(i, n) == i % PowerOfTwo[n]

\* A bit is 0 or 1 and adds its power to the integer of the bits before it.
LEMMA BitFacts ==
    ASSUME NEW i \in Int, NEW n \in Nat
    PROVE  /\ Bit(i, n) \in {0, 1}
           /\ Low(i, 0) = 0 /\ Low(i, n) \in Nat
           /\ Low(i, n + 1) = Low(i, n) + PowerOfTwo[n] * Bit(i, n)
  <1> DEFINE p == PowerOfTwo[n]
  <1>1. p \in Nat /\ p > 0 /\ PowerOfTwo[n + 1] = p * 2 /\ PowerOfTwo[0] = 1
    BY PowersOfTwo
  <1> HIDE DEF p
  <1>2. i \div p \in Int /\ i % p \in Nat
    BY <1>1
  <1>3. (i \div p) % 2 \in {0, 1}
    BY <1>2
  <1>4. i % (p * 2) = p * ((i \div p) % 2) + (i % p)
    BY <1>1, DivideTwice
  <1>5. i % 1 = 0
    OBVIOUS
  <1>6. Bit(i, n) = (i \div p) % 2 /\ Low(i, n) = i % p
    BY DEF Bit, Low, p
  <1>7. Low(i, n + 1) = i % (p * 2)
    BY <1>1 DEF Low
  <1>8. Low(i, 0) = 0
    BY <1>1, <1>5 DEF Low
  <1>9. p * Bit(i, n) \in Int
    BY <1>1, <1>3, <1>6
  <1>10. Low(i, n + 1) = Low(i, n) + p * Bit(i, n)
    BY <1>2, <1>4, <1>6, <1>7, <1>9
  <1> QED
    BY <1>2, <1>3, <1>6, <1>8, <1>10 DEF p

\* An integer of the width is its bits, the last of them counted negative; a
\* negative one has 1 at and after the last.
LEMMA SignBit ==
    ASSUME NEW i \in Ints
    PROVE  /\ i \in Int
           /\ i = Low(i, Bits - 1) - PowerOfTwo[Bits - 1] * Bit(i, Bits - 1)
           /\ \A k \in Nat : k >= Bits - 1 => Bit(i, k) = IF i < 0 THEN 1 ELSE 0
  <1>1. i \in Int /\ MinInt =< i /\ i =< MaxInt /\ Bits - 1 \in Nat
    BY Width, BitsAssumption
  <1>2. ASSUME NEW k \in Nat, k >= Bits - 1
        PROVE  i \div PowerOfTwo[k] = IF i < 0 THEN -1 ELSE 0
    <2> DEFINE p == PowerOfTwo[Bits - 1]
               e == PowerOfTwo[k - (Bits - 1)]
    <2>1. k - (Bits - 1) \in Nat /\ (Bits - 1) + (k - (Bits - 1)) = k
      BY <1>1, <1>2
    <2>2. p \in Nat \ {0} /\ e \in Nat \ {0}
      BY <1>1, <2>1, PowersOfTwo
    <2>3. PowerOfTwo[k] = p * e
      BY <1>1, <2>1, PowersMultiply
    <2>4. MinInt = -p /\ MaxInt = p - 1
      BY DEF MinInt, MaxInt
    <2> HIDE DEF p, e
    <2>5. p * e >= p /\ p * e \in Nat
      BY <2>2
    <2> DEFINE w == p * e
    <2>6. w \in Nat /\ w > 0 /\ -w =< i /\ i < w
      BY <1>1, <2>2, <2>4, <2>5
    <2>9. PowerOfTwo[k] = w
      BY <2>3
    <2> HIDE DEF w
    <2>7. CASE i < 0
      <3>1. i = w * (-1) + (i + w) /\ i + w \in 0 .. w - 1
        BY <1>1, <2>6, <2>7
      <3> QED
        BY <1>1, <2>6, <2>7, <2>9, <3>1, OneDivision
    <2>8. CASE i >= 0
      <3>1. i = w * 0 + i /\ i \in 0 .. w - 1
        BY <1>1, <2>6, <2>8
      <3> QED
        BY <1>1, <2>6, <2>8, <2>9, <3>1, OneDivision
    <2> QED
      BY <1>1, <2>7, <2>8
  <1>3. (-1) % 2 = 1 /\ 0 % 2 = 0
    <2> DEFINE n == -1
    <2>1. n \in Int /\ n = 2 * n + 1 /\ 1 \in 0 .. 2 - 1
      OBVIOUS
    <2> HIDE DEF n
    <2>2. n % 2 = 1
      BY <2>1, OneDivision
    <2> QED
      BY <2>2 DEF n
  <1>4. \A k \in Nat : k >= Bits - 1 => Bit(i, k) = IF i < 0 THEN 1 ELSE 0
    BY <1>2, <1>3 DEF Bit
  <1>5. i = Low(i, Bits - 1) - PowerOfTwo[Bits - 1] * Bit(i, Bits - 1)
    <2> DEFINE p == PowerOfTwo[Bits - 1]
    <2>1. p \in Nat \ {0} /\ Bits - 1 >= Bits - 1
      BY <1>1, PowersOfTwo
    <2>2. i \div p = IF i < 0 THEN -1 ELSE 0
      BY <1>1, <1>2, <2>1
    <2>3. Bit(i, Bits - 1) = IF i < 0 THEN 1 ELSE 0
      BY <1>1, <1>4, <2>1
    <2> HIDE DEF p
    <2>4. i = p * (i \div p) + (i % p) /\ i % p \in Int
      <3>1. p \in Int /\ p > 0
        BY <2>1
      <3> QED
        BY <1>1, <3>1, EuclidDivision
    <2>5. Low(i, Bits - 1) = i % p
      BY DEF Low, p
    <2>6. CASE i < 0
      <3>1. i = (i % p) - p * 1
        BY <1>1, <2>1, <2>2, <2>4, <2>6
      <3> QED
        BY <2>3, <2>5, <2>6, <3>1 DEF p
    <2>7. CASE ~(i < 0)
      <3>1. i = (i % p) - p * 0
        BY <1>1, <2>1, <2>2, <2>4, <2>7
      <3> QED
        BY <2>3, <2>5, <2>7, <3>1 DEF p
    <2> QED
      BY <2>6, <2>7
  <1> QED
    BY <1>1, <1>4, <1>5

\* Sums of bits, taken position by position, are sums of integers.
LEMMA BitwiseSums ==
    ASSUME NEW a \in Ints, NEW b \in Ints, NEW c \in Ints, NEW d \in Ints, NEW w \in {1, 2},
           \A k \in 0 .. Bits - 1 : Bit(a, k) + w * Bit(b, k) = Bit(c, k) + Bit(d, k)
    PROVE  a + w * b = c + d
  <1> DEFINE S == {n \in Nat : n < Bits =>
                                 Low(a, n) + w * Low(b, n) = Low(c, n) + Low(d, n)}
  <1>1. /\ a \in Int /\ b \in Int /\ c \in Int /\ d \in Int
        /\ Bits \in Nat /\ Bits - 1 \in 0 .. Bits - 1 /\ Bits - 1 \in Nat
    BY Width, BitsAssumption
  <1>2. 0 \in S
    BY <1>1, BitFacts
  <1>3. ASSUME NEW n \in S
        PROVE  n + 1 \in S
    <2>1. SUFFICES ASSUME n + 1 < Bits
                   PROVE  Low(a, n + 1) + w * Low(b, n + 1) = Low(c, n + 1) + Low(d, n + 1)
      BY <1>3
    <2>2. n \in Nat /\ n \in 0 .. Bits - 1 /\ n < Bits
      BY <1>1, <1>3, <2>1
    <2> DEFINE p == PowerOfTwo[n]
    <2>3. /\ p \in Nat
          /\ Low(a, n) + w * Low(b, n) = Low(c, n) + Low(d, n)
          /\ Bit(a, n) + w * Bit(b, n) = Bit(c, n) + Bit(d, n)
      BY <1>3, <2>2, PowersOfTwo
    <2>4. \A i \in {a, b, c, d} : /\ Bit(i, n) \in {0, 1} /\ Low(i, n) \in Nat
                                  /\ Low(i, n + 1) = Low(i, n) + p * Bit(i, n)
      BY <1>1, <2>2, BitFacts
    <2> HIDE DEF p
    <2>5. p * Bit(a, n) + w * (p * Bit(b, n)) = p * Bit(c, n) + p * Bit(d, n)
      <3>1. p * (Bit(a, n) + w * Bit(b, n)) = p * (Bit(c, n) + Bit(d, n))
        BY <2>3
      <3> QED
        BY <2>3, <2>4, <3>1
    <2>6. \A i \in {a, b, c, d} : p * Bit(i, n) \in Int
      <3>1. \A x \in {0, 1} : p * x \in Int
        BY <2>3
      <3> QED
        BY <2>4, <3>1
    <2> DEFINE pa == p * Bit(a, n)
               pb == p * Bit(b, n)
               pc == p * Bit(c, n)
               pd == p * Bit(d, n)
    <2>7. /\ Low(a, n + 1) = Low(a, n) + pa /\ Low(b, n + 1) = Low(b, n) + pb
          /\ Low(c, n + 1) = Low(c, n) + pc /\ Low(d, n + 1) = Low(d, n) + pd
          /\ Low(a, n) \in Nat /\ Low(b, n) \in Nat /\ Low(c, n) \in Nat /\ Low(d, n) \in Nat
      BY <2>4
    <2> HIDE DEF pa, pb, pc, pd
    <2>8. pa + w * pb = pc + pd /\ pa \in Int /\ pb \in Int /\ pc \in Int /\ pd \in Int
      BY <2>5, <2>6 DEF pa, pb, pc, pd
    <2>9. CASE w = 1
      BY <2>3, <2>7, <2>8, <2>9
    <2>10. CASE w = 2
      BY <2>3, <2>7, <2>8, <2>10
    <2> QED
      BY <2>9, <2>10
  <1> HIDE DEF S
  <1>4. S = Nat
    <2>1. S \in SUBSET Nat
      BY DEF S
    <2> QED
      BY <1>2, <1>3, <2>1, SetInduction
  <1> DEFINE m == Bits - 1
             p == PowerOfTwo[m]
  <1>5. Low(a, m) + w * Low(b, m) = Low(c, m) + Low(d, m)
    BY <1>1, <1>4 DEF S
  <1>6. Bit(a, m) + w * Bit(b, m) = Bit(c, m) + Bit(d, m) /\ p \in Nat
    BY <1>1, PowersOfTwo
  <1>7. \A i \in {a, b, c, d} : /\ Bit(i, m) \in {0, 1} /\ Low(i, m) \in Nat
                                /\ i = Low(i, m) - p * Bit(i, m)
    BY <1>1, BitFacts, SignBit
  <1> HIDE DEF m, p
  <1>8. p * Bit(a, m) + w * (p * Bit(b, m)) = p * Bit(c, m) + p * Bit(d, m)
    <2>1. p * (Bit(a, m) + w * Bit(b, m)) = p * (Bit(c, m) + Bit(d, m))
      BY <1>6
    <2> QED
      BY <1>6, <1>7, <2>1
  <1> QED
    BY <1>1, <1>5, <1>6, <1>7, <1>8

\* A number with its rest after division by 2 stays itself when a multiple of
\* 2 is added.
LEMMA EvenIsAdded ==
    ASSUME NEW a \in Int, NEW m \in Int
    PROVE  (a + 2 * m) % 2 = a % 2
  <1> DEFINE q == a \div 2
             r == a % 2
  <1>1. a = 2 * q + r /\ q \in Int /\ r \in 0 .. 2 - 1
    BY EuclidDivision
  <1> HIDE DEF q, r
  <1> DEFINE x == a + 2 * m
  <1>2. x \in Int /\ q + m \in Int /\ x = 2 * (q + m) + r
    BY <1>1
  <1> HIDE DEF x
  <1>3. x % 2 = r
    BY <1>1, <1>2, OneDivision
  <1> QED
    BY <1>3 DEF r, x

\* The bits of -1 are all set, those of 0 are not.
LEMMA AllAndNone ==
    ASSUME NEW k \in Nat
    PROVE  Bit(-1, k) = 1 /\ Bit(0, k) = 0
  <1> DEFINE n == -1
             z == 0
             p == PowerOfTwo[k]
  <1>1. /\ n \in Int /\ z \in Int /\ p \in Int /\ p > 0
        /\ n = p * n + (p - 1) /\ p - 1 \in 0 .. p - 1
        /\ z = p * z + 0 /\ 0 \in 0 .. p - 1
        /\ n = 2 * n + 1 /\ 1 \in 0 .. 2 - 1
        /\ z = 2 * z + 0 /\ 0 \in 0 .. 2 - 1
    BY PowersOfTwo
  <1> HIDE DEF n, z, p
  <1>2. n \div p = n /\ z \div p = z
    BY <1>1, OneDivision
  <1>3. n % 2 = 1 /\ z % 2 = 0
    BY <1>1, OneDivision
  <1>4. Bit(n, k) = 1 /\ Bit(z, k) = 0
    BY <1>2, <1>3 DEF Bit, p
  <1> QED
    BY <1>4 DEF n, z

\* An integer with the bits of a set has them one by one.
LEMMA BitByBit ==
    /\ \A i \in Ints : \A k \in 0 .. Bits - 1 :
         /\ k \in BitsOf(i) <=> Bit(i, k) = 1
         /\ Bit(i, k) \in {0, 1}
    /\ \A s : \A i \in IntsOfBits(s) : i \in Ints /\ BitsOf(i) = s
  <1>1. ASSUME NEW i \in Ints, NEW k \in 0 .. Bits - 1
        PROVE  (k \in BitsOf(i) <=> Bit(i, k) = 1) /\ Bit(i, k) \in {0, 1}
    <2>1. i \in Int /\ k \in Nat
      BY Width, BitsAssumption
    <2>2. Bit(i, k) \in {0, 1}
      BY <2>1, BitFacts
    <2> QED
      BY <2>2 DEF BitsOf, Bit
  <1> QED
    BY <1>1 DEF IntsOfBits

\* The bitwise operators are the arithmetic of two's complement.
LEMMA OrSums ==
    ASSUME NEW l \in Ints, NEW r \in Ints, NEW o \in BitOr(l, r), NEW b \in BitAnd(l, r)
    PROVE  o + b = l + r
  <1>1. /\ o \in Ints /\ BitsOf(o) = BitsOf(l) \cup BitsOf(r)
        /\ b \in Ints /\ BitsOf(b) = BitsOf(l) \cap BitsOf(r)
    BY BitByBit DEF BitOr, BitAnd
  <1>2. ASSUME NEW k \in 0 .. Bits - 1
        PROVE  Bit(o, k) + 1 * Bit(b, k) = Bit(l, k) + Bit(r, k)
    <2>1. \A i \in {o, b, l, r} : (k \in BitsOf(i) <=> Bit(i, k) = 1) /\ Bit(i, k) \in {0, 1}
      BY <1>1, BitByBit
    <2> QED
      BY <1>1, <2>1
  <1>3. o + 1 * b = l + r
    BY <1>1, <1>2, BitwiseSums
  <1> QED
    BY <1>1, <1>3, Width

\* An exclusive or is the sum without the carries.
LEMMA XorSums ==
    ASSUME NEW l \in Ints, NEW r \in Ints, NEW o \in BitXor(l, r), NEW b \in BitAnd(l, r)
    PROVE  o + 2 * b = l + r
  <1>1. /\ o \in Ints
        /\ BitsOf(o) = (BitsOf(l) \cup BitsOf(r)) \ (BitsOf(l) \cap BitsOf(r))
        /\ b \in Ints /\ BitsOf(b) = BitsOf(l) \cap BitsOf(r)
    BY BitByBit DEF BitXor, BitAnd
  <1>2. ASSUME NEW k \in 0 .. Bits - 1
        PROVE  Bit(o, k) + 2 * Bit(b, k) = Bit(l, k) + Bit(r, k)
    <2>1. \A i \in {o, b, l, r} : (k \in BitsOf(i) <=> Bit(i, k) = 1) /\ Bit(i, k) \in {0, 1}
      BY <1>1, BitByBit
    <2> QED
      BY <1>1, <2>1
  <1> QED
    BY <1>1, <1>2, BitwiseSums

\* All bits the other way round make the sum -1.
LEMMA NotSums ==
    ASSUME NEW l \in Ints, NEW o \in BitNot(l)
    PROVE  o = -l - 1
  <1> DEFINE n == -1
  <1>1. /\ o \in Ints /\ BitsOf(o) = (0 .. Bits - 1) \ BitsOf(l)
        /\ n \in Ints /\ 0 \in Ints
    <2>1. n \in Ints /\ 0 \in Ints
      BY Width DEF Ints
    <2> QED
      BY <2>1, BitByBit DEF BitNot
  <1>2. ASSUME NEW k \in 0 .. Bits - 1
        PROVE  Bit(o, k) + 1 * Bit(l, k) = Bit(n, k) + Bit(0, k)
    <2>1. \A i \in {o, l} : (k \in BitsOf(i) <=> Bit(i, k) = 1) /\ Bit(i, k) \in {0, 1}
      BY <1>1, BitByBit
    <2>2. Bit(n, k) = 1 /\ Bit(0, k) = 0
      BY AllAndNone, BitsAssumption
    <2> HIDE DEF n
    <2> QED
      BY <1>1, <2>1, <2>2
  <1> HIDE DEF n
  <1>3. o + 1 * l = n + 0
    BY <1>1, <1>2, BitwiseSums
  <1> QED
    BY <1>1, <1>3, Width DEF n

\* A shift to the left moves the bits up.
LEMMA LeftMoves ==
    ASSUME NEW l \in Ints, NEW r \in 0 .. Bits - 1, NEW i \in ShiftedLeft(l, r),
           NEW k \in 0 .. Bits - 1
    PROVE  Bit(i, k) = IF k < r THEN 0 ELSE Bit(l, k - r)
  <1> DEFINE w == PowerOfTwo[Bits]
             g == PowerOfTwo[r]
             p == PowerOfTwo[k]
             m == (i - l * g) \div w
             e == PowerOfTwo[Bits - k - 1]
  <1>1. /\ Bits \in Nat /\ r \in Nat /\ k \in Nat /\ Bits - k - 1 \in Nat
        /\ k + ((Bits - k - 1) + 1) = Bits /\ (Bits - k - 1) + 1 \in Nat
    BY BitsAssumption
  <1>2. /\ l \in Int /\ i \in Int /\ (i - l * g) % w = 0
    BY Width DEF ShiftedLeft
  <1>3. w \in Nat \ {0} /\ g \in Nat \ {0} /\ p \in Nat \ {0} /\ e \in Nat \ {0}
    BY <1>1, PowersOfTwo
  <1>4. w = p * (2 * e)
    <2>1. PowerOfTwo[(Bits - k - 1) + 1] = 2 * e
      BY <1>1, PowersOfTwo
    <2>2. PowerOfTwo[k + ((Bits - k - 1) + 1)] = p * PowerOfTwo[(Bits - k - 1) + 1]
      BY <1>1, PowersMultiply
    <2> QED
      BY <1>1, <2>1, <2>2
  <1>5. m \in Int /\ i = l * g + w * m
    <2> HIDE DEF w, g
    <2>1. l * g \in Int
      BY <1>2, <1>3
    <2> DEFINE x == i - l * g
    <2>2. x \in Int /\ x % w = 0 /\ w \in Int /\ w > 0 /\ i = l * g + x
      BY <1>2, <1>3, <2>1
    <2> HIDE DEF x
    <2>3. x = w * (x \div w) + (x % w) /\ x \div w \in Int
      BY <2>2, EuclidDivision
    <2>4. x = w * (x \div w)
      <3> DEFINE y == x \div w
      <3>1. w * y \in Int
        BY <2>2, <2>3
      <3> HIDE DEF y
      <3>2. x = w * y
        BY <2>2, <2>3, <3>1 DEF y
      <3> QED
        BY <3>2 DEF y
    <2>5. m = x \div w
      BY DEF x
    <2> QED
      BY <2>2, <2>3, <2>4, <2>5
  <1> HIDE DEF m, e, w
  <1>6. CASE k < r
    <2> DEFINE f == PowerOfTwo[r - k - 1]
    <2>1. r - k - 1 \in Nat /\ k + ((r - k - 1) + 1) = r /\ (r - k - 1) + 1 \in Nat
      BY <1>1, <1>6
    <2>2. f \in Nat \ {0} /\ g = p * (2 * f)
      <3>1. PowerOfTwo[(r - k - 1) + 1] = 2 * f /\ f \in Nat \ {0}
        BY <2>1, PowersOfTwo
      <3>2. PowerOfTwo[k + ((r - k - 1) + 1)] = p * PowerOfTwo[(r - k - 1) + 1]
        BY <1>1, <2>1, PowersMultiply
      <3> QED
        BY <2>1, <3>1, <3>2
    <2> HIDE DEF f, g, p
    <2> DEFINE y == l * f + e * m
    <2>3. y \in Int /\ 2 * y \in Int
      BY <1>2, <1>3, <1>5, <2>2
    <2>4. i = p * (2 * y) + 0
      <3>1. l * g = p * (2 * (l * f))
        BY <1>2, <1>3, <2>2
      <3>2. w * m = p * (2 * (e * m))
        BY <1>3, <1>4, <1>5
      <3>3. l * f \in Int /\ e * m \in Int
        BY <1>2, <1>3, <1>5, <2>2
      <3>4. p * (2 * (l * f)) + p * (2 * (e * m)) = p * (2 * (l * f + e * m))
        BY <1>3, <3>3
      <3>5. p * (2 * (l * f + e * m)) \in Int
        BY <1>3, <3>3
      <3> QED
        BY <1>5, <3>1, <3>2, <3>4, <3>5
    <2> HIDE DEF y
    <2>5. i \div p = 2 * y
      BY <1>2, <1>3, <2>3, <2>4, OneDivision
    <2>6. (2 * y) % 2 = 0
      <3>1. 2 * y = 2 * y + 0 /\ 0 \in 0 .. 2 - 1
        BY <2>3
      <3> QED
        BY <2>3, <3>1, OneDivision
    <2> QED
      BY <1>6, <2>5, <2>6 DEF Bit, p
  <1>7. CASE ~(k < r)
    <2> DEFINE d == PowerOfTwo[k - r]
               u == l \div d
               s == l % d
    <2>1. k - r \in Nat /\ r + (k - r) = k
      BY <1>1, <1>7
    <2>2. d \in Nat \ {0} /\ p = g * d
      <3>1. PowerOfTwo[r + (k - r)] = g * d
        BY <1>1, <2>1, PowersMultiply
      <3> QED
        BY <2>1, <3>1, PowersOfTwo
    <2> HIDE DEF d, g, p
    <2>3. l = d * u + s /\ u \in Int /\ s \in 0 .. d - 1
      BY <1>2, <2>2, EuclidDivision
    <2>4. Bit(l, k - r) = u % 2
      BY DEF Bit, d
    <2> HIDE DEF u, s
    <2>5. g * s \in 0 .. p - 1
      <3>1. g * s >= 0 /\ g * s =< g * (d - 1) /\ g * s \in Int
        BY <1>3, <2>2, <2>3
      <3>2. g * (d - 1) = g * d - g
        BY <1>3, <2>2
      <3> QED
        BY <1>3, <2>2, <3>1, <3>2
    <2> DEFINE y == u + 2 * (e * m)
    <2>6. e * m \in Int /\ y \in Int
      BY <1>3, <1>5, <2>3
    <2>7. i = p * y + g * s
      <3>1. l * g = p * u + g * s
        BY <1>2, <1>3, <2>2, <2>3
      <3>2. w * m = p * (2 * (e * m))
        BY <1>3, <1>4, <1>5
      <3>3. p * u + p * (2 * (e * m)) = p * (u + 2 * (e * m))
        BY <1>3, <2>3, <2>6
      <3>4. p * u \in Int /\ g * s \in Int /\ p * (2 * (e * m)) \in Int
        BY <1>3, <2>3, <2>6
      <3> QED
        BY <1>5, <3>1, <3>2, <3>3, <3>4
    <2>8. y % 2 = u % 2
      BY <2>3, <2>6, EvenIsAdded
    <2> HIDE DEF y
    <2> DEFINE t == g * s
    <2>9. t \in 0 .. p - 1 /\ i = p * y + t
      BY <2>5, <2>7
    <2> HIDE DEF t
    <2>10. i \div p = y
      BY <1>2, <1>3, <2>6, <2>9, OneDivision
    <2> QED
      BY <1>7, <2>4, <2>8, <2>10 DEF Bit, p
  <1> QED
    BY <1>6, <1>7

\* A shift to the right moves them down, and the sign comes in.
LEMMA RightMoves ==
    ASSUME NEW l \in Ints, NEW r \in 0 .. Bits - 1, NEW i \in ShiftedRight(l, r),
           NEW k \in 0 .. Bits - 1
    PROVE  Bit(i, k) = Bit(l, k + r)
  <1> DEFINE g == PowerOfTwo[r]
             p == PowerOfTwo[k]
  <1>1. r \in Nat /\ k \in Nat /\ r + k = k + r
    BY BitsAssumption
  <1>2. l \in Int /\ i \in Int /\ i * g =< l /\ l < (i + 1) * g
    BY Width DEF ShiftedRight
  <1>3. g \in Nat \ {0} /\ p \in Nat \ {0} /\ PowerOfTwo[k + r] = g * p
    <2>1. PowerOfTwo[r + k] = g * p
      BY <1>1, PowersMultiply
    <2> QED
      BY <1>1, <2>1, PowersOfTwo
  <1> HIDE DEF g, p
  <1>4. l \div g = i
    <2> DEFINE t == l - i * g
    <2>1. i * g \in Int /\ (i + 1) * g = i * g + g /\ g * i = i * g
      BY <1>2, <1>3
    <2>2. t \in 0 .. g - 1 /\ l = g * i + t
      BY <1>2, <1>3, <2>1
    <2> HIDE DEF t
    <2> QED
      BY <1>2, <1>3, <2>2, OneDivision
  <1>5. (l \div g) \div p = l \div (g * p)
    BY <1>2, <1>3, DivideTwice
  <1> QED
    BY <1>3, <1>4, <1>5 DEF Bit, p

-----------------------------------------------------------------------------
(* Calls.                                                                  *)

\* The outcome of a call is one that its operator can have.
AnswersCall == call \in Calls /\ (Returned => outcome \in CallOutcomes(call))

AllIntegers(vals) == vals # <<>> /\ \A i \in DOMAIN vals : IsInt(vals[i])

\* A call on integers has operands of the width.
LEMMA OperandsAreIntegers ==
    ASSUME NEW c \in Calls, AllIntegers(c.vals)
    PROVE  /\ c.vals \in Seq(ValidValues) /\ Len(c.vals) \in Nat /\ Len(c.vals) >= 1
           /\ DOMAIN c.vals = 1 .. Len(c.vals)
           /\ \A i \in 1 .. Len(c.vals) : IsInt(c.vals[i]) /\ c.vals[i].int \in Ints
  <1>1. c.vals \in Seq(ValidValues) /\ c.vals # <<>>
    BY CallsAssumption DEF IsCall, AllIntegers
  <1>2. Len(c.vals) \in Nat /\ Len(c.vals) >= 1 /\ DOMAIN c.vals = 1 .. Len(c.vals)
    BY <1>1
  <1>3. \A i \in 1 .. Len(c.vals) : IsInt(c.vals[i]) /\ c.vals[i] \in ValidValues
    BY <1>1, <1>2 DEF AllIntegers
  <1> QED
    BY <1>1, <1>2, <1>3, ValueTypes

\* The kinds of a value exclude each other.
LEMMA IntegerIsNoOther ==
    ASSUME NEW v, IsInt(v)
    PROVE  ~IsBool(v) /\ ~IsFloat(v)
  BY DEF IsInt, IsBool, IsFloat

\* On two integers, / and % and rem are the checked integer operations.
LEMMA DivisionOfIntegers ==
    ASSUME NEW c \in Calls, AllIntegers(c.vals), NEW o \in CallOutcomes(c), o.ok,
           c.op \in {"Divide", "Modulo", "Remainder"}
    PROVE  /\ c.vals[1].int \in Ints /\ c.vals[2].int \in Ints
           /\ o = IntOp(c.op, c.vals[1].int, c.vals[2].int)
  <1>1. IsCall(c)
    BY CallsAssumption
  <1>2. ~(Err("InvalidArity").ok)
    BY DEF Err
  <1>3. Len(c.vals) = 2 /\ o \in ApplyMath(c.op, c.vals[1], c.vals[2])
    <2>1. CASE c.family = "unary"
      BY <1>1, <2>1 DEF IsCall, UnaryOps
    <2>2. CASE c.family = "binary"
      <3>1. c.op \in MathOps /\ c.op \notin ComparisonOps
        BY <1>1, <2>2 DEF IsCall, MathOps, ComparisonOps, BinaryOps, BitwiseOps, ShiftOps, LogicalOps
      <3>2. Len(c.vals) = 2 /\ o \in ApplyBinary(c.op, c.vals[1], c.vals[2])
        BY <1>1, <2>2 DEF IsCall, CallOutcomes
      <3> QED
        BY <3>1, <3>2 DEF ApplyBinary, MathOps, ComparisonOps, BitwiseOps, ShiftOps, LogicalOps
    <2>3. CASE c.family = "function"
      <3>1. c.op \in BinaryFuncs
        BY <1>1, <2>3 DEF IsCall, Funcs, NaryFuncs, RoundingFuncs, BinaryFuncs, UnaryFuncs
      <3>2. o \in ApplyFunction(c.op, c.vals)
        BY <2>3 DEF CallOutcomes
      <3>3. o \in ApplyBinaryFunction(c.op, c.vals)
        BY <3>1, <3>2 DEF ApplyFunction, NaryFuncs, RoundingFuncs, BinaryFuncs, UnaryFuncs
      <3> QED
        BY <1>2, <3>3 DEF ApplyBinaryFunction
    <2> QED
      BY <1>1, <2>1, <2>2, <2>3 DEF IsCall
  <1>4. /\ IsInt(c.vals[1]) /\ c.vals[1].int \in Ints
        /\ IsInt(c.vals[2]) /\ c.vals[2].int \in Ints
    BY <1>3, OperandsAreIntegers
  <1>5. o \in {IntOp(c.op, c.vals[1].int, c.vals[2].int)}
    BY <1>3, <1>4, IntegerIsNoOther, Zenon DEF ApplyMath, Arithmetic
  <1> QED
    BY <1>4, <1>5

\* On integers, the rounding functions are the integer ones; without a
\* precision it is 1.
LEMMA RoundingCallOnIntegers ==
    ASSUME NEW c \in Calls, AllIntegers(c.vals), NEW o \in CallOutcomes(c),
           c.op \in RoundingFuncs, o.ok \/ o.error = "IntegerOverflow"
    PROVE  LET p == IF Len(c.vals) = 1 THEN 1 ELSE c.vals[2].int
           IN  /\ c.vals[1].int \in Ints /\ p \in Int
               /\ o = RoundInteger(c.op, c.vals[1].int, p)
  <1> DEFINE p == IF Len(c.vals) = 1 THEN 1 ELSE c.vals[2].int
  <1>1. IsCall(c)
    BY CallsAssumption
  <1>2. c.family = "function"
    BY <1>1 DEF IsCall, RoundingFuncs, UnaryOps, BinaryOps, MathOps, ComparisonOps, BitwiseOps,
                ShiftOps, LogicalOps
  <1>3. o \in ApplyRounding(c.op, c.vals)
    <2>1. o \in ApplyFunction(c.op, c.vals)
      BY <1>2 DEF CallOutcomes
    <2>2. ApplyFunction(c.op, c.vals) = ApplyRounding(c.op, c.vals)
      BY DEF ApplyFunction, NaryFuncs, RoundingFuncs, BinaryFuncs, UnaryFuncs
    <2> QED
      BY <2>1, <2>2
  <1>4. o # Err("InvalidArity")
    BY DEF Err
  <1>5. Len(c.vals) \in {1, 2}
    BY <1>3, <1>4 DEF ApplyRounding
  <1>6. \A i \in 1 .. Len(c.vals) : IsInt(c.vals[i]) /\ c.vals[i].int \in Ints
    BY OperandsAreIntegers
  <1>7. ~\E x \in Args(c.vals) : IsBool(x)
    BY <1>6, OperandsAreIntegers, IntegerIsNoOther DEF Args
  <1>8. CASE Len(c.vals) = 1
    <2>1. IsInt(c.vals[1]) /\ c.vals[1].int \in Ints
      BY <1>6, <1>8
    <2>2. o \in {RoundInteger(c.op, c.vals[1].int, 1)}
      BY <1>3, <1>5, <1>7, <1>8, <2>1, Zenon DEF ApplyRounding
    <2> QED
      BY <1>8, <2>1, <2>2
  <1>9. CASE Len(c.vals) = 2
    <2>1. /\ IsInt(c.vals[1]) /\ c.vals[1].int \in Ints
          /\ IsInt(c.vals[2]) /\ c.vals[2].int \in Ints
      BY <1>6, <1>9
    <2>2. ~IsFloat(c.vals[2]) /\ Len(c.vals) # 1
      BY <1>9, <2>1, IntegerIsNoOther
    <2>3. o \in {RoundInteger(c.op, c.vals[1].int, c.vals[2].int)}
      BY <1>3, <1>5, <1>7, <2>1, <2>2 DEF ApplyRounding
    <2>4. c.vals[2].int \in Int
      BY <2>1, Width
    <2> QED
      BY <2>1, <2>2, <2>3, <2>4
  <1> QED
    BY <1>5, <1>8, <1>9

\* The laws follow from the outcome being one of the call.
LEMMA DivisionLawsFollow ==
    AnswersCall => DivisionLaws
  <1> SUFFICES ASSUME AnswersCall PROVE DivisionLaws
    OBVIOUS
  <1> DEFINE l == Arg(1)
             r == Arg(2)
  <1>1. ASSUME OnIntegers, Returned, outcome.ok, call.op \in {"Divide", "Modulo", "Remainder"}
        PROVE  l \in Ints /\ r \in Ints /\ outcome = IntOp(call.op, l, r)
    BY <1>1, DivisionOfIntegers DEF AnswersCall, OnIntegers, AllIntegers, Arg
  <1> HIDE DEF l, r
  <1>2. ~(Err("DivisionByZero").ok) /\ ~(Overflow("Modulo").ok) /\ ~(Overflow("Remainder").ok)
    BY DEF Err, Overflow
  <1>3. \A i : Ok(Int64(i)).value.int = i
    BY DEF Ok, Int64
  <1>4. ASSUME Gave("Divide")
        PROVE  LET rest == l - outcome.value.int * r
               IN  Magnitude(rest) < Magnitude(r) /\ rest * l >= 0
    <2>1. l \in Ints /\ r \in Ints /\ outcome = CheckedDiv(l, r) /\ outcome.ok
      BY <1>1, <1>4 DEF Gave, IntOp
    <2>2. l \in Int /\ r \in Int
      BY <2>1, Width
    <2>3. r # 0
      BY <1>2, <2>1 DEF CheckedDiv
    <2> DEFINE q == TruncDiv(l, r)
    <2>4. outcome = Checked(q, "Divide")
      BY <2>1, <2>3 DEF CheckedDiv
    <2>5. q \in Ints /\ outcome.value.int = q
      BY <2>1, <2>4, CheckedCases
    <2>6. TruncRem(l, r) = l - r * q
      BY DEF TruncRem
    <2> HIDE DEF q
    <2>7. l - outcome.value.int * r = TruncRem(l, r)
      BY <2>2, <2>5, <2>6, Width
    <2> QED
      BY <2>2, <2>3, <2>7, RestOfDivision
  <1>5. ASSUME Gave("Modulo")
        PROVE  /\ CheckedDiv(l, r).value.int * r + outcome.value.int = l
               /\ outcome.value.int * l >= 0
    <2>1. l \in Ints /\ r \in Ints /\ outcome = CheckedRem(l, r) /\ outcome.ok
      BY <1>1, <1>5 DEF Gave, IntOp
    <2>2. l \in Int /\ r \in Int
      BY <2>1, Width
    <2>3. r # 0 /\ ~DivOverflows(l, r) /\ outcome.value.int = TruncRem(l, r)
      BY <1>2, <1>3, <2>1 DEF CheckedRem
    <2> DEFINE q == TruncDiv(l, r)
    <2>4. q \in Ints
      BY <2>1, <2>3, QuotientFits
    <2>5. CheckedDiv(l, r).value.int = q
      BY <1>3, <2>3, <2>4 DEF CheckedDiv, Checked
    <2>6. TruncRem(l, r) = l - r * q
      BY DEF TruncRem
    <2> HIDE DEF q
    <2>7. q \in Int
      BY <2>4, Width
    <2>8. q * r + (l - r * q) = l
      BY <2>2, <2>7
    <2> QED
      BY <2>2, <2>3, <2>5, <2>6, <2>8, RestOfDivision
  <1>6. ASSUME Gave("Remainder")
        PROVE  /\ outcome.value.int \in 0 .. Magnitude(r) - 1
               /\ (l - outcome.value.int) % Magnitude(r) = 0
    <2>1. l \in Ints /\ r \in Ints /\ outcome = CheckedRemEuclid(l, r) /\ outcome.ok
      BY <1>1, <1>6 DEF Gave, IntOp
    <2>2. l \in Int /\ r \in Int
      BY <2>1, Width
    <2>3. r # 0 /\ outcome.value.int = l % Magnitude(r)
      BY <1>2, <1>3, <2>1 DEF CheckedRemEuclid, EuclidRem
    <2>4. Magnitude(r) \in Nat /\ Magnitude(r) > 0
      BY <2>2, <2>3 DEF Magnitude
    <2> QED
      BY <2>2, <2>3, <2>4, RestOfEuclid
  <1> QED
    BY <1>4, <1>5, <1>6 DEF DivisionLaws, l, r

\* What floor, ceiling and round answer obeys their laws.
LEMMA RoundingLawsFollow ==
    AnswersCall => RoundingLaws
  <1> SUFFICES ASSUME AnswersCall PROVE RoundingLaws
    OBVIOUS
  <1> DEFINE v == Arg(1)
             p == Precision
  <1>1. ASSUME OnIntegers, Returned, outcome.ok \/ outcome.error = "IntegerOverflow",
               call.op \in RoundingFuncs
        PROVE  v \in Ints /\ p \in Int /\ outcome = RoundInteger(call.op, v, p)
    BY <1>1, RoundingCallOnIntegers DEF AnswersCall, OnIntegers, AllIntegers, Arg, Precision
  <1> HIDE DEF v, p
  <1>2. ASSUME NEW op \in RoundingFuncs, Gave(op)
        PROVE  v \in Ints /\ p \in Int /\ p > 0 /\ RoundedWell(op, v, p, outcome.value.int)
    BY <1>1, <1>2, RoundingOfIntegers DEF Gave
  <1>3. ASSUME Returned, call.op \in RoundingFuncs, OnIntegers, outcome.ok \/ Overflowed
        PROVE  outcome.ok <=> Fits(call.op, v, p)
    BY <1>1, <1>3, RoundingOfIntegers DEF Overflowed
  <1>4. "Floor" \in RoundingFuncs /\ "Ceiling" \in RoundingFuncs /\ "Round" \in RoundingFuncs
    BY DEF RoundingFuncs
  <1>5. RoundsToMultiple
    BY <1>2, <1>4 DEF RoundsToMultiple, RoundedWell, v, p
  <1>6. OverflowsAtTheEdge
    BY <1>3 DEF OverflowsAtTheEdge, v, p
  <1> QED
    BY <1>5, <1>6 DEF RoundingLaws

\* On integers, the bitwise operators are those of integers.
LEMMA BitsOfIntegers ==
    ASSUME NEW c \in Calls, AllIntegers(c.vals), NEW o \in CallOutcomes(c), o.ok,
           c.op \in {"BitwiseNot"} \cup BitwiseOps \cup ShiftOps
    PROVE  LET l == c.vals[1].int
               r == c.vals[2].int
           IN  /\ l \in Ints
               /\ c.op = "BitwiseNot" => o \in {Ok(Int64(i)) : i \in BitNot(l)}
               /\ c.op # "BitwiseNot" => r \in Ints
               /\ c.op \in BitwiseOps => o \in {Ok(Int64(i)) : i \in IntBits(c.op, l, r)}
               /\ c.op \in ShiftOps => r \in 0 .. Bits - 1
               /\ c.op = "BitshiftLeft" => o \in {Ok(Int64(i)) : i \in ShiftedLeft(l, r)}
               /\ c.op = "BitshiftRight" => o \in {Ok(Int64(i)) : i \in ShiftedRight(l, r)}
  <1> DEFINE l == c.vals[1].int
             r == c.vals[2].int
  <1>1. IsCall(c)
    BY CallsAssumption
  <1>2. CASE c.op = "BitwiseNot"
    <2>1. c.family = "unary" /\ Len(c.vals) = 1
      BY <1>1, <1>2
      DEF IsCall, BinaryOps, ComparisonOps, MathOps, BitwiseOps, ShiftOps, LogicalOps,
          Funcs, NaryFuncs, RoundingFuncs, BinaryFuncs, UnaryFuncs
    <2>2. o \in ApplyUnary(c.op, c.vals[1])
      BY <2>1 DEF CallOutcomes
    <2>3. o \in ApplyBitwiseNot(c.vals[1])
      BY <1>2, <2>2 DEF ApplyUnary
    <2>4. IsInt(c.vals[1]) /\ l \in Ints
      BY <2>1, OperandsAreIntegers
    <2>5. o \in {Ok(Int64(i)) : i \in BitNot(l)}
      BY <2>3, <2>4, IntegerIsNoOther, Zenon DEF ApplyBitwiseNot
    <2> QED
      BY <1>2, <2>4, <2>5 DEF BitwiseOps, ShiftOps
  <1>3. CASE c.op \in BitwiseOps \cup ShiftOps
    <2>1. c.family = "binary" /\ Len(c.vals) = 2
      BY <1>1, <1>3
      DEF IsCall, UnaryOps, BitwiseOps, ShiftOps,
          Funcs, NaryFuncs, RoundingFuncs, BinaryFuncs, UnaryFuncs
    <2>2. o \in ApplyBinary(c.op, c.vals[1], c.vals[2])
      BY <2>1 DEF CallOutcomes
    <2>3. IsInt(c.vals[1]) /\ l \in Ints /\ IsInt(c.vals[2]) /\ r \in Ints
      BY <2>1, OperandsAreIntegers
    <2>4. CASE c.op \in BitwiseOps
      <3>1. o \in ApplyBitwise(c.op, c.vals[1], c.vals[2])
        <4>1. c.op \notin ComparisonOps \cup MathOps \cup ShiftOps \cup LogicalOps
          BY <2>4 DEF ComparisonOps, MathOps, BitwiseOps, ShiftOps, LogicalOps
        <4> QED
          BY <2>2, <2>4, <4>1 DEF ApplyBinary
      <3>2. o \in {Ok(Int64(i)) : i \in IntBits(c.op, l, r)}
        BY <2>3, <3>1, IntegerIsNoOther, Zenon DEF ApplyBitwise
      <3> QED
        BY <2>3, <2>4, <3>2 DEF BitwiseOps, ShiftOps
    <2>5. CASE c.op \in ShiftOps
      <3>1. o \in ApplyShift(c.op, c.vals[1], c.vals[2])
        <4>1. c.op \notin ComparisonOps \cup MathOps \cup BitwiseOps \cup LogicalOps
          BY <2>5 DEF ComparisonOps, MathOps, BitwiseOps, ShiftOps, LogicalOps
        <4> QED
          BY <2>2, <2>5, <4>1 DEF ApplyBinary
      <3>2. o \in IF c.op = "BitshiftLeft" THEN CheckedShl(l, r) ELSE CheckedShr(l, r)
        BY <2>3, <3>1 DEF ApplyShift
      <3>3. o # Err("InvalidShiftCount")
        BY DEF Err
      <3>4. /\ ShiftCountOk(r)
            /\ o \in IF c.op = "BitshiftLeft" THEN {Ok(Int64(i)) : i \in ShiftedLeft(l, r)}
                     ELSE {Ok(Int64(i)) : i \in ShiftedRight(l, r)}
        BY <3>2, <3>3, Zenon DEF CheckedShl, CheckedShr
      <3>5. r \in 0 .. Bits - 1
        BY <2>3, <3>4, Width, BitsAssumption DEF ShiftCountOk
      <3> QED
        BY <2>3, <2>5, <3>4, <3>5 DEF BitwiseOps, ShiftOps
    <2> QED
      BY <1>3, <2>4, <2>5
  <1> QED
    BY <1>2, <1>3

\* Every call of a bitwise operator obeys its law.
LEMMA BitLawsFollow ==
    AnswersCall => BitLaws
  <1> SUFFICES ASSUME AnswersCall PROVE BitLaws
    OBVIOUS
  <1> DEFINE l == Arg(1)
             r == Arg(2)
             out == outcome.value.int
             BitOps == {"BitwiseNot"} \cup BitwiseOps \cup ShiftOps
  <1>1. ASSUME NEW op \in BitOps, Gave(op)
        PROVE  /\ l \in Ints
               /\ op = "BitwiseNot" => outcome \in {Ok(Int64(i)) : i \in BitNot(l)}
               /\ op # "BitwiseNot" => r \in Ints
               /\ op \in BitwiseOps => outcome \in {Ok(Int64(i)) : i \in IntBits(op, l, r)}
               /\ op \in ShiftOps => r \in 0 .. Bits - 1
               /\ op = "BitshiftLeft" => outcome \in {Ok(Int64(i)) : i \in ShiftedLeft(l, r)}
               /\ op = "BitshiftRight" => outcome \in {Ok(Int64(i)) : i \in ShiftedRight(l, r)}
    BY <1>1, BitsOfIntegers DEF AnswersCall, Gave, OnIntegers, AllIntegers, Arg
  <1>2. \A i : Ok(Int64(i)).value.int = i
    BY DEF Ok, Int64
  <1> HIDE DEF l, r, out
  <1>3. ASSUME Gave("BitwiseNot")
        PROVE  out = -l - 1
    <2>1. l \in Ints /\ out \in BitNot(l)
      BY <1>1, <1>2, <1>3 DEF out
    <2> QED
      BY <2>1, NotSums
  <1>4. ASSUME Gave("BitwiseOr"), NEW both \in BitAnd(l, r)
        PROVE  out + both = l + r
    <2>1. l \in Ints /\ r \in Ints /\ out \in BitOr(l, r)
      BY <1>1, <1>2, <1>4 DEF BitwiseOps, IntBits, out
    <2> QED
      BY <1>4, <2>1, OrSums
  <1>5. ASSUME Gave("BitwiseXor"), NEW both \in BitAnd(l, r)
        PROVE  out + 2 * both = l + r
    <2>1. l \in Ints /\ r \in Ints /\ out \in BitXor(l, r)
      BY <1>1, <1>2, <1>5 DEF BitwiseOps, IntBits, out
    <2> QED
      BY <1>5, <2>1, XorSums
  <1>6. ASSUME Gave("BitshiftLeft")
        PROVE  BitsOf(out) = {k + r : k \in BitsOf(l)} \cap 0 .. Bits - 1
    <2>1. l \in Ints /\ r \in 0 .. Bits - 1 /\ out \in ShiftedLeft(l, r) /\ out \in Ints
      BY <1>1, <1>2, <1>6 DEF ShiftOps, ShiftedLeft, out
    <2>2. ASSUME NEW k \in 0 .. Bits - 1
          PROVE  k \in BitsOf(out) <=> k \in {j + r : j \in BitsOf(l)}
      <3>1. k \in BitsOf(out) <=> Bit(out, k) = 1
        BY <2>1, BitByBit
      <3>2. Bit(out, k) = IF k < r THEN 0 ELSE Bit(l, k - r)
        BY <2>1, LeftMoves
      <3>3. CASE k < r
        <4>1. \A j \in BitsOf(l) : j + r >= r
          BY <2>1, BitsAssumption DEF BitsOf
        <4> QED
          BY <2>1, <3>1, <3>2, <3>3, <4>1, BitsAssumption
      <3>4. CASE ~(k < r)
        <4>1. k - r \in 0 .. Bits - 1 /\ (k - r) + r = k
          BY <2>1, <3>4, BitsAssumption
        <4>2. k - r \in BitsOf(l) <=> Bit(l, k - r) = 1
          BY <2>1, <4>1, BitByBit
        <4>3. \A j \in BitsOf(l) : j + r = k => j = k - r
          BY <2>1, <4>1, BitsAssumption DEF BitsOf
        <4> QED
          BY <3>1, <3>2, <3>4, <4>1, <4>2, <4>3
      <3> QED
        BY <3>3, <3>4
    <2>3. BitsOf(out) \subseteq 0 .. Bits - 1
      BY DEF BitsOf
    <2> QED
      BY <2>2, <2>3
  <1>7. ASSUME Gave("BitshiftRight")
        PROVE  BitsOf(out) = ({k - r : k \in BitsOf(l)} \cap 0 .. Bits - 1)
                             \cup (IF l < 0 THEN Bits - r .. Bits - 1 ELSE {})
    <2>1. l \in Ints /\ r \in 0 .. Bits - 1 /\ out \in ShiftedRight(l, r) /\ out \in Ints
      BY <1>1, <1>2, <1>7 DEF ShiftOps, ShiftedRight, out
    <2>2. ASSUME NEW k \in 0 .. Bits - 1
          PROVE  k \in BitsOf(out) <=> \/ k \in {j - r : j \in BitsOf(l)}
                                       \/ l < 0 /\ k \in Bits - r .. Bits - 1
      <3>1. k \in BitsOf(out) <=> Bit(l, k + r) = 1
        BY <2>1, BitByBit, RightMoves
      <3>2. CASE k + r =< Bits - 1
        <4>1. k + r \in 0 .. Bits - 1 /\ (k + r) - r = k /\ k \notin Bits - r .. Bits - 1
          BY <2>1, <3>2, BitsAssumption
        <4>2. k + r \in BitsOf(l) <=> Bit(l, k + r) = 1
          BY <2>1, <4>1, BitByBit
        <4>3. \A j \in BitsOf(l) : j - r = k => j = k + r
          BY <2>1, <4>1, BitsAssumption DEF BitsOf
        <4> QED
          BY <3>1, <4>1, <4>2, <4>3
      <3>3. CASE ~(k + r =< Bits - 1)
        <4>1. k + r \in Nat /\ k + r >= Bits - 1 /\ k \in Bits - r .. Bits - 1
          BY <2>1, <3>3, BitsAssumption
        <4>2. Bit(l, k + r) = IF l < 0 THEN 1 ELSE 0
          BY <2>1, <4>1, SignBit
        <4>3. \A j \in BitsOf(l) : j - r # k
          BY <2>1, <3>3, BitsAssumption DEF BitsOf
        <4> QED
          BY <3>1, <4>1, <4>2, <4>3
      <3> QED
        BY <3>2, <3>3
    <2>3. BitsOf(out) \subseteq 0 .. Bits - 1
      BY DEF BitsOf
    <2>4. Bits - r .. Bits - 1 \subseteq 0 .. Bits - 1
      BY <2>1, BitsAssumption
    <2> QED
      BY <2>2, <2>3, <2>4
  <1> QED
    BY <1>3, <1>4, <1>5, <1>6, <1>7 DEF BitLaws, l, r, out

\* Whatever it returns, a call returns an outcome of its operator.
LEMMA CallsAreAnswered == CallSpec => []AnswersCall
<1>1. CallInit => AnswersCall
  BY DEF CallInit, AnswersCall, Returned
<1>2. AnswersCall /\ [Return]_callVars => AnswersCall'
  BY DEF AnswersCall, Return, Returned, callVars
<1>3. QED
  BY <1>1, <1>2, PTL DEF CallSpec

\* / and % of integers round toward zero and rebuild the dividend, rem lies
\* between 0 and the divisor (checked_div_i64, checked_rem_i64,
\* checked_rem_euclid_i64), for all operands and at every width.
THEOREM DivisionIsLawful == CallSpec => []DivisionLaws
  BY CallsAreAnswered, DivisionLawsFollow, PTL

\* floor and round of integers return the multiple on their side of the value
\* exactly when it fits the width, ceiling exactly when both its multiple and the
\* floor it starts from fit; otherwise they overflow (floor_i64, ceiling_i64,
\* round_i64), for all operands and at every width.
THEOREM RoundingIsLawful == CallSpec => []RoundingLaws
  BY CallsAreAnswered, RoundingLawsFollow, PTL

\* Bitwise operators agree with the arithmetic of two's complement, shifts with
\* moving bits (apply_bitwise_not, apply_bitshift_operation, and & | ^ in eval.rs), for
\* all operands and at every width.
THEOREM BitsAreLawful == CallSpec => []BitLaws
  BY CallsAreAnswered, BitLawsFollow, PTL
=============================================================================
