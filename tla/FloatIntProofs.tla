--------------------------- MODULE FloatIntProofs ---------------------------
(***************************************************************************)
(* Proofs about FloatInt, for every width of the integers, every binary    *)
(* float format too short for them, and all calls: comparing an integer    *)
(* with a float never turns the order around, min and max of both are as   *)
(* near to the extreme as floats allow, and floor and ceiling of a float   *)
(* give the multiple of the precision next to it.                          *)
(*                                                                         *)
(* The first two rest on three facts about Nearest: it does not cross a    *)
(* multiple of the number's step, so it is monotone; it is exact for short *)
(* integers; and no other float is nearer.  The third rests on how far a   *)
(* quotient of short numbers is from the whole numbers next to it.         *)
(***************************************************************************)
EXTENDS FloatInt, TLAPS

\* The operators on integers, for what is known of numbers there.
Ops == INSTANCE OpLawsProofs
    WITH MaxExponent <- 0, Calls <- {}, call <- <<>>, outcome <- <<>>

-----------------------------------------------------------------------------
(* Powers of two.                                                          *)

\* FloatInt counts in the same powers of two.
LEMMA SamePowers == Ops!PowerOfTwo = PowerOfTwo
BY DEF Ops!PowerOfTwo, PowerOfTwo

\* The instance is one of a width and of an exponent it may have.
LEMMA OpsAssumptions == Ops!BitsAssumption /\ Ops!MaxExponentAssumption /\ Ops!CallsAssumption
BY FormatAssumption DEF Ops!BitsAssumption, Ops!MaxExponentAssumption, Ops!CallsAssumption

\* A power is twice the one before it.
LEMMA PowersOfTwo ==
  /\ PowerOfTwo[0] = 1
  /\ \A n \in Nat : PowerOfTwo[n] \in Nat \ {0} /\ PowerOfTwo[n + 1] = 2 * PowerOfTwo[n]
BY SamePowers, OpsAssumptions, Ops!PowersOfTwo

\* The powers multiply.
LEMMA PowersMultiply ==
  ASSUME NEW m \in Nat, NEW n \in Nat
  PROVE  PowerOfTwo[m + n] = PowerOfTwo[m] * PowerOfTwo[n]
BY SamePowers, OpsAssumptions, Ops!PowersMultiply

\* A set of natural numbers that is not empty has a least element.
LEMMA LeastNumber ==
  ASSUME NEW S \in SUBSET Nat, S # {}
  PROVE  \E m \in S : \A k \in S : m =< k
BY OpsAssumptions, Ops!LeastNumber

\* Division by a positive number rounds down.
LEMMA Division ==
  ASSUME NEW a \in Int, NEW b \in Int, b > 0
  PROVE  a = b * (a \div b) + (a % b) /\ a % b \in 0 .. b - 1 /\ a \div b \in Int
<1>1. a % b \in 0 .. b - 1 /\ a \div b \in Int
  OBVIOUS
<1>2. a = b * (a \div b) + (a % b)
  OBVIOUS
<1>3. QED
  BY <1>1, <1>2

\* A power of two is a multiple of each lower one, and at least twice it.
LEMMA PowersGrow ==
  ASSUME NEW m \in Nat, NEW n \in Nat, m =< n
  PROVE  /\ n - m \in Nat /\ PowerOfTwo[m] \in Nat \ {0} /\ PowerOfTwo[n] \in Nat \ {0}
         /\ PowerOfTwo[n - m] \in Nat \ {0}
         /\ PowerOfTwo[n] = PowerOfTwo[m] * PowerOfTwo[n - m]
         /\ PowerOfTwo[m] =< PowerOfTwo[n]
         /\ m < n => 2 * PowerOfTwo[m] =< PowerOfTwo[n]
<1>1. n - m \in Nat /\ m + (n - m) = n
  OBVIOUS
<1>2. /\ PowerOfTwo[m] \in Nat \ {0} /\ PowerOfTwo[n] \in Nat \ {0}
      /\ PowerOfTwo[n - m] \in Nat \ {0}
  BY <1>1, PowersOfTwo
<1>3. PowerOfTwo[n] = PowerOfTwo[m] * PowerOfTwo[n - m]
  <2>1. PowerOfTwo[m + (n - m)] = PowerOfTwo[m] * PowerOfTwo[n - m]
    BY <1>1, PowersMultiply
  <2>2. QED
    BY <1>1, <2>1
<1>4. ASSUME NEW a \in Nat \ {0}, NEW b \in Nat \ {0} PROVE a =< a * b
  <2>1. a * b = a + a * (b - 1) /\ a * (b - 1) >= 0
    OBVIOUS
  <2>2. QED
    BY <2>1
<1>5. PowerOfTwo[m] =< PowerOfTwo[n]
  BY <1>2, <1>3, <1>4
<1>6. ASSUME m < n PROVE 2 * PowerOfTwo[m] =< PowerOfTwo[n]
  <2>1. n - m - 1 \in Nat /\ n - m = (n - m - 1) + 1
    BY <1>6
  <2>2. /\ PowerOfTwo[n - m - 1] \in Nat \ {0}
        /\ PowerOfTwo[n - m] = 2 * PowerOfTwo[n - m - 1]
    BY <2>1, PowersOfTwo
  <2> DEFINE a == PowerOfTwo[m]
             b == PowerOfTwo[n - m - 1]
  <2>3. a =< a * b /\ a \in Nat /\ b \in Nat
    BY <1>2, <1>4, <2>2
  <2>4. PowerOfTwo[n] = a * (2 * b)
    BY <1>3, <2>2
  <2> HIDE DEF a, b
  <2>5. a * (2 * b) = 2 * (a * b) /\ a * b \in Nat
    BY <2>3
  <2>6. 2 * a =< PowerOfTwo[n]
    BY <2>3, <2>4, <2>5
  <2>7. QED
    BY <2>6 DEF a
<1>7. QED
  BY <1>1, <1>2, <1>3, <1>5, <1>6

-----------------------------------------------------------------------------
(* Rounding to a float.                                                    *)

\* The format.
LEMMA FormatFacts ==
  /\ Significant \in Nat \ {0} /\ MaxOrder \in Nat
  /\ Limit = PowerOfTwo[Significant + MaxOrder] /\ Limit \in Nat \ {0}
  /\ One \in Nat \ {0} /\ \E k \in 0 .. MaxOrder : One = PowerOfTwo[k]
<1>1. /\ Significant \in Nat \ {0} /\ MaxOrder \in Nat
      /\ Limit = PowerOfTwo[Significant + MaxOrder]
      /\ \E k \in 0 .. MaxOrder : One = PowerOfTwo[k]
  BY FormatAssumption DEF Limit
<1>2. QED
  BY <1>1, PowersOfTwo

\* The integers end before the floats.
LEMMA FarFromTheEnd ==
  /\ PowerOfTwo[Bits - 1] \in Nat \ {0} /\ PowerOfTwo[Bits - 1] * One \in Nat
  /\ PowerOfTwo[Bits - 1] * One < Limit
<1>1. Bits - 1 \in Nat /\ PowerOfTwo[Bits - 1] * One < Limit
  BY FormatAssumption
<1>2. PowerOfTwo[Bits - 1] \in Nat \ {0}
  BY <1>1, PowersOfTwo
<1>3. QED
  BY <1>1, <1>2, FormatFacts

\* The numbers that floats do not end before.
InFormat(n) == n \in Int /\ Abs(n) < Limit

\* e is the order of n: n takes Significant bits after e, and no fewer.
HasOrder(n, e) ==
  /\ e \in 0 .. MaxOrder
  /\ Abs(n) < PowerOfTwo[Significant + e]
  /\ e = 0 \/ PowerOfTwo[Significant + e - 1] =< Abs(n)

\* A number of the format has one order, which is the one Order takes.
LEMMA OrderFacts ==
  ASSUME NEW n, InFormat(n)
  PROVE  /\ HasOrder(n, Order(n, 1))
         /\ \A e : HasOrder(n, e) => e = Order(n, 1)
         /\ Step(n, 1) = PowerOfTwo[Order(n, 1)]
         /\ Step(n, 1) \in Nat \ {0}
<1> DEFINE S == {e \in Nat : e =< MaxOrder /\ Abs(n) < PowerOfTwo[Significant + e]}
           a == Abs(n)
<1>1. a \in Nat /\ Significant \in Nat \ {0} /\ MaxOrder \in Nat
  BY FormatFacts DEF InFormat, Abs
<1>2. MaxOrder \in S
  BY <1>1, FormatFacts DEF InFormat
<1>3. PICK e \in S : \A f \in S : e =< f
  <2>1. S \in SUBSET Nat /\ S # {}
    BY <1>2
  <2> HIDE DEF S
  <2>2. QED
    BY <2>1, LeastNumber
<1>4. HasOrder(n, e)
  <2>1. ASSUME e # 0
        PROVE  PowerOfTwo[Significant + e - 1] =< a
    <3>1. e - 1 \in Nat /\ e - 1 =< MaxOrder /\ e - 1 \notin S /\ Significant + e - 1 = Significant + (e - 1)
      BY <1>1, <1>3, <2>1
    <3>2. ~(a < PowerOfTwo[Significant + e - 1])
      BY <3>1
    <3>3. PowerOfTwo[Significant + e - 1] \in Nat
      BY <1>1, <3>1, PowersOfTwo
    <3>4. QED
      BY <1>1, <3>2, <3>3
  <2>2. QED
    BY <1>1, <1>3, <2>1 DEF HasOrder
<1>5. Order(n, 1) = CHOOSE f \in 0 .. MaxOrder : HasOrder(n, f)
  <2>1. \A f \in 0 .. MaxOrder :
           /\ PowerOfTwo[Significant + f] * 1 = PowerOfTwo[Significant + f]
           /\ f # 0 => PowerOfTwo[Significant + f - 1] * 1 = PowerOfTwo[Significant + f - 1]
    <3>1. \A f \in 0 .. MaxOrder : Significant + f \in Nat /\ (f # 0 => Significant + f - 1 \in Nat)
      BY <1>1
    <3>2. QED
      BY <3>1, PowersOfTwo
  <2>2. \A f \in 0 .. MaxOrder :
          HasOrder(n, f) <=> /\ Abs(n) < PowerOfTwo[Significant + f] * 1
                             /\ f = 0 \/ PowerOfTwo[Significant + f - 1] * 1 =< Abs(n)
    BY <2>1 DEF HasOrder
  <2>3. QED
    BY <2>2 DEF Order
<1>6. HasOrder(n, Order(n, 1))
  BY <1>4, <1>5 DEF HasOrder
<1>7. ASSUME NEW f, NEW g, HasOrder(n, f), HasOrder(n, g)
      PROVE  ~(f < g)
  <2>1. SUFFICES ASSUME f < g PROVE FALSE
    OBVIOUS
  <2>2. /\ f \in Nat /\ g \in Nat /\ Significant + f \in Nat /\ Significant + g - 1 \in Nat
        /\ Significant + f =< Significant + g - 1 /\ g # 0
    BY <1>1, <1>7, <2>1 DEF HasOrder
  <2>3. PowerOfTwo[Significant + f] =< PowerOfTwo[Significant + g - 1]
    BY <2>2, PowersGrow
  <2>4. PowerOfTwo[Significant + f] \in Nat /\ PowerOfTwo[Significant + g - 1] \in Nat
    BY <2>2, PowersOfTwo
  <2>5. a < PowerOfTwo[Significant + f] /\ PowerOfTwo[Significant + g - 1] =< a
    BY <1>7, <2>2 DEF HasOrder
  <2> HIDE DEF a
  <2>6. QED
    BY <1>1, <2>3, <2>4, <2>5
<1>8. \A f : HasOrder(n, f) => f = Order(n, 1)
  <2>1. \A f : HasOrder(n, f) => f \in Nat
    BY <1>1 DEF HasOrder
  <2>2. ASSUME NEW f, HasOrder(n, f)
        PROVE  f = Order(n, 1)
    <3>1. f \in Nat /\ Order(n, 1) \in Nat
      BY <1>6, <2>1, <2>2
    <3>2. ~(f < Order(n, 1)) /\ ~(Order(n, 1) < f)
      BY <1>6, <1>7, <2>2
    <3>3. QED
      BY <3>1, <3>2
  <2>3. QED
    BY <2>2
<1>9. /\ Step(n, 1) = PowerOfTwo[Order(n, 1)]
      /\ Step(n, 1) \in Nat \ {0}
  BY <1>6, PowersOfTwo DEF Step, HasOrder
<1>10. QED
  BY <1>6, <1>8, <1>9

\* The float nearest to a number is the multiple of its step below it or the
\* one above it.
LEMMA NearestFacts ==
  ASSUME NEW n, InFormat(n)
  PROVE  LET s == Step(n, 1)
             low == n \div s
             rest == n % s
             up == 2 * rest > s \/ (2 * rest = s /\ low % 2 = 1)
         IN  /\ n \in Int /\ s \in Nat \ {0}
             /\ low \in Int /\ rest \in 0 .. s - 1 /\ n = low * s + rest
             /\ Nearest(n, 1) = (IF up THEN low + 1 ELSE low) * s
<1> DEFINE s == Step(n, 1)
           low == n \div s
           rest == n % s
           up == 2 * rest > s \/ (2 * rest = s /\ low % 2 = 1)
<1>1. n \in Int /\ s \in Nat \ {0}
  BY OrderFacts DEF InFormat
<1>2. low \in Int /\ rest \in 0 .. s - 1 /\ n = low * s + rest
  <2> HIDE DEF s
  <2>1. low \in Int /\ rest \in 0 .. s - 1 /\ n = s * low + rest
    BY <1>1, Division
  <2> HIDE DEF low, rest
  <2>2. s * low = low * s
    BY <1>1, <2>1
  <2>3. QED
    BY <2>1, <2>2
<1>3. 1 * s = s /\ low * 1 * s = low * s /\ 2 * (n - low * s) = 2 * rest
  <2> HIDE DEF s, low, rest
  <2>1. low * s \in Int
    BY <1>1, <1>2
  <2>2. QED
    BY <1>1, <1>2, <2>1
<1>4. Nearest(n, 1) = (IF up THEN low + 1 ELSE low) * s
  BY <1>3 DEF Nearest
<1>5. QED
  BY <1>1, <1>2, <1>4

\* It does not lie beyond another multiple of the step.
LEMMA RoundsToMultiples ==
  ASSUME NEW n, InFormat(n), NEW k \in Int
  PROVE  LET s == Step(n, 1)
             r == Nearest(n, 1)
         IN  /\ \E j \in Int : r = j * s
             /\ n =< k * s => r =< k * s
             /\ n >= k * s => r >= k * s
             /\ n = k * s => r = n
<1> DEFINE s == Step(n, 1)
           low == n \div s
           rest == n % s
           r == Nearest(n, 1)
           up == 2 * rest > s \/ (2 * rest = s /\ low % 2 = 1)
<1>1. /\ n \in Int /\ s \in Nat /\ s > 0
      /\ low \in Int /\ rest \in 0 .. s - 1 /\ n = low * s + rest
      /\ r = (IF up THEN low + 1 ELSE low) * s
  BY NearestFacts
<1>2. r = low * s \/ (r = (low + 1) * s /\ rest # 0)
  <2>1. up => rest # 0
    <3> HIDE DEF s, low, rest
    <3>1. QED
      BY <1>1
  <2> HIDE DEF up
  <2>2. QED
    BY <1>1, <2>1
<1>3. low \in Int /\ rest \in 0 .. s - 1 /\ n = low * s + rest
  BY <1>1
<1> HIDE DEF s, low, rest, r
<1>4. \E j \in Int : r = j * s
  BY <1>2, <1>3
<1>5. ASSUME NEW j \in Int, NEW i \in Int, j =< i
      PROVE  j * s =< i * s
  <2>1. (i - j) * s >= 0 /\ (i - j) * s = i * s - j * s
    BY <1>1, <1>5
  <2>2. j * s \in Int /\ i * s \in Int
    BY <1>1
  <2>3. QED
    BY <2>1, <2>2
<1>6. low * s \in Int /\ k * s \in Int /\ (low + 1) * s = low * s + s /\ (k + 1) * s = k * s + s
  BY <1>1, <1>3
<1>7. low * s =< n /\ n < (low + 1) * s /\ (rest # 0 => low * s < n)
  BY <1>1, <1>3, <1>6
<1>8. ASSUME n >= k * s
      PROVE  r >= k * s
  <2>1. k =< low
    <3>1. SUFFICES ASSUME low + 1 =< k PROVE FALSE
      BY <1>3
    <3>2. (low + 1) * s =< k * s
      BY <1>3, <1>5, <3>1
    <3>3. QED
      BY <1>1, <1>6, <1>7, <1>8, <3>2
  <2>2. k * s =< low * s
    BY <1>3, <1>5, <2>1
  <2>3. QED
    BY <1>1, <1>2, <1>6, <2>2
<1>9. ASSUME n =< k * s
      PROVE  r =< k * s
  <2>1. CASE rest = 0
    <3>1. r = low * s
      BY <1>2, <2>1
    <3>2. QED
      BY <1>1, <1>6, <1>7, <1>9, <3>1
  <2>2. CASE rest # 0
    <3>1. low + 1 =< k
      <4>1. SUFFICES ASSUME k =< low PROVE FALSE
        BY <1>3
      <4>2. k * s =< low * s
        BY <1>3, <1>5, <4>1
      <4>3. QED
        BY <1>1, <1>6, <1>7, <1>9, <2>2, <4>2
    <3>2. (low + 1) * s =< k * s
      BY <1>3, <1>5, <3>1
    <3>3. QED
      BY <1>1, <1>2, <1>6, <3>2
  <2>3. QED
    BY <2>1, <2>2
<1>10. r \in Int
  BY <1>1, <1>2, <1>3, <1>6
<1>11. QED
  BY <1>1, <1>4, <1>6, <1>8, <1>9, <1>10 DEF s, r

\* The limits of an order are multiples of the step.
LEMMA StepBounds ==
  ASSUME NEW e \in Nat
  PROVE  /\ PowerOfTwo[Significant + e] = PowerOfTwo[Significant] * PowerOfTwo[e]
         /\ Significant + e - 1 \in Nat
         /\ PowerOfTwo[Significant + e - 1] = PowerOfTwo[Significant - 1] * PowerOfTwo[e]
         /\ PowerOfTwo[Significant + e] = 2 * PowerOfTwo[Significant + e - 1]
         /\ PowerOfTwo[Significant] \in Nat \ {0} /\ PowerOfTwo[Significant - 1] \in Nat \ {0}
         /\ PowerOfTwo[e] \in Nat \ {0}
         /\ PowerOfTwo[Significant + e - 1] \in Nat \ {0}
<1>1. /\ Significant \in Nat /\ Significant - 1 \in Nat /\ Significant + e - 1 \in Nat
      /\ Significant + e - 1 = (Significant - 1) + e
      /\ Significant + e = (Significant + e - 1) + 1
  BY FormatFacts
<1>2. /\ PowerOfTwo[Significant] \in Nat \ {0} /\ PowerOfTwo[Significant - 1] \in Nat \ {0}
      /\ PowerOfTwo[e] \in Nat \ {0} /\ PowerOfTwo[Significant + e - 1] \in Nat \ {0}
      /\ PowerOfTwo[(Significant + e - 1) + 1] = 2 * PowerOfTwo[Significant + e - 1]
  BY <1>1, PowersOfTwo
<1>3. PowerOfTwo[Significant + e] = PowerOfTwo[Significant] * PowerOfTwo[e]
  BY <1>1, PowersMultiply
<1>4. PowerOfTwo[(Significant - 1) + e] = PowerOfTwo[Significant - 1] * PowerOfTwo[e]
  BY <1>1, PowersMultiply
<1>5. QED
  BY <1>1, <1>2, <1>3, <1>4

\* It is a whole count of units.
LEMMA NearestIsInteger ==
  ASSUME NEW n, InFormat(n)
  PROVE  Nearest(n, 1) \in Int
<1> DEFINE s == Step(n, 1)
<1>1. PICK j \in Int : Nearest(n, 1) = j * s
  BY RoundsToMultiples, 0 \in Int
<1>2. s \in Int
  BY OrderFacts
<1> HIDE DEF s
<1>3. QED
  BY <1>1, <1>2

\* Rounding keeps the order.
LEMMA RoundingKeepsOrder ==
  ASSUME NEW m, InFormat(m), NEW n, InFormat(n), m =< n
  PROVE  Nearest(m, 1) =< Nearest(n, 1)
<1> DEFINE s(x) == Step(x, 1)
           low(x) == x \div s(x)
           rest(x) == x % s(x)
           up(x) == 2 * rest(x) > s(x) \/ (2 * rest(x) = s(x) /\ low(x) % 2 = 1)
           r(x) == Nearest(x, 1)
           e == Order(m, 1)
           f == Order(n, 1)
<1>1. /\ HasOrder(m, e) /\ HasOrder(n, f)
      /\ s(m) = PowerOfTwo[e] /\ s(n) = PowerOfTwo[f]
      /\ e \in Nat /\ f \in Nat /\ m \in Int /\ n \in Int
      /\ s(m) \in Nat \ {0} /\ s(n) \in Nat \ {0}
      /\ r(m) \in Int /\ r(n) \in Int
  <2>1. /\ HasOrder(m, e) /\ HasOrder(n, f) /\ s(m) = PowerOfTwo[e] /\ s(n) = PowerOfTwo[f]
        /\ s(m) \in Nat \ {0} /\ s(n) \in Nat \ {0}
    BY OrderFacts
  <2>2. (\E j \in Int : r(m) = j * s(m)) /\ (\E j \in Int : r(n) = j * s(n))
    BY RoundsToMultiples, 0 \in Int
  <2>3. r(m) \in Int /\ r(n) \in Int
    <3> HIDE DEF r, s
    <3>1. QED
      BY <2>1, <2>2
  <2>4. QED
    BY <2>1, <2>3, FormatFacts DEF HasOrder, InFormat
<1>2. ASSUME NEW k \in Int
      PROVE  /\ m =< k * s(m) => r(m) =< k * s(m)
             /\ m >= k * s(m) => r(m) >= k * s(m)
             /\ n =< k * s(n) => r(n) =< k * s(n)
             /\ n >= k * s(n) => r(n) >= k * s(n)
  BY RoundsToMultiples
<1> HIDE DEF r, e, f
<1>3. CASE e = f
  <2>1. s(n) = s(m)
    BY <1>1, <1>3
  <2> DEFINE t == s(m)
             a == low(m)
             b == low(n)
             p == rest(m)
             q == rest(n)
  <2>2. /\ a \in Int /\ p \in 0 .. t - 1 /\ m = a * t + p
        /\ r(m) = (IF 2 * p > t \/ (2 * p = t /\ a % 2 = 1) THEN a + 1 ELSE a) * t
    BY NearestFacts DEF r
  <2>3. /\ b \in Int /\ q \in 0 .. t - 1 /\ n = b * t + q
        /\ r(n) = (IF 2 * q > t \/ (2 * q = t /\ b % 2 = 1) THEN b + 1 ELSE b) * t
    BY <2>1, NearestFacts DEF r
  <2>4. t \in Nat /\ t > 0 /\ m \in Int /\ n \in Int /\ m =< n
    BY <1>1
  <2>5. ASSUME NEW x \in Int, NEW y \in Int, NEW z \in Nat, x =< y
        PROVE  x * z =< y * z
    <3>1. (y - x) * z >= 0 /\ (y - x) * z = y * z - x * z
      BY <2>5
    <3>2. x * z \in Int /\ y * z \in Int
      OBVIOUS
    <3>3. QED
      BY <3>1, <3>2
  <2> HIDE DEF t, a, b, p, q
  <2>6. a =< b
    <3>1. SUFFICES ASSUME b + 1 =< a PROVE FALSE
      BY <2>2, <2>3
    <3>2. (b + 1) * t =< a * t /\ (b + 1) * t = b * t + t /\ a * t \in Int /\ b * t \in Int
      BY <2>2, <2>3, <2>4, <2>5, <3>1
    <3>3. QED
      BY <2>2, <2>3, <2>4, <3>2
  <2>7. CASE a = b
    <3>1. p =< q
      <4>1. a * t \in Int
        BY <2>2, <2>4
      <4>2. QED
        BY <2>2, <2>3, <2>4, <2>7, <4>1
    <3> DEFINE x == IF 2 * p > t \/ (2 * p = t /\ a % 2 = 1) THEN a + 1 ELSE a
               y == IF 2 * q > t \/ (2 * q = t /\ b % 2 = 1) THEN b + 1 ELSE b
    <3>2. x \in Int /\ y \in Int /\ x =< y
      BY <2>2, <2>3, <2>4, <2>7, <3>1
    <3>3. r(m) = x * t /\ r(n) = y * t
      BY <2>2, <2>3
    <3> HIDE DEF x, y
    <3>4. x * t =< y * t
      BY <2>4, <2>5, <3>2
    <3>5. QED
      BY <3>3, <3>4 DEF r
  <2>8. CASE a + 1 =< b
    <3> DEFINE x == IF 2 * p > t \/ (2 * p = t /\ a % 2 = 1) THEN a + 1 ELSE a
               y == IF 2 * q > t \/ (2 * q = t /\ b % 2 = 1) THEN b + 1 ELSE b
    <3>1. x \in Int /\ y \in Int /\ x =< y
      BY <2>2, <2>3, <2>8
    <3>2. r(m) = x * t /\ r(n) = y * t
      BY <2>2, <2>3
    <3> HIDE DEF x, y
    <3>3. x * t =< y * t
      BY <2>4, <2>5, <3>1
    <3>4. QED
      BY <3>2, <3>3 DEF r
  <2>9. QED
    BY <2>2, <2>3, <2>6, <2>7, <2>8
<1>4. CASE e < f
  <2> DEFINE top == PowerOfTwo[Significant + f - 1]
  <2>1. /\ top = PowerOfTwo[Significant - 1] * s(n) /\ PowerOfTwo[Significant - 1] \in Int
        /\ top \in Nat \ {0}
    BY <1>1, StepBounds
  <2>2. top =< Abs(n)
    BY <1>1, <1>4 DEF HasOrder
  <2> DEFINE bound == PowerOfTwo[Significant + e]
  <2>3. bound = PowerOfTwo[Significant] * s(m) /\ PowerOfTwo[Significant] \in Int /\ bound \in Nat
    BY <1>1, StepBounds
  <2>4. Abs(m) < bound
    BY <1>1 DEF HasOrder
  <2>5. bound =< top
    <3>1. Significant + e \in Nat /\ Significant + f - 1 \in Nat /\ Significant + e =< Significant + f - 1
      BY <1>1, <1>4, FormatFacts
    <3>2. QED
      BY <3>1, PowersGrow
  <2> HIDE DEF top, bound
  <2>6. n >= top /\ m =< bound
    BY <1>1, <2>1, <2>2, <2>3, <2>4, <2>5 DEF Abs
  <2>7. r(n) >= top
    BY <1>2, <2>1, <2>6
  <2>8. r(m) =< bound
    BY <1>2, <2>3, <2>6
  <2>9. QED
    BY <1>1, <2>1, <2>3, <2>5, <2>7, <2>8 DEF r
<1>5. CASE f < e
  <2> DEFINE top == PowerOfTwo[Significant + e - 1]
             bound == PowerOfTwo[Significant + f]
  <2>1. /\ top = PowerOfTwo[Significant - 1] * s(m) /\ PowerOfTwo[Significant - 1] \in Int
        /\ top \in Nat \ {0}
        /\ bound = PowerOfTwo[Significant] * s(n) /\ PowerOfTwo[Significant] \in Int /\ bound \in Nat
    BY <1>1, StepBounds
  <2>2. top =< Abs(m) /\ Abs(n) < bound
    BY <1>1, <1>5 DEF HasOrder
  <2>3. bound =< top
    <3>1. Significant + f \in Nat /\ Significant + e - 1 \in Nat /\ Significant + f =< Significant + e - 1
      BY <1>1, <1>5, FormatFacts
    <3>2. QED
      BY <3>1, PowersGrow
  <2>4. /\ -top = (-PowerOfTwo[Significant - 1]) * s(m) /\ -PowerOfTwo[Significant - 1] \in Int
        /\ -bound = (-PowerOfTwo[Significant]) * s(n) /\ -PowerOfTwo[Significant] \in Int
    <3> HIDE DEF s
    <3>1. QED
      BY <1>1, <2>1
  <2> HIDE DEF top, bound
  <2>5. m =< -top /\ n >= -bound
    BY <1>1, <2>1, <2>2, <2>3 DEF Abs
  <2>6. r(m) =< -top
    BY <1>2, <2>4, <2>5
  <2>7. r(n) >= -bound
    BY <1>2, <2>4, <2>5
  <2>8. QED
    BY <1>1, <2>1, <2>3, <2>6, <2>7 DEF r
<1>6. QED
  BY <1>1, <1>3, <1>4, <1>5

\* Integers of no more bits than a float has are floats.
LEMMA ShortIntegersAreExact ==
  ASSUME NEW i \in Int, InFormat(i * One),
         Abs(i * One) =< ExactBound
  PROVE  Nearest(i * One, 1) = i * One
<1> DEFINE n == i * One
           s == Step(n, 1)
           e == Order(n, 1)
<1>1. PICK k \in 0 .. MaxOrder : One = PowerOfTwo[k]
  BY FormatFacts
<1>2. /\ k \in Nat /\ e \in Nat /\ HasOrder(n, e) /\ s = PowerOfTwo[e] /\ n \in Int
      /\ Significant \in Nat \ {0}
  BY OrderFacts, FormatFacts DEF HasOrder, InFormat
<1>3. ExactBound = PowerOfTwo[Significant + k]
  BY <1>1, <1>2, PowersMultiply DEF ExactBound
<1> SUFFICES \E j \in Int : n = j * s
  BY RoundsToMultiples
<1>4. CASE e =< k
  <2>1. One = s * PowerOfTwo[k - e] /\ s \in Nat /\ PowerOfTwo[k - e] \in Nat
    BY <1>1, <1>2, <1>4, PowersGrow
  <2> DEFINE j == i * PowerOfTwo[k - e]
  <2>2. j \in Int /\ i * (s * PowerOfTwo[k - e]) = j * s
    <3> HIDE DEF s
    <3>1. QED
      BY <2>1
  <2>3. QED
    BY <2>1, <2>2
<1>5. CASE e > k
  <2> DEFINE top == PowerOfTwo[Significant + e - 1]
  <2>1. /\ Significant + k \in Nat /\ Significant + e - 1 \in Nat
        /\ Significant + k =< Significant + e - 1
        /\ e # k + 1 => Significant + k < Significant + e - 1
        /\ e = k + 1 => Significant + k = Significant + e - 1
    BY <1>2, <1>5
  <2>2. /\ PowerOfTwo[Significant + k] \in Nat \ {0} /\ top \in Nat
        /\ e # k + 1 => 2 * PowerOfTwo[Significant + k] =< top
        /\ e = k + 1 => PowerOfTwo[Significant + k] = top
    BY <2>1, PowersGrow
  <2>3. top =< Abs(n) /\ Abs(n) =< PowerOfTwo[Significant + k]
    BY <1>2, <1>3, <1>5 DEF HasOrder
  <2>4. top = PowerOfTwo[Significant - 1] * s /\ PowerOfTwo[Significant - 1] \in Int
    BY <1>2, StepBounds
  <2>5. -top = (-PowerOfTwo[Significant - 1]) * s /\ -PowerOfTwo[Significant - 1] \in Int
    <3>1. s \in Int
      BY <1>2, PowersOfTwo
    <3> HIDE DEF s
    <3>2. QED
      BY <2>4, <3>1
  <2>6. Abs(n) \in Nat
    BY <1>2 DEF Abs
  <2> HIDE DEF top
  <2>7. Abs(n) = top
    BY <2>2, <2>3, <2>6
  <2>8. n = top \/ n = -top
    BY <1>2, <2>7, <2>2 DEF Abs
  <2>9. QED
    BY <2>4, <2>5, <2>8
<1>6. QED
  BY <1>2, <1>4, <1>5

\* A number as a float.
LEMMA PromotedFacts ==
  ASSUME NEW v, IsNumber(v)
  PROVE  /\ v.at \in Int /\ InFormat(v.at)
         /\ Promoted(v) = Float(Nearest(v.at, 1))
         /\ IsFloat(v) => Nearest(v.at, 1) = v.at
         /\ Shared(v) => Nearest(v.at, 1) = v.at
<1> DEFINE i == v.at \div One
<1>1. One \in Nat \ {0} /\ v.at \in Int /\ Limit \in Nat
  BY FormatFacts DEF IsNumber
<1>2. CASE IsFloat(v)
  BY <1>1, <1>2
  DEF IsNumber, IsFloat, IsF64, Promoted, Float, InFormat
<1>3. CASE ~IsFloat(v)
  <2>1. v.type = "integer" /\ v.at % One = 0 /\ i \in Ints
    BY <1>3 DEF IsNumber, IsFloat
  <2>2. /\ PowerOfTwo[Bits - 1] \in Nat /\ PowerOfTwo[Bits - 1] * One < Limit
        /\ i \in -PowerOfTwo[Bits - 1] .. PowerOfTwo[Bits - 1]
    <3>1. Bits - 1 \in Nat
      BY FormatAssumption
    <3>2. PowerOfTwo[Bits - 1] \in Nat
      BY <3>1, PowersOfTwo
    <3>3. QED
      BY <2>1, <3>2, FarFromTheEnd
      DEF Ints, MinInt, MaxInt
  <2>3. v.at = i * One
    <3>1. v.at = One * i + (v.at % One) /\ i \in Int
      <4>1. One \in Int /\ One > 0 /\ v.at \in Int
        BY <1>1
      <4>2. QED
        BY <4>1, Division
    <3> HIDE DEF i
    <3>2. One * i = i * One /\ i * One \in Int
      BY <1>1, <3>1
    <3>3. QED
      BY <1>1, <2>1, <3>1, <3>2
  <2>4. InFormat(v.at)
    <3> DEFINE b == PowerOfTwo[Bits - 1]
    <3>1. b * One \in Int /\ i * One \in Int /\ i * One =< b * One /\ -(b * One) =< i * One
      <4> HIDE DEF i, b
      <4>1. i \in Int /\ b \in Int /\ (b - i) * One >= 0 /\ (b + i) * One >= 0
        BY <1>1, <2>2 DEF b
      <4>2. (b - i) * One = b * One - i * One /\ (b + i) * One = b * One + i * One
        BY <1>1, <4>1
      <4>3. b * One \in Int /\ i * One \in Int
        BY <1>1, <4>1
      <4>4. QED
        BY <4>1, <4>2, <4>3
    <3> HIDE DEF i
    <3>2. QED
      BY <1>1, <2>2, <2>3, <3>1 DEF InFormat, Abs
  <2>5. AsF64(i) = Nearest(v.at, 1)
    BY <2>3 DEF AsF64
  <2>6. Shared(v) => Nearest(v.at, 1) = v.at
    <3>1. i \in Int
      BY <2>2
    <3> HIDE DEF i
    <3>2. ASSUME Shared(v)
          PROVE  Nearest(i * One, 1) = i * One
      BY <2>1, <2>3, <2>4, <3>1, <3>2, ShortIntegersAreExact DEF Shared
    <3>3. QED
      BY <2>3, <3>2
  <2>7. QED
    BY <1>1, <1>3, <2>4, <2>5, <2>6 DEF Promoted
<1>4. QED
  BY <1>2, <1>3

-----------------------------------------------------------------------------
(* Comparisons.                                                            *)

\* A call has been made and, perhaps, answered.
AnswersCall ==
  call \in Calls /\ outcome \in {Pending, CallOutcome(call)}

\* Whatever it returns, a call of numbers returns its outcome.
LEMMA CallsAreAnswered == Spec => []AnswersCall
<1>1. Init => AnswersCall
  BY DEF Init, AnswersCall
<1>2. AnswersCall /\ [Return]_vars => AnswersCall'
  BY DEF AnswersCall, Return, vars
<1>3. QED
  BY <1>1, <1>2, PTL DEF Spec

\* An answered comparison does not reverse an order.
LEMMA OrderFollows ==
  ASSUME AnswersCall
  PROVE  OrderIsNeverReversed
<1> SUFFICES ASSUME Gave(ComparisonOps)
             PROVE  OrderIsNeverReversed
  BY DEF OrderIsNeverReversed
<1> DEFINE l == call.args[1]
           r == call.args[2]
           near(v) == Nearest(v.at, 1)
           pair == ConvertBinaryValues(l, r)
<1>1. /\ call.op \in ComparisonOps /\ IsNumber(l) /\ IsNumber(r)
      /\ outcome = CallOutcome(call)
  <2>1. /\ call.op \in ComparisonOps /\ IsCall(call)
        /\ outcome = CallOutcome(call)
    BY CallsAssumption DEF AnswersCall, Gave
  <2>2. Len(call.args) = 2
    BY <2>1 DEF IsCall, ComparisonOps
  <2>3. IsNumber(l) /\ IsNumber(r)
    BY <2>1, <2>2 DEF IsCall
  <2>4. QED
    BY <2>1, <2>3
<1>2. outcome.value.bool = Holds(call.op, pair[1].at, pair[2].at)
  <2>1. CallOutcome(call) = ApplyBinaryComparison(call.op, l, r)
    BY <1>1 DEF CallOutcome, ComparisonOps
  <2>2. QED
    BY <1>1, <2>1 DEF ApplyBinaryComparison, Ok, Bool
<1>3. /\ l.at \in Int /\ r.at \in Int /\ near(l) \in Int /\ near(r) \in Int
      /\ l.at =< r.at => near(l) =< near(r)
      /\ r.at =< l.at => near(r) =< near(l)
      /\ Shared(l) => near(l) = l.at
      /\ Shared(r) => near(r) = r.at
  <2>1. /\ InFormat(l.at) /\ InFormat(r.at) /\ l.at \in Int /\ r.at \in Int
        /\ Shared(l) => near(l) = l.at
        /\ Shared(r) => near(r) = r.at
    BY <1>1, PromotedFacts
  <2>2. near(l) \in Int /\ near(r) \in Int
    BY <2>1, NearestIsInteger
  <2>3. QED
    BY <2>1, <2>2, RoundingKeepsOrder
<1>4. \/ pair[1].at = l.at /\ pair[2].at = r.at
      \/ pair[1].at = near(l) /\ pair[2].at = near(r)
  BY <1>1, PromotedFacts DEF ConvertBinaryValues, Float
<1> HIDE DEF l, r, near, pair
<1> DEFINE x == l.at
           y == r.at
           a == pair[1].at
           b == pair[2].at
<1>5. /\ x \in Int /\ y \in Int /\ a \in Int /\ b \in Int
      /\ x =< y => a =< b
      /\ y =< x => b =< a
      /\ Shared(l) /\ Shared(r) => a = x /\ b = y
  BY <1>3, <1>4
<1>6. Arg(1) = x /\ Arg(2) = y
  BY DEF Arg, l, r
<1> HIDE DEF x, y, a, b
<1>7. /\ x < y /\ call.op = "GreaterThan" => ~Holds(call.op, a, b)
      /\ x > y /\ call.op = "LessThan" => ~Holds(call.op, a, b)
      /\ x < y /\ call.op = "LessThanEquals" => Holds(call.op, a, b)
      /\ x > y /\ call.op = "GreaterThanEquals" => Holds(call.op, a, b)
  <2>1. /\ Holds("GreaterThan", a, b) = (a > b) /\ Holds("LessThan", a, b) = (a < b)
        /\ Holds("LessThanEquals", a, b) = (a =< b)
        /\ Holds("GreaterThanEquals", a, b) = (a >= b)
    BY DEF Holds
  <2>2. (x < y => ~(a > b) /\ a =< b) /\ (x > y => ~(a < b) /\ a >= b)
    BY <1>5
  <2>3. QED
    BY <2>1, <2>2
<1>8. Shared(l) /\ Shared(r) => Holds(call.op, a, b) = Holds(call.op, x, y)
  BY <1>5
<1>9. outcome.value.bool = Holds(call.op, a, b)
  BY <1>2 DEF a, b
<1>10. QED
  BY <1>6, <1>7, <1>8, <1>9 DEF OrderIsNeverReversed, l, r

\* Comparing an i64 with an f64 never reports them in the opposite order, and
\* is right of all integers that floats hold (convert_binary_values), in every
\* binary format too short for the integers and for all operands.
THEOREM OrderIsKept == Spec => []OrderIsNeverReversed
<1>1. AnswersCall => OrderIsNeverReversed
  BY OrderFollows
<1>2. QED
  BY <1>1, CallsAreAnswered, PTL

-----------------------------------------------------------------------------
(* Min and max.                                                            *)

\* No float is nearer to a number than the one it is rounded to.
LEMMA NoneNearer ==
  ASSUME NEW n, InFormat(n), NEW x \in Int, IsF64(x)
  PROVE  Abs(x - n) >= Abs(Nearest(n, 1) - n)
<1> DEFINE s == Step(n, 1)
           e == Order(n, 1)
           low == n \div s
           rest == n % s
           up == 2 * rest > s \/ (2 * rest = s /\ low % 2 = 1)
           r == Nearest(n, 1)
<1>1. /\ n \in Int /\ s \in Nat \ {0}
      /\ low \in Int /\ rest \in 0 .. s - 1 /\ n = low * s + rest
      /\ r = (IF up THEN low + 1 ELSE low) * s
  BY NearestFacts
<1>2. HasOrder(n, e) /\ s = PowerOfTwo[e] /\ e \in Nat /\ e =< MaxOrder
  BY OrderFacts, FormatFacts DEF HasOrder
<1>3. r \in Int
  BY NearestIsInteger
<1> SUFFICES ASSUME Abs(x - n) < Abs(r - n)
             PROVE  FALSE
  <2>1. n \in Int /\ r \in Int
    BY <1>1, <1>3
  <2> HIDE DEF s, e, low, rest, up, r
  <2>2. Abs(x - n) \in Int /\ Abs(r - n) \in Int
    BY <2>1 DEF Abs
  <2> DEFINE p == Abs(x - n)
             q == Abs(r - n)
  <2>3. p >= q \/ p < q
    <3> HIDE DEF p, q
    <3>1. p \in Int /\ q \in Int
      BY <2>2 DEF p, q
    <3>2. QED
      BY <3>1
  <2>4. QED
    BY <2>3 DEF r
<1>4. /\ low * s < x /\ x < (low + 1) * s /\ rest # 0
      /\ low * s \in Int /\ (low + 1) * s = low * s + s
  <2> HIDE DEF s, low, rest, r
  <2>1. low * s \in Int /\ (low + 1) * s = low * s + s
    BY <1>1
  <2> DEFINE z == low * s
  <2>2. r = IF up THEN z + s ELSE z
    BY <1>1, <2>1
  <2>3. up => 2 * rest >= s
    BY <1>1
  <2>4. ~up => 2 * rest =< s
    BY <1>1
  <2> HIDE DEF up
  <2>5. z < x /\ x < z + s /\ rest # 0
    <3> HIDE DEF z
    <3>1. z \in Int /\ n = z + rest
      BY <1>1, <2>1 DEF z
    <3>2. CASE up
      BY <1>1, <2>2, <2>3, <3>1, <3>2 DEF Abs
    <3>3. CASE ~up
      BY <1>1, <2>2, <2>4, <3>1, <3>3 DEF Abs
    <3>4. QED
      BY <3>2, <3>3
  <2>6. QED
    BY <2>1, <2>5
<1> HIDE DEF s, e, low, rest, r
<1>5. ASSUME NEW i \in Int, NEW j \in Int, i =< j
      PROVE  i * s =< j * s /\ i * s \in Int /\ j * s \in Int
  <2>1. (j - i) * s >= 0 /\ (j - i) * s = j * s - i * s
    BY <1>1, <1>5
  <2>2. i * s \in Int /\ j * s \in Int
    BY <1>1
  <2>3. QED
    BY <2>1, <2>2
<1>6. ASSUME NEW k \in Int
      PROVE  /\ n >= k * s => k * s < x
             /\ n =< k * s => x < k * s
  <2>0. k * s \in Int /\ low + 1 \in Int
    BY <1>1
  <2>1. ASSUME n >= k * s
        PROVE  k =< low
    <3>1. SUFFICES ASSUME low + 1 =< k PROVE FALSE
      BY <1>1
    <3>2. (low + 1) * s =< k * s
      BY <1>1, <1>5, <3>1
    <3>3. QED
      BY <1>1, <1>4, <2>0, <2>1, <3>2
  <2>2. ASSUME n =< k * s
        PROVE  low + 1 =< k
    <3>1. SUFFICES ASSUME k =< low PROVE FALSE
      BY <1>1
    <3>2. k * s =< low * s
      BY <1>1, <1>5, <3>1
    <3>3. QED
      BY <1>1, <1>4, <2>0, <2>2, <3>2
  <2>3. n >= k * s => k * s =< low * s
    BY <1>1, <1>5, <2>1
  <2>4. n =< k * s => (low + 1) * s =< k * s
    BY <1>1, <1>5, <2>0, <2>2
  <2>5. (low + 1) * s \in Int
    BY <1>1, <1>4
  <2>6. QED
    BY <1>4, <2>0, <2>3, <2>4, <2>5
<1>7. HasOrder(x, e)
  <2> DEFINE bound == PowerOfTwo[Significant + e]
             top == PowerOfTwo[Significant + e - 1]
             b == PowerOfTwo[Significant]
             t == PowerOfTwo[Significant - 1]
  <2>1. /\ b \in Nat /\ t \in Nat /\ bound = b * s /\ top = t * s
        /\ bound \in Nat /\ top \in Nat
    <3>1. /\ b \in Nat /\ t \in Nat /\ bound = b * PowerOfTwo[e] /\ top = t * PowerOfTwo[e]
          /\ PowerOfTwo[e] \in Nat
      BY <1>2, StepBounds
    <3> HIDE DEF b, t, bound, top
    <3>2. QED
      BY <1>2, <3>1
  <2>2. Abs(n) < bound /\ (e # 0 => top =< Abs(n))
    BY <1>2 DEF HasOrder
  <2> HIDE DEF b, t, bound, top
  <2>3. -bound = (-b) * s /\ -top = (-t) * s /\ -b \in Int /\ -t \in Int
    BY <1>1, <2>1
  <2>4. (n >= -bound => -bound < x) /\ (n =< bound => x < bound)
    BY <1>6, <2>1, <2>3
  <2>5. (n >= top => top < x) /\ (n =< -top => x < -top)
    BY <1>6, <2>1, <2>3
  <2>6. Abs(x) < bound
    BY <1>1, <2>1, <2>2, <2>4 DEF Abs
  <2>7. e # 0 => top =< Abs(x)
    BY <1>1, <2>1, <2>2, <2>5 DEF Abs
  <2>8. QED
    BY <1>2, <2>6, <2>7 DEF HasOrder, bound, top
<1>8. InFormat(x)
  <2>1. Significant + e \in Nat /\ Significant + MaxOrder \in Nat /\ Significant + e =< Significant + MaxOrder
    BY <1>2, FormatFacts
  <2>2. /\ PowerOfTwo[Significant + e] =< PowerOfTwo[Significant + MaxOrder]
        /\ PowerOfTwo[Significant + e] \in Nat /\ PowerOfTwo[Significant + MaxOrder] \in Nat
    BY <2>1, PowersGrow
  <2>3. Abs(x) < PowerOfTwo[Significant + e] /\ Abs(x) \in Nat
    BY <1>7 DEF HasOrder, Abs
  <2>4. QED
    BY <2>2, <2>3, FormatFacts DEF InFormat
<1>9. Step(x, 1) = s
  BY <1>2, <1>7, <1>8, OrderFacts
<1>10. PICK j \in Int : x = j * s
  BY <1>8, <1>9, RoundsToMultiples, 0 \in Int DEF IsF64
<1>11. low < j
  <2>1. SUFFICES ASSUME j =< low PROVE FALSE
    BY <1>1
  <2>2. j * s =< low * s
    BY <1>1, <1>5, <2>1
  <2>3. QED
    BY <1>4, <1>10, <2>2
<1>12. j < low + 1
  <2>1. SUFFICES ASSUME low + 1 =< j PROVE FALSE
    BY <1>1
  <2>2. (low + 1) * s =< j * s
    BY <1>1, <1>5, <2>1
  <2>3. (low + 1) * s \in Int
    BY <1>1, <1>4
  <2>4. QED
    BY <1>4, <1>10, <2>2, <2>3
<1>13. QED
  BY <1>1, <1>11, <1>12

\* x comes first: it is the less, or the greater.
Precedes(func, x, y) == IF func = "Min" THEN x =< y ELSE x >= y

\* A list of numbers has a first one.
LEMMA OneIsFirst ==
  ASSUME NEW D, D # {}, NEW at, \A i \in D : InFormat(at[i]), NEW func
  PROVE  \E j \in D : \A i \in D : Precedes(func, at[j], at[i])
<1> DEFINE key(i) == IF func = "Min" THEN at[i] + Limit ELSE Limit - at[i]
           S == {key(i) : i \in D}
<1>1. \A i \in D : at[i] \in Int /\ key(i) \in Nat
  BY FormatFacts DEF InFormat, Abs
<1>2. Limit \in Nat
  BY FormatFacts
<1>3. PICK m \in S : \A k \in S : m =< k
  <2>1. S \in SUBSET Nat /\ S # {}
    BY <1>1
  <2> HIDE DEF S
  <2>2. QED
    BY <2>1, LeastNumber
<1>4. PICK j \in D : m = key(j)
  BY <1>3
<1>5. \A i \in D : key(j) =< key(i)
  BY <1>3, <1>4
<1>6. \A i \in D : Precedes(func, at[j], at[i])
  BY <1>1, <1>2, <1>5 DEF Precedes
<1>7. QED
  BY <1>6

\* Rounded to floats, it is first still.
LEMMA FirstStaysFirst ==
  ASSUME NEW x, InFormat(x), NEW y, InFormat(y), NEW func,
         Precedes(func, x, y)
  PROVE  Precedes(func, Nearest(x, 1), Nearest(y, 1))
<1>1. x \in Int /\ y \in Int /\ Nearest(x, 1) \in Int /\ Nearest(y, 1) \in Int
  BY NearestIsInteger DEF InFormat
<1>2. /\ x =< y => Nearest(x, 1) =< Nearest(y, 1)
      /\ y =< x => Nearest(y, 1) =< Nearest(x, 1)
  BY RoundingKeepsOrder
<1>3. QED
  BY <1>1, <1>2 DEF Precedes

\* What Extreme takes of a list is the first one in it.
LEMMA ExtremeIsFirst ==
  ASSUME NEW D, NEW vals, DOMAIN vals = D, NEW j \in D, NEW func \in {"Min", "Max"},
         \A i \in D : vals[i].at \in Int,
         \A i \in D : Precedes(func, vals[j].at, vals[i].at)
  PROVE  /\ Extreme(func, vals).at = vals[j].at
         /\ \E i \in D : Extreme(func, vals) = vals[i]
<1> DEFINE First(v) == \A i \in D : IF func = "Min" THEN v.at =< vals[i].at ELSE v.at >= vals[i].at
           v == Extreme(func, vals)
<1>1. First(vals[j])
  BY DEF Precedes
<1>2. v \in {vals[i] : i \in D} /\ First(v)
  BY <1>1 DEF Extreme
<1>3. PICK i \in D : v = vals[i]
  BY <1>2
<1> HIDE DEF v
<1>4. v.at = vals[j].at
  BY <1>1, <1>2, <1>3
<1>5. QED
  BY <1>3, <1>4 DEF v

\* An answered min or max is a float than which none is nearer to the extreme.
LEMMA ExtremeFollows ==
  ASSUME AnswersCall
  PROVE  ExtremeIsNearest
<1> SUFFICES ASSUME Gave({"Min", "Max"})
             PROVE  ExtremeIsNearest
  BY DEF ExtremeIsNearest
<1> DEFINE vals == call.args
           D == DOMAIN vals
           func == call.op
           near(x) == Nearest(x, 1)
           w == PareVectorNary(vals)
           given == outcome.value.at
           at == [i \in D |-> vals[i].at]
           ats == {Arg(i) : i \in D}
           extreme == IF func = "Min" THEN Min(ats) ELSE Max(ats)
           mixed == \E i \in D : IsFloat(vals[i])
<1>1. /\ func \in {"Min", "Max"} /\ IsCall(call)
      /\ outcome = CallOutcome(call) /\ outcome.ok
  BY CallsAssumption DEF AnswersCall, Gave
<1>2. outcome = ApplyNnaryFunction(func, vals)
  BY <1>1 DEF CallOutcome, ComparisonOps
<1>3. vals # <<>> /\ outcome.value = Extreme(func, w)
  BY <1>1, <1>2 DEF ApplyNnaryFunction, Err, Ok
<1>4. D # {} /\ \A i \in D : IsNumber(vals[i])
  <2>1. vals = [i \in 1 .. Len(vals) |-> vals[i]] /\ \A i \in 1 .. Len(vals) : IsNumber(vals[i])
    BY <1>1 DEF IsCall
  <2>2. D = 1 .. Len(vals)
    BY <2>1
  <2>3. D = {} => vals = <<>>
    BY <2>1, <2>2
  <2>4. QED
    BY <1>3, <2>1, <2>2, <2>3
<1>5. \A i \in D : /\ vals[i].at \in Int /\ InFormat(vals[i].at)
                  /\ near(vals[i].at) \in Int
                  /\ Promoted(vals[i]) = Float(near(vals[i].at))
  BY <1>4, PromotedFacts, NearestIsInteger
<1> HIDE DEF near, D, vals
<1>6. PICK j \in D : \A i \in D : Precedes(func, vals[j].at, vals[i].at)
  <2>1. \A i \in D : at[i] = vals[i].at /\ InFormat(at[i])
    BY <1>5
  <2>2. \E j \in D : \A i \in D : Precedes(func, at[j], at[i])
    <3> HIDE DEF at, func
    <3>1. QED
      BY <1>4, <2>1, OneIsFirst
  <2>3. QED
    BY <2>1, <2>2
<1>7. extreme = vals[j].at
  <2>1. \A i \in D : Arg(i) = vals[i].at
    BY DEF Arg, vals
  <2>2. vals[j].at \in ats /\ \A x \in ats : x \in Int /\ Precedes(func, vals[j].at, x)
    BY <1>5, <1>6, <2>1
  <2> HIDE DEF ats
  <2>3. CASE func = "Min"
    <3>1. \A x \in ats : vals[j].at =< x
      BY <2>2, <2>3 DEF Precedes
    <3>2. Min(ats) = CHOOSE x \in ats : \A y \in ats : x =< y
      BY DEF Min
    <3>3. Min(ats) \in ats /\ \A y \in ats : Min(ats) =< y
      BY <2>2, <3>1, <3>2
    <3>4. QED
      BY <2>2, <2>3, <3>1, <3>3
  <2>4. CASE func = "Max"
    <3>1. \A x \in ats : vals[j].at >= x
      BY <2>2, <2>4 DEF Precedes
    <3>2. Max(ats) = CHOOSE x \in ats : \A y \in ats : x >= y
      BY DEF Max
    <3>3. Max(ats) \in ats /\ \A y \in ats : Max(ats) >= y
      BY <2>2, <3>1, <3>2
    <3>4. QED
      BY <2>2, <2>4, <3>1, <3>3
  <2>5. QED
    BY <1>1, <2>3, <2>4
<1>8. CASE ~mixed
  <2>1. w = vals
    BY <1>8 DEF PareVectorNary, D
  <2>2. given = vals[j].at
    BY <1>1, <1>3, <1>5, <1>6, <2>1, ExtremeIsFirst DEF D
  <2>3. QED
    BY <1>7, <1>8, <2>2 DEF ExtremeIsNearest, D, vals
<1>9. CASE mixed
  <2>1. w = [i \in D |-> Float(near(vals[i].at))]
    BY <1>5, <1>9 DEF PareVectorNary, D
  <2>2. DOMAIN w = D /\ \A i \in D : w[i].at = near(vals[i].at) /\ w[i].type = "float"
    BY <2>1 DEF Float
  <2>3. \A i \in D : Precedes(func, near(vals[j].at), near(vals[i].at))
    BY <1>5, <1>6, FirstStaysFirst DEF near
  <2> HIDE DEF w
  <2>4. given = near(vals[j].at) /\ IsFloat(outcome.value)
    <3>1. /\ Extreme(func, w).at = w[j].at
          /\ \E i \in D : Extreme(func, w) = w[i]
      BY <1>1, <1>5, <1>6, <2>2, <2>3, ExtremeIsFirst
    <3>2. QED
      BY <1>3, <2>2, <3>1 DEF IsFloat
  <2> DEFINE e == vals[j].at
  <2>5. \A x \in Int : IsF64(x) => Abs(x - e) >= Abs(given - e)
    BY <1>5, <2>4, NoneNearer DEF near
  <2>6. given \in Int /\ e \in Int
    BY <1>5, <2>4
  <2>7. \A x \in e - Abs(given - e) .. e + Abs(given - e) :
           IsF64(x) => Abs(x - e) >= Abs(given - e)
    <3> HIDE DEF e, given
    <3>1. e - Abs(given - e) \in Int /\ e + Abs(given - e) \in Int
      BY <2>6 DEF Abs
    <3>2. QED
      BY <2>5, <3>1
  <2>8. QED
    BY <1>7, <1>9, <2>4, <2>7 DEF ExtremeIsNearest, D, vals
<1>10. QED
  BY <1>8, <1>9

\* min and max give the extreme, or a float than which none is nearer to it,
\* wherever in the list the float is (pare_vector_n_nary), in every binary
\* format too short for the integers and for lists of every length.
THEOREM ExtremesAreNearest == Spec => []ExtremeIsNearest
<1>1. AnswersCall => ExtremeIsNearest
  BY ExtremeFollows
<1>2. QED
  BY <1>1, CallsAreAnswered, PTL

-----------------------------------------------------------------------------
(* The float of a quotient.                                                *)

\* Multiplying by a positive number keeps order, and differences.
LEMMA TimesOrders ==
  ASSUME NEW a \in Int, NEW b \in Int, NEW c \in Nat \ {0}
  PROVE  /\ a * c \in Int /\ b * c \in Int
         /\ a * c =< b * c <=> a =< b
         /\ a * c < b * c <=> a < b
         /\ a * c = b * c <=> a = b
<1>1. a * c \in Int /\ b * c \in Int
  OBVIOUS
<1>2. ASSUME NEW x \in Int, NEW y \in Int, x < y
      PROVE  x * c < y * c
  <2>1. y - x - 1 \in Nat /\ (y - x - 1) * c >= 0
    BY <1>2
  <2>2. (y - x - 1) * c = y * c - x * c - c /\ x * c \in Int /\ y * c \in Int
    OBVIOUS
  <2> QED
    BY <2>1, <2>2
<1>3. (a < b => a * c < b * c) /\ (b < a => b * c < a * c) /\ (a = b => a * c = b * c)
  BY <1>2
<1> QED
  BY <1>1, <1>3

\* A quotient is rounded to a multiple of its step, half a step away at most.
LEMMA QuotientFacts ==
  ASSUME NEW n \in Int, NEW d \in Nat \ {0}, Abs(n) < Limit * d
  PROVE  LET t == Step(n, d)
             r == Nearest(n, d)
         IN  /\ \E e \in 0 .. MaxOrder :
                   /\ t = PowerOfTwo[e]
                   /\ e = 0 \/ PowerOfTwo[Significant + e - 1] * d =< Abs(n)
             /\ t \in Nat \ {0} /\ r \in Int /\ r * d \in Int /\ d * t \in Nat \ {0}
             /\ \E j \in Int : r = j * t
             /\ 2 * (r * d - n) =< d * t /\ 2 * (n - r * d) =< d * t
<1> DEFINE S == {e \in Nat : e =< MaxOrder /\ Abs(n) < PowerOfTwo[Significant + e] * d}
           Fits(e) == /\ Abs(n) < PowerOfTwo[Significant + e] * d
                      /\ e = 0 \/ PowerOfTwo[Significant + e - 1] * d =< Abs(n)
           o == Order(n, d)
           t == Step(n, d)
           r == Nearest(n, d)
<1>1. Abs(n) \in Nat /\ Significant \in Nat \ {0} /\ MaxOrder \in Nat
  BY FormatFacts DEF Abs
<1>2. MaxOrder \in S
  BY <1>1, FormatFacts
<1>3. PICK e \in S : \A f \in S : e =< f
  <2>1. S \in SUBSET Nat /\ S # {}
    BY <1>2
  <2> HIDE DEF S
  <2> QED
    BY <2>1, LeastNumber
<1>4. e \in 0 .. MaxOrder /\ Fits(e)
  <2>1. ASSUME e # 0
        PROVE  PowerOfTwo[Significant + e - 1] * d =< Abs(n)
    <3>1. e - 1 \in Nat /\ e - 1 =< MaxOrder /\ e - 1 \notin S /\ Significant + e - 1 = Significant + (e - 1)
      BY <1>1, <1>3, <2>1
    <3>2. ~(Abs(n) < PowerOfTwo[Significant + e - 1] * d)
      BY <3>1
    <3>3. PowerOfTwo[Significant + e - 1] \in Nat
      BY <1>1, <3>1, PowersOfTwo
    <3>4. PowerOfTwo[Significant + e - 1] * d \in Int
      BY <3>3
    <3> QED
      BY <1>1, <3>2, <3>4
  <2> QED
    BY <1>1, <1>3, <2>1
<1>5. o = CHOOSE f \in 0 .. MaxOrder : Fits(f)
  BY DEF Order
<1>6. o \in 0 .. MaxOrder /\ Fits(o)
  <2> HIDE DEF Fits, o
  <2> QED
    BY <1>4, <1>5
<1>7. t = PowerOfTwo[o] /\ t \in Nat \ {0}
  BY <1>6, PowersOfTwo DEF Step
<1> DEFINE whole == d * t
           low == n \div whole
           rest == n % whole
           up == 2 * rest > whole \/ (2 * rest = whole /\ low % 2 = 1)
<1>8. whole \in Nat \ {0}
  <2>1. \A x, y \in Nat \ {0} : x * y \in Nat \ {0}
    <3>1. SUFFICES ASSUME NEW x \in Nat \ {0}, NEW y \in Nat \ {0} PROVE x * y \in Nat \ {0}
      OBVIOUS
    <3>2. 0 * y = 0 /\ 0 < x /\ x * y \in Int
      OBVIOUS
    <3> QED
      BY <3>2, TimesOrders
  <2> HIDE DEF t
  <2> QED
    BY <1>7, <2>1
<1>9. low \in Int /\ rest \in 0 .. whole - 1 /\ n = whole * low + rest
  <2> HIDE DEF whole
  <2> QED
    BY <1>8, Division
<1>10. r = (IF up THEN low + 1 ELSE low) * t
  <2>1. low * d * t = whole * low
    <3> HIDE DEF t, low
    <3>1. low \in Int /\ d \in Int /\ t \in Int
      BY <1>7, <1>9
    <3> QED
      BY <3>1
  <2>2. whole * low \in Int
    <3> HIDE DEF whole, low
    <3> QED
      BY <1>8, <1>9
  <2>3. 2 * (n - low * d * t) = 2 * rest
    <3> HIDE DEF low, t, whole, rest
    <3> QED
      BY <1>8, <1>9, <2>1, <2>2
  <2> QED
    BY <2>3 DEF Nearest
<1> HIDE DEF S, Fits, o
<1>11. \/ r = low * t /\ 2 * rest =< whole
       \/ r = (low + 1) * t /\ 2 * rest >= whole
  <2> HIDE DEF t, whole, low, rest, r
  <2> QED
    BY <1>8, <1>9, <1>10
<1>12. /\ r \in Int /\ r * d \in Int /\ \E j \in Int : r = j * t
       /\ 2 * (r * d - n) =< whole /\ 2 * (n - r * d) =< whole
  <2> HIDE DEF t, low, rest, r
  <2>1. /\ low * t \in Int /\ (low + 1) * t \in Int
        /\ (low * t) * d = whole * low /\ ((low + 1) * t) * d = whole * low + whole
    BY <1>7, <1>9
  <2>2. whole * low \in Int
    BY <1>7, <1>9
  <2> HIDE DEF whole
  <2>3. CASE r = low * t /\ 2 * rest =< whole
    <3>1. n - r * d = rest /\ r * d \in Int
      BY <1>8, <1>9, <2>1, <2>2, <2>3
    <3> QED
      BY <1>8, <1>9, <2>1, <2>3, <3>1
  <2>4. CASE r = (low + 1) * t /\ 2 * rest >= whole
    <3>1. n - r * d = rest - whole /\ r * d \in Int
      BY <1>8, <1>9, <2>1, <2>2, <2>4
    <3> QED
      BY <1>8, <1>9, <2>1, <2>4, <3>1
  <2> QED
    BY <1>11, <2>3, <2>4
<1>13. \E f \in 0 .. MaxOrder :
          /\ t = PowerOfTwo[f]
          /\ f = 0 \/ PowerOfTwo[Significant + f - 1] * d =< Abs(n)
  BY <1>6, <1>7 DEF Fits
<1> QED
  BY <1>7, <1>8, <1>12, <1>13

\* It does not lie beyond another multiple of the step.
LEMMA QuotientsToMultiples ==
  ASSUME NEW n \in Int, NEW d \in Nat \ {0}, Abs(n) < Limit * d, NEW k \in Int
  PROVE  LET t == Step(n, d)
             r == Nearest(n, d)
         IN  /\ n =< k * (d * t) => r =< k * t
             /\ k * (d * t) =< n => k * t =< r
<1> DEFINE t == Step(n, d)
           r == Nearest(n, d)
           whole == d * t
<1>1. /\ t \in Nat \ {0} /\ r \in Int /\ r * d \in Int /\ whole \in Nat \ {0}
      /\ 2 * (r * d - n) =< whole /\ 2 * (n - r * d) =< whole
  BY QuotientFacts
<1>2. PICK j \in Int : r = j * t
  BY QuotientFacts
<1>3. r * d = j * whole
  <2> HIDE DEF t, r
  <2> QED
    BY <1>1, <1>2
<1> HIDE DEF t, r
<1>4. k * whole \in Int /\ j * whole \in Int /\ (k + 1) * whole = k * whole + whole
      /\ (k - 1) * whole = k * whole - whole
  <2> HIDE DEF whole
  <2> QED
    BY <1>1
<1> HIDE DEF whole
<1>5. ASSUME n =< k * whole
      PROVE  j =< k
  <2> SUFFICES ASSUME k + 1 =< j
               PROVE  FALSE
    OBVIOUS
  <2>1. (k + 1) * whole =< j * whole
    BY <1>1, TimesOrders
  <2> QED
    BY <1>1, <1>3, <1>4, <1>5, <2>1
<1>6. ASSUME k * whole =< n
      PROVE  k =< j
  <2> SUFFICES ASSUME j =< k - 1
               PROVE  FALSE
    OBVIOUS
  <2>1. j * whole =< (k - 1) * whole
    BY <1>1, TimesOrders
  <2> QED
    BY <1>1, <1>3, <1>4, <1>6, <2>1
<1>7. (n =< k * whole => r =< k * t) /\ (k * whole =< n => k * t =< r)
  BY <1>1, <1>2, <1>5, <1>6, TimesOrders
<1> QED
  BY <1>7 DEF whole, t, r

\* A float is a whole number of its steps, of which it has fewer than a power of
\* two of Significant bits.
LEMMA FloatFacts ==
  ASSUME NEW v, InFormat(v), IsF64(v)
  PROVE  \E o \in 0 .. MaxOrder :
            /\ \E a \in Int : v = a * PowerOfTwo[o]
            /\ Abs(v) < 2 * LeastNormal * PowerOfTwo[o]
            /\ o = 0 \/ LeastNormal * PowerOfTwo[o] =< Abs(v)
<1> DEFINE o == Order(v, 1)
           s == Step(v, 1)
<1>1. HasOrder(v, o) /\ s = PowerOfTwo[o]
  BY OrderFacts
<1>2. \E a \in Int : v = a * s
  BY RoundsToMultiples, 0 \in Int DEF IsF64
<1>3. o \in Nat /\ o \in 0 .. MaxOrder
  BY <1>1, FormatFacts DEF HasOrder
<1> HIDE DEF o, s
<1>4. /\ PowerOfTwo[Significant + o - 1] = LeastNormal * PowerOfTwo[o]
      /\ PowerOfTwo[Significant + o] = 2 * (LeastNormal * PowerOfTwo[o])
      /\ LeastNormal \in Nat /\ PowerOfTwo[o] \in Nat
  BY <1>3, StepBounds DEF LeastNormal
<1>5. 2 * (LeastNormal * PowerOfTwo[o]) = 2 * LeastNormal * PowerOfTwo[o]
  BY <1>4
<1>6. /\ Abs(v) < 2 * LeastNormal * PowerOfTwo[o]
      /\ o = 0 \/ LeastNormal * PowerOfTwo[o] =< Abs(v)
  BY <1>1, <1>4, <1>5 DEF HasOrder
<1> QED
  BY <1>1, <1>2, <1>3, <1>6

\* The least power of two above another is twice it.
LEMMA PowersApart ==
  ASSUME NEW m \in Nat, NEW n \in Nat, PowerOfTwo[m] < 2 * PowerOfTwo[n]
  PROVE  m =< n
<1> SUFFICES ASSUME n < m
             PROVE  FALSE
  OBVIOUS
<1>1. 2 * PowerOfTwo[n] =< PowerOfTwo[m] /\ PowerOfTwo[n] \in Nat /\ PowerOfTwo[m] \in Nat
  BY PowersGrow
<1> QED
  BY <1>1

\* The size of a product.
LEMMA AbsOfProduct ==
  ASSUME NEW x \in Int, NEW c \in Nat \ {0}
  PROVE  Abs(x * c) = Abs(x) * c /\ Abs(x) \in Nat /\ x * c \in Int /\ Abs(x) * c \in Int
<1>1. x * c \in Int /\ (-x) * c = -(x * c) /\ 0 * c = 0
  OBVIOUS
<1>2. x * c < 0 <=> x < 0
  BY <1>1, TimesOrders
<1> QED
  BY <1>1, <1>2 DEF Abs

\* The quotient of a value and a precision p is in the format, and its step times
\* p is no more than the value's least digit, were that of Significant bits.
LEMMA StepOfQuotient ==
  ASSUME NEW v, InFormat(v), NEW p \in Nat \ {0}, QuotientIsNormal(v, p * One), v # 0
  PROVE  LET t == Step(v * One, p * One)
         IN  /\ v * One \in Int /\ p * One \in Nat \ {0} /\ Abs(v * One) < Limit * (p * One)
             /\ \E e \in 0 .. MaxOrder : t = PowerOfTwo[e]
             /\ t \in Nat \ {0} /\ t * p \in Nat \ {0}
             /\ LeastNormal \in Nat \ {0}
             /\ LeastNormal * (t * p) \in Nat /\ LeastNormal * (t * p) =< Abs(v)
<1> DEFINE n == v * One
           d == p * One
           t == Step(n, d)
           L == LeastNormal
<1>1. /\ v \in Int /\ Abs(v) \in Nat /\ Abs(v) < Limit /\ Limit \in Nat \ {0} /\ One \in Nat \ {0}
      /\ L \in Nat \ {0} /\ Significant \in Nat \ {0}
  BY FormatFacts, StepBounds, 0 \in Nat DEF InFormat, LeastNormal, Abs
<1>2. n \in Int /\ Abs(n) = Abs(v) * One /\ Abs(n) \in Int
  BY <1>1, AbsOfProduct
<1>3. d \in Nat \ {0}
  <2>1. p * One \in Int /\ 0 * One = 0 /\ 0 < p
    BY <1>1
  <2> QED
    BY <1>1, <2>1, TimesOrders
<1>4. Abs(n) < Limit * d
  <2>1. Abs(v) * One < Limit * One
    BY <1>1, TimesOrders
  <2>2. 1 * (Limit * One) =< p * (Limit * One)
    <3>1. Limit * One \in Int /\ 0 * One = 0 /\ 0 < Limit /\ 1 =< p
      BY <1>1
    <3>2. Limit * One \in Nat \ {0}
      BY <1>1, <3>1, TimesOrders
    <3> QED
      BY <3>1, <3>2, TimesOrders
  <2>3. p * (Limit * One) = Limit * d /\ Limit * One \in Int /\ Limit * d \in Int
    BY <1>1
  <2> HIDE DEF n, d
  <2> QED
    BY <1>2, <2>1, <2>2, <2>3
<1> HIDE DEF n, d
<1>5. PICK e \in 0 .. MaxOrder :
        t = PowerOfTwo[e] /\ (e = 0 \/ PowerOfTwo[Significant + e - 1] * d =< Abs(n))
  BY <1>2, <1>3, <1>4, QuotientFacts
<1>6. t \in Nat \ {0}
  BY <1>2, <1>3, <1>4, QuotientFacts
<1>7. L * t * d =< Abs(n)
  <2>1. CASE e = 0
    <3>1. t = 1 /\ L * t = L
      BY <1>1, <1>5, <2>1, PowersOfTwo
    <3>2. L * d =< Abs(v) * One
      BY DEF QuotientIsNormal, d
    <3> QED
      BY <1>2, <3>1, <3>2
  <2>2. CASE e # 0
    <3>1. PowerOfTwo[Significant + e - 1] = L * PowerOfTwo[e] /\ e \in Nat
      BY <1>5, FormatFacts, StepBounds DEF LeastNormal
    <3> QED
      BY <1>5, <2>2, <3>1
  <2> QED
    BY <2>1, <2>2
<1> HIDE DEF t, L
<1>8. L * t * d = (L * (t * p)) * One /\ t * p \in Int /\ L * (t * p) \in Int
  BY <1>1, <1>6 DEF d
<1>9. L * (t * p) =< Abs(v)
  BY <1>1, <1>2, <1>7, <1>8, TimesOrders
<1>10. t * p \in Nat \ {0}
  <2>1. 0 * p = 0 /\ 0 < t
    BY <1>6
  <2> QED
    BY <1>6, <1>8, <2>1, TimesOrders
<1>11. L * (t * p) \in Nat
  BY <1>1, <1>10
<1> QED
  BY <1>1, <1>2, <1>3, <1>4, <1>5, <1>6, <1>9, <1>10, <1>11 DEF n, d, t, L

\* The float of the quotient is on the same side of m as the quotient, and is m
\* only if the quotient is.
SameSides(v, p, m) ==
    LET r == Quotient(v, p * One)
    IN  /\ m * (p * One) =< v => m * One =< r
        /\ v =< m * (p * One) => r =< m * One
        /\ r = m * One => m * (p * One) = v

\* That is so if the float is the quotient.
LEMMA ExactIsOnTheSameSide ==
  ASSUME NEW v \in Int, NEW p \in Nat \ {0}, NEW m \in Int,
         Quotient(v, p * One) \in Int, Quotient(v, p * One) * p = v
  PROVE  SameSides(v, p, m)
<1> DEFINE r == Quotient(v, p * One)
<1>1. One \in Int
  BY FormatFacts
<1>2. m * (p * One) = (m * One) * p /\ m * One \in Int /\ r \in Int /\ r * p = v
  BY <1>1
<1> HIDE DEF r
<1>3. /\ (m * One) * p =< r * p <=> m * One =< r
      /\ r * p =< (m * One) * p <=> r =< m * One
      /\ r * p = (m * One) * p <=> r = m * One
  BY <1>2, TimesOrders
<1>4. /\ m * (p * One) =< v => m * One =< r
      /\ v =< m * (p * One) => r =< m * One
      /\ r = m * One => m * (p * One) = v
  BY <1>2, <1>3
<1> QED
  BY <1>4 DEF SameSides, r

\* It is if the value is a multiple of p times the quotient's step.
LEMMA MultiplesAreExact ==
  ASSUME NEW v, InFormat(v), NEW p \in Nat \ {0}, QuotientIsNormal(v, p * One), v # 0,
         NEW k \in Int, v = k * (Step(v * One, p * One) * p)
  PROVE  Quotient(v, p * One) \in Int /\ Quotient(v, p * One) * p = v
<1> DEFINE n == v * One
           d == p * One
           t == Step(n, d)
           r == Quotient(v, d)
<1>1. n \in Int /\ d \in Nat \ {0} /\ Abs(n) < Limit * d /\ t \in Nat \ {0}
  BY StepOfQuotient
<1>2. One \in Nat \ {0}
  BY FormatFacts
<1>3. k * (d * t) = n
  <2> HIDE DEF t
  <2>1. k * (p * One * t) = (k * (t * p)) * One
    BY <1>1, <1>2
  <2>2. v = k * (t * p)
    BY DEF t
  <2> QED
    BY <2>1, <2>2
<1>4. r = Nearest(n, d)
  BY DEF Quotient
<1>5. n \in Int /\ n =< k * (d * t) /\ k * (d * t) =< n
  <2> HIDE DEF n, d, t
  <2> QED
    BY <1>1, <1>3
<1>6. r =< k * t /\ k * t =< r /\ r \in Int
  <2> HIDE DEF n, d
  <2> QED
    BY <1>1, <1>4, <1>5, QuotientFacts, QuotientsToMultiples
<1> HIDE DEF r, t, n, d
<1>7. r = k * t /\ k * t * p = k * (t * p)
  BY <1>1, <1>6
<1> QED
  BY <1>6, <1>7 DEF r, t, n, d

\* The quotient of a value that is zero is zero.
LEMMA ZeroIsExact ==
  ASSUME NEW p \in Nat \ {0}
  PROVE  Quotient(0, p * One) = 0
<1> DEFINE d == p * One
<1>1. One \in Nat \ {0} /\ Limit \in Nat \ {0}
  BY FormatFacts
<1>2. 0 * One = 0 /\ Abs(0) = 0
  BY <1>1 DEF Abs
<1>3. d \in Nat \ {0}
  <2>1. p * One \in Int /\ 0 < p
    BY <1>1
  <2> QED
    BY <1>1, <1>2, <2>1, TimesOrders
<1>4. Quotient(0, d) = Nearest(0, d)
  BY <1>2 DEF Quotient
<1> HIDE DEF d
<1>5. Abs(0) < Limit * d
  <2>1. 0 * d = 0 /\ 0 < Limit
    BY <1>1, <1>3
  <2> QED
    BY <1>1, <1>2, <1>3, <2>1, TimesOrders
<1> DEFINE t == Step(0, d)
<1>6. t \in Nat \ {0} /\ d * t \in Nat /\ Nearest(0, d) \in Int
  BY <1>3, <1>5, QuotientFacts
<1>7. (0 =< 0 * (d * t) => Nearest(0, d) =< 0 * t) /\ (0 * (d * t) =< 0 => 0 * t =< Nearest(0, d))
  BY <1>3, <1>5, QuotientsToMultiples
<1> HIDE DEF t
<1>8. 0 * (d * t) = 0 /\ 0 * t = 0
  BY <1>6
<1> QED
  BY <1>4, <1>6, <1>7, <1>8 DEF d

\* It is so too if the value and 1 are multiples of a number g that is more than
\* half of p times the step: then the value is at least g away from a multiple of
\* the precision, which is more than rounding can move the quotient.
LEMMA ShortIsOnTheSameSide ==
  ASSUME NEW v, InFormat(v), NEW p \in Nat \ {0}, QuotientIsNormal(v, p * One), v # 0,
         NEW m \in Int, NEW g \in Nat \ {0},
         \E a \in Int : v = a * g, \E b \in Int : One = b * g,
         Step(v * One, p * One) * p < 2 * g,
         \E c \in Int : One = c * Step(v * One, p * One)
  PROVE  SameSides(v, p, m)
<1> DEFINE n == v * One
           d == p * One
           t == Step(n, d)
           r == Quotient(v, d)
           x == m * d
<1>1. /\ n \in Int /\ d \in Nat \ {0} /\ Abs(n) < Limit * d /\ t \in Nat \ {0}
      /\ v \in Int /\ One \in Nat \ {0}
  BY StepOfQuotient, FormatFacts DEF InFormat
<1>2. PICK a \in Int, b \in Int, c \in Int : v = a * g /\ One = b * g /\ One = c * t
  OBVIOUS
<1>3. t * p < 2 * g /\ d = p * One /\ n = v * One /\ r = Nearest(n, d)
  BY DEF Quotient
<1>4. /\ r \in Int /\ r * d \in Int /\ 2 * (r * d - n) =< d * t /\ 2 * (n - r * d) =< d * t
  <2> HIDE DEF n, d, t
  <2> QED
    BY <1>1, <1>3, QuotientFacts DEF t
<1>5. \A k \in Int : (n =< k * (d * t) => r =< k * t) /\ (k * (d * t) =< n => k * t =< r)
  <2> HIDE DEF n, d
  <2> QED
    BY <1>1, <1>3, QuotientsToMultiples
<1> HIDE DEF n, d, t, r
<1>6. x \in Int /\ (x =< v <=> x * One =< n) /\ (v =< x <=> n =< x * One) /\ x * One \in Int
  <2>1. x \in Int
    BY <1>1
  <2> HIDE DEF x
  <2> QED
    BY <1>1, <1>3, <2>1, TimesOrders
<1>7. m * One = (m * c) * t /\ x * One = (m * c) * (d * t) /\ m * c \in Int
  <2>1. m * (c * t) = (m * c) * t
    BY <1>1
  <2>2. m * d * (c * t) = (m * c) * (d * t)
    BY <1>1
  <2> QED
    BY <1>2, <2>1, <2>2
<1>8. x =< v => m * One =< r
  BY <1>5, <1>6, <1>7
<1>9. v =< x => r =< m * One
  BY <1>5, <1>6, <1>7
<1>10. ASSUME r = m * One, x # v
       PROVE  FALSE
  <2> DEFINE D == x - v
  <2>1. x = (m * p * b) * g /\ D = (m * p * b - a) * g /\ m * p * b \in Int
    <3>1. m * (p * (b * g)) = (m * p * b) * g
      OBVIOUS
    <3>2. x = (m * p * b) * g
      BY <1>2, <1>3, <3>1
    <3>3. (m * p * b - a) * g = (m * p * b) * g - a * g
      OBVIOUS
    <3> QED
      BY <1>2, <3>2, <3>3
  <2>2. g =< D \/ g =< -D
    <3> DEFINE q == m * p * b - a
    <3>1. q \in Int /\ q # 0 /\ D = q * g
      <4>1. m * p * b \in Int
        BY <2>1
      <4>2. q \in Int /\ D = q * g
        BY <2>1, <4>1
      <4>3. D # 0
        BY <1>1, <1>6, <1>10
      <4> HIDE DEF q, D
      <4>4. 0 * g = 0
        OBVIOUS
      <4> QED
        BY <4>2, <4>3, <4>4
    <3> HIDE DEF q, D
    <3>2. 1 =< q => 1 * g =< q * g
      BY <3>1, TimesOrders
    <3>3. q =< -1 => q * g =< (-1) * g
      BY <3>1, TimesOrders
    <3>4. 1 * g = g /\ (-1) * g = -g /\ q * g \in Int
      BY <3>1
    <3> QED
      BY <3>1, <3>2, <3>3, <3>4
  <2>3. r * d - n = D * One
    <3>1. r * d = x * One
      <4>1. (m * One) * d = (m * d) * One
        BY <1>1
      <4> QED
        BY <1>10, <4>1
    <3>2. (x - v) * One = x * One - v * One
      BY <1>1, <1>6
    <3> QED
      BY <1>3, <3>1, <3>2
  <2>4. D \in Int
    BY <1>1, <1>6
  <2>5. d * t = (t * p) * One /\ t * p \in Int
    BY <1>1, <1>3
  <2> HIDE DEF D
  <2>6. (2 * D) * One =< (t * p) * One /\ (-2 * D) * One =< (t * p) * One
    <3>1. (2 * D) * One = 2 * (D * One) /\ (-2 * D) * One = -(2 * (D * One)) /\ D * One \in Int
      BY <1>1, <2>4
    <3>2. 2 * (n - r * d) = -(2 * (r * d - n))
      BY <1>1, <1>4
    <3> QED
      BY <1>1, <1>4, <2>3, <2>5, <3>1, <3>2
  <2>7. 2 * D =< t * p /\ -2 * D =< t * p
    <3>1. 2 * D \in Int /\ -2 * D \in Int
      BY <2>4
    <3> QED
      BY <1>1, <2>5, <2>6, <3>1, TimesOrders
  <2> QED
    BY <1>3, <2>2, <2>4, <2>5, <2>7
<1> QED
  BY <1>8, <1>9, <1>10 DEF SameSides, x, r, d

\* Dividing by the precision and rounding leaves a value between the same
\* multiples of the precision, on one only if it is one.
LEMMA QuotientKeepsSides ==
  ASSUME NEW v, InFormat(v), IsF64(v), NEW p \in Nat \ {0}, QuotientIsNormal(v, p * One),
         Abs(v) =< ExactBound \/ \E j \in Nat : p = PowerOfTwo[j],
         NEW m \in Int
  PROVE  SameSides(v, p, m)
<1> DEFINE t == Step(v * One, p * One)
           L == LeastNormal
<1>1. v \in Int /\ Abs(v) \in Nat /\ One \in Nat \ {0}
  BY FormatFacts DEF InFormat, Abs
<1>2. CASE v = 0
  <2>1. Quotient(0, p * One) = 0 /\ 0 * p = 0
    BY ZeroIsExact
  <2> QED
    BY <1>2, <2>1, ExactIsOnTheSameSide
<1>3. CASE v # 0
  <2>1. /\ t \in Nat \ {0} /\ t * p \in Nat \ {0} /\ L \in Nat \ {0}
        /\ L * (t * p) \in Nat /\ L * (t * p) =< Abs(v)
    BY <1>3, StepOfQuotient
  <2>2. PICK e \in 0 .. MaxOrder : t = PowerOfTwo[e]
    BY <1>3, StepOfQuotient
  <2>3. PICK o \in 0 .. MaxOrder :
          /\ \E a \in Int : v = a * PowerOfTwo[o]
          /\ Abs(v) < 2 * L * PowerOfTwo[o]
    BY FloatFacts
  <2>4. PICK k \in 0 .. MaxOrder : One = PowerOfTwo[k]
    BY FormatFacts
  <2>5. e \in Nat /\ o \in Nat /\ k \in Nat
    BY FormatFacts
  <2> DEFINE s == PowerOfTwo[o]
  <2>6. s \in Nat \ {0}
    BY <2>5, PowersOfTwo
  <2>7. t * p < 2 * s
    <3> HIDE DEF t, L, s
    <3>1. 2 * L * s = L * (2 * s) /\ L * (2 * s) \in Int /\ 2 * s \in Int
      BY <2>1, <2>6
    <3>2. L * (t * p) < L * (2 * s)
      BY <1>1, <2>1, <2>3, <3>1 DEF s
    <3>3. L * (t * p) = (t * p) * L /\ L * (2 * s) = (2 * s) * L
      BY <2>1, <2>6
    <3> QED
      BY <2>1, <3>1, <3>2, <3>3, TimesOrders
  <2>8. ASSUME \E i \in Int : v = i * (t * p)
        PROVE  SameSides(v, p, m)
    <3> HIDE DEF t
    <3>1. Quotient(v, p * One) \in Int /\ Quotient(v, p * One) * p = v
      BY <1>3, <2>8, MultiplesAreExact DEF t
    <3> QED
      BY <1>1, <3>1, ExactIsOnTheSameSide
  <2>9. CASE \E j \in Nat : p = PowerOfTwo[j]
    <3>1. PICK j \in Nat : p = PowerOfTwo[j]
      BY <2>9
    <3>2. e + j \in Nat /\ t * p = PowerOfTwo[e + j]
      BY <2>2, <2>5, <3>1, PowersMultiply
    <3>3. e + j =< o
      BY <2>5, <2>7, <3>2, PowersApart
    <3>4. s = (t * p) * PowerOfTwo[o - (e + j)] /\ PowerOfTwo[o - (e + j)] \in Int
      BY <2>5, <3>2, <3>3, PowersGrow
    <3>5. PICK a \in Int : v = a * s
      BY <2>3
    <3> DEFINE c == PowerOfTwo[o - (e + j)]
    <3> HIDE DEF t, s, c
    <3>6. a * ((t * p) * c) = (a * c) * (t * p) /\ a * c \in Int
      BY <2>1, <3>4 DEF c
    <3> QED
      BY <2>8, <3>4, <3>5, <3>6 DEF c
  <2>10. CASE Abs(v) = L * (t * p)
    <3> HIDE DEF t, L
    <3>1. v = L * (t * p) \/ v = (-L) * (t * p)
      <4>1. (-L) * (t * p) = -(L * (t * p))
        BY <2>1
      <4> QED
        BY <1>1, <2>1, <2>10, <4>1 DEF Abs
    <3>2. L \in Int /\ -L \in Int
      BY <2>1
    <3>3. \E i \in Int : v = i * (t * p)
      BY <3>1, <3>2
    <3> QED
      BY <2>8, <3>3 DEF t
  <2>11. CASE Abs(v) =< ExactBound /\ L * (t * p) < Abs(v)
    <3>1. ExactBound = L * (2 * One) /\ 2 * One \in Nat
      <4>1. PowerOfTwo[Significant] = 2 * L
        <5>1. Significant - 1 \in Nat /\ Significant = (Significant - 1) + 1
          BY FormatFacts
        <5> QED
          BY <5>1, PowersOfTwo DEF LeastNormal
      <4> HIDE DEF L
      <4> QED
        BY <1>1, <2>1, <4>1 DEF ExactBound
    <3>2. t * p < 2 * One
      <4> HIDE DEF t, L
      <4>1. L * (t * p) < L * (2 * One) /\ L * (2 * One) \in Int
        BY <1>1, <2>1, <2>11, <3>1
      <4>2. L * (t * p) = (t * p) * L /\ L * (2 * One) = (2 * One) * L
        BY <2>1, <3>1
      <4> QED
        BY <2>1, <3>1, <4>1, <4>2, TimesOrders
    <3>3. t =< t * p
      <4> HIDE DEF t
      <4>1. 1 * t =< p * t /\ 1 * t = t /\ p * t = t * p
        <5>1. 1 =< p /\ t \in Nat \ {0}
          BY <2>1
        <5> QED
          BY <5>1, TimesOrders
      <4> QED
        BY <4>1
    <3>4. e =< k
      <4>1. PowerOfTwo[e] < 2 * PowerOfTwo[k]
        <5> HIDE DEF t
        <5> QED
          BY <1>1, <2>1, <2>2, <2>4, <3>2, <3>3
      <4> QED
        BY <2>5, <4>1, PowersApart
    <3>5. \E c \in Int : One = c * t
      <4>1. One = t * PowerOfTwo[k - e] /\ PowerOfTwo[k - e] \in Int
        BY <2>2, <2>4, <2>5, <3>4, PowersGrow
      <4> DEFINE c == PowerOfTwo[k - e]
      <4> HIDE DEF c, t
      <4>2. One = c * t /\ c \in Int
        BY <2>1, <4>1 DEF c
      <4> QED
        BY <4>2
    <3>6. CASE o =< k
      <4>1. One = s * PowerOfTwo[k - o] /\ PowerOfTwo[k - o] \in Int
        BY <2>4, <2>5, <3>6, PowersGrow
      <4> DEFINE b == PowerOfTwo[k - o]
      <4> HIDE DEF b, t, s
      <4>2. One = b * s /\ b \in Int
        BY <2>6, <4>1 DEF b
      <4>3. \E a \in Int : v = a * s
        BY <2>3 DEF s
      <4> QED
        BY <1>3, <2>6, <2>7, <3>5, <4>2, <4>3, ShortIsOnTheSameSide DEF t
    <3>7. CASE k < o
      <4>1. s = One * PowerOfTwo[o - k] /\ PowerOfTwo[o - k] \in Int
        BY <2>4, <2>5, <3>7, PowersGrow
      <4>2. PICK a \in Int : v = a * s
        BY <2>3
      <4> DEFINE b == PowerOfTwo[o - k]
      <4> HIDE DEF b, t, s
      <4>3. v = (a * b) * One /\ a * b \in Int
        <5>1. a * (One * b) = (a * b) * One /\ a * b \in Int
          BY <1>1, <4>1 DEF b
        <5> QED
          BY <4>1, <4>2, <5>1 DEF b
      <4>4. One = 1 * One
        BY <1>1
      <4>5. (\E i \in Int : v = i * One) /\ (\E i \in Int : One = i * One)
        BY <4>3, <4>4
      <4> QED
        BY <1>1, <1>3, <3>2, <3>5, <4>5, ShortIsOnTheSameSide DEF t
    <3> QED
      BY <2>5, <3>6, <3>7
  <2> QED
    <3> HIDE DEF t, L
    <3>1. Abs(v) = L * (t * p) \/ L * (t * p) < Abs(v)
      BY <1>1, <2>1
    <3> QED
      BY <2>9, <2>10, <2>11, <3>1
<1> QED
  BY <1>2, <1>3

-----------------------------------------------------------------------------
(* Floor and ceiling.                                                      *)

\* The numbers of a call of floor or ceiling whose answer the property tells.
Rounds(v, p) ==
    /\ v \in Int /\ InFormat(v) /\ IsF64(v)
    /\ p \in Ints /\ p > 0 /\ IsF64(p * One)
    /\ QuotientIsNormal(v, p * One)
    /\ Abs(v) =< ExactBound \/ IsPowerOfTwo(p)

\* The whole number of a rounded quotient is that of the quotient.
LEMMA WholeQuotients ==
  ASSUME NEW v, NEW p, Rounds(v, p)
  PROVE  /\ FloorOf(Quotient(v, p * One)) = v \div (p * One)
         /\ CeilOf(Quotient(v, p * One)) = -((-v) \div (p * One))
<1> DEFINE P == p * One
           r == Quotient(v, P)
<1>1. v \in Int /\ p \in Nat \ {0} /\ One \in Nat \ {0}
  BY FormatFacts, FarFromTheEnd DEF Rounds, Ints, MinInt, MaxInt
<1>2. P \in Nat \ {0}
  <2>1. p * One \in Int /\ 0 * One = 0 /\ 0 < p
    BY <1>1
  <2> QED
    BY <1>1, <2>1, TimesOrders
<1>3. \A m \in Int : SameSides(v, p, m)
  <2>1. Abs(v) =< ExactBound \/ \E j \in Nat : p = PowerOfTwo[j]
    <3>1. 0 .. Bits \subseteq Nat
      BY FormatAssumption
    <3> QED
      BY <3>1 DEF Rounds, IsPowerOfTwo
  <2> QED
    BY <1>1, <2>1, QuotientKeepsSides DEF Rounds
<1>4. r \in Int
  <2>1. CASE v = 0
    BY <1>1, <2>1, ZeroIsExact
  <2>2. CASE v # 0
    <3>1. v * One \in Int /\ p * One \in Nat \ {0} /\ Abs(v * One) < Limit * (p * One)
      BY <1>1, <2>2, StepOfQuotient DEF Rounds
    <3> QED
      BY <3>1, QuotientFacts DEF Quotient
  <2> QED
    BY <2>1, <2>2
<1>5. \A m \in Int : /\ m * P =< v => m * One =< r
                     /\ v =< m * P => r =< m * One
                     /\ r = m * One => m * P = v
  BY <1>3 DEF SameSides
<1> HIDE DEF P, r
<1>6. ASSUME NEW a \in Int, NEW b \in Nat \ {0}, NEW q \in Int, q * b =< a, a < (q + 1) * b
      PROVE  a \div b = q
  <2> DEFINE w == a \div b
             x == a % b
  <2>1. a = b * w + x /\ x \in 0 .. b - 1 /\ w \in Int
    BY Division
  <2> HIDE DEF w, x
  <2>2. b * w = w * b /\ w * b \in Int /\ (w + 1) * b = w * b + b /\ q * b \in Int /\ (q + 1) * b \in Int
    BY <2>1
  <2>3. w * b < (q + 1) * b /\ q * b < (w + 1) * b
    BY <1>6, <2>1, <2>2
  <2>4. w < q + 1 /\ q < w + 1
    BY <2>1, <2>3, TimesOrders
  <2> QED
    BY <2>1, <2>4 DEF w
<1>7. r \div One = v \div P
  <2> DEFINE a == v \div P
             x == v % P
  <2>1. v = P * a + x /\ x \in 0 .. P - 1 /\ a \in Int /\ a + 1 \in Int
    BY <1>1, <1>2, Division
  <2> HIDE DEF a, x
  <2>2. P * a = a * P /\ a * P \in Int /\ (a + 1) * P = a * P + P
    BY <1>2, <2>1
  <2>3. a * P =< v /\ v =< (a + 1) * P /\ (a + 1) * P # v
    BY <1>2, <2>1, <2>2
  <2>4. a * One =< r /\ r =< (a + 1) * One /\ r # (a + 1) * One
    BY <1>5, <2>1, <2>3
  <2>5. r < (a + 1) * One
    BY <1>1, <1>4, <2>1, <2>4
  <2> QED
    BY <1>1, <1>4, <1>6, <2>1, <2>4, <2>5 DEF a
<1>8. (-r) \div One = (-v) \div P
  <2> DEFINE a == (-v) \div P
             x == (-v) % P
  <2>1. -v = P * a + x /\ x \in 0 .. P - 1 /\ a \in Int /\ -a \in Int /\ -a - 1 \in Int
    BY <1>1, <1>2, Division
  <2> HIDE DEF a, x
  <2>2. P * a = a * P /\ a * P \in Int /\ (-a) * P = -(a * P) /\ (-a - 1) * P = -(a * P) - P
    BY <1>2, <2>1
  <2>3. v =< (-a) * P /\ (-a - 1) * P =< v /\ (-a - 1) * P # v
    BY <1>1, <1>2, <2>1, <2>2
  <2>4. r =< (-a) * One /\ (-a - 1) * One =< r /\ r # (-a - 1) * One
    BY <1>5, <2>1, <2>3
  <2>5. (-a) * One = -(a * One) /\ (-a - 1) * One = -((a + 1) * One) /\ a * One \in Int
        /\ (a + 1) * One \in Int
    BY <1>1, <2>1
  <2>6. a * One =< -r /\ -r < (a + 1) * One /\ -r \in Int
    BY <1>4, <2>4, <2>5
  <2> QED
    BY <1>1, <1>6, <2>1, <2>6 DEF a
<1> QED
  BY <1>7, <1>8 DEF FloorOf, CeilOf, r, P

\* A power of two of the format is a float.
LEMMA PowersAreFloats ==
  ASSUME NEW k \in Nat, PowerOfTwo[k] < Limit
  PROVE  /\ Nearest(PowerOfTwo[k], 1) = PowerOfTwo[k]
         /\ Nearest(-PowerOfTwo[k], 1) = -PowerOfTwo[k]
<1>1. PowerOfTwo[k] \in Nat \ {0}
  BY PowersOfTwo
<1>2. ASSUME NEW n, n = PowerOfTwo[k] \/ n = -PowerOfTwo[k]
      PROVE  Nearest(n, 1) = n
  <2>1. InFormat(n) /\ Abs(n) = PowerOfTwo[k] /\ n \in Int
    BY <1>1, <1>2 DEF InFormat, Abs
  <2> DEFINE e == Order(n, 1)
  <2>2. HasOrder(n, e) /\ Step(n, 1) = PowerOfTwo[e]
    BY <2>1, OrderFacts
  <2>3. e \in Nat
    BY <2>2, FormatFacts DEF HasOrder
  <2> HIDE DEF e
  <2>4. e =< k
    <3>1. CASE e = 0
      BY <3>1
    <3>2. CASE e # 0
      <4>1. PowerOfTwo[Significant + e - 1] =< PowerOfTwo[k] /\ Significant + e - 1 \in Nat
        BY <2>1, <2>2, <2>3, <3>2, FormatFacts DEF HasOrder
      <4>2. PowerOfTwo[Significant + e - 1] < 2 * PowerOfTwo[k]
        BY <1>1, <4>1, PowersOfTwo
      <4>3. Significant + e - 1 =< k
        BY <4>1, <4>2, PowersApart
      <4> QED
        BY <2>3, <4>3, FormatFacts
    <3> QED
      BY <3>1, <3>2
  <2>5. PowerOfTwo[k] = PowerOfTwo[e] * PowerOfTwo[k - e] /\ PowerOfTwo[k - e] \in Nat
        /\ PowerOfTwo[e] \in Nat
    BY <2>3, <2>4, PowersGrow
  <2>6. \E j \in Int : n = j * PowerOfTwo[e]
    <3> DEFINE b == PowerOfTwo[k - e]
               s == PowerOfTwo[e]
    <3> HIDE DEF b, s
    <3>1. s * b = b * s /\ -(s * b) = (-b) * s /\ b \in Int /\ -b \in Int
      BY <2>5 DEF b, s
    <3> QED
      BY <1>2, <2>5, <3>1 DEF b, s
  <2> QED
    BY <2>1, <2>2, <2>6, RoundsToMultiples
<1> QED
  BY <1>2

\* The least integer is a float, and the number past the largest.
LEMMA RangeIsExact ==
  AsF64(MinInt) = MinInt * One /\ -(MinInt * One) = PowerOfTwo[Bits - 1] * One
<1>1. PICK k \in 0 .. MaxOrder : One = PowerOfTwo[k]
  BY FormatFacts
<1>2. Bits - 1 \in Nat /\ k \in Nat /\ Bits - 1 + k \in Nat
  BY FormatAssumption
<1>3. PowerOfTwo[Bits - 1 + k] = PowerOfTwo[Bits - 1] * One
  BY <1>1, <1>2, PowersMultiply
<1>4. PowerOfTwo[Bits - 1] \in Nat /\ One \in Nat
  BY FarFromTheEnd, FormatFacts
<1>5. MinInt * One = -(PowerOfTwo[Bits - 1] * One) /\ PowerOfTwo[Bits - 1] * One \in Nat
  BY <1>4 DEF MinInt
<1>6. Nearest(-(PowerOfTwo[Bits - 1] * One), 1) = -(PowerOfTwo[Bits - 1] * One)
  BY <1>2, <1>3, PowersAreFloats, FarFromTheEnd
<1> QED
  BY <1>5, <1>6 DEF AsF64

\* A whole number becomes an i64 if it is one.
LEMMA WholeNumbersConvert ==
  ASSUME NEW i \in Int
  PROVE  CheckedF64ToI64(i * One) = IF i \in Ints THEN Ok(Int64(i)) ELSE Err("IntegerOverflow")
<1> DEFINE x == i * One
           b == PowerOfTwo[Bits - 1]
<1>1. One \in Nat \ {0} /\ b \in Nat \ {0}
  BY FormatFacts, FarFromTheEnd
<1>2. MinInt = -b /\ MaxInt = b - 1 /\ (i \in Ints <=> -b =< i /\ i < b)
  <2>1. MinInt = -b /\ MaxInt = b - 1
    BY DEF MinInt, MaxInt
  <2> QED
    BY <1>1, <2>1 DEF Ints
<1>3. InRange(x) <=> (-b) * One =< x /\ x < b * One
  <2>1. AsF64(MinInt) = MinInt * One /\ -(MinInt * One) = b * One
    BY RangeIsExact
  <2> QED
    BY <1>2, <2>1 DEF InRange
<1>4. (-b) * One =< x <=> -b =< i
  BY <1>1, TimesOrders
<1>5. x < b * One <=> i < b
  BY <1>1, TimesOrders
<1>6. (IF x < 0 THEN -((-x) \div One) ELSE x \div One) = i
  <2>1. \A j \in Int : (j * One) \div One = j
    <3> SUFFICES ASSUME NEW j \in Int
                 PROVE  (j * One) \div One = j
      OBVIOUS
    <3> DEFINE y == j * One
               w == y \div One
               z == y % One
    <3>1. y \in Int /\ y = One * w + z /\ z \in 0 .. One - 1 /\ w \in Int
      BY <1>1, Division
    <3> HIDE DEF w, z
    <3>2. One * w = w * One /\ (w + 1) * One = w * One + One /\ w * One \in Int
      BY <1>1, <3>1
    <3>3. w * One =< y /\ y < (w + 1) * One
      BY <1>1, <3>1, <3>2
    <3>4. w =< j /\ j < w + 1
      BY <1>1, <3>1, <3>3, TimesOrders
    <3> QED
      BY <3>1, <3>4 DEF w
  <2>2. -x = (-i) * One /\ -i \in Int
    BY <1>1
  <2>3. x \div One = i /\ (-x) \div One = -i
    BY <2>1, <2>2
  <2> QED
    BY <2>3
<1>7. i \in Ints => AsI64(x) = i
  <2> HIDE DEF x, b
  <2>1. AsI64(x) = IF i < MinInt THEN MinInt ELSE IF i > MaxInt THEN MaxInt ELSE i
    BY <1>6 DEF AsI64
  <2> QED
    BY <1>1, <1>2, <2>1
<1> QED
  BY <1>2, <1>3, <1>4, <1>5, <1>7 DEF CheckedF64ToI64, x

\* What the code computes of such numbers.
LEMMA RoundingComputes ==
  ASSUME NEW v, NEW p, Rounds(v, p), NEW func \in {"Floor", "Ceiling"},
         NEW i \in Int, IsF64(i * (p * One)),
         i = IF func = "Floor" THEN v \div (p * One) ELSE -((-v) \div (p * One))
  PROVE  ApplyRoundingFunction(func, v, p) =
            IF i * p \in Ints THEN Ok(Int64(i * p)) ELSE Err("IntegerOverflow")
<1> DEFINE P == p * One
<1>1. p \in Nat \ {0} /\ One \in Nat \ {0} /\ p \in Int
  BY FormatFacts, FarFromTheEnd DEF Rounds, Ints, MinInt, MaxInt
<1>2. P \in Nat \ {0}
  <2>1. p * One \in Int /\ 0 * One = 0 /\ 0 < p
    BY <1>1
  <2> QED
    BY <1>1, <2>1, TimesOrders
<1>3. AsF64(p) = P
  BY DEF AsF64, Rounds, IsF64
<1>4. Product(i, P) = i * P
  BY DEF Product, IsF64
<1>5. i * P = (i * p) * One /\ i * p \in Int
  BY <1>1
<1>6. ~(P =< 0)
  <2> HIDE DEF P
  <2> QED
    BY <1>2
<1>7. CASE func = "Floor"
  <2>1. FloorOf(Quotient(v, P)) = i
    BY <1>7, WholeQuotients
  <2> HIDE DEF P
  <2>2. FloorF64(v, P) = Ok(Float(i * P))
    BY <1>4, <1>6, <2>1 DEF FloorF64
  <2>3. ApplyRoundingFunction(func, v, p) = CheckedF64ToI64(i * P)
    BY <1>3, <1>7, <2>2 DEF ApplyRoundingFunction, AndThenToI64, Ok, Float
  <2> QED
    BY <1>5, <2>3, WholeNumbersConvert
<1>8. CASE func = "Ceiling"
  <2>1. CeilOf(Quotient(v, P)) = i
    BY <1>8, WholeQuotients
  <2> HIDE DEF P
  <2>2. CeilingF64(v, P) = Ok(Float(i * P))
    BY <1>4, <1>6, <2>1 DEF CeilingF64
  <2>3. ApplyRoundingFunction(func, v, p) = CheckedF64ToI64(i * P)
    BY <1>3, <1>8, <2>2 DEF ApplyRoundingFunction, AndThenToI64, Ok, Float
  <2> QED
    BY <1>5, <2>3, WholeNumbersConvert
<1> QED
  BY <1>7, <1>8

\* An answered floor or ceiling is the multiple.
LEMMA RoundingFollows ==
  ASSUME AnswersCall
  PROVE  RoundedIsTheMultiple
<1> DEFINE v == call.args[1].at
           P == call.args[2].at
           p == P \div One
           exact == IF call.op = "Floor" THEN Below(v, P) ELSE Above(v, P)
<1> SUFFICES ASSUME call.op \in {"Floor", "Ceiling"}, outcome # Pending,
                    P > 0, IsF64(P), QuotientIsNormal(v, P),
                    Abs(v) =< ExactBound \/ IsPowerOfTwo(p), IsF64(exact)
             PROVE  IF exact \div One \in Ints
                    THEN outcome = Ok(Int64(exact \div One))
                    ELSE outcome = Err("IntegerOverflow")
  BY DEF RoundedIsTheMultiple, Arg
<1>1. IsCall(call) /\ outcome = CallOutcome(call)
  BY CallsAssumption DEF AnswersCall
<1>2. /\ IsNumber(call.args[1]) /\ IsFloat(call.args[1])
      /\ IsNumber(call.args[2]) /\ ~IsFloat(call.args[2])
  <2>1. Len(call.args) = 2 /\ IsFloat(call.args[1]) /\ ~IsFloat(call.args[2])
    BY <1>1 DEF IsCall, ComparisonOps
  <2> QED
    BY <1>1, <2>1 DEF IsCall
<1>3. outcome = ApplyRoundingFunction(call.op, v, p)
  BY <1>1 DEF CallOutcome, ComparisonOps
<1>4. One \in Nat \ {0}
  BY FormatFacts
<1>5. v \in Int /\ Abs(v) < Limit /\ IsF64(v) /\ P \in Int /\ P % One = 0 /\ p \in Ints
  BY <1>2 DEF IsNumber, IsFloat
<1>6. P = p * One /\ p \in Int
  <2> DEFINE x == P % One
  <2>1. P = One * p + x /\ p \in Int /\ x = 0
    BY <1>4, <1>5, Division
  <2> HIDE DEF x, p
  <2>2. One * p = p * One /\ p * One \in Int
    BY <1>4, <2>1
  <2> QED
    BY <2>1, <2>2
<1> DEFINE i == IF call.op = "Floor" THEN v \div P ELSE -((-v) \div P)
<1> HIDE DEF p
<1>7. p > 0
  <2>1. 0 * One = 0 /\ 0 \in Int
    BY <1>4
  <2> HIDE DEF P
  <2> QED
    BY <1>4, <1>6, <2>1, TimesOrders
<1>8. Rounds(v, p)
  BY <1>5, <1>6, <1>7 DEF Rounds, InFormat, p
<1> HIDE DEF v, P
<1>9. i \in Int
  <2>1. v \div P \in Int /\ (-v) \div P \in Int
    BY <1>5, Division
  <2> QED
    BY <2>1
<1>10. exact = i * P
  <2>1. ASSUME NEW x \in Int, x = (-v) \div P
        PROVE  Above(v, P) = (-x) * P
    <3>1. Above(v, P) = -(x * P)
      BY <2>1 DEF Above
    <3>2. -(x * P) = (-x) * P
      BY <1>5, <2>1
    <3> QED
      BY <3>1, <3>2
  <2>2. (-v) \div P \in Int
    BY <1>5, Division
  <2> QED
    BY <2>1, <2>2 DEF Below
<1>11. outcome = IF i * p \in Ints THEN Ok(Int64(i * p)) ELSE Err("IntegerOverflow")
  BY <1>3, <1>6, <1>8, <1>9, <1>10, RoundingComputes
<1>12. exact \div One = i * p
  <2> DEFINE y == i * p
  <2>1. exact = y * One /\ y \in Int /\ exact \in Int
    <3> HIDE DEF i, exact
    <3> QED
      BY <1>4, <1>6, <1>9, <1>10
  <2> HIDE DEF exact, y
  <2> DEFINE w == exact \div One
             z == exact % One
  <2>2. exact = One * w + z /\ z \in 0 .. One - 1 /\ w \in Int
    BY <1>4, <2>1, Division
  <2> HIDE DEF w, z
  <2>3. One * w = w * One /\ (w + 1) * One = w * One + One /\ w * One \in Int
    BY <1>4, <2>2
  <2>4. w * One =< y * One /\ y * One < (w + 1) * One
    BY <1>4, <2>1, <2>2, <2>3
  <2>5. w =< y /\ y < w + 1
    BY <1>4, <2>1, <2>2, <2>4, TimesOrders
  <2> QED
    BY <2>1, <2>2, <2>5 DEF w, y
<1> HIDE DEF i, exact
<1> QED
  BY <1>11, <1>12

\* In every format too short for the integers, floor and ceiling of a float to an
\* integer precision give the multiple next to it, or an overflow exactly if that
\* is no i64, although a quotient and a product are rounded on the way
\* (floor_f64_to_i64, ceiling_f64_to_i64, the half-open range).
THEOREM RoundedAreMultiples == Spec => []RoundedIsTheMultiple
<1>1. AnswersCall => RoundedIsTheMultiple
  BY RoundingFollows
<1> QED
  BY <1>1, CallsAreAnswered, PTL
=============================================================================
