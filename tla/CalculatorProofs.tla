--------------------------- MODULE CalculatorProofs ---------------------------
(***************************************************************************)
(* Proofs about Calculator.  The price before it is rounded is written     *)
(* over one denominator for all requests; what the code answers is the     *)
(* integer next to it, so differences of at least one unit survive the     *)
(* rounding.                                                               *)
(***************************************************************************)
EXTENDS Calculator, TLAPS

(***************************************************************************)
(* Rounding.                                                               *)
(***************************************************************************)
\* Division with remainder, multiplied out.
LEMMA Division ==
  ASSUME NEW n \in Nat, NEW d \in Nat, d > 0
  PROVE  /\ n \div d \in Nat /\ n % d \in Nat
         /\ n % d = n - (n \div d) * d
         /\ d * (n \div d) <= n
         /\ n < d * (n \div d) + d
<1>1. n % d = n - (n \div d) * d
  OBVIOUS
<1>2. n \div d \in Nat /\ n % d \in Nat
  OBVIOUS
<1>3. d * (n \div d) <= n
  OBVIOUS
<1>4. n < d * (n \div d) + d
  OBVIOUS
<1>. QED BY <1>1, <1>2, <1>3, <1>4

\* What is compared d times over compares the same once.
LEMMA Cancel ==
  ASSUME NEW x \in Int, NEW y \in Int, NEW d \in Nat, d > 0
  PROVE  /\ d * x <= d * y => x <= y
         /\ d * x < d * y => x < y
         /\ x <= y => d * x <= d * y
         /\ x < y => d * x < d * y
<1>1. d * x <= d * y => x <= y
  OBVIOUS
<1>2. d * x < d * y => x < y
  OBVIOUS
<1>3. x <= y => d * x <= d * y
  OBVIOUS
<1>4. x < y => d * x < d * y
  OBVIOUS
<1>. QED BY <1>1, <1>2, <1>3, <1>4

\* A doubled product of a sum.
LEMMA Distribute ==
  ASSUME NEW d \in Nat, NEW x \in Nat, NEW u \in Nat
  PROVE  2 * d * (x + u) = 2 * d * x + 2 * d * u
OBVIOUS

\* p is the integer next to e / u; halves go up.
NextTo(p, e, u) ==
  /\ p \in Nat
  /\ 2 * u * p <= 2 * e + u
  /\ 2 * e + u < 2 * u * (p + 1)

\* RoundedProduct is the integer next to the product.
LEMMA Nearest ==
  ASSUME NEW a \in Nat, NEW b \in Nat, NEW c \in Nat, NEW d \in Nat, b > 0, d > 0
  PROVE  NextTo(RoundedProduct([num |-> a, den |-> b], [num |-> c, den |-> d]), a * c, b * d)
<1> DEFINE ra    == a % b
           whole == (a \div b) * c
           qw    == whole \div d
           rw    == whole % d
           rest  == rw * b + ra * c
           den   == b * d
           up    == (2 * rest + den) \div (2 * den)
           R     == qw + up
<1>1. RoundedProduct([num |-> a, den |-> b], [num |-> c, den |-> d]) = R
  BY DEF RoundedProduct
<1>2. PICK qa \in Nat : whole = qa * c /\ ra = a - qa * b /\ ra \in Nat
  BY Division
<1>3. whole \in Nat
  BY <1>2
<1> HIDE DEF ra, whole
<1>4. qw \in Nat /\ rw \in Nat /\ rw = whole - qw * d
  BY <1>3, Division
<1> HIDE DEF qw, rw
<1>5. den \in Nat /\ den > 0 /\ rest \in Nat
  BY <1>2, <1>4
<1>6. a * c = den * qw + rest
  <2>1. a * c = b * whole + ra * c
    BY <1>2
  <2>2. b * whole = den * qw + b * rw
    BY <1>3, <1>4
  <2>. QED BY <1>2, <1>3, <1>4, <2>1, <2>2
<1>7. /\ up \in Nat
      /\ 2 * den * up <= 2 * rest + den
      /\ 2 * rest + den < 2 * den * up + 2 * den
  <2> HIDE DEF den, rest
  <2>1. 2 * rest + den \in Nat /\ 2 * den \in Nat /\ 2 * den > 0
    BY <1>5
  <2>. QED BY <2>1, Division
<1> HIDE DEF rest, den, up
<1>8. R \in Nat /\ 2 * den * R = 2 * den * qw + 2 * den * up
  BY <1>4, <1>5, <1>7, Distribute
<1>9. 2 * den * (R + 1) = 2 * den * R + 2 * den
  BY <1>5, <1>8, Distribute
<1>10. 2 * (a * c) = 2 * den * qw + 2 * rest
  BY <1>4, <1>5, <1>6
<1>11. /\ 2 * den * R <= 2 * (a * c) + den
       /\ 2 * (a * c) + den < 2 * den * (R + 1)
  BY <1>4, <1>5, <1>7, <1>8, <1>9, <1>10
<1>. QED BY <1>1, <1>8, <1>11 DEF NextTo, den

\* The same integer is next to the same number over another denominator.
LEMMA Rescaled ==
  ASSUME NEW D \in Nat, NEW N \in Nat, NEW E \in Nat, NEW U \in Nat, D > 0, U > 0,
         E * D = U * N, NEW R, NextTo(R, N, D)
  PROVE  NextTo(R, E, U)
<1>1. /\ D * (2 * U * R) = U * (2 * D * R)
      /\ D * (2 * E + U) = U * (2 * N + D)
      /\ D * (2 * U * (R + 1)) = U * (2 * D * (R + 1))
  BY DEF NextTo
<1>2. /\ U * (2 * D * R) <= U * (2 * N + D)
      /\ U * (2 * N + D) < U * (2 * D * (R + 1))
  BY Cancel DEF NextTo
<1>. QED BY <1>1, <1>2, Cancel DEF NextTo

(***************************************************************************)
(* The exact price: Base(m) for one device over m months and Further(m)    *)
(* for each one more, in units of one ruble divided by Unit.               *)
(***************************************************************************)
Unit == 100 * 61 * 61 * 73

Base(m) ==
  IF m = 1 THEN 160 * Unit
  ELSE IF m <= 12 THEN 100 * 61 * 73 * (17690 + 8454 * (m - 2))
  ELSE 100 * 61 * 61 * 10194 * m

Further(m) ==
  IF m = 1 THEN 120 * Unit
  ELSE IF m <= 12 THEN 73 * (17690 + 8454 * (m - 2)) * (5307 - 204 * (m - 2))
  ELSE 61 * 61 * 53 * 10194 * m

Exact(m, n) == Base(m) + (n - 1) * Further(m)

Price(m, n) == RoundedProduct(knownP1(m * 30), AllDevices(n, knownRatio(m * 30)))

\* The price is the integer next to the exact one.
LEMMA PriceIsNearest ==
  ASSUME NEW m \in 1 .. 24, NEW n \in 1 .. 10
  PROVE  NextTo(Price(m, n), Exact(m, n), Unit)
<1>1. ASSUME NEW a \in Nat, NEW b \in Nat, NEW c \in Nat, NEW d \in Nat, b > 0, d > 0,
             Price(m, n) = RoundedProduct([num |-> a, den |-> b], [num |-> c, den |-> d]),
             Exact(m, n) \in Nat, Exact(m, n) * (b * d) = Unit * (a * c)
      PROVE  NextTo(Price(m, n), Exact(m, n), Unit)
  <2>1. a * c \in Nat /\ b * d \in Nat /\ b * d > 0
    BY <1>1
  <2>2. Unit \in Nat /\ Unit > 0
    BY SMT DEF Unit
  <2>3. NextTo(Price(m, n), a * c, b * d)
    BY <1>1, Nearest
  <2>. QED BY <1>1, <2>1, <2>2, <2>3, Rescaled
<1>2. CASE m = 1
  <2>1. Price(m, n) = RoundedProduct([num |-> 160, den |-> 1],
                                     [num |-> 100 + (n - 1) * 75, den |-> 100])
    BY <1>2, SMT DEF Price, knownP1, knownRatio, AllDevices, Whole
  <2>2. Exact(m, n) \in Nat /\ Exact(m, n) * (1 * 100) = Unit * (160 * (100 + (n - 1) * 75))
    BY <1>2, SMT DEF Exact, Base, Further, Unit
  <2>. QED BY <1>1, <2>1, <2>2
<1>3. CASE m = 2
  <2>1. Price(m, n) = RoundedProduct([num |-> 8700, den |-> 30],
                                     [num |-> 3000 + (n - 1) * 2610, den |-> 3000])
    BY <1>3, SMT DEF Price, knownP1, knownRatio, AllDevices, Between
  <2>2. Exact(m, n) \in Nat /\ Exact(m, n) * (30 * 3000) = Unit * (8700 * (3000 + (n - 1) * 2610))
    BY <1>3, SMT DEF Exact, Base, Further, Unit
  <2>. QED BY <1>1, <2>1, <2>2
<1>4. CASE m \in 3 .. 12
  <2> DEFINE a == 5 * (17690 + 8454 * (m - 2))
             c == 30500 + (n - 1) * (5 * (5307 - 204 * (m - 2)))
  <2>1. Price(m, n) = RoundedProduct([num |-> a, den |-> 305], [num |-> c, den |-> 30500])
    BY <1>4, SMT DEF Price, knownP1, knownRatio, AllDevices, Between
  <2>2. Exact(m, n) \in Nat /\ Exact(m, n) * (305 * 30500) = Unit * (a * c)
    BY <1>4, SMT DEF Exact, Base, Further, Unit
  <2>3. a \in Nat /\ c \in Nat
    BY <1>4, SMT
  <2>. QED BY <1>1, <2>1, <2>2, <2>3
<1>5. CASE m \in 13 .. 24
  <2>1. Price(m, n) = RoundedProduct([num |-> 50970 * m, den |-> 365],
                                     [num |-> 100 + (n - 1) * 53, den |-> 100])
    BY <1>5, SMT DEF Price, knownP1, knownRatio, AllDevices, Whole
  <2>2. Exact(m, n) \in Nat /\ Exact(m, n) * (365 * 100) = Unit * (50970 * m * (100 + (n - 1) * 53))
    BY <1>5, SMT DEF Exact, Base, Further, Unit
  <2>. QED BY <1>1, <1>5, <2>1, <2>2
<1>. QED BY <1>2, <1>3, <1>4, <1>5

(***************************************************************************)
(* What grows, by how much.                                                *)
(***************************************************************************)
\* A longer term costs at least one ruble more for one device, and no less for
\* each further one; each further device costs at least one ruble.
LEMMA LongerCostsMore ==
  ASSUME NEW m \in 1 .. 24, NEW k \in 1 .. 24, k < m
  PROVE  /\ Base(m) >= Base(k) + Unit
         /\ Further(m) >= Further(k)
<1>1. CASE k = 1 /\ m <= 12
  BY <1>1, SMT DEF Base, Further, Unit
<1>2. CASE k = 1 /\ m > 12
  BY <1>2, SMT DEF Base, Further, Unit
<1>3. CASE k > 1 /\ m <= 12
  BY <1>3, SMT DEF Base, Further, Unit
<1>4. CASE k > 1 /\ k <= 12 /\ m > 12
  BY <1>4, SMT DEF Base, Further, Unit
<1>5. CASE k > 12
  BY <1>5, SMT DEF Base, Further, Unit
<1>. QED BY <1>1, <1>2, <1>3, <1>4, <1>5

\* The common denominator is a natural number.
LEMMA UnitType == Unit \in Nat
BY SMT DEF Unit

\* One device costs at least 160 rubles, and a further one at least 120.
LEMMA FurtherCosts ==
  ASSUME NEW m \in 1 .. 24
  PROVE  /\ Base(m) \in Nat /\ Further(m) \in Nat
         /\ Base(m) >= 160 * Unit
         /\ Further(m) >= 120 * Unit
<1>1. CASE m = 1
  BY <1>1, SMT DEF Base, Further, Unit
<1>2. CASE m \in 2 .. 12
  BY <1>2, SMT DEF Base, Further, Unit
<1>3. CASE m \in 13 .. 24
  BY <1>3, SMT DEF Base, Further, Unit
<1>. QED BY <1>1, <1>2, <1>3

\* Two terms cost at least half a ruble more than both at once, unless they are
\* two years of one device.
LEMMA TogetherCostsLess ==
  ASSUME NEW k \in 1 .. 24, NEW j \in 1 .. 24, 2 < k + j, k + j <= 24, k <= j
  PROVE  /\ ~ (k = 12 /\ j = 12) => 2 * (Base(k) + Base(j) - Base(k + j)) >= Unit
         /\ Base(k) + Base(j) - Base(k + j) >= 0
         /\ Further(k) + Further(j) - Further(k + j) >= Unit
<1>1. CASE k = 1 /\ j <= 11
  BY <1>1, SMT DEF Base, Further, Unit
<1>2. CASE k = 1 /\ j = 12
  BY <1>2, SMT DEF Base, Further, Unit
<1>3. CASE k = 1 /\ j > 12
  BY <1>3, SMT DEF Base, Further, Unit
<1>4. CASE k > 1 /\ k + j <= 12
  BY <1>4, SMT DEF Base, Further, Unit
<1>5. CASE k > 1 /\ j <= 12 /\ k + j > 12
  BY <1>5, SMT DEF Base, Further, Unit
<1>6. CASE k > 1 /\ j > 12
  BY <1>6, SMT DEF Base, Further, Unit
<1>. QED BY <1>1, <1>2, <1>3, <1>4, <1>5, <1>6

\* Before rounding, every offer costs at least 160 rubles.
LEMMA ExactType ==
  ASSUME NEW m \in 1 .. 24, NEW n \in 1 .. 10
  PROVE  Exact(m, n) \in Int /\ Exact(m, n) >= 160 * Unit
<1> DEFINE more == (n - 1) * Further(m)
<1>1. more \in Nat
  BY FurtherCosts
<1>2. Exact(m, n) = Base(m) + more
  BY DEF Exact
<1> HIDE DEF more
<1>. QED BY <1>1, <1>2, FurtherCosts, UnitType

(***************************************************************************)
(* The theorems.                                                           *)
(***************************************************************************)
\* The answer to an accepted request; the minimum of 99 rubles is never charged.
LEMMA AnswerIsPrice ==
  ASSUME NEW r \in Asked, Accepted(r)
  PROVE  /\ r.months \in 1 .. 24 /\ Counted(r) \in 1 .. 10
         /\ Answer(r).price = Price(r.months, Counted(r))
         /\ NextTo(Price(r.months, Counted(r)), Exact(r.months, Counted(r)), Unit)
<1>1. r.months \in 1 .. 24 /\ Counted(r) \in 1 .. 10
  BY DEF Accepted
<1>2. NextTo(Price(r.months, Counted(r)), Exact(r.months, Counted(r)), Unit)
  BY <1>1, PriceIsNearest
<1>3. Price(r.months, Counted(r)) >= 99
  <2>1. Exact(r.months, Counted(r)) \in Int /\ Exact(r.months, Counted(r)) >= 160 * Unit
    BY <1>1, ExactType
  <2>. QED BY <1>2, <2>1, SMT DEF NextTo, Unit
<1>4. Answer(r).price = IF Price(r.months, Counted(r)) < 99 THEN 99
                                                           ELSE Price(r.months, Counted(r))
  BY DEF Answer, Price
<1>. QED BY <1>1, <1>2, <1>3, <1>4 DEF NextTo

\* The last answer is the one to the last request.
Answered == request \in Asked /\ Accepted(request) /\ quote = Answer(request)

\* Every state is a request that was accepted, and its answer.
LEMMA AnsweredAlways == Spec => []Answered
<1>1. Init => Answered
  BY DEF Init, Answered, OneMonth, Asked, Accepted, Counted
<1>2. Answered /\ [Next]_vars => Answered'
  BY DEF Answered, Next, CalculatePlan, vars
<1>. QED BY <1>1, <1>2, PTL DEF Spec

\* Before rounding, whoever asks for more is asked for at least a ruble more.
LEMMA MoreIsDearer ==
  ASSUME NEW m \in 1 .. 24, NEW k \in 1 .. 24, NEW n \in 1 .. 10, NEW l \in 1 .. 10,
         m >= k, n >= l, m > k \/ n > l
  PROVE  Exact(m, n) >= Exact(k, l) + Unit
<1>0. /\ Base(m) \in Nat /\ Base(k) \in Nat /\ Further(m) \in Nat /\ Further(k) \in Nat
      /\ Further(m) >= Unit /\ Unit \in Nat
  BY FurtherCosts, UnitType
<1>1. Exact(m, n) = Exact(m, l) + (n - l) * Further(m)
  BY <1>0 DEF Exact
<1>2. Exact(m, l) - Exact(k, l) = Base(m) - Base(k) + (l - 1) * (Further(m) - Further(k))
  BY <1>0 DEF Exact
<1>3. /\ (n - l) * Further(m) >= 0
      /\ n > l => (n - l) * Further(m) >= Unit
  BY <1>0
<1>4. CASE m = k
  BY <1>0, <1>1, <1>3, <1>4 DEF Exact
<1>5. CASE m > k
  <2>1. Base(m) >= Base(k) + Unit /\ Further(m) >= Further(k)
    BY <1>5, LongerCostsMore
  <2>2. (l - 1) * (Further(m) - Further(k)) >= 0
    BY <1>0, <2>1
  <2>3. Exact(m, l) \in Int /\ Exact(k, l) \in Int
    BY <1>0 DEF Exact
  <2>. QED BY <1>0, <1>1, <1>2, <1>3, <2>1, <2>2, <2>3
<1>. QED BY <1>4, <1>5

\* A longer term or more devices is always dearer, roundings included.
THEOREM MoreAlwaysCostsMore == Spec => MoreCostsMore
<1>1. ASSUME NEW r \in Asked, NEW s \in Asked, Accepted(r), Accepted(s),
             NoLess(r, s), ~ NoLess(s, r)
      PROVE  Answer(r).price > Answer(s).price
  <2> DEFINE e == Exact(r.months, Counted(r))
             f == Exact(s.months, Counted(s))
             p == Price(r.months, Counted(r))
             q == Price(s.months, Counted(s))
  <2>1. /\ Answer(r).price = p /\ NextTo(p, e, Unit)
        /\ Answer(s).price = q /\ NextTo(q, f, Unit)
    BY <1>1, AnswerIsPrice
  <2>2. e >= f + Unit
    BY <1>1, AnswerIsPrice, MoreIsDearer DEF NoLess
  <2>3. e \in Int /\ f \in Int
    BY <1>1, AnswerIsPrice, ExactType
  <2> HIDE DEF e, f, p, q
  <2>. QED BY <2>1, <2>2, <2>3, SMT DEF NextTo, Unit
<1>2. Answered /\ Answered' => (NoLess(request', request) /\ ~ NoLess(request, request')
                                  => quote'.price > quote.price)
  BY <1>1 DEF Answered
<1>. QED BY <1>2, AnsweredAlways, PTL DEF MoreCostsMore

\* Before rounding, two terms cost at least half a ruble more than both at once;
\* two years of one device are looked at after rounding.
LEMMA SplitIsDearer ==
  ASSUME NEW k \in 1 .. 24, NEW j \in 1 .. 24, NEW n \in 1 .. 10,
         2 < k + j, k + j <= 24, k <= j
  PROVE  Price(k + j, n) <= Price(k, n) + Price(j, n)
<1>1. /\ NextTo(Price(k, n), Exact(k, n), Unit)
      /\ NextTo(Price(j, n), Exact(j, n), Unit)
      /\ NextTo(Price(k + j, n), Exact(k + j, n), Unit)
  BY PriceIsNearest
<1>2. CASE k = 12 /\ j = 12 /\ n = 1
  <2>1. Exact(12, 1) = Base(12) /\ Exact(24, 1) = Base(24)
    BY FurtherCosts DEF Exact
  <2>. QED BY <1>1, <1>2, <2>1, SMT DEF NextTo, Base, Unit
<1>3. CASE ~ (k = 12 /\ j = 12 /\ n = 1)
  <2> DEFINE further == Further(k) + Further(j) - Further(k + j)
             more    == (n - 1) * further
  <2>0. /\ Base(k) \in Nat /\ Base(j) \in Nat /\ Base(k + j) \in Nat
        /\ Further(k) \in Nat /\ Further(j) \in Nat /\ Further(k + j) \in Nat
        /\ Unit \in Nat
    BY FurtherCosts, UnitType
  <2>1. Exact(k, n) + Exact(j, n) - Exact(k + j, n) = Base(k) + Base(j) - Base(k + j) + more
    <3> DEFINE a == (n - 1) * Further(k)
               b == (n - 1) * Further(j)
               c == (n - 1) * Further(k + j)
    <3>1. more = a + b - c /\ a \in Int /\ b \in Int /\ c \in Int
      <4> DEFINE x == Further(k)
                 y == Further(j)
                 z == Further(k + j)
      <4>1. x \in Int /\ y \in Int /\ z \in Int
        BY <2>0
      <4> HIDE DEF x, y, z
      <4>2. /\ (n - 1) * (x + y - z) = (n - 1) * x + (n - 1) * y - (n - 1) * z
            /\ (n - 1) * x \in Int /\ (n - 1) * y \in Int /\ (n - 1) * z \in Int
        BY <4>1
      <4>. QED BY <4>2 DEF x, y, z
    <3>2. /\ Exact(k, n) = Base(k) + a
          /\ Exact(j, n) = Base(j) + b
          /\ Exact(k + j, n) = Base(k + j) + c
      BY DEF Exact
    <3> HIDE DEF a, b, c, more
    <3>. QED BY <2>0, <3>1, <3>2
  <2>2. further >= Unit /\ further \in Int
    <3>1. further >= Unit
      BY TogetherCostsLess
    <3>. QED BY <2>0, <3>1
  <2> HIDE DEF further
  <2>3. more >= 0 /\ more \in Int /\ (n > 1 => more >= Unit)
    BY <2>0, <2>2
  <2> HIDE DEF more
  <2>4. 2 * (Base(k) + Base(j) - Base(k + j) + more) >= Unit
    <3>1. CASE k = 12 /\ j = 12
      BY <1>3, <2>0, <2>3, <3>1, TogetherCostsLess
    <3>2. CASE ~ (k = 12 /\ j = 12)
      BY <2>0, <2>3, <3>2, TogetherCostsLess
    <3>. QED BY <3>1, <3>2
  <2>5. Exact(k, n) \in Int /\ Exact(j, n) \in Int /\ Exact(k + j, n) \in Int
    BY ExactType
  <2>. QED BY <1>1, <2>0, <2>1, <2>4, <2>5, SMT DEF NextTo, Unit
<1>. QED BY <1>2, <1>3

\* One order is never dearer than two for the same term and devices.
THEOREM SplittingNeverPaysOff == Spec => []SplittingNeverPays
<1>1. Answered => SplittingNeverPays
  <2> SUFFICES ASSUME Answered, request.months > 2, NEW m \in 1 .. request.months - 1
               PROVE  quote.price <= Answer([request EXCEPT !.months = m]).price
                                       + Answer([request EXCEPT !.months = @ - m]).price
    BY DEF SplittingNeverPays
  <2> DEFINE one   == [request EXCEPT !.months = m]
             other == [request EXCEPT !.months = @ - m]
             n     == Counted(request)
  <2>1. /\ request \in Asked /\ request.months \in 1 .. 24 /\ n \in 1 .. 10
        /\ quote.price = Price(request.months, n)
    BY AnswerIsPrice DEF Answered
  <2>2. /\ one \in Asked /\ one.months = m /\ Counted(one) = n /\ Accepted(one)
        /\ other \in Asked /\ other.months = request.months - m /\ Counted(other) = n
        /\ Accepted(other)
    BY <2>1 DEF Answered, Asked, Accepted, Counted
  <2>3. Answer(one).price = Price(m, n) /\ Answer(other).price = Price(request.months - m, n)
    BY <2>2, AnswerIsPrice
  <2> HIDE DEF one, other, n
  <2>4. Price(m, n) \in Nat /\ Price(request.months - m, n) \in Nat
    BY <2>1, PriceIsNearest DEF NextTo
  <2>5. CASE m <= request.months - m
    <3>1. Price(m + (request.months - m), n) <= Price(m, n) + Price(request.months - m, n)
      BY <2>1, <2>5, SplitIsDearer
    <3>2. m + (request.months - m) = request.months
      BY <2>1
    <3>. QED BY <2>1, <2>3, <3>1, <3>2 DEF one, other
  <2>6. CASE request.months - m <= m
    <3>1. Price((request.months - m) + m, n) <= Price(request.months - m, n) + Price(m, n)
      BY <2>1, <2>6, SplitIsDearer
    <3>2. (request.months - m) + m = request.months
      BY <2>1
    <3>. QED BY <2>1, <2>3, <2>4, <3>1, <3>2 DEF one, other
  <2>. QED BY <2>1, <2>5, <2>6
<1>. QED BY <1>1, AnsweredAlways, PTL

=============================================================================
