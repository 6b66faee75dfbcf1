----------------------------- MODULE PricingProofs -----------------------------
(***************************************************************************)
(* The properties of Pricing for every limit, grid, price and percentage.  *)
(* First what Gcd computes, then fractions in lowest terms, the two        *)
(* roundings, the discounted price, and the inductive invariant.           *)
(***************************************************************************)
EXTENDS Pricing, WellFoundedInduction, TLAPS

\* d divides n.
Divides(d, n) == \E k \in Int : n = d * k

\* d is a common divisor of n and m, and every other one divides it.
IsGcd(d, n, m) ==
  /\ Divides(d, n) /\ Divides(d, m)
  /\ \A e \in Nat : Divides(e, n) /\ Divides(e, m) => Divides(e, d)

\* A set of numbers that is not empty has a least member: the form in which this
\* module uses induction.
LEMMA LeastNumber ==
  ASSUME NEW T, T \subseteq Nat, T # {}
  PROVE  \E x \in T : \A y \in T : x <= y
<1> DEFINE R == OpToRel(<, Nat)
<1>1. IsWellFoundedOn(R, Nat)
  BY NatLessThanWellFounded
<1>2. \A x, y \in Nat : x < y => << x, y >> \in R
  BY DEF OpToRel
<1> HIDE DEF R
<1>3. PICK x \in T : \A y \in T : ~ (<< y, x >> \in R)
  BY <1>1, WFMin
<1>4. \A y \in T : ~(y < x)
  BY <1>2, <1>3
<1>5. \A y \in T : x <= y
  <2>1. x \in Nat /\ \A y \in T : y \in Nat
    OBVIOUS
  <2>2. \A y \in T : y \in Nat /\ ~(y < x)
    BY <1>4, <2>1
  <2> QED
    BY <2>1, <2>2
<1> QED
  BY <1>5

\* \div and % by a positive number.
LEMMA Quotient ==
  ASSUME NEW n \in Int, NEW m \in Nat \ {0}
  PROVE  /\ n \div m \in Int /\ n % m \in 0 .. m - 1
         /\ n = m * (n \div m) + (n % m)
OBVIOUS

\* A product divided by one of its factors.
LEMMA QuotientOfProduct ==
  ASSUME NEW n \in Int, NEW m \in Nat \ {0}
  PROVE  (m * n) \div m = n
OBVIOUS

\* A positive factor on both sides.
LEMMA Cancel ==
  ASSUME NEW a \in Int, NEW b \in Int, NEW c \in Nat \ {0}
  PROVE  /\ a * c <= b * c => a <= b
         /\ a * c = b * c => a = b
         /\ a * c < b * c => a < b
         /\ a <= b => a * c <= b * c
         /\ a < b => a * c < b * c
OBVIOUS

\* Who divides m divides n and the rest of n by m together.
LEMMA DividesRest ==
  ASSUME NEW d \in Nat, NEW n \in Nat, NEW m \in Nat, NEW q \in Int, NEW r \in Nat,
         n = m * q + r, Divides(d, m)
  PROVE  Divides(d, n) <=> Divides(d, r)
<1>1. PICK i \in Int : m = d * i
  BY DEF Divides
<1> DEFINE p == i * q
<1>2. p \in Int /\ n = d * p + r
  BY <1>1
<1> HIDE DEF p
<1>3. ASSUME NEW j \in Int, n = d * j
      PROVE  r = d * (j - p) /\ j - p \in Int
  BY <1>2, <1>3
<1>4. ASSUME NEW j \in Int, r = d * j
      PROVE  n = d * (j + p) /\ j + p \in Int
  BY <1>2, <1>4
<1> QED
  BY <1>3, <1>4 DEF Divides

\* Two numbers that divide each other are equal.
LEMMA DividesAntisymmetric ==
  ASSUME NEW a \in Nat, NEW b \in Nat, Divides(a, b), Divides(b, a)
  PROVE  a = b
<1>1. PICK i \in Int, j \in Int : b = a * i /\ a = b * j
  BY DEF Divides
<1>2. CASE a = 0 \/ b = 0
  BY <1>1, <1>2
<1>3. CASE a # 0 /\ b # 0
  <2>1. i > 0 /\ j > 0
    BY <1>1, <1>3
  <2>2. a <= b /\ b <= a
    BY <1>1, <1>3, <2>1
  <2> QED
    BY <2>2
<1> QED
  BY <1>2, <1>3

\* The greatest common divisors of n and m: one number.
Gcds(n, m) == {d \in Nat : IsGcd(d, n, m)}

\* There is one greatest common divisor at most.
LEMMA OneGcd ==
  ASSUME NEW n \in Nat, NEW m \in Nat, NEW d \in Gcds(n, m), NEW e \in Gcds(n, m)
  PROVE  d = e
<1>1. d \in Nat /\ e \in Nat /\ Divides(d, e) /\ Divides(e, d)
  BY DEF Gcds, IsGcd
<1> QED
  BY <1>1, DividesAntisymmetric

\* Zero adds no divisor of its own.
LEMMA GcdOfZero ==
  ASSUME NEW n \in Nat
  PROVE  Gcds(n, 0) = {n}
<1>1. n = n * 1 /\ 0 = n * 0
  OBVIOUS
<1>2. n \in Gcds(n, 0)
  BY <1>1 DEF Gcds, IsGcd, Divides
<1>3. \A d \in Gcds(n, 0) : d = n
  BY <1>2, OneGcd
<1> QED
  BY <1>2, <1>3

\* The step of Euclid's algorithm changes nothing.
LEMMA GcdStep ==
  ASSUME NEW n \in Nat, NEW m \in Nat \ {0}
  PROVE  Gcds(n, m) = Gcds(m, n % m)
<1>1. n \div m \in Int /\ n % m \in Nat /\ n = m * (n \div m) + (n % m)
  BY Quotient
<1>2. PICK q \in Int, r \in Nat : r = n % m /\ n = m * q + r
  BY <1>1
<1>3. \A d \in Nat : Divides(d, n) /\ Divides(d, m) <=> Divides(d, m) /\ Divides(d, r)
  BY <1>2, DividesRest
<1>4. \A d \in Nat : IsGcd(d, n, m) <=> IsGcd(d, m, r)
  BY <1>3 DEF IsGcd
<1> QED
  BY <1>2, <1>4 DEF Gcds

\* The recursion of Gcd has a solution.
LEMMA GcdExists ==
  \E f : f = [m \in Nat |-> [n \in Nat |-> IF m = 0 THEN n ELSE f[n % m][m]]]
<1> DEFINE h == [m \in Nat |-> [n \in Nat |-> CHOOSE d : d \in Gcds(n, m)]]
           g == [m \in Nat |-> [n \in Nat |-> IF m = 0 THEN n ELSE h[n % m][m]]]
<1>1. ASSUME NEW m \in Nat, NEW n \in Nat
      PROVE  h[m][n] = g[m][n]
  <2>1. CASE m = 0
    <3>1. h[m][n] = CHOOSE d : d \in {n}
      BY <2>1, GcdOfZero
    <3> QED
      BY <2>1, <3>1
  <2>2. CASE m # 0
    <3>1. m \in Nat /\ n % m \in Nat
      BY <2>2, Quotient
    <3>2. h[n % m][m] = CHOOSE d : d \in Gcds(m, n % m)
      BY <3>1
    <3>3. Gcds(n, m) = Gcds(m, n % m)
      BY <2>2, GcdStep
    <3> QED
      BY <2>2, <3>2, <3>3
  <2> QED
    BY <2>1, <2>2
<1>2. ASSUME NEW m \in Nat
      PROVE  h[m] = g[m]
  BY <1>1
<1>3. h = g
  BY <1>2
<1> QED
  BY <1>3

\* Gcd satisfies the equation that defines it.
LEMMA GcdRecursion ==
  Gcd = [m \in Nat |-> [n \in Nat |-> IF m = 0 THEN n ELSE Gcd[n % m][m]]]
BY GcdExists DEF Gcd

\* What Gcd computes, by induction on its first argument.
LEMMA GcdIsGcd ==
  ASSUME NEW n \in Nat, NEW m \in Nat
  PROVE  Gcd[m][n] \in Gcds(n, m)
<1> DEFINE T == {k \in Nat : \E j \in Nat : Gcd[k][j] \notin Gcds(j, k)}
<1>1. ASSUME T # {} PROVE FALSE
  <2>1. PICK k \in T : \A i \in T : k <= i
    BY <1>1, LeastNumber
  <2>2. PICK j \in Nat : Gcd[k][j] \notin Gcds(j, k)
    OBVIOUS
  <2>3. k \in Nat
    OBVIOUS
  <2>4. CASE k = 0
    <3>1. Gcd[k][j] = j
      BY <2>4, GcdRecursion
    <3> QED
      BY <2>2, <2>4, <3>1, GcdOfZero
  <2>5. CASE k # 0
    <3>1. j % k \in Nat /\ j % k < k
      <4>1. k \in Nat \ {0} /\ j \in Int
        BY <2>3, <2>5
      <4>2. j % k \in 0 .. k - 1
        BY <4>1, Quotient
      <4> QED
        BY <4>2, <2>3
    <3>2. j % k \notin T
      BY <2>1, <2>3, <3>1
    <3>3. Gcd[j % k][k] \in Gcds(k, j % k)
      BY <2>3, <3>1, <3>2
    <3>4. Gcd[k][j] = Gcd[j % k][k]
      BY <2>3, <2>5, GcdRecursion
    <3> QED
      BY <2>2, <2>3, <2>5, <3>3, <3>4, GcdStep
  <2> QED
    BY <2>4, <2>5
<1> QED
  BY <1>1

--------------------------------------------------------------------------------
\* The fractions with a positive denominator; one in lowest terms.
Ratios == [num : Int, den : Nat \ {0}]
Lowest(x) == \A d \in Nat : Divides(d, x.num) /\ Divides(d, x.den) => d = 1

\* The sign does not matter.
LEMMA DividesOpposite ==
  ASSUME NEW d \in Nat, NEW n \in Int
  PROVE  Divides(d, -n) <=> Divides(d, n)
<1>1. ASSUME NEW k \in Int
      PROVE  (n = d * k => -n = d * (-k)) /\ (-n = d * k => n = d * (-k)) /\ -k \in Int
  OBVIOUS
<1> QED
  BY <1>1 DEF Divides

\* Rat divides both numbers by one factor and leaves lowest terms.
LEMMA RatReduces ==
  ASSUME NEW num \in Int, NEW den \in Nat \ {0}
  PROVE  /\ Rat(num, den) \in Ratios /\ Lowest(Rat(num, den))
         /\ \E g \in Nat \ {0} : num = g * Rat(num, den).num /\ den = g * Rat(num, den).den
<1>1. PICK n \in Nat : n = IF num < 0 THEN -num ELSE num
  OBVIOUS
<1>2. PICK g : g = Gcd[den][n]
  OBVIOUS
<1>3. g \in Nat /\ IsGcd(g, n, den)
  BY <1>2, GcdIsGcd DEF Gcds
<1>4. Divides(g, num) /\ Divides(g, den)
  BY <1>1, <1>3, DividesOpposite DEF IsGcd
<1>5. PICK a \in Int, b \in Int : num = g * a /\ den = g * b
  BY <1>4 DEF Divides
<1>6. g > 0 /\ b > 0
  BY <1>3, <1>5
<1>7. num \div g = a /\ den \div g = b
  BY <1>3, <1>5, <1>6, QuotientOfProduct
<1>8. Rat(num, den) = [num |-> a, den |-> b]
  BY <1>1, <1>2, <1>7 DEF Rat
<1>9. ASSUME NEW d \in Nat, Divides(d, a), Divides(d, b)
      PROVE  d = 1
  <2>1. PICK i \in Int, j \in Int : a = d * i /\ b = d * j
    BY <1>9 DEF Divides
  <2> DEFINE e == g * d
  <2>2. e \in Nat /\ num = e * i /\ den = e * j
    BY <1>3, <1>5, <2>1
  <2> HIDE DEF e
  <2>3. Divides(e, n) /\ Divides(e, den)
    BY <1>1, <2>2, DividesOpposite DEF Divides
  <2>4. PICK k \in Int : g = e * k
    BY <1>3, <2>2, <2>3 DEF IsGcd, Divides
  <2>5. g * 1 = g * (d * k) /\ d * k \in Int
    BY <1>3, <2>4 DEF e
  <2>6. d * k = 1
    BY <1>3, <1>6, <2>5
  <2> QED
    BY <2>6
<1> QED
  BY <1>3, <1>5, <1>6, <1>8, <1>9 DEF Ratios, Lowest

\* A fraction in lowest terms stays as it is.
LEMMA LowestIsRat ==
  ASSUME NEW x \in Ratios, Lowest(x)
  PROVE  Rat(x.num, x.den) = x
<1>1. x.num \in Int /\ x.den \in Nat \ {0} /\ x = [num |-> x.num, den |-> x.den]
  BY DEF Ratios
<1>2. PICK y \in Ratios : y = Rat(x.num, x.den)
  BY <1>1, RatReduces
<1>3. PICK g \in Nat \ {0} : x.num = g * y.num /\ x.den = g * y.den
  BY <1>1, <1>2, RatReduces
<1>4. y.num \in Int /\ y.den \in Int /\ y = [num |-> y.num, den |-> y.den]
  BY DEF Ratios
<1>5. Divides(g, x.num) /\ Divides(g, x.den)
  BY <1>3, <1>4 DEF Divides
<1>6. g = 1
  BY <1>5 DEF Lowest
<1> QED
  BY <1>1, <1>2, <1>3, <1>4, <1>6

\* Rat keeps the value and the sign, and makes no number larger.
LEMMA RatValue ==
  ASSUME NEW num \in Int, NEW den \in Nat \ {0}
  PROVE  /\ Rat(num, den).num * den = num * Rat(num, den).den
         /\ Rat(num, den).den <= den
         /\ num > 0 => Rat(num, den).num \in 1 .. num
         /\ num >= 0 <=> Rat(num, den).num >= 0
         /\ num = 0 => Rat(num, den) = [num |-> 0, den |-> 1]
<1>1. PICK y \in Ratios : y = Rat(num, den) /\ Lowest(y)
  BY RatReduces
<1>2. PICK g \in Nat \ {0} : num = g * y.num /\ den = g * y.den
  BY <1>1, RatReduces
<1>3. y.num \in Int /\ y.den \in Nat \ {0} /\ y = [num |-> y.num, den |-> y.den]
  BY DEF Ratios
<1>4. y.num * den = num * y.den
  BY <1>2, <1>3
<1>5. y.den <= den
  BY <1>2, <1>3
<1>6. num > 0 => y.num \in 1 .. num
  BY <1>2, <1>3
<1>7. num >= 0 <=> y.num >= 0
  BY <1>2, <1>3
<1>8. ASSUME num = 0 PROVE y = [num |-> 0, den |-> 1]
  <2>1. y.num = 0
    BY <1>2, <1>3, <1>8
  <2>2. y.den \in Nat /\ y.den = y.den * 1 /\ y.num = y.den * 0
    BY <1>3, <2>1
  <2>3. Divides(y.den, y.num) /\ Divides(y.den, y.den)
    BY <2>2 DEF Divides
  <2>4. y.den = 1
    BY <1>1, <2>2, <2>3 DEF Lowest
  <2> QED
    BY <1>3, <2>1, <2>4
<1> QED
  BY <1>1, <1>4, <1>5, <1>6, <1>7, <1>8

\* The order of two fractions is that of any others of the same values.
LEMMA ValueOrder ==
  ASSUME NEW x \in Ratios, NEW p \in Int, NEW q \in Nat \ {0}, x.num * q = p * x.den,
         NEW y \in Ratios, NEW r \in Int, NEW s \in Nat \ {0}, y.num * s = r * y.den
  PROVE  AtMost(x, y) <=> p * s <= r * q
<1>1. PICK a \in Int, b \in Nat \ {0}, c \in Int, d \in Nat \ {0} :
        a = x.num /\ b = x.den /\ c = y.num /\ d = y.den
  BY DEF Ratios
<1>2. a * q = p * b /\ c * s = r * d
  BY <1>1
<1>3. (a * d) * (q * s) = (p * s) * (b * d)
  <2>1. (a * d) * (q * s) = (a * q) * (d * s)
    OBVIOUS
  <2>2. (p * s) * (b * d) = (p * b) * (d * s)
    OBVIOUS
  <2> QED
    BY <1>2, <2>1, <2>2
<1>4. (c * b) * (q * s) = (r * q) * (b * d)
  <2>1. (c * b) * (q * s) = (c * s) * (b * q)
    OBVIOUS
  <2>2. (r * q) * (b * d) = (r * d) * (b * q)
    OBVIOUS
  <2> QED
    BY <1>2, <2>1, <2>2
<1> DEFINE t == q * s
           u == b * d
           i == a * d
           j == c * b
           k == p * s
           l == r * q
<1>5. /\ t \in Nat \ {0} /\ u \in Nat \ {0} /\ i \in Int /\ j \in Int /\ k \in Int /\ l \in Int
      /\ i * t = k * u /\ j * t = l * u
  BY <1>3, <1>4
<1>6. AtMost(x, y) <=> i <= j
  BY <1>1 DEF AtMost
<1> HIDE DEF t, u, i, j
<1>8. ASSUME i <= j PROVE k <= l
  <2>1. i * t <= j * t
    BY <1>5, <1>8, Cancel
  <2> HIDE DEF k, l
  <2>2. k * u <= l * u
    BY <1>5, <2>1
  <2> QED
    BY <1>5, <2>2, Cancel
<1>9. ASSUME k <= l PROVE i <= j
  <2> HIDE DEF k, l
  <2>1. k * u <= l * u
    BY <1>5, <1>9, Cancel
  <2>2. i * t <= j * t
    BY <1>5, <2>1
  <2> QED
    BY <1>5, <2>2, Cancel
<1> QED
  BY <1>6, <1>8, <1>9

--------------------------------------------------------------------------------
\* a / b rounded to an integer, halves to the even neighbour.
Nearest(a, b) ==
  LET below == a \div b
      rest == 2 * (a - below * b)
      up == rest > b \/ (rest = b /\ below % 2 = 1)
  IN  IF up THEN below + 1 ELSE below

\* Rounding keeps the order.
LEMMA NearestMonotone ==
  ASSUME NEW a \in Int, NEW b \in Nat \ {0}, NEW c \in Int, NEW d \in Nat \ {0}, a * d <= c * b
  PROVE  /\ Nearest(a, b) \in Int /\ Nearest(c, d) \in Int
         /\ Nearest(a, b) <= Nearest(c, d)
<1>1. PICK p \in Int, i \in 0 .. b - 1 : p = a \div b /\ a = b * p + i
  BY Quotient
<1>2. PICK q \in Int, j \in 0 .. d - 1 : q = c \div d /\ c = d * q + j
  BY Quotient
<1>3. /\ Nearest(a, b) = IF 2 * i > b \/ (2 * i = b /\ p % 2 = 1) THEN p + 1 ELSE p
      /\ Nearest(c, d) = IF 2 * j > d \/ (2 * j = d /\ q % 2 = 1) THEN q + 1 ELSE q
  <2>1. a - p * b = i /\ c - q * d = j
    BY <1>1, <1>2
  <2> QED
    BY <1>1, <1>2, <2>1 DEF Nearest
<1>4. (b * p + i) * d <= (d * q + j) * b
  BY <1>1, <1>2
<1>5. (b * d) * (p - q) <= j * b - i * d
  BY <1>4
<1>6. p <= q
  <2>1. SUFFICES ASSUME p >= q + 1 PROVE FALSE
    OBVIOUS
  <2>2. (b * d) * (p - q) >= b * d
    BY <2>1
  <2>3. j * b < d * b /\ i * d >= 0
    OBVIOUS
  <2> QED
    BY <1>5, <2>2, <2>3
<1>7. CASE p < q
  BY <1>3, <1>7
<1>8. CASE p = q
  <2>1. i * d <= j * b
    BY <1>5, <1>8
  <2>2. ASSUME 2 * i > b PROVE 2 * j > d
    <3>1. (2 * i) * d > b * d
      BY <2>2
    <3>2. (2 * j) * b > d * b
      BY <2>1, <3>1
    <3> QED
      BY <3>2
  <2>3. ASSUME 2 * i = b PROVE 2 * j >= d
    <3>1. (2 * i) * d = b * d
      BY <2>3
    <3>2. (2 * j) * b >= d * b
      BY <2>1, <3>1
    <3> QED
      BY <3>2
  <2> QED
    BY <1>3, <1>8, <2>2, <2>3
<1> QED
  BY <1>3, <1>6, <1>7, <1>8

\* A whole number is its own neighbour.
LEMMA NearestOfWhole ==
  ASSUME NEW n \in Int, NEW b \in Nat \ {0}
  PROVE  Nearest(b * n, b) = n
<1>1. (b * n) \div b = n
  BY QuotientOfProduct
<1>2. b * n - n * b = 0
  OBVIOUS
<1> QED
  BY <1>1, <1>2 DEF Nearest

\* ToFloat in terms of Nearest.
LEMMA ToFloatNearest ==
  ASSUME NEW x \in Ratios
  PROVE  ToFloat(x) = Rat(Nearest(x.num * FloatGrid, x.den), FloatGrid)
BY DEF ToFloat, Nearest

\* A float64 keeps the order of two fractions.
LEMMA ToFloatMonotone ==
  ASSUME NEW x \in Ratios, NEW y \in Ratios, AtMost(x, y)
  PROVE  AtMost(ToFloat(x), ToFloat(y))
<1>1. PICK a \in Int, b \in Nat \ {0}, c \in Int, d \in Nat \ {0}, g \in Nat \ {0} :
        a = x.num /\ b = x.den /\ c = y.num /\ d = y.den /\ g = FloatGrid
  BY PricingAssumption DEF Ratios
<1>2. a * d <= c * b
  BY <1>1 DEF AtMost
<1>3. (a * d) * g <= (c * b) * g
  BY <1>2, Cancel
<1>4. (a * g) * d <= (c * g) * b /\ a * g \in Int /\ c * g \in Int
  BY <1>3
<1>5. PICK m \in Int, n \in Int : m = Nearest(a * g, b) /\ n = Nearest(c * g, d) /\ m <= n
  BY <1>4, NearestMonotone
<1>6. ToFloat(x) = Rat(m, g) /\ ToFloat(y) = Rat(n, g)
  BY <1>1, <1>5, ToFloatNearest
<1>7. m * g <= n * g
  BY <1>5, Cancel
<1>8. /\ Rat(m, g) \in Ratios /\ Rat(m, g).num * g = m * Rat(m, g).den
      /\ Rat(n, g) \in Ratios /\ Rat(n, g).num * g = n * Rat(n, g).den
  BY RatReduces, RatValue
<1> QED
  BY <1>6, <1>7, <1>8, ValueOrder

\* A whole number passes through a float64 unchanged.
LEMMA ToFloatOfWhole ==
  ASSUME NEW x \in Ratios, x.den = 1
  PROVE  /\ ToFloat(x) \in Ratios
         /\ ToFloat(x).num = x.num * ToFloat(x).den
<1>1. PICK n \in Int, g \in Nat \ {0} : n = x.num /\ g = FloatGrid
  BY PricingAssumption DEF Ratios
<1>2. Nearest(n * g, 1) = n * g
  <2>1. PICK m \in Int : m = n * g
    OBVIOUS
  <2>2. Nearest(1 * m, 1) = m
    BY NearestOfWhole
  <2> QED
    BY <2>1, <2>2
<1>3. ToFloat(x) = Rat(n * g, g) /\ n * g \in Int
  BY <1>1, <1>2, ToFloatNearest
<1>4. PICK y \in Ratios : y = ToFloat(x) /\ y.num * g = (n * g) * y.den
  BY <1>3, RatReduces, RatValue
<1>5. y.num \in Int /\ y.den \in Int
  BY DEF Ratios
<1>6. (n * g) * y.den = (n * y.den) * g /\ n * y.den \in Int
  BY <1>5
<1>7. y.num * g = (n * y.den) * g
  BY <1>4, <1>6
<1>8. y.num = n * y.den
  BY <1>5, <1>6, <1>7, Cancel
<1> QED
  BY <1>1, <1>4, <1>8

\* A percentage in range, told by its numerator and denominator.
InRange(x) == x \in Ratios /\ AtMost(Zero, x) /\ AtMost(x, Rat(100, 1))

\* A whole number as a fraction.
LEMMA WholeRat ==
  ASSUME NEW n \in Nat
  PROVE  Rat(n, 1) = [num |-> n, den |-> 1]
<1>1. PICK y \in Ratios : y = Rat(n, 1) /\ y.num * 1 = n * y.den /\ y.den <= 1
  BY RatReduces, RatValue
<1> QED
  BY <1>1 DEF Ratios

\* The range in terms of numerator and denominator.
LEMMA RangeOfPercent ==
  ASSUME NEW x \in Ratios
  PROVE  /\ AtMost(Zero, x) <=> x.num >= 0
         /\ InRange(x) <=> x.num >= 0 /\ x.num <= 100 * x.den
BY WholeRat DEF InRange, AtMost, Zero, Ratios

\* A NUMERIC column keeps a percentage in range.
LEMMA ToNumericInRange ==
  ASSUME NEW x, InRange(x)
  PROVE  InRange(ToNumeric(x))
<1>1. PICK a \in Nat, b \in Nat \ {0}, d \in Nat \ {0} :
        a = x.num /\ b = x.den /\ d = Decimals /\ a <= 100 * b
  BY RangeOfPercent, PricingAssumption DEF InRange, Ratios
<1> DEFINE n == (2 * a * d + b) \div (2 * b)
<1>2. n \in Int /\ 0 <= n /\ n <= 100 * d
  <2>1. PICK c \in Nat : c = a * d
    OBVIOUS
  <2>2. c <= (100 * b) * d
    BY <1>1, <2>1, Cancel
  <2>3. PICK e \in Nat : e = b * d
    OBVIOUS
  <2>4. c <= 100 * e
    BY <2>2, <2>3
  <2>5. 2 * a * d + b = 2 * c + b
    BY <2>1
  <2>6. PICK q \in Int, i \in 0 .. 2 * b - 1 : q = n /\ 2 * c + b = (2 * b) * q + i
    <3>1. PICK u \in Int, v \in Nat \ {0} : u = 2 * c + b /\ v = 2 * b /\ n = u \div v
      BY <2>5
    <3>2. u \div v \in Int /\ u % v \in 0 .. v - 1 /\ u = v * (u \div v) + (u % v)
      BY Quotient
    <3>3. PICK i \in Int : i = u % v
      BY <3>2
    <3> QED
      BY <3>1, <3>2, <3>3
  <2>7. q >= 0
    BY <2>6
  <2>8. (2 * b) * q <= (2 * b) * (100 * d) + b
    BY <2>3, <2>4, <2>6
  <2>9. q <= 100 * d
    <3>1. ASSUME q >= 100 * d + 1 PROVE FALSE
      <4>1. (2 * b) * q >= (2 * b) * (100 * d + 1)
        BY <3>1
      <4> QED
        BY <2>8, <4>1
    <3> QED
      BY <3>1
  <2> QED
    BY <2>6, <2>7, <2>9
<1>3. ToNumeric(x) = Rat(n, d)
  BY <1>1 DEF ToNumeric
<1> HIDE DEF n
<1>4. PICK y \in Ratios : y = Rat(n, d) /\ y.num * d = n * y.den /\ (n >= 0 <=> y.num >= 0)
  BY <1>2, RatReduces, RatValue
<1>5. y.num \in Int /\ y.den \in Nat \ {0}
  BY DEF Ratios
<1>6. y.num <= 100 * y.den
  <2>1. n * y.den <= (100 * d) * y.den
    BY <1>2, <1>5, Cancel
  <2>2. y.num * d <= (100 * y.den) * d
    BY <1>4, <1>5, <2>1
  <2> QED
    BY <1>5, <2>2, Cancel
<1> QED
  BY <1>2, <1>3, <1>4, <1>6, RangeOfPercent

\* A float64 is a fraction again.
LEMMA ToFloatRatio ==
  ASSUME NEW x \in Ratios
  PROVE  ToFloat(x) \in Ratios
<1>1. x.num \in Int /\ x.den \in Nat \ {0} /\ FloatGrid \in Nat \ {0} /\ x.num * x.den <= x.num * x.den
  BY PricingAssumption DEF Ratios
<1>2. PICK a \in Int : a = x.num * FloatGrid
  BY <1>1
<1>3. a * x.den <= a * x.den
  BY <1>1
<1>4. Nearest(a, x.den) \in Int
  BY <1>1, <1>3, NearestMonotone
<1> QED
  BY <1>1, <1>2, <1>4, ToFloatNearest, RatReduces

\* A float64 keeps a percentage in range.
LEMMA ToFloatInRange ==
  ASSUME NEW x, InRange(x)
  PROVE  InRange(ToFloat(x))
<1>1. x \in Ratios /\ ToFloat(x) \in Ratios
  BY ToFloatRatio DEF InRange
<1>2. Zero \in Ratios /\ Rat(100, 1) \in Ratios /\ Zero.num = 0 /\ Zero.den = 1
      /\ Rat(100, 1).num = 100 /\ Rat(100, 1).den = 1
  BY WholeRat DEF Zero, Ratios
<1>3. AtMost(ToFloat(Zero), ToFloat(x)) /\ AtMost(ToFloat(x), ToFloat(Rat(100, 1)))
  BY <1>1, <1>2, ToFloatMonotone DEF InRange
<1>4. PICK z \in Ratios, h \in Ratios : /\ z = ToFloat(Zero) /\ z.num = 0 * z.den
                                        /\ h = ToFloat(Rat(100, 1)) /\ h.num = 100 * h.den
  BY <1>2, ToFloatOfWhole
<1>5. PICK a \in Int, b \in Nat \ {0}, c \in Nat \ {0}, d \in Nat \ {0} :
        a = ToFloat(x).num /\ b = ToFloat(x).den /\ c = z.den /\ d = h.den
  BY <1>1 DEF Ratios
<1>6. 0 * b <= a * c /\ a * d <= (100 * d) * b
  BY <1>3, <1>4, <1>5 DEF AtMost
<1>7. 0 <= a /\ a * d <= (100 * b) * d
  BY <1>6
<1>8. a <= 100 * b
  BY <1>7, Cancel
<1> QED
  BY <1>1, <1>5, <1>7, <1>8, RangeOfPercent

\* The multiplier of a percentage in range is between 0 and 1.
LEMMA MultiplierInRange ==
  ASSUME NEW d, InRange(d.percent)
  PROVE  /\ Multiplier(d) \in Ratios
         /\ 0 <= Multiplier(d).num /\ Multiplier(d).num <= Multiplier(d).den
<1>1. PICK a \in Nat, b \in Nat \ {0} : a = d.percent.num /\ b = d.percent.den /\ a <= 100 * b
  BY RangeOfPercent DEF InRange, Ratios
<1>2. Rat(1, 100).num * 100 = 1 * Rat(1, 100).den /\ Rat(1, 100).den <= 100 /\ Rat(1, 100) \in Ratios
  BY RatReduces, RatValue
<1>3. Rat(1, 100).num = 1 /\ Rat(1, 100).den = 100
  BY <1>2 DEF Ratios
<1>4. Multiplier(d) = Rat(a, b * 100) /\ b * 100 \in Nat \ {0}
  BY <1>1, <1>3 DEF Multiplier, Mul
<1>5. PICK y \in Ratios : /\ y = Rat(a, b * 100) /\ y.num * (b * 100) = a * y.den
                          /\ y.num >= 0
  BY <1>4, RatReduces, RatValue
<1>6. y.num \in Int /\ y.den \in Nat \ {0}
  BY DEF Ratios
<1>7. a * y.den <= (100 * b) * y.den
  BY <1>1, <1>6, Cancel
<1>8. y.num * (b * 100) <= y.den * (b * 100)
  BY <1>5, <1>6, <1>7
<1>9. y.num <= y.den
  BY <1>4, <1>6, <1>8, Cancel
<1> QED
  BY <1>4, <1>5, <1>9

\* A discount never makes a price negative or larger, and one that does not make it
\* smaller leaves it as it is.
LEMMA DiscountLowers ==
  ASSUME NEW p \in Ratios, Lowest(p), p.num > 0, NEW d, InRange(d.percent)
  PROVE  LET e == ApplyDiscount(p, Multiplier(d))
         IN  e \in Ratios /\ e.num >= 0 /\ AtMost(e, p) /\ (AtMost(p, e) => e = p)
<1>1. PICK m \in Ratios : m = Multiplier(d) /\ 0 <= m.num /\ m.num <= m.den
  BY MultiplierInRange
<1>2. PICK a \in Nat \ {0}, b \in Nat \ {0}, i \in Nat, j \in Nat \ {0} :
        a = p.num /\ b = p.den /\ i = m.num /\ j = m.den /\ i <= j
  BY <1>1 DEF Ratios
<1>3. a * i \in Nat /\ b * j \in Nat \ {0}
  OBVIOUS
<1>4. PICK c \in Ratios : /\ c = Rat(a * i, b * j) /\ c.num * (b * j) = (a * i) * c.den
                          /\ c.num >= 0
                          /\ a * i = 0 => c = [num |-> 0, den |-> 1]
  BY <1>3, RatReduces, RatValue
<1>5. PICK k \in Nat, l \in Nat \ {0} : k = c.num /\ l = c.den
  BY <1>4 DEF Ratios
<1> DEFINE n == a * l - k * b
           o == b * l
<1>6. n \in Int /\ o \in Nat \ {0}
  OBVIOUS
<1>7. ApplyDiscount(p, m) = Rat(n, o)
  BY <1>2, <1>4, <1>5 DEF ApplyDiscount, CalculateDiscountAmount, Mul, Sub
<1>8. n >= 0
  <2>1. (k * b) * j = (a * l) * i
    BY <1>4, <1>5
  <2>2. (a * l) * i <= (a * l) * j
    BY <1>2
  <2>3. k * b <= a * l
    BY <2>1, <2>2, Cancel
  <2> QED
    BY <2>3
<1>9. PICK e \in Ratios : e = Rat(n, o) /\ e.num * o = n * e.den /\ e.num >= 0
  BY <1>6, <1>8, RatReduces, RatValue
<1>10. /\ AtMost(e, p) <=> n * b <= a * o
       /\ AtMost(p, e) <=> a * o <= n * b
  <2>1. p.num * b = a * p.den
    BY <1>2
  <2> HIDE DEF n, o
  <2> QED
    BY <1>6, <1>9, <2>1, ValueOrder
<1>11. a * o - n * b = k * (b * b)
  OBVIOUS
<1>12. AtMost(e, p)
  BY <1>6, <1>10, <1>11
<1>13. ASSUME AtMost(p, e) PROVE e = p
  <2>1. k = 0
    BY <1>6, <1>10, <1>11, <1>13
  <2>2. (a * i) * l = 0
    BY <1>4, <1>5, <2>1
  <2>3. a * i = 0
    BY <2>2
  <2>4. l = 1
    BY <1>4, <1>5, <2>3
  <2>5. n = a /\ o = b
    BY <2>1, <2>4
  <2> QED
    BY <1>2, <1>9, <2>5, LowestIsRat
<1> QED
  BY <1>1, <1>7, <1>9, <1>12, <1>13, RangeOfPercent

\* A price that arrives: it never overflows, and one that is accepted is positive, in
\* lowest terms and worth what the client gave.
LEMMA PriceGiven ==
  ASSUME NEW price \in Fractions
  PROVE  LET m == NewMoney(price.num, price.den)
         IN  /\ PriceError(price) # "ErrMoneyOverflow"
             /\ PriceError(price) = "nil" =>
                  /\ m \in Ratios /\ m.num > 0 /\ Lowest(m)
                  /\ m.num * price.den = price.num * m.den
<1>1. PICK n \in Int64, d \in Int64 : n = price.num /\ d = price.den
  BY PricingAssumption
<1>2. n \in Int /\ d \in Int /\ n < Limit /\ d < Limit /\ Limit \in Nat
  BY PricingAssumption DEF Int64
<1>3. CASE d <= 0
  BY <1>1, <1>3 DEF PriceError, NewMoney
<1>4. CASE d > 0
  <2>1. PICK y \in Ratios :
          /\ y = Rat(n, d) /\ Lowest(y) /\ y.num * d = n * y.den /\ y.den <= d
          /\ n > 0 => y.num \in 1 .. n
          /\ n >= 0 <=> y.num >= 0
          /\ n = 0 => y = [num |-> 0, den |-> 1]
    BY <1>2, <1>4, RatReduces, RatValue
  <2>2. y.num \in Int /\ y.den \in Nat \ {0}
    BY DEF Ratios
  <2>3. NewMoney(n, d) = y /\ y # None
    <3>1. y \in Fraction
      BY <2>2 DEF Fraction, Ratios
    <3> QED
      BY <1>2, <1>4, <2>1, <3>1, PricingAssumption DEF NewMoney
  <2>4. y.num > 0 => y.num \in Int64 /\ y.den \in Int64
    BY <1>2, <2>1, <2>2 DEF Int64
  <2>5. PriceError(price) = IF y.num > 0 THEN "nil" ELSE "ErrInvalidPrice"
    BY <1>1, <2>3, <2>4 DEF PriceError, IsPositive, IsSafeForStorage
  <2> QED
    BY <1>1, <2>1, <2>3, <2>5
<1> QED
  BY <1>2, <1>3, <1>4

--------------------------------------------------------------------------------
\* The columns of a product, and the discount as it is stored.
Rows == [num : Nat \ {0}, den : Nat \ {0}, discount : Discount \cup {None}, status : Statuses]

Loadable(d) ==
  InRange(d.percent) /\ d.start < d.end /\ d.end - d.start <= MaxDiscountDuration

\* The inductive invariant: the row is typed, its price is the client's in lowest
\* terms, and its discount is one that NewDiscount accepts.
PricingInv ==
  /\ clock \in Nat
  /\ refusal # "ErrMoneyOverflow"
  /\ row # None =>
       /\ row \in Rows /\ Lowest(row)
       /\ asked \in Fractions /\ row.num * asked.den = asked.num * row.den
       /\ row.discount # None => Loadable(row.discount)

\* No product, no claim.
LEMMA PricingInvInit ==
  Init => PricingInv
BY DEF Init, PricingInv

\* A new row holds the price as NewMoney made it.
LEMMA CreateKeepsInv ==
  ASSUME PricingInv, NEW price \in Fractions, Create(price)
  PROVE  PricingInv'
<1> DEFINE m == NewMoney(price.num, price.den)
<1>1. CASE PriceError(price) = "nil"
  <2>1. m \in Ratios /\ m.num > 0 /\ Lowest(m) /\ m.num * price.den = price.num * m.den
    BY <1>1, PriceGiven
  <2> HIDE DEF m
  <2>2. row' = [num |-> m.num, den |-> m.den, discount |-> None, status |-> "inactive"]
        /\ asked' = price /\ clock' = clock /\ refusal' = "nil"
    BY <1>1 DEF Create, Done, m
  <2>3. row' \in Rows /\ row'.num = m.num /\ row'.den = m.den /\ row'.discount = None
    BY <2>1, <2>2 DEF Rows, Ratios, Statuses
  <2> QED
    BY <2>1, <2>2, <2>3 DEF PricingInv, Lowest
<1>2. CASE PriceError(price) # "nil"
  BY <1>2, PriceGiven DEF Create, Done, PricingInv, Lowest, Loadable
<1> QED
  BY <1>1, <1>2

\* So does a row with a new price; a refusal leaves it alone.
LEMMA SetBasePriceKeepsInv ==
  ASSUME PricingInv, NEW price \in Fractions, SetBasePrice(price)
  PROVE  PricingInv'
<1> DEFINE m == NewMoney(price.num, price.den)
<1>1. CASE refusal' = "nil"
  <2>1. PriceError(price) = "nil"
    BY <1>1 DEF SetBasePrice, Done
  <2>2. m \in Ratios /\ m.num > 0 /\ Lowest(m) /\ m.num * price.den = price.num * m.den
    BY <2>1, PriceGiven
  <2> HIDE DEF m
  <2>3. row' = [row EXCEPT !.num = m.num, !.den = m.den]
        /\ asked' = price /\ clock' = clock /\ row # None
    BY <1>1 DEF SetBasePrice, Done, m
  <2>4. row \in Rows
    BY <2>3 DEF PricingInv
  <2>5. m.num \in Nat \ {0} /\ m.den \in Nat \ {0}
    BY <2>2 DEF Ratios
  <2>6. row' \in Rows /\ row'.num = m.num /\ row'.den = m.den /\ row'.discount = row.discount
    BY <2>3, <2>4, <2>5 DEF Rows
  <2> QED
    BY <1>1, <2>2, <2>3, <2>6 DEF PricingInv, Lowest
<1>2. CASE refusal' # "nil"
  <2>1. row' = row /\ asked' = asked /\ clock' = clock
    BY <1>2 DEF SetBasePrice, Done
  <2>2. refusal' # "ErrMoneyOverflow"
    BY PriceGiven DEF SetBasePrice, Done
  <2> QED
    BY <2>1, <2>2 DEF PricingInv, Lowest, Loadable
<1> QED
  BY <1>1, <1>2

\* A discount that NewDiscount accepts loads again after the NUMERIC rounding.
LEMMA ApplyKeepsInv ==
  ASSUME PricingInv, NEW percent \in Percents, NEW start \in Int, NEW end \in Int,
         Apply(percent, start, end)
  PROVE  PricingInv'
<1> DEFINE d == [percent |-> Rat(percent, FloatGrid), start |-> start, end |-> end]
<1>1. CASE ApplyError(d) = "nil"
  <2>1. Valid(d)
    BY <1>1 DEF ApplyError
  <2>2. Rat(percent, FloatGrid) \in Ratios
    BY PricingAssumption, RatReduces
  <2>3. InRange(Rat(percent, FloatGrid))
    BY <2>1, <2>2 DEF Valid, InRange
  <2> DEFINE e == [percent |-> ToNumeric(d.percent), start |-> start, end |-> end]
  <2>4. Loadable(e)
    BY <2>1, <2>3, ToNumericInRange DEF Valid, ValidPeriod, Loadable
  <2>5. e \in Discount
    BY <2>4 DEF Loadable, InRange, Ratios, Discount, Fraction
  <2>6. row' = [row EXCEPT !.discount = e] /\ row # None /\ asked' = asked /\ clock' = clock
        /\ refusal' = "nil"
    BY <1>1 DEF Apply, Done
  <2> HIDE DEF e
  <2>7. row \in Rows
    BY <2>6 DEF PricingInv
  <2>8. row' \in Rows /\ row'.num = row.num /\ row'.den = row.den /\ row'.discount = e
    BY <2>5, <2>6, <2>7 DEF Rows
  <2> QED
    BY <2>4, <2>6, <2>8 DEF PricingInv, Lowest
<1>2. CASE ApplyError(d) # "nil"
  <2>1. row' = row /\ asked' = asked /\ clock' = clock /\ refusal' = ApplyError(d)
    BY <1>2 DEF Apply, Done
  <2>2. refusal' # "ErrMoneyOverflow"
    BY <2>1 DEF ApplyError
  <2> QED
    BY <2>1, <2>2 DEF PricingInv, Lowest, Loadable
<1> QED
  BY <1>1, <1>2

\* Without its discount the row keeps its price.
LEMMA RemoveDiscountKeepsInv ==
  ASSUME PricingInv, RemoveDiscount
  PROVE  PricingInv'
<1>1. row \in Rows /\ row # None
  BY DEF RemoveDiscount, PricingInv
<1>2. asked' = asked /\ clock' = clock /\ refusal' # "ErrMoneyOverflow"
      /\ (row' = row \/ row' = [row EXCEPT !.discount = None])
  BY DEF RemoveDiscount, Done
<1>3. row' \in Rows /\ row'.num = row.num /\ row'.den = row.den
      /\ (row'.discount = row.discount \/ row'.discount = None)
  BY <1>1, <1>2 DEF Rows
<1> QED
  BY <1>1, <1>2, <1>3 DEF PricingInv, Lowest

\* A change of status keeps the price, and the discount or none.
LEMMA SetStatusKeepsInv ==
  ASSUME PricingInv, NEW status \in Statuses, SetStatus(status)
  PROVE  PricingInv'
<1>1. row \in Rows /\ row # None
  BY DEF SetStatus, PricingInv
<1>2. /\ asked' = asked /\ clock' = clock /\ refusal' # "ErrMoneyOverflow"
      /\ \/ row' = row
         \/ row' = [row EXCEPT !.status = status,
                               !.discount = IF status = "archived" THEN None ELSE @]
  BY DEF SetStatus, Done
<1>3. row' \in Rows /\ row'.num = row.num /\ row'.den = row.den
      /\ (row'.discount = row.discount \/ row'.discount = None)
  BY <1>1, <1>2 DEF Rows
<1> QED
  BY <1>1, <1>2, <1>3 DEF PricingInv, Lowest

\* Every step keeps the invariant.
LEMMA PricingInvStep ==
  PricingInv /\ [Next]_vars => PricingInv'
<1> SUFFICES ASSUME PricingInv, [Next]_vars
             PROVE  PricingInv'
  OBVIOUS
<1>1. ASSUME NEW price \in Fractions, Create(price) \/ SetBasePrice(price)
      PROVE  PricingInv'
  BY <1>1, CreateKeepsInv, SetBasePriceKeepsInv
<1>2. ASSUME NEW percent \in Percents, NEW start \in 0 .. MaxTime, NEW end \in 0 .. MaxTime,
             Apply(percent, start, end)
      PROVE  PricingInv'
  BY <1>2, ApplyKeepsInv, PricingAssumption
<1>3. CASE RemoveDiscount
  BY <1>3, RemoveDiscountKeepsInv
<1>4. ASSUME NEW status \in Statuses, SetStatus(status)
      PROVE  PricingInv'
  BY <1>4, SetStatusKeepsInv
<1>5. CASE Tick
  BY <1>5 DEF Tick, PricingInv, Lowest, Loadable
<1>6. CASE UNCHANGED vars
  BY <1>6 DEF vars, PricingInv, Lowest, Loadable
<1>7. ASSUME NEW start \in 0 .. MaxTime, NEW end \in 0 .. MaxTime, ApplyNaN(start, end)
      PROVE  PricingInv'
  <2>1. row' = row /\ asked' = asked /\ clock' = clock /\ refusal' \in {"panic", "invalid"}
    BY <1>7 DEF ApplyNaN, Done
  <2> QED
    BY <2>1 DEF PricingInv, Lowest, Loadable
<1> QED
  BY <1>1, <1>2, <1>3, <1>4, <1>5, <1>6, <1>7 DEF Next

\* The invariant holds always: the base of the theorems below.
THEOREM PricingInvAlways == Spec => []PricingInv
BY PricingInvInit, PricingInvStep, PTL DEF Spec

\* No rest means divisible.
LEMMA DividesWhole ==
  ASSUME NEW n \in Int, NEW d \in Nat \ {0}, n % d = 0
  PROVE  Divides(d, n)
<1>1. n \div d \in Int /\ n = d * (n \div d) + (n % d)
  BY Quotient
<1>2. PICK k \in Int : k = n \div d
  BY <1>1
<1> QED
  BY <1>1, <1>2 DEF Divides

\* Lowest in the words of the invariant.
LEMMA LowestMeans ==
  ASSUME NEW x, x.num \in Int, x.den \in Nat \ {0}, Lowest(x), NEW d \in 2 .. x.den
  PROVE  ~(x.num % d = 0 /\ x.den % d = 0)
<1> SUFFICES ASSUME x.num % d = 0, x.den % d = 0
             PROVE  FALSE
  OBVIOUS
<1>1. Divides(d, x.num) /\ Divides(d, x.den)
  BY DividesWhole
<1> QED
  BY <1>1 DEF Lowest

\* The price and the discount that are loaded from the row.
LEMMA Loaded ==
  ASSUME PricingInv, row # None
  PROVE  LET p == LoadedPrice(row)
             d == LoadedDiscount(row.discount)
         IN  /\ p \in Ratios /\ Lowest(p) /\ p.num > 0
             /\ row.discount # None =>
                  /\ Valid(d) /\ InRange(d.percent)
                  /\ d.start = row.discount.start /\ d.end = row.discount.end
                  /\ d.start \in Int /\ d.end \in Int
             /\ row.discount = None => d = None
<1>1. row \in Rows /\ Lowest(row)
  BY DEF PricingInv
<1> DEFINE p == [num |-> row.num, den |-> row.den]
<1>2. p \in Ratios /\ Lowest(p) /\ p.num > 0 /\ row.den > 0
  BY <1>1 DEF Rows, Ratios, Lowest
<1>3. Rat(p.num, p.den) = p
  BY <1>2, LowestIsRat
<1>4. LoadedPrice(row) = p
  BY <1>1, <1>2, <1>3 DEF LoadedPrice, NewMoney, Rows
<1>5. ASSUME row.discount # None
      PROVE  /\ Valid(LoadedDiscount(row.discount)) /\ InRange(LoadedDiscount(row.discount).percent)
             /\ LoadedDiscount(row.discount).start = row.discount.start
             /\ LoadedDiscount(row.discount).end = row.discount.end
             /\ row.discount.start \in Int /\ row.discount.end \in Int
  <2>1. Loadable(row.discount)
    BY <1>5 DEF PricingInv
  <2>2. InRange(ToFloat(row.discount.percent))
    BY <2>1, ToFloatInRange DEF Loadable
  <2>3. row.discount \in [percent : Fraction, start : Int, end : Int]
    BY <1>1, <1>5 DEF Rows, Discount
  <2>4. LoadedDiscount(row.discount) = [row.discount EXCEPT !.percent = ToFloat(row.discount.percent)]
    BY <1>5 DEF LoadedDiscount
  <2>5. /\ LoadedDiscount(row.discount).percent = ToFloat(row.discount.percent)
        /\ LoadedDiscount(row.discount).start = row.discount.start
        /\ LoadedDiscount(row.discount).end = row.discount.end
        /\ row.discount.start \in Int /\ row.discount.end \in Int
    BY <2>3, <2>4
  <2> QED
    BY <2>1, <2>2, <2>5 DEF Valid, ValidPeriod, Loadable, InRange
<1>6. row.discount = None => LoadedDiscount(row.discount) = None
  BY DEF LoadedDiscount
<1> HIDE DEF p
<1> QED
  BY <1>2, <1>4, <1>5, <1>6

\* The price at a moment: the base price, or the discounted one.
LEMMA PriceAt ==
  ASSUME PricingInv, row # None, NEW now
  PROVE  LET p == LoadedPrice(row)
             d == LoadedDiscount(row.discount)
         IN  /\ DomainPrice(now) \in Ratios /\ DomainPrice(now).num >= 0
             /\ AtMost(DomainPrice(now), p)
             /\ AtMost(p, DomainPrice(now)) => DomainPrice(now) = p
             /\ DomainPrice(now) = IF d # None /\ IsValidAt(d, now)
                                   THEN ApplyDiscount(p, Multiplier(d)) ELSE p
<1> DEFINE p == LoadedPrice(row)
           d == LoadedDiscount(row.discount)
<1>1. p \in Ratios /\ Lowest(p) /\ p.num > 0 /\ (d # None => InRange(d.percent))
  BY Loaded
<1>2. DomainPrice(now) = IF d # None /\ IsValidAt(d, now)
                         THEN ApplyDiscount(p, Multiplier(d)) ELSE p
  BY DEF DomainPrice, CalculateEffectivePrice
<1> HIDE DEF p, d
<1>3. AtMost(p, p) /\ p.num >= 0
  BY <1>1 DEF AtMost, Ratios
<1>4. CASE d # None /\ IsValidAt(d, now)
  <2>1. /\ ApplyDiscount(p, Multiplier(d)) \in Ratios /\ ApplyDiscount(p, Multiplier(d)).num >= 0
        /\ AtMost(ApplyDiscount(p, Multiplier(d)), p)
        /\ AtMost(p, ApplyDiscount(p, Multiplier(d))) => ApplyDiscount(p, Multiplier(d)) = p
    BY <1>1, <1>4, DiscountLowers
  <2> QED
    BY <1>2, <1>4, <2>1 DEF p, d
<1>5. CASE ~(d # None /\ IsValidAt(d, now))
  BY <1>1, <1>2, <1>3, <1>5 DEF p, d
<1> QED
  BY <1>4, <1>5

--------------------------------------------------------------------------------
\* A price is stored as the client gave it, in lowest terms: whatever the Money that
\* NewMoney makes of the two numbers, nothing on the way to the row changes it.
THEOREM PricesExact == Spec => []PricesAreStoredExactly
<1>1. PricingInv => PricesAreStoredExactly
  <2> SUFFICES ASSUME PricingInv, row # None
               PROVE  /\ \A d \in 2 .. row.den : ~(row.num % d = 0 /\ row.den % d = 0)
                      /\ row.num * asked.den = asked.num * row.den
    BY DEF PricesAreStoredExactly
  <2>1. row.num \in Int /\ row.den \in Nat \ {0} /\ Lowest(row)
        /\ row.num * asked.den = asked.num * row.den
    BY DEF PricingInv, Rows
  <2> QED
    BY <2>1, LowestMeans
<1> QED
  BY <1>1, PricingInvAlways, PTL

\* No positive price a client can send is refused for its size.
THEOREM NoOverflow == Spec => []NoPriceOverflows
<1>1. PricingInv => NoPriceOverflows
  BY DEF PricingInv, NoPriceOverflows
<1> QED
  BY <1>1, PricingInvAlways, PTL

\* The discount of every row loads, for every percentage and both roundings.
THEOREM DiscountLoads == Spec => []StoredDiscountLoads
<1>1. PricingInv => StoredDiscountLoads
  BY Loaded DEF StoredDiscountLoads
<1> QED
  BY <1>1, PricingInvAlways, PTL

\* What the query returns, in terms of what the domain computes.
LEMMA DtoPrices ==
  ASSUME PricingInv, row # None
  PROVE  /\ Dto(clock).basePrice = ToFloat(LoadedPrice(row))
         /\ Dto(clock).effectivePrice = ToFloat(DomainPrice(clock))
         /\ Dto(clock).discountActive <=> Dto(clock).discountPercent # None
         /\ ~Dto(clock).discountActive => DomainPrice(clock) = LoadedPrice(row)
<1> DEFINE d == LoadedDiscount(row.discount)
           active == d # None /\ IsValidAt(d, clock)
<1>1. d # None => Valid(d) /\ InRange(d.percent)
  BY Loaded
<1>2. d # None => d.percent # None
  BY <1>1, PricingAssumption DEF InRange, Ratios, Fraction
<1>3. DomainPrice(clock) = IF active THEN ApplyDiscount(LoadedPrice(row), Multiplier(d))
                                     ELSE LoadedPrice(row)
  BY DEF DomainPrice, CalculateEffectivePrice
<1>4. /\ Dto(clock).basePrice = ToFloat(LoadedPrice(row))
      /\ Dto(clock).effectivePrice =
           ToFloat(IF active THEN ApplyDiscount(LoadedPrice(row), Multiplier(d))
                             ELSE LoadedPrice(row))
      /\ Dto(clock).discountActive <=> active
      /\ Dto(clock).discountPercent = IF active THEN d.percent ELSE None
  BY <1>1 DEF Dto
<1> HIDE DEF d
<1> QED
  BY <1>2, <1>3, <1>4

\* No effective price is negative or above the base price, exact or rounded, for
\* every price, percentage and grid of the two roundings.
THEOREM PriceInRange == Spec => []EffectivePriceInRange
<1>1. PricingInv => EffectivePriceInRange
  <2> SUFFICES ASSUME PricingInv, row # None
               PROVE  /\ AtMost(Zero, DomainPrice(clock)) /\ AtMost(DomainPrice(clock), LoadedPrice(row))
                      /\ AtMost(Zero, ToFloat(DomainPrice(clock)))
                      /\ AtMost(ToFloat(DomainPrice(clock)), ToFloat(LoadedPrice(row)))
    BY DtoPrices DEF EffectivePriceInRange
  <2>1. /\ DomainPrice(clock) \in Ratios /\ DomainPrice(clock).num >= 0
        /\ AtMost(DomainPrice(clock), LoadedPrice(row)) /\ LoadedPrice(row) \in Ratios
    BY PriceAt, Loaded
  <2>2. AtMost(Zero, DomainPrice(clock))
    BY <2>1, RangeOfPercent
  <2>3. AtMost(ToFloat(DomainPrice(clock)), ToFloat(LoadedPrice(row)))
    BY <2>1, ToFloatMonotone
  <2>4. Zero \in Ratios /\ Zero.num = 0 /\ Zero.den = 1
    BY WholeRat DEF Zero, Ratios
  <2>5. AtMost(ToFloat(Zero), ToFloat(DomainPrice(clock)))
    BY <2>1, <2>2, <2>4, ToFloatMonotone
  <2>6. PICK z \in Ratios : z = ToFloat(Zero) /\ z.num = 0 * z.den
    BY <2>4, ToFloatOfWhole
  <2>7. PICK e \in Ratios : e = ToFloat(DomainPrice(clock))
    BY <2>1, ToFloatRatio
  <2>8. e.num >= 0
    BY <2>5, <2>6, <2>7 DEF AtMost, Ratios
  <2>9. AtMost(Zero, ToFloat(DomainPrice(clock)))
    BY <2>7, <2>8, RangeOfPercent
  <2> QED
    BY <2>1, <2>2, <2>3, <2>9
<1> QED
  BY <1>1, PricingInvAlways, PTL

\* Aggregate and query agree on the price, the flag and the percentage.
THEOREM BothViews == Spec => []ViewsAgree
<1>1. PricingInv => ViewsAgree
  BY DtoPrices DEF ViewsAgree
<1> QED
  BY <1>1, PricingInvAlways, PTL

\* The price of an unchanged product moves at the two ends of its window only.
THEOREM FollowsTheWindow == Spec => PriceFollowsTheWindow
<1> DEFINE A == row # None /\ row' = row /\ DomainPrice(clock) # DomainPrice(clock') =>
                  IF AtMost(DomainPrice(clock'), DomainPrice(clock))
                  THEN clock' = row.discount.start ELSE clock = row.discount.end
<1>1. PricingInv /\ [Next]_vars => [A]_vars
  <2> SUFFICES ASSUME PricingInv, [Next]_vars, row # None, row' = row,
                      DomainPrice(clock) # DomainPrice(clock')
               PROVE  IF AtMost(DomainPrice(clock'), DomainPrice(clock))
                      THEN clock' = row.discount.start ELSE clock = row.discount.end
    OBVIOUS
  <2>1. clock' = clock + 1 /\ clock \in Nat
    <3>1. clock' # clock
      OBVIOUS
    <3>2. CASE Tick
      BY <3>2 DEF Tick, PricingInv
    <3>3. CASE ~Tick
      BY <3>1, <3>3 DEF Next, Create, SetBasePrice, Apply, ApplyNaN, RemoveDiscount, SetStatus, Done, vars
    <3> QED
      BY <3>2, <3>3
  <2> DEFINE p == LoadedPrice(row)
             d == LoadedDiscount(row.discount)
             e == ApplyDiscount(p, Multiplier(d))
  <2>2. d # None => /\ d.start = row.discount.start /\ d.end = row.discount.end
                    /\ d.start \in Int /\ d.end \in Int
    BY Loaded
  <2>3. /\ DomainPrice(clock) = IF d # None /\ IsValidAt(d, clock) THEN e ELSE p
        /\ DomainPrice(clock') = IF d # None /\ IsValidAt(d, clock') THEN e ELSE p
    BY PriceAt
  <2>4. /\ AtMost(DomainPrice(clock), p) /\ AtMost(DomainPrice(clock'), p)
        /\ AtMost(p, DomainPrice(clock)) => DomainPrice(clock) = p
    BY PriceAt
  <2> HIDE DEF p, d, e
  <2>5. d # None
    BY <2>3
  <2>6. CASE IsValidAt(d, clock') /\ ~IsValidAt(d, clock)
    <3>1. AtMost(DomainPrice(clock'), DomainPrice(clock))
      BY <2>3, <2>4, <2>6
    <3>2. clock' = d.start
      BY <2>1, <2>2, <2>5, <2>6 DEF IsValidAt
    <3> QED
      BY <2>2, <2>5, <3>1, <3>2
  <2>7. CASE IsValidAt(d, clock) /\ ~IsValidAt(d, clock')
    <3>1. DomainPrice(clock') = p
      BY <2>3, <2>7
    <3>2. ~AtMost(DomainPrice(clock'), DomainPrice(clock))
      BY <2>4, <3>1
    <3>3. clock = d.end
      BY <2>1, <2>2, <2>5, <2>7 DEF IsValidAt
    <3> QED
      BY <2>2, <2>5, <3>2, <3>3
  <2> QED
    BY <2>3, <2>6, <2>7
<1>2. Spec => [][A]_vars
  BY <1>1, PricingInvAlways, PTL DEF Spec
<1> QED
  BY <1>2 DEF PriceFollowsTheWindow
=============================================================================
