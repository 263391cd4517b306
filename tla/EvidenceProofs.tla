--------------------------- MODULE EvidenceProofs ---------------------------
(***************************************************************************)
(* Lemmas about the numbers of Evidence, which the proofs of the price     *)
(* models (PriceProofs) share: fractions, which stand for what they are    *)
(* equal to over any denominator; folds over finite sets; ranks; weighted  *)
(* means; the parabola of a contribution along a line.  Induction is by    *)
(* the least number at which a claim would fail.                           *)
(***************************************************************************)
EXTENDS Evidence, SequenceTheorems, FiniteSetTheorems, WellFoundedInduction, TLAPS

\* A set of natural numbers has a least member.
LEMMA LeastExists ==
  ASSUME NEW S, S \subseteq Nat, S # {}
  PROVE  \E x \in S : \A y \in S : x <= y
<1>1. PICK x \in S : \A y \in S : ~(<<y, x>> \in OpToRel(<, Nat))
  BY NatLessThanWellFounded, WFMin
<1>2. ASSUME NEW y \in S PROVE x <= y
  <2>1. x \in Nat /\ y \in Nat
    OBVIOUS
  <2>2. ~(y < x)
    BY <1>1, <2>1 DEF OpToRel
  <2> QED BY <2>1, <2>2
<1> QED BY <1>2

-----------------------------------------------------------------------------
(***************************************************************************)
(* Fractions.  What the operators of Evidence do to the numbers that their *)
(* pairs stand for: a fraction is n / d when its cross product says so.    *)
(***************************************************************************)
Divides(d, n) == \E k \in Nat : n = d * k
CommonDivisors(a, b) == {d \in Nat : Divides(d, a) /\ Divides(d, b)}

\* The common divisors of a and b are those of b and the remainder.
LEMMA DivisorsOfRemainder ==
  ASSUME NEW a \in Nat, NEW b \in Nat \ {0}
  PROVE  CommonDivisors(a, b) = CommonDivisors(b, a % b)
<1> DEFINE q == a \div b
           r == a % b
<1>1. b \in Nat /\ b # 0
  OBVIOUS
<1>2. r \in Nat /\ q \in Nat /\ r < b /\ a = b * q + r
  BY <1>1
<1> HIDE DEF q, r
<1>3. ASSUME NEW d \in Nat, Divides(d, a), Divides(d, b) PROVE Divides(d, r)
  <2>1. PICK k \in Nat : a = d * k
    BY <1>3 DEF Divides
  <2>2. PICK m \in Nat : b = d * m
    BY <1>3 DEF Divides
  <2>3. r = d * (k - m * q)
    <3>1. b * q = d * (m * q)
      BY <1>2, <2>2
    <3>2. d * (k - m * q) = d * k - d * (m * q)
      BY <1>2
    <3> QED BY <1>2, <2>1, <3>1, <3>2
  <2>4. CASE k - m * q >= 0
    <3>1. k - m * q \in Nat
      BY <1>2, <2>4
    <3> QED BY <2>3, <3>1 DEF Divides
  <2>5. CASE k - m * q < 0
    <3>1. d * (k - m * q) <= 0
      BY <1>2, <2>5
    <3>2. r = d * 0
      BY <1>2, <2>3, <3>1
    <3> QED BY <3>2 DEF Divides
  <2> QED BY <1>2, <2>4, <2>5
<1>4. ASSUME NEW d \in Nat, Divides(d, b), Divides(d, r) PROVE Divides(d, a)
  <2>1. PICK k \in Nat : r = d * k
    BY <1>4 DEF Divides
  <2>2. PICK m \in Nat : b = d * m
    BY <1>4 DEF Divides
  <2>3. a = d * (m * q + k)
    <3>1. b * q = d * (m * q)
      BY <1>2, <2>2
    <3>2. d * (m * q + k) = d * (m * q) + d * k
      BY <1>2
    <3> QED BY <1>2, <2>1, <3>1, <3>2
  <2>4. m * q + k \in Nat
    BY <1>2
  <2> QED BY <2>3, <2>4 DEF Divides
<1>5. CommonDivisors(a, b) = CommonDivisors(b, r)
  BY <1>3, <1>4 DEF CommonDivisors
<1> QED BY <1>5 DEF r

\* A number is determined by its divisors.
LEMMA DivisorsDetermine ==
  ASSUME NEW a \in Nat, NEW d \in Nat, CommonDivisors(d, 0) = CommonDivisors(a, 0)
  PROVE  d = a
<1>1. \A n \in Nat : n \in CommonDivisors(n, 0)
  <2>1. \A n \in Nat : n = n * 1 /\ 0 = n * 0
    OBVIOUS
  <2> QED BY <2>1 DEF CommonDivisors, Divides
<1>2. Divides(a, d) /\ Divides(d, a)
  BY <1>1 DEF CommonDivisors
<1>3. PICK k \in Nat : d = a * k
  BY <1>2 DEF Divides
<1>4. PICK m \in Nat : a = d * m
  BY <1>2 DEF Divides
<1>5. CASE a = 0
  BY <1>3, <1>5
<1>6. CASE d = 0
  BY <1>4, <1>6
<1>7. CASE a # 0 /\ d # 0
  <2>1. k >= 1 /\ m >= 1
    BY <1>3, <1>4, <1>7
  <2>2. d >= a /\ a >= d
    BY <1>3, <1>4, <2>1
  <2> QED BY <2>2
<1> QED BY <1>5, <1>6, <1>7

\* Euclid's recursion has a solution, and Gcd is one.
LEMMA GcdEquation ==
  \A p \in Nat \X Nat : Gcd[p] = IF p[2] = 0 THEN p[1] ELSE Gcd[<<p[2], p[1] % p[2]>>]
<1> DEFINE of(a, b) == CHOOSE d \in Nat : CommonDivisors(d, 0) = CommonDivisors(a, b)
           G == [p \in Nat \X Nat |-> of(p[1], p[2])]
           R(f) == [p \in Nat \X Nat |-> IF p[2] = 0 THEN p[1] ELSE f[<<p[2], p[1] % p[2]>>]]
<1>1. ASSUME NEW a \in Nat PROVE of(a, 0) = a
  <2>1. \E d \in Nat : CommonDivisors(d, 0) = CommonDivisors(a, 0)
    OBVIOUS
  <2>2. of(a, 0) \in Nat /\ CommonDivisors(of(a, 0), 0) = CommonDivisors(a, 0)
    BY <2>1
  <2> QED BY <2>2, DivisorsDetermine
<1>2. ASSUME NEW a \in Nat, NEW b \in Nat \ {0} PROVE of(a, b) = of(b, a % b)
  BY DivisorsOfRemainder
<1> HIDE DEF of
<1>3. ASSUME NEW p \in Nat \X Nat
      PROVE  of(p[1], p[2]) = IF p[2] = 0 THEN p[1] ELSE G[<<p[2], p[1] % p[2]>>]
  <2>1. CASE p[2] = 0
    BY <1>1, <2>1
  <2>2. CASE p[2] # 0
    <3>1. p[1] % p[2] \in Nat /\ p[1] \in Nat /\ p[2] \in Nat \ {0}
      BY <2>2
    <3>2. G[<<p[2], p[1] % p[2]>>] = of(p[2], p[1] % p[2])
      BY <3>1
    <3> QED BY <1>2, <2>2, <3>1, <3>2
  <2> QED BY <2>1, <2>2
<1>4. G = R(G)
  BY <1>3
<1>5. Gcd = R(Gcd)
  <2> HIDE DEF G
  <2> QED BY <1>4 DEF Gcd
<1> QED BY <1>5

\* The greatest common divisor divides both, and is an integer combination of them.
LEMMA GcdDivides ==
  ASSUME NEW a \in Nat, NEW b \in Nat
  PROVE  /\ Gcd[<<a, b>>] \in Nat
         /\ Divides(Gcd[<<a, b>>], a) /\ Divides(Gcd[<<a, b>>], b)
         /\ \E x, y \in Int : Gcd[<<a, b>>] = a * x + b * y
<1> DEFINE Good(m, n) ==
             /\ Gcd[<<m, n>>] \in Nat
             /\ Divides(Gcd[<<m, n>>], m) /\ Divides(Gcd[<<m, n>>], n)
             /\ \E x, y \in Int : Gcd[<<m, n>>] = m * x + n * y
           Bad == {n \in Nat : \E m \in Nat : ~Good(m, n)}
<1> HIDE DEF Good
<1> SUFFICES ASSUME Bad # {} PROVE FALSE
  <2>1. Bad = {} => Good(a, b)
    OBVIOUS
  <2> QED BY <2>1 DEF Good
<1>1. PICK n \in Bad : \A k \in Bad : n <= k
  <2> Bad \subseteq Nat
    OBVIOUS
  <2> HIDE DEF Bad
  <2> QED BY LeastExists
<1>2. PICK m \in Nat : ~Good(m, n)
  OBVIOUS
<1>3. n \in Nat
  OBVIOUS
<1>4. CASE n = 0
  <2>1. Gcd[<<m, n>>] = m
    BY <1>2, <1>3, <1>4, GcdEquation
  <2>2. m = m * 1 /\ n = m * 0 /\ m = m * 1 + n * 0
    BY <1>4
  <2>3. Divides(m, m) /\ Divides(m, n) /\ \E x, y \in Int : m = m * x + n * y
    BY <2>2 DEF Divides
  <2> QED BY <1>2, <2>1, <2>3 DEF Good
<1>5. CASE n # 0
  <2> DEFINE r == m % n
             q == m \div n
             g == Gcd[<<n, r>>]
  <2>1. r \in Nat /\ q \in Nat /\ r < n /\ m = n * q + r
    BY <1>3, <1>5
  <2>2. Gcd[<<m, n>>] = g
    BY <1>3, <1>5, GcdEquation
  <2> HIDE DEF r, q
  <2>3. Good(n, r)
    <3>1. r \notin Bad
      BY <1>1, <1>3, <2>1
    <3> QED BY <1>3, <2>1, <3>1
  <2>4. g \in Nat /\ Divides(g, n) /\ Divides(g, r)
    BY <2>3 DEF Good
  <2>5. PICK x, y \in Int : g = n * x + r * y
    BY <2>3 DEF Good
  <2> HIDE DEF g
  <2>6. Divides(g, m)
    <3>1. PICK k \in Nat : n = g * k
      BY <2>4 DEF Divides
    <3>2. PICK l \in Nat : r = g * l
      BY <2>4 DEF Divides
    <3>3. n * q = g * (k * q)
      BY <2>1, <2>4, <3>1
    <3>4. g * (k * q + l) = g * (k * q) + g * l /\ k * q + l \in Nat
      BY <2>1, <2>4
    <3>5. m = g * (k * q + l)
      BY <2>1, <3>2, <3>3, <3>4
    <3> QED BY <3>4, <3>5 DEF Divides
  <2>7. g = m * y + n * (x - q * y)
    <3>1. m * y = (n * q) * y + r * y
      BY <1>3, <2>1
    <3>2. n * (x - q * y) = n * x - (n * q) * y
      BY <1>3, <2>1
    <3> QED BY <1>3, <2>1, <2>5, <3>1, <3>2
  <2>8. x - q * y \in Int
    BY <2>1
  <2>9. \E u, v \in Int : g = m * u + n * v
    BY <2>7, <2>8
  <2> QED BY <1>2, <2>2, <2>4, <2>6, <2>9 DEF Good
<1> QED BY <1>4, <1>5

\* A positive factor cancels.
LEMMA Cancel ==
  ASSUME NEW x \in Int, NEW y \in Int, NEW c \in Nat \ {0}
  PROVE  /\ x * c = y * c <=> x = y
         /\ x * c <= y * c <=> x <= y
<1>1. ASSUME x < y PROVE x * c < y * c
  <2>1. y * c = x * c + (y - x) * c
    OBVIOUS
  <2>2. (y - x) * c >= 1
    BY <1>1
  <2> QED BY <2>1, <2>2
<1>2. ASSUME y < x PROVE y * c < x * c
  <2>1. x * c = y * c + (x - y) * c
    OBVIOUS
  <2>2. (x - y) * c >= 1
    BY <1>2
  <2> QED BY <2>1, <2>2
<1>3. x * c \in Int /\ y * c \in Int
  OBVIOUS
<1> QED BY <1>1, <1>2, <1>3

\* The greatest common divisor of two numbers, one of which is positive.
LEMMA GcdParts ==
  ASSUME NEW a \in Nat, NEW b \in Nat \ {0}
  PROVE  LET g == Gcd[<<a, b>>]
         IN /\ g \in Nat \ {0}
            /\ a \div g \in Nat /\ a = g * (a \div g)
            /\ b \div g \in Nat \ {0} /\ b = g * (b \div g)
<1> DEFINE g == Gcd[<<a, b>>]
<1>1. g \in Nat /\ Divides(g, a) /\ Divides(g, b)
  BY GcdDivides
<1> HIDE DEF g
<1>2. PICK k \in Nat : a = g * k
  BY <1>1 DEF Divides
<1>3. PICK m \in Nat : b = g * m
  BY <1>1 DEF Divides
<1>4. g \in Nat \ {0} /\ m # 0
  BY <1>1, <1>3
<1>5. \A n \in Nat : (g * n) \div g = n
  BY <1>4
<1>6. a \div g = k /\ b \div g = m
  BY <1>2, <1>3, <1>5
<1>7. g \in Nat \ {0} /\ a \div g \in Nat /\ a = g * (a \div g)
      /\ b \div g \in Nat \ {0} /\ b = g * (b \div g)
  BY <1>2, <1>3, <1>4, <1>6
<1> QED BY <1>7 DEF g

\* The fraction a stands for n / d.
Stands(a, n, d) == /\ a \in Frac /\ n \in Int /\ d \in Nat \ {0}
                   /\ a[1] * d = n * a[2]

\* The parts of a fraction.
LEMMA FracParts == \A a \in Frac : a[1] \in Int /\ a[2] \in Nat \ {0} /\ a = <<a[1], a[2]>>
  BY DEF Frac

\* A pair of parts is a fraction.
LEMMA FracIs ==
  \A n \in Int, d \in Nat \ {0} : <<n, d>> \in Frac /\ <<n, d>>[1] = n /\ <<n, d>>[2] = d
  BY DEF Frac

\* A fraction stands for itself.
LEMMA StandsForItself == \A a \in Frac : Stands(a, a[1], a[2])
  BY FracParts DEF Stands

\* What a fraction stands for may be extended.
LEMMA StandsExtended ==
  ASSUME NEW a, NEW n, NEW d, Stands(a, n, d), NEW k \in Nat \ {0}
  PROVE  Stands(a, n * k, d * k)
<1>1. a \in Frac /\ n \in Int /\ d \in Nat \ {0} /\ a[1] * d = n * a[2]
  BY DEF Stands
<1>2. a[1] \in Int /\ a[2] \in Nat \ {0}
  BY <1>1, FracParts
<1> DEFINE p == a[1]
           q == a[2]
<1>3. p \in Int /\ q \in Nat \ {0} /\ p * d = n * q
  BY <1>1, <1>2
<1> HIDE DEF p, q
<1>4. p * (d * k) = (p * d) * k /\ (n * k) * q = (n * q) * k
  BY <1>1, <1>3
<1>5. p * (d * k) = (n * k) * q /\ n * k \in Int /\ d * k \in Nat \ {0}
  BY <1>1, <1>3, <1>4
<1>6. a[1] * (d * k) = (n * k) * a[2]
  BY <1>5 DEF p, q
<1> QED BY <1>1, <1>5, <1>6 DEF Stands

\* Fraction divides by a positive number.
LEMMA FractionStands ==
  ASSUME NEW n \in Int, NEW d \in Nat \ {0}
  PROVE  Stands(Fraction(n, d), n, d)
<1> DEFINE a == Magnitude(n)
           g == Gcd[<<a, d>>]
           f == <<n \div g, d \div g>>
<1>1. a \in Nat /\ Magnitude(d) = d
  BY DEF Magnitude
<1>2. Fraction(n, d) = f
  BY <1>1 DEF Fraction
<1>3. /\ g \in Nat \ {0}
      /\ a \div g \in Nat /\ a = g * (a \div g)
      /\ d \div g \in Nat \ {0} /\ d = g * (d \div g)
  BY <1>1, GcdParts
<1> DEFINE k == a \div g
           m == d \div g
           v == n \div g
<1> HIDE DEF g
<1>4. n = g * v /\ v \in Int
  <2>1. k \in Nat /\ a = g * k
    BY <1>3
  <2> HIDE DEF k
  <2>2. n = a \/ n = -a
    BY DEF Magnitude
  <2> HIDE DEF a
  <2>3. n = g * k \/ n = g * (-k)
    BY <2>1, <2>2, <1>3
  <2>4. \A z \in Int : (g * z) \div g = z
    BY <1>3
  <2>5. v = k \/ v = -k
    BY <2>1, <2>3, <2>4
  <2>6. n = g * v
    BY <2>1, <2>3, <2>4
  <2> QED BY <2>1, <2>5, <2>6
<1>5. m \in Nat \ {0} /\ d = g * m
  BY <1>3
<1> HIDE DEF v, m, a
<1>6. v * d = n * m
  <2>1. v * (g * m) = (g * v) * m
    BY <1>3, <1>4, <1>5
  <2> QED BY <1>4, <1>5, <2>1
<1>7. f = <<v, m>>
  BY DEF v, m
<1>8. Stands(<<v, m>>, n, d)
  BY <1>4, <1>5, <1>6, FracIs DEF Stands
<1> QED BY <1>2, <1>7, <1>8

\* Leq compares cross products.
LEMMA LeqCross ==
  ASSUME NEW a \in Frac, NEW b \in Frac
  PROVE  Leq(a, b) <=> a[1] * b[2] <= b[1] * a[2]
<1> DEFINE g == Gcd[<<a[2], b[2]>>]
           p == a[1]
           q == a[2]
           r == b[1]
           s == b[2]
           u == q \div g
           v == s \div g
<1>1. p \in Int /\ r \in Int /\ q \in Nat \ {0} /\ s \in Nat \ {0}
  BY FracParts
<1>2. /\ g \in Nat \ {0} /\ u \in Nat /\ q = g * u
      /\ v \in Nat \ {0} /\ s = g * v
  <2> HIDE DEF p, q, r, s
  <2> QED BY <1>1, GcdParts DEF q, s
<1>3. Leq(a, b) <=> p * v <= r * u
  BY DEF Leq
<1> HIDE DEF p, q, r, s, u, v, g
<1>4. p * s = (p * v) * g /\ r * q = (r * u) * g
  BY <1>1, <1>2
<1>5. p * v \in Int /\ r * u \in Int
  BY <1>1, <1>2
<1>6. (p * v) * g <= (r * u) * g <=> p * v <= r * u
  BY <1>2, <1>5, Cancel
<1>7. Leq(a, b) <=> p * s <= r * q
  BY <1>3, <1>4, <1>6
<1> QED BY <1>7 DEF p, q, r, s

\* Cross products of what two fractions stand for compare like the fractions.
LEMMA LeqStands ==
  ASSUME NEW a, NEW b, NEW n, NEW m, NEW d, NEW e, Stands(a, n, d), Stands(b, m, e)
  PROVE  Leq(a, b) <=> n * e <= m * d
<1>1. /\ a \in Frac /\ b \in Frac /\ n \in Int /\ m \in Int
      /\ d \in Nat \ {0} /\ e \in Nat \ {0}
      /\ a[1] * d = n * a[2] /\ b[1] * e = m * b[2]
  BY DEF Stands
<1> DEFINE p == a[1]
           q == a[2]
           r == b[1]
           s == b[2]
<1>2. /\ p \in Int /\ r \in Int /\ q \in Nat \ {0} /\ s \in Nat \ {0}
      /\ p * d = n * q /\ r * e = m * s
  BY <1>1, FracParts
<1>3. Leq(a, b) <=> p * s <= r * q
  BY <1>1, LeqCross
<1> HIDE DEF p, q, r, s
<1>4. (p * s) * (d * e) = (n * e) * (q * s)
  <2>1. (p * s) * (d * e) = (p * d) * (s * e)
    BY <1>1, <1>2
  <2>2. (n * e) * (q * s) = (n * q) * (s * e)
    BY <1>1, <1>2
  <2> QED BY <1>2, <2>1, <2>2
<1>5. (r * q) * (d * e) = (m * d) * (q * s)
  <2>1. (r * q) * (d * e) = (r * e) * (q * d)
    BY <1>1, <1>2
  <2>2. (m * d) * (q * s) = (m * s) * (q * d)
    BY <1>1, <1>2
  <2> QED BY <1>2, <2>1, <2>2
<1>6. d * e \in Nat \ {0} /\ q * s \in Nat \ {0}
  BY <1>1, <1>2
<1>7. p * s \in Int /\ r * q \in Int /\ n * e \in Int /\ m * d \in Int
  BY <1>1, <1>2
<1>8. p * s <= r * q <=> (p * s) * (d * e) <= (r * q) * (d * e)
  BY <1>6, <1>7, Cancel
<1>9. n * e <= m * d <=> (n * e) * (q * s) <= (m * d) * (q * s)
  BY <1>6, <1>7, Cancel
<1> QED BY <1>3, <1>4, <1>5, <1>8, <1>9

\* With one denominator, the numerators compare.
LEMMA LeqSameStands ==
  ASSUME NEW a, NEW b, NEW n, NEW m, NEW d, Stands(a, n, d), Stands(b, m, d)
  PROVE  /\ Leq(a, b) <=> n <= m
         /\ Less(a, b) <=> n < m
<1>1. n \in Int /\ m \in Int /\ d \in Nat \ {0}
  BY DEF Stands
<1>2. Leq(a, b) <=> n * d <= m * d
  BY LeqStands
<1>3. Leq(b, a) <=> m * d <= n * d
  BY LeqStands
<1>4. (n * d <= m * d <=> n <= m) /\ (m * d <= n * d <=> m <= n)
  BY <1>1, Cancel
<1> QED BY <1>1, <1>2, <1>3, <1>4 DEF Less

\* What a sum stands for.
LEMMA PlusStands ==
  ASSUME NEW a, NEW b, NEW n, NEW m, NEW d, Stands(a, n, d), Stands(b, m, d)
  PROVE  Stands(Plus(a, b), n + m, d)
<1>1. /\ a \in Frac /\ b \in Frac /\ n \in Int /\ m \in Int
      /\ d \in Nat \ {0}
      /\ a[1] * d = n * a[2] /\ b[1] * d = m * b[2]
  BY DEF Stands
<1> DEFINE g == Gcd[<<a[2], b[2]>>]
           p == a[1]
           q == a[2]
           r == b[1]
           s == b[2]
           u == q \div g
           v == s \div g
           t == p * v + r * u
           f == Fraction(t, q * v)
<1>2. /\ p \in Int /\ r \in Int /\ q \in Nat \ {0} /\ s \in Nat \ {0}
      /\ p * d = n * q /\ r * d = m * s
  BY <1>1, FracParts
<1>3. /\ g \in Nat \ {0} /\ u \in Nat /\ q = g * u
      /\ v \in Nat \ {0} /\ s = g * v
  <2> HIDE DEF p, q, r, s
  <2> QED BY <1>2, GcdParts DEF q, s
<1>4. Plus(a, b) = f
  BY DEF Plus
<1> HIDE DEF p, q, r, s, u, v, g
<1>5. t \in Int /\ q * v \in Nat \ {0}
  BY <1>2, <1>3
<1>6. Stands(f, t, q * v)
  <2> HIDE DEF t
  <2> QED BY <1>5, FractionStands
<1>7. t * d = (n + m) * (q * v)
  <2>1. t * d = (p * d) * v + (r * d) * u
    BY <1>1, <1>2, <1>3
  <2>2. (p * d) * v = n * (q * v)
    BY <1>1, <1>2, <1>3
  <2>3. (r * d) * u = m * (q * v)
    <3>1. s * u = q * v
      BY <1>3
    <3>2. (r * d) * u = m * (s * u)
      BY <1>1, <1>2, <1>3
    <3> QED BY <3>1, <3>2
  <2>4. (n + m) * (q * v) = n * (q * v) + m * (q * v)
    BY <1>1, <1>2, <1>3
  <2> QED BY <2>1, <2>2, <2>3, <2>4
<1> DEFINE w == q * v
           x == f[1]
           y == f[2]
<1>8. f \in Frac /\ x * w = t * y
  BY <1>6 DEF Stands
<1>9. x \in Int /\ y \in Nat \ {0}
  BY <1>8, FracParts
<1>10. w \in Nat \ {0} /\ t \in Int /\ t * d = (n + m) * w
  BY <1>5, <1>7
<1> HIDE DEF t, w, x, y
<1>11. (x * d) * w = ((n + m) * y) * w
  <2>1. (x * d) * w = (t * d) * y
    <3>1. (x * d) * w = (x * w) * d
      BY <1>1, <1>9, <1>10
    <3>2. (t * d) * y = (t * y) * d
      BY <1>1, <1>9, <1>10
    <3> QED BY <1>8, <3>1, <3>2
  <2>2. ((n + m) * w) * y = ((n + m) * y) * w
    BY <1>1, <1>9, <1>10
  <2> QED BY <1>10, <2>1, <2>2
<1>12. x * d = (n + m) * y
  <2>1. x * d \in Int /\ (n + m) * y \in Int
    BY <1>1, <1>9
  <2> QED BY <1>10, <1>11, <2>1, Cancel
<1>13. Stands(f, n + m, d)
  BY <1>1, <1>8, <1>12 DEF Stands, x, y
<1> QED BY <1>4, <1>13

\* What a difference stands for.
LEMMA MinusStands ==
  ASSUME NEW a, NEW b, NEW n, NEW m, NEW d, Stands(a, n, d), Stands(b, m, d)
  PROVE  Stands(Minus(a, b), n - m, d)
<1>1. /\ b \in Frac /\ m \in Int /\ n \in Int /\ d \in Nat \ {0} /\ b[1] * d = m * b[2]
  BY DEF Stands
<1> DEFINE r == b[1]
           s == b[2]
<1>2. r \in Int /\ s \in Nat \ {0} /\ r * d = m * s
  BY <1>1, FracParts
<1> HIDE DEF r, s
<1>3. (-r) * d = (-m) * s /\ -r \in Int /\ -m \in Int
  BY <1>1, <1>2
<1>4. Stands(<<-r, s>>, -m, d)
  BY <1>1, <1>2, <1>3, FracIs DEF Stands
<1>5. Stands(Plus(a, <<-r, s>>), n + (-m), d)
  BY <1>4, PlusStands
<1>6. n + (-m) = n - m
  BY <1>1
<1> QED BY <1>5, <1>6 DEF Minus, r, s

\* What a product stands for.
LEMMA TimesStands ==
  ASSUME NEW a, NEW b, NEW n, NEW m, NEW d, NEW e, Stands(a, n, d), Stands(b, m, e)
  PROVE  Stands(Times(a, b), n * m, d * e)
<1>1. /\ a \in Frac /\ b \in Frac /\ n \in Int /\ m \in Int
      /\ d \in Nat \ {0} /\ e \in Nat \ {0}
      /\ a[1] * d = n * a[2] /\ b[1] * e = m * b[2]
  BY DEF Stands
<1> DEFINE p == a[1]
           q == a[2]
           r == b[1]
           s == b[2]
           left == Fraction(p, s)
           right == Fraction(r, q)
           x == left[1]
           y == left[2]
           z == right[1]
           t == right[2]
<1>2. /\ p \in Int /\ r \in Int /\ q \in Nat \ {0} /\ s \in Nat \ {0}
      /\ p * d = n * q /\ r * e = m * s
  BY <1>1, FracParts
<1>3. Times(a, b) = <<x * z, y * t>>
  BY DEF Times
<1> HIDE DEF p, q, r, s
<1>4. Stands(left, p, s) /\ Stands(right, r, q)
  BY <1>2, FractionStands
<1>5. /\ x \in Int /\ y \in Nat \ {0} /\ x * s = p * y
      /\ z \in Int /\ t \in Nat \ {0} /\ z * q = r * t
  BY <1>4, FracParts DEF Stands
<1> HIDE DEF left, right, x, y, z, t
<1>6. ((x * z) * (d * e)) * (s * q) = ((n * m) * (y * t)) * (s * q)
  <2>1. ((x * z) * (d * e)) * (s * q) = ((x * s) * (z * q)) * (d * e)
    BY <1>1, <1>2, <1>5
  <2>2. ((p * y) * (r * t)) * (d * e) = ((p * d) * (r * e)) * (y * t)
    BY <1>1, <1>2, <1>5
  <2>3. ((n * q) * (m * s)) * (y * t) = ((n * m) * (y * t)) * (s * q)
    BY <1>1, <1>2, <1>5
  <2>4. ((x * s) * (z * q)) * (d * e) = ((p * y) * (r * t)) * (d * e)
    BY <1>5
  <2>5. ((p * d) * (r * e)) * (y * t) = ((n * q) * (m * s)) * (y * t)
    BY <1>2
  <2> QED BY <2>1, <2>2, <2>3, <2>4, <2>5
<1>7. (x * z) * (d * e) = (n * m) * (y * t)
  <2>1. (x * z) * (d * e) \in Int /\ (n * m) * (y * t) \in Int /\ s * q \in Nat \ {0}
    BY <1>1, <1>2, <1>5
  <2> QED BY <1>6, <2>1, Cancel
<1>8. x * z \in Int /\ y * t \in Nat \ {0} /\ n * m \in Int /\ d * e \in Nat \ {0}
  BY <1>1, <1>5
<1> QED BY <1>3, <1>7, <1>8, FracIs DEF Stands

\* What a quotient by a positive fraction stands for.
LEMMA OverStands ==
  ASSUME NEW a, NEW b, NEW n, NEW m, NEW d, NEW e, Stands(a, n, d), Stands(b, m, e), m > 0
  PROVE  Stands(Over(a, b), n * e, d * m)
<1>1. /\ b \in Frac /\ m \in Int /\ e \in Nat \ {0} /\ b[1] * e = m * b[2]
  BY DEF Stands
<1> DEFINE r == b[1]
           s == b[2]
           f == Fraction(s, r)
<1>2. r \in Int /\ s \in Nat \ {0} /\ r * e = m * s
  BY <1>1, FracParts
<1> HIDE DEF r, s
<1>3. r > 0
  <2>1. m * s > 0
    BY <1>1, <1>2
  <2>2. ASSUME r <= 0 PROVE FALSE
    <3>1. r * e <= 0
      BY <1>1, <1>2, <2>2
    <3> QED BY <1>1, <1>2, <2>1, <3>1
  <2> QED BY <1>2, <2>2
<1>4. Stands(f, s, r)
  BY <1>2, <1>3, FractionStands
<1>5. Stands(f, e, m)
  <2> DEFINE x == f[1]
             y == f[2]
  <2>1. f \in Frac /\ x \in Int /\ y \in Nat \ {0} /\ x * r = s * y
    BY <1>4, FracParts DEF Stands
  <2> HIDE DEF f, x, y
  <2>2. (x * m) * (r * s) = (e * y) * (r * s)
    <3>1. (x * m) * (r * s) = (x * r) * (m * s)
      BY <1>1, <1>2, <2>1
    <3>2. (s * y) * (r * e) = (e * y) * (r * s)
      BY <1>1, <1>2, <2>1
    <3> QED BY <1>2, <2>1, <3>1, <3>2
  <2>3. x * m = e * y
    <3>1. x * m \in Int /\ e * y \in Int /\ r * s \in Nat \ {0}
      BY <1>1, <1>2, <1>3, <2>1
    <3> QED BY <2>2, <3>1, Cancel
  <2>4. m \in Nat \ {0} /\ e \in Int
    BY <1>1
  <2> QED BY <2>1, <2>3, <2>4 DEF Stands, x, y
<1>6. Stands(Times(a, f), n * e, d * m)
  BY <1>5, TimesStands
<1> QED BY <1>6 DEF Over, f, r, s

\* Fractions are closed under the operators, and positive ones stay positive.
Positive(a) == a[1] > 0

\* Fractions are closed under the operators.
LEMMA FracClosed ==
  ASSUME NEW a \in Frac, NEW b \in Frac
  PROVE  /\ Plus(a, b) \in Frac /\ Minus(a, b) \in Frac /\ Times(a, b) \in Frac
         /\ Positive(b) => Over(a, b) \in Frac
         /\ Higher(a, b) \in Frac /\ Lower(a, b) \in Frac
<1>1. \E n, m, d : Stands(a, n, d) /\ Stands(b, m, d)
  <2>1. a[1] \in Int /\ a[2] \in Nat \ {0} /\ b[1] \in Int /\ b[2] \in Nat \ {0}
    BY FracParts
  <2>2. Stands(a, a[1] * b[2], a[2] * b[2]) /\ Stands(b, b[1] * a[2], b[2] * a[2])
    BY <2>1, StandsForItself, StandsExtended
  <2>3. a[2] * b[2] = b[2] * a[2]
    BY <2>1
  <2> QED BY <2>2, <2>3
<1>2. Plus(a, b) \in Frac /\ Minus(a, b) \in Frac /\ Times(a, b) \in Frac
  <2>1. PICK n, m, d : Stands(a, n, d) /\ Stands(b, m, d)
    BY <1>1
  <2>2. Stands(Plus(a, b), n + m, d)
    BY <2>1, PlusStands
  <2>3. Stands(Minus(a, b), n - m, d)
    BY <2>1, MinusStands
  <2>4. Stands(Times(a, b), n * m, d * d)
    BY <2>1, TimesStands
  <2> QED BY <2>2, <2>3, <2>4 DEF Stands
<1>3. ASSUME Positive(b) PROVE Over(a, b) \in Frac
  <2>1. Stands(a, a[1], a[2]) /\ Stands(b, b[1], b[2])
    BY StandsForItself
  <2>2. Stands(Over(a, b), a[1] * b[2], a[2] * b[1])
    BY <1>3, <2>1, OverStands DEF Positive
  <2> QED BY <2>2 DEF Stands
<1>4. Higher(a, b) \in Frac /\ Lower(a, b) \in Frac
  BY DEF Higher, Lower
<1> QED BY <1>2, <1>3, <1>4

\* The sign of a fraction is that of any number that it stands for.
LEMMA SignStands ==
  ASSUME NEW a, NEW n, NEW d, Stands(a, n, d)
  PROVE  (a[1] > 0 <=> n > 0) /\ (a[1] >= 0 <=> n >= 0)
<1>1. a[1] \in Int /\ a[2] \in Nat \ {0} /\ n \in Int /\ d \in Nat \ {0} /\ a[1] * d = n * a[2]
  BY FracParts DEF Stands
<1> DEFINE p == a[1]
           q == a[2]
<1>2. p \in Int /\ q \in Nat \ {0} /\ p * d = n * q
  BY <1>1
<1> HIDE DEF p, q
<1>3. 0 * d = 0 /\ 0 * q = 0 /\ 0 \in Int
  BY <1>1, <1>2
<1>4. (0 * d <= p * d <=> 0 <= p) /\ (p * d <= 0 * d <=> p <= 0)
  BY <1>1, <1>2, <1>3, Cancel
<1>5. (0 * q <= n * q <=> 0 <= n) /\ (n * q <= 0 * q <=> n <= 0)
  BY <1>1, <1>2, <1>3, Cancel
<1>6. (p > 0 <=> n > 0) /\ (p >= 0 <=> n >= 0)
  BY <1>1, <1>2, <1>3, <1>4, <1>5
<1> QED BY <1>6 DEF p

\* Products and quotients of positive fractions are positive, and a sum is when one of two
\* fractions is and the other is not negative.
LEMMA FracSigns ==
  ASSUME NEW a \in Frac, NEW b \in Frac
  PROVE  /\ Positive(a) /\ Positive(b) => Positive(Times(a, b)) /\ Positive(Over(a, b))
         /\ a[1] >= 0 /\ b[1] >= 0 => Plus(a, b)[1] >= 0 /\ Times(a, b)[1] >= 0
         /\ a[1] >= 0 /\ Positive(b) => Positive(Plus(a, b)) /\ Over(a, b)[1] >= 0
<1> DEFINE p == a[1]
           q == a[2]
           r == b[1]
           s == b[2]
<1>1. p \in Int /\ q \in Nat \ {0} /\ r \in Int /\ s \in Nat \ {0}
  BY FracParts
<1>2. Stands(a, p, q) /\ Stands(b, r, s)
  BY StandsForItself
<1>3. Stands(a, p * s, q * s) /\ Stands(b, r * q, s * q)
  BY <1>1, <1>2, StandsExtended
<1> HIDE DEF p, q, r, s
<1>4. q * s = s * q
  BY <1>1
<1>5. Stands(Plus(a, b), p * s + r * q, q * s)
  BY <1>3, <1>4, PlusStands
<1>6. Stands(Times(a, b), p * r, q * s)
  BY <1>2, TimesStands
<1>7. ASSUME r > 0 PROVE Stands(Over(a, b), p * s, q * r)
  BY <1>2, <1>7, OverStands
<1>8. p > 0 /\ r > 0 => p * r > 0 /\ p * s > 0
  BY <1>1
<1>9. p >= 0 /\ r >= 0 => p * s >= 0 /\ r * q >= 0 /\ p * s + r * q >= 0 /\ p * r >= 0
  <2> SUFFICES ASSUME p >= 0, r >= 0
               PROVE  p * s >= 0 /\ r * q >= 0 /\ p * s + r * q >= 0 /\ p * r >= 0
    OBVIOUS
  <2>1. p * s >= 0
    BY <1>1
  <2>2. r * q >= 0
    BY <1>1
  <2>3. p * r >= 0
    BY <1>1
  <2> QED BY <1>1, <2>1, <2>2, <2>3
<1>10. p >= 0 /\ r > 0 => p * s + r * q > 0 /\ p * s >= 0
  <2> SUFFICES ASSUME p >= 0, r > 0 PROVE p * s + r * q > 0 /\ p * s >= 0
    OBVIOUS
  <2>1. p * s >= 0
    BY <1>1
  <2>2. r * q > 0
    BY <1>1
  <2> QED BY <1>1, <2>1, <2>2
<1>11. p > 0 /\ r > 0 => Times(a, b)[1] > 0 /\ Over(a, b)[1] > 0
  BY <1>6, <1>7, <1>8, SignStands
<1>12. p >= 0 /\ r >= 0 => Plus(a, b)[1] >= 0 /\ Times(a, b)[1] >= 0
  BY <1>5, <1>6, <1>9, SignStands
<1>13. p >= 0 /\ r > 0 => Plus(a, b)[1] > 0 /\ Over(a, b)[1] >= 0
  BY <1>5, <1>7, <1>10, SignStands
<1> QED BY <1>11, <1>12, <1>13 DEF Positive, p, r

\* Leq is a total preorder.
LEMMA LeqOrders ==
  ASSUME NEW a \in Frac, NEW b \in Frac, NEW c \in Frac
  PROVE  /\ Leq(a, a) /\ (Leq(a, b) \/ Leq(b, a))
         /\ Leq(a, b) /\ Leq(b, c) => Leq(a, c)
<1> DEFINE p == a[1]
           q == a[2]
           r == b[1]
           s == b[2]
           t == c[1]
           u == c[2]
<1>1. /\ p \in Int /\ q \in Nat \ {0} /\ r \in Int /\ s \in Nat \ {0}
      /\ t \in Int /\ u \in Nat \ {0}
  BY FracParts
<1>2. /\ Leq(a, a) <=> p * q <= p * q
      /\ Leq(a, b) <=> p * s <= r * q
      /\ Leq(b, a) <=> r * q <= p * s
      /\ Leq(b, c) <=> r * u <= t * s
      /\ Leq(a, c) <=> p * u <= t * q
  BY LeqCross
<1> HIDE DEF p, q, r, s, t, u
<1>3. p * q \in Int /\ p * s \in Int /\ r * q \in Int
  BY <1>1
<1>4. ASSUME p * s <= r * q, r * u <= t * s PROVE p * u <= t * q
  <2>1. (p * s) * u <= (r * q) * u
    <3>1. p * s \in Int /\ r * q \in Int
      BY <1>1
    <3> QED BY <1>1, <1>4, <3>1, Cancel
  <2>2. (r * u) * q <= (t * s) * q
    <3>1. r * u \in Int /\ t * s \in Int
      BY <1>1
    <3> QED BY <1>1, <1>4, <3>1, Cancel
  <2>3. (r * q) * u = (r * u) * q
    BY <1>1
  <2>4. (p * u) * s = (p * s) * u /\ (t * q) * s = (t * s) * q
    BY <1>1
  <2>5. (p * u) * s <= (t * q) * s
    <3>1. (p * s) * u \in Int /\ (r * q) * u \in Int /\ (t * s) * q \in Int /\ (r * u) * q \in Int
      BY <1>1
    <3> QED BY <2>1, <2>2, <2>3, <2>4, <3>1
  <2>6. p * u \in Int /\ t * q \in Int
    BY <1>1
  <2> QED BY <1>1, <2>5, <2>6, Cancel
<1> QED BY <1>2, <1>3, <1>4

\* The numbers of a year, a half-life, and of none.
LEMMA SmallFractions ==
  /\ \A n \in Int : Q(n) \in Frac /\ Stands(Q(n), n, 1)
  /\ \A n \in Int : \A d \in Nat \ {0} : Fraction(n, d) \in Frac /\ (n > 0 => Positive(Fraction(n, d)))
<1>1. ASSUME NEW n \in Int PROVE Q(n) \in Frac /\ Stands(Q(n), n, 1)
  <2>1. Q(n) \in Frac /\ Q(n)[1] = n /\ Q(n)[2] = 1
    BY FracIs DEF Q
  <2>2. n * 1 = n * 1 /\ 1 \in Nat \ {0}
    OBVIOUS
  <2> QED BY <2>1, <2>2 DEF Stands
<1>2. ASSUME NEW n \in Int, NEW d \in Nat \ {0}
      PROVE  Fraction(n, d) \in Frac /\ (n > 0 => Positive(Fraction(n, d)))
  <2>1. Stands(Fraction(n, d), n, d)
    BY FractionStands
  <2>2. n > 0 => Fraction(n, d)[1] > 0
    BY <2>1, SignStands
  <2> QED BY <2>1, <2>2 DEF Stands, Positive
<1> QED BY <1>1, <1>2

\* A power of two is positive: it counts the subsets of a set.
LEMMA PowerOfTwo == \A n \in Nat : 2 ^ n \in Nat \ {0}
<1> SUFFICES ASSUME NEW n \in Nat PROVE 2 ^ n \in Nat \ {0}
  OBVIOUS
<1> DEFINE S == 1..n
<1>1. IsFiniteSet(S) /\ Cardinality(S) = n
  <2>1. 1 \in Int /\ n \in Int
    OBVIOUS
  <2>2. IsFiniteSet(S) /\ Cardinality(S) = IF 1 > n THEN 0 ELSE n - 1 + 1
    BY <2>1, FS_Interval
  <2> QED BY <2>2
<1> HIDE DEF S
<1>2. IsFiniteSet(SUBSET S) /\ Cardinality(SUBSET S) = 2 ^ n
  BY <1>1, FS_SUBSET
<1>3. Cardinality(SUBSET S) \in Nat /\ Cardinality(SUBSET S) # 0
  <2>1. SUBSET S # {}
    OBVIOUS
  <2>2. Cardinality(SUBSET S) \in Nat
    BY <1>2, FS_CardinalityType
  <2>3. Cardinality(SUBSET S) = 0 <=> SUBSET S = {}
    BY <1>2, FS_EmptySet
  <2> QED BY <2>1, <2>2, <2>3
<1> QED BY <1>2, <1>3

\* A square is not negative.
LEMMA SquareSign == \A a \in Frac : Times(a, a)[1] >= 0
<1> SUFFICES ASSUME NEW a \in Frac PROVE Times(a, a)[1] >= 0
  OBVIOUS
<1>1. Stands(a, a[1], a[2])
  BY StandsForItself
<1>2. Stands(Times(a, a), a[1] * a[1], a[2] * a[2])
  BY <1>1, TimesStands
<1>3. a[1] \in Int
  BY FracParts
<1> DEFINE p == a[1]
<1>4. p * p >= 0
  BY <1>3
<1> HIDE DEF p
<1> QED BY <1>2, <1>4, SignStands DEF p

\* Fractions have a common denominator.
Shares(a, d) == \E n \in Int : Stands(a, n, d)

\* A common denominator may be extended, and by the denominator of one more.
LEMMA SharesMore ==
  ASSUME NEW a \in Frac, NEW d \in Nat \ {0}, NEW k \in Nat \ {0}
  PROVE  /\ d * k \in Nat \ {0}
         /\ Shares(a, d) => Shares(a, d * k)
         /\ Shares(a, d * a[2])
<1>1. d * k \in Nat \ {0}
  OBVIOUS
<1>2. ASSUME Shares(a, d) PROVE Shares(a, d * k)
  <2>1. PICK n \in Int : Stands(a, n, d)
    BY <1>2 DEF Shares
  <2>2. Stands(a, n * k, d * k)
    BY <2>1, StandsExtended
  <2>3. n * k \in Int
    BY <2>1
  <2> QED BY <2>2, <2>3 DEF Shares
<1>3. Shares(a, d * a[2])
  <2>1. a[1] \in Int /\ a[2] \in Nat \ {0} /\ Stands(a, a[1], a[2])
    BY FracParts, StandsForItself
  <2>2. Stands(a, a[1] * d, a[2] * d)
    BY <2>1, StandsExtended
  <2>3. a[1] * d \in Int /\ a[2] * d = d * a[2]
    BY <2>1
  <2>4. Stands(a, a[1] * d, d * a[2])
    BY <2>2, <2>3
  <2> QED BY <2>3, <2>4 DEF Shares
<1> QED BY <1>1, <1>2, <1>3

\* Five fractions have one.
LEMMA CommonDenominator ==
  ASSUME NEW a \in Frac, NEW b \in Frac, NEW c \in Frac, NEW e \in Frac, NEW f \in Frac
  PROVE  \E d \in Nat \ {0} : Shares(a, d) /\ Shares(b, d) /\ Shares(c, d) /\ Shares(e, d) /\ Shares(f, d)
<1> DEFINE p == a[2]
           q == b[2]
           r == c[2]
           s == e[2]
           t == f[2]
<1>1. /\ p \in Nat \ {0} /\ q \in Nat \ {0} /\ r \in Nat \ {0} /\ s \in Nat \ {0} /\ t \in Nat \ {0}
      /\ 1 \in Nat \ {0}
  BY FracParts
<1> DEFINE d1 == 1 * p
           d2 == d1 * q
           d3 == d2 * r
           d4 == d3 * s
           d5 == d4 * t
<1>2. d1 \in Nat \ {0} /\ Shares(a, d1)
  BY <1>1, SharesMore
<1> HIDE DEF d1
<1>3. d2 \in Nat \ {0} /\ Shares(a, d2) /\ Shares(b, d2)
  BY <1>1, <1>2, SharesMore
<1> HIDE DEF d2
<1>4. d3 \in Nat \ {0} /\ Shares(a, d3) /\ Shares(b, d3) /\ Shares(c, d3)
  BY <1>1, <1>3, SharesMore
<1> HIDE DEF d3
<1>5. d4 \in Nat \ {0} /\ Shares(a, d4) /\ Shares(b, d4) /\ Shares(c, d4) /\ Shares(e, d4)
  BY <1>1, <1>4, SharesMore
<1> HIDE DEF d4
<1>6. /\ d5 \in Nat \ {0} /\ Shares(a, d5) /\ Shares(b, d5) /\ Shares(c, d5) /\ Shares(e, d5)
      /\ Shares(f, d5)
  BY <1>1, <1>5, SharesMore
<1> QED BY <1>6

\* The higher of two is no less than either, and adding the same keeps an order.
LEMMA HigherIs ==
  ASSUME NEW a \in Frac, NEW b \in Frac
  PROVE  Leq(a, Higher(a, b)) /\ Leq(b, Higher(a, b)) /\ Higher(a, b) \in Frac
<1>1. Leq(a, a) /\ Leq(b, b) /\ (Leq(a, b) \/ Leq(b, a))
  BY LeqOrders
<1> QED BY <1>1 DEF Higher

\* The order of values is transitive.
LEMMA LeqTransitive ==
  ASSUME NEW a \in Frac, NEW b \in Frac, NEW c \in Frac, Leq(a, b), Leq(b, c)
  PROVE  Leq(a, c)
BY LeqOrders

\* Adding the same keeps an order.
LEMMA PlusKeepsOrder ==
  ASSUME NEW a \in Frac, NEW b \in Frac, NEW c \in Frac, Leq(a, b)
  PROVE  Leq(Plus(a, c), Plus(b, c))
<1>1. PICK d \in Nat \ {0} : Shares(a, d) /\ Shares(b, d) /\ Shares(c, d)
  BY CommonDenominator
<1>2. PICK n \in Int : Stands(a, n, d)
  BY <1>1 DEF Shares
<1>3. PICK m \in Int : Stands(b, m, d)
  BY <1>1 DEF Shares
<1>4. PICK k \in Int : Stands(c, k, d)
  BY <1>1 DEF Shares
<1>5. n <= m
  BY <1>2, <1>3, LeqSameStands
<1>6. Stands(Plus(a, c), n + k, d)
  BY <1>2, <1>4, PlusStands
<1>7. Stands(Plus(b, c), m + k, d)
  BY <1>3, <1>4, PlusStands
<1>8. Leq(Plus(a, c), Plus(b, c)) <=> n + k <= m + k
  BY <1>6, <1>7, LeqSameStands
<1> QED BY <1>5, <1>8

\* What is no less than a positive number is positive.
LEMMA AbovePositive ==
  ASSUME NEW a \in Frac, NEW b \in Frac, Positive(a), Leq(a, b)
  PROVE  Positive(b)
<1>1. PICK d \in Nat \ {0} : Shares(a, d) /\ Shares(b, d)
  BY CommonDenominator
<1>2. PICK n \in Int : Stands(a, n, d)
  BY <1>1 DEF Shares
<1>3. PICK m \in Int : Stands(b, m, d)
  BY <1>1 DEF Shares
<1>4. n <= m
  BY <1>2, <1>3, LeqSameStands
<1>5. n > 0
  BY <1>2, SignStands DEF Positive
<1>6. m > 0
  BY <1>4, <1>5
<1> QED BY <1>3, <1>6, SignStands DEF Positive

-----------------------------------------------------------------------------
(***************************************************************************)
(* Folds over finite sets.  A fold is a function of the subsets of a set,  *)
(* defined by recursion on them: that it exists is shown by induction, on  *)
(* the least cardinality of a set that has none.                           *)
(***************************************************************************)
\* What Folds!MapThenFoldSet computes, with functions in place of its operators.
IsFold(g, op, base, f, c, S) ==
  g = [s \in SUBSET S |-> IF s = {} THEN base ELSE op[f[c[s]], g[s \ {c[s]}]]]
Picks(c, S) == \A s \in SUBSET S : s # {} => c[s] \in s

\* A set without an element that it picks is smaller.
LEMMA SmallerWithout ==
  ASSUME NEW S, IsFiniteSet(S), NEW s \in SUBSET S, NEW x \in s
  PROVE  /\ IsFiniteSet(s) /\ Cardinality(s) \in Nat
         /\ s \ {x} \in SUBSET S /\ Cardinality(s \ {x}) \in Nat
         /\ Cardinality(s \ {x}) < Cardinality(s)
<1>1. IsFiniteSet(s) /\ Cardinality(s) \in Nat
  BY FS_Subset, FS_CardinalityType
<1>2. IsFiniteSet(s \ {x}) /\ Cardinality(s \ {x}) = Cardinality(s) - 1
  BY <1>1, FS_RemoveElement
<1>3. Cardinality(s \ {x}) \in Nat
  BY <1>2, FS_CardinalityType
<1> QED BY <1>1, <1>2, <1>3

\* Two folds of the same functions agree where both are defined.
LEMMA FoldUnique ==
  ASSUME NEW S, IsFiniteSet(S), NEW T, NEW op, NEW base, NEW f, NEW c, NEW g, NEW h,
         Picks(c, S), IsFold(g, op, base, f, c, S), IsFold(h, op, base, f, c, T)
  PROVE  \A s \in SUBSET (S \cap T) : g[s] = h[s]
<1> DEFINE Bad == {n \in Nat : \E s \in SUBSET (S \cap T) : Cardinality(s) = n /\ g[s] # h[s]}
<1> SUFFICES ASSUME Bad # {} PROVE FALSE
  <2> SUFFICES ASSUME NEW s \in SUBSET (S \cap T), g[s] # h[s] PROVE Bad # {}
    OBVIOUS
  <2>1. Cardinality(s) \in Nat
    BY FS_Subset, FS_CardinalityType
  <2> QED BY <2>1
<1>1. PICK n \in Bad : \A k \in Bad : n <= k
  <2>1. Bad \subseteq Nat
    OBVIOUS
  <2> HIDE DEF Bad
  <2> QED BY <2>1, LeastExists
<1>2. PICK s \in SUBSET (S \cap T) : Cardinality(s) = n /\ g[s] # h[s]
  OBVIOUS
<1>3. s \in SUBSET S /\ s \in SUBSET T
  OBVIOUS
<1>4. CASE s = {}
  <2>1. g[{}] = base /\ h[{}] = base
    BY <1>3, <1>4 DEF IsFold
  <2> QED BY <1>2, <1>4, <2>1
<1>5. CASE s # {}
  <2> DEFINE r == s \ {c[s]}
  <2>1. c[s] \in s
    BY <1>3, <1>5 DEF Picks
  <2>2. /\ g[s] = op[f[c[s]], g[r]]
        /\ h[s] = op[f[c[s]], h[r]]
    BY <1>3, <1>5 DEF IsFold
  <2>3. r \in SUBSET (S \cap T) /\ Cardinality(r) \in Nat /\ Cardinality(r) < n
    BY <1>2, <1>3, <2>1, SmallerWithout
  <2>4. g[r] = h[r]
    <3>1. n \in Nat /\ ~(n <= Cardinality(r))
      BY <2>3
    <3>2. Cardinality(r) \notin Bad
      BY <1>1, <3>1
    <3> QED BY <2>3, <3>2
  <2> QED BY <1>2, <2>2, <2>4
<1> QED BY <1>4, <1>5

\* A fold exists.
LEMMA FoldExists ==
  ASSUME NEW S, IsFiniteSet(S), NEW V, NEW op \in [V \X V -> V], NEW base \in V,
         NEW f \in [S -> V], NEW c, Picks(c, S)
  PROVE  \E g \in [SUBSET S -> V] : IsFold(g, op, base, f, c, S)
<1> DEFINE Has(T) == \E g \in [SUBSET T -> V] : IsFold(g, op, base, f, c, T)
           Bad == {n \in Nat : \E T \in SUBSET S : Cardinality(T) = n /\ ~Has(T)}
<1> SUFFICES ASSUME Bad # {} PROVE FALSE
  <2> SUFFICES ASSUME ~Has(S) PROVE Bad # {}
    OBVIOUS
  <2>1. Cardinality(S) \in Nat
    BY FS_CardinalityType
  <2> HIDE DEF Has
  <2> QED BY <2>1
<1> HIDE DEF Has
<1>1. PICK n \in Bad : \A k \in Bad : n <= k
  <2>1. Bad \subseteq Nat
    OBVIOUS
  <2> HIDE DEF Bad
  <2> QED BY <2>1, LeastExists
<1>2. PICK T \in SUBSET S : Cardinality(T) = n /\ ~Has(T)
  OBVIOUS
<1>3. \A t \in SUBSET T : t # T => Has(t)
  <2> SUFFICES ASSUME NEW t \in SUBSET T, t # T PROVE Has(t)
    OBVIOUS
  <2>1. PICK x \in T : x \notin t
    OBVIOUS
  <2>2. IsFiniteSet(T) /\ Cardinality(T \ {x}) < n /\ IsFiniteSet(T \ {x}) /\ n \in Nat
    BY <1>2, SmallerWithout, FS_Subset
  <2>3. Cardinality(t) \in Nat /\ Cardinality(t) <= Cardinality(T \ {x})
        /\ Cardinality(T \ {x}) \in Nat
    <3>1. t \subseteq T \ {x}
      BY <2>1
    <3> QED BY <2>2, <3>1, FS_Subset, FS_CardinalityType
  <2>4. Cardinality(t) \notin Bad
    BY <1>1, <2>2, <2>3
  <2> QED BY <2>3, <2>4
<1> DEFINE G(t) == CHOOSE g \in [SUBSET t -> V] : IsFold(g, op, base, f, c, t)
           fold(s) == IF s = {} THEN base ELSE op[f[c[s]], G(s \ {c[s]})[s \ {c[s]}]]
           g == [s \in SUBSET T |-> fold(s)]
<1>4. \A t \in SUBSET T : t # T => G(t) \in [SUBSET t -> V] /\ IsFold(G(t), op, base, f, c, t)
  BY <1>3 DEF Has
<1> HIDE DEF G
<1>5. \A s \in SUBSET T : s # {} =>
        c[s] \in s /\ c[s] \in S /\ s \ {c[s]} \in SUBSET T /\ s \ {c[s]} # T
  BY DEF Picks
<1>6. \A s \in SUBSET T : fold(s) \in V
  <2> SUFFICES ASSUME NEW s \in SUBSET T, s # {}
               PROVE  op[f[c[s]], G(s \ {c[s]})[s \ {c[s]}]] \in V
    OBVIOUS
  <2>1. G(s \ {c[s]})[s \ {c[s]}] \in V
    <3> DEFINE r == s \ {c[s]}
    <3>1. r \in SUBSET T /\ r # T /\ r \in SUBSET r
      BY <1>5
    <3> HIDE DEF r
    <3>3. G(r) \in [SUBSET r -> V]
      BY <1>4, <3>1
    <3> DEFINE h == G(r)
    <3>4. h \in [SUBSET r -> V]
      BY <3>3
    <3> HIDE DEF h
    <3>5. h[r] \in V
      BY <3>1, <3>4
    <3>2. G(r)[r] \in V
      BY <3>5 DEF h
    <3> QED BY <3>2 DEF r
  <2>2. f[c[s]] \in V
    BY <1>5
  <2> QED BY <2>1, <2>2
<1>7. \A t \in SUBSET T : t # T => g[t] = G(t)[t]
  <2> SUFFICES ASSUME NEW t \in SUBSET T, t # T PROVE fold(t) = G(t)[t]
    OBVIOUS
  <2>1. IsFold(G(t), op, base, f, c, t)
    BY <1>4
  <2>2. CASE t = {}
    BY <2>1, <2>2 DEF IsFold
  <2>3. CASE t # {}
    <3> DEFINE r == t \ {c[t]}
    <3>1. r \in SUBSET T /\ r # T /\ r \in SUBSET t
      BY <1>5, <2>3
    <3>2. IsFold(G(r), op, base, f, c, r)
      BY <1>4, <3>1
    <3>3. G(t)[t] = op[f[c[t]], G(t)[r]]
      BY <2>1, <2>3 DEF IsFold
    <3>4. G(r)[r] = G(t)[r]
      <4>1. IsFiniteSet(r)
        BY <3>1, FS_Subset
      <4>2. Picks(c, r)
        BY <3>1 DEF Picks
      <4>3. r \in SUBSET (r \cap t)
        BY <3>1
      <4> HIDE DEF r
      <4> QED BY <2>1, <3>2, <4>1, <4>2, <4>3, FoldUnique
    <3> QED BY <2>3, <3>3, <3>4
  <2> QED BY <2>2, <2>3
<1>8. g \in [SUBSET T -> V]
  BY <1>6
<1>9. IsFold(g, op, base, f, c, T)
  <2>1. \A s \in SUBSET T : s # {} => g[s \ {c[s]}] = G(s \ {c[s]})[s \ {c[s]}]
    BY <1>5, <1>7
  <2>2. \A s \in SUBSET T : fold(s) = IF s = {} THEN base ELSE op[f[c[s]], g[s \ {c[s]}]]
    BY <2>1
  <2>3. g = [s \in SUBSET T |-> IF s = {} THEN base ELSE op[f[c[s]], g[s \ {c[s]}]]]
    <3>1. g = [s \in SUBSET T |-> fold(s)]
      OBVIOUS
    <3> HIDE DEF g, fold
    <3> QED BY <2>2, <3>1
  <2> HIDE DEF g
  <2> QED BY <2>3 DEF IsFold
<1> QED BY <1>2, <1>8, <1>9 DEF Has

(***************************************************************************)
(* Sums of integers: any element may be taken out first.                   *)
(***************************************************************************)
IsSum(g, f, S) ==
  /\ g \in [SUBSET S -> Int] /\ g[{}] = 0
  /\ \A s \in SUBSET S : \A x \in s : g[s] = f[x] + g[s \ {x}]

SumFold(g, f, c, S) ==
  g = [s \in SUBSET S |-> IF s = {} THEN 0 ELSE f[c[s]] + g[s \ {c[s]}]]

\* A fold by addition is a sum.
LEMMA FoldIsSum ==
  ASSUME NEW S, IsFiniteSet(S), NEW f \in [S -> Int], NEW c, Picks(c, S), NEW g \in [SUBSET S -> Int],
         \A s \in SUBSET S : g[s] = IF s = {} THEN 0 ELSE f[c[s]] + g[s \ {c[s]}]
  PROVE  IsSum(g, f, S)
<1> DEFINE Bad == {n \in Nat : \E s \in SUBSET S : Cardinality(s) = n
                                 /\ \E x \in s : g[s] # f[x] + g[s \ {x}]}
<1>1. Bad = {}
  <2> SUFFICES ASSUME Bad # {} PROVE FALSE
    OBVIOUS
  <2>1. PICK n \in Bad : \A k \in Bad : n <= k
    <3>1. Bad \subseteq Nat
      OBVIOUS
    <3> HIDE DEF Bad
    <3> QED BY <3>1, LeastExists
  <2>a. PICK s \in SUBSET S : Cardinality(s) = n /\ \E x \in s : g[s] # f[x] + g[s \ {x}]
    OBVIOUS
  <2>2. PICK x \in s : Cardinality(s) = n /\ g[s] # f[x] + g[s \ {x}]
    BY <2>a
  <2> DEFINE y == c[s]
  <2>3. y \in s /\ g[s] = f[y] + g[s \ {y}]
    BY DEF Picks
  <2>4. y # x
    BY <2>2, <2>3
  <2>5. /\ s \ {y} \in SUBSET S /\ x \in s \ {y} /\ s \ {x} \in SUBSET S /\ y \in s \ {x}
        /\ (s \ {y}) \ {x} = (s \ {x}) \ {y}
    BY <2>3, <2>4
  <2>6. /\ Cardinality(s \ {y}) \in Nat /\ Cardinality(s \ {y}) < n
        /\ Cardinality(s \ {x}) \in Nat /\ Cardinality(s \ {x}) < n /\ n \in Nat
    BY <2>2, <2>3, SmallerWithout
  <2> HIDE DEF y
  <2>7. Cardinality(s \ {y}) \notin Bad /\ Cardinality(s \ {x}) \notin Bad
    <3>1. ~(n <= Cardinality(s \ {y})) /\ ~(n <= Cardinality(s \ {x}))
      BY <2>6
    <3> HIDE DEF Bad
    <3> QED BY <2>1, <3>1
  <2>8. g[s \ {y}] = f[x] + g[(s \ {y}) \ {x}]
    BY <2>5, <2>6, <2>7
  <2>9. g[s \ {x}] = f[y] + g[(s \ {x}) \ {y}]
    BY <2>5, <2>6, <2>7
  <2>10. f[x] \in Int /\ f[y] \in Int /\ g[(s \ {y}) \ {x}] \in Int
    BY <2>3
  <2>11. g[s \ {x}] = f[y] + g[(s \ {y}) \ {x}]
    BY <2>5, <2>9
  <2>12. g[s] = f[y] + (f[x] + g[(s \ {y}) \ {x}])
    BY <2>3, <2>8
  <2>13. g[s] = f[x] + g[s \ {x}]
    BY <2>10, <2>11, <2>12
  <2> QED BY <2>2, <2>13
<1>2. \A s \in SUBSET S : Cardinality(s) \in Nat
  BY FS_Subset, FS_CardinalityType
<1>3. g[{}] = 0
  OBVIOUS
<1> QED BY <1>1, <1>2, <1>3 DEF IsSum

\* There is a sum, whatever is picked first.
LEMMA SumExists ==
  ASSUME NEW S, IsFiniteSet(S), NEW f \in [S -> Int], NEW c, Picks(c, S)
  PROVE  \E g \in [SUBSET S -> Int] :
           SumFold(g, f, c, S) /\ IsSum(g, f, S)
<1> DEFINE op == [p \in Int \X Int |-> p[1] + p[2]]
<1>1. op \in [Int \X Int -> Int]
  OBVIOUS
<1>2. \A a, b \in Int : op[a, b] = a + b
  OBVIOUS
<1> HIDE DEF op
<1>0. 0 \in Int
  OBVIOUS
<1>3. PICK g \in [SUBSET S -> Int] : IsFold(g, op, 0, f, c, S)
  BY <1>0, <1>1, FoldExists, Zenon
<1>4. ASSUME NEW s \in SUBSET S
      PROVE  (IF s = {} THEN 0 ELSE op[f[c[s]], g[s \ {c[s]}]])
               = (IF s = {} THEN 0 ELSE f[c[s]] + g[s \ {c[s]}])
  <2>1. CASE s # {}
    <3>1. c[s] \in s
      BY <2>1 DEF Picks
    <3>2. f[c[s]] \in Int /\ g[s \ {c[s]}] \in Int
      BY <3>1
    <3> QED BY <1>2, <2>1, <3>2
  <2> QED BY <2>1
<1>5. g = [s \in SUBSET S |-> IF s = {} THEN 0 ELSE f[c[s]] + g[s \ {c[s]}]]
  BY <1>3, <1>4 DEF IsFold
<1>6. \A s \in SUBSET S : g[s] = IF s = {} THEN 0 ELSE f[c[s]] + g[s \ {c[s]}]
  BY <1>5
<1>7. IsSum(g, f, S)
  BY <1>6, FoldIsSum
<1> QED BY <1>5, <1>7 DEF SumFold

\* Sums of the same numbers over two sets are equal.
LEMMA SumsMatch ==
  ASSUME NEW S, IsFiniteSet(S), NEW T, NEW f \in [S -> Int], NEW h \in [T -> Int], NEW g, NEW k,
         IsSum(g, f, S), IsSum(k, h, T),
         NEW m \in Bijection(S, T), \A x \in S : h[m[x]] = f[x]
  PROVE  k[T] = g[S]
<1> DEFINE Image(s) == {m[x] : x \in s}
           Bad == {n \in Nat : \E s \in SUBSET S : Cardinality(s) = n /\ k[Image(s)] # g[s]}
<1>0. /\ m \in [S -> T] /\ \A x, y \in S : m[x] = m[y] => x = y
      /\ \A y \in T : \E x \in S : m[x] = y
  BY DEF Bijection, Injection, IsInjective, Surjection
<1>1. Bad = {}
  <2> SUFFICES ASSUME Bad # {} PROVE FALSE
    OBVIOUS
  <2>1. PICK n \in Bad : \A j \in Bad : n <= j
    <3>1. Bad \subseteq Nat
      OBVIOUS
    <3> HIDE DEF Bad
    <3> QED BY <3>1, LeastExists
  <2>2. PICK s \in SUBSET S : Cardinality(s) = n /\ k[Image(s)] # g[s]
    OBVIOUS
  <2>3. CASE s = {}
    <3>1. Image(s) = {}
      BY <2>3
    <3> QED BY <2>2, <2>3, <3>1 DEF IsSum
  <2>4. CASE s # {}
    <3>1. PICK x \in s : TRUE
      BY <2>4
    <3>2. /\ s \ {x} \in SUBSET S /\ Cardinality(s \ {x}) \in Nat
          /\ n \in Nat /\ ~(n <= Cardinality(s \ {x}))
      BY <2>2, SmallerWithout
    <3>3. k[Image(s \ {x})] = g[s \ {x}]
      BY <2>1, <3>2
    <3>4. Image(s) \in SUBSET T /\ m[x] \in Image(s) /\ Image(s) \ {m[x]} = Image(s \ {x})
      <4>1. Image(s) \in SUBSET T /\ m[x] \in Image(s)
        BY <1>0
      <4>2. Image(s) \ {m[x]} = Image(s \ {x})
        <5>1. \A y \in s : m[y] = m[x] <=> y = x
          BY <1>0
        <5> QED BY <5>1
      <4> QED BY <4>1, <4>2
    <3> HIDE DEF Image
    <3>8. k[Image(s)] = h[m[x]] + k[Image(s) \ {m[x]}]
      BY <3>4 DEF IsSum
    <3>5. k[Image(s)] = h[m[x]] + k[Image(s \ {x})]
      BY <3>4, <3>8
    <3>6. g[s] = f[x] + g[s \ {x}]
      BY DEF IsSum
    <3>7. h[m[x]] = f[x]
      OBVIOUS
    <3> QED BY <2>2, <3>3, <3>5, <3>6, <3>7
  <2> QED BY <2>3, <2>4
<1>2. Cardinality(S) \in Nat
  BY FS_CardinalityType
<1>3. k[Image(S)] = g[S]
  BY <1>1, <1>2
<1>4. Image(S) = T
  BY <1>0
<1> QED BY <1>3, <1>4

\* The recursion of a sum has one solution.
LEMMA SumIsUnique ==
  ASSUME NEW S, IsFiniteSet(S), NEW f, NEW c, Picks(c, S), NEW g, NEW h,
         SumFold(g, f, c, S), SumFold(h, f, c, S)
  PROVE  h = g
<1> DEFINE Bad == {n \in Nat : \E s \in SUBSET S : Cardinality(s) = n /\ g[s] # h[s]}
<1>1. Bad = {}
  <2> SUFFICES ASSUME Bad # {} PROVE FALSE
    OBVIOUS
  <2>1. PICK n \in Bad : \A k \in Bad : n <= k
    <3>1. Bad \subseteq Nat
      OBVIOUS
    <3> HIDE DEF Bad
    <3> QED BY <3>1, LeastExists
  <2>2. PICK s \in SUBSET S : Cardinality(s) = n /\ g[s] # h[s]
    OBVIOUS
  <2>3. \A t \in SUBSET S : /\ g[t] = IF t = {} THEN 0 ELSE f[c[t]] + g[t \ {c[t]}]
                            /\ h[t] = IF t = {} THEN 0 ELSE f[c[t]] + h[t \ {c[t]}]
    BY DEF SumFold
  <2>4. s # {}
    BY <2>2, <2>3
  <2> DEFINE r == s \ {c[s]}
  <2>5. c[s] \in s
    BY <2>4 DEF Picks
  <2>6. r \in SUBSET S /\ Cardinality(r) \in Nat /\ n \in Nat /\ ~(n <= Cardinality(r))
    BY <2>2, <2>5, SmallerWithout
  <2>7. g[r] = h[r]
    BY <2>1, <2>6
  <2> HIDE DEF r
  <2> QED BY <2>2, <2>3, <2>4, <2>7 DEF r
<1>2. \A s \in SUBSET S : Cardinality(s) \in Nat
  BY FS_Subset, FS_CardinalityType
<1>3. \A s \in SUBSET S : g[s] = h[s]
  BY <1>1, <1>2
<1>4. /\ g = [s \in SUBSET S |-> g[s]]
      /\ h = [s \in SUBSET S |-> h[s]]
  BY DEF SumFold
<1> QED BY <1>3, <1>4

-----------------------------------------------------------------------------
(***************************************************************************)
(* Sums of fractions, as folds.                                            *)
(***************************************************************************)
PlusFold(g, f, c, S) ==
  g = [s \in SUBSET S |-> IF s = {} THEN Q(0) ELSE Plus(g[s \ {c[s]}], f[c[s]])]

\* There is a sum.
LEMMA PlusFoldExists ==
  ASSUME NEW S, IsFiniteSet(S), NEW f \in [S -> Frac], NEW c, Picks(c, S)
  PROVE  \E g : PlusFold(g, f, c, S)
<1> DEFINE op == [p \in Frac \X Frac |-> Plus(p[2], p[1])]
<1>1. op \in [Frac \X Frac -> Frac] /\ \A a, b \in Frac : op[a, b] = Plus(b, a)
  BY FracClosed
<1> HIDE DEF op
<1>2. Q(0) \in Frac
  BY SmallFractions
<1> DEFINE zero == Q(0)
<1>3. zero \in Frac
  BY <1>2
<1> HIDE DEF zero
<1>4. PICK g \in [SUBSET S -> Frac] : IsFold(g, op, zero, f, c, S)
  BY <1>1, <1>3, FoldExists, Zenon
<1>5. ASSUME NEW s \in SUBSET S
      PROVE  (IF s = {} THEN zero ELSE op[f[c[s]], g[s \ {c[s]}]])
               = (IF s = {} THEN zero ELSE Plus(g[s \ {c[s]}], f[c[s]]))
  <2>1. CASE s # {}
    <3>1. c[s] \in s
      BY <2>1 DEF Picks
    <3>2. f[c[s]] \in Frac /\ g[s \ {c[s]}] \in Frac
      BY <3>1
    <3>3. op[f[c[s]], g[s \ {c[s]}]] = Plus(g[s \ {c[s]}], f[c[s]])
      BY <1>1, <3>2
    <3> QED BY <2>1, <3>3
  <2> QED BY <2>1
<1>6. g = [s \in SUBSET S |-> IF s = {} THEN zero ELSE Plus(g[s \ {c[s]}], f[c[s]])]
  <2>1. g = [s \in SUBSET S |-> IF s = {} THEN zero ELSE op[f[c[s]], g[s \ {c[s]}]]]
    BY <1>4 DEF IsFold
  <2> QED BY <1>5, <2>1, Zenon
<1>7. PlusFold(g, f, c, S)
  BY <1>6 DEF PlusFold, zero
<1> QED BY <1>7

\* A sum is a fraction, not negative when no term is, and positive when all are and there is
\* a term.
LEMMA PlusFoldIs ==
  ASSUME NEW S, IsFiniteSet(S), NEW f \in [S -> Frac], NEW c, Picks(c, S), NEW g,
         PlusFold(g, f, c, S)
  PROVE  /\ g[S] \in Frac
         /\ (\A x \in S : f[x][1] >= 0) => g[S][1] >= 0
         /\ (\A x \in S : Positive(f[x])) /\ S # {} => Positive(g[S])
<1> DEFINE Good(s) == g[s] \in Frac /\ ((\A x \in S : f[x][1] >= 0) => g[s][1] >= 0)
           Bad == {n \in Nat : \E s \in SUBSET S : Cardinality(s) = n /\ ~Good(s)}
<1>0. \A s \in SUBSET S : g[s] = IF s = {} THEN Q(0) ELSE Plus(g[s \ {c[s]}], f[c[s]])
  BY DEF PlusFold
<1> HIDE DEF Good
<1>1. Bad = {}
  <2> SUFFICES ASSUME Bad # {} PROVE FALSE
    OBVIOUS
  <2>1. PICK n \in Bad : \A k \in Bad : n <= k
    <3>1. Bad \subseteq Nat
      OBVIOUS
    <3> HIDE DEF Bad
    <3> QED BY <3>1, LeastExists
  <2>2. PICK s \in SUBSET S : Cardinality(s) = n /\ ~Good(s)
    OBVIOUS
  <2>3. CASE s = {}
    <3>1. g[s] = Q(0)
      BY <1>0, <2>3
    <3>2. Q(0) \in Frac
      BY SmallFractions
    <3>3. Q(0)[1] = 0
      BY DEF Q
    <3> QED BY <2>2, <3>1, <3>2, <3>3 DEF Good
  <2>4. CASE s # {}
    <3> DEFINE r == s \ {c[s]}
               x == c[s]
    <3>1. x \in s /\ x \in S /\ f[x] \in Frac
      BY <2>4 DEF Picks
    <3>2. r \in SUBSET S /\ Cardinality(r) \in Nat /\ n \in Nat /\ ~(n <= Cardinality(r))
      BY <2>2, <3>1, SmallerWithout
    <3>3. g[s] = Plus(g[r], f[x])
      BY <1>0, <2>4
    <3> HIDE DEF r, x
    <3>4. Good(r)
      BY <2>1, <3>2
    <3>5. g[r] \in Frac /\ ((\A y \in S : f[y][1] >= 0) => g[r][1] >= 0)
      BY <3>4 DEF Good
    <3>6. g[s] \in Frac
      BY <3>1, <3>3, <3>5, FracClosed
    <3>7. ASSUME \A y \in S : f[y][1] >= 0 PROVE g[s][1] >= 0
      BY <3>1, <3>3, <3>5, <3>7, FracSigns
    <3>8. Good(s)
      BY <3>6, <3>7 DEF Good
    <3> QED BY <2>2, <3>8
  <2> QED BY <2>3, <2>4
<1>2. \A s \in SUBSET S : Good(s)
  <2>1. \A s \in SUBSET S : Cardinality(s) \in Nat
    BY FS_Subset, FS_CardinalityType
  <2> QED BY <1>1, <2>1
<1>3. ASSUME \A x \in S : Positive(f[x]), S # {} PROVE Positive(g[S])
  <2> DEFINE r == S \ {c[S]}
             x == c[S]
  <2>1. x \in S /\ r \in SUBSET S /\ f[x] \in Frac /\ Positive(f[x])
    BY <1>3 DEF Picks
  <2>2. g[S] = Plus(g[r], f[x])
    BY <1>0, <1>3
  <2> HIDE DEF r, x
  <2>3. \A y \in S : f[y][1] >= 0
    <3>1. \A y \in S : f[y][1] \in Int /\ f[y][1] > 0
      BY <1>3, FracParts DEF Positive
    <3> QED BY <3>1
  <2>4. g[r] \in Frac /\ g[r][1] >= 0
    BY <1>2, <2>1, <2>3 DEF Good
  <2> QED BY <2>1, <2>2, <2>4, FracSigns
<1>4. Good(S)
  BY <1>2
<1> QED BY <1>3, <1>4 DEF Good

-----------------------------------------------------------------------------
(***************************************************************************)
(* Powers of a positive fraction, as folds.                                *)
(***************************************************************************)
Growing == {a \in Frac : Positive(a)}
TimesFold(g, f, c, S) ==
  g = [s \in SUBSET S |-> IF s = {} THEN Q(1) ELSE Times(g[s \ {c[s]}], f[c[s]])]

\* One is a positive fraction,
LEMMA OneGrows == Q(1) \in Growing
<1>1. Q(1) \in Frac /\ Q(1)[1] = 1
  BY SmallFractions DEF Q
<1> QED BY <1>1 DEF Growing, Positive

\* and so is the product of two.
LEMMA GrowingClosed == \A a, b \in Growing : Times(a, b) \in Growing
<1>1. ASSUME NEW a \in Frac, NEW b \in Frac, Positive(a), Positive(b)
      PROVE  Times(a, b) \in Frac /\ Positive(Times(a, b))
  BY <1>1, FracClosed, FracSigns
<1> QED BY <1>1 DEF Growing

\* The fold that multiplies exists,
LEMMA TimesFoldExists ==
  ASSUME NEW S, IsFiniteSet(S), NEW f \in [S -> Growing], NEW c, Picks(c, S)
  PROVE  \E g : TimesFold(g, f, c, S)
<1> DEFINE op == [p \in Growing \X Growing |-> Times(p[2], p[1])]
           one == Q(1)
<1>1. op \in [Growing \X Growing -> Growing] /\ \A a, b \in Growing : op[a, b] = Times(b, a)
  BY GrowingClosed
<1>2. one \in Growing
  BY OneGrows
<1> HIDE DEF op, one
<1>3. PICK g \in [SUBSET S -> Growing] : IsFold(g, op, one, f, c, S)
  BY <1>1, <1>2, FoldExists, Zenon
<1>4. ASSUME NEW s \in SUBSET S
      PROVE  (IF s = {} THEN one ELSE op[f[c[s]], g[s \ {c[s]}]])
               = (IF s = {} THEN one ELSE Times(g[s \ {c[s]}], f[c[s]]))
  <2>1. CASE s # {}
    <3>1. c[s] \in s
      BY <2>1 DEF Picks
    <3>2. f[c[s]] \in Growing /\ g[s \ {c[s]}] \in Growing
      BY <3>1
    <3>3. op[f[c[s]], g[s \ {c[s]}]] = Times(g[s \ {c[s]}], f[c[s]])
      BY <1>1, <3>2
    <3> QED BY <2>1, <3>3
  <2> QED BY <2>1
<1>5. g = [s \in SUBSET S |-> IF s = {} THEN one ELSE Times(g[s \ {c[s]}], f[c[s]])]
  <2>1. g = [s \in SUBSET S |-> IF s = {} THEN one ELSE op[f[c[s]], g[s \ {c[s]}]]]
    BY <1>3 DEF IsFold
  <2> QED BY <1>4, <2>1, Zenon
<1>6. TimesFold(g, f, c, S)
  BY <1>5 DEF TimesFold, one
<1> QED BY <1>6

\* and is a positive fraction.
LEMMA TimesFoldIs ==
  ASSUME NEW S, IsFiniteSet(S), NEW f \in [S -> Growing], NEW c, Picks(c, S), NEW g,
         TimesFold(g, f, c, S)
  PROVE  g[S] \in Growing
<1> DEFINE Bad == {n \in Nat : \E s \in SUBSET S : Cardinality(s) = n /\ g[s] \notin Growing}
<1>0. \A s \in SUBSET S : g[s] = IF s = {} THEN Q(1) ELSE Times(g[s \ {c[s]}], f[c[s]])
  BY DEF TimesFold
<1>1. Bad = {}
  <2> SUFFICES ASSUME Bad # {} PROVE FALSE
    OBVIOUS
  <2>1. PICK n \in Bad : \A k \in Bad : n <= k
    <3>1. Bad \subseteq Nat
      OBVIOUS
    <3> HIDE DEF Bad
    <3> QED BY <3>1, LeastExists
  <2>2. PICK s \in SUBSET S : Cardinality(s) = n /\ g[s] \notin Growing
    OBVIOUS
  <2>3. CASE s = {}
    <3>1. g[s] = Q(1)
      BY <1>0, <2>3
    <3> QED BY <2>2, <3>1, OneGrows
  <2>4. CASE s # {}
    <3> DEFINE r == s \ {c[s]}
               x == c[s]
    <3>1. x \in s /\ x \in S /\ f[x] \in Growing
      BY <2>4 DEF Picks
    <3>2. r \in SUBSET S /\ Cardinality(r) \in Nat /\ n \in Nat /\ ~(n <= Cardinality(r))
      BY <2>2, <3>1, SmallerWithout
    <3>3. g[r] \in Growing
      BY <2>1, <3>2
    <3>4. g[s] = Times(g[r], f[x])
      BY <1>0, <2>4
    <3> HIDE DEF r, x
    <3>5. Times(g[r], f[x]) \in Growing
      BY <3>1, <3>3, GrowingClosed
    <3> QED BY <2>2, <3>4, <3>5
  <2> QED BY <2>3, <2>4
<1>2. Cardinality(S) \in Nat /\ S \in SUBSET S
  BY FS_CardinalityType
<1> QED BY <1>1, <1>2

-----------------------------------------------------------------------------
(***************************************************************************)
(* The first of a list, as those with fewer than n before them.            *)
(***************************************************************************)
\* When they are fewer than n, they are all.
LEMMA FewAreAll ==
  ASSUME NEW S, IsFiniteSet(S), NEW b \in [S -> SUBSET S], NEW n \in Nat,
         \A i \in S : i \notin b[i],
         \A i, j, k \in S : i \in b[j] /\ j \in b[k] => i \in b[k],
         Cardinality({i \in S : Cardinality(b[i]) < n}) < n
  PROVE  \A i \in S : Cardinality(b[i]) < n
<1> DEFINE First == {i \in S : Cardinality(b[i]) < n}
           Bad == {m \in Nat : \E i \in S : Cardinality(b[i]) = m /\ n <= m}
<1>0. \A i \in S : IsFiniteSet(b[i]) /\ Cardinality(b[i]) \in Nat
  BY FS_Subset, FS_CardinalityType
<1> SUFFICES ASSUME Bad # {} PROVE FALSE
  BY <1>0
<1>1. PICK m \in Bad : \A k \in Bad : m <= k
  <2>1. Bad \subseteq Nat
    OBVIOUS
  <2> HIDE DEF Bad
  <2> QED BY <2>1, LeastExists
<1>2. PICK i \in S : Cardinality(b[i]) = m /\ n <= m
  OBVIOUS
<1>3. ASSUME NEW j \in b[i] PROVE j \in First
  <2>1. j \in S /\ j \notin b[j] /\ b[j] \subseteq b[i] \ {j}
    OBVIOUS
  <2>2. Cardinality(b[j]) < m
    <3>1. b[j] \subseteq b[i] /\ b[j] # b[i]
      BY <2>1
    <3>2. /\ Cardinality(b[j]) <= Cardinality(b[i])
          /\ Cardinality(b[i]) = Cardinality(b[j]) => b[i] = b[j]
      BY <1>0, <3>1, FS_Subset
    <3>3. Cardinality(b[j]) \in Nat /\ Cardinality(b[i]) \in Nat
      BY <1>0, <2>1
    <3> QED BY <1>2, <3>1, <3>2, <3>3
  <2>3. Cardinality(b[j]) \in Nat /\ m \in Nat
    BY <1>0, <2>1
  <2>4. Cardinality(b[j]) \notin Bad
    BY <1>1, <2>2, <2>3
  <2> QED BY <2>1, <2>3, <2>4
<1>4. b[i] \subseteq First /\ IsFiniteSet(First)
  BY <1>3, FS_Subset
<1>5. Cardinality(b[i]) <= Cardinality(First) /\ Cardinality(First) \in Nat
  BY <1>4, FS_Subset, FS_CardinalityType
<1>6. Cardinality(First) < n
  OBVIOUS
<1> HIDE DEF First
<1> QED BY <1>2, <1>5, <1>6

(***************************************************************************)
(* Rankings.  Those before an element in two rankings by the same score    *)
(* differ among equals only, so the first n sum up to the same.            *)
(***************************************************************************)
Ranking(b, f, S) ==
  /\ b \in [S -> SUBSET S]
  /\ \A i \in S : i \notin b[i]
  /\ \A i, j \in S : i # j => i \in b[j] \/ j \in b[i]
  /\ \A i, j, k \in S : i \in b[j] /\ j \in b[k] => i \in b[k]
  /\ \A i, j \in S : (f[j] > f[i] => j \in b[i]) /\ (j \in b[i] => f[j] >= f[i])
Rank(b, i) == Cardinality(b[i])

\* Ranks number the elements from zero.
LEMMA RanksAreNumbers ==
  ASSUME NEW S, IsFiniteSet(S), NEW f, NEW b, Ranking(b, f, S)
  PROVE  [i \in S |-> Rank(b, i)] \in Bijection(S, 0..(Cardinality(S) - 1))
<1> DEFINE n == Cardinality(S)
           r == [i \in S |-> Rank(b, i)]
<1>1. \A i \in S : b[i] \in SUBSET S /\ i \notin b[i] /\ IsFiniteSet(b[i])
                   /\ Rank(b, i) \in Nat /\ Rank(b, i) < n
  <2> SUFFICES ASSUME NEW i \in S
               PROVE  b[i] \in SUBSET S /\ i \notin b[i] /\ IsFiniteSet(b[i])
                      /\ Rank(b, i) \in Nat /\ Rank(b, i) < n
    OBVIOUS
  <2>1. b[i] \in SUBSET S /\ i \notin b[i]
    BY DEF Ranking
  <2>2. IsFiniteSet(b[i]) /\ Cardinality(b[i]) \in Nat
    BY <2>1, FS_Subset, FS_CardinalityType
  <2>3. S \in SUBSET S /\ S \ {i} \in SUBSET S /\ IsFiniteSet(S \ {i})
        /\ Cardinality(S \ {i}) < Cardinality(S) /\ Cardinality(S \ {i}) \in Nat
    BY SmallerWithout, FS_Subset
  <2>4. Cardinality(b[i]) <= Cardinality(S \ {i})
    <3>1. b[i] \in SUBSET (S \ {i})
      BY <2>1
    <3> QED BY <2>3, <3>1, FS_Subset
  <2>5. Cardinality(S) \in Nat
    BY FS_CardinalityType
  <2> QED BY <2>1, <2>2, <2>3, <2>4, <2>5 DEF Rank
<1>2. n \in Nat
  BY FS_CardinalityType
<1>3. \A i, j \in S : i \in b[j] => Rank(b, i) < Rank(b, j)
  <2> SUFFICES ASSUME NEW i \in S, NEW j \in S, i \in b[j] PROVE Rank(b, i) < Rank(b, j)
    OBVIOUS
  <2>1. b[i] \in SUBSET (b[j] \ {i})
    BY <1>1 DEF Ranking
  <2>2. /\ IsFiniteSet(b[j] \ {i}) /\ Cardinality(b[j] \ {i}) < Cardinality(b[j])
        /\ Cardinality(b[j] \ {i}) \in Nat
    BY <1>1, SmallerWithout, FS_Subset
  <2>3. Cardinality(b[i]) <= Cardinality(b[j] \ {i})
    BY <2>1, <2>2, FS_Subset
  <2> QED BY <1>1, <2>2, <2>3 DEF Rank
<1>4. \A i, j \in S : r[i] = r[j] => i = j
  BY <1>1, <1>3 DEF Ranking
<1>5. r \in [S -> 0..(n - 1)]
  BY <1>1, <1>2
<1>6. r \in Injection(S, 0..(n - 1))
  <2> HIDE DEF r
  <2> QED BY <1>4, <1>5 DEF Injection, IsInjective
<1>7. IsFiniteSet(0..(n - 1)) /\ Cardinality(0..(n - 1)) = n
  <2>1. 0 \in Int /\ n - 1 \in Int
    BY <1>2
  <2>2. IsFiniteSet(0..(n - 1)) /\ Cardinality(0..(n - 1)) = IF 0 > n - 1 THEN 0 ELSE (n - 1) - 0 + 1
    BY <2>1, FS_Interval
  <2> QED BY <1>2, <2>2
<1> HIDE DEF r
<1>8. r \in Surjection(S, 0..(n - 1))
  BY <1>6, <1>7, FS_Injection
<1>9. r \in Bijection(S, 0..(n - 1))
  BY <1>6, <1>8 DEF Bijection
<1> QED BY <1>9 DEF r

\* Elements of one rank in two rankings by the same score have the same score.
LEMMA RanksHaveOneScore ==
  ASSUME NEW S, IsFiniteSet(S), NEW f \in [S -> Int], NEW b, NEW d,
         Ranking(b, f, S), Ranking(d, f, S),
         NEW i \in S, NEW j \in S, Rank(b, i) = Rank(d, j)
  PROVE  f[i] <= f[j]
<1> SUFFICES ASSUME f[i] > f[j] PROVE FALSE
  OBVIOUS
<1>1. b[i] \in SUBSET S /\ d[j] \in SUBSET S /\ i \notin b[i]
  BY DEF Ranking
<1>2. b[i] \cup {i} \in SUBSET d[j]
  <2> SUFFICES ASSUME NEW x \in b[i] \cup {i} PROVE x \in d[j]
    OBVIOUS
  <2>1. x \in S
    BY <1>1
  <2>2. f[x] >= f[i]
    BY <1>1, <2>1 DEF Ranking
  <2>3. f[x] > f[j]
    BY <2>1, <2>2
  <2> QED BY <2>1, <2>3 DEF Ranking
<1>3. IsFiniteSet(b[i]) /\ IsFiniteSet(d[j]) /\ Cardinality(b[i]) \in Nat
  BY <1>1, FS_Subset, FS_CardinalityType
<1>4. Cardinality(b[i] \cup {i}) = Cardinality(b[i]) + 1
  BY <1>1, <1>3, FS_AddElement
<1>5. Cardinality(b[i] \cup {i}) <= Cardinality(d[j])
  BY <1>2, <1>3, FS_Subset
<1> QED BY <1>3, <1>4, <1>5 DEF Rank

FirstOf(b, S, n) == {i \in S : Rank(b, i) < n}

\* The first n elements of two rankings by the same score have equal scores.
LEMMA FirstOfMatch ==
  ASSUME NEW S, IsFiniteSet(S), NEW f \in [S -> Int], NEW b, NEW d,
         Ranking(b, f, S), Ranking(d, f, S), NEW n
  PROVE  \E m \in Bijection(FirstOf(b, S, n), FirstOf(d, S, n)) :
           \A i \in FirstOf(b, S, n) : f[m[i]] = f[i]
<1> DEFINE r == [i \in S |-> Rank(b, i)]
           q == [i \in S |-> Rank(d, i)]
           N == 0..(Cardinality(S) - 1)
           A == FirstOf(b, S, n)
           B == FirstOf(d, S, n)
           m == [i \in A |-> CHOOSE j \in S : q[j] = r[i]]
<1>1. r \in Bijection(S, N) /\ q \in Bijection(S, N)
  BY RanksAreNumbers
<1>2. \A i \in S : r[i] = Rank(b, i) /\ q[i] = Rank(d, i)
  OBVIOUS
<1> HIDE DEF r, q, N
<1>3. /\ \A i \in S : r[i] \in N /\ q[i] \in N
      /\ \A i, j \in S : (r[i] = r[j] => i = j) /\ (q[i] = q[j] => i = j)
      /\ \A k \in N : (\E i \in S : r[i] = k) /\ (\E j \in S : q[j] = k)
  BY <1>1 DEF Bijection, Injection, IsInjective, Surjection
<1>4. \A i \in A : m[i] \in S /\ q[m[i]] = r[i]
  BY <1>3 DEF FirstOf
<1>5. \A i \in A : m[i] \in B
  BY <1>2, <1>4 DEF FirstOf
<1>6. \A i, j \in A : m[i] = m[j] => i = j
  BY <1>3, <1>4 DEF FirstOf
<1>7. \A j \in B : \E i \in A : m[i] = j
  <2> SUFFICES ASSUME NEW j \in B PROVE \E i \in A : m[i] = j
    OBVIOUS
  <2>1. j \in S /\ Rank(d, j) < n
    BY DEF FirstOf
  <2>2. PICK i \in S : r[i] = q[j]
    BY <1>3, <2>1
  <2>3. i \in A
    BY <1>2, <2>1, <2>2 DEF FirstOf
  <2> QED BY <1>3, <1>4, <2>1, <2>2, <2>3
<1>8. m \in Bijection(A, B)
  <2>1. m \in [A -> B]
    BY <1>5
  <2> HIDE DEF m, A, B
  <2> QED BY <1>6, <1>7, <2>1 DEF Bijection, Injection, IsInjective, Surjection
<1>9. \A i \in A : f[m[i]] = f[i]
  <2> SUFFICES ASSUME NEW i \in A PROVE f[m[i]] = f[i]
    OBVIOUS
  <2> DEFINE j == m[i]
  <2>1. i \in S /\ j \in S /\ Rank(b, i) = Rank(d, j)
    BY <1>2, <1>4 DEF FirstOf
  <2> HIDE DEF j
  <2>2. f[i] <= f[j] /\ f[j] <= f[i]
    BY <2>1, RanksHaveOneScore
  <2>3. f[i] = f[j]
    BY <2>1, <2>2
  <2> QED BY <2>3 DEF j
<1> QED BY <1>8, <1>9

-----------------------------------------------------------------------------
\* What is pooled with a weight: a mean between the two, and a variance whose second moment is
\* the weighted one of the two.
LEMMA PoolIs ==
  ASSUME NEW w \in Frac, NEW m \in Frac, NEW x \in Frac, NEW u \in Frac, NEW v \in Frac,
         w[1] >= 0, Leq(w, Q(1))
  PROVE  LET rest == Minus(Q(1), w)
             apart == Minus(m, x)
             mean == Plus(Times(w, m), Times(rest, x))
             mixed == Plus(Plus(Times(w, u), Times(rest, v)), Times(Times(w, rest), Times(apart, apart)))
         IN /\ mean \in Frac /\ mixed \in Frac
            /\ Leq(Lower(m, x), mean) /\ Leq(mean, Higher(m, x))
            /\ Leq(Plus(Times(w, Plus(u, Times(apart, apart))),
                        Times(rest, Plus(v, Times(Minus(x, x), Minus(x, x))))),
                   Plus(mixed, Times(Minus(mean, x), Minus(mean, x))))
<1>1. PICK d \in Nat \ {0} : Shares(w, d) /\ Shares(m, d) /\ Shares(x, d) /\ Shares(u, d) /\ Shares(v, d)
  BY CommonDenominator
<1>2. PICK p \in Int : Stands(w, p, d)
  BY <1>1 DEF Shares
<1>3. PICK a \in Int : Stands(m, a, d)
  BY <1>1 DEF Shares
<1>4. PICK b \in Int : Stands(x, b, d)
  BY <1>1 DEF Shares
<1>5. PICK e \in Int : Stands(u, e, d)
  BY <1>1 DEF Shares
<1>6. PICK f \in Int : Stands(v, f, d)
  BY <1>1 DEF Shares
<1> DEFINE rest == Minus(Q(1), w)
           apart == Minus(m, x)
           mean == Plus(Times(w, m), Times(rest, x))
           averaged == Plus(Times(w, u), Times(rest, v))
           mixed == Plus(averaged, Times(Times(w, rest), Times(apart, apart)))
           own == Plus(u, Times(apart, apart))
           prior == Plus(v, Times(Minus(x, x), Minus(x, x)))
           before == Plus(Times(w, own), Times(rest, prior))
           after == Plus(mixed, Times(Minus(mean, x), Minus(mean, x)))
           g == a - b
           h == d - p
           z == p * a + h * b
           y == p * e + h * f
<1>7. g \in Int /\ h \in Int /\ z \in Int /\ y \in Int
  OBVIOUS
<1>8. Stands(rest, h, d) /\ p >= 0 /\ h >= 0
  <2>1. Stands(Q(1), 1, 1)
    BY SmallFractions
  <2>2. Stands(Q(1), 1 * d, 1 * d)
    BY <2>1, StandsExtended
  <2>3. 1 * d = d
    OBVIOUS
  <2>4. Stands(Q(1), d, d)
    BY <2>2, <2>3
  <2>5. Stands(rest, d - p, d)
    BY <1>2, <2>4, MinusStands
  <2>6. p <= d
    BY <1>2, <2>4, LeqSameStands
  <2>7. p >= 0
    BY <1>2, SignStands
  <2> QED BY <2>5, <2>6, <2>7
<1>9. Stands(apart, g, d)
  BY <1>3, <1>4, MinusStands
<1>10. Stands(Times(apart, apart), g * g, d * d)
  BY <1>9, TimesStands
<1>11. Stands(mean, z, d * d)
  <2>1. Stands(Times(w, m), p * a, d * d)
    BY <1>2, <1>3, TimesStands
  <2>2. Stands(Times(rest, x), h * b, d * d)
    BY <1>4, <1>8, TimesStands
  <2> HIDE DEF rest
  <2> QED BY <2>1, <2>2, PlusStands
<1>12. Stands(averaged, y, d * d)
  <2>1. Stands(Times(w, u), p * e, d * d)
    BY <1>2, <1>5, TimesStands
  <2>2. Stands(Times(rest, v), h * f, d * d)
    BY <1>6, <1>8, TimesStands
  <2> HIDE DEF rest
  <2> QED BY <2>1, <2>2, PlusStands
<1> HIDE DEF g, h, z, y, rest, apart, mean, averaged
<1>13. Stands(mixed, y * (d * d) + (p * h) * (g * g), (d * d) * (d * d))
  <2>1. d * d \in Nat \ {0}
    OBVIOUS
  <2>2. Stands(averaged, y * (d * d), (d * d) * (d * d))
    BY <1>12, <2>1, StandsExtended
  <2>3. Stands(Times(w, rest), p * h, d * d)
    BY <1>2, <1>8, TimesStands
  <2>4. Stands(Times(Times(w, rest), Times(apart, apart)), (p * h) * (g * g), (d * d) * (d * d))
    BY <1>10, <2>3, TimesStands
  <2> QED BY <2>2, <2>4, PlusStands
<1>14. mean \in Frac /\ mixed \in Frac
  BY <1>11, <1>13 DEF Stands
<1>15. Leq(Lower(m, x), mean) /\ Leq(mean, Higher(m, x))
  <2>1. z - a * d = h * (b - a) /\ z - b * d = p * (a - b)
    BY DEF z, h
  <2>2. /\ a <= b => a * d <= z /\ z <= b * d
        /\ b <= a => b * d <= z /\ z <= a * d
    <3>1. ASSUME a <= b PROVE a * d <= z /\ z <= b * d
      <4>1. h * (b - a) >= 0
        <5>1. b - a >= 0 /\ b - a \in Int
          BY <3>1
        <5> DEFINE k == b - a
        <5> HIDE DEF k
        <5> QED BY <1>7, <1>8, <5>1 DEF k
      <4>2. p * (a - b) <= 0
        <5>1. b - a >= 0 /\ b - a \in Int
          BY <3>1
        <5>2. p * (b - a) >= 0
          <6> DEFINE k == b - a
          <6> HIDE DEF k
          <6> QED BY <1>8, <5>1 DEF k
        <5>3. p * (a - b) = -(p * (b - a))
          OBVIOUS
        <5> QED BY <5>2, <5>3
      <4>3. a * d \in Int /\ b * d \in Int /\ h * (b - a) \in Int /\ p * (a - b) \in Int
        BY <1>7
      <4> QED BY <1>7, <2>1, <4>1, <4>2, <4>3
    <3>2. ASSUME b <= a PROVE b * d <= z /\ z <= a * d
      <4>1. h * (a - b) >= 0
        <5>1. a - b >= 0 /\ a - b \in Int
          BY <3>2
        <5> DEFINE k == a - b
        <5> HIDE DEF k
        <5> QED BY <1>7, <1>8, <5>1 DEF k
      <4>2. p * (a - b) >= 0
        <5>1. a - b >= 0 /\ a - b \in Int
          BY <3>2
        <5> DEFINE k == a - b
        <5> HIDE DEF k
        <5> QED BY <1>8, <5>1 DEF k
      <4>3. h * (b - a) = -(h * (a - b))
        BY <1>7
      <4>4. a * d \in Int /\ b * d \in Int /\ h * (a - b) \in Int /\ p * (a - b) \in Int
        BY <1>7
      <4> QED BY <1>7, <2>1, <4>1, <4>2, <4>3, <4>4
    <3> QED BY <3>1, <3>2
  <2>3. /\ Stands(m, a * d, d * d) /\ Stands(x, b * d, d * d)
        /\ Leq(m, x) <=> a <= b
    BY <1>3, <1>4, StandsExtended, LeqSameStands
  <2>4. Leq(m, mean) <=> a * d <= z
    BY <1>11, <2>3, LeqSameStands
  <2>5. Leq(mean, m) <=> z <= a * d
    BY <1>11, <2>3, LeqSameStands
  <2>6. Leq(x, mean) <=> b * d <= z
    BY <1>11, <2>3, LeqSameStands
  <2>7. Leq(mean, x) <=> z <= b * d
    BY <1>11, <2>3, LeqSameStands
  <2> QED BY <2>2, <2>3, <2>4, <2>5, <2>6, <2>7 DEF Lower, Higher
<1>16. Stands(before, (p * (e * d + g * g) + h * (f * d)) * d, ((d * d) * d) * d)
  <2>1. Stands(u, e * d, d * d) /\ Stands(v, f * d, d * d)
    BY <1>5, <1>6, StandsExtended
  <2>2. Stands(own, e * d + g * g, d * d)
    BY <1>10, <2>1, PlusStands
  <2>3. Stands(Minus(x, x), b - b, d)
    BY <1>4, MinusStands
  <2>4. Stands(Times(Minus(x, x), Minus(x, x)), (b - b) * (b - b), d * d)
    BY <2>3, TimesStands
  <2>5. (b - b) * (b - b) = 0 /\ f * d + 0 = f * d
    OBVIOUS
  <2>6. Stands(prior, f * d, d * d)
    <3>1. Stands(prior, f * d + (b - b) * (b - b), d * d)
      BY <2>1, <2>4, PlusStands
    <3> HIDE DEF prior
    <3> QED BY <2>5, <3>1
  <2> HIDE DEF own, prior
  <2>7. Stands(Times(w, own), p * (e * d + g * g), d * (d * d))
    BY <1>2, <2>2, TimesStands
  <2>8. Stands(Times(rest, prior), h * (f * d), d * (d * d))
    BY <1>8, <2>6, TimesStands
  <2>9. Stands(before, p * (e * d + g * g) + h * (f * d), d * (d * d))
    BY <2>7, <2>8, PlusStands
  <2>10. d * (d * d) = (d * d) * d
    OBVIOUS
  <2> HIDE DEF before
  <2>11. Stands(before, p * (e * d + g * g) + h * (f * d), (d * d) * d)
    BY <2>9, <2>10
  <2> QED BY <2>11, StandsExtended
<1>17. Stands(after, (y * (d * d) + (p * h) * (g * g)) + (p * g) * (p * g), (d * d) * (d * d))
  <2>1. Stands(x, b * d, d * d)
    BY <1>4, StandsExtended
  <2>2. Stands(Minus(mean, x), z - b * d, d * d)
    BY <1>11, <2>1, MinusStands
  <2>3. z - b * d = p * g
    BY DEF z, h, g
  <2>4. Stands(Times(Minus(mean, x), Minus(mean, x)), (p * g) * (p * g), (d * d) * (d * d))
    BY <2>2, <2>3, TimesStands
  <2> HIDE DEF mixed
  <2> QED BY <1>13, <2>4, PlusStands
<1>18. ((d * d) * d) * d = (d * d) * (d * d)
  OBVIOUS
<1>19. (p * (e * d + g * g) + h * (f * d)) * d
         = (y * (d * d) + (p * h) * (g * g)) + (p * g) * (p * g)
  <2>1. p * h + p * p = p * d
    BY DEF h
  <2> DEFINE k == g * g
             c == d * d
  <2>2. (p * g) * (p * g) = (p * p) * k
    BY <1>7
  <2>3. k \in Int /\ c \in Int
    BY <1>7
  <2>4. (p * h) * k + (p * p) * k = (p * d) * k
    <3>1. (p * h) * k + (p * p) * k = (p * h + p * p) * k
      <4> HIDE DEF k
      <4> QED BY <1>7, <2>3
    <3> QED BY <2>1, <3>1
  <2>5. y * c = p * (e * c) + h * (f * c)
    <3> HIDE DEF c
    <3> QED BY <1>7, <2>3 DEF y
  <2>6. (p * (e * d + k) + h * (f * d)) * d = (p * (e * c) + h * (f * c)) + (p * d) * k
    <3> HIDE DEF k
    <3> QED BY <1>7, <2>3
  <2>7. y * c \in Int /\ (p * h) * k \in Int /\ (p * p) * k \in Int /\ (p * d) * k \in Int
    <3> HIDE DEF k, c
    <3> QED BY <1>7, <2>3
  <2> QED BY <2>2, <2>4, <2>5, <2>6, <2>7
<1>20. Leq(before, after)
  <2> DEFINE n == (p * (e * d + g * g) + h * (f * d)) * d
             c == (d * d) * (d * d)
  <2>1. n \in Int
    BY <1>7
  <2> HIDE DEF n, before, after
  <2>2. Stands(before, n, c) /\ Stands(after, n, c)
    BY <1>16, <1>17, <1>18, <1>19 DEF n
  <2> HIDE DEF c
  <2>3. Leq(before, after) <=> n <= n
    BY <2>2, LeqSameStands
  <2> QED BY <2>1, <2>3
<1> QED BY <1>14, <1>15, <1>20 DEF rest, apart, mean, averaged

-----------------------------------------------------------------------------
(***************************************************************************)
(* Weighted means of two fractions: x with weight v and y with weight u.   *)
(***************************************************************************)
Mean(r, x, y, u, v) ==
  /\ x \in Frac /\ y \in Frac /\ u \in Nat /\ v \in Nat /\ u + v \in Nat \ {0}
  /\ \A d \in Nat \ {0} : \A p, q \in Int :
       Stands(x, p, d) /\ Stands(y, q, d) => Stands(r, p * v + q * u, d * (u + v))

Same(a, b) == Leq(a, b) /\ Leq(b, a)

\* A common factor may be taken out of what a fraction stands for.
LEMMA StandsReduced ==
  ASSUME NEW a, NEW n \in Int, NEW d \in Nat \ {0}, NEW k \in Nat \ {0}, Stands(a, n * k, d * k)
  PROVE  Stands(a, n, d)
<1> DEFINE p == a[1]
           q == a[2]
<1>1. a \in Frac /\ p \in Int /\ q \in Nat \ {0} /\ p * (d * k) = (n * k) * q
  BY FracParts DEF Stands
<1> HIDE DEF p, q
<1>2. (p * d) * k = (n * q) * k
  BY <1>1
<1>3. p * d = n * q
  <2>1. p * d \in Int /\ n * q \in Int
    BY <1>1
  <2> QED BY <1>2, <2>1, Cancel
<1> QED BY <1>1, <1>3 DEF Stands, p, q

\* Two fractions have a common denominator.
LEMMA TwoShare ==
  ASSUME NEW a \in Frac, NEW b \in Frac
  PROVE  \E d \in Nat \ {0} : \E p, q \in Int : Stands(a, p, d) /\ Stands(b, q, d)
<1>1. PICK d \in Nat \ {0} : Shares(a, d) /\ Shares(b, d)
  BY CommonDenominator
<1> QED BY <1>1 DEF Shares

\* What lies at a share of the way from one fraction to another is their mean.
LEMMA MeanIs ==
  ASSUME NEW x \in Frac, NEW y \in Frac, NEW u \in Nat, NEW v \in Nat, u + v \in Nat \ {0},
         NEW share, Stands(share, u, u + v)
  PROVE  Mean(Plus(x, Times(share, Minus(y, x))), x, y, u, v)
<1> SUFFICES ASSUME NEW d \in Nat \ {0}, NEW p \in Int, NEW q \in Int, Stands(x, p, d), Stands(y, q, d)
             PROVE  Stands(Plus(x, Times(share, Minus(y, x))), p * v + q * u, d * (u + v))
  BY DEF Mean
<1> DEFINE k == u + v
<1>1. k \in Nat \ {0} /\ d * k \in Nat \ {0}
  OBVIOUS
<1>2. Stands(Minus(y, x), q - p, d)
  BY MinusStands
<1>3. Stands(Times(share, Minus(y, x)), u * (q - p), k * d)
  BY <1>2, TimesStands
<1>4. Stands(x, p * k, d * k)
  BY <1>1, StandsExtended
<1>5. k * d = d * k /\ p * k + u * (q - p) = p * v + q * u
  OBVIOUS
<1> HIDE DEF k
<1>6. Stands(Times(share, Minus(y, x)), u * (q - p), d * k)
  BY <1>3, <1>5
<1>7. Stands(Plus(x, Times(share, Minus(y, x))), p * k + u * (q - p), d * k)
  BY <1>4, <1>6, PlusStands
<1> QED BY <1>5, <1>7 DEF k

\* Without the weight of the first, the mean is the second,
LEMMA MeanOfLast ==
  ASSUME NEW x \in Frac, NEW y \in Frac, NEW u \in Nat \ {0}
  PROVE  Mean(y, x, y, u, 0)
<1>1. ASSUME NEW d \in Nat \ {0}, NEW p \in Int, NEW q \in Int, Stands(x, p, d), Stands(y, q, d)
      PROVE  Stands(y, p * 0 + q * u, d * (u + 0))
  <2>1. Stands(y, q * u, d * u)
    BY <1>1, StandsExtended
  <2>2. p * 0 + q * u = q * u /\ d * (u + 0) = d * u
    OBVIOUS
  <2> QED BY <2>1, <2>2
<1> QED BY <1>1 DEF Mean

\* A mean is a fraction,
LEMMA MeanIsFraction ==
  ASSUME NEW r, NEW x, NEW y, NEW u, NEW v, Mean(r, x, y, u, v)
  PROVE  r \in Frac
<1>1. x \in Frac /\ y \in Frac
  BY DEF Mean
<1>2. PICK d \in Nat \ {0} : \E p, q \in Int : Stands(x, p, d) /\ Stands(y, q, d)
  BY <1>1, TwoShare
<1>3. PICK p, q \in Int : Stands(x, p, d) /\ Stands(y, q, d)
  BY <1>2
<1>4. Stands(r, p * v + q * u, d * (u + v))
  BY <1>3 DEF Mean
<1> QED BY <1>4 DEF Stands

\* lies between the two,
LEMMA MeanBetween ==
  ASSUME NEW r, NEW x, NEW y, NEW u, NEW v, Mean(r, x, y, u, v), Leq(x, y)
  PROVE  r \in Frac /\ Leq(x, r) /\ Leq(r, y)
<1>1. x \in Frac /\ y \in Frac /\ u \in Nat /\ v \in Nat /\ u + v \in Nat \ {0}
  BY DEF Mean
<1>2. PICK d \in Nat \ {0} : \E p, q \in Int : Stands(x, p, d) /\ Stands(y, q, d)
  BY <1>1, TwoShare
<1>3. PICK p, q \in Int : Stands(x, p, d) /\ Stands(y, q, d)
  BY <1>2
<1>4. Stands(r, p * v + q * u, d * (u + v))
  BY <1>3 DEF Mean
<1>5. p <= q
  BY <1>3, LeqSameStands
<1>6. Stands(x, p * (u + v), d * (u + v)) /\ Stands(y, q * (u + v), d * (u + v))
  BY <1>1, <1>3, StandsExtended
<1>7. p * (u + v) <= p * v + q * u /\ p * v + q * u <= q * (u + v)
  <2>1. p * u <= q * u /\ p * v <= q * v
    <3>1. q - p \in Nat
      BY <1>5
    <3>2. (q - p) * u \in Nat /\ (q - p) * v \in Nat
      BY <1>1, <3>1
    <3> QED BY <1>1, <3>2
  <2> QED BY <1>1, <2>1
<1>8. r \in Frac
  BY <1>4 DEF Stands
<1>9. Leq(x, r)
  BY <1>4, <1>6, <1>7, LeqSameStands
<1>10. Leq(r, y)
  BY <1>4, <1>6, <1>7, LeqSameStands
<1> QED BY <1>8, <1>9, <1>10

\* rises with the weight of the greater,
LEMMA MeanRises ==
  ASSUME NEW r, NEW s, NEW x, NEW y, NEW u, NEW v, NEW a, NEW b,
         Mean(r, x, y, u, v), Mean(s, x, y, a, b), Leq(x, y), u + v = a + b, u <= a
  PROVE  Leq(r, s)
<1>1. x \in Frac /\ y \in Frac /\ u \in Nat /\ v \in Nat /\ u + v \in Nat \ {0} /\ a \in Nat /\ b \in Nat
  BY DEF Mean
<1>2. PICK d \in Nat \ {0} : \E p, q \in Int : Stands(x, p, d) /\ Stands(y, q, d)
  BY <1>1, TwoShare
<1>3. PICK p, q \in Int : Stands(x, p, d) /\ Stands(y, q, d)
  BY <1>2
<1>4. Stands(r, p * v + q * u, d * (u + v))
  BY <1>3 DEF Mean
<1>5. Stands(s, p * b + q * a, d * (u + v))
  <2>1. Stands(s, p * b + q * a, d * (a + b))
    BY <1>3 DEF Mean
  <2> QED BY <2>1
<1>6. p <= q
  BY <1>3, LeqSameStands
<1>7. p * v + q * u <= p * b + q * a
  <2>1. q - p \in Nat /\ a - u \in Nat
    BY <1>1, <1>6
  <2>2. (q - p) * (a - u) \in Nat
    BY <2>1
  <2>3. v = a + b - u
    BY <1>1
  <2>4. p * v = p * a + p * b - p * u
    BY <1>1, <2>3
  <2>5. (q - p) * (a - u) = q * a - q * u - p * a + p * u
    BY <1>1
  <2>6. p * v \in Int /\ q * u \in Int /\ p * b \in Int /\ q * a \in Int /\ p * a \in Int /\ p * u \in Int
    BY <1>1
  <2> QED BY <2>2, <2>4, <2>5, <2>6
<1> QED BY <1>4, <1>5, <1>7, LeqSameStands

\* and with either of the two.
LEMMA MeanFollows ==
  ASSUME NEW r, NEW s, NEW x, NEW y, NEW z, NEW u, NEW v,
         Mean(r, x, y, u, v), Mean(s, x, z, u, v), Leq(y, z)
  PROVE  Leq(r, s)
<1>1. x \in Frac /\ y \in Frac /\ z \in Frac /\ u \in Nat /\ v \in Nat /\ u + v \in Nat \ {0}
  BY DEF Mean
<1>2. PICK d \in Nat \ {0} : Shares(x, d) /\ Shares(y, d) /\ Shares(z, d)
  BY <1>1, CommonDenominator
<1>3. PICK p \in Int : Stands(x, p, d)
  BY <1>2 DEF Shares
<1>4. PICK q \in Int : Stands(y, q, d)
  BY <1>2 DEF Shares
<1>5. PICK e \in Int : Stands(z, e, d)
  BY <1>2 DEF Shares
<1>6. Stands(r, p * v + q * u, d * (u + v)) /\ Stands(s, p * v + e * u, d * (u + v))
  BY <1>3, <1>4, <1>5 DEF Mean
<1>7. q <= e
  BY <1>4, <1>5, LeqSameStands
<1>8. p * v + q * u <= p * v + e * u
  <2>1. e - q \in Nat
    BY <1>7
  <2>2. (e - q) * u \in Nat
    BY <1>1, <2>1
  <2> QED BY <1>1, <2>2
<1> QED BY <1>6, <1>8, LeqSameStands

\* A fraction times -1 stands for the opposite.
LEMMA NegatedStands ==
  ASSUME NEW x, NEW p, NEW d, Stands(x, p, d)
  PROVE  Times(Q(-1), x) \in Frac /\ Stands(Times(Q(-1), x), -p, d)
<1>1. Stands(Q(-1), -1, 1) /\ p \in Int /\ d \in Nat \ {0}
  BY SmallFractions DEF Stands
<1>2. Stands(Times(Q(-1), x), (-1) * p, 1 * d)
  BY <1>1, TimesStands
<1>3. (-1) * p = -p /\ 1 * d = d
  BY <1>1
<1> QED BY <1>2, <1>3 DEF Stands

\* The mean of the opposites, weighted the other way round, is the opposite.
LEMMA MeanMirrored ==
  ASSUME NEW r, NEW s, NEW x, NEW y, NEW u, NEW v,
         Mean(r, x, y, u, v), Mean(s, Times(Q(-1), y), Times(Q(-1), x), v, u)
  PROVE  Same(r, Times(Q(-1), s))
<1>1. x \in Frac /\ y \in Frac /\ u \in Nat /\ v \in Nat /\ u + v \in Nat \ {0}
  BY DEF Mean
<1>2. PICK d \in Nat \ {0} : \E p, q \in Int : Stands(x, p, d) /\ Stands(y, q, d)
  BY <1>1, TwoShare
<1>3. PICK p, q \in Int : Stands(x, p, d) /\ Stands(y, q, d)
  BY <1>2
<1>4. Stands(r, p * v + q * u, d * (u + v))
  BY <1>3 DEF Mean
<1>5. Stands(Times(Q(-1), x), -p, d) /\ Stands(Times(Q(-1), y), -q, d)
  BY <1>3, NegatedStands
<1>6. Stands(s, (-q) * u + (-p) * v, d * (v + u))
  BY <1>5 DEF Mean
<1>7. Stands(Times(Q(-1), s), -((-q) * u + (-p) * v), d * (v + u))
  BY <1>6, NegatedStands
<1>8. -((-q) * u + (-p) * v) = p * v + q * u /\ d * (v + u) = d * (u + v)
  BY <1>1
<1>9. Stands(Times(Q(-1), s), p * v + q * u, d * (u + v))
  BY <1>7, <1>8
<1>10. p * v + q * u <= p * v + q * u
  BY <1>1
<1> QED BY <1>4, <1>9, <1>10, LeqSameStands DEF Same

\* and only that.
LEMMA MeanAtLast ==
  ASSUME NEW r, NEW x, NEW y, NEW u, Mean(r, x, y, u, 0)
  PROVE  Same(r, y)
<1>1. x \in Frac /\ y \in Frac /\ u \in Nat \ {0}
  BY DEF Mean
<1>2. PICK d \in Nat \ {0} : \E p, q \in Int : Stands(x, p, d) /\ Stands(y, q, d)
  BY <1>1, TwoShare
<1>3. PICK p, q \in Int : Stands(x, p, d) /\ Stands(y, q, d)
  BY <1>2
<1>4. Stands(r, p * 0 + q * u, d * (u + 0))
  BY <1>3 DEF Mean
<1>5. p * 0 + q * u = q * u /\ d * (u + 0) = d * u /\ q * u <= q * u
  BY <1>1
<1>6. Stands(y, q * u, d * u)
  BY <1>1, <1>3, StandsExtended
<1>7. Stands(r, q * u, d * u)
  BY <1>4, <1>5
<1> QED BY <1>5, <1>6, <1>7, LeqSameStands DEF Same

-----------------------------------------------------------------------------
\* Fraction divides by a negative number too,
LEMMA FractionOfNegative ==
  ASSUME NEW n \in Int, NEW d \in Int, d < 0
  PROVE  Stands(Fraction(n, d), -n, -d)
<1>1. Magnitude(-n) = Magnitude(n) /\ Magnitude(-d) = Magnitude(d)
  BY DEF Magnitude
<1>2. Fraction(n, d) = Fraction(-n, -d)
  <2>1. ~(-d < 0)
    OBVIOUS
  <2> QED BY <1>1, <2>1, Zenon DEF Fraction
<1>3. -n \in Int /\ -d \in Nat \ {0}
  OBVIOUS
<1> QED BY <1>2, <1>3, FractionStands

\* and so does Over.
LEMMA OverNegative ==
  ASSUME NEW a, NEW b, NEW n, NEW m, NEW d, NEW e, Stands(a, n, d), Stands(b, m, e), m < 0
  PROVE  Stands(Over(a, b), -(n * e), d * (-m))
<1>1. /\ b \in Frac /\ m \in Int /\ e \in Nat \ {0} /\ b[1] * e = m * b[2]
      /\ n \in Int /\ d \in Nat \ {0}
  BY DEF Stands
<1> DEFINE r == b[1]
           s == b[2]
           f == Fraction(s, r)
<1>2. r \in Int /\ s \in Nat \ {0} /\ r * e = m * s
  BY <1>1, FracParts
<1> HIDE DEF r, s
<1>3. r < 0
  <2>1. m * s < 0
    BY <1>1, <1>2
  <2>2. ASSUME r >= 0 PROVE FALSE
    <3>1. r * e >= 0
      BY <1>1, <1>2, <2>2
    <3> QED BY <1>1, <1>2, <2>1, <3>1
  <2> QED BY <1>2, <2>2
<1>4. Stands(f, -s, -r)
  BY <1>2, <1>3, FractionOfNegative
<1>5. Stands(f, -e, -m)
  <2> DEFINE x == f[1]
             y == f[2]
  <2>1. f \in Frac /\ x \in Int /\ y \in Nat \ {0} /\ x * (-r) = (-s) * y
    BY <1>4, FracParts DEF Stands
  <2> HIDE DEF f, x, y
  <2>2. (x * (-m)) * ((-r) * s) = ((-e) * y) * ((-r) * s)
    <3>1. (x * (-m)) * ((-r) * s) = (x * (-r)) * (-(m * s))
      BY <1>1, <1>2, <2>1
    <3>2. ((-s) * y) * (-(r * e)) = ((-e) * y) * ((-r) * s)
      BY <1>1, <1>2, <2>1
    <3> QED BY <1>2, <2>1, <3>1, <3>2
  <2>3. x * (-m) = (-e) * y
    <3>1. x * (-m) \in Int /\ (-e) * y \in Int /\ (-r) * s \in Nat \ {0}
      BY <1>1, <1>2, <1>3, <2>1
    <3> QED BY <2>2, <3>1, Cancel
  <2>4. -m \in Nat \ {0} /\ -e \in Int
    BY <1>1
  <2> QED BY <2>1, <2>3, <2>4 DEF Stands, x, y
<1>6. Stands(Times(a, f), n * (-e), d * (-m))
  BY <1>5, TimesStands
<1>7. n * (-e) = -(n * e)
  BY <1>1
<1> QED BY <1>6, <1>7 DEF Over, f, r, s

-----------------------------------------------------------------------------
(***************************************************************************)
(* A piece of the curve is a line, and the contribution along it a         *)
(* parabola: p credits at the price x, s more for each unit of price, and  *)
(* a cost of e.                                                            *)
(***************************************************************************)
Along(p, s, x, b) == Plus(Q(p), Times(s, Minus(b, Q(x))))
Gain(p, s, x, e, b) == Times(Along(p, s, x, b), Minus(b, Q(e)))
Peak(p, s, x, e) == Over(Minus(Times(s, Q(e + x)), Q(p)), Times(Q(2), s))

\* A whole number stands over every denominator.
LEMMA WholeStands == \A n \in Int : \A d \in Nat \ {0} : Stands(Q(n), n * d, d)
<1> SUFFICES ASSUME NEW n \in Int, NEW d \in Nat \ {0} PROVE Stands(Q(n), n * d, d)
  OBVIOUS
<1>1. Stands(Q(n), n, 1)
  BY SmallFractions
<1>2. Stands(Q(n), n * d, 1 * d)
  BY <1>1, StandsExtended
<1> QED BY <1>2

\* What a point of the line stands for,
LEMMA AlongStands ==
  ASSUME NEW p \in Int, NEW s \in Frac, NEW x \in Int, NEW b, NEW n, NEW d, Stands(b, n, d)
  PROVE  Stands(Along(p, s, x, b), p * (s[2] * d) + s[1] * (n - x * d), s[2] * d)
<1>1. n \in Int /\ d \in Nat \ {0}
  BY DEF Stands
<1>2. s[1] \in Int /\ s[2] \in Nat \ {0} /\ s[2] * d \in Nat \ {0}
  BY <1>1, FracParts
<1>3. Stands(Minus(b, Q(x)), n - x * d, d)
  BY <1>1, WholeStands, MinusStands
<1>4. Stands(Times(s, Minus(b, Q(x))), s[1] * (n - x * d), s[2] * d)
  BY <1>3, StandsForItself, TimesStands
<1>5. Stands(Q(p), p * (s[2] * d), s[2] * d)
  BY <1>2, WholeStands
<1> QED BY <1>4, <1>5, PlusStands DEF Along

\* and of the parabola.
LEMMA GainStands ==
  ASSUME NEW p \in Int, NEW s \in Frac, NEW x \in Int, NEW e \in Int, NEW b, NEW n, NEW d,
         Stands(b, n, d)
  PROVE  Stands(Gain(p, s, x, e, b),
                (p * (s[2] * d) + s[1] * (n - x * d)) * (n - e * d), (s[2] * d) * d)
<1>1. n \in Int /\ d \in Nat \ {0}
  BY DEF Stands
<1>2. Stands(Minus(b, Q(e)), n - e * d, d)
  BY <1>1, WholeStands, MinusStands
<1> QED BY <1>2, AlongStands, TimesStands DEF Gain

\* Both are fractions.
LEMMA GainIsFraction ==
  ASSUME NEW p \in Int, NEW s \in Frac, NEW x \in Int, NEW e \in Int, NEW b \in Frac
  PROVE  Along(p, s, x, b) \in Frac /\ Gain(p, s, x, e, b) \in Frac
<1>1. Stands(b, b[1], b[2])
  BY StandsForItself
<1> QED BY <1>1, AlongStands, GainStands, Zenon DEF Stands

\* Two fractions have a common denominator.
LEMMA TwoStand ==
  ASSUME NEW a \in Frac, NEW b \in Frac
  PROVE  \E d \in Nat \ {0} : \E n, m \in Int : Stands(a, n, d) /\ Stands(b, m, d)
<1>1. PICK d \in Nat \ {0} : Shares(a, d) /\ Shares(b, d)
  BY CommonDenominator
<1> QED BY <1>1 DEF Shares

\* A line that falls reverses the order of prices, a line that climbs keeps it, and one that
\* is level has one value.
LEMMA AlongOrders ==
  ASSUME NEW p \in Int, NEW s \in Frac, NEW x \in Int, NEW a \in Frac, NEW b \in Frac
  PROVE  /\ s[1] < 0 => (Leq(a, b) <=> Leq(Along(p, s, x, b), Along(p, s, x, a)))
         /\ s[1] > 0 => (Leq(a, b) <=> Leq(Along(p, s, x, a), Along(p, s, x, b)))
         /\ s[1] = 0 => Leq(Along(p, s, x, a), Along(p, s, x, b))
<1>1. PICK d \in Nat \ {0}, n \in Int, m \in Int : Stands(a, n, d) /\ Stands(b, m, d)
  BY TwoStand
<1> DEFINE S == s[1]
           k == p * (s[2] * d)
           y == x * d
           u == n - y
           v == m - y
<1>2. S \in Int /\ k \in Int /\ y \in Int
  BY FracParts
<1>3. Leq(a, b) <=> u <= v
  <2>1. Leq(a, b) <=> n <= m
    BY <1>1, LeqSameStands
  <2> HIDE DEF y
  <2> QED BY <1>2, <2>1
<1>4. /\ Leq(Along(p, s, x, a), Along(p, s, x, b)) <=> k + S * u <= k + S * v
      /\ Leq(Along(p, s, x, b), Along(p, s, x, a)) <=> k + S * v <= k + S * u
  <2>1. Stands(Along(p, s, x, a), k + S * u, s[2] * d) /\ Stands(Along(p, s, x, b), k + S * v, s[2] * d)
    BY <1>1, AlongStands
  <2> HIDE DEF k, S, u, v
  <2> QED BY <2>1, LeqSameStands
<1>5. u \in Int /\ v \in Int
  BY <1>2
<1> HIDE DEF k, S, u, v
<1>6. /\ S < 0 => (u <= v <=> S * v <= S * u)
      /\ S > 0 => (u <= v <=> S * u <= S * v)
      /\ S = 0 => S * u <= S * v
  <2>1. CASE S > 0
    <3>1. S \in Nat \ {0} /\ S * u = u * S /\ S * v = v * S
      BY <1>2, <1>5, <2>1
    <3> QED BY <1>5, <2>1, <3>1, Cancel
  <2>2. CASE S < 0
    <3>1. -S \in Nat \ {0} /\ S * u = -(u * (-S)) /\ S * v = -(v * (-S))
      BY <1>2, <1>5, <2>2
    <3>2. u * (-S) <= v * (-S) <=> u <= v
      BY <1>5, <3>1, Cancel
    <3> DEFINE X == u * (-S)
               Y == v * (-S)
    <3>3. X \in Int /\ Y \in Int
      BY <1>2, <1>5
    <3>4. S * u = -X /\ S * v = -Y /\ (X <= Y <=> u <= v)
      BY <3>1, <3>2
    <3> HIDE DEF X, Y
    <3>5. u <= v <=> S * v <= S * u
      BY <3>3, <3>4
    <3> QED BY <1>2, <2>2, <3>5
  <2>3. CASE S = 0
    BY <1>5, <2>3
  <2> QED BY <1>2, <2>1, <2>2, <2>3
<1>7. S * u \in Int /\ S * v \in Int
  BY <1>2, <1>5
<1>8. /\ S < 0 => (Leq(a, b) <=> Leq(Along(p, s, x, b), Along(p, s, x, a)))
      /\ S > 0 => (Leq(a, b) <=> Leq(Along(p, s, x, a), Along(p, s, x, b)))
      /\ S = 0 => Leq(Along(p, s, x, a), Along(p, s, x, b))
  <2> DEFINE U == S * u
             V == S * v
  <2>1. U \in Int /\ V \in Int
    BY <1>7
  <2>2. /\ S < 0 => (u <= v <=> V <= U)
        /\ S > 0 => (u <= v <=> U <= V)
        /\ S = 0 => U <= V
    BY <1>6
  <2>3. /\ Leq(Along(p, s, x, a), Along(p, s, x, b)) <=> k + U <= k + V
        /\ Leq(Along(p, s, x, b), Along(p, s, x, a)) <=> k + V <= k + U
    BY <1>4
  <2> HIDE DEF U, V
  <2>4. /\ k + U <= k + V <=> U <= V
        /\ k + V <= k + U <=> V <= U
    BY <1>2, <2>1
  <2> QED BY <1>3, <2>2, <2>3, <2>4, Zenon
<1> QED BY <1>8 DEF S

\* Between two points of a line it is nowhere under both.
LEMMA AlongBetween ==
  ASSUME NEW p \in Int, NEW s \in Frac, NEW x \in Int, NEW a \in Frac, NEW b \in Frac, NEW c \in Frac,
         NEW t \in Frac, Leq(a, b), Leq(b, c), Leq(t, Along(p, s, x, a)), Leq(t, Along(p, s, x, c))
  PROVE  Leq(t, Along(p, s, x, b))
<1> DEFINE A == Along(p, s, x, a)
           B == Along(p, s, x, b)
           C == Along(p, s, x, c)
<1>1. A \in Frac /\ B \in Frac /\ C \in Frac
  BY GainIsFraction
<1>2. Leq(A, B) \/ Leq(C, B)
  <2>1. s[1] \in Int
    BY FracParts
  <2>2. CASE s[1] < 0
    BY <2>2, AlongOrders
  <2>3. CASE s[1] > 0
    BY <2>3, AlongOrders
  <2>4. CASE s[1] = 0
    BY <2>4, AlongOrders
  <2> QED BY <2>1, <2>2, <2>3, <2>4
<1>3. Leq(t, A) /\ Leq(t, C)
  OBVIOUS
<1> HIDE DEF A, B, C
<1>4. Leq(t, B)
  BY <1>1, <1>2, <1>3, LeqTransitive
<1> QED BY <1>4 DEF B

\* At the same price a line has the same value.
LEMMA AlongSame ==
  ASSUME NEW p \in Int, NEW s \in Frac, NEW x \in Int, NEW a \in Frac, NEW b \in Frac, Same(a, b)
  PROVE  Same(Along(p, s, x, a), Along(p, s, x, b))
<1>1. s[1] \in Int
  BY FracParts
<1>2. CASE s[1] < 0
  BY <1>2, AlongOrders DEF Same
<1>3. CASE s[1] > 0
  BY <1>3, AlongOrders DEF Same
<1>4. CASE s[1] = 0
  BY <1>4, AlongOrders DEF Same
<1> QED BY <1>1, <1>2, <1>3, <1>4

\* What two fractions have in common if they stand for the same.
LEMMA SameStands ==
  ASSUME NEW a, NEW b, NEW n, NEW d, NEW m, Stands(a, n, d), Stands(b, m, d), n = m
  PROVE  Same(a, b)
<1>1. n <= m /\ m <= n
  BY DEF Stands
<1> QED BY <1>1, LeqSameStands DEF Same

\* At the price where a line starts it has its first value,
LEMMA AlongStart ==
  ASSUME NEW p \in Int, NEW s \in Frac, NEW x \in Int
  PROVE  Same(Along(p, s, x, Q(x)), Q(p))
<1>1. Stands(Q(x), x, 1)
  BY SmallFractions
<1>2. s[1] \in Int /\ s[2] \in Nat \ {0}
  BY FracParts
<1>3. Stands(Along(p, s, x, Q(x)), p * (s[2] * 1) + s[1] * (x - x * 1), s[2] * 1)
  BY <1>1, AlongStands
<1>4. x - x * 1 = 0 /\ s[2] * 1 = s[2]
  BY <1>2
<1>5. p * (s[2] * 1) + s[1] * (x - x * 1) = p * s[2]
  BY <1>2, <1>4
<1>6. Stands(Along(p, s, x, Q(x)), p * s[2], s[2])
  BY <1>3, <1>4, <1>5
<1> QED BY <1>2, <1>6, WholeStands, SameStands

\* and where it arrives its last.
LEMMA AlongEnd ==
  ASSUME NEW p \in Int, NEW q \in Int, NEW x \in Int, NEW y \in Int, x < y
  PROVE  /\ <<q - p, y - x>> \in Frac
         /\ Same(Along(p, <<q - p, y - x>>, x, Q(y)), Q(q))
<1> DEFINE s == <<q - p, y - x>>
           d == y - x
           k == q - p
<1>1. k \in Int /\ d \in Nat \ {0}
  OBVIOUS
<1>2. s \in Frac /\ s[1] = k /\ s[2] = d
  <2> HIDE DEF k, d
  <2>1. s = <<k, d>>
    BY DEF k, d
  <2> HIDE DEF s
  <2> QED BY <1>1, <2>1, FracIs
<1> HIDE DEF s
<1>3. Stands(Q(y), y, 1)
  BY SmallFractions
<1>4. Stands(Along(p, s, x, Q(y)), p * (d * 1) + k * (y - x * 1), d * 1)
  <2> HIDE DEF k, d
  <2> QED BY <1>2, <1>3, AlongStands
<1>5. y - x * 1 = d /\ d * 1 = d
  OBVIOUS
<1>6. p * (d * 1) + k * (y - x * 1) = q * d
  <2>1. p * (d * 1) + k * (y - x * 1) = p * d + k * d
    BY <1>5
  <2>2. q = p + k
    OBVIOUS
  <2> HIDE DEF k, d
  <2>3. (p + k) * d = p * d + k * d
    BY <1>1
  <2> QED BY <2>1, <2>2, <2>3
<1> HIDE DEF k, d
<1>7. Stands(Along(p, s, x, Q(y)), q * d, d)
  BY <1>4, <1>5, <1>6
<1>8. Same(Along(p, s, x, Q(y)), Q(q))
  BY <1>1, <1>7, WholeStands, SameStands
<1> QED BY <1>2, <1>8 DEF s

\* Where a line that falls crosses a target it is at the target.
LEMMA Crossing ==
  ASSUME NEW p \in Int, NEW s \in Frac, NEW x \in Int, NEW t \in Frac, s[1] # 0
  PROVE  /\ Plus(Q(x), Over(Minus(t, Q(p)), s)) \in Frac
         /\ Same(Along(p, s, x, Plus(Q(x), Over(Minus(t, Q(p)), s))), t)
<1> DEFINE n == t[1]
           d == t[2]
           S == s[1]
           f == s[2]
           u == n - p * d
           c == Plus(Q(x), Over(Minus(t, Q(p)), s))
<1>1. n \in Int /\ d \in Nat \ {0} /\ Stands(t, n, d)
  BY FracParts, StandsForItself
<1>2. S \in Int /\ S # 0 /\ f \in Nat \ {0} /\ Stands(s, S, f)
  BY FracParts, StandsForItself
<1>3. Stands(Minus(t, Q(p)), u, d)
  BY <1>1, WholeStands, MinusStands
<1>4. u \in Int
  BY <1>1
<1>u. u + p * d = n
  BY <1>1
<1> HIDE DEF n, d, S, f, u
<1>5. \E w \in Int, g \in Nat \ {0} : Stands(Over(Minus(t, Q(p)), s), w, d * g) /\ S * w = u * f * g
  <2>1. CASE S > 0
    <3>1. Stands(Over(Minus(t, Q(p)), s), u * f, d * S)
      BY <1>2, <1>3, <2>1, OverStands
    <3>2. u * f \in Int /\ S \in Nat \ {0} /\ S * (u * f) = u * f * S
      BY <1>2, <1>4, <2>1
    <3> QED BY <3>1, <3>2
  <2>2. CASE S < 0
    <3>1. Stands(Over(Minus(t, Q(p)), s), -(u * f), d * (-S))
      BY <1>2, <1>3, <2>2, OverNegative
    <3>2. -(u * f) \in Int /\ -S \in Nat \ {0} /\ S * (-(u * f)) = u * f * (-S)
      BY <1>2, <1>4, <2>2
    <3> QED BY <3>1, <3>2
  <2> QED BY <1>2, <2>1, <2>2
<1>6. PICK w \in Int, g \in Nat \ {0} : Stands(Over(Minus(t, Q(p)), s), w, d * g) /\ S * w = u * f * g
  BY <1>5
<1>7. d * g \in Nat \ {0}
  BY <1>1
<1>8. Stands(c, x * (d * g) + w, d * g)
  BY <1>6, <1>7, WholeStands, PlusStands
<1> HIDE DEF c
<1>9. Stands(Along(p, s, x, c), p * (f * (d * g)) + S * ((x * (d * g) + w) - x * (d * g)), f * (d * g))
  BY <1>8, AlongStands DEF S, f
<1>10. p * (f * (d * g)) + S * ((x * (d * g) + w) - x * (d * g)) = n * (f * g)
  <2>1. (x * (d * g) + w) - x * (d * g) = w
    <3> DEFINE z == x * (d * g)
    <3>1. z \in Int
      BY <1>7
    <3> HIDE DEF z
    <3>2. (z + w) - z = w
      BY <3>1
    <3> QED BY <3>2 DEF z
  <2>2. p * (f * (d * g)) = (p * d) * (f * g)
    BY <1>1, <1>2
  <2>3. u * f * g = u * (f * g)
    BY <1>2, <1>4
  <2> DEFINE h == f * g
             y == p * d
  <2>4. h \in Int /\ y \in Int
    BY <1>1, <1>2
  <2>5. u + y = n
    BY <1>u
  <2> HIDE DEF h, y
  <2>6. y * h + u * h = n * h
    <3>1. y * h + u * h = (u + y) * h
      BY <1>4, <2>4
    <3> QED BY <2>5, <3>1
  <2>7. p * (f * (d * g)) = y * h /\ u * f * g = u * h /\ n * (f * g) = n * h
    BY <2>2, <2>3 DEF h, y
  <2> QED BY <1>6, <2>1, <2>6, <2>7
<1>11. Stands(Along(p, s, x, c), n * (f * g), d * (f * g))
  <2>1. f * (d * g) = d * (f * g)
    BY <1>1, <1>2
  <2> QED BY <1>9, <1>10, <2>1
<1>12. Stands(t, n * (f * g), d * (f * g))
  <2>1. f * g \in Nat \ {0}
    BY <1>2
  <2> QED BY <1>1, <2>1, StandsExtended
<1>13. Same(Along(p, s, x, c), t)
  BY <1>11, <1>12, SameStands
<1> QED BY <1>8, <1>13 DEF c, Stands

\* Three fractions have a common denominator.
LEMMA ThreeStand ==
  ASSUME NEW a \in Frac, NEW b \in Frac, NEW c \in Frac
  PROVE  \E d \in Nat \ {0} : \E n, m, k \in Int : Stands(a, n, d) /\ Stands(b, m, d) /\ Stands(c, k, d)
<1>1. PICK d \in Nat \ {0} : Shares(a, d) /\ Shares(b, d) /\ Shares(c, d)
  BY CommonDenominator
<1> QED BY <1>1 DEF Shares

\* What the peak of a parabola stands for.
LEMMA PeakIs ==
  ASSUME NEW p \in Int, NEW s \in Frac, NEW x \in Int, NEW e \in Int, s[1] < 0
  PROVE  /\ Peak(p, s, x, e) \in Frac
         /\ \A n, d : Stands(Peak(p, s, x, e), n, d) => n * (2 * s[1]) = (s[1] * (e + x) - p * s[2]) * d
<1> DEFINE S == s[1]
           f == s[2]
           u == S * (e + x) - p * f
           v == Peak(p, s, x, e)
<1>1. S \in Int /\ S < 0 /\ f \in Nat \ {0} /\ Stands(s, S, f)
  BY FracParts, StandsForItself
<1>2. u \in Int
  BY <1>1
<1>3. Stands(Minus(Times(s, Q(e + x)), Q(p)), u, f)
  <2>1. Stands(Q(e + x), e + x, 1)
    BY SmallFractions
  <2>2. Stands(Times(s, Q(e + x)), S * (e + x), f * 1)
    BY <1>1, <2>1, TimesStands
  <2>3. f * 1 = f
    BY <1>1
  <2> HIDE DEF S, f
  <2>4. Stands(Q(p), p * f, f)
    BY <1>1, WholeStands
  <2> QED BY <2>2, <2>3, <2>4, MinusStands
<1>4. Stands(Times(Q(2), s), 2 * S, f)
  <2>1. Stands(Q(2), 2, 1)
    BY SmallFractions
  <2>2. Stands(Times(Q(2), s), 2 * S, 1 * f)
    BY <1>1, <2>1, TimesStands
  <2>3. 1 * f = f
    BY <1>1
  <2> QED BY <2>2, <2>3
<1>5. Stands(v, -(u * f), f * (-(2 * S)))
  <2>1. 2 * S < 0
    BY <1>1
  <2> HIDE DEF u, S, f
  <2> QED BY <1>3, <1>4, <2>1, OverNegative DEF Peak
<1> HIDE DEF u, S, f, v
<1>6. v \in Frac
  BY <1>5 DEF Stands
<1>7. ASSUME NEW n, NEW d, Stands(v, n, d)
      PROVE  n * (2 * S) = u * d
  <2> DEFINE g == v[1]
             h == v[2]
  <2>1. /\ g \in Int /\ h \in Nat \ {0} /\ n \in Int /\ d \in Nat \ {0}
        /\ g * d = n * h
        /\ g * (f * (-(2 * S))) = (-(u * f)) * h
    BY <1>5, <1>6, <1>7, FracParts DEF Stands
  <2> HIDE DEF g, h
  <2>2. (n * (2 * S)) * (h * f) = (u * d) * (h * f)
    <3>1. (n * (2 * S)) * (h * f) = -((n * h) * (f * (-(2 * S))))
      BY <1>1, <2>1
    <3>2. (g * d) * (f * (-(2 * S))) = (g * (f * (-(2 * S)))) * d
      BY <1>1, <2>1
    <3>3. -(((-(u * f)) * h) * d) = (u * d) * (h * f)
      BY <1>1, <1>2, <2>1
    <3> QED BY <2>1, <3>1, <3>2, <3>3
  <2>3. n * (2 * S) \in Int /\ u * d \in Int /\ h * f \in Nat \ {0}
    BY <1>1, <1>2, <2>1
  <2> QED BY <2>2, <2>3, Cancel
<1> QED BY <1>6, <1>7 DEF v, u, S, f

\* A parabola around its peak.
LEMMA SquareForm ==
  ASSUME NEW k \in Int, NEW S \in Int, NEW V \in Int, NEW y \in Int, NEW z \in Int, NEW A \in Int,
         V * (2 * S) = S * (z + y) - k
  PROVE  (k + S * (A - y)) * (A - z) = S * ((A - V) * (A - V)) - S * ((z - V) * (z - V))
<1>1. k = S * (z + y) - V * (2 * S)
  <2> DEFINE m == S * (z + y)
             n == V * (2 * S)
  <2>1. m \in Int /\ n \in Int /\ n = m - k
    OBVIOUS
  <2> HIDE DEF m, n
  <2>2. k = m - n
    BY <2>1
  <2> QED BY <2>2 DEF m, n
<1>2. k + S * (A - y) = S * (A + z - 2 * V)
  BY <1>1
<1>3. (S * (A + z - 2 * V)) * (A - z) = S * ((A - V) * (A - V)) - S * ((z - V) * (z - V))
  OBVIOUS
<1> QED BY <1>2, <1>3

\* The nearer to its peak, the greater.
LEMMA SquareOrder ==
  ASSUME NEW S \in Int, S < 0, NEW i \in Int, NEW j \in Int, NEW w \in Int,
         (0 <= j /\ j <= i) \/ (i <= j /\ j <= 0)
  PROVE  S * (i * i) - w <= S * (j * j) - w
<1>1. j * j <= i * i
  <2>1. CASE 0 <= j /\ j <= i
    <3>1. j * j <= j * i /\ j * i <= i * i
      BY <2>1
    <3> QED BY <3>1
  <2>2. CASE i <= j /\ j <= 0
    <3> DEFINE a == -i
               b == -j
    <3>1. a \in Nat /\ b \in Nat /\ b <= a
      BY <2>2
    <3>2. a * a = i * i /\ b * b = j * j
      OBVIOUS
    <3> HIDE DEF a, b
    <3>3. b * b <= b * a /\ b * a <= a * a
      BY <3>1
    <3> QED BY <3>1, <3>2, <3>3
  <2> QED BY <2>1, <2>2
<1> DEFINE m == i * i
           n == j * j
           T == -S
<1>2. m \in Int /\ n \in Int /\ n <= m /\ T \in Nat \ {0}
  BY <1>1
<1>3. S * m = -(m * T) /\ S * n = -(n * T)
  <2> HIDE DEF m, n
  <2> QED BY <1>2
<1> HIDE DEF m, n, T
<1>4. n * T <= m * T /\ n * T \in Int /\ m * T \in Int
  BY <1>2, Cancel
<1>5. S * m - w <= S * n - w
  BY <1>3, <1>4
<1> QED BY <1>5 DEF m, n

\* Toward its peak the contribution rises, beyond it falls.
LEMMA GainOrders ==
  ASSUME NEW p \in Int, NEW s \in Frac, NEW x \in Int, NEW e \in Int, s[1] < 0,
         NEW a \in Frac, NEW c \in Frac,
         \/ Leq(a, c) /\ Leq(c, Peak(p, s, x, e))
         \/ Leq(Peak(p, s, x, e), c) /\ Leq(c, a)
  PROVE  Leq(Gain(p, s, x, e, a), Gain(p, s, x, e, c))
<1> DEFINE v == Peak(p, s, x, e)
           S == s[1]
           f == s[2]
<1>1. v \in Frac
  BY PeakIs
<1> HIDE DEF v
<1>2. PICK d \in Nat \ {0}, A \in Int, C \in Int, V \in Int :
        Stands(a, A, d) /\ Stands(c, C, d) /\ Stands(v, V, d)
  BY <1>1, ThreeStand
<1>3. S \in Int /\ S < 0 /\ f \in Nat \ {0}
  BY FracParts
<1> DEFINE k == p * (f * d)
           y == x * d
           z == e * d
<1>4. k \in Int /\ y \in Int /\ z \in Int
  BY <1>3
<1>5. V * (2 * S) = S * (z + y) - k
  <2>1. V * (2 * S) = (S * (e + x) - p * f) * d
    BY <1>2, PeakIs DEF v
  <2> HIDE DEF S, f
  <2>2. (S * (e + x) - p * f) * d = S * (e * d + x * d) - p * (f * d)
    BY <1>3
  <2> QED BY <2>1, <2>2
<1>6. /\ Stands(Gain(p, s, x, e, a), (k + S * (A - y)) * (A - z), (f * d) * d)
      /\ Stands(Gain(p, s, x, e, c), (k + S * (C - y)) * (C - z), (f * d) * d)
  BY <1>2, GainStands
<1>7. /\ Leq(a, c) <=> A <= C
      /\ Leq(c, a) <=> C <= A
      /\ Leq(c, v) <=> C <= V
      /\ Leq(v, c) <=> V <= C
  BY <1>2, LeqSameStands
<1>8. (A <= C /\ C <= V) \/ (V <= C /\ C <= A)
  BY <1>7 DEF v
<1> HIDE DEF S, f, k, y, z
<1> DEFINE w == S * ((z - V) * (z - V))
<1>9. /\ (k + S * (A - y)) * (A - z) = S * ((A - V) * (A - V)) - w
      /\ (k + S * (C - y)) * (C - z) = S * ((C - V) * (C - V)) - w
  BY <1>3, <1>4, <1>5, SquareForm
<1>10. w \in Int
  BY <1>3, <1>4
<1> HIDE DEF w
<1>11. S * ((A - V) * (A - V)) - w <= S * ((C - V) * (C - V)) - w
  <2>1. A - V \in Int /\ C - V \in Int
        /\ ((0 <= C - V /\ C - V <= A - V) \/ (A - V <= C - V /\ C - V <= 0))
    BY <1>8
  <2> QED BY <1>3, <1>10, <2>1, SquareOrder
<1> QED BY <1>6, <1>9, <1>11, LeqSameStands

\* Where the curve is level the contribution rises.
LEMMA GainLevel ==
  ASSUME NEW p \in Nat, NEW s \in Frac, NEW x \in Int, NEW e \in Int, s[1] = 0,
         NEW a \in Frac, NEW c \in Frac, Leq(a, c)
  PROVE  Leq(Gain(p, s, x, e, a), Gain(p, s, x, e, c))
<1>1. PICK d \in Nat \ {0}, A \in Int, C \in Int : Stands(a, A, d) /\ Stands(c, C, d)
  BY TwoStand
<1> DEFINE f == s[2]
           k == p * (f * d)
           z == e * d
           y == x * d
<1>2. f \in Nat \ {0}
  BY FracParts
<1>3. k \in Nat /\ z \in Int /\ y \in Int
  BY <1>2
<1>4. /\ Stands(Gain(p, s, x, e, a), (k + 0 * (A - y)) * (A - z), (f * d) * d)
      /\ Stands(Gain(p, s, x, e, c), (k + 0 * (C - y)) * (C - z), (f * d) * d)
  <2> DEFINE S == s[1]
  <2>1. p \in Int
    OBVIOUS
  <2>2. /\ Stands(Gain(p, s, x, e, a), (k + S * (A - y)) * (A - z), (f * d) * d)
        /\ Stands(Gain(p, s, x, e, c), (k + S * (C - y)) * (C - z), (f * d) * d)
    BY <1>1, <2>1, GainStands
  <2>3. S = 0
    OBVIOUS
  <2> HIDE DEF S, k, z, y, f
  <2> QED BY <2>2, <2>3
<1>5. A <= C
  BY <1>1, LeqSameStands
<1> HIDE DEF k, z, y, f
<1>6. (k + 0 * (A - y)) * (A - z) <= (k + 0 * (C - y)) * (C - z)
  <2>1. k + 0 * (A - y) = k /\ k + 0 * (C - y) = k
    BY <1>3
  <2>2. k * (A - z) <= k * (C - z)
    BY <1>3, <1>5
  <2> QED BY <2>1, <2>2
<1> QED BY <1>4, <1>6, LeqSameStands
=============================================================================
