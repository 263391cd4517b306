------------------------------ MODULE Evidence ------------------------------
(***************************************************************************)
(* What the price models share: exact arithmetic, where the code computes  *)
(* in floating point, and the evidence ladder (p2w/evidence.py,            *)
(* contracts.py): how much is known before a cutoff decides what may be    *)
(* said.  A tick of time is a year, the half-life of an observation.       *)
(***************************************************************************)
EXTENDS Integers, Sequences, FiniteSets, FiniteSetsExt

(***************************************************************************)
(* A number is <<numerator, positive denominator>>, in lowest terms.       *)
(***************************************************************************)
Frac == Int \X (Nat \ {0})
Gcd[p \in Nat \X Nat] == IF p[2] = 0 THEN p[1] ELSE Gcd[<<p[2], p[1] % p[2]>>]
Magnitude(n) == IF n < 0 THEN -n ELSE n

Q(n) == <<n, 1>>
Fraction(n, d) ==
  LET g == Gcd[<<Magnitude(n), Magnitude(d)>>]
  IN <<(IF d < 0 THEN -n ELSE n) \div g, Magnitude(d) \div g>>

\* Factors in common are taken out before multiplying: TLC's integers have 32 bits.
Leq(a, b) ==
  LET g == Gcd[<<a[2], b[2]>>] IN a[1] * (b[2] \div g) <= b[1] * (a[2] \div g)
Less(a, b) == ~Leq(b, a)
Plus(a, b) ==
  LET g == Gcd[<<a[2], b[2]>>]
  IN Fraction(a[1] * (b[2] \div g) + b[1] * (a[2] \div g), a[2] * (b[2] \div g))
Minus(a, b) == Plus(a, <<-b[1], b[2]>>)
Times(a, b) ==
  LET left == Fraction(a[1], b[2])
      right == Fraction(b[1], a[2])
  IN <<left[1] * right[1], left[2] * right[2]>>
Over(a, b) == Times(a, Fraction(b[2], b[1]))
Power(a, n) == FoldSet(LAMBDA i, product : Times(product, a), Q(1), 1..n)

Lower(a, b) == IF Leq(a, b) THEN a ELSE b
Higher(a, b) == IF Leq(a, b) THEN b ELSE a
Least(S) == CHOOSE a \in S : \A b \in S : Leq(a, b)
Greatest(S) == CHOOSE a \in S : \A b \in S : Leq(b, a)

(***************************************************************************)
(* The ladder.                                                             *)
(***************************************************************************)
Tiers == {"A", "B", "C", "D"}
AllowsCompetitor(tier) == tier \in {"A", "B"}
AllowsMarket(tier) == tier # "D"

\* Twice the middle of the ages of some observations: half of them are no older than the one
\* and no younger than the other of the two that it is the sum of.
TwiceMedian(ages) ==
  LET seen == DOMAIN ages
      half(S) == 2 * Cardinality(S) >= Cardinality(seen)
  IN Min({ages[o] : o \in {o \in seen : half({p \in seen : ages[p] <= ages[o]})}})
     + Max({ages[o] : o \in {o \in seen : half({p \in seen : ages[p] >= ages[o]})}})

\* freshness_score: 100 today, nothing at two years.
Freshness(ages) == IF DOMAIN ages = {} THEN 0 ELSE Max({0, 100 - 25 * Max({0, TwiceMedian(ages)})})

\* decayed_count, which round()s only its sixth place.
Decayed(age) == Fraction(1, 2 ^ Max({0, age}))
DecayedCount(ages) == FoldSet(LAMBDA o, sum : Plus(sum, Decayed(ages[o])), Q(0), DOMAIN ages)

\* _similarity_confidence
SimilarityConfidence(n, sameAgency, onActivity) ==
  CASE n = 0 -> 0
    [] n > 0 /\ ~onActivity -> 45
    [] OTHER -> 55 + (45 * sameAgency) \div n

\* classify_tier: the tier, and why a competitor's price may not be stated.
\* `minimum` are the comparables that tiers A, B and C ask for, `recent` the recent
\* observations of a competitor that A and B ask for.
Classify(minimum, recent, n, effective, similarity, fresh) ==
  CASE n = 0 -> [tier |-> "D", why |-> "NO_COMPARABLE_TENDERS"]
    [] n > 0 /\ fresh < 15 -> [tier |-> "D", why |-> "STALE_DATA"]
    [] n > 0 /\ fresh >= 15 /\ similarity < 25 -> [tier |-> "D", why |-> "LOW_SIMILARITY"]
    [] OTHER ->
         IF Leq(Q(recent.A), effective) /\ n >= minimum.A /\ similarity >= 60 /\ fresh >= 50
         THEN [tier |-> "A", why |-> "none"]
         ELSE IF Leq(Q(recent.B), effective) /\ n >= minimum.B THEN [tier |-> "B", why |-> "none"]
         ELSE IF n >= minimum.C THEN [tier |-> "C", why |-> "INSUFFICIENT_EVIDENCE"]
         ELSE [tier |-> "D", why |-> "INSUFFICIENT_EVIDENCE"]

\* _grade_market: no vendor's history enters, so tier C is the most it can be.
MarketGrade(minimum, recent, ages, sameAgency, onActivity) ==
  LET n == Cardinality(DOMAIN ages)
      like == SimilarityConfidence(n, sameAgency, onActivity)
      level == Classify(minimum, recent, n, Q(0), like, Freshness(ages))
  IN [n |-> n, fresh |-> Freshness(ages), like |-> like, tier |-> level.tier, why |-> level.why]
=============================================================================
