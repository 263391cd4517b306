--------------------------- MODULE CompetitorBand ---------------------------
(***************************************************************************)
(* What a named competitor is likely to bid (p2w/competitor.py): its       *)
(* offers on awarded tenders, as log ratios to the winning price, are      *)
(* graded, fitted, and pooled toward the prior of its category.  The three *)
(* reads are apart in time, while harvests replace the awards and so move  *)
(* the moment an offer became knowable.  Prices stay in log space: the     *)
(* model's SAR figures are a baseline times their exponential.             *)
(***************************************************************************)
EXTENDS Evidence

CONSTANTS
  Minimum,       \* comparables that tiers A, B and C ask for, [A, B, C : Nat]
  Effective,     \* recent observations of a competitor that tiers A and B ask for, [A, B : Nat]
  Offers,        \* awarded offers, the subject tender's own among them
  Corpora,       \* what they may be: [Offers -> [rival, same, own : BOOLEAN, ratio : Int]]
  Backgrounds,   \* the market's evidence: [n, like, fresh : Nat, priced : BOOLEAN]
  K,             \* observations at which history and prior weigh the same
  MinPrior,      \* observations a prior needs
  MinVariance,   \* a fraction
  MaxClock,      \* bound: years
  MaxHarvests    \* bound: visits of the award harvest

VARIABLES clock, corpus, at, market, harvests, asked, answer

vars == <<clock, corpus, at, market, harvests, asked, answer>>

Nothing == [step |-> "none"]
NoFit == [n |-> Q(0)]

(***************************************************************************)
(* The samples at a cutoff.                                                *)
(***************************************************************************)
Knowable(cutoff) == {o \in Offers : at[o] # 0 /\ at[o] < cutoff /\ ~corpus[o].own}
History(cutoff) == {o \in Knowable(cutoff) : corpus[o].rival}
Weight(o, cutoff) ==
  Times(Decayed(cutoff - at[o]), IF corpus[o].same THEN Q(1) ELSE <<1, 2>>)

\* category_prior_sample: the activity, or everything when that is thin.
Prior(cutoff) ==
  LET category == {o \in Knowable(cutoff) : corpus[o].same}
  IN IF Cardinality(category) < MinPrior THEN Knowable(cutoff) ELSE category

Total(terms) == FoldSet(LAMBDA o, sum : Plus(sum, terms[o]), Q(0), DOMAIN terms)
Square(a) == Times(a, a)

\* fit_log_ratios: mean, variance and effective size of a weighted sample.
Fit(weight) ==
  LET ratio(o) == Q(corpus[o].ratio)
      total == Total(weight)
      squares == Total([o \in DOMAIN weight |-> Square(weight[o])])
      mean == Over(Total([o \in DOMAIN weight |-> Times(weight[o], ratio(o))]), total)
      spread == Total([o \in DOMAIN weight |-> Times(weight[o], Square(Minus(ratio(o), mean)))])
      freedom == Minus(total, Over(squares, total))
  IN [mean |-> mean, n |-> Over(Square(total), squares),
      variance |-> IF Leq(freedom, Q(0)) THEN Q(0) ELSE Over(spread, freedom)]

(***************************************************************************)
(* shrink: the pooled mean, and the variance of the mixture, floored.      *)
(***************************************************************************)
Pooling(n) == Over(n, Plus(n, Q(K)))
\* Mutant: without the disagreement of the two means, and without the floor.
Pooled_Averaged(own, prior) ==
  LET w == Pooling(own.n)
      rest == Minus(Q(1), w)
      mixed == Plus(Times(w, own.variance), Times(rest, prior.variance))
  IN [mean |-> Plus(Times(w, own.mean), Times(rest, prior.mean)),
      variance |-> Higher(mixed, MinVariance)]
Pooled(own, prior) ==
  LET w == Pooling(own.n)
      rest == Minus(Q(1), w)
      mixed == Plus(Plus(Times(w, own.variance), Times(rest, prior.variance)),
                    Times(Times(w, rest), Square(Minus(own.mean, prior.mean))))
      floored == IF Less(w, <<3, 4>>) THEN Higher(mixed, prior.variance) ELSE mixed
  IN [mean |-> Plus(Times(w, own.mean), Times(rest, prior.mean)),
      variance |-> Higher(floored, MinVariance)]

\* Tier B widens the deviations from the median by 1.4.
Widened(variance, tier) == IF tier = "B" THEN Times(variance, <<49, 25>>) ELSE variance

(***************************************************************************)
(* competitor_quantiles.                                                   *)
(***************************************************************************)
\* competitor_evidence: the competitor's own ages, or no freshness of its own.
Grade(cutoff) ==
  LET ages == [o \in History(cutoff) |-> cutoff - at[o]]
      fresh == IF History(cutoff) = {} THEN market.fresh ELSE Freshness(ages)
  IN Classify(Minimum, Effective, market.n, DecayedCount(ages), market.like, fresh)

Suppressed(why) == [step |-> "done", why |-> why]

Init ==
  /\ clock = 1
  /\ corpus \in Corpora /\ market \in Backgrounds
  /\ at = [o \in Offers |-> 0]
  /\ harvests = 0
  /\ asked = Nothing /\ answer = Nothing

Tick ==
  /\ answer = Nothing /\ clock < MaxClock
  /\ clock' = clock + 1
  /\ UNCHANGED <<corpus, at, market, harvests, asked, answer>>

\* store_awarding: the award row is new at every visit.
Harvest(o) ==
  /\ answer = Nothing /\ harvests < MaxHarvests /\ at[o] # clock
  /\ harvests' = harvests + 1
  /\ at' = [at EXCEPT ![o] = clock]
  /\ UNCHANGED <<clock, corpus, market, asked, answer>>

\* Gates 1 and 2: the ladder, and the market's median.
Assess(cutoff) ==
  /\ asked = Nothing /\ answer = Nothing
  /\ LET tier == Grade(cutoff).tier IN
     IF AllowsCompetitor(tier) /\ market.priced
     THEN asked' = [step |-> "fit", cutoff |-> cutoff, tier |-> tier] /\ UNCHANGED answer
     ELSE /\ answer' = Suppressed(IF AllowsCompetitor(tier) THEN "MODEL_UNAVAILABLE"
                                ELSE "INSUFFICIENT_EVIDENCE")
          /\ UNCHANGED asked
  /\ UNCHANGED <<clock, corpus, at, market, harvests>>

\* Gate 3, first read: the competitor's own offers.
ReadHistory ==
  /\ asked.step = "fit"
  /\ LET S == History(asked.cutoff) IN
     IF S = {} THEN answer' = Suppressed("INSUFFICIENT_EVIDENCE") /\ asked' = Nothing
     ELSE /\ asked' = [step |-> "pool", cutoff |-> asked.cutoff, tier |-> asked.tier,
                           own |-> Fit([o \in S |-> Weight(o, asked.cutoff)])]
          /\ UNCHANGED answer
  /\ UNCHANGED <<clock, corpus, at, market, harvests>>

\* Second read: the prior; then fit, pool, transform.
ReadPrior ==
  /\ asked.step = "pool"
  /\ LET S == Prior(asked.cutoff)
         prior == Fit([o \in S |-> Decayed(asked.cutoff - at[o])])
         pooled == Pooled(asked.own, prior)
     IN answer' = IF Cardinality(S) < MinPrior THEN Suppressed("NO_COMPARABLE_TENDERS")
                  ELSE [step |-> "done", why |-> "none", tier |-> asked.tier, own |-> asked.own,
                        prior |-> prior, mean |-> pooled.mean,
                        variance |-> Widened(pooled.variance, asked.tier)]
  /\ asked' = Nothing
  /\ UNCHANGED <<clock, corpus, at, market, harvests>>

Next ==
  \/ Tick
  \/ \E o \in Offers : Harvest(o)
  \/ \E cutoff \in 1..clock : Assess(cutoff)
  \/ ReadHistory
  \/ ReadPrior

Spec == Init /\ [][Next]_vars

TypeOK ==
  /\ clock \in 1..MaxClock /\ harvests \in 0..MaxHarvests
  /\ corpus \in Corpora /\ market \in Backgrounds
  /\ at \in [Offers -> 0..MaxClock]
  /\ asked.step \in {"none", "fit", "pool"} /\ answer.step \in {"none", "done"}

(***************************************************************************)
(* Properties.                                                             *)
(***************************************************************************)
\* A published competitor band lies between its history and its category, says
\* so when they disagree (its variance is that of the mixture: the second
\* moment about any point is the weighted one of the two), and is never tighter
\* than the category while history weighs less than three quarters.
PoolingIsHonest ==
  answer # Nothing /\ answer.why = "none" =>
    LET own == answer.own
        prior == answer.prior
        moment(f, x) == Plus(f.variance, Square(Minus(f.mean, x)))
        w == Pooling(own.n)
        x == prior.mean
    IN /\ Leq(Lower(own.mean, prior.mean), answer.mean)
       /\ Leq(answer.mean, Higher(own.mean, prior.mean))
       /\ Less(w, <<3, 4>>) => Leq(prior.variance, answer.variance)
       /\ Leq(MinVariance, answer.variance)
       /\ Leq(Plus(Times(w, moment(own, x)), Times(Minus(Q(1), w), moment(prior, x))),
              moment(answer, x))
       /\ AllowsCompetitor(answer.tier)

(***************************************************************************)
(* Inductive: the tier and the fit of its own offers that a band is drawn  *)
(* from, however the record moved between the reads.                       *)
(***************************************************************************)
Fitted(f) ==
  /\ f.mean \in Frac
  /\ f.n \in Frac /\ f.n[1] > 0
  /\ f.variance \in Frac /\ f.variance[1] >= 0

PoolingInv ==
  /\ TypeOK
  /\ asked # Nothing => asked.cutoff \in 1..clock /\ AllowsCompetitor(asked.tier)
  /\ asked.step = "pool" => Fitted(asked.own)
  /\ PoolingIsHonest
=============================================================================
