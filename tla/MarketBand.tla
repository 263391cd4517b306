----------------------------- MODULE MarketBand -----------------------------
(***************************************************************************)
(* Where the market will land (p2w/market.py, similarity.py, indices.py):  *)
(* awarded tenders like the subject are graded as evidence, then fetched   *)
(* again, scored, restated in the money of the cutoff and turned into      *)
(* weighted quantiles.  Awards come and go under the two reads, as the     *)
(* harvest stores them.  A similarity component is the constant that the   *)
(* texts of the two tenders give.                                          *)
(***************************************************************************)
EXTENDS Evidence

CONSTANTS
  Minimum,       \* comparables that tiers A, B and C ask for, [A, B, C : Nat]
  Effective,     \* recent observations of a competitor that tiers A and B ask for, [A, B : Nat]
  Subjects,      \* dates of the subject: [opens, last, published : year, 0 absent; active : BOOLEAN]
  Ids,           \* comparable tenders, by id
  Markets,       \* what they may be, a set of [Ids -> [opened : year, activity, agency, scale,
                 \* rest : 0..100, book : BOOLEAN]]
  Values,        \* award values
  Levels,        \* the price index by year
  Growth,        \* the assumed yearly growth without an index, a fraction
  Limit,         \* comparables that retrieval keeps
  MaxClock,      \* bound: years
  MaxHarvests    \* bound: visits of the award harvest

VARIABLES
  clock,
  subject,
  profile,       \* a member of Markets
  outcome,       \* year and value of the award as it was decided, by id
  award,         \* awards: value and created_at, NoAward before the first harvest
  series,        \* years in price_indices
  harvests,
  asked,         \* the request between its two reads
  answer         \* the prediction

vars == <<clock, subject, profile, outcome, award, series, harvests, asked, answer>>

NoAward == [value |-> 0, at |-> 0]
Nothing == [cutoff |-> 0]

(***************************************************************************)
(* The cutoff.                                                             *)
(***************************************************************************)
FirstOf(dates, otherwise) ==
  LET given == {i \in DOMAIN dates : dates[i] # 0}
  IN IF given = {} THEN otherwise ELSE dates[Min(given)]
\* evidence.resolve_as_of and similarity.point_in_time, 0 when no date is known.
ResolveAsOf(t) == FirstOf(<<t.opens, t.last>>, clock)
PointInTime(t) == FirstOf(<<t.opens, t.last, t.published>>, 0)
Cutoff(asOf) ==
  IF asOf # 0 THEN asOf
  ELSE IF PointInTime(subject) = 0 THEN ResolveAsOf(subject)
  ELSE Min({ResolveAsOf(subject), PointInTime(subject)})

(***************************************************************************)
(* Grading: awards in the subject's activity, or of its agency when it has *)
(* none, that were stored before the cutoff.                               *)
(***************************************************************************)
Known(c, cutoff) == award[c] # NoAward /\ award[c].at < cutoff
Graded(cutoff) ==
  {c \in Ids : /\ Known(c, cutoff)
               /\ IF subject.active THEN profile[c].activity = 100 ELSE profile[c].agency = 100}
Grade(cutoff) ==
  MarketGrade(Minimum, Effective, [c \in Graded(cutoff) |-> cutoff - award[c].at],
              Cardinality({c \in Graded(cutoff) : profile[c].agency = 100}), subject.active)

(***************************************************************************)
(* Retrieval: weights 30 activity, 15 agency, 20 scale (of the booklet     *)
(* prices: the subject's own award is stripped), and 35 region, duration   *)
(* and wording.                                                            *)
(***************************************************************************)
Score(p) == (30 * (IF subject.active THEN p.activity ELSE 0) + 15 * p.agency
             + 20 * (IF p.book THEN p.scale ELSE 50) + 35 * p.rest) \div 100
Excluded(c, cutoff) ==
  \/ profile[c].opened = 0 \/ profile[c].opened >= cutoff    \* future_relative_to_as_of
  \/ award[c] = NoAward
  \/ profile[c].book /\ profile[c].scale < 15
Ahead(c, d) == Score(profile[c]) > Score(profile[d]) \/ (Score(profile[c]) = Score(profile[d]) /\ c <= d)
Similar(cutoff) ==
  LET eligible == {c \in Ids : ~Excluded(c, cutoff)}
  IN {c \in eligible : Cardinality({d \in eligible : Ahead(d, c)}) <= Limit}

(***************************************************************************)
(* The price index: a year's level is published in the next one; the       *)
(* trailing year carries the last level forward.                           *)
(***************************************************************************)
Published(cutoff) == {y \in series : y < cutoff}
Level(y, cutoff) ==
  LET known == Published(cutoff)
      last == Max(known)
      yearly == IF last - 1 \in known THEN Fraction(Levels[last], Levels[last - 1]) ELSE Q(1)
  IN IF y <= last THEN Q(Levels[y]) ELSE Times(Q(Levels[last]), Power(yearly, y - last))
Restated(age, cutoff) ==
  IF Published(cutoff) = {} \/ cutoff - age < Min(Published(cutoff))
  THEN Power(Growth, age)
  ELSE Over(Level(cutoff, cutoff), Level(cutoff - age, cutoff))

\* build_sample, ordered by value: the points keep the tender they come from.
Age(c, cutoff) == cutoff - profile[c].opened
Point(c, cutoff) ==
  [of |-> c, value |-> Times(Q(award[c].value), Restated(Age(c, cutoff), cutoff)),
   weight |-> Score(profile[c]) * 2 ^ (MaxClock - Age(c, cutoff))]
Before(a, b) == Less(a.value, b.value) \/ (~Less(b.value, a.value) /\ a.of < b.of)
Sorted(points) ==
  [i \in 1..Cardinality(points) |->
     CHOOSE a \in points : Cardinality({b \in points : Before(b, a)}) = i - 1]
Sample(cutoff) ==
  Sorted({Point(c, cutoff) : c \in {c \in Similar(cutoff) : Score(profile[c]) >= 20 /\ award[c].value >= 1}})

(***************************************************************************)
(* weighted_quantile.                                                      *)
(***************************************************************************)
SumUpTo(points, i) == MapThenSumSet(LAMBDA j : points[j].weight, 1..i)
\* Mutant: the cumulative share, whose middle is not the middle of the sample.
Position_Cumulative(points, i) == Fraction(SumUpTo(points, i), SumUpTo(points, Len(points)))
Position(points, i) ==
  LET first == points[1].weight
      last == points[Len(points)].weight
  IN Fraction(2 * SumUpTo(points, i) - points[i].weight - first,
              2 * SumUpTo(points, Len(points)) - first - last)
Quantile(points, q) ==
  LET n == Len(points)
      at(i) == IF i = 1 THEN Q(0) ELSE IF i = n THEN Q(1) ELSE Position(points, i)
      hi == Min({i \in 1..n : Leq(q, at(i))})
      lo == hi - 1
      share == Over(Minus(q, at(lo)), Minus(at(hi), at(lo)))
  IN IF n = 1 \/ at(hi) = q THEN points[IF n = 1 THEN 1 ELSE hi].value
     ELSE Plus(points[lo].value, Times(share, Minus(points[hi].value, points[lo].value)))

(***************************************************************************)
(* Requests.                                                               *)
(***************************************************************************)
Init ==
  /\ clock = 1
  /\ subject \in Subjects
  /\ profile \in Markets
  /\ outcome = [c \in Ids |-> NoAward]
  /\ award = [c \in Ids |-> NoAward]
  /\ series = {} /\ harvests = 0
  /\ asked = Nothing /\ answer = Nothing

\* Time stops with the answer.
Tick ==
  /\ answer = Nothing /\ clock < MaxClock
  /\ clock' = clock + 1
  /\ UNCHANGED <<subject, profile, outcome, award, series, harvests, asked, answer>>

\* An award is decided after its offers open.
Decide(c, v) ==
  /\ answer = Nothing /\ outcome[c] = NoAward /\ profile[c].opened <= clock
  /\ outcome' = [outcome EXCEPT ![c] = [value |-> v, at |-> clock]]
  /\ UNCHANGED <<clock, subject, profile, award, series, harvests, asked, answer>>

\* store_awarding: delete and insert, so created_at is the last visit.
Harvest(c) ==
  /\ answer = Nothing /\ outcome[c] # NoAward /\ award[c].at # clock
  /\ harvests < MaxHarvests
  /\ harvests' = harvests + 1
  /\ award' = [award EXCEPT ![c] = [value |-> outcome[c].value, at |-> clock]]
  /\ UNCHANGED <<clock, subject, profile, outcome, series, asked, answer>>

\* price_indices.store
FetchIndices ==
  /\ answer = Nothing /\ series # 1..(clock - 1)
  /\ series' = 1..(clock - 1)
  /\ UNCHANGED <<clock, subject, profile, outcome, award, harvests, asked, answer>>

Suppressed(cutoff, grade, why) ==
  [cutoff |-> cutoff, grade |-> grade, why |-> why, sample |-> <<>>]

\* market_evidence, the first read.
Assess(asOf) ==
  /\ asked = Nothing /\ answer = Nothing
  /\ LET cutoff == Cutoff(asOf)
         grade == Grade(cutoff)
     IN IF AllowsMarket(grade.tier)
        THEN asked' = [cutoff |-> cutoff, grade |-> grade] /\ UNCHANGED answer
        ELSE answer' = Suppressed(cutoff, grade, grade.why) /\ UNCHANGED asked
  /\ UNCHANGED <<clock, subject, profile, outcome, award, series, harvests>>

\* market_quantiles after its retrieval, the second read.
MarketQuantiles ==
  /\ asked # Nothing
  /\ LET sample == Sample(asked.cutoff) IN
     answer' = IF sample = <<>> THEN Suppressed(asked.cutoff, asked.grade, "NO_COMPARABLE_TENDERS")
               ELSE [cutoff |-> asked.cutoff, grade |-> asked.grade, why |-> "none", sample |-> sample,
                     p10 |-> Quantile(sample, <<1, 10>>), p50 |-> Quantile(sample, <<1, 2>>),
                     p90 |-> Quantile(sample, <<9, 10>>)]
  /\ asked' = Nothing
  /\ UNCHANGED <<clock, subject, profile, outcome, award, series, harvests>>

Next ==
  \/ Tick
  \/ \E c \in Ids, v \in Values : Decide(c, v)
  \/ \E c \in Ids : Harvest(c)
  \/ FetchIndices
  \/ \E asOf \in 0..clock : Assess(asOf)
  \/ MarketQuantiles

Spec == Init /\ [][Next]_vars

AwardRows == [value : {0} \cup Values, at : 0..MaxClock]
TypeOK ==
  /\ clock \in 1..MaxClock /\ subject \in Subjects /\ profile \in Markets
  /\ outcome \in [Ids -> AwardRows] /\ award \in [Ids -> AwardRows]
  /\ series \subseteq 1..MaxClock /\ harvests \in 0..MaxHarvests
  /\ asked.cutoff \in 0..MaxClock /\ answer.cutoff \in 0..MaxClock

(***************************************************************************)
(* Properties.                                                             *)
(***************************************************************************)
Speaks == answer # Nothing /\ answer.why = "none"
Same(a, b) == Leq(a, b) /\ Leq(b, a)
Mirrored(points) == [i \in DOMAIN points |->
  [points[Len(points) + 1 - i] EXCEPT !.value = Times(Q(-1), @)]]
Raised(points) == [i \in DOMAIN points |->
  IF i = Len(points) THEN [points[i] EXCEPT !.value = Plus(@, Q(1))] ELSE points[i]]

\* A published band rests on enough graded awards and on a sample; it is
\* ordered, stays within the sample, ignores no point for being low or high (the
\* mirrored sample has the mirrored band), and moves up when a point does.
BandIsSound ==
  Speaks =>
    LET s == answer.sample IN
    /\ answer.grade.n >= Minimum.C
    /\ Leq(s[1].value, answer.p10) /\ Leq(answer.p10, answer.p50)
    /\ Leq(answer.p50, answer.p90) /\ Leq(answer.p90, s[Len(s)].value)
    /\ Same(answer.p90, Times(Q(-1), Quantile(Mirrored(s), <<1, 10>>)))
    /\ Same(answer.p50, Times(Q(-1), Quantile(Mirrored(s), <<1, 2>>)))
    /\ \A q \in {<<1, 10>>, <<1, 2>>, <<9, 10>>} : Leq(Quantile(s, q), Quantile(Raised(s), q))

\* Nothing decided after the cutoff enters the sample.
SampleWasKnowable ==
  Speaks => \A i \in DOMAIN answer.sample : outcome[answer.sample[i].of].at <= answer.cutoff

-----------------------------------------------------------------------------
\* The inductive invariant: what was asked between the two reads is graded, too.
BandInv ==
  /\ TypeOK
  /\ asked # Nothing => asked.grade.n >= Minimum.C
  /\ BandIsSound
=============================================================================
