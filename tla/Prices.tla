------------------------------- MODULE Prices -------------------------------
(***************************************************************************)
(* The models that draw prices from the corpus: the bid optimizer, the     *)
(* market and competitor bands, participation, the explanation of a price, *)
(* and the review of a sheet.  They share the evidence they read but take  *)
(* no step together, so one behaviour follows one of them: `model` names   *)
(* it, and m1 .. m9 hold its variables, in the order of its declaration.   *)
(***************************************************************************)
EXTENDS Integers, Sequences, FiniteSets

CONSTANTS
  BidGrid, BidRivals, BidOffers, BidIterations,            \* of BidOptimizer
  BidCosts, BidMargins, BidFloors, BidTargets, BidReserves, BidCaps,
  MarketMinimum, MarketEffective, MarketSubjects,          \* of MarketBand
  MarketIds, Markets, MarketValues, MarketLevels, MarketGrowth,
  MarketLimit, MarketClock, MarketVisits,
  RivalMinimum, RivalEffective, RivalOffers,               \* of CompetitorBand
  RivalCorpora, RivalBackgrounds, RivalK, RivalPrior, RivalVariance,
  RivalClock, RivalVisits,
  PastTenders, PastVendors, PastRecords,                   \* of Participation
  PastEvidence, PastMinTenders, PastMinEvents, PastLimit, PastClock, PastVisits,
  ShownTenders, ShownVendors, ShownValues, ShownThin, ShownVisits,  \* of Explanation
  ReviewSheets, ReviewTop, ReviewShare, ReviewTolerance    \* of BoqReview

VARIABLES model, m1, m2, m3, m4, m5, m6, m7, m8, m9

prices == <<model, m1, m2, m3, m4, m5, m6, m7, m8, m9>>

-----------------------------------------------------------------------------
Bid == INSTANCE BidOptimizer WITH
  Grid <- BidGrid, Rivals <- BidRivals, Offers <- BidOffers, Iterations <- BidIterations,
  Costs <- BidCosts, Margins <- BidMargins, Floors <- BidFloors, Targets <- BidTargets,
  Reserves <- BidReserves, Caps <- BidCaps,
  stage <- m1, scenarios <- m2, curve <- m3, proposed <- m4, asked <- m5, result <- m6

Market == INSTANCE MarketBand WITH
  Minimum <- MarketMinimum, Effective <- MarketEffective, Subjects <- MarketSubjects,
  Ids <- MarketIds, Markets <- Markets, Values <- MarketValues, Levels <- MarketLevels,
  Growth <- MarketGrowth, Limit <- MarketLimit, MaxClock <- MarketClock,
  MaxHarvests <- MarketVisits,
  clock <- m1, subject <- m2, profile <- m3, outcome <- m4, award <- m5, series <- m6,
  harvests <- m7, asked <- m8, answer <- m9

Competitor == INSTANCE CompetitorBand WITH
  Minimum <- RivalMinimum, Effective <- RivalEffective, Offers <- RivalOffers,
  Corpora <- RivalCorpora, Backgrounds <- RivalBackgrounds, K <- RivalK,
  MinPrior <- RivalPrior, MinVariance <- RivalVariance, MaxClock <- RivalClock,
  MaxHarvests <- RivalVisits,
  clock <- m1, corpus <- m2, at <- m3, market <- m4, harvests <- m5, asked <- m6,
  answer <- m7

Candidates == INSTANCE Participation WITH
  Tenders <- PastTenders, Vendors <- PastVendors, Records <- PastRecords,
  MinEvidence <- PastEvidence, MinTenders <- PastMinTenders, MinEvents <- PastMinEvents,
  Limit <- PastLimit, MaxClock <- PastClock, MaxHarvests <- PastVisits,
  clock <- m1, record <- m2, at <- m3, harvests <- m4, served <- m5, report <- m6

Explained == INSTANCE Explanation WITH
  Tenders <- ShownTenders, Vendors <- ShownVendors, Values <- ShownValues,
  Thin <- ShownThin, MaxHarvests <- ShownVisits,
  awards <- m1, lastId <- m2, vendors <- m3, asked <- m4, answer <- m5, harvests <- m6,
  ever <- m7, moved <- m8

Review == INSTANCE BoqReview WITH
  Sheets <- ReviewSheets, TopLines <- ReviewTop, CommonShare <- ReviewShare,
  Tolerance <- ReviewTolerance,
  sheet <- m1, findings <- m2

\* The grid is a finite set of positive prices; amounts are not negative, but a margin may be.
ASSUME BidAssumption ==
  /\ IsFiniteSet(BidGrid) /\ BidGrid # {} /\ BidGrid \subseteq Nat \ {0}
  /\ IsFiniteSet(BidRivals) /\ BidOffers \subseteq Nat /\ BidIterations \in Nat \ {0}
  /\ BidCosts \subseteq Nat /\ BidMargins \subseteq Int /\ BidFloors \subseteq Nat
  /\ BidTargets \subseteq Nat /\ BidReserves \subseteq Nat /\ BidCaps \subseteq Nat

\* A better tier asks for no fewer comparables, dates are within the years, and levels and
\* growth are positive.
ASSUME MarketAssumption ==
  /\ MarketMinimum \in [{"A", "B", "C"} -> Nat]
  /\ MarketMinimum.C <= MarketMinimum.B /\ MarketMinimum.B <= MarketMinimum.A
  /\ MarketClock \in Nat \ {0} /\ MarketVisits \in Nat
  /\ MarketSubjects \subseteq
       [opens : 0..MarketClock, last : 0..MarketClock, published : 0..MarketClock, active : BOOLEAN]
  /\ IsFiniteSet(MarketIds) /\ MarketIds \subseteq Nat /\ MarketValues \subseteq Nat
  /\ Markets \subseteq
       [MarketIds -> [opened : Nat, activity : 0..100, agency : 0..100, scale : 0..100,
                      rest : 0..100, book : BOOLEAN]]
  /\ MarketLevels \in Seq(Nat \ {0}) /\ MarketClock <= Len(MarketLevels)
  /\ MarketGrowth \in Market!Frac /\ MarketGrowth[1] > 0

\* An offer is of the competitor or not, of the subject's activity or not, its log ratio a
\* number of steps; the least variance is positive.
ASSUME RivalAssumption ==
  /\ IsFiniteSet(RivalOffers)
  /\ RivalCorpora \subseteq
       [RivalOffers -> [rival : BOOLEAN, same : BOOLEAN, own : BOOLEAN, ratio : Int]]
  /\ RivalK \in Nat /\ RivalPrior \in Nat \ {0}
  /\ RivalVariance \in Competitor!Frac /\ RivalVariance[1] > 0
  /\ RivalClock \in Nat \ {0} /\ RivalVisits \in Nat

\* Tenders and vendors have ids, and each of them has something on record.
ASSUME PastAssumption ==
  /\ IsFiniteSet(PastTenders) /\ PastTenders \subseteq Nat \ {0}
  /\ IsFiniteSet(PastVendors) /\ PastVendors \subseteq Nat \ {0}
  /\ PastRecords \subseteq [PastTenders -> Candidates!OnRecord]
  /\ PastEvidence \in Nat /\ PastLimit \in Nat /\ PastClock \in Nat \ {0} /\ PastVisits \in Nat

\* A retrieval is a finite list; an award value is a positive amount, or NULL.
ASSUME ShownAssumption ==
  /\ IsFiniteSet(ShownTenders) /\ ShownValues \subseteq Nat \ {0} /\ ShownVisits \in Nat

\* A sheet is a list of parsed lines.
ASSUME ReviewAssumption ==
  /\ ReviewSheets \subseteq Seq(Review!Line)
  /\ \A lines \in ReviewSheets : \A i \in DOMAIN lines :
       IsFiniteSet(lines[i].words) /\ IsFiniteSet(lines[i].short)

-----------------------------------------------------------------------------
\* The slots after the first so many hold nothing.
Rest8 == m9 = 0
Rest7 == m8 = 0 /\ Rest8
Rest6 == m7 = 0 /\ Rest7
Rest2 == m3 = 0 /\ m4 = 0 /\ m5 = 0 /\ m6 = 0 /\ Rest6

PriceInit ==
  \/ model = "bid" /\ Bid!Init /\ Rest6
  \/ model = "market" /\ Market!Init
  \/ model = "competitor" /\ Competitor!Init /\ Rest7
  \/ model = "candidates" /\ Candidates!Init /\ Rest6
  \/ model = "explained" /\ Explained!Init /\ Rest8
  \/ model = "review" /\ Review!Init /\ Rest2

PriceNext ==
  \/ model = "bid" /\ Bid!Next /\ UNCHANGED <<model, m7, m8, m9>>
  \/ model = "market" /\ Market!Next /\ UNCHANGED model
  \/ model = "competitor" /\ Competitor!Next /\ UNCHANGED <<model, m8, m9>>
  \/ model = "candidates" /\ Candidates!Next /\ UNCHANGED <<model, m7, m8, m9>>
  \/ model = "explained" /\ Explained!Next /\ UNCHANGED <<model, m9>>
  \/ model = "review" /\ Review!Next /\ UNCHANGED <<model, m3, m4, m5, m6, m7, m8, m9>>

PriceSpec == PriceInit /\ [][PriceNext]_prices

-----------------------------------------------------------------------------
\* Of the price models' variables.
PriceTypeOK ==
  /\ model = "bid" => Bid!TypeOK
  /\ model = "market" => Market!TypeOK
  /\ model = "competitor" => Competitor!TypeOK
  /\ model = "candidates" => Candidates!TypeOK
  /\ model = "explained" => Explained!TypeOK
  /\ model = "review" => Review!TypeOK

\* What the optimizer returns is the best grid price that keeps every constraint, its bands
\* keep them too, and the simulation behind it adds up (optimizer.py).
BestBidIsFeasible ==
  model = "bid" => Bid!BestFeasibleBid /\ Bid!BandsAreFeasible /\ Bid!SimulationCoheres

\* The market band is drawn from awards on record, in order, around its own centre, and
\* claims no tier its sample misses (market.py); the competitor's band lies between its own
\* history and the market, and never uses the subject's own offers (competitor.py); the facts
\* shown behind a band are rows on record, those of its sample unless they moved (explain.py).
BandsAreHonest ==
  /\ model = "market" => Market!BandIsSound
  /\ model = "competitor" => Competitor!PoolingIsHonest
  /\ model = "explained" =>
       Explained!ObservedWasOnRecord /\ Explained!SampleIsShown /\ Explained!BlindBandIsWarned

\* The probabilities that calibration scores are those the list of candidates would have
\* served on that day (participation.py).
CalibratesWhatIsServed == model = "candidates" => Candidates!CalibratesWhatIsServed

\* The review of a sheet accuses no line that is not larger and cheaper than the other, and
\* no pair both ways; what its rules find does not depend on the order of the lines, but for
\* the pairs that the matcher of texts adds (boq_review.py).
ReviewIsSound == model = "review" => Review!ReviewIsFair /\ Review!InversionsAreReal

\* What a docstring promises of the market band: no award decided after the cutoff is in its
\* sample (market.py).
SampleWasKnowable == model = "market" => Market!SampleWasKnowable
=============================================================================
