---------------------------- MODULE MCWorkspace ----------------------------
(***************************************************************************)
(* A small instance of every component of Workspace, Corpus and Prices:    *)
(* the tenders, offers, sheets and numbers that a cfg cannot write down.   *)
(***************************************************************************)
EXTENDS Corpus, Prices, TLC

-----------------------------------------------------------------------------
(* Of MarketBand.                                                           *)
MarketTiers == [A |-> 3, B |-> 3, C |-> 2]
MarketRecent == [A |-> 8, B |-> 4]
IndexLevels == <<4, 5, 8>>
YearlyGrowth == <<3, 2>>

\* The subject opens in year 3, or has no date but that of its announcement.
Subjects ==
  {[opens |-> 3, last |-> 2, published |-> 1, active |-> TRUE],
   [opens |-> 0, last |-> 0, published |-> 3, active |-> FALSE]}

\* Of the subject's activity and, one of them aside, of its agency; the second opens late, or
\* all opened in the first year.
Comparable(opened, agency, scale, rest) ==
  [opened |-> opened, activity |-> 100, agency |-> agency, scale |-> scale, rest |-> rest,
   book |-> scale > 0]
MixedMarkets == {<<Comparable(1, 100, 100, 0), Comparable(2, 100, 0, 50), Comparable(1, 0, 0, 0)>>}
OldMarkets ==
  {<<Comparable(1, 100, 100, 0), Comparable(1, 100, 50, 0), Comparable(1, 100, 20, 0)>>}

(* Of CompetitorBand.                                                       *)
RivalTiers == [A |-> 3, B |-> 2, C |-> 1]
RivalRecent == [A |-> 2, B |-> 1]
LeastVariance == <<1, 16>>

Offer(rival, same, own, ratio) == [rival |-> rival, same |-> same, own |-> own, ratio |-> ratio]
Corpora ==
  {<<Offer(TRUE, TRUE, FALSE, 0), Offer(TRUE, FALSE, FALSE, 2), Offer(FALSE, TRUE, FALSE, 1),
     Offer(FALSE, TRUE, TRUE, 5)>>,
   <<Offer(TRUE, TRUE, FALSE, 3), Offer(TRUE, TRUE, FALSE, 3), Offer(TRUE, TRUE, FALSE, 4),
     Offer(FALSE, TRUE, FALSE, 0)>>}
Backgrounds ==
  {[n |-> n, like |-> 60, fresh |-> 50, priced |-> priced] : n \in {2, 3}, priced \in BOOLEAN}
    \ {[n |-> 2, like |-> 60, fresh |-> 50, priced |-> TRUE]}

(* Of Participation.                                                        *)
Tender(activity, agency, opens, bidders, awardees) ==
  [activity |-> activity, agency |-> agency, opens |-> opens, bidders |-> bidders,
   awardees |-> awardees]
Records ==
  {<<Tender(1, 0, 1, {1, 2}, 1), Tender(1, 1, 1, {1}, 2), Tender(1, 1, 3, {1, 2}, 1),
     Tender(0, 1, 2, {2}, 1)>>,
   <<Tender(0, 1, 1, {1, 2}, 1), Tender(1, 1, 1, {2}, 1), Tender(2, 1, 3, {1}, 1),
     Tender(0, 0, 0, {2}, 0)>>}

(* Of BoqPool, the merging of names and BoqReview.                          *)
Titles == [kind |-> "header", close |-> "none", fits |-> TRUE, priced |-> FALSE]
Blank == [Titles EXCEPT !.kind = "blank"]
Line(item, priced) == [Titles EXCEPT !.kind = "line", !.close = item, !.priced = priced]
Sheets ==
  {<<Titles, [Titles EXCEPT !.kind = "label"], Line("i1", TRUE), Blank, Blank, Line("i2", TRUE)>>,
   <<Blank, Blank, Titles, Line("i1", TRUE)>>}

\* Two names of one key, and one of another.
TwoOfThree == <<1, 1, 2>>

Cable(main, ground) == [conductors |-> 4, main |-> main, ground |-> ground]
NoCable == [conductors |-> -1, main |-> -1, ground |-> -1]
NoRating == [size |-> -1, unit |-> "none"]
Reviewable(key, words, cable, rating, price, total) ==
  [qty |-> 2, price |-> price, total |-> total, uneven |-> price = 3, text |-> price = 5,
   spec |-> rating # NoRating \/ cable # NoCable, vat |-> total = -1,
   key |-> key, words |-> words, short |-> IF key = "" THEN {} ELSE {"no"}, like |-> {},
   cable |-> cable, rating |-> rating]
Reviewables ==
  {Reviewable("ups", {"unit", "power"}, NoCable, [size |-> 60, unit |-> "kva"], 3, 6),
   Reviewable("ups", {"unit", "power"}, NoCable, [size |-> 30, unit |-> "kva"], 5, 10),
   Reviewable("breaker", {"unit", "power"}, NoCable, [size |-> 40, unit |-> "amp"], 4, -1),
   Reviewable("cable", {"cable"}, Cable(70, 35), NoRating, 3, 9),
   Reviewable("cable", {"cable"}, Cable(50, 25), NoRating, 4, 8),
   Reviewable("wire", {"cable"}, Cable(50, 50), NoRating, 5, 10),
   Reviewable("", {}, NoCable, [size |-> 60, unit |-> "kva"], 3, 0),
   Reviewable("", {}, NoCable, NoRating, -1, 0)}

\* No line is like a later one, or the first two are, or the last is like both.
ThreeLines ==
  {[i \in 1..3 |-> [lines[i] EXCEPT !.like = {p[2] : p \in {q \in near : q[1] = i}}]] :
     lines \in [1..3 -> Reviewables], near \in {{}, {<<1, 2>>}, {<<1, 3>>, <<2, 3>>}}}

-----------------------------------------------------------------------------
\* Every component: a behaviour follows one, and those of the other group rest.
WholeInit ==
  \/ (Init \/ CorpusInit) /\ model = "none" /\ m1 = 0 /\ m2 = 0 /\ Rest2
  \/ PriceInit /\ focus = "none" /\ v1 = 0 /\ v2 = 0 /\ After2
WholeNext ==
  \/ (Next \/ CorpusNext) /\ UNCHANGED prices
  \/ PriceNext /\ UNCHANGED vars
WholeSpec == WholeInit /\ [][WholeNext]_<<vars, prices>>

\* Of every component's variables.
WholeTypeOK == TypeOK /\ CorpusTypeOK /\ PriceTypeOK

\* The market alone.
MarketSpec == WholeInit /\ model = "market" /\ [][WholeNext]_<<vars, prices>>

\* The members of Pair are interchangeable.
PairSymmetry == Permutations(Pair)
=============================================================================
