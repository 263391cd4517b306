----------------------------- MODULE Explanation -----------------------------
(***************************************************************************)
(* Why a price-to-win number says what it says (explain.build_explanation, *)
(* called by orchestrator.tender_intelligence).  What is shown as observed *)
(* is not the sample that the band was drawn from: the awards are read     *)
(* again, after the market and the competitors were assessed, and the      *)
(* vendors after that, while harvests replace award rows and the merge of  *)
(* vendors removes vendor rows.  A read that fails counts as empty.        *)
(*                                                                         *)
(* An award row is its id and its value, 0 for NULL.  What the band and    *)
(* its evidence are is MarketBand's matter; here a band is priced or       *)
(* suppressed.  Ages, medians and drivers are restated from these lists    *)
(* and left out, and so is the lineage, which no code writes.              *)
(***************************************************************************)
EXTENDS Integers, FiniteSets

CONSTANTS
  Tenders,     \* comparable tenders
  Vendors,
  Values,      \* award values
  Thin,        \* 5: fewer comparables are called a thin sample
  MaxHarvests  \* bound: harvests of awards

VARIABLES
  awards,      \* of each tender: its award rows
  lastId,
  vendors,     \* rows of vendors
  asked,       \* the request: stage, similar tenders, market, field, facts
  answer,      \* the explanation it got, with the sample that it explains
  harvests,
  ever,        \* history: award rows on record at some time of the request
  moved        \* history: since the request began rows changed or a read failed

vars == <<awards, lastId, vendors, asked, answer, harvests, ever, moved>>

Ids == 1 .. (2 * MaxHarvests)
Rows == [id : Ids, value : {0} \cup Values]
NoAward == [id |-> 0, value |-> 0]
Grades == {"none", "suppressed", "priced"}
NoField == [v \in Vendors |-> "none"]
Resting == [stage |-> "off", similar |-> {}, market |-> "suppressed", field |-> NoField,
            facts |-> {}]
NoAnswer == [observed |-> {}, named |-> {}, untraceable |-> 0, used |-> 0, excluded |-> 0,
             predicted |-> {}, warnings |-> {}, usable |-> {}, field |-> NoField]

Fact == [tender : Tenders, row : Rows]
Comparable == [tender : Tenders, excluded : BOOLEAN, value : {0} \cup Values]
Request ==
  [stage : {"off", "market", "field", "facts", "vendors"}, similar : SUBSET Comparable,
   market : {"suppressed", "priced"}, field : [Vendors -> Grades], facts : SUBSET Fact]
Explanations ==
  [observed : SUBSET Fact, named : SUBSET Vendors, untraceable : Nat, used : Nat,
   excluded : Nat, predicted : SUBSET ({"market"} \cup Vendors),
   warnings : SUBSET {"no number", "untraceable", "thin", "no comparables", "competitors"},
   usable : SUBSET Comparable, field : [Vendors -> Grades]]

TypeOK ==
  /\ awards \in [Tenders -> SUBSET Rows] /\ lastId \in {0} \cup Ids
  /\ vendors \subseteq Vendors
  /\ asked \in Request /\ answer \in Explanations
  /\ harvests \in 0 .. MaxHarvests /\ ever \subseteq Fact /\ moved \in BOOLEAN

Init ==
  /\ awards = [t \in Tenders |-> {}] /\ lastId = 0 /\ vendors = Vendors
  /\ asked = Resting /\ answer = NoAnswer /\ harvests = 0 /\ ever = {} /\ moved = FALSE

-----------------------------------------------------------------------------
OnRecord(table) == UNION {{[tender |-> t, row |-> row] : row \in table[t]} : t \in Tenders}

\* store_awarding replaces the rows of a tender, with new ids.
Harvest(t) ==
  /\ harvests < MaxHarvests
  /\ \E first \in {0} \cup Values, second \in {-1} \cup Values :
       LET rows == {[id |-> lastId + 1, value |-> first]}
                     \cup (IF second < 0 THEN {} ELSE {[id |-> lastId + 2, value |-> second]})
       IN /\ awards' = [awards EXCEPT ![t] = rows]
          /\ lastId' = lastId + Cardinality(rows)
  /\ ever' = ever \cup OnRecord(awards')
  /\ moved' = TRUE
  /\ harvests' = harvests + 1
  /\ UNCHANGED <<vendors, asked, answer>>

\* A bidders' page without an award leaves the tender without a row.
Unaward(t) ==
  /\ harvests < MaxHarvests /\ awards[t] # {}
  /\ awards' = [awards EXCEPT ![t] = {}]
  /\ moved' = TRUE
  /\ harvests' = harvests + 1
  /\ UNCHANGED <<lastId, vendors, asked, answer, ever>>

\* dedupe_vendors removes a vendor that was merged into another.
Merge(v) ==
  /\ v \in vendors
  /\ vendors' = vendors \ {v}
  /\ moved' = TRUE
  /\ UNCHANGED <<awards, lastId, asked, answer, harvests, ever>>

-----------------------------------------------------------------------------
First(rows) ==
  IF rows = {} THEN NoAward ELSE CHOOSE r \in rows : \A s \in rows : r.id <= s.id

\* The award that the retrieval joins to a candidate.
Retrieved(t) == First({r \in awards[t] : r.value # 0})

\* The candidates, excluded for a date that is too late or for want of a value.
Candidates(late) ==
  {[tender |-> t, value |-> Retrieved(t).value,
    excluded |-> t \in late \/ Retrieved(t).value = 0] : t \in Tenders}

Usable(similar) == {s \in similar : ~s.excluded /\ s.value # 0}

FindSimilar ==
  /\ asked.stage = "off"
  /\ \/ /\ \E late \in SUBSET Tenders :
             asked' = [Resting EXCEPT !.stage = "market", !.similar = Candidates(late)]
        /\ moved' = FALSE
     \/ asked' = [Resting EXCEPT !.stage = "market"] /\ moved' = TRUE
  /\ ever' = OnRecord(awards)
  /\ answer' = NoAnswer
  /\ UNCHANGED <<awards, lastId, vendors, harvests>>

\* Without similar tenders the market model retrieves them itself.
Sampled ==
  IF asked.similar # {} THEN {Usable(asked.similar)}
  ELSE {Usable(Candidates(late)) : late \in SUBSET Tenders}

MarketQuantiles ==
  /\ asked.stage = "market"
  /\ \E sample \in Sampled, market \in {"suppressed", "priced"} :
       /\ market = "priced" => sample # {}
       /\ asked' = [asked EXCEPT !.stage = "field", !.market = market]
  /\ UNCHANGED <<awards, lastId, vendors, answer, harvests, ever, moved>>

\* Competitors are looked for only around a band that is served.
CompetitorField ==
  /\ asked.stage = "field"
  /\ \E field \in [Vendors -> Grades] :
       /\ \A v \in Vendors : field[v] # "none" => v \in vendors /\ asked.market = "priced"
       /\ asked' = [asked EXCEPT !.stage = "facts", !.field = field]
  /\ UNCHANGED <<awards, lastId, vendors, answer, harvests, ever, moved>>

\* Mutant: the first award row would be cited, with or without a value.
Cited_Any(t) == First(awards[t])

\* The award row that the explanation cites for a comparable.
Cited(t) == First({r \in awards[t] : r.value # 0})

ObservedComparables ==
  /\ asked.stage = "facts"
  /\ \/ /\ asked' = [asked EXCEPT !.stage = "vendors",
                       !.facts = {f \in {[tender |-> s.tender, row |-> Cited(s.tender)] :
                                           s \in Usable(asked.similar)} : f.row.value # 0}]
        /\ UNCHANGED moved
     \/ asked' = [asked EXCEPT !.stage = "vendors"] /\ moved' = TRUE
  /\ UNCHANGED <<awards, lastId, vendors, answer, harvests, ever>>

-----------------------------------------------------------------------------
Graded(grade) == {v \in Vendors : asked.field[v] = grade}
Predicted == (IF asked.market = "priced" THEN {"market"} ELSE {}) \cup Graded("priced")

Warnings(untraceable, used) ==
  (IF asked.market = "suppressed" THEN {"no number"} ELSE {})
    \cup (IF untraceable > 0 THEN {"untraceable"} ELSE {})
    \cup (IF used \in 1 .. (Thin - 1) THEN {"thin"} ELSE {})
    \cup (IF used = 0 THEN {"no comparables"} ELSE {})
    \cup (IF Graded("suppressed") # {} THEN {"competitors"} ELSE {})

\* The vendors are read, or not, and the lists assembled.
BuildExplanation ==
  /\ asked.stage = "vendors"
  /\ LET usable == Usable(asked.similar)
         used == Cardinality(asked.facts)
         untraceable == Cardinality(usable) - used
     IN \E named \in {{}, vendors \ Graded("none")} :
          answer' = [observed |-> asked.facts, named |-> named, untraceable |-> untraceable,
                     used |-> used,
                     excluded |-> Cardinality({s \in asked.similar : s.excluded}),
                     predicted |-> Predicted, warnings |-> Warnings(untraceable, used),
                     usable |-> usable, field |-> asked.field]
  /\ asked' = Resting
  /\ UNCHANGED <<awards, lastId, vendors, harvests, ever, moved>>

Next ==
  \/ \E t \in Tenders : Harvest(t) \/ Unaward(t)
  \/ \E v \in Vendors : Merge(v)
  \/ FindSimilar \/ MarketQuantiles \/ CompetitorField
  \/ ObservedComparables \/ BuildExplanation

Spec == Init /\ [][Next]_vars

-----------------------------------------------------------------------------
\* What is shown as observed was on record at some time of the request, under
\* the id that is cited, for a comparable of the sample; a comparable that is
\* not shown is counted; and only vendors of the field are named.
ObservedWasOnRecord ==
  /\ answer.observed \subseteq ever
  /\ \A f \in answer.observed : \E s \in answer.usable : s.tender = f.tender
  /\ Cardinality(answer.observed) + answer.untraceable = Cardinality(answer.usable)
  /\ \A v \in answer.named : answer.field[v] # "none"

\* Unless rows changed meanwhile or a read failed, the facts shown are the
\* sample that the band was drawn from, value by value, and there is at least
\* one behind a band.
SampleIsShown ==
  asked.stage = "off" /\ ~moved =>
    /\ {[tender |-> f.tender, value |-> f.row.value] : f \in answer.observed}
         = {[tender |-> s.tender, value |-> s.value] : s \in answer.usable}
    /\ "market" \in answer.predicted => answer.observed # {}

\* A band without a fact behind it is never shown without the warning, a band
\* that is withheld is named as such, and then no competitor is priced either.
BlindBandIsWarned ==
  answer # NoAnswer =>
    /\ "market" \in answer.predicted /\ answer.observed = {} =>
         "no comparables" \in answer.warnings
    /\ "market" \notin answer.predicted =>
         "no number" \in answer.warnings /\ answer.predicted = {}

-----------------------------------------------------------------------------
(* The inductive invariant.                                                 *)

\* What is on record now is remembered, and the ids given out suffice for the harvests to come.
RecordInv == OnRecord(awards) \subseteq ever /\ lastId <= 2 * harvests

\* A tender is listed once; while nothing moved, every tender is, with the value of the row
\* that would be cited.
SimilarInv ==
  /\ \A s, r \in asked.similar : s.tender = r.tender => s = r
  /\ asked.stage # "off" /\ ~moved =>
       /\ \A t \in Tenders : \E s \in asked.similar : s.tender = t
       /\ \A s \in asked.similar : s.value = Retrieved(s.tender).value

\* A fact was on record, for a usable comparable, one for each; while nothing moved, for all.
FactsInv ==
  /\ asked.facts \subseteq ever
  /\ \A f \in asked.facts : \E s \in Usable(asked.similar) : s.tender = f.tender
  /\ \A f, g \in asked.facts : f.tender = g.tender => f = g
  /\ asked.stage = "vendors" /\ ~moved =>
       asked.facts = {[tender |-> s.tender, row |-> Cited(s.tender)] : s \in Usable(asked.similar)}

\* A band has a sample, unless rows moved, and a competitor's grade has a band before it.
BandInv ==
  /\ asked.market = "priced" /\ ~moved => Usable(asked.similar) # {}
  /\ \A v \in Vendors : asked.field[v] # "none" =>
                           asked.market = "priced" /\ asked.stage # "market"

ShownInv ==
  /\ TypeOK /\ RecordInv /\ SimilarInv /\ FactsInv /\ BandInv
  /\ ObservedWasOnRecord /\ SampleIsShown /\ BlindBandIsWarned
=============================================================================
